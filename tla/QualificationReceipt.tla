------------------------ MODULE QualificationReceipt ------------------------
(***************************************************************************)
(* bin/receipt.py of the ash-manufacture-pack: the standings of a           *)
(* qualification, read back from the artifacts it left.                    *)
(*                                                                         *)
(* An artifact is a set of at most one element: {} is a file that is not   *)
(* there.  A tree manifest maps each path of the tree to its content; a row *)
(* of the ledger is [label, exit, expected], its label [step, phase, run]. *)
(***************************************************************************)
EXTENDS Integers, Sequences, FiniteSets

\* same(): identical, and both there.
Same(a, b) == a # {} /\ a = b

\* Mutant: two missing artifacts have the same digest.
CompareStateNone(a, b) == IF a = b THEN "identical" ELSE "differs"

\* compare_state(): what was observed about two artifacts.
CompareState(a, b) ==
    CASE a = {} \/ b = {} -> "absent"
      [] a # {} /\ a = b -> "identical"
      [] OTHER -> "differs"

RowsOf(rows, steps) == {i \in DOMAIN rows : rows[i].label.step \in steps}
AsExpected(row) == row.exit = row.expected
FailedRows(rows) == {i \in DOMAIN rows : ~AsExpected(rows[i])}

\* bool(selected) and all(...): a check that never ran is not a clean one.
AllAsExpected(rows, step) ==
    /\ RowsOf(rows, {step}) # {}
    /\ \A i \in RowsOf(rows, {step}) : AsExpected(rows[i])

ChecksClean(rows) ==
    /\ RowsOf(rows, {"check"}) # {}
    /\ \A i \in RowsOf(rows, {"check"}) : rows[i].exit = 0

Succeeded(rows, step, phase, run) ==
    \E i \in DOMAIN rows : /\ rows[i].label = [step |-> step, phase |-> phase, run |-> run]
                           /\ rows[i].exit = 0

TreeFixpoint(T) == Same(T[1], T[2]) /\ Same(T[2], T[3])
\* Mutant: three equal captures, of whatever.
DbIdenticalDegenerate(rows, D) == Same(D[1], D[2]) /\ Same(D[2], D[3])

DbIdentical(rows, D) ==
    /\ Same(D[1], D[2]) /\ Same(D[2], D[3])
    /\ AllAsExpected(rows, "db-nondegenerate")

Standings == {"ONTOLOGY", "ASH_MANUFACTURE", "IDEMPOTENCY", "OCEL_PROCESS",
              "AGENT_HANDWRITE_REFUSAL", "ASH_RUNTIME"}

Alive(rows, T, D, logs, verdict) ==
    [ONTOLOGY |-> Succeeded(rows, "ggen-sync", "none", 0),
     ASH_MANUFACTURE |-> /\ Succeeded(rows, "manufacture", "base", 1)
                         /\ Succeeded(rows, "manufacture", "core", 1)
                         /\ Succeeded(rows, "compile", "core", 1)
                         /\ Succeeded(rows, "ash-setup", "none", 1),
     IDEMPOTENCY |-> ChecksClean(rows) /\ TreeFixpoint(T) /\ DbIdentical(rows, D),
     OCEL_PROCESS |-> logs # 0 /\ verdict = "conformant",
     AGENT_HANDWRITE_REFUSAL |-> AllAsExpected(rows, "guard"),
     ASH_RUNTIME |-> /\ Succeeded(rows, "ash-setup-test-env", "none", 1)
                     /\ Succeeded(rows, "resources-execute", "none", 1)]

\* Each entry: the oracle that is not green, and what was observed of it.
Compared(T, D) ==
    {<<"tree_T1_T2", CompareState(T[1], T[2])>>, <<"tree_T2_T3", CompareState(T[2], T[3])>>,
     <<"db_D1_D2", CompareState(D[1], D[2])>>, <<"db_D2_D3", CompareState(D[2], D[3])>>}
Unless(clean, name) == IF clean THEN {} ELSE {<<name, "failed">>}
FailedOracles(rows, T, D) ==
    {c \in Compared(T, D) : c[2] # "identical"}
    \cup Unless(ChecksClean(rows), "igniter_check")
    \cup Unless(AllAsExpected(rows, "db-nondegenerate"), "db_nondegenerate")

\* manifest_paths(): a file that is not there is an empty tree.
Manifest(a) == IF a = {} THEN <<>> ELSE CHOOSE t \in a : TRUE
\* Mutant: no falling back to the tree of run 2.
FinalTreeOfRun3(T) == Manifest(T[3])

FinalTree(T) == Manifest(IF T[3] # {} THEN T[3] ELSE T[2])

Provenance(T) ==
    LET first == Manifest(T[0])
        final == FinalTree(T)
        kept == DOMAIN first \cap DOMAIN final
    IN  [handwritten |-> {p \in kept : final[p] = first[p]},
         modified |-> {p \in kept : final[p] # first[p]},
         removed |-> DOMAIN first \ DOMAIN final,
         generated |-> DOMAIN final \ DOMAIN first]

Receipt(rows, T, D, logs, verdict) ==
    [alive |-> Alive(rows, T, D, logs, verdict),
     failedOracles |-> FailedOracles(rows, T, D),
     files |-> Provenance(T),
     exit |-> IF FailedRows(rows) = {} THEN 0 ELSE 1]
=============================================================================
