--------------------------- MODULE ReconcilePlan ----------------------------
(***************************************************************************)
(* What a reconciliation request is, and what admission and staleness make *)
(* of one: the pure part of the plan, shared by the pipeline               *)
(* (ReconcileReactor) and by its contract (ReconcileContract).             *)
(***************************************************************************)
EXTENDS Naturals, Sequences

CONSTANTS
    Path,       \* the files of the project, by canonical identity
    Root,       \* those inside the authorized project root
    Recipe,     \* (template, out_template) pairs, the keys of the manifest
    Text,       \* what templates render and users write
    Slotted,    \* the texts that hold the marker line injections look for
    Frag,       \* the snippets injections splice in
    Torn,       \* what a write that died half way leaves
    Absent,     \* no file at a path; no entry in the manifest
    NoRequest,  \* no run in progress
    Request     \* the requests that may be made

Content == [base : Text \cup {Torn}, frags : SUBSET Frag]
State == Content \cup {Absent}
Rendered(t) == [base |-> t, frags |-> {}]

Hook == {"sh_before", "sh_after"}

\* One resolved target: a file to write (skipped when the existing content is
\* in skipOn: unless_exists and skip_if), a snippet to inject, code to run.
\* The first two may have shell commands run before and after them.
Target ==
    [op : {"file"}, path : Path, recipe : Recipe, text : Text, skipOn : SUBSET Content,
     hooks : SUBSET Hook]
      \cup [op : {"inject"}, path : Path, frag : Frag, hooks : SUBSET Hook]
      \cup [op : {"eval"}]

ASSUME SubsetsAssumption == Root \subseteq Path /\ Slotted \subseteq Text
ASSUME RequestAssumption ==
    \A r \in Request :
        /\ r = [targets |-> r.targets, onStale |-> r.onStale, mode |-> r.mode]
        /\ r.targets \in Seq(Target) /\ r.targets # <<>>
        /\ r.onStale \in {"refuse", "prune", "preserve"}
        /\ r.mode \in {"apply", "dry", "check"}

-----------------------------------------------------------------------------
(* The manifest and the receipts *)

Entry == [outputs : [Path -> State], run : Nat]

\* A recipe with no entry and one with no outputs are told apart nowhere.
NoEntry == [outputs |-> [p \in Path |-> Absent], run |-> 0]

OutputPaths(entry) == {p \in Path : entry.outputs[p] # Absent}

Standing == {"alive", "refused", "compensated", "build_broken", "compensation_failed"}

-----------------------------------------------------------------------------
(* The plan *)

FileItems(r) == {i \in DOMAIN r.targets : r.targets[i].op = "file"}
WriteItems(r) == {i \in DOMAIN r.targets : r.targets[i].op \in {"file", "inject"}}
NewPaths(r) == {r.targets[i].path : i \in FileItems(r)}
Group(r, k) == {i \in FileItems(r) : r.targets[i].recipe = k}
SingleRow(r, k) == \E i \in Group(r, k) : Group(r, k) = {i}

\* Code of the template's author runs: an eval body or a shell hook.
RunsCode(t) == t.op = "eval" \/ t.hooks # {}

\* compute_stale_deletes/2: what the request's recipes owned and no file
\* target of the request produces.  Recipes not in the request are not looked at.
StalePaths(r, m) ==
    UNION {OutputPaths(m[k]) : k \in {j \in Recipe : Group(r, j) # {}}} \ NewPaths(r)

\* admit_pending/2.
Admissible(r, m) ==
    LET writes == {r.targets[i].path : i \in WriteItems(r)}
        doomed == StalePaths(r, m)
    IN  /\ \A i, j \in WriteItems(r) :
              r.targets[i].path = r.targets[j].path => i = j
        /\ writes \cup doomed \subseteq Root
        /\ writes \cap doomed = {}
        /\ r.onStale = "refuse" => doomed = {}

=============================================================================
