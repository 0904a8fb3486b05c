---------------------------- MODULE Qualification ----------------------------
(***************************************************************************)
(* bin/qualify.sh of the ash-manufacture-pack: the ladder of steps that     *)
(* resets a fixture, manufactures it three times, migrates its databases,   *)
(* seals and copies the logs and writes a receipt.  One action per kind of  *)
(* step; a step that fails is recorded and the ladder goes on.             *)
(*                                                                         *)
(* tree maps each path to its text: "v1" what the generators write, "v2"   *)
(* what an unstable generator writes, "old" a survivor of an earlier       *)
(* qualification; a config is "bare" (no database), "shared" (the database *)
(* the installer names) or "scoped" (the database of this run).            *)
(***************************************************************************)
EXTENDS QualificationReceipt, Conformance

CONSTANTS
    Plan,        \* the steps the ontology projects, in order
    EditedPlan,  \* those of a task edited by hand in the fixture
    Caps,        \* each declared mix task, and whether it is admitted
    Modules,     \* the subjects that are modules, each a file of the tree
    Resources,   \* the modules with a table
    RepoModule,  \* the one whose installer writes the database configuration
    ResetOrder,  \* the manufactured paths in the order day_zero.sh removes them
    Shortfalls,  \* the paths whose lines a tree capture may lack, short of all
    MaxFaults    \* how many steps may fail of themselves

Phases == {"base", "core"}
Envs == {"dev", "test"}
Sites == {"shared", "scoped"}
Paths == Modules \cup Envs \cup {"task", "migration"}
Gone == "gone"
Texts == {Gone, "bare", "shared", "scoped", "v1", "v2", "old", "edited"}
Schemas == {"none", "empty", "v1", "v2", "old"}

ASSUME PlanAssumption ==
    /\ RepoModule \in Modules /\ Resources \subseteq Modules
    /\ Modules \cap (Envs \cup {"task", "migration"}) = {}
    /\ ResetOrder \in Seq(Modules \cup {"task", "migration"})
    /\ IsFiniteSet(DOMAIN Caps) /\ Caps \in [DOMAIN Caps -> BOOLEAN]
    /\ \A plan \in {Plan, EditedPlan} :
           /\ plan \in Seq(Range(plan))
           /\ \A i \in DOMAIN plan :
                  /\ plan[i].phase \in Phases
                  /\ plan[i].task \in DOMAIN Caps
                  /\ plan[i].guarded => plan[i].subject \in Modules
                  /\ plan[i].drains \in Seq(Range(plan[i].drains))
    /\ Shortfalls \subseteq SUBSET Paths
    /\ MaxFaults \in Nat

VARIABLES
    pos,          \* the next step of Ladder
    tree, live,   \* the fixture: its files, and the log of each phase
    db,           \* the schema of each environment's databases
    rows, failed, \* steps.jsonl and $FAILED
    compileExit,  \* the *_COMPILE_EXIT each phase's log is sealed with
    T, D, ocel,   \* tree manifests, database captures, copied logs
    short,        \* a history: the runs whose manifest lacks lines
    drift, verdict, receipt, \* drift.json, conformance.json, receipt.json
    killed,       \* the harness was interrupted
    reset,        \* day_zero.sh ran to its end
    broken,       \* what fails whenever it runs: a phase with a conflict, psql, shasum
    faults
fixture == <<tree, live, db>>
evidence == <<T, short, D, ocel, drift, verdict, receipt>>
vars == <<pos, fixture, rows, failed, compileExit, evidence, killed, reset, broken, faults>>

S(step, phase, run) == [step |-> step, phase |-> phase, run |-> run]
Manufactured(run) == <<S("manufacture", "base", run), S("manufacture", "core", run)>>
SealedLogs(run) == <<S("seal", "base", run), S("seal", "core", run)>>
Checked(run) == <<S("check", "base", run), S("check", "core", run)>>

Reset == <<S("day-zero", None, 0), S("deps-get", None, 0), S("baseline-compile", None, 0),
           S("tree-hash", None, 0), S("ggen-sync", None, 0),
           S("compile-manufacture-task", None, 0), S("drift-check", None, 0),
           S("evidence-citations", None, 0)>>
Run1 == <<S("manufacture", "base", 1), S("compile", "base", 1), S("isolate", None, 1),
          S("manufacture", "core", 1), S("compile", "core", 1)>> \o SealedLogs(1)
        \o <<S("ash-codegen", None, 1), S("ash-setup", None, 1),
             S("db-fingerprint", None, 1), S("db-nondegenerate", None, 1),
             S("compile-after-lifecycle", None, 1), S("ash-setup-test-env", None, 1),
             S("resources-execute", None, 1), S("tree-hash", None, 1),
             S("copy-ocel", None, 1)>> \o Checked(1)
Run2 == Manufactured(2)
        \o <<S("ash-codegen", None, 2), S("compile", None, 2), S("ash-setup", None, 2),
             S("db-fingerprint", None, 2), S("db-diff", None, 2)>> \o SealedLogs(2)
        \o <<S("tree-hash", None, 2), S("tree-diff", None, 2), S("copy-ocel", None, 2)>>
        \o Checked(2)
Run3 == Manufactured(3)
        \o <<S("ash-codegen", None, 3), S("compile", None, 3)>> \o SealedLogs(3)
        \o <<S("copy-ocel", None, 3), S("ash-migrate", None, 3),
             S("db-fingerprint", None, 3), S("db-diff", None, 3),
             S("tree-hash", None, 3), S("tree-diff", None, 3)>> \o Checked(3)
Report == <<S("guard", "blocks-ash-resource", 0), S("guard", "blocks-base-resource-header", 0),
            S("guard", "allows-plain-elixir", 0), S("guard", "allows-manufactured-task", 0),
            S("beam4pm-import", None, 0), S("drift-report", None, 0),
            S("conformance", None, 0), S("receipt", None, 0)>>
Ladder == Reset \o Run1 \o Run2 \o Run3 \o Report

Rowless == {"day-zero", "tree-hash", "copy-ocel", "drift-report", "conformance", "receipt"}

-----------------------------------------------------------------------------
(* What a rendered task contains.                                           *)

PlanOf(text) == CASE text = "v1" -> Plan [] text = "edited" -> EditedPlan [] OTHER -> <<>>
Projected(plan) == \A i \in DOMAIN plan : Caps[plan[i].task]

Refused == SetToSeq({c \in DOMAIN Caps : ~Caps[c]})

Object(id, qualifier, type) == [object |-> id, qualifier |-> qualifier, type |-> type]
Event(activity, s, more) ==
    [activity |-> activity, phase |-> s.phase, step |-> s.step, exit |-> Null,
     objects |-> <<Object(s.subject, "subject", s.type),
                   Object(s.task, "generator", "mix_task")>> \o more]
Refusal(task) ==
    [activity |-> "capability_refused", phase |-> None, step |-> None, exit |-> Null,
     objects |-> <<Object(task, "generator", "mix_task")>>]

Composes(t, s) == ~(s.guarded /\ t[s.subject] # Gone)
StepEvents(t, s) ==
    IF Composes(t, s)
    THEN <<Event("task_composed", s, <<>>)>>
         \o [i \in DOMAIN s.drains |->
                Event("queued_task_dropped", s,
                      <<Object(s.drains[i], "dropped_task", "mix_task")>>)]
    ELSE <<Event("task_admission_refused", s, <<>>)>>

\* igniter/1 over a tree: the events of the steps, then the refusals.
Decisions(t, phase) ==
    LET plan == PlanOf(t["task"])
    IN  FlattenSeq([i \in DOMAIN plan |->
                       IF plan[i].phase = phase THEN StepEvents(t, plan[i]) ELSE <<>>])
        \o [i \in DOMAIN Refused |-> Refusal(Refused[i])]

ComposedSubjects(phase) ==
    LET plan == PlanOf(tree["task"])
    IN  {plan[i].subject : i \in {k \in DOMAIN plan : /\ plan[k].phase = phase
                                                      /\ Composes(tree, plan[k])}} \cap Modules

\* The files Igniter writes when it applies these subjects: those not there
\* yet, and with the repo the configurations without a database.
WithSubjects(subjects) ==
    [p \in Paths |->
        IF p \in subjects /\ tree[p] = Gone THEN "v1"
        ELSE IF p \in Envs /\ RepoModule \in subjects /\ tree[p] = "bare" THEN "shared"
        ELSE tree[p]]
NothingToDo(phase) == WithSubjects(ComposedSubjects(phase)) = tree
-----------------------------------------------------------------------------
Here == Ladder[pos]
At(steps) == ~killed /\ pos \in DOMAIN Ladder /\ Here.step \in steps

Tolerate == UNCHANGED faults
Fault == faults < MaxFaults /\ faults' = faults + 1

\* run(): append the row, raise $FAILED on another exit, and go on.
Run(exit, expected) ==
    /\ rows' = Append(rows, [label |-> Here, exit |-> exit, expected |-> expected])
    /\ failed' = (failed \/ exit # expected)
    /\ pos' = pos + 1
    /\ UNCHANGED <<killed, reset, broken>>

\* A step without a row.
Pass == pos' = pos + 1 /\ UNCHANGED <<rows, failed, killed, reset, broken>>

\* Steps that change nothing the model keeps, and may fail.
Observe ==
    /\ At({"deps-get", "baseline-compile", "compile-manufacture-task",
           "evidence-citations", "compile-after-lifecycle"})
    /\ \/ Run(0, 0) /\ Tolerate
       \/ Run(1, 0) /\ Fault
    /\ UNCHANGED <<fixture, compileExit, evidence>>

DayZeroTree == [p \in Paths |-> IF p \in Envs THEN "bare" ELSE Gone]
NoLogs == [phase \in Phases |-> {}]

\* bash day_zero.sh, its exit status not looked at: set -e stops it at the
\* first removal that fails, and the configurations are rewritten at the end.
DayZero ==
    /\ At({"day-zero"})
    /\ \/ /\ tree' = DayZeroTree /\ live' = NoLogs
          /\ reset' = TRUE
          /\ Tolerate
       \/ \E k \in 0 .. Len(ResetOrder) :
             /\ tree' = [p \in Paths |-> IF p \in {ResetOrder[i] : i \in 1 .. k}
                                         THEN Gone ELSE tree[p]]
             /\ UNCHANGED <<live, reset>>
             /\ Fault
    /\ pos' = pos + 1
    /\ UNCHANGED <<db, rows, failed, compileExit, evidence, killed, broken>>

Sync ==
    /\ At({"ggen-sync"})
    /\ \/ /\ tree' = [tree EXCEPT !["task"] = "v1"]
          /\ Run(0, 0) /\ Tolerate
       \/ Run(1, 0) /\ Fault /\ UNCHANGED tree
    /\ UNCHANGED <<live, db, compileExit, evidence>>

\* drift_check.py: what the sync renders is traced iff its tasks are admitted;
\* an edit is seen or not, as it happens to be laid out (see DriftCheck.tla).
Traced == CASE tree["task"] = "v1" -> {Projected(Plan)}
            [] tree["task"] = Gone -> {FALSE}
            [] OTHER -> BOOLEAN

DriftCheck ==
    /\ At({"drift-check"})
    /\ \E traced \in Traced : IF traced THEN Run(0, 0) ELSE Run(1, 0)
    /\ UNCHANGED <<fixture, compileExit, evidence, faults>>

\* The log is written inside igniter/1, before anything is applied.
WriteLog ==
    LET phase == Here.phase IN
    live' = [live EXCEPT ![phase] =
                {[doc |-> Document(Decisions(tree, phase), RunOf(phase)), by |-> Here.run]}]

ManufactureFails ==
    /\ At({"manufacture"})
    /\ IF tree["task"] = Gone THEN Tolerate ELSE Fault
    /\ Run(1, 0)
    /\ UNCHANGED <<fixture, compileExit, evidence>>

Manufacture ==
    /\ At({"manufacture"})
    /\ tree["task"] # Gone
    /\ WriteLog
    /\ LET subjects == ComposedSubjects(Here.phase) IN
       \/ Here.phase \notin broken /\ tree' = WithSubjects(subjects) /\ Run(0, 0) /\ Tolerate
       \/ /\ UNCHANGED tree /\ Run(0, 0)           \* issues: nothing applied, exit 0
          /\ IF Here.phase \in broken THEN Tolerate ELSE Fault
       \/ /\ \E applied \in SUBSET subjects : tree' = WithSubjects(applied)
          /\ Run(1, 0) /\ Fault                    \* aborted while applying
       \/ /\ \E p \in subjects :                   \* a generator that rewrites its output
                tree[p] # Gone /\ tree' = [WithSubjects(subjects) EXCEPT ![p] = "v2"]
          /\ Run(0, 0) /\ Fault
    /\ UNCHANGED <<db, compileExit, evidence>>

\* mix compile, its exit kept for the seals of the phase, or of both.
Compile ==
    /\ At({"compile"})
    /\ \E exit \in {0, 1} :
          /\ compileExit' = [phase \in Phases |-> IF Here.phase \in {phase, None}
                                                  THEN exit ELSE compileExit[phase]]
          /\ Run(exit, 0)
          /\ IF exit = 0 THEN Tolerate ELSE Fault
    /\ UNCHANGED <<fixture, evidence>>

\* isolate_db.py: both configurations name the database of this run.
Rewritable(env) == tree[env] \notin {Gone, "bare"}
\* Mutant: only the development environment is isolated.
IsolatedDev(envs) ==
    [p \in Paths |-> IF p \in envs \cap {"dev"} /\ Rewritable(p) THEN "scoped" ELSE tree[p]]

Isolated(envs) == [p \in Paths |-> IF p \in envs /\ Rewritable(p) THEN "scoped" ELSE tree[p]]

Isolate ==
    /\ At({"isolate"})
    /\ \/ /\ tree' = Isolated(Envs)
          /\ IF \E env \in Envs : tree[env] = "bare" THEN Run(1, 0) ELSE Run(0, 0)
          /\ Tolerate
       \/ \E envs \in {{}, {"dev"}} :   \* it dies at an env; dev is the first
             tree' = Isolated(envs) /\ Run(1, 0) /\ Fault
    /\ UNCHANGED <<live, db, compileExit, evidence>>

Sealing(phase) ==
    live' = [live EXCEPT ![phase] =
                {[log EXCEPT !.doc = SealedWith(log.doc, phase, compileExit[phase])] :
                    log \in live[phase]}]
\* Mutant: a sealed log is sealed again.
SealAnyLog ==
    /\ At({"seal"})
    /\ live[Here.phase] # {}
    /\ Sealing(Here.phase)
    /\ Run(0, 0) /\ Tolerate
    /\ UNCHANGED <<tree, db, compileExit, evidence>>

\* mix ggen_igniter.ocel.seal: raises when there is no log, or a sealed one;
\* its receipt is written last, when the log is already sealed.
Seal ==
    /\ At({"seal"})
    /\ LET sealable == \E log \in live[Here.phase] : ~Sealed(log.doc)
       IN  \/ /\ sealable
              /\ Sealing(Here.phase)
              /\ (Run(0, 0) /\ Tolerate) \/ (Run(1, 0) /\ Fault)
           \/ /\ Run(1, 0)
              /\ IF sealable THEN Fault ELSE Tolerate
              /\ UNCHANGED live
    /\ UNCHANGED <<tree, db, compileExit, evidence>>

\* mix ash.codegen: a migration for the resources that have none.
Codegen ==
    /\ At({"ash-codegen"})
    /\ LET pending == /\ tree["migration"] = Gone
                      /\ \E m \in Resources : tree[m] # Gone
       IN  \/ /\ tree' = [tree EXCEPT !["migration"] = IF pending THEN "v1" ELSE @]
              /\ Run(0, 0) /\ Tolerate
           \/ /\ tree["migration"] # Gone
              /\ tree' = [tree EXCEPT !["migration"] = "v2"]
              /\ Run(0, 0) /\ Fault               \* one more, for unchanged resources
           \/ Run(1, 0) /\ Fault /\ UNCHANGED tree
    /\ UNCHANGED <<live, db, compileExit, evidence>>

\* Mutant: no database without a migration.
MigratedUnchecked == tree["migration"]

\* mix ash.setup, ash.migrate and mix test (whose alias sets up first) act on
\* the database the configuration names.
Migrated == IF tree["migration"] = Gone THEN "empty" ELSE tree["migration"]

EnvOf(step) == IF step \in {"ash-setup-test-env", "resources-execute"} THEN "test" ELSE "dev"
Setup ==
    /\ At({"ash-setup", "ash-setup-test-env", "resources-execute", "ash-migrate"})
    /\ LET env == EnvOf(Here.step)
           site == tree[env]
           reachable == /\ site \in Sites
                        /\ Here.step = "ash-migrate" => db[env][site] # "none"
       IN  \/ /\ reachable
              /\ db' = [db EXCEPT ![env][site] = Migrated]
              /\ Run(0, 0) /\ Tolerate
           \/ /\ reachable /\ db[env][site] = "none"
              /\ db' = [db EXCEPT ![env][site] = "empty"]
              /\ Run(1, 0) /\ Fault               \* created, not migrated
           \/ /\ Run(1, 0)
              /\ IF reachable THEN Fault ELSE Tolerate
              /\ UNCHANGED db
    /\ UNCHANGED <<tree, live, compileExit, evidence>>

\* psql on the database of this run, whatever the configuration names; its
\* error text is the capture when it cannot connect.
Fingerprint ==
    /\ At({"db-fingerprint"})
    /\ LET schema == db["dev"]["scoped"]
           reachable == schema # "none" /\ "psql" \notin broken
       IN
       \/ /\ reachable
          /\ D' = [D EXCEPT ![Here.run] = {schema}]
          /\ Run(0, 0) /\ Tolerate
       \/ /\ D' = [D EXCEPT ![Here.run] = {"error"}]
          /\ Run(2, 0)
          /\ IF reachable THEN Fault ELSE Tolerate
    /\ UNCHANGED <<fixture, compileExit, T, short, ocel, drift, verdict, receipt>>

DbNondegenerate ==
    /\ At({"db-nondegenerate"})
    /\ IF D[1] \cap {"error", "empty"} = {} THEN Run(0, 0) ELSE Run(1, 0)
    /\ UNCHANGED <<fixture, compileExit, evidence, faults>>

Diff(artifact) == artifact[Here.run - 1] = artifact[Here.run]
\* Mutant: a difference gets its row, and $FAILED is left alone.
DiffStepUnrecorded ==
    /\ At({"db-diff", "tree-diff"})
    /\ LET equal == (Here.step = "db-diff" /\ Diff(D)) \/ (Here.step = "tree-diff" /\ Diff(T)) IN
       rows' = Append(rows, [label |-> Here, exit |-> IF equal THEN 0 ELSE 1, expected |-> 0])
    /\ pos' = pos + 1
    /\ UNCHANGED <<fixture, failed, compileExit, evidence, killed, reset, broken, faults>>

DiffStep ==
    /\ At({"db-diff", "tree-diff"})
    /\ IF (Here.step = "db-diff" /\ Diff(D)) \/ (Here.step = "tree-diff" /\ Diff(T))
       THEN Run(0, 0) ELSE Run(1, 0)
    /\ UNCHANGED <<fixture, compileExit, evidence, faults>>

Listing == [p \in {q \in Paths : tree[q] # Gone} |-> tree[p]]
Without(lost) == [p \in (DOMAIN Listing) \ lost |-> Listing[p]]

\* find | sort | xargs shasum into a file, whose status nobody looks at: the
\* file is there, and lacks the lines of what could not be found or hashed.
TreeHash ==
    /\ At({"tree-hash"})
    /\ \/ /\ "shasum" \notin broken
          /\ T' = [T EXCEPT ![Here.run] = {Listing}]
          /\ UNCHANGED short
          /\ Tolerate
       \/ \E lost \in Shortfalls \cup {Paths} :
             /\ T' = [T EXCEPT ![Here.run] = {Without(lost)}]
             /\ short' = short \cup {Here.run}
             /\ IF "shasum" \in broken THEN lost = Paths /\ Tolerate ELSE Fault
    /\ Pass
    /\ UNCHANGED <<fixture, compileExit, D, ocel, drift, verdict, receipt>>

LogsNow == [phase \in {p \in Phases : live[p] # {}} |-> CHOOSE log \in live[phase] : TRUE]
CopyOcel ==
    /\ At({"copy-ocel"})
    /\ ocel' = Append(ocel, LogsNow)
    /\ Pass /\ Tolerate
    /\ UNCHANGED <<fixture, compileExit, T, short, D, drift, verdict, receipt>>

\* --check: exit 0 iff nothing would be written; it writes no log.
Check ==
    /\ At({"check"})
    /\ LET clean == /\ tree["task"] # Gone /\ NothingToDo(Here.phase)
                    /\ Here.phase \notin broken
       IN
       \/ clean /\ Run(0, 0) /\ Tolerate
       \/ Run(1, 0) /\ IF clean THEN Fault ELSE Tolerate
    /\ UNCHANGED <<fixture, compileExit, evidence>>

GuardExit == IF Here.phase \in {"blocks-ash-resource", "blocks-base-resource-header"}
             THEN 2 ELSE 0
GuardCase ==
    /\ At({"guard"})
    /\ \/ Run(GuardExit, GuardExit) /\ Tolerate
       \/ Run(2 - GuardExit, GuardExit) /\ Fault
    /\ UNCHANGED <<fixture, compileExit, evidence>>

\* Without the wasm artifact a row is written, and $FAILED left alone.
Skip ==
    /\ rows' = Append(rows, [label |-> Here, exit |-> Null, expected |-> 0])
    /\ pos' = pos + 1
    /\ UNCHANGED <<failed, killed, reset, broken>>
Import ==
    /\ At({"beam4pm-import"})
    /\ \/ (Skip \/ Run(0, 0)) /\ Tolerate
       \/ Run(1, 0) /\ Fault
    /\ UNCHANGED <<fixture, compileExit, evidence>>

\* drift.json also takes the traceback when there is no task to read.
DriftReport ==
    /\ At({"drift-report"})
    /\ IF tree["task"] = Gone
       THEN drift' = "traceback"
       ELSE \E traced \in Traced : drift' = IF traced THEN "clean" ELSE "drift"
    /\ Pass /\ Tolerate
    /\ UNCHANGED <<fixture, compileExit, T, short, D, ocel, verdict, receipt>>

Present == {p \in Modules : tree[p] # Gone}
ConformanceStep ==
    /\ At({"conformance"})
    /\ \/ /\ verdict' = IF Conformant(PlanOf(tree["task"]), Caps, rows, ocel, Modules, Present)
                        THEN "conformant" ELSE "violations"
          /\ Tolerate
       \/ verdict' = "crash" /\ Fault
    /\ failed' = (failed \/ verdict' # "conformant")
    /\ pos' = pos + 1
    /\ UNCHANGED <<fixture, rows, compileExit, T, short, D, ocel, drift, receipt,
                   killed, reset, broken>>

\* receipt.py parses drift.json and conformance.json, and dies on neither JSON.
Readable == drift # "traceback" /\ verdict # "crash"
Logs == Cardinality({log \in (DOMAIN ocel) \X Phases : log[2] \in DOMAIN ocel[log[1]]})
Written == IF Readable THEN {Receipt(rows, T, D, Logs, verdict)} ELSE {}
\* Mutant: nobody looks whether a receipt was written.
WriteReceiptUnchecked ==
    /\ At({"receipt"})
    /\ \/ receipt' = Written /\ Tolerate
       \/ receipt' = {} /\ Fault
    /\ pos' = pos + 1
    /\ UNCHANGED <<fixture, rows, failed, compileExit, T, short, D, ocel, drift, verdict,
                   killed, reset, broken>>

WriteReceipt ==
    /\ At({"receipt"})
    /\ \/ receipt' = Written /\ Tolerate
       \/ receipt' = {} /\ Fault
    /\ failed' = (failed \/ receipt' = {})
    /\ pos' = pos + 1
    /\ UNCHANGED <<fixture, rows, compileExit, T, short, D, ocel, drift, verdict,
                   killed, reset, broken>>

Interrupt ==
    /\ ~killed /\ pos \in DOMAIN Ladder
    /\ killed' = TRUE
    /\ UNCHANGED <<pos, fixture, rows, failed, compileExit, evidence, reset, broken, faults>>

\* receipt.py run by hand over what an interrupted qualification left.
ReceiptByHand ==
    /\ killed /\ receipt = {} /\ Readable
    /\ receipt' = Written
    /\ UNCHANGED <<pos, fixture, rows, failed, compileExit, T, short, D, ocel, drift, verdict,
                   killed, reset, broken, faults>>
-----------------------------------------------------------------------------
LeftoverTree(task) ==
    [p \in Paths |-> IF p \in Envs THEN "shared" ELSE IF p = "task" THEN task ELSE "old"]
LeftoverLog(task, phase) ==
    LET log == Document(Decisions([DayZeroTree EXCEPT !["task"] = task], phase), RunOf(phase))
    IN  {[doc |-> SealedWith(log, phase, 0), by |-> 0]}

\* A fresh checkout of the fixture, or what an earlier qualification left,
\* its task edited by hand since or not.
Init ==
    /\ \/ tree = DayZeroTree /\ live = NoLogs
       \/ \E task \in {"v1", "edited"} :
             /\ tree = LeftoverTree(task)
             /\ live = [phase \in Phases |-> LeftoverLog(task, phase)]
    /\ pos = 1
    /\ db = [env \in Envs |-> [site \in Sites |-> "none"]]
    /\ rows = <<>> /\ failed = FALSE
    /\ compileExit = [phase \in Phases |-> 0]
    /\ T = [run \in 0 .. 3 |-> {}] /\ D = [run \in 1 .. 3 |-> {}] /\ ocel = <<>>
    /\ short = {} /\ drift = None /\ verdict = None /\ receipt = {}
    /\ killed = FALSE /\ reset = FALSE
    /\ broken \in {{}} \cup {{what} : what \in Phases \cup {"psql", "shasum"}}
    /\ faults = Cardinality(broken) /\ faults <= MaxFaults

Next ==
    \/ Observe \/ DayZero \/ Sync \/ DriftCheck
    \/ ManufactureFails \/ Manufacture \/ Compile \/ Isolate \/ Seal
    \/ Codegen \/ Setup \/ Fingerprint \/ DbNondegenerate \/ DiffStep
    \/ TreeHash \/ CopyOcel \/ Check \/ GuardCase \/ Import
    \/ DriftReport \/ ConformanceStep \/ WriteReceipt
    \/ Interrupt \/ ReceiptByHand

Spec == Init /\ [][Next]_vars
-----------------------------------------------------------------------------
Finished == pos = Len(Ladder) + 1

TypeOK ==
    /\ pos \in 1 .. (Len(Ladder) + 1)
    /\ tree \in [Paths -> Texts]
    /\ \A phase \in Phases : \A log \in live[phase] : log.by \in 0 .. 3
    /\ db \in [Envs -> [Sites -> Schemas]]
    /\ \A i \in DOMAIN rows : /\ rows[i].label \in Range(Ladder)
                              /\ rows[i].exit \in {Null, 0, 1, 2} /\ rows[i].expected \in {0, 2}
    /\ failed \in BOOLEAN /\ killed \in BOOLEAN /\ reset \in BOOLEAN
    /\ compileExit \in [Phases -> {0, 1}]
    /\ short \subseteq 0 .. 3
    /\ D \in [1 .. 3 -> SUBSET (Schemas \cup {"error"})]
    /\ drift \in {None, "clean", "drift", "traceback"}
    /\ verdict \in {None, "conformant", "violations", "crash"}
    /\ faults \in 0 .. MaxFaults

\* Every log, as the task writes it, as the seal rewrites it and as it is
\* copied, is a closed object graph (ocel2_export.ex, conformance.py's
\* check_structure): sealing rebuilds the document without breaking it.
LogsSound ==
    /\ \A phase \in Phases : \A log \in live[phase] : StructureSound(log.doc)
    /\ \A run \in DOMAIN ocel : \A phase \in DOMAIN ocel[run] : StructureSound(ocel[run][phase].doc)

\* A log is sealed once, by its last event, which is related to its run and
\* to nothing else: the claim the seal task checks against the file it wrote
\* (ocel.seal.ex:185-220) is never falsified, although a falsified one would
\* not change its exit code, and a stale log is never sealed anew.
SealedOnce ==
    \A phase \in Phases : \A log \in live[phase] :
        LET seals == OfType(log.doc.events, SealTypes) IN
        seals # {} =>
            /\ seals = {Len(log.doc.events)}
            /\ log.doc.events[Len(log.doc.events)].rels = <<RunOf(phase)>>
            /\ log.doc.events[Len(log.doc.events)].type \in log.doc.eventTypes

\* conformance.py certifies a run on the log of that run only, never on the
\* log an earlier run or qualification left where the task writes its own.
ConformantLogsAreFresh ==
    verdict = "conformant" =>
        \A run \in {1, 2} : \A phase \in DOMAIN ocel[run] : ocel[run][phase].by = run

\* A conformant verdict, which is about logs, speaks of the tree: each module
\* of the rendered plan has its file, although igniter/1 logs before anything
\* is applied and an :issues run exits 0 having applied nothing.
ConformantTreeIsManufactured ==
    verdict = "conformant" =>
        LET plan == PlanOf(tree["task"]) IN
        /\ plan # <<>>
        /\ \A i \in DOMAIN plan : plan[i].subject \in Modules => tree[plan[i].subject] # Gone

\* Under a conformant verdict no file in the tree was manufactured by this
\* qualification through a task the ontology does not admit.
ConformantTreeIsAdmitted ==
    verdict = "conformant" =>
        LET plan == PlanOf(tree["task"]) IN
        \A m \in Modules :
            tree[m] \in {"v1", "v2"} =>
                \E i \in DOMAIN plan : plan[i].subject = m /\ Caps[plan[i].task]

\* IDEMPOTENCY_ALIVE is about the world, not about the artifacts: the three
\* runs left one schema, the real one of this run's database; what their tree
\* captures list is there now, as listed; and if the last of them is not
\* short, all three are of the whole tree (receipt.py: same(),
\* db_nondegenerate; qualify.sh: tree_hash).
IdempotencyIsTheWorlds ==
    \A r \in receipt :
        r.alive.IDEMPOTENCY =>
            /\ \A run \in 1 .. 3 : D[run] = {db["dev"]["scoped"]}
            /\ db["dev"]["scoped"] \notin {"none", "empty"}
            /\ \A run \in 1 .. 3 : \A t \in T[run] : \A p \in DOMAIN t : tree[p] = t[p]
            /\ 3 \notin short => \A run \in 1 .. 3 : T[run] = {Listing}

\* receipt.py:289-292, of the three conjuncts of IDEMPOTENCY_ALIVE: "the TREE
\* reaches a fixpoint over three runs".
FixpointIsOfTheTree ==
    \A r \in receipt : r.alive.IDEMPOTENCY => \A run \in 1 .. 3 : T[run] = {Listing}

\* "QUALIFICATION: all rungs passed" (exit 0) leaves a receipt with every
\* standing alive: no rung can be red and the exit green.
PassImpliesAlive ==
    Finished /\ ~failed => /\ receipt # {}
                           /\ \A r \in receipt : \A s \in Standings : r.alive[s]

\* A database this qualification does not own is touched only after the
\* isolate-databases rung has failed: an isolation that exits 0 is enough for
\* every later step, in both environments, re-runs of the installer included.
SharedOnlyIfNotIsolated ==
    (\E env \in Envs : db[env]["shared"] # "none") =>
        \E i \in DOMAIN rows : rows[i].label.step = "isolate" /\ rows[i].exit # 0

\* $FAILED is exactly the ledger's story, at every step: a row with another
\* exit than expected (the skipped import is none), a conformance verdict
\* that is not clean, or a receipt that was not written.
LedgerTellsFailure ==
    failed <=> \/ \E i \in FailedRows(rows) : rows[i].exit # Null
               \/ verdict \in {"violations", "crash"}
               \/ Finished /\ receipt = {}

\* After a complete reset, and with a tree captured after a later run, the
\* receipt's provenance is the truth of the files its manifests list: what it
\* calls hand-written no generator created; if the day-zero manifest is not
\* short, what it calls generated no hand wrote; if the last one is not, it
\* misses no hand-written file; and if neither is, it knows them all.
ProvenanceIsTrue ==
    \A r \in receipt :
        reset /\ (T[2] # {} \/ T[3] # {}) =>
            LET last == IF T[3] # {} THEN 3 ELSE 2 IN
            /\ r.files.handwritten \cup r.files.modified \subseteq Envs
            /\ 0 \notin short => r.files.generated \cap Envs = {}
            /\ last \notin short => r.files.removed = {}
            /\ {0, last} \cap short = {} => r.files.handwritten \cup r.files.modified = Envs

\* A red IDEMPOTENCY_ALIVE names an oracle, and a named oracle makes it red;
\* what is named as differing was captured on both sides (receipt.py:167-206).
RedStandingNamesItsOracle ==
    \A r \in receipt :
        /\ r.alive.IDEMPOTENCY <=> r.failedOracles = {}
        /\ <<"tree_T1_T2", "differs">> \in r.failedOracles => T[1] # {} /\ T[2] # {}
        /\ <<"db_D2_D3", "differs">> \in r.failedOracles => D[2] # {} /\ D[3] # {}

\* qualify.sh:224: "a failed isolation stops the qualification instead of
\* quietly producing a run against a shared database".
FailedIsolationStops ==
    (\E i \in DOMAIN rows : rows[i].label.step = "isolate" /\ rows[i].exit # 0) =>
        \A env \in Envs : db[env]["shared"] = "none"
=============================================================================
