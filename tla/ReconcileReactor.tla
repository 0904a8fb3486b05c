-------------------------- MODULE ReconcileReactor --------------------------
(***************************************************************************)
(* The reconciliation pipeline: plan, admit, actuate, verify and finalise  *)
(* one request against a project, with self-heal and undo on failure.      *)
(* lib/ggen_igniter/reactors/reconcile_reactor.ex with the file writes of  *)
(* actuate.ex, the manifest of manifest.ex and the receipts of receipt.ex. *)
(*                                                                         *)
(* One run at a time (the sync lock), one step per file operation, so that *)
(* a crash can fall between any two.  A request is one call of run/1: a    *)
(* fan-out of --for-each is one request with several targets of the same   *)
(* recipe, a fan-out over a pack's templates is several requests.          *)
(***************************************************************************)
EXTENDS ReconcilePlan

CONSTANTS
    Untracked,  \* no pre-image to restore at a path
    UserFile,   \* what a user may put at a path between runs
    SideEffect, \* what a shell hook or an eval body may leave at a path
    Faults,     \* which operations may fail
    MaxRuns,    \* bound: runs
    MaxEdits    \* bound: user edits between runs

FaultNames == {"plan", "item", "hook", "tear", "compile", "verify", "finalize",
               "append", "promote", "prune", "revert", "crash"}

ASSUME FaultsAssumption == Faults \subseteq FaultNames
ASSUME BoundsAssumption == MaxRuns \in Nat /\ MaxEdits \in Nat
ASSUME UserFileAssumption == UserFile \subseteq State /\ SideEffect \subseteq State
ASSUME FreshAssumption ==
    Absent \notin Content /\ Untracked \notin State /\ NoRequest \notin Request

VARIABLES
    disk,      \* Path -> State: the project's files
    manifest,  \* Recipe -> outputs and the run that recorded them
    ledger,    \* the receipt log: <<[run, standing]>>
    phase,     \* where the run is
    runs,      \* how many runs have started; the current run's number
    edits,     \* how many user edits there have been
    req,       \* the current request
    before,    \* history: the disk as the current run found it
    observed,  \* the manifest the current run loaded
    stale,     \* the deletions the plan still holds
    outcome,   \* per target: how its actuation ended
    tracked,   \* per path: the pre-image to restore, or Untracked
    lost,      \* paths whose revert failed
    touched,   \* history: paths a hook or an eval body of this run changed
    cause,     \* why the run failed
    result     \* what run/1 returned last

durable == <<disk, manifest, ledger>>
volatile == <<req, before, observed, stale, outcome, tracked, lost, touched, cause>>
vars == <<durable, phase, runs, edits, volatile, result>>

-----------------------------------------------------------------------------
(* The state the program persists *)

Owned(m) == UNION {OutputPaths(m[r]) : r \in Recipe}

Phase == {"idle", "plan", "actuate", "verify", "finalize", "promote", "prune",
          "revert", "report"}
Outcome == {"pending", "written", "unchanged", "skipped", "injected", "evaluated",
            "failed", "hook_failed"}
Cause == {"none", "refused", "actuate", "compile", "verify", "finalize"}

-----------------------------------------------------------------------------
(* The plan *)

Items == DOMAIN req.targets
T(i) == req.targets[i]
Applied == req.mode = "apply"

\* Mutant: the rows a policy skipped are recorded with those that were written.
CommittedOrSkipped(i) == Applied /\ outcome[i] \in {"written", "unchanged", "skipped"}

\* commit_recipe_group/5: the outputs of one recipe after this run.  A single
\* row that was skipped keeps the old entry; a fan-out records the union of
\* the rows it wrote or found unchanged, whatever happened to the others.
Committed(i) == Applied /\ outcome[i] \in {"written", "unchanged"}

GroupOutputs(k) ==
    [p \in Path |->
        IF \E i \in Group(req, k) : Committed(i) /\ T(i).path = p THEN disk[p] ELSE Absent]

KeepsEntry(k) ==
    \/ Group(req, k) = {}
    \/ SingleRow(req, k) /\ \A i \in Group(req, k) : ~Committed(i)
    \/ GroupOutputs(k) = observed[k].outputs

NewManifest ==
    [k \in Recipe |->
        IF KeepsEntry(k) THEN observed[k]
        ELSE [outputs |-> GroupOutputs(k), run |-> runs]]

-----------------------------------------------------------------------------
(* Running *)

Init ==
    /\ disk = [p \in Path |-> Absent]
    /\ manifest = [k \in Recipe |-> NoEntry]
    /\ ledger = <<>>
    /\ phase = "idle"
    /\ runs = 0
    /\ edits = 0
    /\ req = NoRequest
    /\ before = disk
    /\ observed = manifest
    /\ stale = {}
    /\ outcome = <<>>
    /\ tracked = [p \in Path |-> Untracked]
    /\ lost = {}
    /\ touched = {}
    /\ cause = "none"
    /\ result = "none"

\* The run is over: run/1 returned res, raised, or the VM died.
End(res) ==
    /\ phase' = "idle"
    /\ result' = res
    /\ req' = NoRequest
    /\ stale' = {}
    /\ outcome' = <<>>
    /\ tracked' = [p \in Path |-> Untracked]
    /\ lost' = {}
    /\ touched' = {}
    /\ cause' = "none"
    /\ UNCHANGED <<runs, edits, before, observed>>

\* observe_prior_manifest: the manifest as the run will see it to its end.
Begin(r) ==
    /\ phase = "idle"
    /\ runs < MaxRuns
    /\ runs' = runs + 1
    /\ req' = r
    /\ before' = disk
    /\ observed' = manifest
    /\ phase' = "plan"
    /\ result' = "none"
    /\ UNCHANGED <<durable, edits, stale, outcome, tracked, lost, touched, cause>>

\* A step before actuation fails: a manifest, ontology, pack, query or
\* template that cannot be read, or one of the admission courts.
PlanFails ==
    /\ phase = "plan"
    /\ "plan" \in Faults
    /\ phase' = "report"
    /\ cause' = "refused"
    /\ UNCHANGED <<durable, runs, edits, req, before, observed, stale, outcome,
                   tracked, lost, touched, result>>

Refuse ==
    /\ phase = "plan"
    /\ ~Admissible(req, observed)
    /\ phase' = "report"
    /\ cause' = "refused"
    /\ UNCHANGED <<durable, runs, edits, req, before, observed, stale, outcome,
                   tracked, lost, touched, result>>

Admit ==
    /\ phase = "plan"
    /\ Admissible(req, observed)
    /\ stale' = StalePaths(req, observed)
    /\ outcome' = [i \in Items |-> "pending"]
    /\ phase' = "actuate"
    /\ UNCHANGED <<durable, runs, edits, req, before, observed, tracked, lost,
                   touched, cause, result>>

-----------------------------------------------------------------------------
(* Actuation *)

\* Files and injections run concurrently; code is evaluated after them, in order.
Ready(i) ==
    /\ phase = "actuate"
    /\ outcome[i] = "pending"
    /\ T(i).op = "eval" =>
          \A j \in Items : T(j).op # "eval" \/ j < i => outcome[j] # "pending"

Settle(i, o) ==
    /\ outcome' = [outcome EXCEPT ![i] = o]
    /\ UNCHANGED <<manifest, ledger, phase, runs, edits, req, before, observed,
                   stale, lost, touched, cause, result>>

Track(p) == tracked' = [tracked EXCEPT ![p] = disk[p]]
Put(p, c) == disk' = [disk EXCEPT ![p] = c]

Skips(i) == disk[T(i).path] # Absent /\ disk[T(i).path] \in T(i).skipOn

\* Actuate.write_file!: skipped.
Skip(i) ==
    /\ Ready(i)
    /\ T(i).op = "file"
    /\ Skips(i)
    /\ Settle(i, "skipped")
    /\ UNCHANGED <<disk, tracked>>

\* Actuate.write_file!: the bytes are there already.  Tracked all the same.
FindUnchanged(i) ==
    /\ Ready(i)
    /\ T(i).op = "file"
    /\ ~Skips(i)
    /\ disk[T(i).path] = Rendered(T(i).text)
    /\ IF Applied THEN Track(T(i).path) ELSE UNCHANGED tracked
    /\ Settle(i, "unchanged")
    /\ UNCHANGED disk

MustWrite(i) ==
    /\ T(i).op = "file"
    /\ ~Skips(i)
    /\ disk[T(i).path] # Rendered(T(i).text)

\* The target exists and holds the marker line once.
Anchored(i) == disk[T(i).path] # Absent /\ disk[T(i).path].base \in Slotted

Splices(i) ==
    /\ T(i).op = "inject"
    /\ Anchored(i)
    /\ T(i).frag \notin disk[T(i).path].frags

\* What the target holds after the write or the splice.
Desired(i) ==
    IF T(i).op = "file" THEN Rendered(T(i).text)
    ELSE [disk[T(i).path] EXCEPT !.frags = @ \cup {T(i).frag}]

DoneWord(i) == IF T(i).op = "file" THEN "written" ELSE "injected"

\* A dry run reports what it would do.
Preview(i) ==
    /\ Ready(i)
    /\ ~Applied
    /\ MustWrite(i) \/ Splices(i)
    /\ Settle(i, DoneWord(i))
    /\ UNCHANGED <<disk, tracked>>

\* atomic_write! (temporary file and rename) or inject_content!'s File.write!.
Write(i) ==
    /\ Ready(i)
    /\ Applied
    /\ MustWrite(i) \/ Splices(i)
    /\ Put(T(i).path, Desired(i))
    /\ Track(T(i).path)
    /\ Settle(i, DoneWord(i))

\* Mutant: the bug the source's comment recalls, a failed hook loses the pre-image.
HookFailsUntracked(i) ==
    /\ Ready(i)
    /\ Applied
    /\ "hook" \in Faults
    /\ MustWrite(i) \/ Splices(i)
    /\ "sh_after" \in T(i).hooks
    /\ Put(T(i).path, Desired(i))
    /\ Settle(i, "hook_failed")
    /\ UNCHANGED tracked

\* sh_after fails once the target is written: the item fails but is tracked.
WriteThenHookFails(i) ==
    /\ Ready(i)
    /\ Applied
    /\ "hook" \in Faults
    /\ MustWrite(i) \/ Splices(i)
    /\ "sh_after" \in T(i).hooks
    /\ Put(T(i).path, Desired(i))
    /\ Track(T(i).path)
    /\ Settle(i, "hook_failed")

\* The snippet is there already: not tracked.
FindInjected(i) ==
    /\ Ready(i)
    /\ T(i).op = "inject"
    /\ Anchored(i)
    /\ T(i).frag \in disk[T(i).path].frags
    /\ Settle(i, "unchanged")
    /\ UNCHANGED <<disk, tracked>>

\* Mutant: a missing anchor is passed over.
NoAnchorIgnored(i) ==
    /\ Ready(i)
    /\ T(i).op = "inject"
    /\ ~Anchored(i)
    /\ Settle(i, "unchanged")
    /\ UNCHANGED <<disk, tracked>>

\* No file to inject into, or no unique marker in it: ArgumentError.
NoAnchor(i) ==
    /\ Ready(i)
    /\ T(i).op = "inject"
    /\ ~Anchored(i)
    /\ Settle(i, "failed")
    /\ UNCHANGED <<disk, tracked>>

\* inject_content!'s File.write! truncates and dies: the rescue does not track it.
Tear(i) ==
    /\ Ready(i)
    /\ Applied
    /\ "tear" \in Faults
    /\ Splices(i)
    /\ Put(T(i).path, Rendered(Torn))
    /\ Settle(i, "failed")
    /\ UNCHANGED tracked

\* sh_before, a read, the temporary file or the evaluated code fails, after
\* whatever the command or the code has done.
ItemFails(i) ==
    /\ Ready(i)
    /\ "item" \in Faults
    /\ Settle(i, "failed")
    /\ UNCHANGED <<disk, tracked>>

\* eval_code! returns; what the code has done are SideEffects.
Evaluate(i) ==
    /\ Ready(i)
    /\ T(i).op = "eval"
    /\ Settle(i, "evaluated")
    /\ UNCHANGED <<disk, tracked>>

Actuate(i) ==
    \/ Skip(i) \/ FindUnchanged(i) \/ Preview(i) \/ Write(i)
    \/ WriteThenHookFails(i) \/ FindInjected(i) \/ NoAnchor(i) \/ Tear(i)
    \/ ItemFails(i) \/ Evaluate(i)

\* A command of item i may be at work: sh_before or the evaluated code, sh_after
\* (over before any code is evaluated), or a command whose timeout failed the
\* item, which the closing of its port need not end.
CommandAtWork(i) ==
    \/ Ready(i) /\ (T(i).op # "eval" => "sh_before" \in T(i).hooks)
    \/ /\ phase = "actuate"
       /\ outcome[i] \in {"written", "injected"} /\ "sh_after" \in T(i).hooks
       /\ \A j \in Items : T(j).op = "eval" => outcome[j] = "pending"
    \/ /\ phase \in {"actuate", "revert", "report"}
       /\ outcome[i] \in {"failed", "hook_failed"} /\ T(i).op # "eval" /\ T(i).hooks # {}

\* run_sh_hook! and eval_code! run whatever the template's author wrote: it may
\* create, change or delete any file, a target of the run among them.  Neither
\* admission nor the undo knows of it.
SideEffects(i, p) ==
    /\ Applied
    /\ CommandAtWork(i)
    /\ \E c \in SideEffect \ {disk[p]} : Put(p, c)
    /\ touched' = touched \cup {p}
    /\ UNCHANGED <<manifest, ledger, phase, runs, edits, req, before, observed, stale,
                   outcome, tracked, lost, cause, result>>

SomeFailed == \E i \in Items : outcome[i] \in {"failed", "hook_failed"}

GoOn(next) ==
    /\ phase' = next
    /\ UNCHANGED <<durable, runs, edits, volatile, result>>

FailWith(why) ==
    /\ phase' = "revert"
    /\ cause' = why
    /\ UNCHANGED <<durable, runs, edits, req, before, observed, stale, outcome,
                   tracked, lost, touched, result>>

\* Every item has ended: any failure makes the whole step heal itself.
ActuateDone ==
    /\ phase = "actuate"
    /\ \A i \in Items : outcome[i] # "pending"
    /\ IF SomeFailed THEN FailWith("actuate") ELSE GoOn("verify")

-----------------------------------------------------------------------------
(* Verification: `mix compile`, which --check leaves out *)

VerifyPasses == phase = "verify" /\ GoOn("finalize")

CompileFails ==
    /\ phase = "verify"
    /\ req.mode # "check"
    /\ "compile" \in Faults
    /\ FailWith("compile")

\* The step raises (no `mix`, no such directory).
VerifyRaises ==
    /\ phase = "verify"
    /\ req.mode # "check"
    /\ "verify" \in Faults
    /\ FailWith("verify")

-----------------------------------------------------------------------------
(* finalize_evidence: receipt, then manifest, then prune *)

\* Every output to be recorded is still there to be hashed (File.read!).
Hashable == \A i \in Items : Committed(i) => disk[T(i).path] # Absent

\* The pack digest or the hash of an output cannot be computed.
FinalizeFails ==
    /\ phase = "finalize"
    /\ "finalize" \in Faults \/ ~Hashable
    /\ FailWith("finalize")

\* Mutant: only the receipt is kept from a dry run, as `manifest_changed? is
\* always false` there (the comment over manifest_promotion).
FinishDryUnguarded ==
    /\ phase = "finalize"
    /\ ~Applied
    /\ GoOn("promote")

\* A dry run appends, persists and prunes nothing.
FinishDry ==
    /\ phase = "finalize"
    /\ ~Applied
    /\ End("alive")
    /\ UNCHANGED durable

AppendAlive ==
    /\ phase = "finalize"
    /\ Applied /\ Hashable
    /\ ledger' = Append(ledger, [run |-> runs, standing |-> "alive"])
    /\ phase' = "promote"
    /\ UNCHANGED <<disk, manifest, runs, edits, volatile, result>>

\* Mutant: a failed append is rescued like a failed promotion.
AppendRescued ==
    /\ phase = "finalize"
    /\ Applied
    /\ "append" \in Faults
    /\ GoOn("promote")

AppendFails ==
    /\ phase = "finalize"
    /\ Applied /\ Hashable
    /\ "append" \in Faults
    /\ FailWith("finalize")

\* Manifest.persist!: a temporary file and a rename, only when it changed.
Promote ==
    /\ phase = "promote"
    /\ manifest' = NewManifest
    /\ phase' = "prune"
    /\ UNCHANGED <<disk, ledger, runs, edits, volatile, result>>

\* It raises, is rescued, and the run goes on with the promotion pending.
PromotePending ==
    /\ phase = "promote"
    /\ "promote" \in Faults
    /\ NewManifest # observed
    /\ GoOn("prune")

\* Mutant: the policy is not looked at again after admission.
PrunesAnyStale == phase = "prune"

Prunes == phase = "prune" /\ req.onStale = "prune"

\* Manifest.prune!: one File.rm after the other.
PruneOne(p) ==
    /\ Prunes
    /\ p \in stale
    /\ Put(p, Absent)
    /\ stale' = stale \ {p}
    /\ UNCHANGED <<manifest, ledger, phase, runs, edits, req, before, observed,
                   outcome, tracked, lost, touched, cause, result>>

\* Mutant: the bug the source's comment recalls, a failed prune fails the step.
PruneFailureEscapes ==
    /\ Prunes
    /\ "prune" \in Faults
    /\ \E p \in stale : disk[p] # Absent
    /\ FailWith("finalize")

\* File.rm fails: rescued, the paths that remain are left.
PruneFails ==
    /\ Prunes
    /\ "prune" \in Faults
    /\ \E p \in stale : disk[p] # Absent
    /\ End("alive")
    /\ UNCHANGED durable

Return ==
    /\ phase = "prune"
    /\ req.onStale = "prune" => stale = {}
    /\ End("alive")
    /\ UNCHANGED durable

-----------------------------------------------------------------------------
(* Compensation: revert_all/1, from self-heal and from undo *)

ToRevert == {p \in Path : tracked[p] # Untracked}

\* Mutant: the pre-image is dropped before it is written back.
RevertDropped(p) ==
    /\ phase = "revert"
    /\ p \in ToRevert
    /\ tracked' = [tracked EXCEPT ![p] = Untracked]
    /\ Put(p, tracked'[p])
    /\ UNCHANGED <<manifest, ledger, phase, runs, edits, req, before, observed,
                   stale, outcome, lost, touched, cause, result>>

\* File.write! of the pre-image, or File.rm of what did not exist.
RevertOne(p) ==
    /\ phase = "revert"
    /\ p \in ToRevert
    /\ Put(p, tracked[p])
    /\ tracked' = [tracked EXCEPT ![p] = Untracked]
    /\ UNCHANGED <<manifest, ledger, phase, runs, edits, req, before, observed,
                   stale, outcome, lost, touched, cause, result>>

\* It raises: the other paths are still tried.  A write may have truncated.
RevertFails(p) ==
    /\ phase = "revert"
    /\ "revert" \in Faults
    /\ p \in ToRevert
    /\ lost' = lost \cup {p}
    /\ tracked' = [tracked EXCEPT ![p] = Untracked]
    /\ \/ UNCHANGED disk
       \/ tracked[p] # Absent /\ Put(p, Rendered(Torn))
    /\ UNCHANGED <<manifest, ledger, phase, runs, edits, req, before, observed,
                   stale, outcome, touched, cause, result>>

\* Mutant: the run waits until every path is restored.
RevertDoneWhenAllRestored ==
    /\ phase = "revert"
    /\ ToRevert = {} /\ lost = {}
    /\ GoOn("report")

RevertDone ==
    /\ phase = "revert"
    /\ ToRevert = {}
    /\ GoOn("report")

-----------------------------------------------------------------------------
(* run/1's failure path *)

FailureStanding ==
    CASE lost # {} -> "compensation_failed"
      [] lost = {} /\ cause = "refused" -> "refused"
      [] lost = {} /\ cause = "compile" -> "build_broken"
      [] OTHER -> "compensated"

\* One failure receipt, except under --check, which writes nothing at all.
Report ==
    /\ phase = "report"
    /\ ledger' = IF req.mode = "check" THEN ledger
                 ELSE Append(ledger, [run |-> runs, standing |-> FailureStanding])
    /\ End(FailureStanding)
    /\ UNCHANGED <<disk, manifest>>

\* Receipt.append! raises out of run/1: the run leaves no receipt.
ReportRaises ==
    /\ phase = "report"
    /\ req.mode # "check"
    /\ "append" \in Faults
    /\ End("raised")
    /\ UNCHANGED durable

-----------------------------------------------------------------------------
(* The environment *)

\* The VM dies, perhaps inside a write that is not atomic.
InPlace ==
    IF phase = "actuate"
      THEN {T(i).path : i \in {j \in Items : Ready(j) /\ Applied /\ Splices(j)}}
      ELSE IF phase = "revert" THEN {p \in ToRevert : tracked[p] # Absent} ELSE {}

Crash ==
    /\ phase # "idle"
    /\ "crash" \in Faults
    /\ \/ UNCHANGED disk
       \/ \E p \in InPlace : Put(p, Rendered(Torn))
    /\ End("crashed")
    /\ UNCHANGED <<manifest, ledger>>

\* Between runs somebody edits, creates or deletes a file.
UserEdit(p) ==
    /\ phase = "idle"
    /\ edits < MaxEdits
    /\ edits' = edits + 1
    /\ \E c \in UserFile \ {disk[p]} : Put(p, c)
    /\ UNCHANGED <<manifest, ledger, phase, runs, volatile, result>>

-----------------------------------------------------------------------------

RunStep ==
    \/ PlanFails \/ Refuse \/ Admit
    \/ \E i \in DOMAIN outcome : Actuate(i)
    \/ ActuateDone
    \/ VerifyPasses \/ CompileFails \/ VerifyRaises
    \/ FinalizeFails \/ FinishDry \/ AppendAlive \/ AppendFails
    \/ Promote \/ PromotePending
    \/ PruneFails \/ Return
    \/ \E p \in Path : PruneOne(p) \/ RevertOne(p) \/ RevertFails(p)
    \/ RevertDone \/ Report \/ ReportRaises

Next ==
    \/ \E r \in Request : Begin(r)
    \/ RunStep
    \/ \E i \in DOMAIN outcome, p \in Path : SideEffects(i, p)
    \/ Crash
    \/ \E p \in Path : UserEdit(p)

\* A started run keeps executing, and the commands and the code it runs end, the
\* commands by their timeout; nobody has to start a run.
Spec == Init /\ [][Next]_vars /\ WF_vars(RunStep)

-----------------------------------------------------------------------------
(* Properties *)

TypeOK ==
    /\ disk \in [Path -> State]
    /\ manifest \in [Recipe -> Entry]
    /\ ledger \in Seq([run : Nat, standing : Standing])
    /\ phase \in Phase
    /\ runs \in 0 .. MaxRuns
    /\ edits \in 0 .. MaxEdits
    /\ IF phase = "idle" THEN req = NoRequest ELSE req \in Request
    /\ before \in [Path -> State]
    /\ observed \in [Recipe -> Entry]
    /\ stale \in SUBSET Path
    /\ IF phase = "idle" \/ cause = "refused" \/ phase = "plan"
         THEN outcome = <<>>
         ELSE outcome \in [Items -> Outcome]
    /\ tracked \in [Path -> State \cup {Untracked}]
    /\ lost \in SUBSET Path
    /\ touched \in SUBSET Path
    /\ cause \in Cause
    /\ result \in Standing \cup {"none", "raised", "crashed"}

\* The files whose injection died inside File.write!: the one write that is
\* neither atomic nor tracked.
TornTargets ==
    {T(i).path : i \in {j \in DOMAIN outcome : T(j).op = "inject" /\ outcome[j] = "failed"}}

\* What a :refused, :compensated or :build_broken receipt tells its reader:
\* the project is as the run found it, whichever items failed, hooks
\* included, and in whatever order they ended.  The exceptions the code has
\* are a torn injection, which is not restored, and the files that a shell
\* hook or evaluated code changed, which nothing tracks (sync.md says so); a
\* request without either has the first only, a refused one none at all.
RestoredOnFailure ==
    phase = "report" /\ FailureStanding # "compensation_failed" =>
        \A p \in Path :
            \/ disk[p] = before[p]
            \/ p \in TornTargets /\ disk[p] = Rendered(Torn)
            \/ p \in touched /\ cause # "refused" /\ \E i \in Items : RunsCode(T(i))

\* Once a run's :alive receipt is durable that run is never compensated and
\* writes no second receipt, though the manifest and the prune may still fail.
AliveNeverUndone ==
    phase \in {"revert", "report"} => \A n \in DOMAIN ledger : ledger[n].run # runs

\* A run that has its :alive receipt left every target as requested: each
\* file holds its rendering unless it was to be skipped, each snippet is
\* spliced in, and pruning takes none of it away.  Nothing is said of a target
\* that a hook or evaluated code of the run changed.
AliveMeansActuated ==
    phase \in {"promote", "prune"} =>
        \A i \in WriteItems(req) :
            \/ T(i).path \in touched
            \/ T(i).op = "file"
                 /\ (outcome[i] = "skipped" \/ disk[T(i).path] = Rendered(T(i).text))
            \/ T(i).op = "inject"
                 /\ disk[T(i).path] # Absent /\ T(i).frag \in disk[T(i).path].frags

\* Every entry of the manifest was recorded by a run whose :alive receipt is
\* in the log, across failures and crashes: the manifest never runs ahead.
ManifestNeedsReceipt ==
    \A k \in Recipe : manifest[k].run # 0 =>
        \E n \in DOMAIN ledger :
            ledger[n] = [run |-> manifest[k].run, standing |-> "alive"]

\* A dry run changes neither the project nor the manifest on any path, hooks,
\* evaluated code, failures, compensation and crashes included; --check adds
\* no receipt either.
DryRunWritesNothing ==
    [][phase # "idle" /\ ~Applied =>
          UNCHANGED <<disk, manifest>> /\ (req.mode = "check" => UNCHANGED ledger)]_vars

\* Outside compensation, and but for what hooks and evaluated code do, a run
\* deletes a file only under --on-stale prune, with its :alive receipt
\* durable, and only one that a recipe of the request owned when the run
\* began and that no target of the request produces.
PruneOnlyAfterEvidence ==
    [][\A p \in Path :
          /\ disk[p] # Absent /\ disk'[p] = Absent /\ phase \notin {"idle", "revert"}
          /\ ~\E i \in DOMAIN outcome : SideEffects(i, p)
          =>
              /\ req.onStale = "prune"
              /\ \E n \in DOMAIN ledger : ledger[n] = [run |-> runs, standing |-> "alive"]
              /\ p \in StalePaths(req, observed)]_vars

\* What the project is taken to be: during a run, what it is if nothing follows.
Tree == IF phase \in {"idle", "promote", "prune"} THEN disk ELSE before
Stage ==
    CASE phase = "idle" -> "idle"
      [] phase = "promote" -> "committed"
      [] phase = "prune" -> "recorded"
      [] OTHER -> "open"
Book == IF phase = "promote" THEN NewManifest ELSE manifest
Doomed == IF phase \in {"promote", "prune"} /\ req.onStale = "prune" THEN stale ELSE {}

Contract == INSTANCE ReconcileContract
    WITH tree <- Tree, record <- manifest, log <- ledger, count <- runs, job <- req,
         stage <- Stage, book <- Book, doomed <- Doomed, spilt <- touched,
         answer <- result

\* The pipeline implements ReconcileContract: whatever the order and the
\* failures of its steps, to its caller and to the next run it is one commit of
\* the whole request or, up to the exceptions stated there, nothing at all.
ImplementsContract == Contract!CSpec

\* A started run comes to an end, whatever fails.
RunTerminates == phase # "idle" ~> phase = "idle"

\* What docs/architecture/state-model.md promises: a path leaves the
\* manifest only by being found stale, so that it is pruned, refused or warned
\* about, never forgotten.
OwnedLeavesOnlyAsStale ==
    [][Owned(manifest) \ Owned(manifest') \subseteq stale]_vars

\* What the sync task's documentation promises: under --on-stale prune the
\* manifest is persisted only once the deletions have succeeded.
ManifestAfterPrune ==
    [][manifest' # manifest /\ req.onStale = "prune" =>
          \A p \in stale : disk[p] = Absent]_vars

=============================================================================
