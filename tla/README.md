# Formal models of ggen_igniter

TLA+ models of the parts of `ggen_igniter` that keep state and can fail half
way: the cross-process lock of `mix ggen_igniter.sync`; the reconciliation
pipeline behind it, which plans, admits, writes, verifies and records what a
pack manufactures in a host project, and undoes it when something fails;
the ledger, a directory or a file, to which Semantic Jira appends standing transitions; and
the qualification of the ash-manufacture pack, a ladder of steps over a fixture
with the scripts that judge it (conformance, drift, citations, the receipt). TLC checks small instances; TLAPS proves the most important safety
properties for every value of the constants.

All paths below are relative to `src/`.

## 1. Inventory

### 1.1 Modelled, in whole or in part

| Component | State | Operations | Interacts with |
|---|---|---|---|
| **Lock** `lib/ggen_igniter/lock.ex` | one lock file: its existence, pid marker, mtime | `acquire/2` (exclusive create, marker, staleness verdict, break, wait), `release/1` | every `sync` and `replay` process; the receipt log takes a second lock of the same kind around each append |
| **Reconciliation pipeline** `lib/ggen_igniter/reactors/reconcile_reactor.ex`, `pending_actuation.ex` | transient per run: plan, pending actuations, pre-images | fifteen steps: load and render, `:admit`, `:actuate` (with self-heal), `:verify`, `:finalize_evidence`; `undo`; the failure receipt of `run/1` | writes through Actuate, reads and promotes the Manifest, appends to the Receipt log |
| **Actuate** `actuate.ex` | the project's files | `write_file!` (atomic), `inject_content!` (in place), `eval` | called concurrently by the pipeline, except evals |
| **Manifest** `manifest.ex` | per recipe: outputs, hashes | `load`, `stale_paths`, `put`, `persist!` (atomic), `prune!` | read at the start of a run and written at its end |
| **Receipt log** `receipt.ex` | JSONL partitions per day | `append!` (own lock), `read_all!`, `reconstruct_standing` | one line per run |
| **Transition ledgers** `semantic_jira/transition_log.ex` | a directory: event files, digest and seq claims, epoch marker and its lock; or a file of one event per line, its lock and marker | `append/3` with `:epoch` and `:epoch_bump`; `read/1`, `fetch/1` | written by the Semantic Jira reconciler from any process |
| **Qualification harness** `priv/ggen/ash-manufacture-pack/bin/{qualify,day_zero}.sh`, `isolate_db.py` | the fixture's tree, logs and databases; `steps.jsonl`, `$FAILED`, the captures | reset, three manufactures, compile, isolation, migrations, seals, copies, captures, diffs, guards | runs every script and task below, records each exit code and goes on |
| **Manufacture task and its logs** `templates/manufacture.ex.eex`, `telemetry/ocel2_export.ex`, `mix/tasks/ggen_igniter.ocel.seal.ex` | one OCEL log per phase in the fixture | compose or skip a step, write the log, seal it with an exit code | rendered from the ontology; its logs are what conformance reads |
| **Conformance check** `bin/conformance.py` | none | per log: structure, seal, subjects, ledger; per run: coverage, order, agreement | reads copied logs, plan, capabilities, ledger and tree; its exit code raises `$FAILED` |
| **Qualification receipt** `bin/receipt.py` | none | oracles, standings, failed oracles, provenance of files | reads everything the harness captured |
| **Drift check** `bin/drift_check.py`, `gates/*.rq` | none | ontology facts against the rendered task, both directions, with guards against reading nothing | the same ontology the template renders |
| **Citation check** `bin/citation_check.py` | pins and citations in the ontology | resolve a citation, report drift, suppress what a drifted pin covers | the lock file and sources of the dependencies |
| **Sync / replay tasks** `mix/tasks/ggen_igniter.sync.ex`, `.replay.ex` | none of their own | hold the lock around one or several runs of the pipeline | a pack with several templates is one pipeline run per template |

What is hard about them:

- *Lock*: every decision is made on a file other processes create and delete
  between two system calls; a holder can die, its pid can be reused or belong
  to another user, writes and unlinks fail, five minutes (age) and thirty
  seconds (deadline) pass independently.
  Correct means: two holders never overlap, nothing but a failure leaves a lock
  behind, nobody waits for ever.
- *Pipeline*: items run concurrently and fail independently; hooks fail after
  their write; hooks and evaluated code change files nobody tracks; injections
  are not atomic; compensation can itself fail; three
  durable writes (receipt, manifest, deletions) cannot be made atomic, so a
  crash can fall between any two; the manifest of one run is the input of
  the next.
  Correct means: a failed run undoes what it did, evidence is never
  ahead of what happened, only what is stale is deleted, a dry run does nothing.

- *Directory ledger*: writers share nothing but the directory, and every
  operation on it can fall between two of another writer's. The snapshot a
  writer stamps and deduplicates by is stale when it claims; a claim outlives
  its writer; the marker is rewritten in place.
  Correct means: an append-only log in which an event and a seq have one owner,
  later appends come later, only a death or an exception loses an event, every
  append returns.
- *File ledger*: one lock around read, stamp and append, without an owner or an
  age; a line may be cut anywhere, its newline included, and the next event is
  then written onto it; the marker is rewritten in place here too.
  Correct means: the same abstract log, whatever is cut; seqs and epochs in one
  order; no refusal and no failed write keeps the lock.

- *Qualification*: a long sequence in which any step may fail, or the harness be
  interrupted, and nothing stops: later steps run on what the failed one left,
  artifacts of earlier runs and of earlier qualifications lie where new ones are
  expected, and three separate scripts judge the whole from files.
  Correct means: no verdict, standing or exit code is better than what
  happened; what the receipt says of files, trees and schemas is true, as far as
  its captures are of the tree.
- *Pack checks*: the checker reads by regular expression what the template
  writes by query, so that a block or a step laid out otherwise is there for one and
  not for the other; the gates ask for more properties than the checker; a drifted
  pin suppresses citations until it is declared anew.
  Correct means: green is true of what the checker reads, in whatever order
  ontology, rendered task and dependencies are edited, and what it does not
  read is noticed as far as its guards reach.

### 1.2 Not modelled yet, planned

- **Semantic Jira reconciler** `semantic_jira/{reconciler,execute,authority,sovereign_lease}.ex`:
  standing transitions appended to a ledger, vector clocks, replay. Hard:
  decisions on a ledger read before the append. Correct: standing is a
  function of the ledger, a concurrent history is refused, a replay is idempotent.
- **Receipt log as a file**: torn lines, the append lock, and
  `reconstruct_standing/2`, which trusts a chain of hashes.
- **Legacy pipeline and Controller** `reconcile.ex`, `controller.ex`: one
  GenServer serialising runs; its record and count per pack against the runs
  that succeeded.
- **Epoch watermark and freshness** `epoch_watermark.ex`, `epoch_freshness.ex`:
  a stamp that may only be redefined with a reason; a court that compares.
- **Pack lock file** `pack_lock.ex`: pins and drift.

### 1.3 Not modelled

Graph engines, SPARQL and template rendering (pure or foreign; their results
are data here), front matter and TOML parsing, digests (a digest stands for
its content), the read-only tasks (plan, verify, doctor, readiness), the
installer and upgrades, event emission, the admission courts and document
projections (pure decisions over one document), the examples. Two groups of
Python scripts as well: the lane receipts kept under `receipts/v26.9.23/`, which
print one document each from the step logs of a finished work order, and
`scripts/forbid_generated_output_dir_once.py`, a substitution in fixed files
that has been applied at this commit. Neither keeps state nor runs beside
anything. `PROJECT.json`
lists each with its files and reason.

## 2. Modules

| Module | Models |
|---|---|
| `SyncLock` | `lock.ex`, and the acquire / body / release of the tasks |
| `MCSyncLock` | whose invocations may signal whose, in the checked instances |
| `ReconcilePlan` | requests, targets, the manifest's entries, staleness and admission: the pure part, shared by the next two |
| `ReconcileContract` | what `run/1` promises its caller: one commit or nothing, with the exceptions the code has |
| `ReconcileReactor` | `reconcile_reactor.ex` with `actuate.ex`, `manifest.ex` and the appends of `receipt.ex` |
| `MCReconcileReactor` | the requests, files and texts of the checked instances |
| `StandingLog` | what a transition ledger promises: an append-only set of events, one owner per digest and per seq |
| `DirLedger` | `append_dir/3` of `transition_log.ex`, operation by operation; implements `StandingLog` |
| `MCDirLedger` | the writers and the combinations of calls of the checked instances |
| `TransitionLog` | `append/3` of `transition_log.ex`: extends `DirLedger` with `append_file/3` and the choice between the forms |
| `MCTransitionLog` | the same writers and calls on a ledger of either form |
| `Qualification` | `qualify.sh` rung by rung, with `day_zero.sh`, `isolate_db.py` and the manufacture task |
| `OcelLog` | the document of a log (`ocel2_export.ex`) and its seal (`ocel.seal.ex`) |
| `Conformance` | `conformance.py`, one operator per check |
| `QualificationReceipt` | `receipt.py`: oracles, standings, provenance |
| `MCQualification` | the plan, capabilities and modules of the checked instances |
| `DriftCheck` | `manufacture.ex.eex` and the gates as `Render`, `drift_check.py` as `NoDrift` |
| `CitationCheck` | `citation_check.py` |
| `AshPack` | the sources the two checks read, and every way to edit them |
| `MCAshPack` | the ontology, dependencies and citations of the checked instance |
| `SyncLockProofs`, `ReconcileReactorProofs`, `ReconcileContractProofs`, `TransitionLogProofs`, `QualificationProofs`, `QualificationLogProofs`, `AshPackProofs` | the theorems |
| `SequenceProofs` | lemmas on sequences and finite sets: `FlattenSeq`, `SetToSeq`, ascending enumerations, bags |

### 2.1 SyncLock

A process is one OS process. `pc` is its place in `do_acquire/4`, with one
state for each system call: `open` (`File.open` with `:exclusive`), `mark`
(`IO.write` of the pid), `stat`, `read` and `probe` (the three calls of
`stale_lock?/1`), `break` (`File.rm` of a lock judged stale) and `wait`
(deadline and sleep). `statOld` and `seen` are what the process has in hand
between two calls. The file records its creator, whether the marker has been
written and whether its mtime is older than five minutes. A marker written
through a handle whose file was meanwhile replaced is lost, as on a POSIX
file system. The environment crashes a process at any point, reuses a pid,
lets a deadline pass (`late`) or five minutes (`FiveMinutesPass`).

What the calls answer is the kernel's, not what they are asked for.
`OsPidAlive` is the exit of `kill -0`: besides a pid nobody has, a running
process of another user makes it nonzero, and `MaySignal` is the constant that
says whose processes may signal whose. `WriteMarkerFails` is `IO.write` raising
after the exclusive create (a full disk), which ends the process with a blank
lock in place; `BreakFails` and `ReleaseFails` are a failing `File.rm`, whose
result the code ignores in both places. Two history variables serve the
properties: `doubtful`, on what other than a dead pid locks have been judged
stale (their age, a refused signal), and `left`, who could not write its
marker or unlink its lock.

### 2.2 ReconcileReactor

`disk`, `manifest` and `ledger` are durable; the rest is lost by a crash. A
*request* is one call of `run/1`: a list of targets (a file to write with
the contents that make it be skipped, a snippet to inject, code to
evaluate; the first two with shell hooks before and after), an `--on-stale` policy and a mode (apply, dry run, `--check`). A
content is a rendered text with the set of snippets spliced into it, or what
a torn write leaves. A path is a canonical path.

| Phase | Code | Actions |
|---|---|---|
| `idle` | between runs | `Begin`, `UserEdit` |
| `plan` | steps up to `:admit` | `Admit`, `Refuse`, `PlanFails` |
| `actuate` | `actuate_pending/2` | one action per way an item can end, in any order for files and injections, in sequence for evals; `ActuateDone` |
| `verify` | `verify_compile/3` | `VerifyPasses`, `CompileFails`, `VerifyRaises` |
| `finalize` | `finalize_evidence/1` up to the receipt | `AppendAlive`, `AppendFails`, `FinalizeFails`, `FinishDry` |
| `promote` | `Manifest.persist!` | `Promote`, `PromotePending` |
| `prune` | `Manifest.prune!` | `PruneOne`, `PruneFails`, `Return` |
| `revert` | `revert_all/1`, from self-heal or from the undo of `:actuate` | `RevertOne`, `RevertFails`, `RevertDone` |
| `report` | the failure path of `run/1` | `Report`, `ReportRaises` |

`Crash` can happen in every phase but `idle`, and inside a write that is not
atomic it leaves a torn file. Which operations may fail is the constant
`Faults`. While a hook or evaluated code may be at work (`CommandAtWork`: a hook
whose timeout failed its item may go on until the run ends), `SideEffects`
writes or deletes any file, and adds its path to the history variable
`touched`; a dry run and a request that is refused run none of it. `Evaluate`,
`Write` and `WriteThenHookFails` themselves are the pipeline's part. The manifest keeps, for each entry, the run that recorded it, and
`before` the disk at the start of the run: both are for the properties.

Abstracted: rendering, hashing, JSON, canonicalisation, how a marker line is
found (a text holds it or not; the injection variants `before`, `after`,
`at_line` come to one splice), the wording of receipts, telemetry. Runs do
not overlap (the lock's business), and users edit between runs only. Of what
commands do, three things are left out: effects on the manifest and the
receipt log, processes that a hook leaves behind and that write after the run,
and code that never returns.

**The contract.** `ReconcileContract` says what all this comes to for a
caller, and for the next run. Its `tree` is the project between runs and, in
a run, the project as it is to be found if nothing follows; the refinement mapping takes it
from `before` until the receipt is written and from `disk` afterwards.
`Commit` is the whole request and its `:alive` receipt in one step: every
path that no target writes is untouched, every target is `Fulfilled` on the text
the run found, but for the paths that commands of the request touched (`Spill`), and the manifest to be written (`NewRecord`) is a function of
request and tree. Otherwise one of:

| Contract | When | Leaves |
|---|---|---|
| `Fail` | `:refused`, `:build_broken`, `:compensated` | the tree; under `:compensated` an injection may be torn, and unless the request was refused, what its commands touched is theirs |
| `FailBadly` | `:compensation_failed` | debris of the request's own targets, and of its commands |
| `Vanish` | a death, or no receipt could be appended | the same debris, and no receipt |
| `Approve` | a dry run that says `:alive` | nothing; the request could have been carried out |
| `Settle`, `Delete`, `Succeed`, `StopShort` | after the commit | the manifest promoted or not, then any of the planned deletions made |

The last row is the weakness of the code the contract has to state: manifest
and deletions are not part of the commit.

### 2.3 DirLedger and TransitionLog

A *writer* is one call of `append/3`, by a BEAM or OS process of its own; two
appends after each other are two writers of which the second begins late.
`pc` is its place in the code:

| `pc` | Code | Actions |
|---|---|---|
| `idle` | before the call | `Begin` |
| `list` | `decode_dir/1` | `Decode` |
| `stamp` | `next_epoch/3` | `Stamp`, `RefuseEpoch` |
| `mark` | the comparison in `stamp/4` (186) | `NeedsNoMark`, `NeedsMark` |
| `lock`, `bump`, `fill`, `unlock` | `write_epoch_marker/2`: `with_lock/3` around `bump_marker/3` | `Lock`, `LockGivesUp`, `Truncate`, `MarkedMeanwhile`, `Fill`, `Unlock` |
| `claim` | `claim_digest/2` | `ClaimDigest`, `DigestTaken` |
| `count`, `measure` | `next_seq/1` | `CountClaims`, `CountEvents` |
| `take`, `write` | `write/3` | `ClaimSeq`, `SeqTaken`, `Publish` |
| `await` | `await/3` | `AwaitFinds`, `AwaitGivesUp` |

An event is its payload (a vector clock is part of it), epoch and seq; its digest
is the payload with the epoch. An event file appears by rename and is
never touched again, so listing the directory and reading the files is one
step, and the temporary file is not seen. `File.write!` of the marker is two
steps. `with_lock/3`'s error is ignored by `stamp/4`, as in the code.
Waiting is bounded in the code by 500 attempts; the model lets a wait end
whenever what is waited for is not there. `Raise` is an operation on the disk
that raises out of `append/3` in a process that lives on (`after` removes the
lock; claims stay), `Crash` a kill (the lock stays too); they end in places of their
own, `raised` and `crashed`. A `File.rm` failing in `after` is not modelled:
it leaves the lock as a death does. `past` is a history
variable: the events returned before a writer began.

`TransitionLog` adds the file form. What the forms share in the code they share
in the model: `stamp/4` (`Stamp`, `RefuseEpoch`), the marker, `find/2`, and
the variables of a writer, so `TypeOK`, `LaterIsAfter` and `AppendReturns` are
one property each. `kind` is `kind/1`'s answer, which does not change once the
ledger exists (`mkdir_p!` or the first line makes it so), and selects the steps:

| `pc` | Code | Actions |
|---|---|---|
| `idle` | before the call | `FileBegin` |
| `lock` | `with_lock/3` on `<path>.lock` | `TakeLock`, `FileLocked` |
| `list` | `decode_file/1` | `DecodeFile`, `RefuseFile` |
| `stamp` | `next_epoch/3` | `StampFile`, `RefuseFileEpoch` |
| `mark`, `fill` | `stamp/4`, `bump_marker/3` without a lock of its own | `FileNeedsNoMark`, `TruncateMark`, `FillMark` |
| `write` | `append_line/3` | `AppendLine` |
| `unlock` | `File.rm` in `after` | `ReturnLine` |

`lines` are the events whose text stands whole in the file, readable or not, and
`tail` is how the file ends: `CutLine` leaves part of an event (`torn`: no later
decode succeeds) or all of it without the newline (`open`: it decodes, and the next
event continues its line). A step that only reads and then releases the lock
is one step with the release, since nobody else is in the lock. `RaiseInFile` is a
`File.write!` that raises (the lock is released), `CrashInFile` a kill or a failure
of the machine (it is not).

Abstracted: JSON and tampered entries (refusals that write nothing), file
names, the sort of `read/1`.

### 2.4 Qualification

`Ladder` is `qualify.sh` read from top to bottom, one label for each step
and run; `pos` is the next one. An action handles one kind of step (`Manufacture`,
`Compile`, `Isolate`, `Seal`, `Setup`, `DiffStep`, ...): what it does to the
fixture, the row it appends to `rows` (`steps.jsonl`) and whether it
raises `failed`. A step that fails leaves what the script leaves when it dies
there, and the ladder goes on: only an interruption ends it, after
which the receipt may be written by hand, as the script allows.

| Variable | Code |
|---|---|
| `tree` | each file of the fixture: absent, what the generators write (`v1`, or `v2` from an unstable one), a survivor of an earlier qualification (`old`), the task rendered or `edited` by hand; a configuration names no database, the `shared` one or the `scoped` one of this run |
| `live`, `ocel` | the log of each phase where the task writes it, and the copies `$OUT/ocel-run*` |
| `db` | for each environment, the schema in the shared and in the scoped database |
| `T`, `D` | tree manifests and `pg_dump` captures; a capture is a set of at most one element |
| `short` | history: the runs whose tree manifest lacks files that were there |
| `rows`, `failed`, `compileExit` | `steps.jsonl`, `$FAILED`, the exit codes logs are sealed with |
| `drift`, `verdict`, `receipt` | the three reports |
| `killed` | the harness was interrupted |

`reset` (the reset was complete), the field `by` of a log (the run that wrote it)
and `broken`, `faults` (what fails, how often) are history and environment.
`TreeHash` may capture less than the tree, or nothing: `find`, `shasum` or the
redirection fails, and nobody looks at the status of the pipe. Which files
a short capture lacks is the constant `Shortfalls`, beside all of them.
`Init` is a fresh checkout of the fixture or the leftovers of an earlier
qualification, with the task as rendered or edited since.

A log is a *document* of typed objects and of events with relations, and the
checks of `Conformance` are operators over two runs' documents, the plan,
the capabilities, the rows and the tree. `Seal` is the whole task: refuse a missing
or a sealed log, rebuild the events from the document, add the seal event,
normalise, write. The harness then copies and checks. `Written` is `receipt.py`.

Abstracted: what SQL the captures select, hashes (a text stands for its
hash), JSON, times, versions, the list of commands, wording. The EDS
receipt of the seal appears as the claim it makes, `SealedOnce`; a falsified
claim would not change the task's exit code.

Behaviours met that the properties state as they are: a skipped beam4pm row is
no failure for `qualify.sh` (470-472) and one for `receipt.py` (120);
the exit code of `day_zero.sh` is not looked at (184); a failing sync leaves
a traceback in `drift.json`, on which `receipt.py` dies, so that no receipt is
written; subjects are looked up in the tree run 3 left, whatever run
the log is of; manufacture rows have no part in `IDEMPOTENCY_ALIVE`; a receipt written by
hand before run 2 was captured lists every file of day zero as removed;
steps for domains and resources are rendered whether or not their generators are
admitted (`templates/manufacture.ex.eex` 276-308), so that it is left to the
drift and conformance checks to refuse them. `conformance.py` reads admission by
a narrow pattern (121-145); the model takes the ontology to be laid out as it is
in the repository, and leaves other layouts to `DriftCheck`. Whether the drift
check sees an edit of the task is open here (`Traced`).

### 2.5 DriftCheck, CitationCheck, AshPack

`Render` is the template over the gates' rows: a task is a sequence of steps,
each with its arguments and the values it passes per option. `NoDrift` is the
checker over the ontology *as its patterns parse it* and over the steps *its
pattern finds*. Three sets of the ontology say how its blocks are written:

| Set | Blocks that | Gate | Strict pattern | Guard |
|---|---|---|---|---|
| `incomplete` | lack a property only the gate asks for | drops the row | reads it | |
| `loose` | are laid out as the guard still detects | reads it | misses it | detects it |
| `odd` | are laid out as neither has it | reads it | misses it | misses it |

So `ParseVacuous` is what the guards are: they speak when a class has no row at
all and the loose pattern finds something of it. `Installed`, domains, resources and support
modules follow the template: the latter and the installers are rendered if the
capability's row is there and admitted, the former two always. In the task,
`seen` tells whether the argv of a step is where `parse_rendered` looks for it,
and a module counts as named anywhere in it (`Mentioning`, 333 and 367). Values
are numbers, and the projected order is theirs (`ProjectedOrder`); the order of a
step is compared only if it passes the projected values and no others, each as
often (`ToBag`), as the checker compares two sorted lists first. A support
module is known by its name.

`AllAnchored` works on a file as a sequence of symbols, a lock
file of versions and the declared pins; a citation may be written so that the
pattern does not read it. `AshPack` edits all of these in any order: facts,
domains and resources added or removed, properties lost, capabilities admitted or
refused, the layout of any block, the rendered task (steps dropped, repeated,
renamed, rearranged, values reordered), upgrades and downgrades, patches that
shift lines, pins declared anew before or after the dependency moves, citations
moved or rewritten, and a sync.

What `NoDriftMeansFaithful` does not say is what the checker does not see: a
block the patterns miss while another of its class is read; a step whose argv
was moved away from its task, though drift_check.py:17-21 says that direction two
catches hand-edits (287 reads only argv that follows); of two steps with one subject all
but the last; steps for domains and supports that are not in the ontology, if
their generator is admitted; options other than the four traced; an installer
whose capability was dropped by its gate. `citation_check.py` is run by hand or in
CI, not by `qualify.sh`; it has no guard, and a pin declared before the upgrade
it is for leaves no state in which the version tells anything.

`evidence_check.py` is not modelled beyond its exit code, a rung of the ladder:
each reference is resolved by itself, and a property of it could only repeat the
test. Two things a reader should know of it: a range whose end precedes its begin
passes (127-128), and it finds capabilities in one layout (56) with no guard, so that
after a reformat nothing is looked at and the exit is 0.

Not modelled: a property that gate and checker both ask for and that is missing
(the checker puts a sentinel in its place, which is drift wherever it is
compared); lists that the pattern reads in part, or reads in a comment; flags
written with a datatype. The step of `ash.install` has no argument: what it is
for stands as its subject.

## 3. Runs

| Run | Instance | Shows |
|---|---|---|
| `lock` | 3 processes, 1 of another user, 1 failing unlink | types, `ExclusionUntilFirstExit`, `LeftoverOnlyByFailure`, and `AcquireReturns` under fairness |
| `lock_race` | 3 processes of one user, no failing unlink | **violation** of `MutualExclusion` |
| `reconcile` | 13 requests, all 12 faults, 2 runs, 1 user edit | types, `RestoredOnFailure`, `AliveNeverUndone`, `AliveMeansActuated`, `ManifestNeedsReceipt`, `DryRunWritesNothing`, `PruneOnlyAfterEvidence`, `RunTerminates`, and the refinement `ImplementsContract` |
| `reconcile_fan_out` | one request, 3 runs, no fault | **violation** of `OwnedLeavesOnlyAsStale` |
| `reconcile_order` | 2 requests, 2 runs, no fault | **violation** of `ManifestAfterPrune` |
| `ledger` | a ledger of either form, 3 writers, 4 combinations of calls, 1 death or exception | types, `LaterIsAfter`, `LostOnlyByFailure`, `ExactHistory`, `LockHasOwner`, the refinements `ImplementsStandingLog` and `FileImplementsStandingLog`, and `AppendReturns` under fairness |
| `dir_ledger_duplicate` | 3 appends of one event, 1 death or exception | **violation** of `AlreadyRecordedIsThere` |
| `dir_ledger_marker` | 3 epoch bumps | **violation** of `MarkerNeverMovesBack` |
| `qualify` | 4 planned steps, 1 refused capability, 2 faults, an interruption | types; `LogsSound`, `SealedOnce` of logs; `Conformant...` (3) of the verdict; `IdempotencyIsTheWorlds`, `ProvenanceIsTrue`, `RedStandingNamesItsOracle` of the receipt; `PassImpliesAlive`, `LedgerTellsFailure` of the exit code; `SharedOnlyIfNotIsolated` of the databases |
| `qualify_capture` | as `qualify`, 1 fault | **violation** of `FixpointIsOfTheTree` |
| `qualify_isolation` | as `qualify`, 1 fault | **violation** of `FailedIsolationStops` |
| `pack_checks` | 2 resources, 2 supports, 2 dependencies, 3 edits | types; `NoDriftMeansFaithful`, `NoDriftMeansOrdered`, `DroppedRowIsDrift`, `RenderedHasNoDrift`, `AnchorsHoldOrRed` |

### 3.1 What the violations show

1. **Two holders of the lock.** A waiter reads the marker of A. A releases
   and exits, so `kill -0` says dead. C creates its own lock. The waiter's
   `File.rm` (lock.ex:130) deletes C's lock, and the waiter creates another.
   No crash is needed. The verdict is about a file that is not the one
   unlinked; lock.ex:16-20 and 40-44 promise otherwise.
2. **A fan-out forgets its files.** When the rows of a `for_each` are skipped
   (`unless_exists`, `skip_if`) on a second run, `commit_recipe_group/5`
   (3317-3340) rebuilds the entry from the other rows alone. The skipped
   paths are not stale, since the run produces them, and not owned any more.
   The single-row clause keeps the prior entry.
3. **Manifest before prune.** The task's documentation puts the deletions
   first; the code persists first (3148, then 3183). An interruption between
   the two orphans the file.
4. **Already recorded, but nowhere.** A writer dies, or gets an exception, after
   `claim_digest/2` made its claim and before `write/3` renames the event. Every
   later append of that event waits five seconds and answers
   `{:ok, nil, :already_recorded}` (427), which neither the moduledoc nor the
   `@spec` allows, and the event cannot be recorded any more.
   `LostOnlyByFailure` shows that a death or an exception is the only way to get
   there. (A waiter that gives up on a slow writer gets the same answer; there the
   event still appears, and `AlreadyRecordedIsThere` does not count it.)
5. **The epoch marker goes back.** `bump_marker/3` (275) truncates the
   marker before it writes the number. Other writers read it without the lock
   and find 0, and a death in between leaves it so: an epoch declared
   without an event is lost. `LaterIsAfter` shows that epochs recorded in
   events are not affected, since `last_epoch/2` takes the maximum of both.
6. **A failed isolation does not stop.** When `isolate_db.py` fails, the
   harness records the row and runs `ash.setup` next, on the database the
   installer named and other work shares; the comment above the step
   (qualify.sh:224) says the qualification stops. `SharedOnlyIfNotIsolated`
   shows that this is the only way to it.
7. **A fixpoint of empty captures.** `tree_hash` (qualify.sh:104-109) is no rung
   and its status is dropped. If `shasum` cannot be run, the tree manifests of
   the three runs exist, are empty and equal, and the receipt calls the tree a
   fixpoint. For the databases `receipt.py` (149-150) asks that captures be
   real; for the tree nothing does. What holds all the same is
   `IdempotencyIsTheWorlds`: what the captures list is there as listed.
A disagreement stated as an exception in `ExclusionUntilFirstExit`: `kill -0` on the
pid of a running process of another user is refused, the exit is not zero,
`os_pid_alive?/1` (lock.ex:287-289) answers `:dead`, and the lock is broken at
once. The comment above it (272-274) takes a nonzero exit to mean that no such
process exists. Until a first process ends, this and the disclosed judgement by age
are the only ways to two holders.

Two more are stated as exceptions in
`RestoredOnFailure`: an injection that dies inside `File.write!`
(actuate.ex:316) is neither atomic nor tracked, so such a target stays torn
under a `:compensated` receipt; and what hooks and evaluated code did to files
stays, as `docs/reference/cli/sync.md` (420-427) says of hooks.

### 3.2 Bounds, and why they are enough

- *Lock*: the races need a holder or a dead one, a process that judged it,
  and one that takes its place: three processes, one of them of another user so that
  both kinds of pairs occur. `MaxRmFailures` is there
  because a failing unlink is retried without a look at the deadline; with
  unboundedly many the retry would never end, and `AcquireReturns` says so
  in its statement. Each process acquires once, as a `mix` process does.
- *Reconcile*: two files inside the project root and one outside; two texts,
  of which one holds the marker line; one snippet; two recipes. The
  requests are those whose combinations reach every branch: a fan-out over
  both files, its renaming to one file under each policy (which makes the other
  stale), a mixed request of a file, an injection and two evals, a file and an
  injection with hooks, an `unless_exists` row with an injection, a duplicate target, a target outside
  the root, and dry runs. Two runs suffice for what one run inherits from the
  other; the protocol sequence that needs three has a run of its own. Commands
  overwrite any file with the text that has no marker line (`SideEffect`), which can
  satisfy a skip, spoil an injection and outlive an undo; deletions are left to the user
  between the runs, since with both the states multiply by the files at every step. The
  theorems are for any effects.
- *Directory ledger*: three writers are what it takes for one to own a claim,
  one to wait for it or to race for the next seq, and one to come after both. The
  four combinations of calls are the same event twice beside another; a
  plain append, another and a bump; two bumps beside a plain append; and
  explicit epochs of which one may regress. `MaxEpoch` is 3 and no combination
  gets beyond it; one death or exception (`MaxFailures`) at any point. In the file form three
  writers are one whose line or marker is cut, one that writes onto what is left, and
  one that reads the result.
- *Qualification*: two steps in each phase are what order and
  coverage need; among them a guarded step (skipped when its file is there), one
  that drains what it queues, and a table. One capability is declared and not
  admitted; the edited task composes it. `MaxFaults` is 2, so that a failure
  can hide another; `broken` is a fault that repeats whenever its step
  runs (a phase with a conflict, `psql`, `shasum`), chosen at the start, since three
  equal failures are what can pass for idempotency. A short capture lacks one
  generated file or all of them. Here the edited plan composes a
  refused task; that the projected one may, too, is left to the theorem. Three runs are the code's.
- *Pack checks*: two resources, so that one can lack what the other has; an enum
  with two values and a refused support; three lines in each file; three
  edits (`MaxEdits`), as an upgrade, a moved anchor and a re-pin, or a lost
  property, a lost layout and a step edited by hand.
  `OneSide` keeps TLC from edits on both sides of one state: no action and no property
  reads both the rendering and the dependencies.
- `CHECK_DEADLOCK FALSE`: processes end, the number of runs is bounded and a
  qualification is over after its last rung. `pack_checks` has no deadlock.

### 3.3 Fairness

- *Lock*: weak fairness of each process's own `do_acquire/4` steps (a running
  VM is scheduled) and of its deadline (a monotonic clock advances). Nothing is
  assumed of holders: their body may last for ever, so the deadline and
  not their release is what ends the wait.
- *Reconcile*: weak fairness of the run's own steps. `run/1` is a function that
  the VM keeps executing, actuation is run with an infinite timeout, and
  evaluated code or `mix compile` is taken to return. What commands do to files
  (`SideEffects`) is under no fairness. Nobody has to start a run, no fault
  or crash has to occur.
- *Directory ledger*: weak fairness of each writer's own steps once it has
  begun. A writer that finds the lock or a claim taken uses up its
  attempts, so nothing is assumed of the one that holds it.
- *Qualification* and *pack checks* state none: a script may be interrupted at
  any rung, and nobody has to edit. Their properties are about safety.

## 4. Proofs

Proved with TLAPS for all constants that satisfy the named assumptions: any set
of processes and of pairs that may signal each other, any writers, paths, recipes,
requests, calls and effects of commands, any subset of the faults, any number of
runs and deaths; any plan, capabilities, modules, short captures and number of
faults of a qualification; any ontology, layout, files, pins and edits.

| Theorem | Says |
|---|---|
| `LockTypeCorrect`, `LockExclusion`, `LockLeftover` | the safety properties of run `lock` |
| `ReconcileTypeCorrect`, `ReconcileAliveNeverUndone`, `ReconcileManifestEvidenced` | types, and the accounts of receipts and manifest |
| `ReconcileRestored` | a failed run leaves nothing behind but torn injections and what hooks and evaluated code did |
| `ReconcileImplementsContract` | the pipeline implements `ReconcileContract` |
| `ReconcileAliveMeansActuated`, `ReconcilePruneEvidenced`, `ReconcileDryRunWritesNothing` | what success, prune and dry run do to the disk |
| `LedgerTypeCorrect`, `LedgerLaterIsAfter`, `LedgerLostOnlyByFailure`, `FileLedgerExactHistory`, `FileLedgerLockHasOwner` | the safety properties of run `ledger` |
| `LedgerRefines`, `FileLedgerRefines` | both forms implement `StandingLog` |
| `DirLedgerSingleOwner` | so events and seqs have one owner (the first part of `TransitionLogProofs` is about the directory by itself) |
| `LedgerTells` | `$FAILED` is what ledger, verdict and receipt say, at every step |
| `SharedOnlyWithoutIsolation` | a shared database is touched only after a red isolation rung |
| `QualificationTypes` | the types of run `qualify` |
| `RedNamesItsOracle` | a red idempotency standing names an oracle, and the reverse |
| `IdempotencyOfTheWorld`, `ProvenanceTrue` | an alive idempotency standing and the receipt's provenance are true of the databases and of the files captured, however captures fail |
| `LogsAreSound`, `SealedOnceOnly` | every log, live or copied, is a closed object graph and sealed at most once, for plans of any length |
| `ConformantIsFresh`, `ConformantIsManufactured`, `ConformantIsAdmitted` | what a green conformance check means for the logs and for the tree, whether or not the plan's tasks are admitted |
| `PassIsAlive` | exit 0 leaves a receipt with every standing alive |
| `PackTypes` | the types of run `pack_checks` |
| `NoDriftIsTrue`, `NoDriftIsOrdered` | a green drift check means that the steps it sees say what it reads of the ontology, in the projected order, for any layout |
| `DroppedIsDrift` | a row that a gate drops from the task is drift if the checker reads its block |
| `RenderedIsClean` | what the template renders of complete blocks in the usual layout has no drift |
| `AnchorsHold` | what a green citation check means for the citations it reads |

The assumptions (`SubsetsAssumption`, `FaultsAssumption`, `BoundsAssumption`,
`UserFileAssumption`, `FreshAssumption`, `RequestAssumption`,
`MaxRmFailuresNat`, `MaySignalType`, `NoFileIsNothing`, and in `DirLedger`
`BoundsAssumption`, `OptionAssumption`, `CallsAssumption`, `NothingAssumption`)
say only that constants have their types and that the special values are
different from ordinary ones. Two say more:

- `PlanAssumption`: a plan and what a step drains are sequences, a guarded step names
  the module it guards, tasks are declared capabilities, of which there are finitely
  many. Whether a planned task is admitted is open, in the projected plan as in
  the edited one, since two of the gates behind it do not ask (see 2.4).
- `PackAssumption`: the graph is finite and its facts are typed; two
  support modules have different names, since the gates' rows and the checker both
  join by name, and are not of the kind of an installer, a domain or a resource; a
  file has one text, or is not there.

TLC evaluates all of them on the instances.

The inductive invariants:

- *Lock* (`IInv`): exclusion is not inductive, since it does not say who
  the file belongs to. `Ownership` does: while no process has ended and no
  lock was judged by its age or by a refused signal (`Calm`), nobody is about to
  unlink and whoever is past `File.open` created the file at the path.
  `LeftoverOnlyByFailure` is the half of this that survives exits, and `ProbeHasPid` gives probes a process.
- *Receipts* (`ReceiptInv`): the phase tells whether the current run has its
  `:alive` receipt; receipts bear numbers of started runs; and the manifest a
  run *observed* is evidenced too, because entries are copied from it.
- *Restoration* (`RestoreInv`): until the revert is over, every path is as the
  run found it, or has its pre-image tracked, or is one of the three exceptions
  (a lost revert, a torn injection, a path that a command touched). It needs
  that admission leaves one item per path and that an item yet to run finds its
  path as the run did, unless a command touched it, without which a tracked
  value would not be the pre-image; and that only an admitted, applied request
  with hooks or code has such paths (`CodeTouches`).
- *Contract* (`ContractInv`): `OutcomeInv` and `RestoreInv` together, and what
  they do not say: an item that ended well left `Fulfilled` at its path and
  was skipped exactly when the contract leaves the path alone
  (`ItemsCarried`); whatever differs from the start is debris of the
  request's own targets (`OnlyDebris`), also where a revert tore a file
  (`TrackedIsTarget`); the plan admitted is the plan carried out (`PlanStands`);
  a broken build has no torn item and only an applied run can lose one
  (`FailureStands`). With it `AppendAlive` maps to `Commit`, `Report` to one of
  the failures, and every step before the receipt to none.
- *Outcome* (`OutcomeInv`): items that ended well have their result on disk,
  the deletions in hand are the planned ones and disjoint from what is written,
  and a dry run has nothing to compensate.
- *Directory ledger* (`DirInv`): that a candidate seq is free says nothing by
  itself; a seq is new because the claims are always 1 to n
  (`ClaimsContiguous`), no candidate skips one (`Candidates`), and there are
  never more events than claims, the events being mapped into the claims one to one.
  `TypeOK` is not inductive without this: `Cardinality` needs finite sets.
  A claim that is not used yet has one owner (`DigestOwned`, `SeqOwned`),
  which makes the event published fresh: that is the refinement. For the order
  of appends, `Stamps` carries from the snapshot to the answer that epoch
  and candidate are not below those of `past`. The steps are first reduced to
  the twelve kinds of `WriterStep`.
- *File ledger* (`FileInv`): a seq one past the highest *read* is new only because
  what the writer in the lock has read is the whole file (`ReadsAll`), and that
  stays so because nobody else is in the lock (`Serialized`). `StampsAbove` and
  `Answers` carry epochs and answers from there to `ExactHistory` and
  `LaterIsAfter`. `LedgerInv` is `DirInv` or `FileInv`, by `kind`.

- *Ledger of a qualification* (`LedgerInv`): `$FAILED` follows from the rows only
  as long as it is known which rung comes next, so the invariant says where in
  the ladder verdict and receipt may be set. That conformance and
  receipt are its last two rungs, for any plan, is `LadderOrder`, a fact about
  concatenations proved by the lemmas before it.
- *World of a qualification* (`WorldInv`): until isolation both configurations
  name no database that has been set up; after it they are scoped and
  nothing puts a shared name back, because the installer names a database only where
  there is none; or the red row is in the ledger. `ReceiptInv` is what `Written` was
  computed from: captures are not retaken.
- *What the ledger certifies*: a row by itself says that something was equal when it
  was compared. `RowsInv` says that every rung passed has its row, and no other;
  `CaptureInv` from which rung on there is a capture, that the last tree lists the present
  one, wholly unless it is short, that the last schema is that of this run's database and,
  after a complete reset, the first tree bare; `DiffInv` that a green row means the captures are equal. Together they
  carry an alive standing back to the three runs. `VerdictInv` says that a green verdict is `Conformant` of what is
  still there when the receipt reads it.
- *Logs of a qualification*: `OcelInv` counts the copies by the position and allows one
  live log for each phase. `LogsInv` is what makes `LogsSound` inductive: every
  log is a `GoodDoc`, its objects those its events need, its decisions in the form
  the task writes them, and at most a seal at the end; sealing rebuilds such
  a document into one. `TellsInv` says that a log of this qualification tells the
  decisions of the tree as it is, whatever was applied since: a step refused names a
  module that is there, and what would still be composed was. `MadeInv` says that a
  module this qualification made has a step in the plan, and that step is in every log of
  run 1: through coverage by admitted tasks this is `ConformantTreeIsAdmitted`.
  `FreshInv` ties a green manufacture row to the run that wrote the log, live until it is copied and in the copy
  from then on; with `RowsInv` it follows that a stale log, though sealed and copied like
  any other, does not pass.
- *Pack checks*: files, citations and pins keep their types under every edit
  (`SourcesOK`); that a check means what it says is proved of the operators
  (`ReadValuesArePassed`, `PassedValuesAreFacts`, `GreenIsAnchored`, `InOrderIsOrder`) in any
  state of that kind. `PackInv` adds `RenderingOK` (the graph keeps its form, the
  task is a sequence of steps, and a task synced and not touched since is
  `Render(ontology)`) and `VersionsOK`. `RenderIs` and `RenderedStepIs` say which
  steps `Render` has, at least one for each subject and nothing else; from
  there `DroppedIsDrift` finds no step for a dropped row.

Documents and rendered tasks are concatenations (`FlattenSeq`), and the projected
order is an ascending enumeration; neither has a closed form the provers know.
`SequenceProofs` gets what is needed of them by induction, stated for sets of
numbers (`LeastElement`): an element of a concatenation is one of a part, parts
that satisfy a condition concatenate to a sequence that does, a finite set of numbers
has an ascending enumeration, and the bag of a sequence without repeats is that of
its range.

Only checked by TLC: the liveness properties `AcquireReturns`,
`RunTerminates` and `AppendReturns`, since fairness is outside the prover's
reach; and the seven counterexamples. Every other property of a passing run
is a theorem.

## 5. Plan

Done: the lock, the pipeline and its contract, the ledgers, the
qualification of the ash-manufacture pack and its checks. Left, in this order:

1. `StandingReconciler` on top of the abstract log: read, decide, append by
   several replicas; vector-clock refusals; the lease's multi-party law.
2. `ReceiptLog`: appends with torn lines and the lock of its own, and
   `reconstruct_standing` as a fold, against the receipts the pipeline writes.
3. `SyncSession`: lock and pipeline composed, several templates per session,
   showing what the lock's race means for the project. `ReconcileContract` is
   the run it would be composed of.
4. `Controller`, `EpochWatermark` and `PackLock`, small modules with a reference
   definition each.
