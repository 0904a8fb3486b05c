------------------------- MODULE ReconcileContract --------------------------
(***************************************************************************)
(* What run/1 of the reconciliation pipeline promises whoever calls it: a  *)
(* request is carried out as a whole, at the instant its :alive receipt is *)
(* written, or not at all.  Between runs tree is the project; during a run *)
(* it is the project as it is to be found if the run goes no further.      *)
(*                                                                         *)
(* The promise has the exceptions the code has, each an action or a        *)
(* disjunct of its own: an injection that tears, a compensation that       *)
(* fails, a death or a raise in mid-run, and, once the run is committed, a *)
(* manifest that is not promoted and deletions that are not made.  And it  *)
(* says nothing of the files that the shell commands and the evaluated     *)
(* code of an admitted request change (spilt), however the run ends.       *)
(***************************************************************************)
EXTENDS ReconcilePlan

VARIABLES
    tree,    \* Path -> State
    record,  \* the manifest
    log,     \* the receipts
    count,   \* how many runs have started
    job,     \* the request being carried out, or NoRequest
    stage,   \* "idle", "open", "committed" or "recorded"
    book,    \* the manifest a committed run is to leave
    doomed,  \* the deletions a committed run has still to make
    spilt,   \* the paths that code of the request has changed in this run
    answer   \* what run/1 answered last

cvars == <<tree, record, log, count, job, stage, book, doomed, spilt, answer>>

Writes(r, p) == {i \in WriteItems(r) : r.targets[i].path = p}

\* A target is left alone, or holds its rendering, or holds one more snippet.
LeavesAlone(t, s) == t.op = "file" /\ s # Absent /\ s \in t.skipOn

Fulfilled(t, s) ==
    IF LeavesAlone(t, s) THEN s
    ELSE IF t.op = "file" THEN Rendered(t.text)
    ELSE [s EXCEPT !.frags = @ \cup {t.frag}]

\* The request can be carried out: it is admitted and every snippet has its place.
Feasible(r) ==
    /\ Admissible(r, record)
    /\ \A i \in WriteItems(r) :
          r.targets[i].op = "inject" /\ r.targets[i].path \notin spilt =>
              LET s == tree[r.targets[i].path] IN s # Absent /\ s.base \in Slotted

\* kept is the set of rows that were left alone.
Keeps(r, kept) ==
    \A i \in FileItems(r) : r.targets[i].path \notin spilt =>
        (i \in kept <=> LeavesAlone(r.targets[i], tree[r.targets[i].path]))

Produces(r, k, p, kept) == \E i \in Group(r, k) \ kept : r.targets[i].path = p

\* The outputs of one recipe, once t is the tree: what its rows produce.
Produced(r, k, t, kept) ==
    [p \in Path |-> IF Produces(r, k, p, kept) THEN t[p] ELSE Absent]

\* A single row left alone keeps its entry; so does a recipe with nothing new.
NewRecord(r, t, kept) ==
    [k \in Recipe |->
        IF \/ Group(r, k) = {}
           \/ SingleRow(r, k) /\ \A p \in Path : ~Produces(r, k, p, kept)
           \/ Produced(r, k, t, kept) = record[k].outputs
        THEN record[k]
        ELSE [outputs |-> Produced(r, k, t, kept), run |-> count]]

-----------------------------------------------------------------------------

CInit ==
    /\ tree = [p \in Path |-> Absent]
    /\ record = [k \in Recipe |-> NoEntry]
    /\ log = <<>>
    /\ count = 0
    /\ job = NoRequest
    /\ stage = "idle"
    /\ book = record
    /\ doomed = {}
    /\ spilt = {}
    /\ answer = "none"

Start(r) ==
    /\ stage = "idle"
    /\ stage' = "open"
    /\ count' = count + 1
    /\ job' = r
    /\ answer' = "none"
    /\ UNCHANGED <<tree, record, log, book, doomed, spilt>>

\* Code of an admitted request that is being applied changes a file; nothing is
\* promised of that file for this run.
Spill(p) ==
    /\ stage = "open"
    /\ job.mode = "apply"
    /\ \E i \in DOMAIN job.targets : RunsCode(job.targets[i])
    /\ Admissible(job, record)
    /\ spilt' = spilt \cup {p}
    /\ UNCHANGED <<tree, record, log, count, job, stage, book, doomed, answer>>

\* The whole request, and its receipt, at once.
Commit ==
    /\ stage = "open"
    /\ job.mode = "apply"
    /\ Feasible(job)
    /\ tree' \in [Path -> State]
    /\ \A p \in Path \ spilt :
          IF Writes(job, p) = {} THEN tree'[p] = tree[p]
          ELSE \A i \in Writes(job, p) : tree'[p] = Fulfilled(job.targets[i], tree[p])
    /\ log' = Append(log, [run |-> count, standing |-> "alive"])
    /\ \E kept \in SUBSET FileItems(job) :
          Keeps(job, kept) /\ book' = NewRecord(job, tree', kept)
    /\ doomed' = IF job.onStale = "prune" THEN StalePaths(job, record) ELSE {}
    /\ stage' = "committed"
    /\ UNCHANGED <<record, count, job, spilt, answer>>

\* The manifest follows, unless it cannot be written.
Settle(m) ==
    /\ stage = "committed"
    /\ m \in {book, record}
    /\ record' = m
    /\ book' = m
    /\ stage' = "recorded"
    /\ UNCHANGED <<tree, log, count, job, doomed, spilt, answer>>

\* The deletions follow the manifest, in any order.
Delete(p) ==
    /\ stage = "recorded"
    /\ p \in doomed
    /\ tree' = [tree EXCEPT ![p] = Absent]
    /\ doomed' = doomed \ {p}
    /\ UNCHANGED <<record, log, count, job, stage, book, spilt, answer>>

Finish(a) ==
    /\ stage' = "idle"
    /\ job' = NoRequest
    /\ doomed' = {}
    /\ spilt' = {}
    /\ book' = record
    /\ answer' = a
    /\ UNCHANGED <<record, count>>

\* A committed run answers :alive, whatever deletions it could not make.
Succeed ==
    /\ stage = "recorded"
    /\ Finish("alive")
    /\ UNCHANGED <<tree, log>>

\* A dry run says that the request could be carried out, and leaves no trace.
Approve ==
    /\ stage = "open"
    /\ job.mode # "apply"
    /\ Feasible(job)
    /\ Finish("alive")
    /\ UNCHANGED <<tree, log>>

Receipted(s) ==
    log' = IF job.mode = "check" THEN log
           ELSE Append(log, [run |-> count, standing |-> s])

\* What an unfinished run may leave behind at the paths it was to write.
Debris ==
    /\ tree' \in [Path -> State]
    /\ \A p \in Path \ spilt :
          \/ tree'[p] = tree[p]
          \/ /\ job.mode = "apply"
             /\ \E i \in Writes(job, p) :
                   tree'[p] \in {Rendered(Torn), Fulfilled(job.targets[i], tree[p])}

\* A run that fails leaves the project as it was, except for a torn injection.
Fail(s) ==
    /\ stage = "open"
    /\ s \in {"refused", "compensated", "build_broken"}
    /\ s = "refused" => spilt = {}
    /\ tree' \in [Path -> State]
    /\ \A p \in Path \ spilt :
          \/ tree'[p] = tree[p]
          \/ /\ s = "compensated" /\ job.mode = "apply"
             /\ tree'[p] = Rendered(Torn)
             /\ \E i \in Writes(job, p) : job.targets[i].op = "inject"
    /\ Receipted(s)
    /\ Finish(s)

\* Some path could not be put back, and the receipt says so.
FailBadly ==
    /\ stage = "open"
    /\ job.mode = "apply"
    /\ Debris
    /\ Receipted("compensation_failed")
    /\ Finish("compensation_failed")

\* Nobody says anything: the VM died, or run/1 raised for want of a receipt.
Vanish(a) ==
    /\ stage = "open"
    /\ a \in {"crashed", "raised"}
    /\ Debris
    /\ Finish(a)
    /\ UNCHANGED log

\* A death after the receipt: what was to follow does not.
StopShort ==
    /\ stage \in {"committed", "recorded"}
    /\ Finish("crashed")
    /\ UNCHANGED <<tree, log>>

\* Between runs a user does something to a file.
Edit(p) ==
    /\ stage = "idle"
    /\ \E c \in State : tree' = [tree EXCEPT ![p] = c]
    /\ UNCHANGED <<record, log, count, job, stage, book, doomed, spilt, answer>>

CNext ==
    \/ \E r \in Request : Start(r)
    \/ Commit
    \/ \E m \in {book, record} : Settle(m)
    \/ \E p \in Path : Spill(p) \/ Delete(p) \/ Edit(p)
    \/ Succeed \/ Approve
    \/ \E s \in Standing : Fail(s)
    \/ FailBadly
    \/ \E a \in {"crashed", "raised"} : Vanish(a)
    \/ StopShort

CSpec == CInit /\ [][CNext]_cvars

=============================================================================
