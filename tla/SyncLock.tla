------------------------------ MODULE SyncLock ------------------------------
(***************************************************************************)
(* The cross-process lock of `mix ggen_igniter.sync` and `... replay`:     *)
(* lib/ggen_igniter/lock.ex.                                               *)
(*                                                                         *)
(* Each member of Proc is one OS process (one `mix` invocation) that       *)
(* acquires the lock once, runs its body, releases the lock and exits.     *)
(* Every system call of acquire/2 is a step of its own, because other      *)
(* processes run between them: open(O_EXCL), write of the pid marker,      *)
(* stat, read, `kill -0`, unlink.  The lock file is an inode: a marker     *)
(* written through a handle whose file was unlinked and created again by   *)
(* somebody else does not reach the new file.                              *)
(***************************************************************************)
EXTENDS Naturals, FiniteSets

CONSTANTS
    Proc,            \* the OS processes that call acquire/2
    NoFile,          \* no lock file, and no marker read
    MaySignal,       \* whose pid a process may `kill -0`: its own user's, or root
    MaxRmFailures    \* bound: how often unlinking the lock file may fail

ASSUME MaxRmFailuresNat == MaxRmFailures \in Nat
ASSUME MaySignalType == MaySignal \subseteq Proc \X Proc

VARIABLES
    lock,        \* the lock file, or NoFile
    pc,          \* where each process is in acquire/2 and release/1
    statOld,     \* the mtime this process got from stat is over 5 minutes old
    seen,        \* the pid this process read from the marker, or NoFile
    late,        \* this process's 30 s deadline has passed
    reused,      \* pids of dead processes the kernel gave to other programs
    rmFailures,  \* how many unlinks have failed
    doubtful,    \* history: on what other than a dead pid locks were judged stale
    left         \* history: who could not write its marker, or unlink its lock

vars == <<lock, pc, statOld, seen, late, reused, rmFailures, doubtful, left>>

File == [creator : Proc, marked : BOOLEAN, old : BOOLEAN]

ASSUME NoFileIsNothing == NoFile \notin Proc \cup File

\* The steps of do_acquire/4 between its call and its return.
Contending == {"open", "stat", "read", "probe", "break", "wait", "mark"}
Ended == {"exited", "crashed"}
State == {"start", "held", "released", "raised"} \cup Contending \cup Ended

TypeOK ==
    /\ lock \in File \cup {NoFile}
    /\ pc \in [Proc -> State]
    /\ statOld \in [Proc -> BOOLEAN]
    /\ seen \in [Proc -> Proc \cup {NoFile}]
    /\ late \in [Proc -> BOOLEAN]
    /\ reused \in SUBSET Proc
    /\ rmFailures \in 0 .. MaxRmFailures
    /\ doubtful \in SUBSET {"age", "refused"}
    /\ left \in SUBSET Proc

Init ==
    /\ lock = NoFile
    /\ pc = [p \in Proc |-> "start"]
    /\ statOld = [p \in Proc |-> FALSE]
    /\ seen = [p \in Proc |-> NoFile]
    /\ late = [p \in Proc |-> FALSE]
    /\ reused = {}
    /\ rmFailures = 0
    /\ doubtful = {}
    /\ left = {}

Goto(p, s) == pc' = [pc EXCEPT ![p] = s]

-----------------------------------------------------------------------------
(* acquire/2 *)

\* acquire/2 computes its deadline and enters do_acquire/4.
Acquire(p) ==
    /\ pc[p] = "start"
    /\ Goto(p, "open")
    /\ UNCHANGED <<lock, statOld, seen, late, reused, rmFailures, doubtful, left>>

\* File.open(path, [:write, :exclusive]) succeeds: an empty file.
Create(p) ==
    /\ pc[p] = "open"
    /\ lock = NoFile
    /\ lock' = [creator |-> p, marked |-> FALSE, old |-> FALSE]
    /\ Goto(p, "mark")
    /\ UNCHANGED <<statOld, seen, late, reused, rmFailures, doubtful, left>>

\* IO.write(io, holder_marker()) and File.close: the marker lands in the file
\* this process created, which may no longer be the one at the path.
WriteMarker(p) ==
    /\ pc[p] = "mark"
    /\ lock' = IF lock # NoFile /\ lock.creator = p
                 THEN [lock EXCEPT !.marked = TRUE]
                 ELSE lock
    /\ Goto(p, "held")
    /\ late' = [late EXCEPT ![p] = FALSE]
    /\ UNCHANGED <<statOld, seen, reused, rmFailures, doubtful, left>>

\* IO.write raises (the disk is full): the file stays where it is, blank.
WriteMarkerFails(p) ==
    /\ pc[p] = "mark"
    /\ left' = left \cup {p}
    /\ Goto(p, "raised")
    /\ late' = [late EXCEPT ![p] = FALSE]
    /\ UNCHANGED <<lock, statOld, seen, reused, rmFailures, doubtful>>

\* File.open answers :eexist.
Exists(p) ==
    /\ pc[p] = "open"
    /\ lock # NoFile
    /\ Goto(p, "stat")
    /\ UNCHANGED <<lock, statOld, seen, late, reused, rmFailures, doubtful, left>>

\* File.open answers any other error (no permission, no space): raise.
CannotCreate(p) ==
    /\ pc[p] = "open"
    /\ Goto(p, "raised")
    /\ late' = [late EXCEPT ![p] = FALSE]
    /\ UNCHANGED <<lock, statOld, seen, reused, rmFailures, doubtful, left>>

\* stale_lock?/1 stats the file; one that vanished is not stale.
Stat(p) ==
    /\ pc[p] = "stat"
    /\ IF lock = NoFile
         THEN Goto(p, "wait") /\ UNCHANGED statOld
         ELSE Goto(p, "read") /\ statOld' = [statOld EXCEPT ![p] = lock.old]
    /\ UNCHANGED <<lock, seen, late, reused, rmFailures, doubtful, left>>

\* The mtime fallback of stale_lock?/1, for a holder of unknown liveness.
JudgeByAge(p) ==
    /\ Goto(p, IF statOld[p] THEN "break" ELSE "wait")
    /\ doubtful' = IF statOld[p] THEN doubtful \cup {"age"} ELSE doubtful
    /\ statOld' = [statOld EXCEPT ![p] = FALSE]

\* Mutant: the whole marker kept where its pid belongs.
ReadWholeMarker(p) ==
    /\ pc[p] = "read"
    /\ lock # NoFile
    /\ lock.marked
    /\ seen' = [seen EXCEPT ![p] = lock]
    /\ Goto(p, "probe")
    /\ UNCHANGED <<lock, statOld, late, reused, rmFailures, doubtful, left>>

\* holder_pid_status/1 reads the file: a pid to probe, or nothing it can parse.
ReadMarker(p) ==
    /\ pc[p] = "read"
    /\ lock # NoFile
    /\ lock.marked
    /\ seen' = [seen EXCEPT ![p] = lock.creator]
    /\ Goto(p, "probe")
    /\ UNCHANGED <<lock, statOld, late, reused, rmFailures, doubtful, left>>

ReadNothing(p) ==
    /\ pc[p] = "read"
    /\ lock # NoFile => ~lock.marked
    /\ JudgeByAge(p)
    /\ UNCHANGED <<lock, seen, late, reused, rmFailures, left>>

\* Whether `kill -0 q`, run by p, exits 0: it does for a running process that p
\* may signal, and for a program of unknown owner that has q's pid now.
OsPidAlive(p, q) ==
    IF pc[q] \notin Ended THEN {(<<p, q>> \in MaySignal)}
    ELSE IF q \in reused THEN BOOLEAN ELSE {FALSE}

\* Mutant: the bug the moduledoc describes, an old file is stale whoever holds it.
ProbeAgeFirst(p) ==
    /\ pc[p] = "probe"
    /\ \E alive \in OsPidAlive(p, seen[p]) :
           /\ Goto(p, IF alive /\ ~statOld[p] THEN "wait" ELSE "break")
           /\ doubtful' = IF ~alive /\ pc[seen[p]] \notin Ended
                            THEN doubtful \cup {"refused"} ELSE doubtful
    /\ seen' = [seen EXCEPT ![p] = NoFile]
    /\ statOld' = [statOld EXCEPT ![p] = FALSE]
    /\ UNCHANGED <<lock, late, reused, rmFailures, left>>

\* os_pid_alive?/1 answers: :alive is never stale, and any other exit is :dead,
\* also where `kill` was refused and its target runs.
Probe(p) ==
    /\ pc[p] = "probe"
    /\ \E alive \in OsPidAlive(p, seen[p]) :
           /\ Goto(p, IF alive THEN "wait" ELSE "break")
           /\ doubtful' = IF ~alive /\ pc[seen[p]] \notin Ended
                            THEN doubtful \cup {"refused"} ELSE doubtful
    /\ seen' = [seen EXCEPT ![p] = NoFile]
    /\ statOld' = [statOld EXCEPT ![p] = FALSE]
    /\ UNCHANGED <<lock, late, reused, rmFailures, left>>

\* os_pid_alive?/1 cannot run `kill`: :unknown, so the age decides.
CannotProbe(p) ==
    /\ pc[p] = "probe"
    /\ JudgeByAge(p)
    /\ seen' = [seen EXCEPT ![p] = NoFile]
    /\ UNCHANGED <<lock, late, reused, rmFailures, left>>

\* File.rm(path) of the lock judged stale, whatever is at the path by now, and
\* an immediate retry that does not look at the deadline.
Break(p) ==
    /\ pc[p] = "break"
    /\ lock' = NoFile
    /\ Goto(p, "open")
    /\ UNCHANGED <<statOld, seen, late, reused, rmFailures, doubtful, left>>

\* The same File.rm fails; its result is ignored.
BreakFails(p) ==
    /\ pc[p] = "break"
    /\ rmFailures < MaxRmFailures
    /\ rmFailures' = rmFailures + 1
    /\ Goto(p, "open")
    /\ UNCHANGED <<lock, statOld, seen, late, reused, doubtful, left>>

\* Mutant: the retry loop without its deadline.
WaitForever(p) ==
    /\ pc[p] = "wait"
    /\ Goto(p, "open")
    /\ UNCHANGED <<lock, statOld, seen, late, reused, rmFailures, doubtful, left>>

\* Not stale: raise once the deadline has passed, else sleep and retry.
WaitOrRaise(p) ==
    /\ pc[p] = "wait"
    /\ Goto(p, IF late[p] THEN "raised" ELSE "open")
    /\ late' = [late EXCEPT ![p] = FALSE]
    /\ UNCHANGED <<lock, statOld, seen, reused, rmFailures, doubtful, left>>

-----------------------------------------------------------------------------
(* release/1, the end of a process, and the environment *)

\* Mutant: an old lock is left for stale-lock recovery to remove.
ReleaseFreshOnly(p) ==
    /\ pc[p] = "held"
    /\ lock' = IF lock # NoFile /\ lock.old THEN lock ELSE NoFile
    /\ Goto(p, "released")
    /\ UNCHANGED <<statOld, seen, late, reused, rmFailures, doubtful, left>>

\* release/1, in the `after` of run_sync/3: an unconditional File.rm(path).
Release(p) ==
    /\ pc[p] = "held"
    /\ lock' = NoFile
    /\ Goto(p, "released")
    /\ UNCHANGED <<statOld, seen, late, reused, rmFailures, doubtful, left>>

\* The same File.rm fails; its result is ignored.
ReleaseFails(p) ==
    /\ pc[p] = "held"
    /\ rmFailures < MaxRmFailures
    /\ rmFailures' = rmFailures + 1
    /\ left' = left \cup {p}
    /\ Goto(p, "released")
    /\ UNCHANGED <<lock, statOld, seen, late, reused, doubtful>>

Exit(p) ==
    /\ pc[p] \in {"released", "raised"}
    /\ Goto(p, "exited")
    /\ UNCHANGED <<lock, statOld, seen, late, reused, rmFailures, doubtful, left>>

\* SIGKILL, power loss of the session, VM abort: no `after` block runs.
Crash(p) ==
    /\ pc[p] \notin Ended
    /\ Goto(p, "crashed")
    /\ statOld' = [statOld EXCEPT ![p] = FALSE]
    /\ seen' = [seen EXCEPT ![p] = NoFile]
    /\ late' = [late EXCEPT ![p] = FALSE]
    /\ UNCHANGED <<lock, reused, rmFailures, doubtful, left>>

\* The kernel gives the pid of a dead process to an unrelated program.
ReusePid(p) ==
    /\ pc[p] \in Ended
    /\ p \notin reused
    /\ reused' = reused \cup {p}
    /\ UNCHANGED <<lock, pc, statOld, seen, late, rmFailures, doubtful, left>>

DeadlinePasses(p) ==
    /\ pc[p] \in Contending
    /\ ~late[p]
    /\ late' = [late EXCEPT ![p] = TRUE]
    /\ UNCHANGED <<lock, pc, statOld, seen, reused, rmFailures, doubtful, left>>

\* Five minutes pass: the file at the path, every mtime in hand and every
\* running acquire are now past their limits.
FiveMinutesPass ==
    /\ lock # NoFile
    /\ ~lock.old
    /\ lock' = [lock EXCEPT !.old = TRUE]
    /\ statOld' = [p \in Proc |-> statOld[p] \/ pc[p] \in {"read", "probe"}]
    /\ late' = [p \in Proc |-> pc[p] \in Contending]
    /\ UNCHANGED <<pc, seen, reused, rmFailures, doubtful, left>>

-----------------------------------------------------------------------------

\* The steps a running acquire/2 keeps taking.
AcquireStep(p) ==
    \/ Create(p) \/ WriteMarker(p) \/ WriteMarkerFails(p)
    \/ Exists(p) \/ CannotCreate(p)
    \/ Stat(p) \/ ReadMarker(p) \/ ReadNothing(p)
    \/ Probe(p) \/ CannotProbe(p)
    \/ Break(p) \/ BreakFails(p) \/ WaitOrRaise(p)

ProcStep(p) == Acquire(p) \/ AcquireStep(p) \/ Release(p) \/ ReleaseFails(p) \/ Exit(p)

EnvStep(p) == Crash(p) \/ ReusePid(p) \/ DeadlinePasses(p)

Next == (\E p \in Proc : ProcStep(p) \/ EnvStep(p)) \/ FiveMinutesPass

\* A running VM is scheduled and its monotonic clock advances; nothing says
\* that a holder ever finishes its body, that a process starts, or crashes.
Fairness ==
    \A p \in Proc : WF_vars(AcquireStep(p)) /\ WF_vars(DeadlinePasses(p))

Spec == Init /\ [][Next]_vars /\ Fairness

-----------------------------------------------------------------------------
(* Properties *)

Holders == {p \in Proc : pc[p] = "held"}

AtMostOneHolder == \A p, q \in Holders : p = q

\* Until some invocation has ended (normally or not), and as long as no lock
\* has been judged stale by its age or because `kill -0` was refused, at most one
\* invocation is between acquire/2 and release/1: open(O_EXCL) and the liveness
\* probe suffice while every marker names a running process one may signal.
ExclusionUntilFirstExit ==
    (doubtful = {} /\ \A p \in Proc : pc[p] \notin Ended) => AtMostOneHolder

\* A lock file outlives acquire/2 and release/1 only through a crash or a call
\* that failed: whoever created the file at the path is still marking or holding
\* it, or crashed, or could not write the marker or unlink the file.  Any other
\* invocation leaves nothing behind, even after its own lock was broken
\* or it broke somebody else's.
LeftoverOnlyByFailure ==
    lock # NoFile => \/ pc[lock.creator] \in {"mark", "held", "crashed"}
                     \/ lock.creator \in left

\* acquire/2 comes back: a contender holds the lock, raises or is killed,
\* whatever the holder does, provided unlinking a stale lock does not keep
\* failing (MaxRmFailures): that branch retries without looking at the clock.
AcquireReturns ==
    \A p \in Proc : (pc[p] \in Contending) ~> (pc[p] \notin Contending)

\* What the moduledoc promises with no condition on exits: two invocations
\* "genuinely cannot both win the race", and a live holder "is never
\* preempted" unless its marker was unreadable (the disclosed age fallback);
\* here also unless a signal was refused.
MutualExclusion == doubtful = {} => AtMostOneHolder

=============================================================================
