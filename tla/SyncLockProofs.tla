--------------------------- MODULE SyncLockProofs ---------------------------
(***************************************************************************)
(* Theorems about SyncLock for any set of processes and any bound on       *)
(* failing unlinks.  The invariant to carry is IInv: neither safety        *)
(* property is inductive alone.                                            *)
(***************************************************************************)
EXTENDS SyncLock, TLAPS

\* A probe always has a pid in hand.
ProbeHasPid == \A p \in Proc : pc[p] = "probe" => seen[p] \in Proc

\* No process has ended and no lock was judged stale but for a dead pid.
Calm == doubtful = {} /\ \A p \in Proc : pc[p] \notin Ended

\* While calm nobody is about to unlink a lock, and whoever is past
\* File.open is the creator of the file at the path.
Ownership ==
    Calm => \A p \in Proc :
                /\ pc[p] # "break"
                /\ pc[p] \in {"mark", "held"} => lock # NoFile /\ lock.creator = p

IInv == TypeOK /\ ProbeHasPid /\ LeftoverOnlyByFailure /\ Ownership

-----------------------------------------------------------------------------

\* Every variable has its type in the initial state and after every step.
LEMMA TypeInit == Init => TypeOK
  <1> SUFFICES ASSUME Init PROVE TypeOK
    OBVIOUS
  <1>1. rmFailures \in 0 .. MaxRmFailures
    BY MaxRmFailuresNat DEF Init
  <1>2. pc \in [Proc -> State] /\ lock \in File \cup {NoFile}
    BY DEF Init, State
  <1>3. /\ statOld \in [Proc -> BOOLEAN] /\ late \in [Proc -> BOOLEAN]
        /\ seen \in [Proc -> Proc \cup {NoFile}]
        /\ reused \in SUBSET Proc /\ doubtful \in SUBSET {"age", "refused"} /\ left \in SUBSET Proc
    BY DEF Init
  <1> QED
    BY <1>1, <1>2, <1>3 DEF TypeOK

\* Every system call and every event of the environment keeps the types.
LEMMA TypeStep == TypeOK /\ [Next]_vars => TypeOK'
  <1> SUFFICES ASSUME TypeOK, [Next]_vars PROVE TypeOK'
    OBVIOUS
  <1> USE NoFileIsNothing, MaxRmFailuresNat
        DEF TypeOK, File, State, Contending, Ended, Goto
  <1>1. ASSUME NEW p \in Proc, ProcStep(p) PROVE TypeOK'
    <2>1. CASE Acquire(p) \/ Exists(p) \/ CannotCreate(p)
      BY <2>1 DEF Acquire, Exists, CannotCreate
    <2>6. CASE Create(p)
      BY <2>6 DEF Create
    <2>7. CASE WriteMarker(p)
      <3>1. lock' \in File \cup {NoFile}
        BY <2>7 DEF WriteMarker
      <3> QED
        BY <2>7, <3>1 DEF WriteMarker
    <2>2. CASE Stat(p) \/ ReadMarker(p) \/ ReadNothing(p)
      BY <2>2 DEF Stat, ReadMarker, ReadNothing, JudgeByAge
    <2>3. CASE Probe(p)
      <3>1. doubtful' \in SUBSET {"age", "refused"}
        BY <2>3 DEF Probe
      <3> QED
        BY <2>3, <3>1 DEF Probe
    <2>10. CASE CannotProbe(p)
      BY <2>10 DEF CannotProbe, JudgeByAge
    <2>4. CASE Break(p) \/ WaitOrRaise(p) \/ WriteMarkerFails(p)
      BY <2>4 DEF Break, WaitOrRaise, WriteMarkerFails
    <2>8. CASE BreakFails(p)
      <3>1. rmFailures' \in 0 .. MaxRmFailures
        BY <2>8 DEF BreakFails
      <3> QED
        BY <2>8, <3>1 DEF BreakFails
    <2>9. CASE ReleaseFails(p)
      <3>1. rmFailures' \in 0 .. MaxRmFailures
        BY <2>9 DEF ReleaseFails
      <3> QED
        BY <2>9, <3>1 DEF ReleaseFails
    <2>5. CASE Release(p) \/ Exit(p)
      BY <2>5 DEF Release, Exit
    <2> QED
      BY <1>1, <2>1, <2>2, <2>3, <2>4, <2>5, <2>6, <2>7, <2>8, <2>9, <2>10
         DEF ProcStep, AcquireStep
  <1>2. ASSUME NEW p \in Proc, EnvStep(p) PROVE TypeOK'
    <2>1. CASE Crash(p)
      BY <2>1 DEF Crash
    <2>2. CASE ReusePid(p)
      BY <2>2 DEF ReusePid
    <2>3. CASE DeadlinePasses(p)
      BY <2>3 DEF DeadlinePasses
    <2> QED
      BY <1>2, <2>1, <2>2, <2>3 DEF EnvStep
  <1>3. CASE FiveMinutesPass
    <2>1. lock' \in File
      BY <1>3 DEF FiveMinutesPass
    <2>2. late' \in [Proc -> BOOLEAN]
      BY <1>3 DEF FiveMinutesPass
    <2>3. statOld' \in [Proc -> BOOLEAN]
      BY <1>3 DEF FiveMinutesPass
    <2> QED
      BY <1>3, <2>1, <2>2, <2>3 DEF FiveMinutesPass
  <1>4. CASE UNCHANGED vars
    BY <1>4 DEF vars
  <1> QED
    BY <1>1, <1>2, <1>3, <1>4 DEF Next

\* A process reaches the probe only with the pid it has just read.
LEMMA ProbeStep == TypeOK /\ ProbeHasPid /\ [Next]_vars => ProbeHasPid'
  <1> SUFFICES ASSUME TypeOK, ProbeHasPid, [Next]_vars PROVE ProbeHasPid'
    OBVIOUS
  <1> USE DEF TypeOK, File, ProbeHasPid, Goto
  <1>1. ASSUME NEW p \in Proc, ProcStep(p) PROVE ProbeHasPid'
    <2>1. CASE ReadMarker(p)
      BY <2>1 DEF ReadMarker
    <2>2. CASE Acquire(p) \/ Create(p) \/ WriteMarker(p) \/ Exists(p) \/ CannotCreate(p)
      BY <2>2 DEF Acquire, Create, WriteMarker, Exists, CannotCreate
    <2>5. CASE WriteMarkerFails(p) \/ ReleaseFails(p)
      BY <2>5 DEF WriteMarkerFails, ReleaseFails
    <2>3. CASE Stat(p) \/ ReadNothing(p) \/ Probe(p) \/ CannotProbe(p)
      BY <2>3 DEF Stat, ReadNothing, Probe, CannotProbe, JudgeByAge
    <2>4. CASE Break(p) \/ BreakFails(p) \/ WaitOrRaise(p) \/ Release(p) \/ Exit(p)
      BY <2>4 DEF Break, BreakFails, WaitOrRaise, Release, Exit
    <2> QED
      BY <1>1, <2>1, <2>2, <2>3, <2>4, <2>5 DEF ProcStep, AcquireStep
  <1>2. ASSUME NEW p \in Proc, EnvStep(p) PROVE ProbeHasPid'
    BY <1>2 DEF EnvStep, Crash, ReusePid, DeadlinePasses
  <1>3. CASE FiveMinutesPass
    BY <1>3 DEF FiveMinutesPass
  <1>4. CASE UNCHANGED vars
    BY <1>4 DEF vars
  <1> QED
    BY <1>1, <1>2, <1>3, <1>4 DEF Next

\* No step but a crash or a failing call takes the creator of the file at the
\* path out of its critical section and leaves the file there.
LEMMA LeftoverStep ==
        TypeOK /\ LeftoverOnlyByFailure /\ [Next]_vars => LeftoverOnlyByFailure'
  <1> SUFFICES ASSUME TypeOK, LeftoverOnlyByFailure, [Next]_vars
               PROVE  LeftoverOnlyByFailure'
    OBVIOUS
  <1> USE NoFileIsNothing DEF TypeOK, File, LeftoverOnlyByFailure, Goto
  <1>1. ASSUME NEW p \in Proc, ProcStep(p) PROVE LeftoverOnlyByFailure'
    <2>1. CASE Acquire(p) \/ Exists(p) \/ CannotCreate(p)
      BY <2>1 DEF Acquire, Exists, CannotCreate
    <2>2. CASE Create(p) \/ WriteMarker(p)
      BY <2>2 DEF Create, WriteMarker
    <2>3. CASE Stat(p) \/ ReadMarker(p) \/ ReadNothing(p)
      BY <2>3 DEF Stat, ReadMarker, ReadNothing, JudgeByAge
    <2>4. CASE Probe(p) \/ CannotProbe(p)
      BY <2>4 DEF Probe, CannotProbe, JudgeByAge
    <2>5. CASE Break(p) \/ BreakFails(p) \/ WaitOrRaise(p)
      BY <2>5 DEF Break, BreakFails, WaitOrRaise
    <2>6. CASE Release(p) \/ Exit(p)
      BY <2>6 DEF Release, Exit
    <2>7. CASE WriteMarkerFails(p) \/ ReleaseFails(p)
      BY <2>7 DEF WriteMarkerFails, ReleaseFails
    <2> QED
      BY <1>1, <2>1, <2>2, <2>3, <2>4, <2>5, <2>6, <2>7 DEF ProcStep, AcquireStep
  <1>2. ASSUME NEW p \in Proc, EnvStep(p) PROVE LeftoverOnlyByFailure'
    BY <1>2 DEF EnvStep, Crash, ReusePid, DeadlinePasses, Ended
  <1>3. CASE FiveMinutesPass
    BY <1>3 DEF FiveMinutesPass
  <1>4. CASE UNCHANGED vars
    BY <1>4 DEF vars
  <1> QED
    BY <1>1, <1>2, <1>3, <1>4 DEF Next

\* While calm, creating needs the path free, a release removes the
\* releaser's own file, and no verdict leads to an unlink.
LEMMA OwnershipStep ==
        TypeOK /\ ProbeHasPid /\ Ownership /\ [Next]_vars => Ownership'
  <1> SUFFICES ASSUME TypeOK, ProbeHasPid, Ownership, [Next]_vars, Calm'
               PROVE  \A q \in Proc :
                         (/\ pc[q] # "break"
                          /\ pc[q] \in {"mark", "held"} =>
                                lock # NoFile /\ lock.creator = q)'
    BY DEF Ownership
  <1> USE NoFileIsNothing DEF TypeOK, File, Goto
  <1> DEFINE Owned(q) == /\ pc[q] # "break"
                         /\ pc[q] \in {"mark", "held"} =>
                               lock # NoFile /\ lock.creator = q
  <1>0. \A q \in Proc : Owned(q)' <=> 
          (/\ pc[q] # "break"
           /\ pc[q] \in {"mark", "held"} => lock # NoFile /\ lock.creator = q)'
    OBVIOUS
  <1>1. ASSUME NEW p \in Proc, ProcStep(p) PROVE \A q \in Proc : Owned(q)'
    <2>1. CASE Acquire(p) \/ Exists(p) \/ CannotCreate(p) \/ Stat(p) \/ ReadMarker(p)
      <3>1. Calm
        BY <2>1 DEF Calm, Ended, Acquire, Exists, CannotCreate, Stat, ReadMarker
      <3> QED
        BY <2>1, <3>1 DEF Ownership, Acquire, Exists, CannotCreate, Stat, ReadMarker
    <2>2. CASE Create(p)
      <3>1. Calm
        BY <2>2 DEF Calm, Ended, Create
      <3> QED
        <4>1. lock' # NoFile /\ lock'.creator = p
          <5>1. lock' \in File
            BY <2>2 DEF Create
          <5> QED
            BY <2>2, <5>1 DEF Create
        <4> QED
          BY <2>2, <3>1, <4>1 DEF Ownership, Create
    <2>3. CASE WriteMarker(p)
      <3>1. Calm
        BY <2>3 DEF Calm, Ended, WriteMarker
      <3> QED
        BY <2>3, <3>1 DEF Ownership, WriteMarker
    <2>4. CASE ReadNothing(p) \/ CannotProbe(p)
      <3>1. Calm /\ ~statOld[p]
        BY <2>4 DEF Calm, Ended, ReadNothing, CannotProbe, JudgeByAge
      <3> QED
        BY <2>4, <3>1 DEF Ownership, ReadNothing, CannotProbe, JudgeByAge
    <2>5. CASE Probe(p)
      <3>1. Calm /\ pc[seen[p]] \notin Ended
        BY <2>5 DEF ProbeHasPid, Calm, Ended, Probe
      <3>2. pc' = [pc EXCEPT ![p] = "wait"] /\ lock' = lock
        BY <2>5, <3>1 DEF Probe, Calm
      <3> QED
        BY <3>1, <3>2 DEF Ownership
    <2>6. CASE Break(p) \/ BreakFails(p)
      <3>1. Calm
        BY <2>6 DEF Calm, Ended, Break, BreakFails
      <3> QED
        BY <2>6, <3>1 DEF Ownership, Break, BreakFails
    <2>7. CASE WaitOrRaise(p)
      <3>1. Calm
        BY <2>7 DEF Calm, Ended, WaitOrRaise
      <3> QED
        BY <2>7, <3>1 DEF Ownership, WaitOrRaise
    <2>8. CASE Release(p)
      <3>1. Calm
        BY <2>8 DEF Calm, Ended, Release
      <3> QED
        BY <2>8, <3>1 DEF Ownership, Release
    <2>10. CASE WriteMarkerFails(p) \/ ReleaseFails(p)
      <3>1. Calm
        BY <2>10 DEF Calm, Ended, WriteMarkerFails, ReleaseFails
      <3> QED
        BY <2>10, <3>1 DEF Ownership, WriteMarkerFails, ReleaseFails
    <2>9. CASE Exit(p)
      BY <2>9 DEF Calm, Ended, Exit
    <2> QED
      BY <1>1, <2>1, <2>2, <2>3, <2>4, <2>5, <2>6, <2>7, <2>8, <2>9, <2>10
         DEF ProcStep, AcquireStep
  <1>2. ASSUME NEW p \in Proc, EnvStep(p) PROVE \A q \in Proc : Owned(q)'
    <2>1. ~Crash(p)
      BY DEF Crash, Calm, Ended
    <2>2. Calm
      BY <1>2, <2>1 DEF EnvStep, ReusePid, DeadlinePasses, Calm, Ended
    <2> QED
      BY <1>2, <2>1, <2>2 DEF EnvStep, ReusePid, DeadlinePasses, Ownership
  <1>3. CASE FiveMinutesPass
    <2>1. Calm
      BY <1>3 DEF FiveMinutesPass, Calm, Ended
    <2> QED
      BY <1>3, <2>1 DEF FiveMinutesPass, Ownership
  <1>4. CASE UNCHANGED vars
    BY <1>4 DEF vars, Calm, Ended, Ownership
  <1> QED
    BY <1>0, <1>1, <1>2, <1>3, <1>4 DEF Next

-----------------------------------------------------------------------------

\* The inductive invariant holds of every reachable state.
THEOREM LockInvariant == Spec => []IInv
  <1>1. Init => IInv
    <2> SUFFICES ASSUME Init PROVE IInv
      OBVIOUS
    <2>1. TypeOK
      BY TypeInit
    <2>2. ProbeHasPid /\ LeftoverOnlyByFailure /\ Ownership
      BY DEF Init, ProbeHasPid, LeftoverOnlyByFailure, Ownership
    <2> QED
      BY <2>1, <2>2 DEF IInv
  <1>2. IInv /\ [Next]_vars => IInv'
    BY TypeStep, ProbeStep, LeftoverStep, OwnershipStep DEF IInv
  <1> QED
    BY <1>1, <1>2, PTL DEF Spec

\* The state of the lock, of every acquire/2 and of the environment is well
\* formed whatever the processes do.
THEOREM LockTypeCorrect == Spec => []TypeOK
  <1>1. IInv => TypeOK
    BY DEF IInv
  <1> QED
    BY <1>1, LockInvariant, PTL

\* Until an invocation ends, an age verdict is passed or a signal is refused, at
\* most one holds the lock, for any number of invocations and users.
THEOREM LockExclusion == Spec => []ExclusionUntilFirstExit
  <1>1. IInv => ExclusionUntilFirstExit
    BY DEF IInv, Ownership, Calm, ExclusionUntilFirstExit, AtMostOneHolder, Holders
  <1> QED
    BY <1>1, LockInvariant, PTL

\* Only a crash or a failing call leaves a lock file behind, for any number of
\* invocations.
THEOREM LockLeftover == Spec => []LeftoverOnlyByFailure
  <1>1. IInv => LeftoverOnlyByFailure
    BY DEF IInv
  <1> QED
    BY <1>1, LockInvariant, PTL

=============================================================================
