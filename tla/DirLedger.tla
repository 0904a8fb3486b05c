----------------------------- MODULE DirLedger -----------------------------
(***************************************************************************)
(* The directory form of the transition ledger:                            *)
(* lib/ggen_igniter/semantic_jira/transition_log.ex, append_dir/3.         *)
(*                                                                         *)
(* Each member of Writer is one call of append/3, in a BEAM or OS process  *)
(* of its own.  A step is one operation on the directory, since any other  *)
(* writer runs between two of them.  Event files appear by rename and are  *)
(* never changed, so a listing and the reads after it are one step.        *)
(***************************************************************************)
EXTENDS Naturals, FiniteSets

CONSTANTS
    Writer,      \* the calls of append/3
    Payload,     \* the events without epoch, seq and digest
    Stay, Bump,  \* the epoch options of a call: none given, or :epoch_bump 1
    Calls,       \* the assignments of payloads and options to writers
    Nothing,     \* no event
    MaxEpoch,    \* bound: epochs
    MaxFailures  \* bound: writers that die or get an exception

ASSUME BoundsAssumption == MaxEpoch \in Nat /\ MaxFailures \in Nat
Epoch == 0 .. MaxEpoch
Option == Epoch \cup {Stay, Bump}    \* a number is an explicit :epoch
ASSUME OptionAssumption == Stay \notin Epoch /\ Bump \notin Epoch /\ Stay # Bump
ASSUME CallsAssumption == Calls \subseteq [Writer -> [payload : Payload, option : Option]]

\* An event's file, and the digest the event commits to.
Event == [payload : Payload, epoch : Epoch, seq : Nat \ {0}]
DigestOf(e) == [payload |-> e.payload, epoch |-> e.epoch]
Digests == [payload : Payload, epoch : Epoch]
ASSUME NothingAssumption == Nothing \notin Event

VARIABLES
    files,         \* the event files of the directory
    digestClaims,  \* the digest-<digest>.claim files
    seqClaims,     \* the seq-<seq>.claim files
    marker,        \* the number in the epoch file; 0 when absent or blank
    markerLock,    \* the epoch.lock file exists
    pc,            \* where each writer is
    call,          \* the payload and the epoch option of each writer
    snap,          \* the events the writer decoded first
    epoch,         \* the epoch it stamped
    next,          \* the seq it is going to try
    answer,        \* the event append/3 returned, or Nothing
    past,          \* history: the events returned before the writer began
    failures       \* how many writers have died or got an exception

dir == <<files, digestClaims, seqClaims, marker, markerLock>>
history == <<past, failures>>
vars == <<dir, pc, call, snap, epoch, next, answer, history>>

Running == {"list", "stamp", "mark", "lock", "bump", "fill", "unlock", "claim",
            "count", "measure", "take", "write", "await"}
Ended == {"appended", "recorded", "refused", "raised", "crashed"}

TypeOK ==
    /\ files \in SUBSET Event
    /\ digestClaims \in SUBSET Digests
    /\ seqClaims \in SUBSET (Nat \ {0})
    /\ marker \in Epoch
    /\ markerLock \in BOOLEAN
    /\ pc \in [Writer -> {"idle"} \cup Running \cup Ended]
    /\ call \in Calls
    /\ snap \in [Writer -> SUBSET Event]
    /\ epoch \in [Writer -> Epoch]
    /\ next \in [Writer -> Nat]
    /\ answer \in [Writer -> Event \cup {Nothing}]
    /\ past \in [Writer -> SUBSET Event]
    /\ failures \in 0 .. MaxFailures

Init ==
    /\ files = {} /\ digestClaims = {} /\ seqClaims = {}
    /\ marker = 0 /\ markerLock = FALSE
    /\ pc = [w \in Writer |-> "idle"]
    /\ call \in Calls
    /\ snap = [w \in Writer |-> {}]
    /\ epoch = [w \in Writer |-> 0]
    /\ next = [w \in Writer |-> 0]
    /\ answer = [w \in Writer |-> Nothing]
    /\ past = [w \in Writer |-> {}]
    /\ failures = 0

Goto(w, s) == pc' = [pc EXCEPT ![w] = s]

\* The digest of the writer's event, stamped.
Mine(w) == [payload |-> call[w].payload, epoch |-> epoch[w]]
Find(events, d) == {e \in events : DigestOf(e) = d}
Returned == {answer[w] : w \in Writer} \ {Nothing}

\* append/3 returns an event, or Nothing.
Answer(w, how, e) ==
    /\ Goto(w, how)
    /\ answer' = [answer EXCEPT ![w] = e]

-----------------------------------------------------------------------------
(* append_dir/3: decode, stamp the epoch, look for the event *)

Begin(w) ==
    /\ pc[w] = "idle"
    /\ Goto(w, "list")
    /\ past' = [past EXCEPT ![w] = Returned]
    /\ UNCHANGED <<dir, call, snap, epoch, next, answer, failures>>

\* decode_dir/1.
Decode(w) ==
    /\ pc[w] = "list"
    /\ snap' = [snap EXCEPT ![w] = files]
    /\ Goto(w, "stamp")
    /\ UNCHANGED <<dir, call, epoch, next, answer, history>>

\* Mutant: the marker alone tells the last epoch.
IsMarkerEpoch(w, n) == n = marker

\* last_epoch/2: no event and no marker counts as 0.
IsLastEpoch(w, n) ==
    /\ n = marker \/ \E e \in snap[w] : e.epoch = n
    /\ n >= marker /\ \A e \in snap[w] : n >= e.epoch

NextEpoch(w, last) ==
    CASE call[w].option = Stay -> last
      [] call[w].option = Bump -> last + 1
      [] OTHER -> call[w].option

\* next_epoch/3: an explicit epoch must not regress.
Stamp(w) ==
    /\ pc[w] = "stamp"
    /\ \E last \in Epoch :
          /\ IsLastEpoch(w, last)
          /\ NextEpoch(w, last) \in last .. MaxEpoch
          /\ epoch' = [epoch EXCEPT ![w] = NextEpoch(w, last)]
    /\ Goto(w, "mark")
    /\ UNCHANGED <<dir, call, snap, next, answer, history>>

\* {:error, {:ledger_refused, :epoch_regression}}.
RefuseEpoch(w) ==
    /\ pc[w] = "stamp"
    /\ \E last \in Epoch : IsLastEpoch(w, last) /\ NextEpoch(w, last) < last
    /\ Goto(w, "refused")
    /\ UNCHANGED <<dir, call, snap, epoch, next, answer, history>>

\* append_dir/3 after stamp/4: the event is in the snapshot, or is to be claimed.
Look(w) ==
    IF Find(snap[w], Mine(w)) = {}
      THEN Goto(w, "claim") /\ UNCHANGED answer
      ELSE \E e \in Find(snap[w], Mine(w)) : Answer(w, "recorded", e)

\* stamp/4 compares its epoch with the marker once more.
NeedsNoMark(w) ==
    /\ pc[w] = "mark"
    /\ epoch[w] <= marker
    /\ Look(w)
    /\ UNCHANGED <<dir, call, snap, epoch, next, history>>

NeedsMark(w) ==
    /\ pc[w] = "mark"
    /\ epoch[w] > marker
    /\ Goto(w, "lock")
    /\ UNCHANGED <<dir, call, snap, epoch, next, answer, history>>

\* with_lock/3 on epoch.lock: 500 attempts, 10 ms apart.
Lock(w) ==
    /\ pc[w] = "lock"
    /\ ~markerLock
    /\ markerLock' = TRUE
    /\ Goto(w, "bump")
    /\ UNCHANGED <<files, digestClaims, seqClaims, marker, call, snap, epoch, next,
                   answer, history>>

\* Mutant: with_lock/3 without the count of its attempts.
LockWaits(w) ==
    /\ pc[w] = "lock"
    /\ markerLock
    /\ UNCHANGED vars

\* The attempts are used up.  {:error, {:ledger_locked, _}} is ignored by stamp/4.
LockGivesUp(w) ==
    /\ pc[w] = "lock"
    /\ markerLock
    /\ Look(w)
    /\ UNCHANGED <<dir, call, snap, epoch, next, history>>

\* bump_marker/3: File.write! opens the marker, which truncates it...
Truncate(w) ==
    /\ pc[w] = "bump"
    /\ epoch[w] > marker
    /\ marker' = 0
    /\ Goto(w, "fill")
    /\ UNCHANGED <<files, digestClaims, seqClaims, markerLock, call, snap, epoch, next,
                   answer, history>>

MarkedMeanwhile(w) ==
    /\ pc[w] = "bump"
    /\ epoch[w] <= marker
    /\ Goto(w, "unlock")
    /\ UNCHANGED <<dir, call, snap, epoch, next, answer, history>>

\* ...and then writes the number.
Fill(w) ==
    /\ pc[w] = "fill"
    /\ marker' = epoch[w]
    /\ Goto(w, "unlock")
    /\ UNCHANGED <<files, digestClaims, seqClaims, markerLock, call, snap, epoch, next,
                   answer, history>>

Unlock(w) ==
    /\ pc[w] = "unlock"
    /\ markerLock' = FALSE
    /\ Look(w)
    /\ UNCHANGED <<files, digestClaims, seqClaims, marker, call, snap, epoch, next, history>>

-----------------------------------------------------------------------------
(* claim_digest/2, next_seq/1 and write/3 *)

\* Mutant: the claim file is opened without :exclusive.
ClaimDigestShared(w) ==
    /\ pc[w] = "claim"
    /\ digestClaims' = digestClaims \cup {Mine(w)}
    /\ Goto(w, "count")
    /\ UNCHANGED <<files, seqClaims, marker, markerLock, call, snap, epoch, next,
                   answer, history>>

ClaimDigest(w) ==
    /\ pc[w] = "claim"
    /\ Mine(w) \notin digestClaims
    /\ digestClaims' = digestClaims \cup {Mine(w)}
    /\ Goto(w, "count")
    /\ UNCHANGED <<files, seqClaims, marker, markerLock, call, snap, epoch, next,
                   answer, history>>

DigestTaken(w) ==
    /\ pc[w] = "claim"
    /\ Mine(w) \in digestClaims
    /\ Goto(w, "await")
    /\ UNCHANGED <<dir, call, snap, epoch, next, answer, history>>

\* next_seq/1 counts the seq claims, then the events.
CountClaims(w) ==
    /\ pc[w] = "count"
    /\ next' = [next EXCEPT ![w] = Cardinality(seqClaims)]
    /\ Goto(w, "measure")
    /\ UNCHANGED <<dir, call, snap, epoch, answer, history>>

\* Mutant: the seq after the last one, off by one.
CountEventsOffByOne(w) ==
    /\ pc[w] = "measure"
    /\ LET n == Cardinality(files)
       IN  next' = [next EXCEPT ![w] = IF @ >= n THEN @ ELSE n]
    /\ Goto(w, "take")
    /\ UNCHANGED <<dir, call, snap, epoch, answer, history>>

CountEvents(w) ==
    /\ pc[w] = "measure"
    /\ LET n == Cardinality(files)
       IN  next' = [next EXCEPT ![w] = IF @ >= n THEN @ + 1 ELSE n + 1]
    /\ Goto(w, "take")
    /\ UNCHANGED <<dir, call, snap, epoch, answer, history>>

ClaimSeq(w) ==
    /\ pc[w] = "take"
    /\ next[w] \notin seqClaims
    /\ seqClaims' = seqClaims \cup {next[w]}
    /\ Goto(w, "write")
    /\ UNCHANGED <<files, digestClaims, marker, markerLock, call, snap, epoch, next,
                   answer, history>>

\* Mutant: a writer that loses the race for a seq leaves it to the winner.
SeqTakenGivesUp(w) ==
    /\ pc[w] = "take"
    /\ next[w] \in seqClaims
    /\ Answer(w, "recorded", Nothing)
    /\ UNCHANGED <<dir, call, snap, epoch, next, history>>

SeqTaken(w) ==
    /\ pc[w] = "take"
    /\ next[w] \in seqClaims
    /\ next' = [next EXCEPT ![w] = @ + 1]
    /\ UNCHANGED <<dir, pc, call, snap, epoch, answer, history>>

\* The temporary file and its rename: before the rename nothing is visible.
Publish(w) ==
    /\ pc[w] = "write"
    /\ LET e == [payload |-> call[w].payload, epoch |-> epoch[w], seq |-> next[w]]
       IN  files' = files \cup {e} /\ Answer(w, "appended", e)
    /\ UNCHANGED <<digestClaims, seqClaims, marker, markerLock, call, snap, epoch, next,
                   history>>

\* await/3: somebody else's event shows up...
AwaitFinds(w) ==
    /\ pc[w] = "await"
    /\ \E e \in Find(files, Mine(w)) : Answer(w, "recorded", e)
    /\ UNCHANGED <<dir, call, snap, epoch, next, history>>

\* ...or has not after 500 reads, 10 ms apart: {:ok, nil, :already_recorded}.
AwaitGivesUp(w) ==
    /\ pc[w] = "await"
    /\ Find(files, Mine(w)) = {}
    /\ Answer(w, "recorded", Nothing)
    /\ UNCHANGED <<dir, call, snap, epoch, next, history>>

\* A File.write!, rename!, ls! or open raises, and the caller gets the exception:
\* the claims stay, `after` removes the lock.
Raise(w) ==
    /\ \/ pc[w] \in {"lock", "fill", "claim", "count", "measure", "take", "write", "await"}
       \/ pc[w] = "bump" /\ epoch[w] > marker
    /\ failures < MaxFailures
    /\ failures' = failures + 1
    /\ markerLock' = IF pc[w] \in {"bump", "fill"} THEN FALSE ELSE markerLock
    /\ Goto(w, "raised")
    /\ UNCHANGED <<files, digestClaims, seqClaims, marker, call, snap, epoch, next,
                   answer, past>>

\* The process is killed: its claims stay, and its lock.
Crash(w) ==
    /\ pc[w] \in Running
    /\ failures < MaxFailures
    /\ failures' = failures + 1
    /\ Goto(w, "crashed")
    /\ UNCHANGED <<dir, call, snap, epoch, next, answer, past>>

-----------------------------------------------------------------------------

AppendStep(w) ==
    \/ Decode(w) \/ Stamp(w) \/ RefuseEpoch(w) \/ NeedsNoMark(w) \/ NeedsMark(w)
    \/ Lock(w) \/ LockGivesUp(w) \/ Truncate(w) \/ MarkedMeanwhile(w) \/ Fill(w) \/ Unlock(w)
    \/ ClaimDigest(w) \/ DigestTaken(w)
    \/ CountClaims(w) \/ CountEvents(w) \/ ClaimSeq(w) \/ SeqTaken(w) \/ Publish(w)
    \/ AwaitFinds(w) \/ AwaitGivesUp(w)

Next == \E w \in Writer : Begin(w) \/ AppendStep(w) \/ Crash(w) \/ Raise(w)

\* A running writer is scheduled; nobody has to call append/3.
Spec == Init /\ [][Next]_vars /\ \A w \in Writer : WF_vars(AppendStep(w))

-----------------------------------------------------------------------------
(* Properties *)

Log == INSTANCE StandingLog WITH log <- files

\* The moduledoc's promise under concurrent and dying writers: the directory
\* is an append-only log in which every event and every seq has one owner.
ImplementsStandingLog == Log!Spec

\* An append that begins after another returned is after it: its epoch is not
\* lower and its seq is higher, whatever ran in between and whatever the
\* marker and the claims of dead writers look like.
LaterIsAfter ==
    \A w \in Writer : answer[w] # Nothing =>
        \A f \in past[w] :
            /\ answer[w].epoch >= f.epoch
            /\ pc[w] = "appended" => answer[w].seq > f.seq

\* A claimed event is in the ledger, or on its way there, unless its writer
\* died or its append/3 raised: no interleaving of writers, no lock that is
\* given up and no seq that is taken loses it, nor makes two writers wait.
LostOnlyByFailure ==
    \A d \in digestClaims :
        \/ Find(files, d) # {}
        \/ \E w \in Writer :
              /\ Mine(w) = d
              /\ pc[w] \in {"count", "measure", "take", "write", "raised", "crashed"}

\* append/3 comes back, whoever holds or left behind epoch.lock or a claim.
AppendReturns ==
    \A w \in Writer : (pc[w] \in Running) ~> (pc[w] \notin Running)

\* What :already_recorded tells the caller of append/3, by the moduledoc: the
\* event is in the ledger, or a writer that claimed it is at it still.
AlreadyRecordedIsThere ==
    \A w \in Writer : pc[w] = "recorded" =>
        \/ Find(files, Mine(w)) # {}
        \/ \E v \in Writer :
              Mine(v) = Mine(w) /\ pc[v] \in {"count", "measure", "take", "write"}

\* What the comment over write_epoch_marker/2 promises: the marker is
\* "max-guarded so it never moves backwards".
MarkerNeverMovesBack == [][marker' >= marker]_vars

=============================================================================
