------------------------- MODULE TransitionLogProofs -------------------------
(***************************************************************************)
(* Theorems about a ledger of either form, for any writers, payloads and   *)
(* calls.  In the directory form what has to be carried is DirInv: seqs    *)
(* are claimed without gaps, every event has its two claims, and a claim   *)
(* that is not used yet has one owner.  In the file form it is FileInv:    *)
(* the lock has one owner, and what its owner has read is the whole file.  *)
(***************************************************************************)
EXTENDS TransitionLog, TLAPS, FiniteSetTheorems

\* From the digest claim to the event file, and from there on back: the
\* writers that try to raise the marker, and those that know their epoch.
Owning == {"count", "measure", "take", "write"}
Marking == {"mark", "lock", "bump", "fill", "unlock", "claim"}
Stamped == Marking \cup Owning \cup {"await"}

\* The seqs are claimed one by one.
ClaimsContiguous == \E n \in Nat : seqClaims = 1 .. n

\* Every event is under both of its claims.
FilesClaimed == \A f \in files : f.seq \in seqClaims /\ DigestOf(f) \in digestClaims

\* The candidate of a writer leaves no seq unclaimed below it.
Candidates ==
    \A w \in Writer :
        /\ pc[w] = "measure" => 1 .. next[w] \subseteq seqClaims
        /\ pc[w] = "take" => next[w] >= 1 /\ 1 .. (next[w] - 1) \subseteq seqClaims

\* The digest claimed by a writer that has not published is its own.
DigestOwned ==
    \A w \in Writer : pc[w] \in Owning =>
        /\ Mine(w) \in digestClaims
        /\ \A f \in files : DigestOf(f) # Mine(w)
        /\ \A v \in Writer : v # w /\ pc[v] \in Owning => Mine(v) # Mine(w)

\* So is the seq it claimed.
SeqOwned ==
    \A w \in Writer : pc[w] = "write" =>
        /\ next[w] \in seqClaims
        /\ \A f \in files : f.seq # next[w]
        /\ \A v \in Writer : v # w /\ pc[v] = "write" => next[v] # next[w]

\* What a writer has read, was told or comes after is in the directory.
Reads ==
    \A w \in Writer :
        /\ past[w] \subseteq files /\ snap[w] \subseteq files
        /\ answer[w] \in files \cup {Nothing}
        /\ pc[w] \in {"stamp"} \cup Stamped => past[w] \subseteq snap[w]
        /\ pc[w] \in {"idle"} \cup Running => answer[w] = Nothing

\* An epoch and a candidate are not below those of the events before.
Stamps ==
    \A w \in Writer : \A f \in past[w] :
        /\ pc[w] \in Stamped => epoch[w] >= f.epoch
        /\ pc[w] = "measure" => next[w] >= f.seq
        /\ pc[w] \in {"take", "write"} => next[w] > f.seq

DirInv ==
    /\ TypeOK
    /\ ClaimsContiguous /\ FilesClaimed /\ Log!SingleOwner
    /\ Candidates /\ DigestOwned /\ SeqOwned
    /\ Reads /\ Stamps /\ LaterIsAfter /\ LostOnlyByFailure

-----------------------------------------------------------------------------
(* The steps of a writer, as far as the invariant can tell them apart *)

core == <<files, digestClaims, seqClaims, call, snap, epoch, next, past>>

\* On the way through the marker.
Walk(w) ==
    /\ pc[w] \in Marking
    /\ \E s \in Marking \cup {"await"} : Goto(w, s)
    /\ UNCHANGED <<core, answer>>

\* The event is there already, or the writer has waited long enough.
Recorded(w) ==
    /\ pc[w] \in Marking \cup {"await"}
    /\ \E e \in Find(snap[w], Mine(w)) \cup Find(files, Mine(w)) \cup {Nothing} :
          Answer(w, "recorded", e)
    /\ UNCHANGED core

\* A refusal, or the writer's death.
Stops(w) ==
    /\ pc[w] \in Running
    /\ \E s \in {"refused", "raised", "crashed"} :
          (pc[w] \in Owning => s # "refused") /\ Goto(w, s)
    /\ UNCHANGED <<core, answer>>

WriterStep(w) ==
    \/ Begin(w) \/ Decode(w) \/ Stamp(w) \/ Walk(w) \/ Recorded(w) \/ Stops(w)
    \/ ClaimDigest(w) \/ CountClaims(w) \/ CountEvents(w) \/ ClaimSeq(w) \/ SeqTaken(w)
    \/ Publish(w)

\* Every step of the module is one of these.
LEMMA Steps == ASSUME NEW w \in Writer, Begin(w) \/ AppendStep(w) \/ Raise(w) \/ Crash(w)
               PROVE  WriterStep(w)
  <1> USE DEF core, dir, history, Marking, Owning, Running
  <1>1. CASE NeedsNoMark(w) \/ LockGivesUp(w) \/ Unlock(w)
    <2>1. Look(w) /\ pc[w] \in {"mark", "lock", "unlock"} /\ UNCHANGED core
      BY <1>1 DEF NeedsNoMark, LockGivesUp, Unlock
    <2>2. CASE Find(snap[w], Mine(w)) = {}
      <3>1. Goto(w, "claim") /\ UNCHANGED answer
        BY <2>1, <2>2 DEF Look
      <3> QED
        BY <2>1, <3>1 DEF Walk, WriterStep
    <2>3. CASE Find(snap[w], Mine(w)) # {}
      <3>1. \E e \in Find(snap[w], Mine(w)) : Answer(w, "recorded", e)
        BY <2>1, <2>3 DEF Look
      <3> QED
        BY <2>1, <3>1 DEF Recorded, WriterStep
    <2> QED
      BY <2>2, <2>3
  <1>2. CASE NeedsMark(w) \/ Lock(w) \/ Truncate(w) \/ MarkedMeanwhile(w) \/ Fill(w)
             \/ DigestTaken(w)
    <2>1. Walk(w)
      BY <1>2 DEF NeedsMark, Lock, Truncate, MarkedMeanwhile, Fill, DigestTaken, Walk
    <2> QED
      BY <2>1 DEF WriterStep
  <1>3. CASE AwaitFinds(w) \/ AwaitGivesUp(w)
    <2>1. Recorded(w)
      BY <1>3 DEF AwaitFinds, AwaitGivesUp, Recorded
    <2> QED
      BY <2>1 DEF WriterStep
  <1>4. CASE RefuseEpoch(w) \/ Raise(w) \/ Crash(w)
    <2>1. Stops(w)
      BY <1>4 DEF RefuseEpoch, Raise, Crash, Stops
    <2> QED
      BY <2>1 DEF WriterStep
  <1> QED
    BY <1>1, <1>2, <1>3, <1>4 DEF AppendStep, WriterStep

\* A step changes the locals of its writer alone.
OthersKept(w) ==
    /\ call' = call
    /\ \A v \in Writer \ {w} :
          /\ pc'[v] = pc[v] /\ snap'[v] = snap[v] /\ epoch'[v] = epoch[v]
          /\ next'[v] = next[v] /\ answer'[v] = answer[v] /\ past'[v] = past[v]

LEMMA Others == ASSUME TypeOK, NEW w \in Writer, WriterStep(w)
                PROVE  OthersKept(w)
  <1> USE DEF TypeOK, OthersKept, core, dir, history, Goto, Answer
  <1>1. CASE Begin(w) \/ Decode(w) \/ Stamp(w)
    BY <1>1 DEF Begin, Decode, Stamp
  <1>2. CASE Walk(w) \/ Recorded(w) \/ Stops(w)
    BY <1>2 DEF Walk, Recorded, Stops
  <1>3. CASE ClaimDigest(w) \/ CountClaims(w) \/ CountEvents(w)
    BY <1>3 DEF ClaimDigest, CountClaims, CountEvents
  <1>4. CASE ClaimSeq(w) \/ SeqTaken(w) \/ Publish(w)
    BY <1>4 DEF ClaimSeq, SeqTaken, Publish
  <1> QED
    BY <1>1, <1>2, <1>3, <1>4 DEF WriterStep

\* Nothing disappears from the directory, and who adds what.
Grows(w) ==
    /\ files \subseteq files' /\ seqClaims \subseteq seqClaims'
    /\ digestClaims \subseteq digestClaims'
    /\ files' # files => Publish(w)
    /\ seqClaims' # seqClaims => ClaimSeq(w)
    /\ digestClaims' # digestClaims => ClaimDigest(w)

LEMMA Growth == ASSUME NEW w \in Writer, WriterStep(w) PROVE Grows(w)
  <1> USE DEF Grows, core, dir, history
  <1>1. CASE Begin(w) \/ Decode(w) \/ Stamp(w) \/ Walk(w) \/ Recorded(w) \/ Stops(w)
    BY <1>1 DEF Begin, Decode, Stamp, Walk, Recorded, Stops
  <1>2. CASE ClaimDigest(w) \/ CountClaims(w) \/ CountEvents(w)
    BY <1>2 DEF ClaimDigest, CountClaims, CountEvents
  <1>3. CASE ClaimSeq(w) \/ SeqTaken(w) \/ Publish(w)
    BY <1>3 DEF ClaimSeq, SeqTaken, Publish
  <1> QED
    BY <1>1, <1>2, <1>3 DEF WriterStep

-----------------------------------------------------------------------------
(* Types, and the counts of next_seq/1 *)

\* The seq claims are 1 to their number, and there are no fewer of them than
\* there are events: what next_seq/1 counts.
LEMMA Counted == ASSUME DirInv
                 PROVE  /\ Cardinality(seqClaims) \in Nat
                        /\ seqClaims = 1 .. Cardinality(seqClaims)
                        /\ Cardinality(files) \in Nat
                        /\ 1 .. Cardinality(files) \subseteq seqClaims
  <1>1. PICK n \in Nat : seqClaims = 1 .. n
    BY DEF DirInv, ClaimsContiguous
  <1>2. IsFiniteSet(seqClaims) /\ Cardinality(seqClaims) = n
    BY <1>1, FS_Interval
  <1> DEFINE seqOf == [f \in files |-> f.seq]
  <1>3. seqOf \in Injection(files, seqClaims)
    <2>1. \A f \in files : f.seq \in seqClaims
      BY DEF DirInv, FilesClaimed
    <2>2. \A e \in files : \A f \in files : e.seq = f.seq => e = f
      BY DEF DirInv, Log!SingleOwner
    <2> QED
      BY <2>1, <2>2 DEF Injection, IsInjective
  <1>4. IsFiniteSet(files) /\ Cardinality(files) <= n
    BY <1>2, <1>3, FS_Injection
  <1>5. Cardinality(files) \in Nat
    BY <1>4, FS_CardinalityType
  <1> QED
    BY <1>1, <1>2, <1>4, <1>5

\* The variables have their types at the start.
LEMMA TypeInit == Init => TypeOK
  <1> SUFFICES ASSUME Init PROVE TypeOK
    OBVIOUS
  <1>1. marker \in Epoch /\ failures \in 0 .. MaxFailures /\ epoch \in [Writer -> Epoch]
    BY BoundsAssumption DEF Init, Epoch
  <1> QED
    BY <1>1 DEF Init, TypeOK

\* The marker, its lock and the count of failures keep theirs.
LEMMA MarkerTypes == ASSUME TypeOK, NEW w \in Writer,
                            Begin(w) \/ AppendStep(w) \/ Raise(w) \/ Crash(w)
                     PROVE  /\ marker' \in Epoch /\ markerLock' \in BOOLEAN
                            /\ failures' \in 0 .. MaxFailures
  <1> USE BoundsAssumption DEF TypeOK, dir, history, Epoch
  <1>1. CASE Begin(w) \/ Decode(w) \/ Stamp(w) \/ RefuseEpoch(w) \/ NeedsNoMark(w)
             \/ NeedsMark(w)
    BY <1>1 DEF Begin, Decode, Stamp, RefuseEpoch, NeedsNoMark, NeedsMark
  <1>2. CASE LockGivesUp(w) \/ Truncate(w) \/ MarkedMeanwhile(w)
    BY <1>2 DEF LockGivesUp, Truncate, MarkedMeanwhile
  <1>8. CASE Lock(w)
    BY <1>8 DEF Lock
  <1>3. CASE Fill(w) \/ Unlock(w)
    BY <1>3 DEF Fill, Unlock
  <1>4. CASE ClaimDigest(w) \/ DigestTaken(w) \/ CountClaims(w) \/ CountEvents(w)
    BY <1>4 DEF ClaimDigest, DigestTaken, CountClaims, CountEvents
  <1>5. CASE ClaimSeq(w) \/ SeqTaken(w) \/ Publish(w) \/ AwaitFinds(w) \/ AwaitGivesUp(w)
    BY <1>5 DEF ClaimSeq, SeqTaken, Publish, AwaitFinds, AwaitGivesUp
  <1>6. CASE Raise(w)
    <2>1. markerLock' \in {FALSE, markerLock} /\ marker' = marker
      BY <1>6 DEF Raise
    <2>2. failures < MaxFailures /\ failures' = failures + 1
      BY <1>6 DEF Raise
    <2>3. failures' \in 0 .. MaxFailures
      BY <2>2
    <2> QED
      BY <2>1, <2>3
  <1>7. CASE Crash(w)
    BY <1>7 DEF Crash
  <1> QED
    BY <1>1, <1>2, <1>3, <1>4, <1>5, <1>6, <1>7, <1>8 DEF AppendStep

\* What the other variables have to keep.
Typed ==
    /\ files \in SUBSET Event
    /\ digestClaims \in SUBSET Digests
    /\ seqClaims \in SUBSET (Nat \ {0})
    /\ pc \in [Writer -> {"idle"} \cup Running \cup Ended]
    /\ call \in Calls
    /\ snap \in [Writer -> SUBSET Event]
    /\ epoch \in [Writer -> Epoch]
    /\ next \in [Writer -> Nat]
    /\ answer \in [Writer -> Event \cup {Nothing}]
    /\ past \in [Writer -> SUBSET Event]

\* A stamped event has a payload of the call and an epoch.
LEMMA MineIsDigest == ASSUME TypeOK, NEW w \in Writer
                      PROVE  call[w].payload \in Payload /\ Mine(w) \in Digests
  <1>1. call \in [Writer -> [payload : Payload, option : Option]]
    BY CallsAssumption DEF TypeOK
  <1> QED
    BY <1>1 DEF TypeOK, Mine, Digests

\* They keep their types in every step.
LEMMA TypedStep == ASSUME DirInv, NEW w \in Writer, WriterStep(w) PROVE Typed'
  <1> USE DEF Typed, TypeOK, core, dir, history, Goto, Answer
  <1>0. TypeOK
    BY DEF DirInv
  <1>1. CASE Begin(w)
    <2>1. Returned \in SUBSET Event
      BY <1>0 DEF Returned
    <2> QED
      BY <1>0, <1>1, <2>1 DEF Begin, Running
  <1>2. CASE Decode(w)
    BY <1>0, <1>2 DEF Decode, Running
  <1>3. CASE Stamp(w)
    <2>1. epoch' \in [Writer -> Epoch]
      <3>1. PICK last \in Epoch : /\ NextEpoch(w, last) \in last .. MaxEpoch
                                  /\ epoch' = [epoch EXCEPT ![w] = NextEpoch(w, last)]
        BY <1>3 DEF Stamp
      <3>2. NextEpoch(w, last) \in Epoch
        BY <3>1, BoundsAssumption DEF Epoch
      <3> QED
        BY <1>0, <3>1, <3>2
    <2> QED
      BY <1>0, <1>3, <2>1 DEF Stamp, Running
  <1>4. CASE Walk(w)
    BY <1>0, <1>4 DEF Walk, Running, Marking
  <1>5. CASE Recorded(w)
    <2>1. PICK e \in Find(snap[w], Mine(w)) \cup Find(files, Mine(w)) \cup {Nothing} :
              Answer(w, "recorded", e)
      BY <1>5 DEF Recorded
    <2>2. e \in Event \cup {Nothing}
      BY <1>0, <2>1 DEF Find
    <2> QED
      BY <1>0, <1>5, <2>1, <2>2 DEF Recorded, Ended
  <1>6. CASE Stops(w)
    BY <1>0, <1>6 DEF Stops, Ended
  <1>7. CASE ClaimDigest(w)
    BY <1>0, <1>7, MineIsDigest DEF ClaimDigest, Running
  <1>8. CASE CountClaims(w)
    BY <1>0, <1>8, Counted DEF CountClaims, Running
  <1>9. CASE CountEvents(w)
    <2>1. next' \in [Writer -> Nat]
      BY <1>0, <1>9, Counted DEF CountEvents
    <2> QED
      BY <1>0, <1>9, <2>1 DEF CountEvents, Running
  <1>10. CASE ClaimSeq(w)
    <2>1. next[w] \in Nat \ {0}
      BY <1>0, <1>10 DEF DirInv, Candidates, ClaimSeq
    <2> QED
      BY <1>0, <1>10, <2>1 DEF ClaimSeq, Running
  <1>11. CASE SeqTaken(w)
    BY <1>0, <1>11 DEF SeqTaken
  <1>12. CASE Publish(w)
    <2> DEFINE e == [payload |-> call[w].payload, epoch |-> epoch[w], seq |-> next[w]]
    <2>1. next[w] \in Nat \ {0}
      BY <1>0, <1>12 DEF DirInv, SeqOwned, Publish
    <2>2. e \in Event
      BY <1>0, <2>1, MineIsDigest DEF Event
    <2>3. /\ files' = files \cup {e} /\ pc' = [pc EXCEPT ![w] = "appended"]
          /\ answer' = [answer EXCEPT ![w] = e]
          /\ UNCHANGED <<digestClaims, seqClaims, call, snap, epoch, next, past>>
      BY <1>12 DEF Publish
    <2> HIDE DEF e
    <2> QED
      BY <1>0, <2>2, <2>3 DEF Ended
  <1> QED
    BY <1>1, <1>2, <1>3, <1>4, <1>5, <1>6, <1>7, <1>8, <1>9, <1>10, <1>11, <1>12
    DEF WriterStep

-----------------------------------------------------------------------------
(* The directory: contiguous claims, and owners of events *)

\* The claim a writer succeeds in making is the one after the last.
LEMMA ContiguousStep == ASSUME DirInv, NEW w \in Writer, WriterStep(w)
                        PROVE  ClaimsContiguous'
  <1>0. PICK n \in Nat : seqClaims = 1 .. n
    BY DEF DirInv, ClaimsContiguous
  <1>1. CASE ClaimSeq(w)
    <2>1. next[w] \in Nat /\ next[w] >= 1 /\ 1 .. (next[w] - 1) \subseteq 1 .. n
      BY <1>0, <1>1 DEF DirInv, TypeOK, Candidates, ClaimSeq
    <2>2. next[w] \notin 1 .. n
      BY <1>0, <1>1 DEF ClaimSeq
    <2>3. next[w] = n + 1
      <3>1. next[w] > n
        BY <2>1, <2>2
      <3>2. CASE next[w] > n + 1
        <4>1. n + 1 \in 1 .. (next[w] - 1)
          BY <2>1, <3>2
        <4> QED
          BY <2>1, <4>1
      <3> QED
        BY <2>1, <3>1, <3>2
    <2>4. seqClaims' = 1 .. (n + 1)
      BY <1>0, <1>1, <2>3 DEF ClaimSeq
    <2> QED
      BY <2>4 DEF ClaimsContiguous
  <1>2. CASE ~ClaimSeq(w)
    BY <1>0, <1>2, Growth DEF Grows, ClaimsContiguous
  <1> QED
    BY <1>1, <1>2

\* What a publishing writer adds, and that no event has its seq or digest.
LEMMA PublishedFresh ==
    ASSUME DirInv, NEW w \in Writer, Publish(w)
    PROVE  \E e \in Event :
              /\ files' = files \cup {e}
              /\ e.seq = next[w] /\ DigestOf(e) = Mine(w) /\ e.epoch = epoch[w]
              /\ answer' = [answer EXCEPT ![w] = e]
              /\ \A f \in files : f.seq # e.seq /\ DigestOf(f) # DigestOf(e)
  <1> DEFINE e == [payload |-> call[w].payload, epoch |-> epoch[w], seq |-> next[w]]
  <1>1. TypeOK /\ pc[w] = "write"
    BY DEF DirInv, Publish
  <1>2. next[w] \in Nat \ {0}
    BY <1>1 DEF DirInv, TypeOK, SeqOwned
  <1>3. e \in Event /\ e.seq = next[w] /\ DigestOf(e) = Mine(w) /\ e.epoch = epoch[w]
    BY <1>1, <1>2, MineIsDigest DEF TypeOK, Event, DigestOf, Mine
  <1>4. files' = files \cup {e} /\ answer' = [answer EXCEPT ![w] = e]
    BY DEF Publish, Answer
  <1>5. \A f \in files : f.seq # next[w] /\ DigestOf(f) # Mine(w)
    BY <1>1 DEF DirInv, SeqOwned, DigestOwned, Owning
  <1> HIDE DEF e
  <1> QED
    BY <1>3, <1>4, <1>5

\* So a seq and a digest keep their single owner, and the new event is
\* under the two claims of its writer.
LEMMA FilesStep == ASSUME DirInv, NEW w \in Writer, WriterStep(w)
                   PROVE  FilesClaimed' /\ Log!SingleOwner'
  <1>0. FilesClaimed /\ Log!SingleOwner /\ Grows(w)
    BY Growth DEF DirInv
  <1>1. CASE Publish(w)
    <2>1. PICK e \in Event :
              /\ files' = files \cup {e} /\ e.seq = next[w] /\ DigestOf(e) = Mine(w)
              /\ \A f \in files : f.seq # e.seq /\ DigestOf(f) # DigestOf(e)
      BY <1>1, PublishedFresh
    <2>2. next[w] \in seqClaims /\ Mine(w) \in digestClaims
      BY <1>1 DEF DirInv, SeqOwned, DigestOwned, Owning, Publish
    <2>3. FilesClaimed'
      BY <1>0, <2>1, <2>2 DEF FilesClaimed, Grows, DigestOf
    <2>4. Log!SingleOwner'
      BY <1>0, <2>1 DEF Log!SingleOwner, Log!Digest, DigestOf
    <2> QED
      BY <2>3, <2>4
  <1>2. CASE ~Publish(w)
    <2>1. files' = files
      BY <1>0, <1>2 DEF Grows
    <2> QED
      BY <1>0, <2>1 DEF Grows, FilesClaimed, Log!SingleOwner, DigestOf, Log!Digest
  <1> QED
    BY <1>1, <1>2

\* A candidate grows only past claims that exist.
LEMMA CandidatesStep == ASSUME DirInv, NEW w \in Writer, WriterStep(w)
                        PROVE  Candidates'
  <1>0. TypeOK /\ Candidates /\ OthersKept(w) /\ Grows(w)
    BY Others, Growth DEF DirInv
  <1>1. ASSUME NEW v \in Writer, v # w
        PROVE  /\ pc'[v] = "measure" => 1 .. next'[v] \subseteq seqClaims'
               /\ pc'[v] = "take" => next'[v] >= 1 /\ 1 .. (next'[v] - 1) \subseteq seqClaims'
    BY <1>0, <1>1 DEF OthersKept, Grows, Candidates
  <1>2. /\ pc'[w] = "measure" => 1 .. next'[w] \subseteq seqClaims'
        /\ pc'[w] = "take" => next'[w] >= 1 /\ 1 .. (next'[w] - 1) \subseteq seqClaims'
    <2> USE DEF TypeOK, core, dir, Goto, Answer
    <2>1. CASE Begin(w) \/ Decode(w) \/ Stamp(w) \/ ClaimDigest(w) \/ ClaimSeq(w) \/ Publish(w)
      BY <1>0, <2>1 DEF Begin, Decode, Stamp, ClaimDigest, ClaimSeq, Publish
    <2>2. CASE Walk(w) \/ Recorded(w) \/ Stops(w)
      BY <1>0, <2>2 DEF Walk, Recorded, Stops, Marking
    <2>3. CASE CountClaims(w)
      BY <1>0, <2>3, Counted DEF CountClaims
    <2>4. CASE CountEvents(w)
      <3>1. /\ next[w] \in Nat /\ 1 .. next[w] \subseteq seqClaims
            /\ pc'[w] = "take" /\ seqClaims' = seqClaims
            /\ next'[w] = IF next[w] >= Cardinality(files) THEN next[w] + 1
                                                          ELSE Cardinality(files) + 1
        BY <1>0, <2>4 DEF CountEvents, Candidates
      <3> QED
        BY <3>1, Counted
    <2>5. CASE SeqTaken(w)
      <3>1. /\ next[w] \in Nat /\ next[w] >= 1 /\ 1 .. (next[w] - 1) \subseteq seqClaims
            /\ pc'[w] = "take" /\ seqClaims' = seqClaims
            /\ next'[w] = next[w] + 1 /\ next[w] \in seqClaims
        BY <1>0, <2>5 DEF SeqTaken, Candidates
      <3> QED
        BY <3>1
    <2> QED
      BY <2>1, <2>2, <2>3, <2>4, <2>5 DEF WriterStep
  <1> QED
    BY <1>1, <1>2 DEF Candidates

-----------------------------------------------------------------------------
(* The writers: what they own, read and stamped *)

\* Where a writer stands: it comes to own a digest only by its claim, a seq
\* only by its claim, and keeps its stamp while it owns something.
LEMMA Ways == ASSUME DirInv, NEW w \in Writer, WriterStep(w)
              PROVE  /\ pc'[w] \in Owning /\ ~ClaimDigest(w) =>
                            pc[w] \in Owning /\ epoch'[w] = epoch[w]
                     /\ pc'[w] = "write" => ClaimSeq(w)
                     /\ pc[w] = "write" => Publish(w) \/ Stops(w)
  <1>0. TypeOK
    BY DEF DirInv
  <1> USE DEF TypeOK, core, dir, history, Goto, Answer, Owning
  <1>1. CASE Begin(w) \/ Decode(w) \/ Stamp(w)
    BY <1>0, <1>1 DEF Begin, Decode, Stamp
  <1>2. CASE Walk(w) \/ Recorded(w)
    BY <1>0, <1>2 DEF Walk, Recorded, Marking
  <1>3. CASE Stops(w)
    BY <1>0, <1>3 DEF Stops
  <1>4. CASE ClaimDigest(w) \/ CountClaims(w) \/ CountEvents(w)
    BY <1>0, <1>4 DEF ClaimDigest, CountClaims, CountEvents
  <1>5. CASE ClaimSeq(w) \/ SeqTaken(w) \/ Publish(w)
    BY <1>0, <1>5 DEF ClaimSeq, SeqTaken, Publish
  <1> QED
    BY <1>1, <1>2, <1>3, <1>4, <1>5 DEF WriterStep

\* A digest claim passes to nobody else, and ends with its event.
LEMMA DigestOwnedStep == ASSUME DirInv, NEW w \in Writer, WriterStep(w)
                         PROVE  DigestOwned'
  <1>0. TypeOK /\ DigestOwned /\ FilesClaimed /\ OthersKept(w) /\ Grows(w)
    BY Others, Growth DEF DirInv
  <1>1. \A v \in Writer : v # w => pc'[v] = pc[v] /\ Mine(v)' = Mine(v)
    BY <1>0 DEF OthersKept, Mine
  <1>2. CASE ClaimDigest(w)
    <2>1. /\ Mine(w) \notin digestClaims /\ Mine(w) \in digestClaims'
          /\ files' = files /\ Mine(w)' = Mine(w)
      BY <1>2 DEF ClaimDigest, Mine
    <2>2. \A f \in files : DigestOf(f) # Mine(w)
      BY <1>0, <2>1 DEF FilesClaimed
    <2>3. \A v \in Writer : v # w /\ pc[v] \in Owning => Mine(v) # Mine(w)
      BY <1>0, <2>1 DEF DigestOwned
    <2> QED
      BY <1>0, <1>1, <2>1, <2>2, <2>3 DEF DigestOwned, Grows, DigestOf
  <1>3. CASE Publish(w)
    <2>1. PICK e \in Event : files' = files \cup {e} /\ DigestOf(e) = Mine(w)
      BY <1>3, PublishedFresh
    <2>2. pc[w] \in Owning /\ pc'[w] \notin Owning
      BY <1>0, <1>3 DEF TypeOK, Publish, Answer, Goto, Owning
    <2> QED
      BY <1>0, <1>1, <2>1, <2>2 DEF DigestOwned, Grows, DigestOf
  <1>4. CASE ~ClaimDigest(w) /\ ~Publish(w)
    <2>1. files' = files /\ call' = call
      BY <1>0, <1>4 DEF Grows, OthersKept
    <2>2. pc'[w] \in Owning => pc[w] \in Owning /\ Mine(w)' = Mine(w)
      BY <1>4, <2>1, Ways DEF Mine
    <2>3. \A v \in Writer : pc'[v] \in Owning => pc[v] \in Owning /\ Mine(v)' = Mine(v)
      BY <1>1, <2>2
    <2>4. \A v \in Writer : pc'[v] \in Owning =>
              Mine(v)' \in digestClaims' /\ \A f \in files' : DigestOf(f) # Mine(v)'
      BY <1>0, <2>1, <2>3 DEF DigestOwned, Grows
    <2>5. \A v \in Writer : pc'[v] \in Owning =>
              \A u \in Writer : u # v /\ pc'[u] \in Owning => Mine(u)' # Mine(v)'
      BY <1>0, <2>3 DEF DigestOwned
    <2> QED
      BY <2>4, <2>5 DEF DigestOwned, DigestOf
  <1> QED
    BY <1>2, <1>3, <1>4

\* Nor does a seq claim.
LEMMA SeqOwnedStep == ASSUME DirInv, NEW w \in Writer, WriterStep(w)
                      PROVE  SeqOwned'
  <1>0. TypeOK /\ SeqOwned /\ FilesClaimed /\ OthersKept(w) /\ Grows(w)
    BY Others, Growth DEF DirInv
  <1>1. \A v \in Writer : v # w => pc'[v] = pc[v] /\ next'[v] = next[v]
    BY <1>0 DEF OthersKept
  <1>2. CASE ClaimSeq(w)
    <2>1. /\ next[w] \notin seqClaims /\ next[w] \in seqClaims'
          /\ files' = files /\ next' = next
      BY <1>2 DEF ClaimSeq
    <2>2. \A f \in files : f.seq # next[w]
      BY <1>0, <2>1 DEF FilesClaimed
    <2>3. \A v \in Writer : v # w /\ pc[v] = "write" => next[v] # next[w]
      BY <1>0, <2>1 DEF SeqOwned
    <2> QED
      BY <1>0, <1>1, <2>1, <2>2, <2>3 DEF SeqOwned, Grows
  <1>3. CASE Publish(w)
    <2>1. PICK e \in Event : files' = files \cup {e} /\ e.seq = next[w]
      BY <1>3, PublishedFresh
    <2>2. pc[w] = "write" /\ pc'[w] # "write"
      BY <1>0, <1>3 DEF TypeOK, Publish, Answer, Goto
    <2> QED
      BY <1>0, <1>1, <2>1, <2>2 DEF SeqOwned, Grows
  <1>4. CASE ~ClaimSeq(w) /\ ~Publish(w)
    <2>1. files' = files /\ pc'[w] # "write"
      BY <1>0, <1>4, Ways DEF Grows
    <2> QED
      BY <1>0, <1>1, <2>1 DEF SeqOwned, Grows
  <1> QED
    BY <1>2, <1>3, <1>4

\* A claimed event is published by the writer that owns it, unless it dies.
LEMMA LostStep == ASSUME DirInv, NEW w \in Writer, WriterStep(w)
                  PROVE  LostOnlyByFailure'
  <1> DEFINE Carrying == Owning \cup {"raised", "crashed"}
  <1>0. TypeOK /\ LostOnlyByFailure /\ OthersKept(w) /\ Grows(w)
    BY Others, Growth DEF DirInv
  <1>1. \A v \in Writer : v # w => pc'[v] = pc[v] /\ Mine(v)' = Mine(v)
    BY <1>0 DEF OthersKept, Mine
  <1>2. ASSUME pc[w] \in Carrying
        PROVE  (pc'[w] \in Carrying /\ Mine(w)' = Mine(w)) \/ Publish(w)
    <2> USE DEF TypeOK, core, dir, history, Goto, Answer, Owning, Mine
    <2>1. CASE Begin(w) \/ Decode(w) \/ Stamp(w) \/ ClaimDigest(w)
      BY <1>2, <2>1 DEF Begin, Decode, Stamp, ClaimDigest
    <2>2. CASE Walk(w) \/ Recorded(w)
      BY <1>2, <2>2 DEF Walk, Recorded, Marking
    <2>3. CASE CountClaims(w) \/ CountEvents(w) \/ ClaimSeq(w) \/ SeqTaken(w)
      BY <1>0, <1>2, <2>3 DEF CountClaims, CountEvents, ClaimSeq, SeqTaken
    <2>4. CASE Stops(w)
      BY <1>0, <1>2, <2>4 DEF Stops, Running
    <2> QED
      BY <1>2, <2>1, <2>2, <2>3, <2>4 DEF WriterStep
  <1>3. SUFFICES ASSUME NEW d \in digestClaims'
                 PROVE  \/ \E f \in files' : DigestOf(f) = d
                        \/ \E v \in Writer : Mine(v)' = d /\ pc'[v] \in Carrying
    BY DEF LostOnlyByFailure, Find, Owning, DigestOf
  <1>4. CASE d \in digestClaims
    <2>1. \/ \E f \in files : DigestOf(f) = d
          \/ \E v \in Writer : Mine(v) = d /\ pc[v] \in Carrying
      BY <1>0, <1>4 DEF LostOnlyByFailure, Find, Owning
    <2>2. CASE \E f \in files : DigestOf(f) = d
      BY <1>0, <2>2 DEF Grows
    <2>3. CASE \E v \in Writer : Mine(v) = d /\ pc[v] \in Carrying
      <3>1. PICK v \in Writer : Mine(v) = d /\ pc[v] \in Carrying
        BY <2>3
      <3>2. CASE v # w
        BY <1>1, <3>1, <3>2
      <3>3. CASE v = w /\ Publish(w)
        BY <3>1, <3>3, PublishedFresh
      <3>4. CASE v = w /\ ~Publish(w)
        BY <1>2, <3>1, <3>4
      <3> QED
        BY <3>2, <3>3, <3>4
    <2> QED
      BY <2>1, <2>2, <2>3
  <1>5. CASE d \notin digestClaims
    <2>1. ClaimDigest(w)
      BY <1>0, <1>5 DEF Grows
    <2>2. d = Mine(w) /\ Mine(w)' = Mine(w) /\ pc'[w] \in Carrying
      BY <1>0, <1>5, <2>1 DEF ClaimDigest, Mine, TypeOK, Goto, Owning
    <2> QED
      BY <2>2
  <1> QED
    BY <1>4, <1>5

\* What a writer reads or answers is in the directory, and stays there.
LEMMA ReadsStep == ASSUME DirInv, NEW w \in Writer, WriterStep(w)
                   PROVE  Reads'
  <1>0. TypeOK /\ Reads /\ OthersKept(w) /\ Grows(w)
    BY Others, Growth DEF DirInv
  <1> DEFINE R(v) == /\ past'[v] \subseteq files' /\ snap'[v] \subseteq files'
                     /\ answer'[v] \in files' \cup {Nothing}
                     /\ pc'[v] \in {"stamp"} \cup Stamped => past'[v] \subseteq snap'[v]
                     /\ pc'[v] \in {"idle"} \cup Running => answer'[v] = Nothing
  <1>1. ASSUME NEW v \in Writer, v # w PROVE R(v)
    BY <1>0, <1>1 DEF OthersKept, Grows, Reads
  <1>2. R(w)
    <2>0. /\ past[w] \subseteq files /\ snap[w] \subseteq files
          /\ answer[w] \in files \cup {Nothing}
          /\ pc[w] \in {"stamp"} \cup Stamped => past[w] \subseteq snap[w]
          /\ pc[w] \in {"idle"} \cup Running => answer[w] = Nothing
      BY <1>0 DEF Reads
    <2> USE DEF TypeOK, core, dir, history, Goto, Answer, Stamped, Marking, Owning, Running
    <2>1. CASE Begin(w)
      <3>1. Returned \subseteq files
        BY <1>0 DEF Returned, Reads
      <3> QED
        BY <1>0, <2>0, <2>1, <3>1 DEF Begin
    <2>2. CASE Decode(w)
      BY <1>0, <2>0, <2>2 DEF Decode
    <2>3. CASE Stamp(w)
      BY <1>0, <2>0, <2>3 DEF Stamp
    <2>4. CASE Walk(w)
      BY <1>0, <2>0, <2>4 DEF Walk
    <2>5. CASE Recorded(w)
      <3>1. PICK e \in Find(snap[w], Mine(w)) \cup Find(files, Mine(w)) \cup {Nothing} :
                Answer(w, "recorded", e)
        BY <2>5 DEF Recorded
      <3>2. e \in files \cup {Nothing}
        BY <2>0, <3>1 DEF Find
      <3> QED
        BY <1>0, <2>0, <2>5, <3>1, <3>2 DEF Recorded
    <2>6. CASE Stops(w)
      BY <1>0, <2>0, <2>6 DEF Stops
    <2>7. CASE ClaimDigest(w) \/ CountClaims(w) \/ CountEvents(w)
      BY <1>0, <2>0, <2>7 DEF ClaimDigest, CountClaims, CountEvents
    <2>8. CASE ClaimSeq(w) \/ SeqTaken(w)
      BY <1>0, <2>0, <2>8 DEF ClaimSeq, SeqTaken
    <2>9. CASE Publish(w)
      <3>1. PICK e \in Event : files' = files \cup {e} /\ answer' = [answer EXCEPT ![w] = e]
        BY <2>9, PublishedFresh
      <3>2. pc' = [pc EXCEPT ![w] = "appended"] /\ UNCHANGED <<snap, past>>
        BY <2>9 DEF Publish
      <3> QED
        BY <1>0, <2>0, <3>1, <3>2
    <2> QED
      BY <2>1, <2>2, <2>3, <2>4, <2>5, <2>6, <2>7, <2>8, <2>9 DEF WriterStep
  <1> QED
    BY <1>1, <1>2 DEF Reads

\* The epoch stamped is not below that of any event the writer has read.
LEMMA StampNotBelow == ASSUME TypeOK, NEW w \in Writer, Stamp(w)
                       PROVE  \A f \in snap[w] : epoch'[w] >= f.epoch
  <1>1. PICK last \in Epoch : /\ IsLastEpoch(w, last)
                              /\ NextEpoch(w, last) \in last .. MaxEpoch
                              /\ epoch' = [epoch EXCEPT ![w] = NextEpoch(w, last)]
    BY DEF Stamp
  <1>2. \A f \in snap[w] : last >= f.epoch /\ f.epoch \in Epoch
    BY <1>1 DEF IsLastEpoch, TypeOK, Event
  <1>3. epoch'[w] = NextEpoch(w, last)
    BY <1>1 DEF TypeOK
  <1>4. epoch'[w] \in Nat /\ epoch'[w] >= last /\ last \in Nat
    BY <1>1, <1>3, BoundsAssumption DEF Epoch
  <1> QED
    BY <1>2, <1>4, BoundsAssumption DEF Epoch

\* The stamp and the candidate of a writer are above the events before it.
LEMMA StampsStep == ASSUME DirInv, NEW w \in Writer, WriterStep(w)
                    PROVE  Stamps'
  <1>0. TypeOK /\ Stamps /\ Reads /\ FilesClaimed /\ OthersKept(w) /\ Grows(w)
    BY Others, Growth DEF DirInv
  <1> DEFINE S(v) == \A f \in past'[v] :
                        /\ pc'[v] \in Stamped => epoch'[v] >= f.epoch
                        /\ pc'[v] = "measure" => next'[v] >= f.seq
                        /\ pc'[v] \in {"take", "write"} => next'[v] > f.seq
  <1>1. ASSUME NEW v \in Writer, v # w PROVE S(v)
    BY <1>0, <1>1 DEF OthersKept, Stamps
  <1>2. S(w)
    <2> USE DEF TypeOK, core, dir, history, Goto, Answer, Stamped, Marking, Owning
    <2>1. CASE Begin(w) \/ Decode(w) \/ Recorded(w) \/ Stops(w) \/ Publish(w)
      BY <1>0, <2>1 DEF Begin, Decode, Recorded, Stops, Publish
    <2>2. CASE Stamp(w)
      <3>1. past'[w] \subseteq snap[w] /\ pc'[w] = "mark"
        BY <1>0, <2>2 DEF Stamp, Reads
      <3> QED
        BY <1>0, <2>2, <3>1, StampNotBelow
    <2>3. CASE Walk(w) \/ ClaimDigest(w) \/ ClaimSeq(w)
      BY <1>0, <2>3 DEF Walk, ClaimDigest, ClaimSeq, Stamps
    <2>4. CASE CountClaims(w)
      <3>1. \A f \in past[w] : f.seq \in 1 .. Cardinality(seqClaims)
        BY <1>0, Counted DEF Reads, FilesClaimed
      <3>2. /\ next'[w] = Cardinality(seqClaims) /\ pc[w] = "count" /\ pc'[w] = "measure"
            /\ past' = past /\ epoch' = epoch
        BY <1>0, <2>4 DEF CountClaims
      <3> QED
        BY <1>0, <3>1, <3>2, Counted DEF Stamps
    <2>5. CASE CountEvents(w)
      <3>1. /\ next'[w] = IF next[w] >= Cardinality(files) THEN next[w] + 1
                                                          ELSE Cardinality(files) + 1
            /\ pc[w] = "measure" /\ pc'[w] = "take" /\ past' = past /\ epoch' = epoch
        BY <1>0, <2>5 DEF CountEvents
      <3>2. next[w] \in Nat /\ next'[w] > next[w]
        BY <1>0, <3>1, Counted
      <3>3. next'[w] \in Nat
        BY <3>1, <3>2, Counted
      <3>4. \A f \in past[w] : f.seq \in Nat
        BY <1>0 DEF Event
      <3> QED
        BY <1>0, <3>1, <3>2, <3>3, <3>4 DEF Stamps
    <2>6. CASE SeqTaken(w)
      <3>1. /\ next'[w] = next[w] + 1 /\ pc[w] = "take" /\ pc' = pc
            /\ past' = past /\ epoch' = epoch /\ next[w] \in Nat
        BY <1>0, <2>6 DEF SeqTaken
      <3>2. \A f \in past[w] : f.seq \in Nat
        BY <1>0 DEF Event
      <3> QED
        BY <1>0, <3>1, <3>2 DEF Stamps
    <2> QED
      BY <2>1, <2>2, <2>3, <2>4, <2>5, <2>6 DEF WriterStep
  <1> QED
    BY <1>1, <1>2 DEF Stamps

\* An answer is the writer's own event, or one with the same stamp.
LEMMA LaterStep == ASSUME DirInv, NEW w \in Writer, WriterStep(w)
                   PROVE  LaterIsAfter'
  <1>0. TypeOK /\ LaterIsAfter /\ Stamps /\ Reads /\ OthersKept(w)
    BY Others DEF DirInv
  <1> DEFINE L(v) == answer'[v] # Nothing =>
                        \A f \in past'[v] :
                            /\ answer'[v].epoch >= f.epoch
                            /\ pc'[v] = "appended" => answer'[v].seq > f.seq
  <1>1. ASSUME NEW v \in Writer, v # w PROVE L(v)
    BY <1>0, <1>1 DEF OthersKept, LaterIsAfter
  <1>2. L(w)
    <2> USE DEF TypeOK, core, dir, history, Goto, Answer, Marking, Owning, Running
    <2>1. CASE Begin(w) \/ Decode(w) \/ Stamp(w)
      <3>1. answer'[w] = Nothing
        BY <1>0, <2>1 DEF Begin, Decode, Stamp, Reads
      <3> QED
        BY <3>1
    <2>2. CASE Walk(w) \/ Stops(w)
      <3>1. answer'[w] = Nothing
        BY <1>0, <2>2 DEF Walk, Stops, Reads
      <3> QED
        BY <3>1
    <2>3. CASE ClaimDigest(w) \/ CountClaims(w) \/ CountEvents(w) \/ ClaimSeq(w) \/ SeqTaken(w)
      <3>1. answer'[w] = Nothing
        BY <1>0, <2>3 DEF ClaimDigest, CountClaims, CountEvents, ClaimSeq, SeqTaken, Reads
      <3> QED
        BY <3>1
    <2>4. CASE Recorded(w)
      <3>1. PICK e \in Find(snap[w], Mine(w)) \cup Find(files, Mine(w)) \cup {Nothing} :
                Answer(w, "recorded", e)
        BY <2>4 DEF Recorded
      <3>2. e # Nothing => e.epoch = epoch[w]
        BY <3>1 DEF Find, DigestOf, Mine
      <3>3. answer'[w] = e /\ pc'[w] = "recorded" /\ past' = past /\ pc[w] \in Stamped
        BY <1>0, <2>4, <3>1 DEF Recorded, Stamped
      <3> QED
        BY <1>0, <3>2, <3>3 DEF Stamps
    <2>5. CASE Publish(w)
      <3>1. PICK e \in Event : /\ e.seq = next[w] /\ e.epoch = epoch[w]
                               /\ answer' = [answer EXCEPT ![w] = e]
        BY <2>5, PublishedFresh
      <3>2. answer'[w] = e /\ past' = past /\ pc[w] = "write" /\ pc[w] \in Stamped
        BY <1>0, <2>5, <3>1 DEF Publish, Stamped
      <3> QED
        BY <1>0, <3>1, <3>2 DEF Stamps
    <2> QED
      BY <2>1, <2>2, <2>3, <2>4, <2>5 DEF WriterStep
  <1> QED
    BY <1>1, <1>2 DEF LaterIsAfter

-----------------------------------------------------------------------------
(* The invariant and what follows from it *)

\* An absent directory, and writers that have not begun.
LEMMA DirInit == Init => DirInv
  <1> SUFFICES ASSUME Init PROVE DirInv
    OBVIOUS
  <1>1. TypeOK
    BY TypeInit
  <1>2. ClaimsContiguous
    <2>1. seqClaims = 1 .. 0
      BY DEF Init
    <2> QED
      BY <2>1 DEF ClaimsContiguous
  <1>3. FilesClaimed /\ Log!SingleOwner /\ LostOnlyByFailure
    BY DEF Init, FilesClaimed, Log!SingleOwner, LostOnlyByFailure
  <1>4. Candidates /\ DigestOwned /\ SeqOwned
    BY DEF Init, Candidates, DigestOwned, SeqOwned, Owning
  <1>5. Reads /\ Stamps /\ LaterIsAfter
    BY DEF Init, Reads, Stamps, LaterIsAfter, Stamped, Marking, Owning
  <1> QED
    BY <1>1, <1>2, <1>3, <1>4, <1>5 DEF DirInv

\* A step that changes no variable changes none of the parts.
LEMMA DirStutter == DirInv /\ UNCHANGED vars => DirInv'
  <1> SUFFICES ASSUME DirInv, UNCHANGED vars PROVE DirInv'
    OBVIOUS
  <1> USE DEF vars, dir, history, DirInv
  <1>1. TypeOK' /\ ClaimsContiguous'
    BY DEF TypeOK, ClaimsContiguous
  <1>2. FilesClaimed' /\ Log!SingleOwner'
    BY DEF FilesClaimed, DigestOf, Log!SingleOwner, Log!Digest
  <1>3. Candidates' /\ SeqOwned'
    BY DEF Candidates, SeqOwned
  <1>4. DigestOwned' /\ LostOnlyByFailure'
    BY DEF DigestOwned, DigestOf, Mine, LostOnlyByFailure, Find
  <1>5. Reads' /\ Stamps' /\ LaterIsAfter'
    BY DEF Reads, Stamps, LaterIsAfter
  <1> QED
    BY <1>1, <1>2, <1>3, <1>4, <1>5

\* Every step keeps all the parts.
LEMMA DirStep == DirInv /\ [Next]_vars => DirInv'
  <1>1. ASSUME DirInv, NEW w \in Writer, Begin(w) \/ AppendStep(w) \/ Raise(w) \/ Crash(w)
        PROVE  DirInv'
    <2>1. WriterStep(w)
      BY <1>1, Steps
    <2>2. TypeOK'
      BY <1>1, <2>1, TypedStep, MarkerTypes DEF DirInv, TypeOK, Typed
    <2>3. /\ ClaimsContiguous' /\ FilesClaimed' /\ Log!SingleOwner' /\ Candidates'
          /\ DigestOwned' /\ SeqOwned'
      BY <1>1, <2>1, ContiguousStep, FilesStep, CandidatesStep, DigestOwnedStep, SeqOwnedStep
    <2>4. Reads' /\ Stamps' /\ LaterIsAfter' /\ LostOnlyByFailure'
      BY <1>1, <2>1, ReadsStep, StampsStep, LaterStep, LostStep
    <2> QED
      BY <2>2, <2>3, <2>4 DEF DirInv
  <1> QED
    BY <1>1, DirStutter DEF Next

\* The invariant holds in every reachable state.
THEOREM DirLedgerInvariant == Spec => []DirInv
  <1> QED
    BY DirInit, DirStep, PTL DEF Spec

\* The directory and the writers keep their types; seqs start at 1.
THEOREM DirLedgerTypeCorrect == Spec => []TypeOK
  <1>1. DirInv => TypeOK
    BY DEF DirInv
  <1> QED
    BY <1>1, DirLedgerInvariant, PTL

\* append/3 respects the order of calls that do not overlap: a later one gets no
\* lower epoch and a higher seq.
THEOREM DirLedgerLaterIsAfter == Spec => []LaterIsAfter
  <1>1. DirInv => LaterIsAfter
    BY DEF DirInv
  <1> QED
    BY <1>1, DirLedgerInvariant, PTL

\* An event whose digest is claimed is in the directory or under way there, unless
\* the writer that claimed it died or got an exception.
THEOREM DirLedgerLostOnlyByFailure == Spec => []LostOnlyByFailure
  <1>1. DirInv => LostOnlyByFailure
    BY DEF DirInv
  <1> QED
    BY <1>1, DirLedgerInvariant, PTL

\* Whatever writers do and wherever they die, the directory is an append-only
\* log: append_dir/3 adds one fresh event or nothing.
THEOREM DirLedgerRefines == Spec => ImplementsStandingLog
  <1>1. Init => Log!Init
    BY DEF Init, Log!Init
  <1>2. DirInv /\ [Next]_vars => [Log!Append]_files
    <2>1. ASSUME DirInv, NEW w \in Writer, Begin(w) \/ AppendStep(w) \/ Raise(w) \/ Crash(w)
          PROVE  Log!Append \/ UNCHANGED files
      <3>1. WriterStep(w)
        BY <2>1, Steps
      <3>2. CASE Publish(w)
        BY <2>1, <3>2, PublishedFresh DEF Log!Append, Log!Fresh, Log!Digest, DigestOf
      <3>3. CASE ~Publish(w)
        BY <3>1, <3>3, Growth DEF Grows
      <3> QED
        BY <3>2, <3>3
    <2>2. CASE UNCHANGED vars
      BY <2>2 DEF vars, dir
    <2> QED
      BY <2>1, <2>2 DEF Next
  <1> QED
    BY <1>1, <1>2, DirLedgerInvariant, PTL DEF Spec, ImplementsStandingLog, Log!Spec

\* Readers never find two events with one seq or one digest.
THEOREM DirLedgerSingleOwner == Spec => []Log!SingleOwner
  <1>1. DirInv => Log!SingleOwner
    BY DEF DirInv
  <1> QED
    BY <1>1, DirLedgerInvariant, PTL

-----------------------------------------------------------------------------
(* The file form.                                                          *)

FileTypes ==
    /\ TypeOK
    /\ lines \in SUBSET Event /\ IsFiniteSet(lines)
    /\ tail \in Tails /\ fileLock \in BOOLEAN

NoDirectory == files = {} /\ digestClaims = {} /\ seqClaims = {}

\* One writer is past the lock, and the lock says so.
Serialized ==
    /\ \A v, w \in Writer : InLock(v) /\ InLock(w) => v = w
    /\ \A w \in Writer : InLock(w) => fileLock
    /\ fileLock => \E w \in Writer : InLock(w) \/ pc[w] = "crashed"

\* What the writer in the lock read is the file, but for its own new line.
ReadsAll ==
    \A w \in Writer :
        /\ pc[w] \in {"stamp", "mark", "fill", "write"} => snap[w] = lines
        /\ pc[w] = "write" => Find(snap[w], Mine(w)) = {}
        /\ pc[w] = "unlock" =>
              /\ past[w] \subseteq snap[w]
              /\ Numbered(w, next[w]) \in lines
              /\ \A f \in snap[w] : next[w] > f.seq

\* It stamps no epoch below one that it read.
StampsAbove ==
    \A w \in Writer : pc[w] \in {"mark", "fill", "write", "unlock"} =>
        \A f \in snap[w] : epoch[w] >= f.epoch

\* What a writer was told or comes after is in the file.
Answers ==
    \A w \in Writer :
        /\ past[w] \subseteq lines
        /\ answer[w] \in lines \cup {Nothing}
        /\ pc[w] \in {"idle", "lock"} \/ InLock(w) => answer[w] = Nothing

FileInv ==
    /\ FileTypes /\ NoDirectory
    /\ Serialized /\ ReadsAll /\ StampsAbove /\ Answers
    /\ FileLog!SingleOwner /\ ExactHistory /\ LaterIsAfter

FileIdle == lines = {} /\ tail = "line" /\ fileLock = FALSE

LedgerInv ==
    \/ kind = "dir" /\ DirInv /\ FileIdle
    \/ kind = "file" /\ FileInv

-----------------------------------------------------------------------------
(* The steps of a writer of the file form *)

\* The file gets an event under the next seq.
Adds(w) == pc[w] = "write" /\ \E n \in NextSeq(w) : lines' = lines \cup {Numbered(w, n)}

FileWriterStep(w) == FileBegin(w) \/ FileStep(w) \/ RaiseInFile(w) \/ CrashInFile(w)

\* A step changes the locals of its writer alone, and the file grows.
LEMMA FileOthers == ASSUME TypeOK, NEW w \in Writer, FileWriterStep(w)
                    PROVE  /\ OthersKept(w)
                           /\ UNCHANGED <<files, digestClaims, seqClaims>>
                           /\ lines' = lines \/ Adds(w)
  <1> USE DEF TypeOK, OthersKept, dir, file, history, Goto, Answer, Adds
  <1>1. CASE FileBegin(w) \/ TakeLock(w) \/ FileLocked(w) \/ DecodeFile(w) \/ RefuseFile(w)
    BY <1>1 DEF FileBegin, TakeLock, FileLocked, DecodeFile, RefuseFile
  <1>2. CASE StampFile(w) \/ RefuseFileEpoch(w)
    BY <1>2 DEF StampFile, Stamp, RefuseFileEpoch, RefuseEpoch
  <1>3. CASE FileNeedsNoMark(w) \/ FillMark(w)
    BY <1>3 DEF FileNeedsNoMark, FillMark, LookInFile
  <1>4. CASE TruncateMark(w) \/ AppendLine(w) \/ ReturnLine(w)
    BY <1>4 DEF TruncateMark, AppendLine, ReturnLine
  <1>5. CASE RaiseInFile(w)
    BY <1>5 DEF RaiseInFile, CutLine
  <1>6. CASE CrashInFile(w)
    BY <1>6 DEF CrashInFile, CutLine
  <1> QED
    BY <1>1, <1>2, <1>3, <1>4, <1>5, <1>6 DEF FileWriterStep, FileStep

\* A new event has a seq and a digest that no event of the file has; its seq
\* is the number of events, and its epoch is not below theirs.
LEMMA NewLine ==
    ASSUME FileInv, NEW w \in Writer, pc[w] = "write", NEW n \in NextSeq(w)
    PROVE  /\ Numbered(w, n) \in Event
           /\ n \in Nat /\ n = Cardinality(lines) + 1
           /\ \A f \in lines : n > f.seq /\ epoch[w] >= f.epoch
           /\ \A f \in lines : DigestOf(f) # DigestOf(Numbered(w, n))
  <1>1. /\ TypeOK /\ lines \subseteq Event /\ snap[w] = lines
        /\ Find(lines, Mine(w)) = {} /\ \A f \in lines : epoch[w] >= f.epoch
    BY DEF FileInv, FileTypes, ReadsAll, StampsAbove
  <1>2. n = 1 \/ \E e \in lines : n = e.seq + 1
    BY <1>1 DEF NextSeq
  <1>3. \A f \in lines : n > f.seq
    BY <1>1 DEF NextSeq
  <1>4. \A f \in lines : f.seq \in Nat /\ f.seq >= 1
    BY <1>1 DEF Event
  <1>5. n \in Nat \ {0}
    BY <1>2, <1>4
  <1>6. Numbered(w, n) \in Event /\ DigestOf(Numbered(w, n)) = Mine(w)
    BY <1>1, <1>5, MineIsDigest DEF TypeOK, Event, Numbered, DigestOf, Mine
  <1>7. n = Cardinality(lines) + 1
    <2>1. /\ {e.seq : e \in lines} = 1 .. Cardinality(lines)
          /\ Cardinality(lines) \in Nat
      BY FS_CardinalityType DEF FileInv, FileTypes, ExactHistory
    <2>2. Cardinality(lines) > 0 => Cardinality(lines) < n
      BY <1>3, <1>4, <1>5, <2>1
    <2>3. \A e \in lines : e.seq \in 1 .. Cardinality(lines)
      BY <2>1
    <2>4. n <= Cardinality(lines) + 1
      BY <1>2, <1>4, <2>1, <2>3
    <2> QED
      BY <1>5, <2>1, <2>2, <2>4
  <1>8. \A f \in lines : DigestOf(f) # Mine(w)
    BY <1>1 DEF Find
  <1> QED
    BY <1>1, <1>3, <1>5, <1>6, <1>7, <1>8

-----------------------------------------------------------------------------
(* Types *)

\* The variables of writers and file keep their types in every step.
LEMMA FileTypesStep == ASSUME FileInv, NEW w \in Writer, FileWriterStep(w)
                       PROVE  FileTypes'
  <1>0. FileTypes /\ TypeOK
    BY DEF FileInv, FileTypes
  <1>1. lines' \in SUBSET Event /\ IsFiniteSet(lines')
    <2>1. CASE lines' = lines
      BY <1>0, <2>1 DEF FileTypes
    <2>2. CASE Adds(w)
      <3>1. PICK n \in NextSeq(w) : lines' = lines \cup {Numbered(w, n)}
        BY <2>2 DEF Adds
      <3>2. Numbered(w, n) \in Event
        BY <2>2, NewLine DEF Adds
      <3> QED
        BY <1>0, <3>1, <3>2, FS_AddElement DEF FileTypes
    <2> QED
      BY <1>0, <2>1, <2>2, FileOthers
  <1>2. tail' \in Tails
    <2> USE <1>0 DEF FileTypes, Tails, file, history, dir
    <2>1. CASE FileBegin(w) \/ TakeLock(w) \/ FileLocked(w) \/ DecodeFile(w) \/ RefuseFile(w)
      BY <2>1 DEF FileBegin, TakeLock, FileLocked, DecodeFile, RefuseFile
    <2>2. CASE StampFile(w) \/ RefuseFileEpoch(w)
      BY <2>2 DEF StampFile, RefuseFileEpoch
    <2>3. CASE FileNeedsNoMark(w) \/ FillMark(w) \/ TruncateMark(w) \/ ReturnLine(w)
      BY <2>3 DEF FileNeedsNoMark, FillMark, TruncateMark, ReturnLine
    <2>4. CASE AppendLine(w)
      BY <2>4 DEF AppendLine, Continued
    <2>5. CASE RaiseInFile(w) \/ CrashInFile(w)
      BY <2>5 DEF RaiseInFile, CrashInFile, CutLine
    <2> QED
      BY <2>1, <2>2, <2>3, <2>4, <2>5 DEF FileWriterStep, FileStep
  <1>3. fileLock' \in BOOLEAN
    <2> USE <1>0 DEF FileTypes, file, history, dir
    <2>1. CASE FileBegin(w) \/ TakeLock(w) \/ FileLocked(w) \/ DecodeFile(w) \/ RefuseFile(w)
      BY <2>1 DEF FileBegin, TakeLock, FileLocked, DecodeFile, RefuseFile
    <2>2. CASE StampFile(w) \/ RefuseFileEpoch(w)
      BY <2>2 DEF StampFile, RefuseFileEpoch
    <2>3. CASE FileNeedsNoMark(w) \/ FillMark(w)
      BY <2>3 DEF FileNeedsNoMark, FillMark, LookInFile
    <2>4. CASE TruncateMark(w) \/ AppendLine(w) \/ ReturnLine(w)
      BY <2>4 DEF TruncateMark, AppendLine, ReturnLine
    <2>5. CASE RaiseInFile(w) \/ CrashInFile(w)
      BY <2>5 DEF RaiseInFile, CrashInFile
    <2> QED
      BY <2>1, <2>2, <2>3, <2>4, <2>5 DEF FileWriterStep, FileStep
  <1>4. TypeOK'
    <2> USE <1>0 DEF TypeOK, file, history, dir, Goto, Answer, Running, Ended
    <2>1. CASE FileBegin(w)
      <3>1. Returned \in SUBSET Event
        BY DEF Returned
      <3> QED
        BY <2>1, <3>1 DEF FileBegin
    <2>2. CASE TakeLock(w) \/ FileLocked(w) \/ RefuseFile(w) \/ RefuseFileEpoch(w)
      BY <2>2 DEF TakeLock, FileLocked, RefuseFile, RefuseFileEpoch, RefuseEpoch
    <2>3. CASE DecodeFile(w)
      BY <2>3 DEF DecodeFile, FileTypes
    <2>4. CASE StampFile(w)
      <3>1. PICK last \in Epoch : /\ NextEpoch(w, last) \in last .. MaxEpoch
                                  /\ epoch' = [epoch EXCEPT ![w] = NextEpoch(w, last)]
        BY <2>4 DEF StampFile, Stamp
      <3>2. NextEpoch(w, last) \in Epoch
        BY <3>1, BoundsAssumption DEF Epoch
      <3>3. epoch' \in [Writer -> Epoch]
        BY <3>1, <3>2
      <3> QED
        BY <2>4, <3>3 DEF StampFile, Stamp
    <2>5. CASE FileNeedsNoMark(w) \/ FillMark(w)
      <3>1. marker' \in Epoch
        BY <2>5 DEF FileNeedsNoMark, FillMark
      <3>2. LookInFile(w) /\ UNCHANGED <<files, digestClaims, seqClaims, markerLock, call,
                                         snap, epoch, next, past, failures>>
        BY <2>5 DEF FileNeedsNoMark, FillMark
      <3>3. \A e \in Find(snap[w], Mine(w)) : e \in Event
        BY DEF Find
      <3>4. /\ pc' \in [Writer -> {"idle"} \cup Running \cup Ended]
            /\ answer' \in [Writer -> Event \cup {Nothing}]
        BY <3>2, <3>3 DEF LookInFile
      <3> QED
        BY <3>1, <3>2, <3>4
    <2>6. CASE TruncateMark(w)
      <3>1. 0 \in Epoch
        BY BoundsAssumption DEF Epoch
      <3> QED
        BY <2>6, <3>1 DEF TruncateMark
    <2>7. CASE AppendLine(w)
      <3>1. PICK n \in NextSeq(w) : next' = [next EXCEPT ![w] = n]
        BY <2>7 DEF AppendLine
      <3>2. n \in Nat
        BY <2>7, NewLine DEF AppendLine
      <3> QED
        BY <2>7, <3>1, <3>2 DEF AppendLine
    <2>8. CASE ReturnLine(w)
      <3>1. Numbered(w, next[w]) \in Event
        BY <2>8 DEF ReturnLine, FileInv, ReadsAll, FileTypes
      <3> QED
        BY <2>8, <3>1 DEF ReturnLine
    <2>9. CASE RaiseInFile(w) \/ CrashInFile(w)
      <3>1. failures' \in 0 .. MaxFailures
        <4>1. failures < MaxFailures /\ failures' = failures + 1
          BY <2>9 DEF RaiseInFile, CrashInFile
        <4> QED
          BY <4>1, BoundsAssumption
      <3>2. /\ \E s \in {"refused", "raised", "crashed"} : pc' = [pc EXCEPT ![w] = s]
            /\ UNCHANGED <<dir, call, snap, epoch, next, answer, past>>
        BY <2>9 DEF RaiseInFile, CrashInFile
      <3> QED
        BY <3>1, <3>2
    <2> QED
      BY <2>1, <2>2, <2>3, <2>4, <2>5, <2>6, <2>7, <2>8, <2>9 DEF FileWriterStep, FileStep
  <1> QED
    BY <1>1, <1>2, <1>3, <1>4 DEF FileTypes

-----------------------------------------------------------------------------
(* The lock, and what its owner knows *)

\* Only TakeLock enters the section of the lock, and it needs the lock free.
LEMMA SerializedStep == ASSUME FileInv, NEW w \in Writer, FileWriterStep(w)
                        PROVE  Serialized'
  <1>0. TypeOK /\ FileTypes /\ Serialized /\ \A v \in Writer \ {w} : pc'[v] = pc[v]
    BY FileOthers DEF FileInv, FileTypes, OthersKept
  <1> DEFINE Stays == /\ InLock(w)' => InLock(w)
                      /\ fileLock' = fileLock
                      /\ InLock(w) => InLock(w)' \/ pc'[w] = "crashed"
                      /\ pc[w] # "crashed"
             Leaves == ~InLock(w)' /\ InLock(w) /\ fileLock' = FALSE
             Enters == ~fileLock /\ InLock(w)' /\ fileLock' = TRUE
  <1>1. Stays \/ Leaves \/ Enters
    <2> USE <1>0 DEF TypeOK, InLock, file, Goto, Answer
    <2>1. CASE FileBegin(w) \/ FileLocked(w) \/ DecodeFile(w) \/ StampFile(w)
      BY <2>1 DEF FileBegin, FileLocked, DecodeFile, StampFile, Stamp
    <2>2. CASE TakeLock(w)
      BY <2>2 DEF TakeLock
    <2>3. CASE RefuseFile(w) \/ RefuseFileEpoch(w)
      BY <2>3 DEF RefuseFile, RefuseFileEpoch, RefuseEpoch
    <2>4. CASE FileNeedsNoMark(w) \/ FillMark(w)
      BY <2>4 DEF FileNeedsNoMark, FillMark, LookInFile
    <2>5. CASE TruncateMark(w) \/ AppendLine(w) \/ ReturnLine(w)
      BY <2>5 DEF TruncateMark, AppendLine, ReturnLine
    <2>6. CASE RaiseInFile(w)
      <3>1. CASE pc[w] = "lock"
        BY <2>6, <3>1 DEF RaiseInFile
      <3>2. CASE pc[w] # "lock"
        BY <2>6, <3>2 DEF RaiseInFile
      <3> QED
        BY <3>1, <3>2
    <2>7. CASE CrashInFile(w)
      BY <2>7 DEF CrashInFile, Running
    <2> QED
      BY <2>1, <2>2, <2>3, <2>4, <2>5, <2>6, <2>7 DEF FileWriterStep, FileStep
  <1>2. \A v \in Writer \ {w} : InLock(v)' <=> InLock(v)
    BY <1>0 DEF InLock
  <1>3. CASE Stays
    BY <1>0, <1>2, <1>3 DEF Serialized
  <1>4. CASE Leaves
    BY <1>0, <1>2, <1>4 DEF Serialized
  <1>5. CASE Enters
    BY <1>0, <1>2, <1>5 DEF Serialized
  <1> QED
    BY <1>1, <1>3, <1>4, <1>5

\* What a writer in the lock has read stays the whole file: nobody else adds.
LEMMA ReadsAllStep == ASSUME FileInv, NEW w \in Writer, FileWriterStep(w)
                      PROVE  ReadsAll'
  <1>0. TypeOK /\ ReadsAll /\ Answers /\ OthersKept(w) /\ (lines' = lines \/ Adds(w))
    BY FileOthers DEF FileInv, FileTypes
  <1> DEFINE R(v) == /\ pc'[v] \in {"stamp", "mark", "fill", "write"} => snap'[v] = lines'
                     /\ pc'[v] = "write" => Find(snap'[v], Mine(v)') = {}
                     /\ pc'[v] = "unlock" =>
                           /\ past'[v] \subseteq snap'[v]
                           /\ Numbered(v, next[v])' \in lines'
                           /\ \A f \in snap'[v] : next'[v] > f.seq
  <1>1. ASSUME NEW v \in Writer, v # w PROVE R(v)
    <2>1. /\ pc'[v] = pc[v] /\ snap'[v] = snap[v] /\ Mine(v)' = Mine(v) /\ past'[v] = past[v]
          /\ next'[v] = next[v] /\ Numbered(v, next[v])' = Numbered(v, next[v])
      BY <1>0, <1>1 DEF OthersKept, Mine, Numbered
    <2>2. CASE lines' = lines
      BY <1>0, <2>1, <2>2 DEF ReadsAll
    <2>3. CASE Adds(w)
      <3>1. ~InLock(v)
        BY <1>1, <2>3 DEF FileInv, Serialized, InLock, Adds
      <3> QED
        BY <2>1, <3>1 DEF InLock
    <2> QED
      BY <1>0, <2>2, <2>3
  <1>2. R(w)
    <2> USE <1>0 DEF TypeOK, file, history, dir, Goto, Answer
    <2>1. CASE FileBegin(w) \/ TakeLock(w) \/ FileLocked(w) \/ RefuseFile(w)
      BY <2>1 DEF FileBegin, TakeLock, FileLocked, RefuseFile
    <2>2. CASE DecodeFile(w)
      BY <2>2 DEF DecodeFile
    <2>3. CASE StampFile(w) \/ RefuseFileEpoch(w)
      BY <2>3 DEF StampFile, Stamp, RefuseFileEpoch, RefuseEpoch, ReadsAll
    <2>4. CASE FileNeedsNoMark(w) \/ FillMark(w)
      <3>1. LookInFile(w) /\ pc[w] \in {"mark", "fill"}
            /\ UNCHANGED <<lines, call, snap, epoch, next, past>>
        BY <2>4 DEF FileNeedsNoMark, FillMark
      <3>2. Mine(w)' = Mine(w)
        BY <3>1 DEF Mine
      <3> QED
        BY <3>1, <3>2 DEF LookInFile, ReadsAll
    <2>5. CASE TruncateMark(w)
      BY <2>5 DEF TruncateMark, ReadsAll
    <2>6. CASE AppendLine(w)
      <3>1. PICK n \in NextSeq(w) : /\ lines' = lines \cup {Numbered(w, n)}
                                    /\ next' = [next EXCEPT ![w] = n]
        BY <2>6 DEF AppendLine
      <3>2. /\ pc[w] = "write" /\ pc'[w] = "unlock" /\ snap[w] = lines
            /\ UNCHANGED <<call, snap, epoch, past>>
        BY <2>6 DEF AppendLine, ReadsAll
      <3>3. next'[w] = n /\ Numbered(w, next[w])' = Numbered(w, n)
        BY <3>1, <3>2 DEF Numbered
      <3> QED
        BY <3>1, <3>2, <3>3 DEF Answers, NextSeq
    <2>7. CASE ReturnLine(w) \/ RaiseInFile(w) \/ CrashInFile(w)
      <3>1. pc'[w] \in {"appended", "refused", "raised", "crashed"}
        BY <2>7 DEF ReturnLine, RaiseInFile, CrashInFile
      <3> QED
        BY <3>1
    <2> QED
      BY <2>1, <2>2, <2>3, <2>4, <2>5, <2>6, <2>7 DEF FileWriterStep, FileStep
  <1> QED
    BY <1>1, <1>2 DEF ReadsAll

\* The epoch is stamped once, from the events read.
LEMMA StampsAboveStep == ASSUME FileInv, NEW w \in Writer, FileWriterStep(w)
                         PROVE  StampsAbove'
  <1>0. TypeOK /\ StampsAbove /\ OthersKept(w)
    BY FileOthers DEF FileInv, FileTypes
  <1> DEFINE A(v) == pc'[v] \in {"mark", "fill", "write", "unlock"} =>
                        \A f \in snap'[v] : epoch'[v] >= f.epoch
  <1>1. ASSUME NEW v \in Writer, v # w PROVE A(v)
    BY <1>0, <1>1 DEF OthersKept, StampsAbove
  <1>2. A(w)
    <2> USE <1>0 DEF TypeOK, file, history, dir, Goto, Answer
    <2>1. CASE FileBegin(w) \/ TakeLock(w) \/ FileLocked(w) \/ DecodeFile(w) \/ RefuseFile(w)
               \/ RefuseFileEpoch(w)
      BY <2>1 DEF FileBegin, TakeLock, FileLocked, DecodeFile, RefuseFile, RefuseFileEpoch,
                 RefuseEpoch
    <2>2. CASE StampFile(w)
      <3>1. Stamp(w) /\ snap' = snap
        BY <2>2 DEF StampFile, Stamp
      <3> QED
        BY <3>1, StampNotBelow
    <2>3. CASE FileNeedsNoMark(w) \/ FillMark(w)
      BY <2>3 DEF FileNeedsNoMark, FillMark, StampsAbove
    <2>4. CASE TruncateMark(w) \/ AppendLine(w)
      BY <2>4 DEF TruncateMark, AppendLine, StampsAbove
    <2>5. CASE ReturnLine(w) \/ RaiseInFile(w) \/ CrashInFile(w)
      BY <2>5 DEF ReturnLine, RaiseInFile, CrashInFile
    <2> QED
      BY <2>1, <2>2, <2>3, <2>4, <2>5 DEF FileWriterStep, FileStep
  <1> QED
    BY <1>1, <1>2 DEF StampsAbove

-----------------------------------------------------------------------------
(* What the file says, and what writers are told *)

\* A new line leaves the seqs without gap and the epochs in order.
LEMMA HistoryStep == ASSUME FileInv, NEW w \in Writer, FileWriterStep(w)
                     PROVE  ExactHistory' /\ FileLog!SingleOwner'
  <1>0. /\ ExactHistory /\ FileLog!SingleOwner
        /\ IsFiniteSet(lines) /\ lines \subseteq Event
        /\ lines' = lines \/ Adds(w)
    BY FileOthers DEF FileInv, FileTypes
  <1>1. CASE lines' = lines
    BY <1>0, <1>1 DEF ExactHistory, FileLog!SingleOwner, FileLog!Digest
  <1>2. CASE Adds(w)
    <2>1. PICK n \in NextSeq(w) : lines' = lines \cup {Numbered(w, n)}
      BY <1>2 DEF Adds
    <2> DEFINE e == Numbered(w, n)
    <2>2. /\ e \in Event /\ n \in Nat /\ n = Cardinality(lines) + 1
          /\ \A f \in lines : n > f.seq /\ epoch[w] >= f.epoch /\ DigestOf(f) # DigestOf(e)
      BY <1>2, NewLine DEF Adds
    <2>3. e.seq = n /\ e.epoch = epoch[w]
      BY DEF Numbered
    <2>4. \A f \in lines : f.seq \in Nat /\ f.seq # e.seq
      BY <1>0, <2>2, <2>3 DEF Event
    <2>5. Cardinality(lines') = n /\ Cardinality(lines) \in Nat
      <3>1. e \notin lines
        BY <2>4
      <3> QED
        BY <1>0, <2>1, <2>2, <3>1, FS_AddElement, FS_CardinalityType
    <2> HIDE DEF e
    <2>6. {f.seq : f \in lines'} = 1 .. Cardinality(lines')
      <3>1. {f.seq : f \in lines'} = {f.seq : f \in lines} \cup {n}
        BY <2>1, <2>3 DEF e
      <3>2. {f.seq : f \in lines} = 1 .. Cardinality(lines)
        BY <1>0 DEF ExactHistory
      <3>3. 1 .. n = (1 .. Cardinality(lines)) \cup {n}
        BY <2>2, <2>5
      <3> QED
        BY <2>5, <3>1, <3>2, <3>3
    <2>7. \A f, g \in lines' : f.seq < g.seq => f.epoch <= g.epoch
      <3>1. SUFFICES ASSUME NEW f \in lines', NEW g \in lines', f.seq < g.seq
                     PROVE  f.epoch <= g.epoch
        OBVIOUS
      <3>2. CASE f \in lines /\ g \in lines
        BY <1>0, <3>1, <3>2 DEF ExactHistory
      <3>3. CASE f \in lines /\ g = e
        <4>1. f.epoch \in Nat /\ e.epoch \in Nat /\ e.epoch >= f.epoch
          BY <1>0, <2>2, <2>3, <3>3, BoundsAssumption DEF Event, Epoch
        <4> QED
          BY <3>3, <4>1
      <3>4. CASE f = e
        <4>1. g.seq <= e.seq
          BY <2>1, <2>2, <2>3, <2>4 DEF e
        <4>2. g.seq \in Nat /\ e.seq \in Nat
          BY <2>1, <2>2, <2>3, <2>4 DEF e
        <4> QED
          BY <3>1, <3>4, <4>1, <4>2
      <3> QED
        BY <2>1, <3>2, <3>3, <3>4 DEF e
    <2>8. FileLog!SingleOwner'
      <3>1. \A f \in lines : f.seq # e.seq /\ FileLog!Digest(f) # FileLog!Digest(e)
        BY <2>2, <2>4 DEF FileLog!Digest, DigestOf
      <3>2. \A f, g \in lines : f.seq = g.seq \/ FileLog!Digest(f) = FileLog!Digest(g) => f = g
        BY <1>0 DEF FileLog!SingleOwner
      <3>3. lines' = lines \cup {e}
        BY <2>1 DEF e
      <3> QED
        BY <3>1, <3>2, <3>3 DEF FileLog!SingleOwner, FileLog!Digest
    <2> QED
      BY <2>6, <2>7, <2>8 DEF ExactHistory
  <1> QED
    BY <1>0, <1>1, <1>2

\* Writers are told events of the file, and later ones of them later events.
LEMMA AnswersStep == ASSUME FileInv, NEW w \in Writer, FileWriterStep(w)
                     PROVE  Answers' /\ LaterIsAfter'
  <1>0. /\ TypeOK /\ Answers /\ LaterIsAfter /\ ReadsAll /\ StampsAbove /\ OthersKept(w)
        /\ lines \subseteq lines'
    BY FileOthers DEF FileInv, FileTypes, Adds
  <1> DEFINE A(v) == /\ past'[v] \subseteq lines'
                     /\ answer'[v] \in lines' \cup {Nothing}
                     /\ pc'[v] \in {"idle", "lock"} \/ InLock(v)' => answer'[v] = Nothing
             L(v) == answer'[v] # Nothing =>
                        \A f \in past'[v] :
                            /\ answer'[v].epoch >= f.epoch
                            /\ pc'[v] = "appended" => answer'[v].seq > f.seq
  <1>1. ASSUME NEW v \in Writer, v # w PROVE A(v) /\ L(v)
    BY <1>0, <1>1 DEF OthersKept, Answers, LaterIsAfter, InLock
  <1>2. A(w) /\ L(w)
    <2> USE <1>0 DEF TypeOK, InLock, file, history, dir, Goto, Answer
    <2>1. CASE FileBegin(w)
      <3>1. Returned \subseteq lines
        BY DEF Returned, Answers
      <3> QED
        BY <2>1, <3>1 DEF FileBegin, Answers
    <2>2. CASE TakeLock(w) \/ FileLocked(w) \/ DecodeFile(w) \/ RefuseFile(w)
      BY <2>2 DEF TakeLock, FileLocked, DecodeFile, RefuseFile, Answers
    <2>3. CASE StampFile(w) \/ RefuseFileEpoch(w)
      BY <2>3 DEF StampFile, Stamp, RefuseFileEpoch, RefuseEpoch, Answers
    <2>4. CASE FileNeedsNoMark(w) \/ FillMark(w)
      <3>1. /\ LookInFile(w) /\ pc[w] \in {"mark", "fill"} /\ lines' = lines
            /\ UNCHANGED <<snap, epoch, past>>
        BY <2>4 DEF FileNeedsNoMark, FillMark
      <3>2. snap[w] = lines /\ past[w] \subseteq lines /\ answer[w] = Nothing
        BY <3>1 DEF ReadsAll, Answers
      <3>3. CASE Find(snap[w], Mine(w)) = {}
        BY <3>1, <3>2, <3>3 DEF LookInFile
      <3>4. CASE Find(snap[w], Mine(w)) # {}
        <4>1. PICK e \in Find(snap[w], Mine(w)) : Answer(w, "recorded", e)
          BY <3>1, <3>4 DEF LookInFile
        <4>2. e \in lines /\ e.epoch = epoch[w]
          BY <3>2, <4>1 DEF Find, DigestOf, Mine
        <4>3. \A f \in lines : epoch[w] >= f.epoch
          BY <3>1, <3>2 DEF StampsAbove
        <4> QED
          BY <3>1, <3>2, <4>1, <4>2, <4>3
      <3> QED
        BY <3>3, <3>4
    <2>5. CASE TruncateMark(w) \/ AppendLine(w)
      BY <2>5 DEF TruncateMark, AppendLine, Answers
    <2>6. CASE ReturnLine(w)
      <3> DEFINE e == Numbered(w, next[w])
      <3>1. /\ e \in lines /\ past[w] \subseteq snap[w]
            /\ \A f \in snap[w] : next[w] > f.seq /\ epoch[w] >= f.epoch
        BY <2>6 DEF ReturnLine, ReadsAll, StampsAbove
      <3>2. e.seq = next[w] /\ e.epoch = epoch[w]
        BY DEF Numbered
      <3>3. /\ answer' = [answer EXCEPT ![w] = e] /\ pc' = [pc EXCEPT ![w] = "appended"]
            /\ past' = past /\ lines' = lines
        BY <2>6 DEF ReturnLine
      <3> HIDE DEF e
      <3> QED
        BY <3>1, <3>2, <3>3 DEF Answers
    <2>7. CASE RaiseInFile(w) \/ CrashInFile(w)
      <3>1. /\ answer' = answer /\ past' = past /\ pc[w] \in Running
            /\ \E s \in {"refused", "raised", "crashed"} : pc' = [pc EXCEPT ![w] = s]
        BY <2>7 DEF RaiseInFile, CrashInFile, Running
      <3> QED
        BY <3>1 DEF Answers, LaterIsAfter
    <2> QED
      BY <2>1, <2>2, <2>3, <2>4, <2>5, <2>6, <2>7 DEF FileWriterStep, FileStep
  <1> QED
    BY <1>1, <1>2 DEF Answers, LaterIsAfter

-----------------------------------------------------------------------------
(* The invariant and what follows from it *)

\* No ledger yet, of either form.
LEMMA LedgerStart == LedgerInit => LedgerInv
  <1> SUFFICES ASSUME LedgerInit PROVE LedgerInv
    OBVIOUS
  <1>1. Init /\ kind \in {"dir", "file"} /\ FileIdle
    BY DEF LedgerInit, FileIdle
  <1>2. DirInv
    BY <1>1, DirInit
  <1>3. FileTypes /\ NoDirectory
    BY <1>1, <1>2, FS_EmptySet DEF FileTypes, DirInv, FileIdle, Tails, NoDirectory, Init
  <1>4. Serialized /\ ReadsAll /\ StampsAbove /\ Answers
    BY <1>1 DEF Init, FileIdle, Serialized, ReadsAll, StampsAbove, Answers, InLock
  <1>5. FileLog!SingleOwner /\ LaterIsAfter
    BY <1>1, <1>2 DEF FileIdle, FileLog!SingleOwner, DirInv
  <1>6. ExactHistory
    <2>1. lines = {} /\ Cardinality(lines) = 0
      BY <1>1, FS_EmptySet DEF FileIdle
    <2>2. {e.seq : e \in lines} = {} /\ 1 .. 0 = {}
      BY <2>1
    <2> QED
      BY <2>1, <2>2 DEF ExactHistory
  <1> QED
    BY <1>1, <1>2, <1>3, <1>4, <1>5, <1>6 DEF LedgerInv, FileInv

\* A step that changes no variable changes none of the parts.
LEMMA FileStutter == FileInv /\ UNCHANGED <<vars, file>> => FileInv'
  <1> SUFFICES ASSUME FileInv, UNCHANGED <<vars, file>> PROVE FileInv'
    OBVIOUS
  <1> USE DEF vars, dir, history, file, FileInv
  <1>1. FileTypes' /\ NoDirectory'
    BY DEF FileTypes, TypeOK, NoDirectory
  <1>2. Serialized' /\ StampsAbove' /\ Answers'
    BY DEF Serialized, InLock, StampsAbove, Answers
  <1>3. ReadsAll'
    BY DEF ReadsAll, Find, Mine, Numbered
  <1>4. FileLog!SingleOwner' /\ ExactHistory' /\ LaterIsAfter'
    BY DEF FileLog!SingleOwner, FileLog!Digest, ExactHistory, LaterIsAfter
  <1> QED
    BY <1>1, <1>2, <1>3, <1>4

\* Every step of a writer of the file form keeps all the parts.
LEMMA FileInvStep == ASSUME FileInv, NEW w \in Writer, FileWriterStep(w)
                     PROVE  FileInv'
  <1>1. FileTypes' /\ Serialized' /\ ReadsAll' /\ StampsAbove'
    BY FileTypesStep, SerializedStep, ReadsAllStep, StampsAboveStep
  <1>2. Answers' /\ LaterIsAfter' /\ ExactHistory' /\ FileLog!SingleOwner'
    BY AnswersStep, HistoryStep
  <1>3. NoDirectory'
    BY FileOthers DEF FileInv, FileTypes, NoDirectory
  <1> QED
    BY <1>1, <1>2, <1>3 DEF FileInv

\* A ledger keeps its form, and the invariant of that form.
LEMMA LedgerStep == LedgerInv /\ [LedgerNext]_ledgerVars => LedgerInv'
  <1> SUFFICES ASSUME LedgerInv, [LedgerNext]_ledgerVars PROVE LedgerInv'
    OBVIOUS
  <1>1. CASE kind = "dir" /\ DirInv /\ FileIdle
    <2>1. [Next]_vars /\ UNCHANGED <<file, kind>>
      BY <1>1 DEF LedgerNext, ledgerVars
    <2>2. DirInv'
      BY <1>1, <2>1, DirStep
    <2> QED
      BY <1>1, <2>1, <2>2 DEF LedgerInv, FileIdle, file
  <1>2. CASE kind = "file" /\ FileInv
    <2>1. CASE UNCHANGED ledgerVars
      <3>1. UNCHANGED <<vars, file>> /\ kind' = kind
        BY <2>1 DEF ledgerVars
      <3> QED
        BY <1>2, <3>1, FileStutter DEF LedgerInv
    <2>2. CASE LedgerNext
      <3>1. PICK w \in Writer : FileWriterStep(w)
        BY <1>2, <2>2 DEF LedgerNext, FileWriterStep
      <3>2. kind' = kind
        BY <1>2, <2>2 DEF LedgerNext
      <3> QED
        BY <1>2, <3>1, <3>2, FileInvStep DEF LedgerInv
    <2> QED
      BY <2>1, <2>2
  <1> QED
    BY <1>1, <1>2 DEF LedgerInv

\* The invariant holds in every reachable state.
THEOREM LedgerInvariant == LedgerSpec => []LedgerInv
  <1> QED
    BY LedgerStart, LedgerStep, PTL DEF LedgerSpec

\* The variables of writers, directory and marker keep their types.
THEOREM LedgerTypeCorrect == LedgerSpec => []TypeOK
  <1>1. LedgerInv => TypeOK
    BY DEF LedgerInv, DirInv, FileInv, FileTypes
  <1> QED
    BY <1>1, LedgerInvariant, PTL

\* append/3 respects the order of calls that do not overlap, in both forms.
THEOREM LedgerLaterIsAfter == LedgerSpec => []LaterIsAfter
  <1>1. LedgerInv => LaterIsAfter
    BY DEF LedgerInv, DirInv, FileInv
  <1> QED
    BY <1>1, LedgerInvariant, PTL

\* Nobody waits for an event that only a dead writer could publish, unless one died.
THEOREM LedgerLostOnlyByFailure == LedgerSpec => []LostOnlyByFailure
  <1>1. LedgerInv => LostOnlyByFailure
    <2>1. DirInv => LostOnlyByFailure
      BY DEF DirInv
    <2>2. FileInv => LostOnlyByFailure
      BY DEF FileInv, NoDirectory, LostOnlyByFailure
    <2> QED
      BY <2>1, <2>2 DEF LedgerInv
  <1> QED
    BY <1>1, LedgerInvariant, PTL

\* The file form numbers its events without gaps and in the order of epochs.
THEOREM FileLedgerExactHistory == LedgerSpec => []ExactHistory
  <1>1. FileIdle => ExactHistory
    <2>1. ASSUME FileIdle PROVE Cardinality(lines) = 0 /\ {e.seq : e \in lines} = 1 .. 0
      <3>1. Cardinality(lines) = 0 /\ lines = {}
        BY <2>1, FS_EmptySet DEF FileIdle
      <3>2. {e.seq : e \in lines} = {} /\ 1 .. 0 = {}
        BY <3>1
      <3> QED
        BY <3>1, <3>2
    <2> QED
      BY <2>1 DEF FileIdle, ExactHistory
  <1>2. LedgerInv => ExactHistory
    BY <1>1 DEF LedgerInv, FileInv
  <1> QED
    BY <1>2, LedgerInvariant, PTL

\* Writers of the file form serialize, and only a death leaves the lock behind.
THEOREM FileLedgerLockHasOwner == LedgerSpec => []LockHasOwner
  <1>1. LedgerInv => LockHasOwner
    BY DEF LedgerInv, FileInv, Serialized, LockHasOwner
  <1> QED
    BY <1>1, LedgerInvariant, PTL

\* The directory form implements the abstract log, next to the file form.
THEOREM LedgerRefines == LedgerSpec => ImplementsStandingLog
  <1>1. LedgerInit => Log!Init
    BY DEF LedgerInit, Init, Log!Init
  <1>2. LedgerInv /\ [LedgerNext]_ledgerVars => [Log!Append]_files
    <2> SUFFICES ASSUME LedgerInv, [LedgerNext]_ledgerVars PROVE [Log!Append]_files
      OBVIOUS
    <2>1. CASE UNCHANGED ledgerVars
      BY <2>1 DEF ledgerVars, vars, dir
    <2>2. CASE kind = "dir" /\ LedgerNext
      <3>1. DirInv /\ Next
        BY <2>2 DEF LedgerInv, LedgerNext
      <3>2. PICK w \in Writer : Begin(w) \/ AppendStep(w) \/ Raise(w) \/ Crash(w)
        BY <3>1 DEF Next
      <3>3. WriterStep(w)
        BY <3>2, Steps
      <3>4. CASE Publish(w)
        BY <3>1, <3>4, PublishedFresh DEF Log!Append, Log!Fresh, Log!Digest, DigestOf
      <3>5. CASE ~Publish(w)
        BY <3>3, <3>5, Growth DEF Grows
      <3> QED
        BY <3>4, <3>5
    <2>3. CASE kind = "file" /\ LedgerNext
      <3>1. PICK w \in Writer : FileWriterStep(w)
        BY <2>3 DEF LedgerNext, FileWriterStep
      <3>2. TypeOK
        BY <2>3 DEF LedgerInv, FileInv, FileTypes
      <3> QED
        BY <3>1, <3>2, FileOthers
    <2> QED
      BY <2>1, <2>2, <2>3 DEF LedgerInv
  <1> QED
    BY <1>1, <1>2, LedgerInvariant, PTL DEF LedgerSpec, ImplementsStandingLog, Log!Spec

\* The file form implements the abstract log, whatever writes are cut short.
THEOREM FileLedgerRefines == LedgerSpec => FileImplementsStandingLog
  <1>1. LedgerInit => FileLog!Init
    BY DEF LedgerInit, FileLog!Init
  <1>2. LedgerInv /\ [LedgerNext]_ledgerVars => [FileLog!Append]_lines
    <2> SUFFICES ASSUME LedgerInv, [LedgerNext]_ledgerVars, lines' # lines
                 PROVE  FileLog!Append
      OBVIOUS
    <2>1. kind = "file" /\ FileInv /\ LedgerNext
      BY DEF LedgerInv, LedgerNext, ledgerVars, file
    <2>2. PICK w \in Writer : FileWriterStep(w)
      BY <2>1 DEF LedgerNext, FileWriterStep
    <2>3. Adds(w)
      BY <2>1, <2>2, FileOthers DEF FileInv, FileTypes
    <2>4. PICK n \in NextSeq(w) : lines' = lines \cup {Numbered(w, n)}
      BY <2>3 DEF Adds
    <2> DEFINE e == Numbered(w, n)
    <2>5. \A f \in lines : f.seq # e.seq /\ FileLog!Digest(f) # FileLog!Digest(e)
      <3>1. \A f \in lines : n > f.seq /\ DigestOf(f) # DigestOf(e)
        BY <2>1, <2>3, NewLine DEF Adds
      <3>2. n \in Nat /\ \A f \in lines : f.seq \in Nat
        BY <2>1, <2>3, NewLine DEF Adds, FileInv, FileTypes, Event
      <3>3. e.seq = n
        BY DEF Numbered
      <3>4. \A f \in lines : f.seq # e.seq
        BY <3>1, <3>2, <3>3
      <3> QED
        BY <3>1, <3>4 DEF FileLog!Digest, DigestOf
    <2> QED
      BY <2>4, <2>5 DEF FileLog!Append, FileLog!Fresh
  <1> QED
    BY <1>1, <1>2, LedgerInvariant, PTL
       DEF LedgerSpec, FileImplementsStandingLog, FileLog!Spec
==============================================================================
