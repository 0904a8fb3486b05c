--------------------------- MODULE TransitionLog ---------------------------
(***************************************************************************)
(* The transition ledger in both its forms:                                *)
(* lib/ggen_igniter/semantic_jira/transition_log.ex, append/3.             *)
(*                                                                         *)
(* kind/1 tells the directory form, which DirLedger models, from the file  *)
(* form, one event per line under a lock.  The forms share the stamping of *)
(* the epoch and its marker, here as there; a writer of the file form does *)
(* all of it with the lock of the ledger and needs none for the marker.    *)
(***************************************************************************)
EXTENDS DirLedger

VARIABLES
    kind,      \* what kind/1 says of the ledger's path
    lines,     \* the events that stand whole in the file
    tail,      \* how the file ends: see Tails
    fileLock   \* the file <path>.lock exists

file == <<lines, tail, fileLock>>
ledgerVars == <<vars, kind, file>>

\* "line": every line is an event and ends.  "open": the last one does not end.
\* "torn": some line is not one event, because it was cut or continued.
Tails == {"line", "open", "torn"}

LedgerInit == Init /\ kind \in {"dir", "file"}
                   /\ lines = {} /\ tail = "line" /\ fileLock = FALSE

-----------------------------------------------------------------------------
(* append_file/3 under with_lock/3 *)

FileBegin(w) ==
    /\ pc[w] = "idle"
    /\ Goto(w, "lock")
    /\ past' = [past EXCEPT ![w] = Returned]
    /\ UNCHANGED <<dir, file, call, snap, epoch, next, answer, failures>>

\* Mutant: the lock file is opened without :exclusive.
TakeLockShared(w) ==
    /\ pc[w] = "lock"
    /\ fileLock' = TRUE
    /\ Goto(w, "list")
    /\ UNCHANGED <<dir, lines, tail, call, snap, epoch, next, answer, history>>

TakeLock(w) ==
    /\ pc[w] = "lock"
    /\ ~fileLock
    /\ fileLock' = TRUE
    /\ Goto(w, "list")
    /\ UNCHANGED <<dir, lines, tail, call, snap, epoch, next, answer, history>>

\* 500 attempts, 10 ms apart: {:error, {:ledger_locked, _}}.
FileLocked(w) ==
    /\ pc[w] = "lock"
    /\ fileLock
    /\ Goto(w, "refused")
    /\ UNCHANGED <<dir, file, call, snap, epoch, next, answer, history>>

\* decode_file/1.
DecodeFile(w) ==
    /\ pc[w] = "list"
    /\ tail # "torn"
    /\ snap' = [snap EXCEPT ![w] = lines]
    /\ Goto(w, "stamp")
    /\ UNCHANGED <<dir, file, call, epoch, next, answer, history>>

\* Mutant: the lock is removed only when the fun succeeds.
RefuseFileKeepsLock(w) ==
    /\ pc[w] = "list"
    /\ tail = "torn"
    /\ Goto(w, "refused")
    /\ UNCHANGED <<dir, file, call, snap, epoch, next, answer, history>>

\* {:error, {:ledger_refused, {:unreadable, _}}}.
RefuseFile(w) ==
    /\ pc[w] = "list"
    /\ tail = "torn"
    /\ fileLock' = FALSE
    /\ Goto(w, "refused")
    /\ UNCHANGED <<dir, lines, tail, call, snap, epoch, next, answer, history>>

StampFile(w) == Stamp(w) /\ UNCHANGED file

RefuseFileEpoch(w) ==
    /\ RefuseEpoch(w)
    /\ fileLock' = FALSE
    /\ UNCHANGED <<lines, tail>>

\* append_new_line/3: the event is in the file, or a line is to be appended.
LookInFile(w) ==
    IF Find(snap[w], Mine(w)) = {}
      THEN Goto(w, "write") /\ UNCHANGED <<answer, fileLock>>
      ELSE /\ \E e \in Find(snap[w], Mine(w)) : Answer(w, "recorded", e)
           /\ fileLock' = FALSE

FileNeedsNoMark(w) ==
    /\ pc[w] = "mark"
    /\ epoch[w] <= marker
    /\ LookInFile(w)
    /\ UNCHANGED <<dir, lines, tail, call, snap, epoch, next, history>>

\* bump_marker/3: its own comparison with the marker has the same outcome as
\* the one in stamp/4, both being made under the lock.
TruncateMark(w) ==
    /\ pc[w] = "mark"
    /\ epoch[w] > marker
    /\ marker' = 0
    /\ Goto(w, "fill")
    /\ UNCHANGED <<files, digestClaims, seqClaims, markerLock, file, call, snap, epoch,
                   next, answer, history>>

FillMark(w) ==
    /\ pc[w] = "fill"
    /\ marker' = epoch[w]
    /\ LookInFile(w)
    /\ UNCHANGED <<files, digestClaims, seqClaims, markerLock, lines, tail, call, snap,
                   epoch, next, history>>

-----------------------------------------------------------------------------
(* append_line/3 *)

\* One past the highest seq that was decoded.
NextSeq(w) == {n \in {1} \cup {e.seq + 1 : e \in snap[w]} : \A e \in snap[w] : n > e.seq}

Numbered(w, n) == [payload |-> call[w].payload, epoch |-> epoch[w], seq |-> n]

\* An event on an open last line makes one line of the two.
Continued == IF tail = "line" THEN "line" ELSE "torn"

AppendLine(w) ==
    /\ pc[w] = "write"
    /\ \E n \in NextSeq(w) :
          /\ lines' = lines \cup {Numbered(w, n)}
          /\ next' = [next EXCEPT ![w] = n]
    /\ tail' = Continued
    /\ Goto(w, "unlock")
    /\ UNCHANGED <<dir, fileLock, call, snap, epoch, answer, history>>

ReturnLine(w) ==
    /\ pc[w] = "unlock"
    /\ fileLock' = FALSE
    /\ Answer(w, "appended", Numbered(w, next[w]))
    /\ UNCHANGED <<dir, lines, tail, call, snap, epoch, next, history>>

\* File.write! of the line is cut short: inside the event, or before its newline.
CutLine(w) ==
    \/ tail' = "torn" /\ UNCHANGED lines
    \/ /\ tail' = IF tail = "line" THEN "open" ELSE "torn"
       /\ \E n \in NextSeq(w) : lines' = lines \cup {Numbered(w, n)}

\* The lock cannot be opened, or a File.write! raises, the line's or the
\* marker's: the caller gets the exception, and `after` removes the lock.
RaiseInFile(w) ==
    /\ \/ pc[w] = "write" /\ (CutLine(w) \/ UNCHANGED <<lines, tail>>)
       \/ /\ pc[w] \in {"lock", "fill"} \/ (pc[w] = "mark" /\ epoch[w] > marker)
          /\ UNCHANGED <<lines, tail>>
    /\ failures < MaxFailures
    /\ failures' = failures + 1
    /\ fileLock' = IF pc[w] = "lock" THEN fileLock ELSE FALSE
    /\ Goto(w, "raised")
    /\ UNCHANGED <<dir, call, snap, epoch, next, answer, past>>

\* The process is killed, or the machine fails: the lock stays.
CrashInFile(w) ==
    /\ pc[w] \in Running
    /\ failures < MaxFailures
    /\ failures' = failures + 1
    /\ (pc[w] = "write" /\ CutLine(w)) \/ UNCHANGED <<lines, tail>>
    /\ Goto(w, "crashed")
    /\ UNCHANGED <<dir, fileLock, call, snap, epoch, next, answer, past>>

-----------------------------------------------------------------------------

FileStep(w) ==
    \/ TakeLock(w) \/ FileLocked(w) \/ DecodeFile(w) \/ RefuseFile(w)
    \/ StampFile(w) \/ RefuseFileEpoch(w)
    \/ FileNeedsNoMark(w) \/ TruncateMark(w) \/ FillMark(w)
    \/ AppendLine(w) \/ ReturnLine(w)

\* append/3 goes by kind/1.
FormStep(w) ==
    \/ kind = "dir" /\ AppendStep(w) /\ UNCHANGED <<file, kind>>
    \/ kind = "file" /\ FileStep(w) /\ UNCHANGED kind

LedgerNext ==
    \/ kind = "dir" /\ Next /\ UNCHANGED <<file, kind>>
    \/ /\ kind = "file"
       /\ \E w \in Writer : FileBegin(w) \/ FileStep(w) \/ RaiseInFile(w) \/ CrashInFile(w)
       /\ UNCHANGED kind

\* A running writer is scheduled; nobody has to call append/3.
LedgerSpec ==
    LedgerInit /\ [][LedgerNext]_ledgerVars /\ \A w \in Writer : WF_ledgerVars(FormStep(w))

-----------------------------------------------------------------------------
(* Properties.  Those of DirLedger that speak of the writers, TypeOK,       *)
(* LaterIsAfter and AppendReturns, are checked of both forms.               *)

FileLog == INSTANCE StandingLog WITH log <- lines

\* The moduledoc's promise in the file form: whatever write is cut and whoever
\* dies, the bytes of the file only grow, by events whose digest and seq
\* nothing in the file has, readable or not.
FileImplementsStandingLog == FileLog!Spec

\* What the lock buys the file form over the directory form: seqs have no
\* gaps, and no epoch is below that of an event with a lower seq, although the
\* marker that says so may be lost.
ExactHistory ==
    /\ {e.seq : e \in lines} = 1 .. Cardinality(lines)
    /\ \A e, f \in lines : e.seq < f.seq => e.epoch <= f.epoch

\* Writers serialize, and every way out of append/3 gives the lock back, the
\* refusals and the failed writes too: one without an owner is a dead process's.
InLock(w) == pc[w] \in {"list", "stamp", "mark", "fill", "write", "unlock"}
LockHasOwner ==
    kind = "file" =>
        /\ \A v, w \in Writer : InLock(v) /\ InLock(w) => v = w
        /\ \A w \in Writer : InLock(w) => fileLock
        /\ fileLock => \E w \in Writer : InLock(w) \/ pc[w] = "crashed"

=============================================================================
