----------------------- MODULE ReconcileContractProofs -----------------------
(***************************************************************************)
(* A failed run leaves the project as it found it, and the pipeline        *)
(* implements its contract: one commit of the whole request, or nothing.   *)
(*                                                                         *)
(* Restoration is a ledger of damage: until the revert is over, a path     *)
(* that is not as the run found it has its pre-image tracked, or is among  *)
(* the exceptions (a revert that failed, a torn injection, what hooks and  *)
(* evaluated code changed).  The contract adds what an item that ended     *)
(* well left at its path, and that what a run leaves elsewhere is debris   *)
(* of its own targets.                                                     *)
(***************************************************************************)
EXTENDS ReconcileReactorProofs

Acting == {"actuate", "verify", "finalize", "revert", "report"}

NothingTracked ==
    phase \in {"idle", "plan", "report"} => \A p \in Path : tracked[p] = Untracked

PlanTouchesNothing == phase = "plan" => disk = before

\* What admission ensured: no two items write one path.
OneItemPerPath ==
    phase = "actuate" =>
        \A i, j \in WriteItems(req) : T(i).path = T(j).path => i = j

\* An item that has not run yet will find its path as the run found it.
PendingUntouched ==
    phase = "actuate" =>
        \A i \in WriteItems(req) :
            outcome[i] = "pending" =>
                T(i).path \in touched \/ disk[T(i).path] = before[T(i).path]

\* Only an admitted request of an applying run that has hooks or code to
\* evaluate touches anything with them.
CodeTouches ==
    touched # {} =>
        /\ phase \notin {"idle", "plan"} /\ cause # "refused"
        /\ Applied /\ \E i \in Items : RunsCode(T(i))

Accounted(p) ==
    \/ disk[p] = before[p]
    \/ tracked[p] = before[p]
    \/ p \in lost
    \/ p \in touched
    \/ p \in TornTargets /\ disk[p] = Rendered(Torn)

DamageAccounted ==
    phase \in Acting =>
        \A p \in Path :
            Accounted(p) /\ (p \in touched \/ tracked[p] \in {before[p], Untracked})

RestoreInv ==
    /\ TypeInv
    /\ NothingTracked
    /\ PlanTouchesNothing
    /\ OneItemPerPath
    /\ PendingUntouched
    /\ CodeTouches
    /\ DamageAccounted

-----------------------------------------------------------------------------

\* Before the first run nothing is damaged and nothing tracked.
LEMMA RestoreInit == Init => RestoreInv
  <1> SUFFICES ASSUME Init PROVE RestoreInv
    OBVIOUS
  <1>1. TypeInv
    BY TypeInit
  <1>2. phase = "idle" /\ touched = {} /\ \A p \in Path : tracked[p] = Untracked
    BY DEF Init
  <1> QED
    BY <1>1, <1>2 DEF RestoreInv, NothingTracked, PlanTouchesNothing, OneItemPerPath,
                      PendingUntouched, CodeTouches, DamageAccounted, Acting

\* The end of a run keeps the invariant: nothing is tracked any more.
LEMMA RestoreEnd ==
    ASSUME TypeInv', NEW res, End(res)
    PROVE  RestoreInv'
  <1>1. phase' = "idle" /\ touched' = {} /\ \A p \in Path : tracked'[p] = Untracked
    BY DEF End
  <1> QED
    BY <1>1 DEF RestoreInv, NothingTracked, PlanTouchesNothing, OneItemPerPath,
                PendingUntouched, CodeTouches, DamageAccounted, Acting

\* A change of phase alone, after actuation, keeps it too.
LEMMA RestorePhase ==
    ASSUME RestoreInv, TypeInv',
           phase \in Acting, phase' \notin {"idle", "plan", "actuate"},
           phase' = "report" => \A p \in Path : tracked[p] = Untracked,
           cause' # "refused",
           UNCHANGED <<disk, req, before, outcome, tracked, lost, touched>>
    PROVE  RestoreInv'
  <1>1. NothingTracked' /\ PlanTouchesNothing' /\ OneItemPerPath' /\ PendingUntouched'
    <2>1. NothingTracked'
      BY DEF NothingTracked, RestoreInv
    <2> QED
      BY <2>1 DEF PlanTouchesNothing, OneItemPerPath, PendingUntouched
  <1>2. TornTargets' = TornTargets
    BY DEF TornTargets, T
  <1>3. DamageAccounted'
    BY <1>2 DEF RestoreInv, DamageAccounted, Accounted
  <1>4. CodeTouches'
    BY DEF RestoreInv, CodeTouches, Applied, T, Items
  <1> QED
    BY <1>1, <1>3, <1>4 DEF RestoreInv

\* Settling a pending item forgets no torn target.
LEMMA TornGrows ==
    ASSUME TypeInv, NEW i \in DOMAIN outcome, NEW o \in Outcome \ {"pending"},
           Ready(i), Settle(i, o)
    PROVE  /\ TornTargets \subseteq TornTargets'
           /\ o = "failed" /\ T(i).op = "inject" => T(i).path \in TornTargets'
           /\ \A j \in DOMAIN outcome :
                 outcome'[j] = "pending" => outcome[j] = "pending" /\ j # i
  <1>1. phase = "actuate" /\ outcome \in [Items -> Outcome]
    BY DEF Ready, TypeInv, TypeOK, RefusedReports
  <1>2. req' = req
    BY DEF Settle
  <1>3. TornTargets \subseteq TornTargets'
    BY <1>1, <1>2 DEF TornTargets, T, Ready, Settle
  <1>4. o = "failed" /\ T(i).op = "inject" => T(i).path \in TornTargets'
    BY <1>1, <1>2 DEF TornTargets, T, Settle
  <1> QED
    BY <1>1, <1>3, <1>4 DEF Settle

\* Whatever one item does to its path, in whatever order items end, the damage is accounted for.
LEMMA RestoreActuate ==
    ASSUME RestoreInv, TypeInv', NEW i \in DOMAIN outcome, Actuate(i)
    PROVE  RestoreInv'
  <1>1. Ready(i) /\ phase = "actuate" /\ req \in Request /\ i \in Items
        /\ outcome \in [Items -> Outcome]
    <2>1. Ready(i)
      BY DEF Actuate, Skip, FindUnchanged, Preview, Write, WriteThenHookFails,
             FindInjected, NoAnchor, Tear, ItemFails, Evaluate
    <2> QED
      BY <2>1 DEF Ready, RestoreInv, TypeInv, TypeOK, RefusedReports
  <1>2. PICK o \in Outcome \ {"pending"} : Settle(i, o) /\ (Tear(i) => o = "failed")
    BY DEF Actuate, Skip, FindUnchanged, Preview, Write, WriteThenHookFails,
           FindInjected, NoAnchor, Tear, ItemFails, Evaluate, DoneWord, Outcome
  <1>3. /\ UNCHANGED <<phase, req, before, lost, touched, cause>>
        /\ \A j \in DOMAIN outcome :
              outcome'[j] = "pending" => outcome[j] = "pending" /\ j # i
        /\ DOMAIN outcome' = DOMAIN outcome
    BY <1>1, <1>2 DEF Settle
  <1>4. TornTargets \subseteq TornTargets'
        /\ (o = "failed" /\ T(i).op = "inject" => T(i).path \in TornTargets')
    BY <1>1, <1>2, TornGrows DEF RestoreInv
  <1>5. NothingTracked' /\ PlanTouchesNothing'
    BY <1>1, <1>3 DEF NothingTracked, PlanTouchesNothing
  <1>6. OneItemPerPath' /\ CodeTouches'
    <2>1. OneItemPerPath'
      BY <1>1, <1>3 DEF OneItemPerPath, RestoreInv, WriteItems, T
    <2>2. CodeTouches'
      BY <1>3 DEF RestoreInv, CodeTouches, Applied, T, Items
    <2> QED
      BY <2>1, <2>2
  <1>7. CASE UNCHANGED <<disk, tracked>>
    <2>1. PendingUntouched'
      BY <1>1, <1>3, <1>7 DEF PendingUntouched, RestoreInv, WriteItems, T, Items
    <2>2. DamageAccounted'
      BY <1>1, <1>3, <1>4, <1>7 DEF DamageAccounted, Accounted, RestoreInv, Acting
    <2> QED
      BY <1>5, <1>6, <2>1, <2>2 DEF RestoreInv
  <1>8. ASSUME NEW c \in Content,
               T(i).op \in {"file", "inject"},
               \/ Put(T(i).path, c) /\ Track(T(i).path)
               \/ UNCHANGED disk /\ Track(T(i).path)
               \/ T(i).op = "inject" /\ o = "failed" /\ c = Rendered(Torn)
                    /\ Put(T(i).path, c) /\ UNCHANGED tracked
        PROVE  RestoreInv'
    <2> DEFINE p == T(i).path
    <2>1. p \in Path /\ i \in WriteItems(req)
      BY <1>1, <1>8, RequestType DEF T, Items, WriteItems
    <2>2. p \in touched \/ disk[p] = before[p]
      BY <1>1, <2>1 DEF RestoreInv, PendingUntouched, Ready
    <2>3. ASSUME NEW q \in Path, q # p
          PROVE  disk'[q] = disk[q] /\ tracked'[q] = tracked[q]
      BY <1>8, <2>1, <2>3 DEF Put, Track, RestoreInv, TypeInv, TypeOK
    <2>4. \/ p \in touched'
          \/ tracked'[p] = before'[p]
          \/ /\ tracked'[p] = tracked[p]
             /\ p \in TornTargets' /\ disk'[p] = Rendered(Torn)
      BY <1>3, <1>4, <1>8, <2>1, <2>2 DEF Put, Track, RestoreInv, TypeInv, TypeOK
    <2>5. PendingUntouched'
      <3>1. ASSUME NEW j \in WriteItems(req), outcome'[j] = "pending"
            PROVE  T(j).path \in touched \/ disk'[T(j).path] = before[T(j).path]
        <4>1. j \in Items /\ j # i /\ outcome[j] = "pending"
          BY <1>1, <1>3, <3>1 DEF WriteItems, Items
        <4>2. T(j).path # p /\ T(j).path \in Path
          BY <1>1, <2>1, <3>1, <4>1, RequestType
             DEF RestoreInv, OneItemPerPath, WriteItems, T, Items
        <4>3. disk'[T(j).path] = disk[T(j).path]
          BY <2>3, <4>2
        <4> QED
          BY <1>1, <3>1, <4>1, <4>3 DEF RestoreInv, PendingUntouched
      <3> QED
        BY <1>3, <3>1 DEF PendingUntouched, T
    <2>6. DamageAccounted'
      <3>1. \A q \in Path :
               Accounted(q) /\ (q \in touched \/ tracked[q] \in {before[q], Untracked})
        BY <1>1 DEF RestoreInv, DamageAccounted, Acting
      <3>2. ASSUME NEW q \in Path
            PROVE  Accounted(q)' /\ (q \in touched' \/ tracked'[q] \in {before'[q], Untracked})
        <4>1. CASE q = p
          BY <1>3, <2>1, <2>4, <3>1, <4>1 DEF Accounted
        <4>2. CASE q # p
          BY <1>3, <1>4, <2>3, <3>1, <4>2 DEF Accounted
        <4> QED
          BY <4>1, <4>2
      <3> QED
        BY <3>2 DEF DamageAccounted
    <2> QED
      BY <1>5, <1>6, <2>5, <2>6 DEF RestoreInv
  <1>9. CASE Write(i) \/ WriteThenHookFails(i)
    <2>1. Desired(i) \in Content
      BY <1>1, <1>9, DesiredType DEF Write, WriteThenHookFails, RestoreInv, TypeInv
    <2>2. T(i).op \in {"file", "inject"}
      BY <1>9 DEF Write, WriteThenHookFails, MustWrite, Splices
    <2> QED
      BY <1>8, <1>9, <2>1, <2>2 DEF Write, WriteThenHookFails
  <1>10. CASE Tear(i)
    <2>1. Rendered(Torn) \in Content
      BY RenderedType
    <2> QED
      BY <1>2, <1>8, <1>10, <2>1 DEF Tear, Splices
  <1>11. CASE FindUnchanged(i) /\ Track(T(i).path)
    <2>1. Rendered(Torn) \in Content
      BY RenderedType
    <2> QED
      BY <1>8, <1>11, <2>1 DEF FindUnchanged
  <1> QED
    BY <1>7, <1>9, <1>10, <1>11
       DEF Actuate, Skip, FindUnchanged, Preview, FindInjected, NoAnchor, ItemFails,
           Evaluate

\* One path handled by the revert: its pre-image is back, or it is lost.
LEMMA RestoreRevert ==
    ASSUME RestoreInv, TypeInv', NEW p \in Path, RevertOne(p) \/ RevertFails(p)
    PROVE  RestoreInv'
  <1>1. /\ phase = "revert" /\ phase' = "revert"
        /\ UNCHANGED <<req, before, outcome, touched, cause>>
        /\ lost \subseteq lost'
    BY DEF RevertOne, RevertFails
  <1>2. TornTargets' = TornTargets
    BY <1>1 DEF TornTargets, T
  <1>3. p \in touched \/ tracked[p] = before[p]
    BY <1>1 DEF RevertOne, RevertFails, ToRevert, RestoreInv, DamageAccounted, Acting
  <1>4. tracked'[p] = Untracked /\ (disk'[p] = before[p] \/ p \in lost' \/ p \in touched)
    BY <1>3 DEF RevertOne, RevertFails, Put, RestoreInv, TypeInv, TypeOK
  <1>5. ASSUME NEW q \in Path, q # p
        PROVE  disk'[q] = disk[q] /\ tracked'[q] = tracked[q]
    BY <1>5 DEF RevertOne, RevertFails, Put, RestoreInv, TypeInv, TypeOK
  <1>6. DamageAccounted'
    <2>1. \A q \in Path :
             Accounted(q) /\ (q \in touched \/ tracked[q] \in {before[q], Untracked})
      BY <1>1 DEF RestoreInv, DamageAccounted, Acting
    <2>2. ASSUME NEW q \in Path
          PROVE  Accounted(q)' /\ (q \in touched' \/ tracked'[q] \in {before'[q], Untracked})
      BY <1>1, <1>2, <1>4, <1>5, <2>1 DEF Accounted
    <2> QED
      BY <2>2 DEF DamageAccounted
  <1>7. CodeTouches'
    BY <1>1 DEF RestoreInv, CodeTouches, Applied, T, Items
  <1> QED
    BY <1>1, <1>6, <1>7 DEF RestoreInv, NothingTracked, PlanTouchesNothing, OneItemPerPath,
                            PendingUntouched

\* A hook or evaluated code adds its file to what is accounted for.
LEMMA RestoreTouch ==
    ASSUME RestoreInv, TypeInv', NEW i \in DOMAIN outcome, NEW p \in Path, SideEffects(i, p)
    PROVE  RestoreInv'
  <1>1. /\ phase \in {"actuate", "revert", "report"} /\ req \in Request
        /\ cause # "refused" /\ Applied /\ i \in Items /\ RunsCode(T(i))
        /\ UNCHANGED <<phase, req, before, outcome, tracked, lost, cause>>
        /\ touched' = touched \cup {p}
        /\ \A q \in Path : q # p => disk'[q] = disk[q]
    BY SideEffectsFrame DEF RestoreInv
  <1>2. TornTargets' = TornTargets /\ UNCHANGED <<Items, Applied>> /\ \A j : T(j)' = T(j)
    BY <1>1 DEF TornTargets, T, Items, Applied
  <1>3. NothingTracked' /\ PlanTouchesNothing' /\ OneItemPerPath'
    BY <1>1, <1>2 DEF RestoreInv, NothingTracked, PlanTouchesNothing, OneItemPerPath
  <1>4. PendingUntouched'
    <2>1. ASSUME NEW j \in WriteItems(req) PROVE T(j).path \in Path
      BY <1>1, RequestType DEF WriteItems, T
    <2> QED
      BY <1>1, <1>2, <2>1 DEF RestoreInv, PendingUntouched
  <1>5. CodeTouches'
    BY <1>1, <1>2 DEF CodeTouches
  <1>6. DamageAccounted'
    <2>1. \A q \in Path :
             Accounted(q) /\ (q \in touched \/ tracked[q] \in {before[q], Untracked})
      BY <1>1 DEF RestoreInv, DamageAccounted, Acting
    <2>2. ASSUME NEW q \in Path
          PROVE  Accounted(q)' /\ (q \in touched' \/ tracked'[q] \in {before'[q], Untracked})
      BY <1>1, <1>2, <2>1 DEF Accounted
    <2> QED
      BY <2>2 DEF DamageAccounted
  <1> QED
    BY <1>3, <1>4, <1>5, <1>6 DEF RestoreInv

\* Every step of a run, a crash and a user edit keep the damage accounted for.
LEMMA RestoreStep == RestoreInv /\ [Next]_vars => RestoreInv'
  <1> SUFFICES ASSUME RestoreInv, [Next]_vars PROVE RestoreInv'
    OBVIOUS
  <1>0. TypeInv'
    BY TypeStep DEF RestoreInv
  <1>1. ASSUME NEW r \in Request, Begin(r) PROVE RestoreInv'
    BY <1>0, <1>1 DEF Begin, durable, RestoreInv, NothingTracked, PlanTouchesNothing,
                      OneItemPerPath, PendingUntouched, CodeTouches, DamageAccounted, Acting
  <1>2. CASE PlanFails \/ Refuse
    <2>1. /\ phase = "plan" /\ phase' = "report"
          /\ UNCHANGED <<disk, before, tracked, touched>>
      BY <1>2 DEF PlanFails, Refuse, durable
    <2>2. \A p \in Path : disk'[p] = before'[p] /\ tracked'[p] = Untracked
      BY <2>1 DEF RestoreInv, NothingTracked, PlanTouchesNothing
    <2> QED
      BY <1>0, <2>1, <2>2 DEF RestoreInv, NothingTracked, PlanTouchesNothing,
         OneItemPerPath, PendingUntouched, CodeTouches, DamageAccounted, Accounted
  <1>3. CASE Admit
    <2>1. /\ phase = "plan" /\ phase' = "actuate"
          /\ UNCHANGED <<disk, before, tracked, touched, req>>
          /\ Admissible(req, observed)
      BY <1>3 DEF Admit, durable
    <2>2. \A p \in Path : disk'[p] = before'[p] /\ tracked'[p] = Untracked
      BY <2>1 DEF RestoreInv, NothingTracked, PlanTouchesNothing
    <2>3. OneItemPerPath'
      BY <2>1 DEF Admissible, OneItemPerPath, T
    <2>4. PendingUntouched'
      BY <2>1 DEF PendingUntouched, RestoreInv, PlanTouchesNothing
    <2> QED
      BY <1>0, <2>1, <2>2, <2>3, <2>4
         DEF RestoreInv, NothingTracked, PlanTouchesNothing, CodeTouches, DamageAccounted,
             Accounted
  <1>4. CASE \E i \in DOMAIN outcome : Actuate(i)
    BY <1>0, <1>4, RestoreActuate
  <1>5. CASE \/ ActuateDone \/ VerifyPasses \/ CompileFails \/ VerifyRaises
             \/ FinalizeFails \/ AppendFails
    <2>1. cause # "refused"
      BY <1>5 DEF ActuateDone, VerifyPasses, CompileFails, VerifyRaises, FinalizeFails,
                  AppendFails, RestoreInv, TypeInv, RefusedReports
    <2> QED
      BY <1>0, <1>5, <2>1, RestorePhase
       DEF ActuateDone, VerifyPasses, CompileFails, VerifyRaises, FinalizeFails,
           AppendFails, GoOn, FailWith, durable, volatile, Acting
  <1>6. CASE AppendAlive
    BY <1>0, <1>6, RestorePhase
       DEF AppendAlive, volatile, Acting, RestoreInv, TypeInv, RefusedReports
  <1>7. CASE Promote \/ PromotePending
    <2>1. phase' = "prune" /\ UNCHANGED <<req, touched, cause>>
      BY <1>7 DEF Promote, PromotePending, GoOn, volatile
    <2> QED
      BY <1>0, <2>1 DEF RestoreInv, NothingTracked, PlanTouchesNothing,
         OneItemPerPath, PendingUntouched, CodeTouches, DamageAccounted, Acting, Applied, T, Items
  <1>8. ASSUME NEW p \in Path, PruneOne(p) PROVE RestoreInv'
    <2>1. phase' = "prune" /\ UNCHANGED <<req, touched, cause>>
      BY <1>8 DEF PruneOne, Prunes
    <2> QED
      BY <1>0, <2>1 DEF RestoreInv, NothingTracked, PlanTouchesNothing,
         OneItemPerPath, PendingUntouched, CodeTouches, DamageAccounted, Acting, Applied, T, Items
  <1>9. ASSUME NEW p \in Path, RevertOne(p) \/ RevertFails(p) PROVE RestoreInv'
    BY <1>0, <1>9, RestoreRevert
  <1>10. CASE RevertDone
    <2>1. \A p \in Path : tracked[p] = Untracked
      BY <1>10 DEF RevertDone, ToRevert
    <2> QED
      BY <1>0, <1>10, <2>1, RestorePhase
         DEF RevertDone, GoOn, durable, volatile, Acting, RestoreInv, TypeInv, RefusedReports
  <1>11. CASE FinishDry \/ PruneFails \/ Return \/ ReportRaises \/ Report \/ Crash
    BY <1>0, <1>11, RestoreEnd
       DEF FinishDry, PruneFails, Return, ReportRaises, Report, Crash
  <1>12. ASSUME NEW p \in Path, UserEdit(p) PROVE RestoreInv'
    BY <1>0, <1>12 DEF UserEdit, volatile, RestoreInv, NothingTracked,
       PlanTouchesNothing, OneItemPerPath, PendingUntouched, CodeTouches, DamageAccounted,
       Acting
  <1>13. CASE UNCHANGED vars
    <2>1. TornTargets' = TornTargets
      BY <1>13 DEF vars, volatile, TornTargets, T
    <2> QED
      BY <1>0, <1>13, <2>1
         DEF vars, durable, volatile, RestoreInv, NothingTracked, PlanTouchesNothing,
             OneItemPerPath, PendingUntouched, CodeTouches, DamageAccounted, Accounted, T,
             Applied, Items
  <1>14. ASSUME NEW i \in DOMAIN outcome, NEW p \in Path, SideEffects(i, p) PROVE RestoreInv'
    BY <1>0, <1>14, RestoreTouch
  <1> QED
    BY <1>1, <1>2, <1>3, <1>4, <1>5, <1>6, <1>7, <1>8, <1>9, <1>10, <1>11, <1>12, <1>13, <1>14
       DEF Next, RunStep

\* The damage is accounted for in every reachable state.
LEMMA RestoreHolds == Spec => []RestoreInv
  <1> QED
    BY RestoreInit, RestoreStep, PTL DEF Spec

\* A :refused, :compensated or :build_broken receipt tells the truth: every file is
\* as the run found it, but for a torn injection and for what the hooks and the
\* evaluated code of an admitted request that has some changed.
THEOREM ReconcileRestored == Spec => []RestoredOnFailure
  <1>1. RestoreInv => RestoredOnFailure
    <2> DEFINE CodeRan == cause # "refused" /\ \E i \in Items : RunsCode(T(i))
    <2>1. ASSUME RestoreInv, phase = "report",
                 FailureStanding # "compensation_failed", NEW p \in Path
          PROVE  \/ disk[p] = before[p]
                 \/ p \in TornTargets /\ disk[p] = Rendered(Torn)
                 \/ p \in touched /\ CodeRan
      <3>1. lost = {}
        BY <2>1 DEF FailureStanding
      <3>2. tracked[p] = Untracked /\ Accounted(p)
        BY <2>1 DEF RestoreInv, NothingTracked, DamageAccounted, Acting
      <3>3. before[p] # Untracked
        BY <2>1, FreshAssumption DEF RestoreInv, TypeInv, TypeOK
      <3> QED
        BY <2>1, <3>1, <3>2, <3>3 DEF Accounted, RestoreInv, CodeTouches
    <2> HIDE DEF CodeRan
    <2>2. RestoreInv => (phase = "report" /\ FailureStanding # "compensation_failed" =>
             \A p \in Path :
                \/ disk[p] = before[p]
                \/ p \in TornTargets /\ disk[p] = Rendered(Torn)
                \/ p \in touched /\ CodeRan)
      BY <2>1
    <2> QED
      BY <2>2 DEF RestoredOnFailure, CodeRan
  <1> QED
    BY <1>1, RestoreHolds, PTL


-----------------------------------------------------------------------------
(* The contract *)

\* An item that has ended well left Fulfilled at its path, in a dry run nothing,
\* unless the path was touched.
EndedWell(i) == outcome[i] \notin {"pending", "failed", "hook_failed"}

Carried(i) ==
    LET s == before[T(i).path]
    IN  /\ T(i).op = "file" => outcome[i] \in {"written", "unchanged", "skipped"}
        /\ T(i).path \notin touched =>
              /\ disk[T(i).path] = IF Applied THEN Contract!Fulfilled(T(i), s) ELSE s
              /\ T(i).op = "file" =>
                    (outcome[i] = "skipped" <=> Contract!LeavesAlone(T(i), s))
              /\ T(i).op = "inject" => s # Absent /\ s.base \in Slotted

Forward == {"actuate", "verify", "finalize"}

ItemsCarried ==
    phase \in Forward => \A i \in WriteItems(req) : EndedWell(i) => Carried(i)

\* What a path may hold that is not what the run found there.
DebrisAt(p) ==
    \/ disk[p] = before[p]
    \/ p \in touched
    \/ /\ Applied
       /\ \E i \in WriteItems(req) :
             /\ T(i).path = p
             /\ disk[p] \in {Rendered(Torn), Contract!Fulfilled(T(i), before[p])}

OnlyDebris == phase \notin {"idle", "promote", "prune"} => \A p \in Path : DebrisAt(p)

TrackedIsTarget ==
    \A p \in Path : tracked[p] # Untracked => \E i \in WriteItems(req) : T(i).path = p

PlanStands ==
    /\ phase \in Admitted \/ outcome # <<>> => Admissible(req, observed)
    /\ phase \in Forward \cup {"promote"} => stale = StalePaths(req, observed)
    /\ phase \notin {"idle", "prune"} => observed = manifest

FailureStands ==
    /\ cause = "compile" => \A i \in Items : outcome[i] # "failed"
    /\ cause # "none" => phase \in {"revert", "report"}
    /\ lost # {} => phase # "idle" /\ Applied

ContractInv ==
    /\ OutcomeInv
    /\ RestoreInv
    /\ ItemsCarried
    /\ OnlyDebris
    /\ phase # "idle" => TrackedIsTarget
    /\ PlanStands
    /\ FailureStands

-----------------------------------------------------------------------------

\* What a write or a splice puts at its path is what the contract asks for.
LEMMA DesiredIsFulfilled ==
    ASSUME NEW i, MustWrite(i) \/ Splices(i)
    PROVE  /\ Desired(i) = Contract!Fulfilled(T(i), disk[T(i).path])
           /\ ~Contract!LeavesAlone(T(i), disk[T(i).path])
  BY DEF MustWrite, Splices, Skips, Desired, Contract!Fulfilled, Contract!LeavesAlone,
         Rendered, Contract!Rendered

\* A content that holds the snippet already is as the contract asks.
LEMMA FoundIsFulfilled ==
    ASSUME NEW c \in Content, NEW t, t.op = "inject", t.frag \in c.frags
    PROVE  Contract!Fulfilled(t, c) = c
  <1>1. c.frags \cup {t.frag} = c.frags
    OBVIOUS
  <1>2. [c EXCEPT !.frags = @ \cup {t.frag}] = c
    BY <1>1 DEF Content
  <1> QED
    BY <1>2 DEF Contract!Fulfilled, Contract!LeavesAlone

\* The kinds of item: how each leaves its path, its pre-image and its outcome.
LEMMA ItemKinds ==
    ASSUME TypeOK, req \in Request, NEW i \in Items, Actuate(i), outcome \in [Items -> Outcome]
    PROVE  LET s == disk[T(i).path]
           IN  \/ /\ UNCHANGED <<disk, tracked>>
                  /\ outcome'[i] = "failed"
               \/ /\ T(i).op = "eval"
                  /\ UNCHANGED <<disk, tracked>>
                  /\ outcome'[i] \in Outcome \ {"pending"}
               \/ /\ T(i).op = "file"
                  /\ disk' = disk
                  /\ IF outcome'[i] = "skipped" THEN Contract!LeavesAlone(T(i), s)
                     ELSE /\ outcome'[i] \in {"written", "unchanged"}
                          /\ ~Contract!LeavesAlone(T(i), s)
                  /\ Applied => s = Contract!Fulfilled(T(i), s)
                  /\ tracked' = tracked \/ Track(T(i).path)
               \/ /\ T(i).op = "inject"
                  /\ UNCHANGED <<disk, tracked>>
                  /\ s # Absent /\ s.base \in Slotted
                  /\ outcome'[i] \in {"injected", "unchanged"}
                  /\ Applied => s = Contract!Fulfilled(T(i), s)
               \/ /\ T(i).op \in {"file", "inject"}
                  /\ Applied
                  /\ Put(T(i).path, Contract!Fulfilled(T(i), s))
                  /\ Track(T(i).path)
                  /\ T(i).op = "file" => ~Contract!LeavesAlone(T(i), s)
                  /\ T(i).op = "inject" => s # Absent /\ s.base \in Slotted
                  /\ outcome'[i] \in {DoneWord(i), "hook_failed"}
               \/ /\ T(i).op = "inject"
                  /\ Applied
                  /\ Put(T(i).path, Rendered(Torn))
                  /\ UNCHANGED tracked
                  /\ outcome'[i] = "failed"
  <1> DEFINE s == disk[T(i).path]
  <1>1. CASE NoAnchor(i) \/ ItemFails(i)
    <2>1. outcome'[i] = "failed" /\ UNCHANGED <<disk, tracked>>
      BY <1>1 DEF NoAnchor, ItemFails, Settle
    <2> QED
      BY <2>1
  <1>2. CASE Evaluate(i)
    <2>1. T(i).op = "eval" /\ outcome'[i] = "evaluated" /\ UNCHANGED <<disk, tracked>>
      BY <1>2 DEF Evaluate, Settle
    <2> QED
      BY <2>1 DEF Outcome
  <1>3. CASE Skip(i)
    <2>1. /\ T(i).op = "file" /\ outcome'[i] = "skipped" /\ UNCHANGED <<disk, tracked>>
          /\ Contract!LeavesAlone(T(i), s)
      BY <1>3 DEF Skip, Skips, Settle, Contract!LeavesAlone
    <2>2. s = Contract!Fulfilled(T(i), s)
      BY <2>1 DEF Contract!Fulfilled
    <2> QED
      BY <2>1, <2>2
  <1>4. CASE FindUnchanged(i)
    <2>1. /\ T(i).op = "file" /\ outcome'[i] = "unchanged" /\ disk' = disk
          /\ ~Contract!LeavesAlone(T(i), s) /\ s = Rendered(T(i).text)
          /\ tracked' = tracked \/ Track(T(i).path)
      BY <1>4 DEF FindUnchanged, Skips, Settle, Contract!LeavesAlone
    <2>2. s = Contract!Fulfilled(T(i), s)
      BY <2>1 DEF Contract!Fulfilled, Rendered, Contract!Rendered
    <2> QED
      BY <2>1, <2>2
  <1>5. CASE Preview(i)
    <2>1. /\ ~Applied /\ outcome'[i] = DoneWord(i) /\ UNCHANGED <<disk, tracked>>
          /\ MustWrite(i) \/ Splices(i)
      BY <1>5 DEF Preview, Settle
    <2>2. CASE MustWrite(i)
      <3>1. T(i).op = "file" /\ outcome'[i] = "written" /\ ~Contract!LeavesAlone(T(i), s)
        BY <2>1, <2>2, DesiredIsFulfilled DEF MustWrite, DoneWord
      <3> QED
        BY <2>1, <3>1
    <2>3. CASE Splices(i)
      <3>1. T(i).op = "inject" /\ outcome'[i] = "injected" /\ s # Absent /\ s.base \in Slotted
        BY <2>1, <2>3 DEF Splices, Anchored, DoneWord
      <3> QED
        BY <2>1, <3>1
    <2> QED
      BY <2>1, <2>2, <2>3
  <1>6. CASE Write(i) \/ WriteThenHookFails(i)
    <2>1. /\ Applied /\ Put(T(i).path, Desired(i)) /\ Track(T(i).path)
          /\ outcome'[i] \in {DoneWord(i), "hook_failed"}
          /\ MustWrite(i) \/ Splices(i)
      BY <1>6 DEF Write, WriteThenHookFails, Settle
    <2>2. /\ Desired(i) = Contract!Fulfilled(T(i), s) /\ ~Contract!LeavesAlone(T(i), s)
          /\ T(i).op \in {"file", "inject"}
          /\ T(i).op = "inject" => s # Absent /\ s.base \in Slotted
      BY <2>1, DesiredIsFulfilled DEF MustWrite, Splices, Anchored
    <2>3. Put(T(i).path, Contract!Fulfilled(T(i), s))
      BY <2>1, <2>2
    <2> QED
      BY <2>1, <2>2, <2>3
  <1>7. CASE FindInjected(i)
    <2>1. /\ T(i).op = "inject" /\ outcome'[i] = "unchanged" /\ UNCHANGED <<disk, tracked>>
          /\ s # Absent /\ s.base \in Slotted /\ T(i).frag \in s.frags
      BY <1>7 DEF FindInjected, Anchored, Settle
    <2>2. T(i).path \in Path
      BY <2>1, RequestType DEF T, Items
    <2>3. s \in Content
      BY <2>1, <2>2 DEF TypeOK, State
    <2>4. s = Contract!Fulfilled(T(i), s)
      BY <2>1, <2>3, FoundIsFulfilled
    <2> QED
      BY <2>1, <2>4
  <1>8. CASE Tear(i)
    <2>1. /\ T(i).op = "inject" /\ Applied /\ Put(T(i).path, Rendered(Torn))
          /\ UNCHANGED tracked /\ outcome'[i] = "failed"
      BY <1>8 DEF Tear, Splices, Settle
    <2> QED
      BY <2>1
  <1> QED
    BY <1>1, <1>2, <1>3, <1>4, <1>5, <1>6, <1>7, <1>8 DEF Actuate

\* A project with no run in progress satisfies the contract's invariant.
LEMMA ContractInit == Init => ContractInv
  <1> SUFFICES ASSUME Init PROVE ContractInv
    OBVIOUS
  <1>1. OutcomeInv /\ RestoreInv
    BY OutcomeInit, RestoreInit
  <1>2. phase = "idle" /\ lost = {} /\ cause = "none" /\ outcome = <<>>
    BY DEF Init
  <1> QED
    BY <1>1, <1>2 DEF ContractInv, ItemsCarried, Forward, OnlyDebris, PlanStands, Admitted,
                      FailureStands

\* The end of a run, however it ends, leaves nothing to carry out.
LEMMA ContractEnd ==
    ASSUME OutcomeInv', RestoreInv', NEW res, End(res)
    PROVE  ContractInv'
  <1>1. phase' = "idle" /\ lost' = {} /\ cause' = "none" /\ outcome' = <<>>
    BY DEF End
  <1> QED
    BY <1>1 DEF ContractInv, ItemsCarried, Forward, OnlyDebris, PlanStands, Admitted,
                FailureStands

\* One item leaves its own path as the contract asks, or as debris, and no other path.
LEMMA ContractActuate ==
    ASSUME ContractInv, OutcomeInv', RestoreInv', NEW i \in DOMAIN outcome, Actuate(i)
    PROVE  ContractInv'
  <1> USE DEF ContractInv
  <1>1. TypeOK /\ RefusedReports
    BY DEF RestoreInv, TypeInv
  <1>2. PICK o \in Outcome : Ready(i) /\ Settle(i, o)
    BY DEF Actuate, Skip, FindUnchanged, Preview, Write, WriteThenHookFails,
           FindInjected, NoAnchor, Tear, ItemFails, Evaluate, DoneWord, Outcome
  <1>3. /\ phase = "actuate" /\ phase' = "actuate" /\ req \in Request
        /\ i \in Items /\ outcome \in [Items -> Outcome] /\ outcome[i] = "pending"
        /\ UNCHANGED <<manifest, runs, req, before, observed, stale, lost, touched, cause>>
        /\ outcome' = [outcome EXCEPT ![i] = o]
    BY <1>1, <1>2 DEF Ready, Settle, TypeOK, RefusedReports
  <1> DEFINE p == T(i).path
             s == disk[p]
             W == T(i).op \in {"file", "inject"}
  <1>4. W => p \in Path /\ i \in WriteItems(req) /\ (p \in touched \/ s = before[p])
    BY <1>3, RequestType DEF T, Items, WriteItems, RestoreInv, PendingUntouched
  <1>5. ~W => UNCHANGED <<disk, tracked>>
    BY <1>1, <1>3, ItemKinds
  <1>6. ASSUME NEW q \in Path, ~W \/ q # p
        PROVE  disk'[q] = disk[q] /\ tracked'[q] = tracked[q]
    <2>1. CASE ~W
      BY <1>5, <2>1
    <2>2. CASE W /\ q # p
      <3>1. \/ disk' = disk \/ \E c : Put(p, c)
        BY <1>1, <1>3, ItemKinds
      <3>2. tracked' = tracked \/ Track(p)
        BY <1>1, <1>3, ItemKinds
      <3> QED
        BY <1>1, <1>4, <2>2, <3>1, <3>2 DEF Put, Track, TypeOK
    <2> QED
      BY <1>6, <2>1, <2>2
  <1>7. UNCHANGED <<Applied, Items>> /\ WriteItems(req)' = WriteItems(req)
        /\ \A j : T(j)' = T(j)
    BY <1>3 DEF Applied, Items, T, WriteItems
  <1>8. ASSUME NEW q \in Path, W, q = p PROVE DebrisAt(q)'
    <2>1. disk'[p] \in {s, Rendered(Torn), Contract!Fulfilled(T(i), s)}
          /\ (disk'[p] # s => Applied)
      BY <1>1, <1>3, <1>4, <1>8, ItemKinds DEF Put, TypeOK
    <2> QED
      BY <1>3, <1>4, <1>7, <1>8, <2>1 DEF DebrisAt
  <1>9. W /\ EndedWell(i)' => Carried(i)'
    <2> SUFFICES ASSUME W, EndedWell(i)' PROVE Carried(i)'
      OBVIOUS
    <2>1. outcome'[i] \notin {"pending", "failed", "hook_failed"}
      BY DEF EndedWell
    <2>2. disk'[p] = IF Applied THEN Contract!Fulfilled(T(i), s) ELSE s
      BY <1>1, <1>3, <1>4, <2>1, ItemKinds DEF Put, TypeOK
    <2>3. T(i).op = "file" =>
            /\ outcome'[i] \in {"written", "unchanged", "skipped"}
            /\ (outcome'[i] = "skipped" <=> Contract!LeavesAlone(T(i), s))
      BY <1>1, <1>3, <2>1, ItemKinds DEF DoneWord
    <2>4. T(i).op = "inject" => s # Absent /\ s.base \in Slotted
      BY <1>1, <1>3, <2>1, ItemKinds
    <2>5. p \in touched' \/ s = before'[p]
      BY <1>3, <1>4
    <2> QED
      BY <1>7, <2>2, <2>3, <2>4, <2>5 DEF Carried
  <1>10. ItemsCarried'
    <2> SUFFICES ASSUME NEW j \in WriteItems(req), EndedWell(j)' PROVE Carried(j)'
      BY <1>7 DEF ItemsCarried
    <2>1. CASE j = i
      BY <1>9, <2>1 DEF WriteItems, T
    <2>2. CASE j # i
      <3>1. j \in Items /\ T(j).path \in Path
        BY <1>3, RequestType DEF WriteItems, T, Items
      <3>2. outcome'[j] = outcome[j]
        BY <1>3, <2>2, <3>1
      <3>3. ~W \/ T(j).path # p
        BY <1>3, <1>4, <2>2 DEF RestoreInv, OneItemPerPath
      <3>4. disk'[T(j).path] = disk[T(j).path]
        BY <1>6, <3>1, <3>3
      <3>5. Carried(j)
        BY <1>3, <3>2 DEF ItemsCarried, Forward, EndedWell
      <3> QED
        BY <1>3, <1>7, <3>2, <3>4, <3>5 DEF Carried
    <2> QED
      BY <2>1, <2>2
  <1>11. OnlyDebris'
    <2>1. ASSUME NEW q \in Path, ~W \/ q # p PROVE DebrisAt(q)'
      <3>1. DebrisAt(q)
        BY <1>3 DEF OnlyDebris
      <3> QED
        BY <1>3, <1>6, <1>7, <2>1, <3>1 DEF DebrisAt
    <2> QED
      BY <1>8, <2>1 DEF OnlyDebris
  <1>12. TrackedIsTarget'
    BY <1>3, <1>4, <1>6, <1>7 DEF TrackedIsTarget
  <1>13. PlanStands' /\ FailureStands'
    BY <1>1, <1>3, <1>7 DEF PlanStands, FailureStands, Admitted, Forward, RefusedReports
  <1> QED
    BY <1>3, <1>10, <1>11, <1>12, <1>13

\* The run leaves its forward path, or goes on leaving it, with the files as they are.
LEMMA ContractFailing ==
    ASSUME ContractInv, OutcomeInv', RestoreInv',
           phase \notin {"idle", "promote", "prune"}, phase' \in {"revert", "report"},
           UNCHANGED <<disk, manifest, req, before, observed, outcome, tracked, lost, touched>>,
           cause' = "compile" => \A i \in Items : outcome[i] # "failed"
    PROVE  ContractInv'
  <1>1. OnlyDebris'
    <2>1. ASSUME NEW p \in Path PROVE DebrisAt(p)'
      <3>1. DebrisAt(p)
        BY DEF ContractInv, OnlyDebris
      <3> QED
        BY <3>1 DEF DebrisAt, Applied, T
    <2> QED
      BY <2>1 DEF OnlyDebris
  <1>2. TrackedIsTarget'
    BY DEF ContractInv, TrackedIsTarget, T
  <1>3. ItemsCarried'
    BY DEF ItemsCarried, Forward
  <1>4. PlanStands' /\ FailureStands'
    BY DEF ContractInv, PlanStands, FailureStands, Admitted, Forward, Applied, Items
  <1> QED
    BY <1>1, <1>2, <1>3, <1>4 DEF ContractInv

\* The run goes on with the files as they are, up to its receipt.
LEMMA ContractForward ==
    ASSUME ContractInv, OutcomeInv', RestoreInv',
           phase \in Forward, phase' \in Forward \cup {"promote"},
           UNCHANGED <<disk, manifest, req, before, observed, stale, outcome, tracked, lost,
                       touched, cause>>
    PROVE  ContractInv'
  <1>1. UNCHANGED <<Applied, Items>> /\ WriteItems(req)' = WriteItems(req)
        /\ \A j : T(j)' = T(j)
    BY DEF Applied, Items, T, WriteItems
  <1>2. OnlyDebris'
    <2>1. ASSUME NEW p \in Path PROVE DebrisAt(p)'
      <3>1. DebrisAt(p)
        BY DEF ContractInv, OnlyDebris, Forward
      <3> QED
        BY <1>1, <3>1 DEF DebrisAt
    <2> QED
      BY <2>1 DEF OnlyDebris
  <1>3. TrackedIsTarget'
    BY <1>1 DEF ContractInv, TrackedIsTarget, Forward
  <1>4. ItemsCarried'
    <2>1. ASSUME NEW j \in WriteItems(req), EndedWell(j)' PROVE Carried(j)'
      <3>1. Carried(j)
        BY <2>1 DEF ContractInv, ItemsCarried, EndedWell
      <3> QED
        BY <1>1, <3>1 DEF Carried
    <2> QED
      BY <1>1, <2>1 DEF ItemsCarried
  <1>5. PlanStands' /\ FailureStands'
    BY <1>1 DEF ContractInv, PlanStands, FailureStands, Admitted, Forward
  <1> QED
    BY <1>2, <1>3, <1>4, <1>5 DEF ContractInv, Forward

\* A path handled by the revert is as it was, or debris of an item that was to write it.
LEMMA ContractRevert ==
    ASSUME ContractInv, OutcomeInv', RestoreInv',
           NEW p \in Path, RevertOne(p) \/ RevertFails(p)
    PROVE  ContractInv'
  <1>1. /\ phase = "revert" /\ phase' = "revert" /\ tracked[p] # Untracked
        /\ UNCHANGED <<manifest, req, before, observed, stale, outcome, touched, cause>>
    BY DEF RevertOne, RevertFails, ToRevert
  <1>2. TypeOK /\ (p \in touched \/ tracked[p] = before[p]) /\ Applied
    BY <1>1 DEF ContractInv, RestoreInv, DamageAccounted, Acting, TypeInv, OutcomeInv, DryIsIdle
  <1>3. UNCHANGED <<Applied, Items>> /\ WriteItems(req)' = WriteItems(req)
        /\ \A j : T(j)' = T(j)
    BY <1>1 DEF Applied, Items, T, WriteItems
  <1>4. PICK i \in WriteItems(req) : T(i).path = p
    BY <1>1 DEF ContractInv, TrackedIsTarget
  <1>5. \A q \in Path : q # p => disk'[q] = disk[q] /\ tracked'[q] = tracked[q]
    BY <1>2 DEF RevertOne, RevertFails, Put, TypeOK
  <1>6. /\ tracked'[p] = Untracked
        /\ p \in touched \/ disk'[p] \in {disk[p], before[p], Rendered(Torn)}
    BY <1>2 DEF RevertOne, RevertFails, Put, TypeOK
  <1>7. OnlyDebris'
    <2>1. ASSUME NEW q \in Path PROVE DebrisAt(q)'
      <3>1. DebrisAt(q)
        BY <1>1 DEF ContractInv, OnlyDebris
      <3>2. CASE q = p /\ disk'[q] = Rendered(Torn)
        BY <1>2, <1>3, <1>4, <3>2 DEF DebrisAt
      <3>3. CASE disk'[q] = disk[q]
        BY <1>1, <1>3, <3>1, <3>3 DEF DebrisAt
      <3>4. CASE disk'[q] = before[q] \/ q \in touched
        BY <1>1, <3>4 DEF DebrisAt
      <3> QED
        BY <1>5, <1>6, <3>2, <3>3, <3>4
    <2> QED
      BY <2>1 DEF OnlyDebris
  <1>8. TrackedIsTarget'
    BY <1>1, <1>3, <1>5, <1>6 DEF ContractInv, TrackedIsTarget
  <1>9. ItemsCarried' /\ PlanStands' /\ FailureStands'
    BY <1>1, <1>2, <1>3
       DEF ContractInv, ItemsCarried, PlanStands, FailureStands, Admitted, Forward
  <1> QED
    BY <1>7, <1>8, <1>9 DEF ContractInv

\* What a hook or evaluated code does is done by an admitted request, and the
\* path it does it to is none of the contract's any more.
LEMMA ContractTouch ==
    ASSUME ContractInv, OutcomeInv', RestoreInv',
           NEW i \in DOMAIN outcome, NEW p \in Path, SideEffects(i, p)
    PROVE  ContractInv'
  <1>1. /\ phase \in {"actuate", "revert", "report"} /\ req \in Request
        /\ UNCHANGED <<manifest, phase, req, before, observed, stale, outcome, tracked,
                       lost, cause>>
        /\ touched' = touched \cup {p}
        /\ \A q \in Path : q # p => disk'[q] = disk[q]
    BY SideEffectsFrame DEF ContractInv, RestoreInv
  <1>2. UNCHANGED <<Applied, Items>> /\ WriteItems(req)' = WriteItems(req)
        /\ \A j : T(j)' = T(j)
    BY <1>1 DEF Applied, Items, T, WriteItems
  <1>3. ItemsCarried'
    <2>1. ASSUME phase \in Forward, NEW j \in WriteItems(req), EndedWell(j) PROVE Carried(j)'
      <3>1. Carried(j) /\ T(j).path \in Path
        BY <1>1, <2>1, RequestType DEF ContractInv, ItemsCarried, WriteItems, T
      <3> QED
        BY <1>1, <1>2, <3>1 DEF Carried
    <2> QED
      BY <1>1, <1>2, <2>1 DEF ItemsCarried, EndedWell
  <1>4. OnlyDebris'
    <2>1. ASSUME NEW q \in Path PROVE DebrisAt(q)'
      <3>1. DebrisAt(q)
        BY <1>1 DEF ContractInv, OnlyDebris
      <3> QED
        BY <1>1, <1>2, <3>1 DEF DebrisAt
    <2> QED
      BY <2>1 DEF OnlyDebris
  <1>5. TrackedIsTarget' /\ PlanStands' /\ FailureStands'
    BY <1>1, <1>2 DEF ContractInv, TrackedIsTarget, PlanStands, FailureStands
  <1> QED
    BY <1>1, <1>3, <1>4, <1>5 DEF ContractInv

\* Every step of a run, a crash and a user edit preserve the contract's invariant.
LEMMA ContractStep == ContractInv /\ [Next]_vars => ContractInv'
  <1> SUFFICES ASSUME ContractInv, [Next]_vars PROVE ContractInv'
    OBVIOUS
  <1>0. OutcomeInv' /\ RestoreInv'
    BY OutcomeStep, RestoreStep DEF ContractInv
  <1>1. ASSUME NEW r \in Request, Begin(r) PROVE ContractInv'
    <2>1. /\ phase = "idle" /\ phase' = "plan" /\ outcome' = <<>>
          /\ UNCHANGED <<disk, manifest, tracked, lost, cause>>
          /\ before' = disk /\ observed' = manifest
          /\ \A p \in Path : tracked[p] = Untracked
      BY <1>1 DEF Begin, durable, ContractInv, RestoreInv, NothingTracked, TypeInv, TypeOK
    <2>2. OnlyDebris' /\ TrackedIsTarget' /\ ItemsCarried'
      BY <2>1 DEF OnlyDebris, DebrisAt, TrackedIsTarget, ItemsCarried, Forward
    <2>3. PlanStands' /\ FailureStands'
      BY <2>1 DEF ContractInv, PlanStands, FailureStands, Admitted, Forward
    <2> QED
      BY <1>0, <2>2, <2>3 DEF ContractInv
  <1>2. CASE PlanFails \/ Refuse
    BY <1>0, <1>2, ContractFailing DEF PlanFails, Refuse, durable
  <1>3. CASE Admit
    <2>1. /\ phase = "plan" /\ phase' = "actuate"
          /\ UNCHANGED <<disk, manifest, req, before, observed, tracked, lost, touched, cause>>
          /\ stale' = StalePaths(req, observed)
          /\ outcome' = [i \in Items |-> "pending"]
          /\ Admissible(req, observed)
          /\ disk = before
      BY <1>3 DEF Admit, durable, ContractInv, RestoreInv, PlanTouchesNothing
    <2>2. ItemsCarried'
      BY <2>1 DEF ItemsCarried, EndedWell, WriteItems, Items
    <2>3. OnlyDebris' /\ TrackedIsTarget'
      BY <2>1 DEF ContractInv, OnlyDebris, DebrisAt, TrackedIsTarget, T
    <2>4. PlanStands' /\ FailureStands'
      BY <2>1 DEF ContractInv, PlanStands, FailureStands, Admitted, Forward, Applied
    <2> QED
      BY <1>0, <2>1, <2>2, <2>3, <2>4 DEF ContractInv
  <1>4. CASE \E i \in DOMAIN outcome : Actuate(i)
    BY <1>0, <1>4, ContractActuate
  <1>5. CASE ActuateDone
    <2>1. CASE SomeFailed
      BY <1>0, <1>5, <2>1, ContractFailing DEF ActuateDone, FailWith, durable
    <2>2. CASE ~SomeFailed
      BY <1>0, <1>5, <2>2, ContractForward DEF ActuateDone, GoOn, durable, volatile, Forward
    <2> QED
      BY <2>1, <2>2
  <1>6. CASE CompileFails \/ VerifyRaises \/ FinalizeFails \/ AppendFails
    <2>1. \A i \in Items : outcome[i] # "failed"
      BY <1>6 DEF CompileFails, VerifyRaises, FinalizeFails, AppendFails, ContractInv,
                  OutcomeInv, NoneFailed, Settled, Admitted
    <2> QED
      BY <1>0, <1>6, <2>1, ContractFailing
         DEF CompileFails, VerifyRaises, FinalizeFails, AppendFails, FailWith, durable
  <1>7. CASE VerifyPasses \/ AppendAlive
    BY <1>0, <1>7, ContractForward DEF VerifyPasses, AppendAlive, GoOn, durable, volatile, Forward
  <1>8. ASSUME \/ Promote \/ PromotePending \/ \E p \in Path : PruneOne(p)
        PROVE  ContractInv'
    <2>1. /\ phase \in {"promote", "prune"} /\ phase' = "prune"
          /\ UNCHANGED <<req, observed, tracked, lost, cause, before, outcome>>
      BY <1>8 DEF Promote, PromotePending, PruneOne, Prunes, GoOn, volatile
    <2>2. TrackedIsTarget' /\ ItemsCarried' /\ OnlyDebris'
      BY <2>1 DEF ContractInv, TrackedIsTarget, ItemsCarried, OnlyDebris, Forward, T
    <2>3. PlanStands' /\ FailureStands'
      BY <2>1 DEF ContractInv, PlanStands, FailureStands, Admitted, Forward, Applied, Items
    <2> QED
      BY <1>0, <2>2, <2>3 DEF ContractInv
  <1>9. ASSUME NEW p \in Path, RevertOne(p) \/ RevertFails(p) PROVE ContractInv'
    BY <1>0, <1>9, ContractRevert
  <1>10. CASE RevertDone
    <2>1. cause' = "compile" => \A i \in Items : outcome[i] # "failed"
      BY <1>10 DEF RevertDone, GoOn, volatile, ContractInv, FailureStands
    <2> QED
      BY <1>0, <1>10, <2>1, ContractFailing DEF RevertDone, GoOn, durable, volatile
  <1>11. CASE FinishDry \/ PruneFails \/ Return \/ ReportRaises \/ Report \/ Crash
    BY <1>0, <1>11, ContractEnd
       DEF FinishDry, PruneFails, Return, ReportRaises, Report, Crash
  <1>12. ASSUME NEW p \in Path, UserEdit(p) PROVE ContractInv'
    BY <1>0, <1>12 DEF UserEdit, volatile, ContractInv, ItemsCarried, Forward, OnlyDebris,
       PlanStands, Admitted, FailureStands
  <1>13. CASE UNCHANGED vars
    <2>1. UNCHANGED <<disk, manifest, phase, req, before, observed, stale, outcome, tracked,
                      lost, touched, cause>>
      BY <1>13 DEF vars, durable, volatile
    <2>2. UNCHANGED <<Applied, Items>> /\ WriteItems(req)' = WriteItems(req)
          /\ \A j : T(j)' = T(j)
      BY <2>1 DEF Applied, Items, T, WriteItems
    <2>3. ItemsCarried' = ItemsCarried /\ OnlyDebris' = OnlyDebris
      BY <2>1, <2>2 DEF ItemsCarried, EndedWell, Carried, OnlyDebris, DebrisAt
    <2>4. TrackedIsTarget' = TrackedIsTarget /\ PlanStands' = PlanStands
          /\ FailureStands' = FailureStands
      BY <2>1, <2>2 DEF TrackedIsTarget, PlanStands, FailureStands
    <2> QED
      BY <1>0, <2>1, <2>3, <2>4 DEF ContractInv
  <1>14. ASSUME NEW i \in DOMAIN outcome, NEW p \in Path, SideEffects(i, p) PROVE ContractInv'
    BY <1>0, <1>14, ContractTouch
  <1> QED
    BY <1>1, <1>2, <1>3, <1>4, <1>5, <1>6, <1>7, <1>8, <1>9, <1>10, <1>11, <1>12, <1>13, <1>14
       DEF Next, RunStep

\* The contract's invariant holds in every reachable state.
LEMMA ContractHolds == Spec => []ContractInv
  <1> QED
    BY ContractInit, ContractStep, PTL DEF Spec

-----------------------------------------------------------------------------

\* The plan means the same to the pipeline and to its contract.
LEMMA SamePlan ==
    /\ Contract!State = State /\ Contract!NoEntry = NoEntry /\ Contract!Standing = Standing
    /\ \A t : Contract!Rendered(t) = Rendered(t)
    /\ \A t : Contract!RunsCode(t) = RunsCode(t)
    /\ \A r : Contract!WriteItems(r) = WriteItems(r)
    /\ \A r : Contract!FileItems(r) = FileItems(r)
    /\ \A r, p : Contract!Writes(r, p) = {i \in WriteItems(r) : r.targets[i].path = p}
    /\ \A r, k : Contract!Group(r, k) = Group(r, k)
    /\ \A r, k : Contract!SingleRow(r, k) = SingleRow(r, k)
    /\ \A r, m : Contract!StalePaths(r, m) = StalePaths(r, m)
    /\ \A r, m : Contract!Admissible(r, m) = Admissible(r, m)
  <1>1. /\ Contract!State = State /\ Contract!NoEntry = NoEntry /\ Contract!Standing = Standing
        /\ \A t : Contract!Rendered(t) = Rendered(t)
    BY DEF Contract!State, State, Contract!Content, Content, Contract!NoEntry, NoEntry,
           Contract!Standing, Standing, Contract!Rendered, Rendered
  <1>2. /\ \A r : Contract!WriteItems(r) = WriteItems(r)
        /\ \A r : Contract!FileItems(r) = FileItems(r)
        /\ \A t : Contract!RunsCode(t) = RunsCode(t)
    BY DEF Contract!WriteItems, WriteItems, Contract!FileItems, FileItems,
           Contract!RunsCode, RunsCode
  <1>3. \A r, p : Contract!Writes(r, p) = {i \in WriteItems(r) : r.targets[i].path = p}
    BY <1>2 DEF Contract!Writes
  <1>4. \A r, k : Contract!Group(r, k) = Group(r, k)
    BY DEF Contract!Group, Group, Contract!FileItems, FileItems
  <1>5. \A r, k : Contract!SingleRow(r, k) = SingleRow(r, k)
    BY <1>4 DEF Contract!SingleRow, SingleRow
  <1>6. \A r, m : Contract!StalePaths(r, m) = StalePaths(r, m)
    BY <1>4 DEF Contract!StalePaths, StalePaths, Contract!NewPaths, NewPaths,
                Contract!FileItems, FileItems, Contract!OutputPaths, OutputPaths
  <1>7. \A r, m : Contract!Admissible(r, m) = Admissible(r, m)
    BY <1>2, <1>6 DEF Contract!Admissible, Admissible
  <1> QED
    BY <1>1, <1>2, <1>3, <1>4, <1>5, <1>6, <1>7

\* Before its receipt a run that got there has found every snippet its place.
LEMMA FinalIsFeasible ==
    ASSUME ContractInv, phase = "finalize"
    PROVE  Contract!Feasible(req) /\ \A i \in WriteItems(req) : Carried(i)
  <1>1. Admissible(req, manifest)
    BY DEF ContractInv, PlanStands, Admitted
  <1>2. ASSUME NEW i \in WriteItems(req) PROVE Carried(i)
    <2>1. EndedWell(i)
      BY DEF EndedWell, ContractInv, OutcomeInv, NoneFailed, Settled, Admitted, WriteItems, Items
    <2> QED
      BY <2>1 DEF ContractInv, ItemsCarried, Forward
  <1>3. Tree = before
    BY DEF Tree
  <1>4. \A i \in WriteItems(req) :
           req.targets[i].op = "inject" /\ req.targets[i].path \notin touched =>
           Tree[req.targets[i].path] # Absent /\ Tree[req.targets[i].path].base \in Slotted
    BY <1>2, <1>3 DEF Carried, T
  <1> QED
    BY <1>1, <1>2, <1>4, SamePlan DEF Contract!Feasible

\* The manifest a run is to leave is the one the contract computes from the
\* request, the rows left alone and the project.
SkippedRows == {i \in FileItems(req) : outcome[i] = "skipped"}

LEMMA BookIsRecord ==
    ASSUME ContractInv, phase = "finalize", Applied
    PROVE  /\ Contract!Keeps(req, SkippedRows)
           /\ NewManifest = Contract!NewRecord(req, disk, SkippedRows)
  <1>1. Tree = before /\ observed = manifest /\ req \in Request
    BY DEF Tree, ContractInv, PlanStands, RestoreInv, TypeInv, TypeOK
  <1>2. ASSUME NEW i \in FileItems(req)
        PROVE  /\ Committed(i) <=> i \notin SkippedRows
               /\ T(i).path \notin touched =>
                    (i \in SkippedRows <=> Contract!LeavesAlone(T(i), before[T(i).path]))
    <2>1. i \in WriteItems(req) /\ T(i).op = "file"
      BY DEF FileItems, WriteItems, T
    <2>2. Carried(i)
      BY <2>1, FinalIsFeasible
    <2> QED
      BY <2>1, <2>2 DEF Carried, Committed, SkippedRows
  <1>3. Contract!Keeps(req, SkippedRows)
    BY <1>1, <1>2, SamePlan DEF Contract!Keeps, T
  <1>4. \A k : Group(req, k) \subseteq FileItems(req)
    BY DEF Group
  <1>5. ASSUME NEW k \in Recipe, NEW p \in Path
        PROVE  Contract!Produces(req, k, p, SkippedRows) <=>
                  \E i \in Group(req, k) : Committed(i) /\ T(i).path = p
    BY <1>2, <1>4, SamePlan DEF Contract!Produces, T
  <1>6. ASSUME NEW k \in Recipe
        PROVE  GroupOutputs(k) = Contract!Produced(req, k, disk, SkippedRows)
    BY <1>5 DEF GroupOutputs, Contract!Produced
  <1>7. ASSUME NEW k \in Recipe, NEW i \in Group(req, k) PROVE T(i).path \in Path
    BY <1>1, RequestType DEF Group, FileItems, T
  <1>8. ASSUME NEW k \in Recipe
        PROVE  (\A i \in Group(req, k) : ~Committed(i)) <=>
                  \A p \in Path : ~Contract!Produces(req, k, p, SkippedRows)
    BY <1>5, <1>7
  <1>9. ASSUME NEW k \in Recipe
        PROVE  KeepsEntry(k) <=>
                  \/ Contract!Group(req, k) = {}
                  \/ /\ SingleRow(req, k)
                     /\ \A p \in Path : ~Contract!Produces(req, k, p, SkippedRows)
                  \/ Contract!Produced(req, k, disk, SkippedRows) = manifest[k].outputs
    BY <1>1, <1>6, <1>8, SamePlan DEF KeepsEntry
  <1> DEFINE Entered(k) == IF KeepsEntry(k) THEN manifest[k]
                        ELSE [outputs |-> GroupOutputs(k), run |-> runs]
  <1>10. NewManifest = [k \in Recipe |-> Entered(k)]
    BY <1>1 DEF NewManifest
  <1>11. Contract!NewRecord(req, disk, SkippedRows) = [k \in Recipe |-> Entered(k)]
    <2> DEFINE Made(k) == Contract!Produced(req, k, disk, SkippedRows)
               Kept(k) == \/ Contract!Group(req, k) = {}
                          \/ /\ SingleRow(req, k)
                             /\ \A p \in Path : ~Contract!Produces(req, k, p, SkippedRows)
                          \/ Made(k) = manifest[k].outputs
               Recorded(k) == IF Kept(k) THEN manifest[k]
                              ELSE [outputs |-> Made(k), run |-> runs]
    <2>1. Contract!NewRecord(req, disk, SkippedRows) = [k \in Recipe |-> Recorded(k)]
      BY SamePlan DEF Contract!NewRecord
    <2>2. ASSUME NEW k \in Recipe PROVE Recorded(k) = Entered(k)
      BY <1>6, <1>9
    <2> HIDE DEF Recorded, Entered
    <2> QED
      BY <2>1, <2>2
  <1> QED
    BY <1>3, <1>10, <1>11

\* A step inside a run, before its receipt, is none of the contract's.
LEMMA InsideIsNothing ==
    ASSUME phase \notin {"idle", "promote", "prune"}, phase' \notin {"idle", "promote", "prune"},
           UNCHANGED <<manifest, ledger, runs, req, before, touched, result>>
    PROVE  UNCHANGED Contract!cvars
  BY DEF Contract!cvars, Tree, Stage, Book, Doomed

\* The end of a run is the end of the contract's.
LEMMA EndIsFinish ==
    ASSUME NEW a, End(a), UNCHANGED manifest
    PROVE  Contract!Finish(a) /\ Tree' = disk'
  BY DEF End, Contract!Finish, Tree, Stage, Book, Doomed

\* The receipt is the commit: the whole request is on disk, and nothing else.
LEMMA AppendCommits ==
    ASSUME ContractInv, AppendAlive
    PROVE  Contract!Commit
  <1>1. /\ phase = "finalize" /\ Applied /\ phase' = "promote"
        /\ ledger' = Append(ledger, [run |-> runs, standing |-> "alive"])
        /\ UNCHANGED <<disk, manifest, runs, req, before, observed, stale, outcome, touched,
                       result>>
    BY DEF AppendAlive, volatile
  <1>2. Tree = before /\ Tree' = disk /\ Stage = "open" /\ Stage' = "committed"
    BY <1>1 DEF Tree, Stage
  <1>3. Contract!Feasible(req) /\ \A i \in WriteItems(req) : Carried(i)
    BY <1>1, FinalIsFeasible
  <1>4. ASSUME NEW p \in Path \ touched
        PROVE  IF Contract!Writes(req, p) = {} THEN Tree'[p] = Tree[p]
               ELSE \A i \in Contract!Writes(req, p) :
                       Tree'[p] = Contract!Fulfilled(req.targets[i], Tree[p])
    <2>1. DebrisAt(p)
      BY <1>1 DEF ContractInv, OnlyDebris
    <2> QED
      BY <1>1, <1>2, <1>3, <2>1, SamePlan DEF DebrisAt, Carried, T
  <1>5. Book' = Contract!NewRecord(req, Tree', SkippedRows)
        /\ Contract!Keeps(req, SkippedRows)
    <2>1. Book' = NewManifest'
      BY <1>1 DEF Book
    <2>2. NewManifest' = NewManifest
      <3>1. \A i : Committed(i)' = Committed(i) /\ T(i)' = T(i)
        BY <1>1 DEF Committed, Applied, T
      <3>2. \A k : GroupOutputs(k)' = GroupOutputs(k)
        BY <1>1, <3>1 DEF GroupOutputs
      <3>3. \A k : KeepsEntry(k)' = KeepsEntry(k)
        BY <1>1, <3>1, <3>2 DEF KeepsEntry
      <3> QED
        BY <1>1, <3>2, <3>3 DEF NewManifest
    <2> QED
      BY <1>1, <1>2, <2>1, <2>2, BookIsRecord
  <1>6. Doomed' = IF req.onStale = "prune" THEN StalePaths(req, manifest) ELSE {}
    <2>1. stale = StalePaths(req, manifest)
      BY <1>1 DEF ContractInv, PlanStands, Forward
    <2> QED
      BY <1>1, <2>1 DEF Doomed
  <1>7. Tree' \in [Path -> Contract!State]
    BY <1>2, SamePlan DEF ContractInv, RestoreInv, TypeInv, TypeOK
  <1>8. SkippedRows \in SUBSET Contract!FileItems(req)
    BY SamePlan DEF SkippedRows
  <1> QED
    BY <1>1, <1>2, <1>3, <1>4, <1>5, <1>6, <1>7, <1>8, SamePlan DEF Contract!Commit, Applied

\* What failure leaves: the project as it was, debris only if the receipt says so.
LEMMA ReportFails ==
    ASSUME ContractInv, Report
    PROVE  Contract!FailBadly \/ \E a \in Contract!Standing : Contract!Fail(a)
  <1>1. /\ phase = "report" /\ Stage = "open" /\ Tree = before
        /\ End(FailureStanding) /\ UNCHANGED <<disk, manifest>>
        /\ ledger' = IF req.mode = "check" THEN ledger
                     ELSE Append(ledger, [run |-> runs, standing |-> FailureStanding])
    BY DEF Report, Stage, Tree
  <1>2. /\ Contract!Finish(FailureStanding) /\ Contract!Receipted(FailureStanding)
        /\ Tree' = disk
    BY <1>1, EndIsFinish DEF Contract!Receipted
  <1>3. TypeOK /\ \A p \in Path : DebrisAt(p)
    BY <1>1 DEF ContractInv, OnlyDebris, RestoreInv, TypeInv
  <1>4. CASE lost # {}
    <2>1. FailureStanding = "compensation_failed" /\ Applied
      BY <1>4 DEF FailureStanding, ContractInv, FailureStands
    <2>2. Contract!Debris
      <3>1. Tree' \in [Path -> Contract!State]
        BY <1>2, <1>3, SamePlan DEF TypeOK
      <3> QED
        BY <1>1, <1>2, <1>3, <3>1, SamePlan DEF Contract!Debris, DebrisAt, Applied, T
    <2> QED
      BY <1>1, <1>2, <2>1, <2>2 DEF Contract!FailBadly, Applied
  <1>5. CASE lost = {}
    <2>1. /\ FailureStanding \in {"refused", "compensated", "build_broken"}
          /\ cause \notin {"refused", "compile"} => FailureStanding = "compensated"
      BY <1>5 DEF FailureStanding
    <2>2. ASSUME NEW p \in Path \ touched
          PROVE  \/ disk[p] = before[p]
                 \/ /\ FailureStanding = "compensated" /\ Applied
                    /\ disk[p] = Rendered(Torn)
                    /\ \E i \in WriteItems(req) : T(i).path = p /\ T(i).op = "inject"
      <3>1. Accounted(p) /\ tracked[p] = Untracked /\ before[p] # Untracked
        BY <1>1, <1>3, FreshAssumption
           DEF ContractInv, RestoreInv, DamageAccounted, NothingTracked, Acting, TypeOK
      <3>2. disk[p] = before[p] \/ (p \in TornTargets /\ disk[p] = Rendered(Torn))
        BY <1>5, <3>1 DEF Accounted
      <3>3. CASE disk[p] # before[p]
        <4>1. disk[p] = Rendered(Torn) /\ Applied
          BY <1>3, <3>2, <3>3 DEF DebrisAt
        <4>2. PICK j \in DOMAIN outcome :
                 T(j).op = "inject" /\ outcome[j] = "failed" /\ T(j).path = p
          BY <3>2, <3>3 DEF TornTargets
        <4>3. cause # "refused" /\ outcome \in [Items -> Outcome]
          BY <1>1, <1>3, <4>2 DEF TypeOK
        <4>4. j \in WriteItems(req) /\ cause # "compile"
          BY <4>2, <4>3 DEF ContractInv, FailureStands, WriteItems, Items, T
        <4> QED
          BY <2>1, <4>1, <4>2, <4>3, <4>4
      <3> QED
        BY <3>3
    <2>3. ASSUME NEW p \in Path \ touched
          PROVE  \/ Tree'[p] = Tree[p]
                 \/ /\ FailureStanding = "compensated" /\ req.mode = "apply"
                    /\ Tree'[p] = Contract!Rendered(Torn)
                    /\ \E i \in Contract!Writes(req, p) : req.targets[i].op = "inject"
      BY <1>1, <1>2, <2>2, SamePlan DEF Applied, T
    <2>4. FailureStanding = "refused" => touched = {}
      BY <1>5 DEF FailureStanding, ContractInv, RestoreInv, CodeTouches
    <2>5. Tree' \in [Path -> Contract!State]
      BY <1>2, <1>3, SamePlan DEF TypeOK
    <2>6. Contract!Fail(FailureStanding)
      BY <1>1, <1>2, <2>1, <2>3, <2>4, <2>5 DEF Contract!Fail
    <2> QED
      BY <2>1, <2>6, SamePlan DEF Standing
  <1> QED
    BY <1>4, <1>5

\* A death, or a receipt that cannot be appended, leaves debris at most; after
\* the :alive receipt it leaves the request carried out.
LEMMA SilenceIsContracted ==
    ASSUME ContractInv, RestoreInv', Crash \/ ReportRaises
    PROVE  \/ \E a \in {"crashed", "raised"} : Contract!Vanish(a)
           \/ Contract!StopShort
  <1>1. PICK a \in {"crashed", "raised"} :
           /\ End(a) /\ UNCHANGED <<manifest, ledger>> /\ phase # "idle"
           /\ phase \in {"promote", "prune"} => a = "crashed"
    BY DEF Crash, ReportRaises, durable
  <1>2. Contract!Finish(a) /\ Tree' = disk'
    BY <1>1, EndIsFinish
  <1>3. TypeOK
    BY DEF ContractInv, RestoreInv, TypeInv
  <1>4. CASE phase \in {"promote", "prune"}
    <2>1. disk' = disk
      BY <1>4 DEF Crash, ReportRaises, InPlace, durable
    <2> QED
      BY <1>1, <1>2, <1>4, <2>1 DEF Contract!StopShort, Tree, Stage
  <1>5. CASE phase \notin {"promote", "prune"}
    <2>1. Tree = before /\ Stage = "open" /\ \A p \in Path : DebrisAt(p)
      BY <1>1, <1>5 DEF Tree, Stage, ContractInv, OnlyDebris
    <2>2. \/ disk' = disk
          \/ \E p \in InPlace : Put(p, Rendered(Torn))
      BY DEF Crash, ReportRaises, durable
    <2>3. ASSUME NEW p \in InPlace
          PROVE  Applied /\ \E i \in WriteItems(req) : T(i).path = p
      <3>1. CASE phase = "actuate"
        <4>1. PICK j \in DOMAIN outcome : Applied /\ Splices(j) /\ T(j).path = p
          BY <2>3, <3>1 DEF InPlace, Items, TypeOK, ContractInv, RestoreInv, TypeInv, RefusedReports
        <4>2. j \in Items
          BY <1>3, <3>1 DEF TypeOK, ContractInv, RestoreInv, TypeInv, RefusedReports
        <4> QED
          BY <4>1, <4>2 DEF Splices, WriteItems, Items, T
      <3>2. CASE phase = "revert"
        <4>1. p \in Path /\ tracked[p] # Untracked
          BY <2>3, <3>2 DEF InPlace, ToRevert
        <4> QED
          BY <3>2, <4>1 DEF ContractInv, TrackedIsTarget, OutcomeInv, DryIsIdle
      <3> QED
        BY <2>3, <3>1, <3>2 DEF InPlace
    <2>4. ASSUME NEW p \in Path \ touched
          PROVE  \/ disk'[p] = before[p]
                 \/ /\ Applied
                    /\ \E i \in WriteItems(req) :
                          /\ T(i).path = p
                          /\ disk'[p] \in {Rendered(Torn), Contract!Fulfilled(T(i), before[p])}
      <3>1. CASE disk'[p] = disk[p]
        BY <2>1, <3>1 DEF DebrisAt
      <3>2. CASE disk'[p] # disk[p]
        <4>1. p \in InPlace /\ disk'[p] = Rendered(Torn)
          BY <1>3, <2>2, <3>2 DEF Put, TypeOK
        <4> QED
          BY <2>3, <4>1
      <3> QED
        BY <3>1, <3>2
    <2>5. Contract!Debris
      <3>1. Tree' \in [Path -> Contract!State]
        BY <1>2, SamePlan DEF RestoreInv, TypeInv, TypeOK
      <3> QED
        BY <1>2, <2>1, <2>4, <3>1, SamePlan DEF Contract!Debris, Applied, T
    <2> QED
      BY <1>1, <1>2, <2>1, <2>5 DEF Contract!Vanish
  <1> QED
    BY <1>4, <1>5

\* The pipeline implements ReconcileContract: every step of it is a step of
\* the contract or none, whatever the requests, the faults and their order.
THEOREM ReconcileImplementsContract == Spec => ImplementsContract
  <1>1. Init => Contract!CInit
    BY SamePlan DEF Init, Contract!CInit, Tree, Stage, Book, Doomed
  <1>2. ContractInv /\ [Next]_vars => [Contract!CNext]_(Contract!cvars)
    <2> SUFFICES ASSUME ContractInv, [Next]_vars
                 PROVE  Contract!CNext \/ UNCHANGED Contract!cvars
      OBVIOUS
    <2>0. TypeOK
      BY DEF ContractInv, RestoreInv, TypeInv
    <2>1. ASSUME NEW r \in Request, Begin(r) PROVE Contract!CNext
      <3>1. Contract!Start(r)
        BY <2>1 DEF Begin, durable, Contract!Start, Tree, Stage, Book, Doomed
      <3> QED
        BY <3>1 DEF Contract!CNext
    <2>2. CASE PlanFails \/ Refuse \/ Admit
      BY <2>2, InsideIsNothing DEF PlanFails, Refuse, Admit, durable
    <2>3. CASE \E i \in DOMAIN outcome : Actuate(i)
      <3>1. /\ phase = "actuate" /\ phase' = "actuate"
            /\ UNCHANGED <<manifest, ledger, runs, req, before, touched, result>>
        BY <2>3 DEF Actuate, Skip, FindUnchanged, Preview, Write, WriteThenHookFails,
                    FindInjected, NoAnchor, Tear, ItemFails, Evaluate, Settle, Ready
      <3> QED
        BY <3>1, InsideIsNothing
    <2>4. CASE \/ ActuateDone \/ VerifyPasses \/ CompileFails \/ VerifyRaises
               \/ FinalizeFails \/ AppendFails \/ RevertDone
      BY <2>4, InsideIsNothing
         DEF ActuateDone, VerifyPasses, CompileFails, VerifyRaises, FinalizeFails,
             AppendFails, RevertDone, GoOn, FailWith, durable, volatile
    <2>5. CASE \E p \in Path : RevertOne(p) \/ RevertFails(p)
      BY <2>5, InsideIsNothing DEF RevertOne, RevertFails
    <2>6. CASE FinishDry
      <3>1. /\ phase = "finalize" /\ req.mode # "apply" /\ Stage = "open" /\ Tree = before
            /\ End("alive") /\ UNCHANGED <<disk, manifest, ledger>>
        BY <2>6 DEF FinishDry, Stage, Tree, durable, Applied
      <3>2. \A p \in Path : disk[p] = before[p]
        BY <3>1 DEF ContractInv, OnlyDebris, DebrisAt, Applied, RestoreInv, CodeTouches
      <3>3. disk = before
        BY <2>0, <3>2 DEF TypeOK
      <3>4. Contract!Approve
        BY <3>1, <3>3, EndIsFinish, FinalIsFeasible DEF Contract!Approve
      <3> QED
        BY <3>4 DEF Contract!CNext
    <2>7. CASE AppendAlive
      BY <2>7, AppendCommits DEF Contract!CNext
    <2>8. CASE Promote \/ PromotePending
      <3>1. /\ phase = "promote" /\ phase' = "prune" /\ manifest' \in {NewManifest, manifest}
            /\ UNCHANGED <<disk, ledger, runs, req, stale, touched, result>>
        BY <2>8 DEF Promote, PromotePending, GoOn, durable, volatile
      <3>2. Contract!Settle(manifest')
        BY <3>1 DEF Contract!Settle, Tree, Stage, Book, Doomed
      <3>3. manifest' \in {Book, manifest}
        BY <3>1 DEF Book
      <3> QED
        BY <3>2, <3>3 DEF Contract!CNext
    <2>9. ASSUME NEW p \in Path, PruneOne(p) PROVE Contract!CNext
      <3>1. Contract!Delete(p)
        BY <2>9 DEF PruneOne, Prunes, Put, Contract!Delete, Tree, Stage, Book, Doomed
      <3> QED
        BY <3>1 DEF Contract!CNext
    <2>10. CASE PruneFails \/ Return
      <3>1. /\ phase = "prune" /\ End("alive") /\ UNCHANGED <<disk, manifest, ledger>>
        BY <2>10 DEF PruneFails, Prunes, Return, durable
      <3>2. Contract!Succeed
        BY <3>1, EndIsFinish DEF Contract!Succeed, Stage, Tree
      <3> QED
        BY <3>2 DEF Contract!CNext
    <2>11. CASE Report
      BY <2>11, ReportFails DEF Contract!CNext
    <2>12. CASE Crash \/ ReportRaises
      BY <2>12, SilenceIsContracted, RestoreStep DEF Contract!CNext, ContractInv
    <2>13. ASSUME NEW p \in Path, UserEdit(p) PROVE Contract!CNext
      <3>1. PICK c \in State : disk' = [disk EXCEPT ![p] = c]
        BY <2>13, UserFileAssumption DEF UserEdit, Put
      <3>2. Contract!Edit(p)
        BY <2>13, <3>1, SamePlan
           DEF UserEdit, volatile, Contract!Edit, Tree, Stage, Book, Doomed
      <3> QED
        BY <3>2 DEF Contract!CNext
    <2>14. CASE UNCHANGED vars
      <3>1. UNCHANGED <<disk, manifest, ledger, phase, runs, req, before, stale, touched, result>>
            /\ NewManifest' = NewManifest
        BY <2>14 DEF vars, durable, volatile, NewManifest, KeepsEntry, GroupOutputs,
                     Committed, Applied, T
      <3> QED
        BY <3>1 DEF Contract!cvars, Tree, Stage, Book, Doomed
    <2>15. ASSUME NEW i \in DOMAIN outcome, NEW p \in Path, SideEffects(i, p)
           PROVE  Contract!CNext
      <3>1. /\ phase \in {"actuate", "revert", "report"} /\ Applied
            /\ i \in Items /\ RunsCode(T(i)) /\ touched' = touched \cup {p}
            /\ UNCHANGED <<manifest, ledger, phase, runs, req, before, observed, stale, result>>
        BY <2>15, SideEffectsFrame DEF ContractInv, RestoreInv
      <3>2. Admissible(req, manifest)
        <4>1. outcome # <<>>
          BY <2>15
        <4> QED
          BY <3>1, <4>1 DEF ContractInv, PlanStands
      <3>3. UNCHANGED <<Tree, Stage, Book, Doomed>> /\ Stage = "open"
        BY <3>1 DEF Tree, Stage, Book, Doomed
      <3>4. Contract!Spill(p)
        BY <3>1, <3>2, <3>3, SamePlan DEF Contract!Spill, Applied, Items, T
      <3> QED
        BY <3>4 DEF Contract!CNext
    <2> QED
      BY <2>1, <2>2, <2>3, <2>4, <2>5, <2>6, <2>7, <2>8, <2>9, <2>10, <2>11, <2>12, <2>13,
         <2>14, <2>15 DEF Next, RunStep
  <1> QED
    BY <1>1, <1>2, ContractHolds, PTL DEF Spec, ImplementsContract, Contract!CSpec

=============================================================================
