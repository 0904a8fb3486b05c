----------------------- MODULE ReconcileReactorProofs -----------------------
(***************************************************************************)
(* Theorems about ReconcileReactor for any set of requests, paths and      *)
(* recipes, any faults and any number of runs.                             *)
(***************************************************************************)
EXTENDS ReconcileReactor, TLAPS

\* A run refused before actuation has nothing left but its report.
RefusedReports == cause = "refused" => phase = "report"

TypeInv == TypeOK /\ RefusedReports

-----------------------------------------------------------------------------
(* The constants and the operators of the plan *)

\* The fields of a request and of its targets have the types run/1 accepts.
LEMMA RequestType ==
    ASSUME NEW r \in Request
    PROVE  /\ r.targets \in Seq(Target)
           /\ r.onStale \in {"refuse", "prune", "preserve"}
           /\ r.mode \in {"apply", "dry", "check"}
           /\ \A i \in DOMAIN r.targets :
                 /\ r.targets[i] \in Target
                 /\ r.targets[i].op \in {"file", "inject", "eval"}
                 /\ r.targets[i].op \in {"file", "inject"} => r.targets[i].path \in Path
                 /\ r.targets[i].op = "file" => r.targets[i].text \in Text
                 /\ r.targets[i].op = "inject" => r.targets[i].frag \in Frag
  <1>1. /\ r.targets \in Seq(Target)
        /\ r.onStale \in {"refuse", "prune", "preserve"}
        /\ r.mode \in {"apply", "dry", "check"}
    BY RequestAssumption
  <1>2. ASSUME NEW i \in DOMAIN r.targets
        PROVE  r.targets[i] \in Target
    BY <1>1
  <1>3. ASSUME NEW t \in Target
        PROVE  /\ t.op \in {"file", "inject", "eval"}
               /\ t.op \in {"file", "inject"} => t.path \in Path
               /\ t.op = "file" => t.text \in Text
               /\ t.op = "inject" => t.frag \in Frag
    BY DEF Target
  <1> QED
    BY <1>1, <1>2, <1>3

\* A rendering is a content and not the absence of a file.
LEMMA RenderedType ==
    ASSUME NEW t \in Text \cup {Torn}
    PROVE  Rendered(t) \in Content
  BY DEF Rendered, Content

\* compute_stale_deletes/2 yields paths of the project.
LEMMA StaleType ==
    ASSUME NEW r, NEW m
    PROVE  StalePaths(r, m) \subseteq Path
  BY DEF StalePaths, OutputPaths

\* What an item writes is a content, so never Absent.
LEMMA DesiredType ==
    ASSUME TypeOK, NEW i \in Items, req \in Request, MustWrite(i) \/ Splices(i)
    PROVE  Desired(i) \in Content
  <1>1. CASE T(i).op = "file"
    BY <1>1, RequestType, RenderedType DEF Desired, T, Items
  <1>2. CASE T(i).op # "file"
    <2>1. T(i).op = "inject" /\ T(i).frag \in Frag /\ T(i).path \in Path
      BY <1>2, RequestType DEF MustWrite, Splices, T, Items
    <2>2. disk[T(i).path] \in Content
      BY <1>2, <2>1 DEF MustWrite, Splices, Anchored, TypeOK, State
    <2>3. ASSUME NEW c \in Content, NEW f \in Frag
          PROVE  [c EXCEPT !.frags = @ \cup {f}] \in Content
      BY DEF Content
    <2> QED
      BY <1>2, <2>1, <2>2, <2>3 DEF Desired
  <1> QED
    BY <1>1, <1>2

\* commit_recipe/5 and commit_recipe_group/5 yield well-typed entries.
LEMMA NewManifestType ==
    ASSUME TypeOK
    PROVE  NewManifest \in [Recipe -> Entry]
  <1>1. ASSUME NEW k \in Recipe
        PROVE  [outputs |-> GroupOutputs(k), run |-> runs] \in Entry
    <2>1. GroupOutputs(k) \in [Path -> State]
      BY DEF GroupOutputs, TypeOK, State
    <2>2. runs \in Nat
      BY BoundsAssumption DEF TypeOK
    <2> QED
      BY <2>1, <2>2 DEF Entry
  <1> QED
    BY <1>1 DEF NewManifest, TypeOK

-----------------------------------------------------------------------------
(* Types *)

\* The state before the first run is well typed.
LEMMA TypeInit == Init => TypeInv
  <1> SUFFICES ASSUME Init PROVE TypeInv
    OBVIOUS
  <1>1. [p \in Path |-> Absent] \in [Path -> State]
    BY DEF State
  <1>2. disk \in [Path -> State] /\ before \in [Path -> State]
    BY <1>1 DEF Init
  <1>3. NoEntry \in Entry
    BY <1>1 DEF NoEntry, Entry
  <1>4. manifest \in [Recipe -> Entry] /\ observed \in [Recipe -> Entry]
    BY <1>3 DEF Init
  <1>5. ledger \in Seq([run : Nat, standing : Standing])
    BY DEF Init
  <1>6. runs \in 0 .. MaxRuns /\ edits \in 0 .. MaxEdits
    BY BoundsAssumption DEF Init
  <1>7. tracked \in [Path -> State \cup {Untracked}]
    BY DEF Init
  <1>8. /\ phase = "idle" /\ req = NoRequest /\ stale = {} /\ outcome = <<>>
        /\ lost = {} /\ touched = {} /\ cause = "none" /\ result = "none"
    BY DEF Init
  <1> QED
    BY <1>2, <1>4, <1>5, <1>6, <1>7, <1>8
       DEF TypeInv, TypeOK, RefusedReports, Phase, Cause

\* The parts of the state that the end of a run resets are well typed.
LEMMA EndType ==
    ASSUME TypeInv, NEW res \in Standing \cup {"none", "raised", "crashed"}, End(res),
           disk' \in [Path -> State], manifest' \in [Recipe -> Entry],
           ledger' \in Seq([run : Nat, standing : Standing])
    PROVE  TypeInv'
  <1>1. tracked' \in [Path -> State \cup {Untracked}]
    BY DEF End
  <1> QED
    BY <1>1 DEF TypeInv, TypeOK, RefusedReports, End, Phase, Cause

\* Actuating one item changes its outcome, its path and its pre-image, within their types.
LEMMA ActuateType ==
    ASSUME TypeInv, NEW i \in DOMAIN outcome, Actuate(i)
    PROVE  TypeInv'
  <1>1. phase = "actuate" /\ req \in Request /\ cause # "refused"
    BY DEF Actuate, Skip, FindUnchanged, Preview, Write, WriteThenHookFails,
           FindInjected, NoAnchor, Tear, ItemFails, Evaluate, Ready, TypeInv,
           TypeOK, RefusedReports
  <1>2. outcome \in [Items -> Outcome] /\ i \in Items
    BY <1>1 DEF TypeInv, TypeOK
  <1>3. ASSUME NEW o \in Outcome, Settle(i, o),
               disk' \in [Path -> State], tracked' \in [Path -> State \cup {Untracked}]
        PROVE  TypeInv'
    <2>1. outcome' \in [Items' -> Outcome]
      BY <1>2, <1>3 DEF Settle, Items
    <2> QED
      BY <1>1, <1>3, <2>1 DEF Settle, TypeInv, TypeOK, RefusedReports
  <1>4. ASSUME Track(T(i).path)
        PROVE  tracked' \in [Path -> State \cup {Untracked}]
    BY <1>4 DEF Track, TypeInv, TypeOK
  <1>5. ASSUME NEW c \in Content, Put(T(i).path, c)
        PROVE  disk' \in [Path -> State]
    BY <1>5 DEF Put, TypeInv, TypeOK, State
  <1>6. CASE Skip(i) \/ Preview(i) \/ FindInjected(i) \/ NoAnchor(i) \/ ItemFails(i)
             \/ Evaluate(i)
    <2>1. disk' \in [Path -> State] /\ tracked' \in [Path -> State \cup {Untracked}]
      BY <1>6 DEF Skip, Preview, FindInjected, NoAnchor, ItemFails, Evaluate,
                  TypeInv, TypeOK
    <2>2. DoneWord(i) \in Outcome
      BY DEF DoneWord, Outcome
    <2> QED
      BY <1>3, <1>6, <2>1, <2>2
         DEF Skip, Preview, FindInjected, NoAnchor, ItemFails, Evaluate, Outcome
  <1>7. CASE FindUnchanged(i)
    BY <1>3, <1>4, <1>7 DEF FindUnchanged, Outcome, TypeInv, TypeOK
  <1>8. CASE Write(i) \/ WriteThenHookFails(i)
    <2>1. Desired(i) \in Content
      BY <1>1, <1>2, <1>8, DesiredType DEF Write, WriteThenHookFails, TypeInv
    <2>2. DoneWord(i) \in Outcome
      BY DEF DoneWord, Outcome
    <2> QED
      BY <1>3, <1>4, <1>5, <1>8, <2>1, <2>2 DEF Write, WriteThenHookFails, Outcome
  <1>9. CASE Tear(i)
    <2>1. Rendered(Torn) \in Content
      BY RenderedType
    <2> QED
      BY <1>3, <1>5, <1>9, <2>1 DEF Tear, Outcome, TypeInv, TypeOK
  <1> QED
    BY <1>6, <1>7, <1>8, <1>9 DEF Actuate

\* Hooks and evaluated code run only where an admitted request of an applying
\* run has some, and change nothing but the file in question.
LEMMA SideEffectsFrame ==
    ASSUME TypeInv, NEW i \in DOMAIN outcome, NEW p \in Path, SideEffects(i, p)
    PROVE  /\ Applied /\ req \in Request /\ phase \in {"actuate", "revert", "report"}
           /\ cause # "refused" /\ outcome \in [Items -> Outcome]
           /\ i \in Items /\ RunsCode(T(i))
           /\ UNCHANGED <<manifest, ledger, phase, runs, edits, req, before, observed, stale,
                          outcome, tracked, lost, cause, result>>
           /\ touched' = touched \cup {p}
           /\ disk' \in [Path -> State]
           /\ \A q \in Path : q # p => disk'[q] = disk[q]
  <1>1. /\ Applied /\ CommandAtWork(i)
        /\ UNCHANGED <<manifest, ledger, phase, runs, edits, req, before, observed, stale,
                       outcome, tracked, lost, cause, result>>
        /\ touched' = touched \cup {p}
    BY DEF SideEffects
  <1>2. phase \in {"actuate", "revert", "report"} /\ RunsCode(T(i))
    BY <1>1 DEF CommandAtWork, Ready, RunsCode
  <1>3. req \in Request /\ cause # "refused" /\ outcome \in [Items -> Outcome]
    <2>1. outcome # <<>>
      OBVIOUS
    <2> QED
      BY <1>2, <2>1 DEF TypeInv, TypeOK
  <1>4. PICK c \in State : disk' = [disk EXCEPT ![p] = c]
    BY UserFileAssumption DEF SideEffects, Put
  <1>5. disk \in [Path -> State]
    BY DEF TypeInv, TypeOK
  <1> QED
    BY <1>1, <1>2, <1>3, <1>4, <1>5

\* Every step of the pipeline and of its environment keeps the types.
LEMMA TypeStep == TypeInv /\ [Next]_vars => TypeInv'
  <1> SUFFICES ASSUME TypeInv, [Next]_vars PROVE TypeInv'
    OBVIOUS
  <1>1. ASSUME NEW r \in Request, Begin(r) PROVE TypeInv'
    <2>1. runs' \in 0 .. MaxRuns
      BY <1>1, BoundsAssumption DEF Begin, TypeInv, TypeOK
    <2> QED
      BY <1>1, <2>1 DEF Begin, TypeInv, TypeOK, RefusedReports, durable, Phase
  <1>2. CASE PlanFails \/ Refuse
    BY <1>2 DEF PlanFails, Refuse, TypeInv, TypeOK, RefusedReports, durable, Phase, Cause
  <1>3. CASE Admit
    <2>1. outcome' \in [Items' -> Outcome]
      BY <1>3 DEF Admit, Items, Outcome
    <2>2. stale' \in SUBSET Path
      BY <1>3, StaleType DEF Admit
    <2> QED
      BY <1>3, <2>1, <2>2 DEF Admit, TypeInv, TypeOK, RefusedReports, durable, Phase
  <1>4. CASE \E i \in DOMAIN outcome : Actuate(i)
    BY <1>4, ActuateType
  <1>5. CASE ActuateDone
    BY <1>5 DEF ActuateDone, FailWith, GoOn, TypeInv, TypeOK, RefusedReports, durable,
                volatile, Phase, Cause, Items
  <1>6. CASE VerifyPasses \/ CompileFails \/ VerifyRaises
    BY <1>6 DEF VerifyPasses, CompileFails, VerifyRaises, FailWith, GoOn, TypeInv,
                TypeOK, RefusedReports, durable, volatile, Phase, Cause, Items
  <1>7. CASE FinalizeFails \/ AppendFails
    BY <1>7 DEF FinalizeFails, AppendFails, FailWith, TypeInv, TypeOK, RefusedReports,
                durable, Phase, Cause, Items
  <1>8. CASE FinishDry \/ PruneFails \/ Return \/ ReportRaises
    <2>1. UNCHANGED durable /\ (End("alive") \/ End("raised"))
      BY <1>8 DEF FinishDry, PruneFails, Return, ReportRaises
    <2> QED
      BY <2>1, EndType DEF durable, Standing, TypeInv, TypeOK
  <1>9. CASE AppendAlive
    <2>1. ledger' \in Seq([run : Nat, standing : Standing])
      BY <1>9, BoundsAssumption DEF AppendAlive, TypeInv, TypeOK, Standing
    <2> QED
      BY <1>9, <2>1 DEF AppendAlive, TypeInv, TypeOK, RefusedReports, volatile, Phase, Items
  <1>10. CASE Promote
    <2>1. manifest' \in [Recipe -> Entry]
      BY <1>10, NewManifestType DEF Promote, TypeInv
    <2> QED
      BY <1>10, <2>1 DEF Promote, TypeInv, TypeOK, RefusedReports, volatile, Phase, Items
  <1>11. CASE PromotePending \/ RevertDone
    BY <1>11 DEF PromotePending, RevertDone, GoOn, TypeInv, TypeOK, RefusedReports,
                 durable, volatile, Phase, Items
  <1>12. ASSUME NEW p \in Path, PruneOne(p) PROVE TypeInv'
    BY <1>12 DEF PruneOne, Put, TypeInv, TypeOK, RefusedReports, State, Items
  <1>13. ASSUME NEW p \in Path, RevertOne(p) PROVE TypeInv'
    <2>1. tracked[p] \in State
      BY <1>13 DEF RevertOne, ToRevert, TypeInv, TypeOK
    <2>2. disk' \in [Path -> State] /\ tracked' \in [Path -> State \cup {Untracked}]
      BY <1>13, <2>1 DEF RevertOne, Put, TypeInv, TypeOK
    <2> QED
      BY <1>13, <2>2 DEF RevertOne, TypeInv, TypeOK, RefusedReports, Items
  <1>14. ASSUME NEW p \in Path, RevertFails(p) PROVE TypeInv'
    <2>1. Rendered(Torn) \in State
      BY RenderedType DEF State
    <2>2. disk' \in [Path -> State]
      BY <1>14, <2>1 DEF RevertFails, Put, TypeInv, TypeOK
    <2>3. tracked' \in [Path -> State \cup {Untracked}] /\ lost' \in SUBSET Path
      BY <1>14 DEF RevertFails, TypeInv, TypeOK
    <2> QED
      BY <1>14, <2>2, <2>3 DEF RevertFails, TypeInv, TypeOK, RefusedReports, Items
  <1>15. CASE Report
    <2>1. FailureStanding \in Standing
      BY DEF FailureStanding, Standing
    <2>2. ledger' \in Seq([run : Nat, standing : Standing])
      <3>1. [run |-> runs, standing |-> FailureStanding] \in [run : Nat, standing : Standing]
        BY <2>1, BoundsAssumption DEF TypeInv, TypeOK
      <3>2. ledger \in Seq([run : Nat, standing : Standing])
        BY DEF TypeInv, TypeOK
      <3>3. \/ ledger' = ledger
            \/ ledger' = Append(ledger, [run |-> runs, standing |-> FailureStanding])
        BY <1>15 DEF Report
      <3>4. Append(ledger, [run |-> runs, standing |-> FailureStanding])
              \in Seq([run : Nat, standing : Standing])
        BY <3>1, <3>2
      <3> QED
        BY <3>2, <3>3, <3>4
    <2> QED
      BY <1>15, <2>1, <2>2, EndType DEF Report, TypeInv, TypeOK
  <1>16. CASE Crash
    <2>1. Rendered(Torn) \in State
      BY RenderedType DEF State
    <2>2. disk' \in [Path -> State]
      BY <1>16, <2>1 DEF Crash, Put, TypeInv, TypeOK
    <2> QED
      BY <1>16, <2>2, EndType DEF Crash, TypeInv, TypeOK
  <1>17. ASSUME NEW p \in Path, UserEdit(p) PROVE TypeInv'
    <2>1. disk' \in [Path -> State]
      BY <1>17, UserFileAssumption DEF UserEdit, Put, TypeInv, TypeOK
    <2>2. edits' \in 0 .. MaxEdits
      BY <1>17, BoundsAssumption DEF UserEdit, TypeInv, TypeOK
    <2> QED
      BY <1>17, <2>1, <2>2 DEF UserEdit, TypeInv, TypeOK, RefusedReports, volatile
  <1>18. CASE UNCHANGED vars
    BY <1>18 DEF vars, durable, volatile, TypeInv, TypeOK, RefusedReports, Items
  <1>19. ASSUME NEW i \in DOMAIN outcome, NEW p \in Path, SideEffects(i, p) PROVE TypeInv'
    BY <1>19, SideEffectsFrame DEF TypeInv, TypeOK, RefusedReports, Items
  <1> QED
    BY <1>1, <1>2, <1>3, <1>4, <1>5, <1>6, <1>7, <1>8, <1>9, <1>10, <1>11, <1>12,
       <1>13, <1>14, <1>15, <1>16, <1>17, <1>18, <1>19 DEF Next, RunStep

\* The types, and that a refused run only has its report left, hold in every reachable state.
LEMMA TypeHolds == Spec => []TypeInv
  <1> QED
    BY TypeInit, TypeStep, PTL DEF Spec

\* Files, manifest, receipts and the state of a run are well formed whatever
\* fails, and the request in hand is the one the run began with.
THEOREM ReconcileTypeCorrect == Spec => []TypeOK
  <1>1. TypeInv => TypeOK
    BY DEF TypeInv
  <1> QED
    BY <1>1, TypeHolds, PTL

-----------------------------------------------------------------------------
(* Receipts and the manifest *)

\* The phases before and after the run's :alive receipt is appended.
Unproven == {"plan", "actuate", "verify", "finalize", "revert", "report"}
Proven == {"promote", "prune"}

Alive(run) == \E n \in DOMAIN ledger : ledger[n] = [run |-> run, standing |-> "alive"]

\* Receipts bear the numbers of runs that have started.
ReceiptsAreOfRuns == \A n \in DOMAIN ledger : ledger[n].run \in 1 .. runs

UnprovenHasNoReceipt == phase \in Unproven => \A n \in DOMAIN ledger : ledger[n].run # runs

ProvenHasReceipt == phase \in Proven => Alive(runs)

\* The manifest a run loaded, and may copy entries of, was evidenced too.
ObservedNeedsReceipt ==
    phase # "idle" => \A k \in Recipe : observed[k].run # 0 => Alive(observed[k].run)

\* A run number that has receipts is positive.
Started == phase # "idle" => runs > 0

ReceiptInv ==
    /\ TypeInv
    /\ ReceiptsAreOfRuns
    /\ UnprovenHasNoReceipt
    /\ ProvenHasReceipt
    /\ ObservedNeedsReceipt
    /\ Started
    /\ ManifestNeedsReceipt

\* Before the first run there is no receipt and no manifest entry.
LEMMA ReceiptInit == Init => ReceiptInv
  <1> SUFFICES ASSUME Init PROVE ReceiptInv
    OBVIOUS
  <1>1. TypeInv
    BY TypeInit
  <1>2. manifest = [k \in Recipe |-> NoEntry] /\ NoEntry.run = 0
    BY DEF Init, NoEntry
  <1>3. DOMAIN ledger = {} /\ phase = "idle"
    BY DEF Init
  <1> QED
    BY <1>1, <1>2, <1>3
       DEF ReceiptInv, ReceiptsAreOfRuns, UnprovenHasNoReceipt, ProvenHasReceipt,
           ObservedNeedsReceipt, Started, ManifestNeedsReceipt, Unproven, Proven

\* A step that leaves the log, the manifests and the run number alone and does
\* not cross the append keeps the invariant.
LEMMA ReceiptFrame ==
    ASSUME ReceiptInv, TypeInv', UNCHANGED <<manifest, ledger, runs, observed>>,
           \/ phase' = "idle"
           \/ phase \in Unproven /\ phase' \in Unproven
           \/ phase \in Proven /\ phase' \in Proven
    PROVE  ReceiptInv'
  <1>1. phase' # "idle" => phase # "idle"
    BY DEF Unproven, Proven
  <1> QED
    BY <1>1 DEF ReceiptInv, ReceiptsAreOfRuns, UnprovenHasNoReceipt, ProvenHasReceipt,
                ObservedNeedsReceipt, Started, ManifestNeedsReceipt, Alive,
                Unproven, Proven

\* Appending a receipt for the current run keeps what the log evidenced.
LEMMA AppendKeeps ==
    ASSUME TypeOK, NEW s \in Standing,
           ledger' = Append(ledger, [run |-> runs, standing |-> s])
    PROVE  /\ \A run : Alive(run) => Alive(run)'
           /\ \A n \in DOMAIN ledger' :
                 \/ n \in DOMAIN ledger /\ ledger'[n] = ledger[n]
                 \/ n = Len(ledger) + 1 /\ ledger'[n] = [run |-> runs, standing |-> s]
           /\ Len(ledger) + 1 \in DOMAIN ledger'
           /\ ledger'[Len(ledger) + 1] = [run |-> runs, standing |-> s]
  <1>1. ledger \in Seq([run : Nat, standing : Standing])
    BY DEF TypeOK
  <1>2. /\ DOMAIN ledger = 1 .. Len(ledger)
        /\ DOMAIN ledger' = 1 .. Len(ledger) + 1
        /\ Len(ledger) \in Nat
        /\ \A n \in 1 .. Len(ledger) : ledger'[n] = ledger[n]
        /\ ledger'[Len(ledger) + 1] = [run |-> runs, standing |-> s]
    BY <1>1
  <1>3. \A run : Alive(run) => Alive(run)'
    <2>1. SUFFICES ASSUME NEW run, Alive(run) PROVE Alive(run)'
      OBVIOUS
    <2>2. PICK n \in DOMAIN ledger : ledger[n] = [run |-> run, standing |-> "alive"]
      BY <2>1 DEF Alive
    <2>3. n \in DOMAIN ledger' /\ ledger'[n] = ledger[n]
      BY <1>2, <2>2
    <2> QED
      BY <2>2, <2>3 DEF Alive
  <1>4. ASSUME NEW n \in DOMAIN ledger'
        PROVE  \/ n \in DOMAIN ledger /\ ledger'[n] = ledger[n]
               \/ n = Len(ledger) + 1 /\ ledger'[n] = [run |-> runs, standing |-> s]
    BY <1>2
  <1>5. /\ Len(ledger) + 1 \in DOMAIN ledger'
        /\ ledger'[Len(ledger) + 1] = [run |-> runs, standing |-> s]
    BY <1>2
  <1> QED
    BY <1>3, <1>4, <1>5

\* Every step keeps the accounts between the receipt log, the manifest and the phase.
LEMMA ReceiptStep == ReceiptInv /\ [Next]_vars => ReceiptInv'
  <1> SUFFICES ASSUME ReceiptInv, [Next]_vars PROVE ReceiptInv'
    OBVIOUS
  <1>0. TypeInv'
    BY TypeStep DEF ReceiptInv
  <1>1. ASSUME NEW r \in Request, Begin(r) PROVE ReceiptInv'
    <2>1. /\ runs \in Nat /\ runs' = runs + 1 /\ phase' = "plan"
          /\ UNCHANGED <<ledger, manifest>> /\ observed' = manifest
      BY <1>1, BoundsAssumption DEF Begin, durable, ReceiptInv, TypeInv, TypeOK
    <2>2. \A n \in DOMAIN ledger : ledger[n].run \in 1 .. runs' /\ ledger[n].run # runs'
      BY <2>1 DEF ReceiptInv, ReceiptsAreOfRuns
    <2> QED
      BY <1>0, <2>1, <2>2
         DEF ReceiptInv, ReceiptsAreOfRuns, UnprovenHasNoReceipt, ProvenHasReceipt,
             ObservedNeedsReceipt, Started, ManifestNeedsReceipt, Alive, Unproven, Proven
  <1>2. CASE PlanFails \/ Refuse \/ Admit \/ VerifyPasses \/ CompileFails \/ VerifyRaises
    BY <1>0, <1>2, ReceiptFrame
       DEF PlanFails, Refuse, Admit, VerifyPasses, CompileFails, VerifyRaises, GoOn,
           FailWith, durable, volatile, Unproven
  <1>3. CASE ActuateDone \/ FinalizeFails \/ AppendFails \/ PromotePending \/ RevertDone
    BY <1>0, <1>3, ReceiptFrame
       DEF ActuateDone, FinalizeFails, AppendFails, PromotePending, RevertDone, GoOn,
           FailWith, durable, volatile, Unproven, Proven
  <1>4. ASSUME NEW i \in DOMAIN outcome, Actuate(i) PROVE ReceiptInv'
    <2>1. phase = "actuate" /\ UNCHANGED <<manifest, ledger, runs, observed, phase>>
      BY <1>4 DEF Actuate, Skip, FindUnchanged, Preview, Write, WriteThenHookFails,
                  FindInjected, NoAnchor, Tear, ItemFails, Evaluate, Ready, Settle
    <2> QED
      BY <1>0, <2>1, ReceiptFrame DEF Unproven
  <1>5. CASE FinishDry \/ PruneFails \/ Return \/ ReportRaises \/ Crash
    BY <1>0, <1>5, ReceiptFrame
       DEF FinishDry, PruneFails, Return, ReportRaises, Crash, End, durable
  <1>6. ASSUME NEW p \in Path, PruneOne(p) \/ RevertOne(p) \/ RevertFails(p)
        PROVE  ReceiptInv'
    BY <1>0, <1>6, ReceiptFrame
       DEF PruneOne, Prunes, RevertOne, RevertFails, Unproven, Proven
  <1>7. CASE AppendAlive
    <2>1. /\ ledger' = Append(ledger, [run |-> runs, standing |-> "alive"])
          /\ phase # "idle" /\ phase' = "promote"
          /\ UNCHANGED <<manifest, runs, observed>>
      BY <1>7 DEF AppendAlive, volatile
    <2>2. runs \in 1 .. runs
      BY <2>1, BoundsAssumption DEF ReceiptInv, Started, TypeInv, TypeOK
    <2>3. /\ \A run : Alive(run) => Alive(run)'
          /\ \A n \in DOMAIN ledger' :
                \/ n \in DOMAIN ledger /\ ledger'[n] = ledger[n]
                \/ ledger'[n] = [run |-> runs, standing |-> "alive"]
          /\ Alive(runs)'
      BY <2>1, AppendKeeps DEF ReceiptInv, TypeInv, Standing, Alive
    <2>4. ReceiptsAreOfRuns'
      BY <2>1, <2>2, <2>3 DEF ReceiptInv, ReceiptsAreOfRuns
    <2>5. UnprovenHasNoReceipt' /\ ProvenHasReceipt' /\ Started'
      BY <2>1, <2>3 DEF UnprovenHasNoReceipt, ProvenHasReceipt, Unproven, Started,
                        ReceiptInv, Alive
    <2>6. ObservedNeedsReceipt' /\ ManifestNeedsReceipt'
      BY <2>1, <2>3 DEF ObservedNeedsReceipt, ManifestNeedsReceipt, ReceiptInv, Alive
    <2> QED
      BY <1>0, <2>4, <2>5, <2>6 DEF ReceiptInv
  <1>8. CASE Promote
    <2>1. ASSUME NEW k \in Recipe
          PROVE  manifest'[k].run \in {observed[k].run, runs}
      BY <1>8 DEF Promote, NewManifest
    <2>2. /\ phase = "promote" /\ phase' = "prune"
          /\ UNCHANGED <<ledger, runs, observed>>
      BY <1>8 DEF Promote, volatile
    <2>3. ManifestNeedsReceipt'
      BY <2>1, <2>2 DEF ManifestNeedsReceipt, ReceiptInv, ObservedNeedsReceipt,
                        ProvenHasReceipt, Proven, Alive
    <2> QED
      BY <1>0, <2>2, <2>3
         DEF ReceiptInv, ReceiptsAreOfRuns, UnprovenHasNoReceipt, ProvenHasReceipt,
             ObservedNeedsReceipt, Started, Alive, Unproven, Proven
  <1>9. CASE Report
    <2>1. /\ phase = "report" /\ phase' = "idle"
          /\ UNCHANGED <<manifest, runs, observed>>
      BY <1>9 DEF Report, End
    <2>2. CASE UNCHANGED ledger
      BY <1>0, <2>1, <2>2, ReceiptFrame
    <2>3. CASE ledger' = Append(ledger, [run |-> runs, standing |-> FailureStanding])
      <3>1. FailureStanding \in Standing
        BY DEF FailureStanding, Standing
      <3>2. runs \in 1 .. runs
        BY <2>1, BoundsAssumption DEF ReceiptInv, Started, TypeInv, TypeOK
      <3>3. /\ \A run : Alive(run) => Alive(run)'
            /\ \A n \in DOMAIN ledger' :
                  \/ n \in DOMAIN ledger /\ ledger'[n] = ledger[n]
                  \/ ledger'[n] = [run |-> runs, standing |-> FailureStanding]
        BY <2>3, <3>1, AppendKeeps DEF ReceiptInv, TypeInv
      <3>4. ReceiptsAreOfRuns'
        BY <2>1, <3>2, <3>3 DEF ReceiptInv, ReceiptsAreOfRuns
      <3>5. ManifestNeedsReceipt'
        BY <2>1, <3>3 DEF ManifestNeedsReceipt, ReceiptInv, Alive
      <3> QED
        BY <1>0, <2>1, <3>4, <3>5
           DEF ReceiptInv, UnprovenHasNoReceipt, ProvenHasReceipt,
               ObservedNeedsReceipt, Started, Unproven, Proven
    <2> QED
      BY <1>9, <2>2, <2>3 DEF Report
  <1>10. ASSUME NEW p \in Path, UserEdit(p) PROVE ReceiptInv'
    BY <1>0, <1>10, ReceiptFrame DEF UserEdit, volatile
  <1>11. CASE UNCHANGED vars
    BY <1>0, <1>11 DEF vars, durable, volatile, ReceiptInv, ReceiptsAreOfRuns,
           UnprovenHasNoReceipt, ProvenHasReceipt, ObservedNeedsReceipt, Started,
           ManifestNeedsReceipt, Alive
  <1>12. ASSUME NEW i \in DOMAIN outcome, NEW p \in Path, SideEffects(i, p) PROVE ReceiptInv'
    BY <1>0, <1>12, SideEffectsFrame, ReceiptFrame DEF ReceiptInv, Unproven
  <1> QED
    BY <1>1, <1>2, <1>3, <1>4, <1>5, <1>6, <1>7, <1>8, <1>9, <1>10, <1>11, <1>12
       DEF Next, RunStep

\* The accounts of receipts and manifest hold in every reachable state.
LEMMA ReceiptHolds == Spec => []ReceiptInv
  <1> QED
    BY ReceiptInit, ReceiptStep, PTL DEF Spec

\* A run that has written its :alive receipt is never compensated and never
\* writes a second one.
THEOREM ReconcileAliveNeverUndone == Spec => []AliveNeverUndone
  <1>1. ReceiptInv => AliveNeverUndone
    BY DEF ReceiptInv, UnprovenHasNoReceipt, AliveNeverUndone, Unproven
  <1> QED
    BY <1>1, ReceiptHolds, PTL

\* Every manifest entry was recorded by a run whose :alive receipt is in the log.
THEOREM ReconcileManifestEvidenced == Spec => []ManifestNeedsReceipt
  <1>1. ReceiptInv => ManifestNeedsReceipt
    BY DEF ReceiptInv
  <1> QED
    BY <1>1, ReceiptHolds, PTL

-----------------------------------------------------------------------------
(* What an :alive run has done to the project, what a prune may delete and  *)
(* what a dry run leaves alone, for any requests, faults and interleaving.  *)

Admitted == {"actuate", "verify", "finalize", "promote", "prune"}
Settled == Admitted \ {"actuate"}

\* The deletions in hand are among those the plan computed.
StaleIsPlanned ==
    IF phase \in {"idle", "plan"} THEN stale = {} ELSE stale \subseteq StalePaths(req, observed)

\* What admission ensured, for as long as the run goes forward.
PlanIsDisjoint ==
    phase \in Admitted =>
        /\ \A i, j \in WriteItems(req) : T(i).path = T(j).path => i = j
        /\ \A i \in WriteItems(req) : T(i).path \notin stale

\* What an item that ended well left at its path, unless code changed it.
Done(i) ==
    /\ T(i).op = "file" =>
          /\ outcome[i] \notin {"injected", "evaluated"}
          /\ outcome[i] \in {"written", "unchanged"} =>
                T(i).path \in touched \/ disk[T(i).path] = Rendered(T(i).text)
    /\ T(i).op = "inject" =>
          /\ outcome[i] \notin {"written", "skipped", "evaluated"}
          /\ outcome[i] \in {"injected", "unchanged"} =>
                \/ T(i).path \in touched
                \/ disk[T(i).path] # Absent /\ T(i).frag \in disk[T(i).path].frags

ItemsDone == phase \in Admitted /\ Applied => \A i \in Items : Done(i)

NoneFailed ==
    phase \in Settled => \A i \in Items : outcome[i] \notin {"pending", "failed", "hook_failed"}

\* A dry run has nothing to compensate and never reaches the manifest.
DryIsIdle ==
    phase # "idle" /\ ~Applied =>
        phase \notin {"promote", "prune"} /\ \A p \in Path : tracked[p] = Untracked

IdleTracksNothing == phase = "idle" => \A p \in Path : tracked[p] = Untracked

OutcomeInv ==
    /\ ReceiptInv
    /\ StaleIsPlanned
    /\ PlanIsDisjoint
    /\ ItemsDone
    /\ NoneFailed
    /\ DryIsIdle
    /\ IdleTracksNothing

-----------------------------------------------------------------------------

\* A project with no run in progress satisfies the outcome invariant.
LEMMA OutcomeInit == Init => OutcomeInv
  <1> SUFFICES ASSUME Init PROVE OutcomeInv
    OBVIOUS
  <1>1. ReceiptInv
    BY ReceiptInit
  <1>2. phase = "idle" /\ stale = {} /\ \A p \in Path : tracked[p] = Untracked
    BY DEF Init
  <1> QED
    BY <1>1, <1>2 DEF OutcomeInv, StaleIsPlanned, PlanIsDisjoint, ItemsDone, NoneFailed,
                      DryIsIdle, IdleTracksNothing, Admitted, Settled

\* Ending a run, however it ends, leaves nothing the invariant speaks about.
LEMMA OutcomeEnd ==
    ASSUME ReceiptInv', NEW res, End(res)
    PROVE  OutcomeInv'
  <1>1. phase' = "idle" /\ stale' = {} /\ \A p \in Path : tracked'[p] = Untracked
    BY DEF End
  <1> QED
    BY <1>1 DEF OutcomeInv, StaleIsPlanned, PlanIsDisjoint, ItemsDone, NoneFailed,
                DryIsIdle, IdleTracksNothing, Admitted, Settled

\* A run that fails, or is failing, keeps only the plan's part of the invariant.
LEMMA OutcomeFailing ==
    ASSUME OutcomeInv, ReceiptInv', phase \notin {"idle", "plan"},
           phase' \in {"revert", "report"}, UNCHANGED <<req, observed, stale>>,
           \A p \in Path : tracked'[p] \in {tracked[p], Untracked}
    PROVE  OutcomeInv'
  <1>1. StaleIsPlanned'
    BY DEF OutcomeInv, StaleIsPlanned
  <1>2. DryIsIdle' /\ IdleTracksNothing'
    BY DEF OutcomeInv, DryIsIdle, IdleTracksNothing, Applied
  <1> QED
    BY <1>1, <1>2 DEF OutcomeInv, PlanIsDisjoint, ItemsDone, NoneFailed, Admitted, Settled

\* Going forward with the files as they are.
LEMMA OutcomeForward ==
    ASSUME OutcomeInv, ReceiptInv', phase \in Admitted, phase' \in Settled,
           UNCHANGED <<disk, req, observed, stale, outcome, tracked, touched>>,
           phase' \in {"promote", "prune"} => Applied,
           \A i \in Items : outcome[i] \notin {"pending", "failed", "hook_failed"}
    PROVE  OutcomeInv'
  <1>1. StaleIsPlanned' /\ PlanIsDisjoint'
    BY DEF OutcomeInv, StaleIsPlanned, PlanIsDisjoint, Admitted, Settled, T
  <1>2. ItemsDone' /\ NoneFailed'
    BY DEF OutcomeInv, ItemsDone, NoneFailed, Done, Admitted, Settled, Applied, T, Items
  <1>3. DryIsIdle' /\ IdleTracksNothing'
    BY DEF OutcomeInv, DryIsIdle, IdleTracksNothing, Admitted, Settled, Applied
  <1> QED
    BY <1>1, <1>2, <1>3 DEF OutcomeInv

\* The plan survives every item, and an item disturbs no other item's path.
LEMMA OutcomeActuate ==
    ASSUME OutcomeInv, ReceiptInv', NEW i \in DOMAIN outcome, Actuate(i)
    PROVE  OutcomeInv'
  <1> USE DEF OutcomeInv
  <1>1. TypeOK
    BY DEF ReceiptInv, TypeInv
  <1>2. PICK o \in Outcome : Ready(i) /\ Settle(i, o)
    BY DEF Actuate, Skip, FindUnchanged, Preview, Write, WriteThenHookFails,
           FindInjected, NoAnchor, Tear, ItemFails, Evaluate, DoneWord, Outcome
  <1>3. /\ phase = "actuate" /\ phase' = "actuate" /\ req \in Request
        /\ i \in Items /\ outcome \in [Items -> Outcome]
        /\ UNCHANGED <<req, observed, stale, touched>>
        /\ outcome' = [outcome EXCEPT ![i] = o]
    BY <1>1, <1>2 DEF Ready, Settle, ReceiptInv, TypeInv, TypeOK, RefusedReports
  <1>4. StaleIsPlanned' /\ PlanIsDisjoint' /\ NoneFailed' /\ IdleTracksNothing'
    BY <1>3 DEF StaleIsPlanned, PlanIsDisjoint, NoneFailed, IdleTracksNothing, Settled, T
  <1>5. DryIsIdle'
    BY <1>3 DEF Actuate, Skip, FindUnchanged, Preview, Write, WriteThenHookFails,
           FindInjected, NoAnchor, Tear, ItemFails, Evaluate, DryIsIdle, Applied
  <1>6. ItemsDone'
    <2> SUFFICES ASSUME Applied, NEW j \in Items PROVE Done(j)'
      BY <1>3 DEF ItemsDone, Applied, Items
    <2>1. Done(j)
      BY <1>3 DEF ItemsDone, Admitted
    <2>2. T(j) = req.targets[j] /\ T(j)' = T(j)
      BY <1>3 DEF T
    <2>3. \A p \in Path : p # T(i).path => disk'[p] = disk[p]
      BY <1>1 DEF Actuate, Skip, FindUnchanged, Preview, Write, WriteThenHookFails,
           FindInjected, NoAnchor, Tear, ItemFails, Evaluate, Put, TypeOK
    <2>4. T(i).op = "eval" => disk' = disk
      BY DEF Actuate, Skip, FindUnchanged, Preview, Write, WriteThenHookFails,
           FindInjected, NoAnchor, Tear, ItemFails, Evaluate, MustWrite, Splices
    <2>5. CASE j # i
      <3>1. outcome'[j] = outcome[j]
        BY <1>3, <2>5
      <3>2. T(j).op \in {"file", "inject"} => disk'[T(j).path] = disk[T(j).path]
        <4>1. SUFFICES ASSUME T(j).op \in {"file", "inject"}, T(i).op \in {"file", "inject"}
                       PROVE  disk'[T(j).path] = disk[T(j).path]
          BY <1>3, <2>4, RequestType DEF T, Items
        <4>2. T(j).path # T(i).path /\ T(j).path \in Path
          BY <1>3, <2>5, <4>1, RequestType DEF PlanIsDisjoint, Admitted, WriteItems, T, Items
        <4> QED
          BY <2>3, <4>2
      <3> QED
        BY <1>3, <2>1, <2>2, <3>1, <3>2 DEF Done
    <2>6. CASE j = i
      <3>1. T(i).op \in {"file", "inject"} => T(i).path \in Path
        BY <1>3, RequestType DEF T, Items
      <3>2. outcome'[i] = o
        BY <1>3
      <3>3. CASE T(i).op = "file"
        <4>1. o \in {"skipped", "unchanged", "written", "hook_failed", "failed"}
              /\ (o \in {"written", "unchanged"} => disk'[T(i).path] = Rendered(T(i).text))
          <5>1. CASE Skip(i) \/ ItemFails(i)
            BY <1>2, <1>3, <5>1 DEF Skip, ItemFails, Settle
          <5>2. CASE FindUnchanged(i)
            BY <1>2, <1>3, <5>2 DEF FindUnchanged, Settle
          <5>3. CASE Write(i) \/ WriteThenHookFails(i)
            <6>1. disk'[T(i).path] = Rendered(T(i).text)
              BY <1>1, <3>1, <3>3, <5>3
                 DEF Write, WriteThenHookFails, Put, Desired, TypeOK
            <6> QED
              BY <1>3, <3>2, <3>3, <5>3, <6>1
                 DEF Write, WriteThenHookFails, Settle, DoneWord
          <5> QED
            BY <3>3, <5>1, <5>2, <5>3
               DEF Actuate, Preview, FindInjected, NoAnchor, Tear, Evaluate, Splices
        <4> QED
          BY <2>2, <2>6, <3>2, <3>3, <4>1 DEF Done
      <3>4. CASE T(i).op = "inject"
        <4>1. o \in {"injected", "unchanged", "hook_failed", "failed"}
              /\ (o \in {"injected", "unchanged"} =>
                    disk'[T(i).path] # Absent /\ T(i).frag \in disk'[T(i).path].frags)
          <5>1. CASE NoAnchor(i) \/ ItemFails(i) \/ Tear(i)
            BY <1>3, <3>2, <5>1 DEF NoAnchor, ItemFails, Tear, Settle
          <5>2. CASE FindInjected(i)
            BY <1>3, <3>2, <5>2 DEF FindInjected, Settle, Anchored
          <5>3. CASE Write(i) \/ WriteThenHookFails(i)
            <6>1. Splices(i)
              BY <3>4, <5>3 DEF Write, WriteThenHookFails, MustWrite
            <6>2. Desired(i) \in Content /\ Desired(i) # Absent
              BY <1>1, <1>3, <6>1, DesiredType, FreshAssumption
            <6>3. T(i).frag \in Desired(i).frags
              <7>1. disk[T(i).path] \in Content
                BY <1>1, <3>1, <6>1 DEF TypeOK, State, Splices, Anchored
              <7>2. \A c \in Content : \A f : f \in [c EXCEPT !.frags = @ \cup {f}].frags
                BY DEF Content
              <7> QED
                BY <3>4, <7>1, <7>2 DEF Desired
            <6>4. disk'[T(i).path] = Desired(i)
              BY <1>1, <3>1, <3>4, <5>3 DEF Write, WriteThenHookFails, Put, TypeOK
            <6> QED
              BY <1>3, <3>2, <3>4, <5>3, <6>2, <6>3, <6>4
                 DEF Write, WriteThenHookFails, Settle, DoneWord
          <5> QED
            BY <3>4, <5>1, <5>2, <5>3
               DEF Actuate, Skip, FindUnchanged, Preview, Evaluate
        <4> QED
          BY <2>2, <2>6, <3>2, <3>4, <4>1 DEF Done
      <3>5. CASE T(i).op \notin {"file", "inject"}
        BY <2>2, <2>6, <3>5 DEF Done
      <3> QED
        BY <3>3, <3>4, <3>5
    <2> QED
      BY <2>5, <2>6
  <1> QED
    BY <1>4, <1>5, <1>6

\* Every step of a run, a crash and a user edit preserve the outcome invariant.
LEMMA OutcomeStep == OutcomeInv /\ [Next]_vars => OutcomeInv'
  <1> SUFFICES ASSUME OutcomeInv, [Next]_vars PROVE OutcomeInv'
    OBVIOUS
  <1>0. ReceiptInv'
    BY ReceiptStep DEF OutcomeInv
  <1>1. ASSUME NEW r \in Request, Begin(r) PROVE OutcomeInv'
    BY <1>0, <1>1 DEF Begin, durable, OutcomeInv, StaleIsPlanned, PlanIsDisjoint, ItemsDone,
       NoneFailed, DryIsIdle, IdleTracksNothing, Admitted, Settled
  <1>2. CASE PlanFails \/ Refuse
    <2>1. /\ phase = "plan" /\ phase' = "report"
          /\ UNCHANGED <<req, observed, stale, tracked>>
      BY <1>2 DEF PlanFails, Refuse
    <2> QED
      BY <1>0, <2>1 DEF OutcomeInv, StaleIsPlanned, PlanIsDisjoint, ItemsDone,
         NoneFailed, DryIsIdle, IdleTracksNothing, Admitted, Settled, Applied
  <1>3. CASE Admit
    <2>1. /\ phase = "plan" /\ phase' = "actuate"
          /\ UNCHANGED <<req, observed, tracked>>
          /\ stale' = StalePaths(req, observed)
          /\ outcome' = [i \in Items |-> "pending"]
          /\ Admissible(req, observed)
      BY <1>3 DEF Admit
    <2>2. StaleIsPlanned' /\ NoneFailed' /\ IdleTracksNothing'
      BY <2>1 DEF StaleIsPlanned, NoneFailed, IdleTracksNothing, Settled
    <2>3. PlanIsDisjoint'
      BY <2>1 DEF Admissible, PlanIsDisjoint, T
    <2>4. ItemsDone'
      BY <2>1 DEF ItemsDone, Done, Items
    <2>5. DryIsIdle'
      BY <2>1 DEF OutcomeInv, DryIsIdle, Applied
    <2> QED
      BY <1>0, <2>2, <2>3, <2>4, <2>5 DEF OutcomeInv
  <1>4. CASE \E i \in DOMAIN outcome : Actuate(i)
    BY <1>0, <1>4, OutcomeActuate
  <1>5. CASE ActuateDone
    <2>1. CASE SomeFailed
      BY <1>0, <1>5, <2>1, OutcomeFailing DEF ActuateDone, FailWith
    <2>2. CASE ~SomeFailed
      <3>1. \A i \in Items : outcome[i] \notin {"pending", "failed", "hook_failed"}
        BY <1>5, <2>2 DEF ActuateDone, SomeFailed
      <3> QED
        BY <1>0, <1>5, <2>2, <3>1, OutcomeForward
           DEF ActuateDone, GoOn, durable, volatile, Admitted, Settled
    <2> QED
      BY <2>1, <2>2
  <1>6. CASE CompileFails \/ VerifyRaises \/ FinalizeFails \/ AppendFails
    BY <1>0, <1>6, OutcomeFailing
       DEF CompileFails, VerifyRaises, FinalizeFails, AppendFails, FailWith
  <1>7. CASE VerifyPasses \/ AppendAlive \/ Promote \/ PromotePending
    <2>1. /\ phase \in Settled /\ phase' \in Settled
          /\ UNCHANGED <<disk, req, observed, stale, outcome, tracked, touched>>
      BY <1>7 DEF VerifyPasses, AppendAlive, Promote, PromotePending, GoOn, durable,
                  volatile, Admitted, Settled
    <2>2. phase' \in {"promote", "prune"} => Applied
      BY <1>7 DEF VerifyPasses, AppendAlive, Promote, PromotePending, GoOn, OutcomeInv, DryIsIdle
    <2>3. \A i \in Items : outcome[i] \notin {"pending", "failed", "hook_failed"}
      BY <2>1 DEF OutcomeInv, NoneFailed
    <2> QED
      BY <1>0, <2>1, <2>2, <2>3, OutcomeForward DEF Settled
  <1>8. ASSUME NEW p \in Path, PruneOne(p) PROVE OutcomeInv'
    <2>1. /\ phase = "prune" /\ phase' = "prune" /\ p \in stale
          /\ UNCHANGED <<req, observed, outcome, tracked, touched>>
          /\ stale' \subseteq stale
          /\ \A q \in Path : q # p => disk'[q] = disk[q]
      BY <1>8 DEF PruneOne, Prunes, Put, OutcomeInv, ReceiptInv, TypeInv, TypeOK
    <2>2. StaleIsPlanned' /\ PlanIsDisjoint' /\ NoneFailed'
      BY <2>1 DEF OutcomeInv, StaleIsPlanned, PlanIsDisjoint, NoneFailed, Admitted, Settled,
                  T, Items
    <2>3. ItemsDone'
      <3> SUFFICES ASSUME Applied, NEW i \in Items PROVE Done(i)'
        BY <2>1 DEF ItemsDone, Applied, Items
      <3>1. Done(i)
        BY <2>1 DEF OutcomeInv, ItemsDone, Admitted
      <3>2. T(i).op \in {"file", "inject"} => disk'[T(i).path] = disk[T(i).path]
        <4>1. req \in Request
          BY <2>1 DEF OutcomeInv, ReceiptInv, TypeInv, TypeOK
        <4>2. T(i).op \in {"file", "inject"} => T(i).path \in Path /\ T(i).path # p
          BY <2>1, <4>1, RequestType DEF OutcomeInv, PlanIsDisjoint, Admitted, WriteItems, T, Items
        <4> QED
          BY <2>1, <4>2
      <3>3. T(i)' = T(i)
        BY <2>1 DEF T
      <3> QED
        BY <2>1, <3>1, <3>2, <3>3 DEF Done
    <2>4. DryIsIdle' /\ IdleTracksNothing'
      BY <2>1 DEF OutcomeInv, DryIsIdle, IdleTracksNothing, Applied
    <2> QED
      BY <1>0, <2>2, <2>3, <2>4 DEF OutcomeInv
  <1>9. ASSUME NEW p \in Path, RevertOne(p) \/ RevertFails(p) PROVE OutcomeInv'
    <2>1. \A q \in Path : tracked'[q] \in {tracked[q], Untracked}
      BY <1>9 DEF RevertOne, RevertFails, OutcomeInv, ReceiptInv, TypeInv, TypeOK
    <2> QED
      BY <1>0, <1>9, <2>1, OutcomeFailing DEF RevertOne, RevertFails
  <1>10. CASE RevertDone
    BY <1>0, <1>10, OutcomeFailing DEF RevertDone, GoOn, volatile
  <1>11. CASE FinishDry \/ PruneFails \/ Return \/ ReportRaises \/ Report \/ Crash
    BY <1>0, <1>11, OutcomeEnd
       DEF FinishDry, PruneFails, Return, ReportRaises, Report, Crash
  <1>12. ASSUME NEW p \in Path, UserEdit(p) PROVE OutcomeInv'
    BY <1>0, <1>12 DEF UserEdit, volatile, OutcomeInv, StaleIsPlanned, PlanIsDisjoint,
       ItemsDone, NoneFailed, DryIsIdle, IdleTracksNothing, Admitted, Settled
  <1>13. CASE UNCHANGED vars
    BY <1>0, <1>13 DEF vars, durable, volatile, OutcomeInv, StaleIsPlanned, PlanIsDisjoint,
       ItemsDone, Done, NoneFailed, DryIsIdle, IdleTracksNothing, Admitted, Settled,
       Applied, T, Items
  <1>14. ASSUME NEW i \in DOMAIN outcome, NEW p \in Path, SideEffects(i, p) PROVE OutcomeInv'
    <2>1. /\ phase \in {"actuate", "revert", "report"} /\ req \in Request
          /\ UNCHANGED <<phase, req, observed, stale, outcome, tracked>>
          /\ touched' = touched \cup {p}
          /\ \A q \in Path : q # p => disk'[q] = disk[q]
      BY <1>14, SideEffectsFrame DEF OutcomeInv, ReceiptInv
    <2>2. /\ StaleIsPlanned' /\ PlanIsDisjoint' /\ NoneFailed' /\ DryIsIdle'
          /\ IdleTracksNothing'
      BY <2>1 DEF OutcomeInv, StaleIsPlanned, PlanIsDisjoint, NoneFailed, DryIsIdle,
                  IdleTracksNothing, Admitted, Settled, Applied, T, Items
    <2>3. ItemsDone'
      <3> SUFFICES ASSUME phase \in Admitted, Applied, NEW j \in Items PROVE Done(j)'
        BY <2>1 DEF ItemsDone, Applied, Items
      <3>1. Done(j)
        BY DEF OutcomeInv, ItemsDone
      <3>2. T(j)' = T(j) /\ outcome'[j] = outcome[j]
        BY <2>1 DEF T
      <3>3. T(j).op \in {"file", "inject"} => T(j).path \in Path
        BY <2>1, RequestType DEF T, Items
      <3> QED
        BY <2>1, <3>1, <3>2, <3>3 DEF Done
    <2> QED
      BY <1>0, <2>2, <2>3 DEF OutcomeInv
  <1> QED
    BY <1>1, <1>2, <1>3, <1>4, <1>5, <1>6, <1>7, <1>8, <1>9, <1>10, <1>11, <1>12, <1>13, <1>14
       DEF Next, RunStep

\* The outcome invariant holds in every reachable state.
LEMMA OutcomeHolds == Spec => []OutcomeInv
  <1> QED
    BY OutcomeInit, OutcomeStep, PTL DEF Spec

-----------------------------------------------------------------------------

\* Once its :alive receipt is written a run has left every target as requested,
\* but for those that its own hooks or evaluated code changed.
THEOREM ReconcileAliveMeansActuated == Spec => []AliveMeansActuated
  <1>1. OutcomeInv => AliveMeansActuated
    <2> SUFFICES ASSUME OutcomeInv, phase \in {"promote", "prune"}, NEW i \in WriteItems(req),
                        T(i).path \notin touched
                 PROVE  \/ T(i).op = "file"
                             /\ (outcome[i] = "skipped" \/ disk[T(i).path] = Rendered(T(i).text))
                        \/ T(i).op = "inject"
                             /\ disk[T(i).path] # Absent /\ T(i).frag \in disk[T(i).path].frags
      BY DEF AliveMeansActuated
    <2>0. i \in Items /\ T(i).op \in {"file", "inject"}
      BY DEF WriteItems, Items, T
    <2>1. Applied
      BY DEF OutcomeInv, DryIsIdle
    <2>2. Done(i)
      BY <2>0, <2>1 DEF OutcomeInv, ItemsDone, Admitted
    <2>3. outcome[i] \in {"written", "unchanged", "skipped", "injected", "evaluated"}
      <3>1. outcome[i] \in Outcome
        BY <2>0 DEF OutcomeInv, ReceiptInv, TypeInv, TypeOK, RefusedReports
      <3> QED
        BY <2>0, <3>1 DEF OutcomeInv, NoneFailed, Settled, Admitted, Outcome
    <2>4. T(i).op = "file" => outcome[i] = "skipped" \/ disk[T(i).path] = Rendered(T(i).text)
      BY <2>2, <2>3 DEF Done
    <2>5. T(i).op = "inject" =>
             disk[T(i).path] # Absent /\ T(i).frag \in disk[T(i).path].frags
      BY <2>2, <2>3 DEF Done
    <2> QED
      BY <2>0, <2>4, <2>5
  <1> QED
    BY <1>1, OutcomeHolds, PTL

\* Outside compensation and its authors' code a run deletes only what its plan found stale, under
\* --on-stale prune and with its receipt written.
THEOREM ReconcilePruneEvidenced == Spec => PruneOnlyAfterEvidence
  <1> DEFINE Deletes(p) == /\ disk[p] # Absent /\ disk'[p] = Absent
                           /\ phase \notin {"idle", "revert"}
                           /\ ~\E i \in DOMAIN outcome : SideEffects(i, p)
             Lawful(p) == /\ req.onStale = "prune"
                          /\ \E n \in DOMAIN ledger : ledger[n] = [run |-> runs, standing |-> "alive"]
                          /\ p \in StalePaths(req, observed)
  <1>1. OutcomeInv /\ [Next]_vars => [\A p \in Path : Deletes(p) => Lawful(p)]_vars
    <2> SUFFICES ASSUME OutcomeInv, Next, NEW p \in Path, Deletes(p)
                 PROVE  Lawful(p)
      OBVIOUS
    <2>1. TypeOK /\ Rendered(Torn) # Absent
      BY RenderedType, FreshAssumption DEF OutcomeInv, ReceiptInv, TypeInv
    <2>2. ASSUME NEW q \in Path, PruneOne(q) PROVE Lawful(p)
      <3>1. p = q /\ p \in stale /\ phase = "prune" /\ req.onStale = "prune"
        BY <2>1, <2>2 DEF PruneOne, Prunes, Put, TypeOK
      <3>2. Alive(runs)
        BY <3>1 DEF OutcomeInv, ReceiptInv, ProvenHasReceipt, Proven
      <3>3. p \in StalePaths(req, observed)
        BY <3>1 DEF OutcomeInv, StaleIsPlanned
      <3> QED
        BY <3>1, <3>2, <3>3 DEF Alive
    <2>3. ASSUME NEW i \in DOMAIN outcome, Actuate(i) PROVE FALSE
      <3>1. i \in Items /\ req \in Request
        BY <2>1, <2>3 DEF Actuate, Skip, FindUnchanged, Preview, Write, WriteThenHookFails,
           FindInjected, NoAnchor, Tear, ItemFails, Evaluate, Ready, OutcomeInv, ReceiptInv,
           TypeInv, TypeOK, RefusedReports
      <3>2. CASE UNCHANGED disk
        BY <3>2
      <3>3. CASE Write(i) \/ WriteThenHookFails(i)
        <4>1. Desired(i) # Absent
          BY <2>1, <3>1, <3>3, DesiredType, FreshAssumption DEF Write, WriteThenHookFails
        <4> QED
          BY <2>1, <3>3, <4>1 DEF Write, WriteThenHookFails, Put, TypeOK
      <3>4. CASE Tear(i)
        BY <2>1, <3>4 DEF Tear, Put, TypeOK
      <3> QED
        BY <2>3, <3>2, <3>3, <3>4
           DEF Actuate, Skip, FindUnchanged, Preview, FindInjected, NoAnchor, ItemFails,
               Evaluate
    <2>4. ~Crash
      BY <2>1 DEF Crash, Put, TypeOK
    <2>5. ASSUME NEW q \in Path, RevertOne(q) \/ RevertFails(q) \/ UserEdit(q) PROVE FALSE
      BY <2>5 DEF RevertOne, RevertFails, UserEdit
    <2>6. CASE UNCHANGED disk
      BY <2>6
    <2>7. CASE \E r \in Request : Begin(r)
      BY <2>7 DEF Begin
    <2>8. ASSUME \/ PlanFails \/ Refuse \/ Admit \/ ActuateDone
                 \/ VerifyPasses \/ CompileFails \/ VerifyRaises
                 \/ FinalizeFails \/ FinishDry \/ AppendAlive \/ AppendFails
                 \/ Promote \/ PromotePending \/ PruneFails \/ Return
                 \/ RevertDone \/ Report \/ ReportRaises
          PROVE  UNCHANGED disk
      BY <2>8 DEF PlanFails, Refuse, Admit, ActuateDone, VerifyPasses, CompileFails,
         VerifyRaises, FinalizeFails, FinishDry, AppendAlive, AppendFails, Promote,
         PromotePending, PruneFails, Return, RevertDone, Report, ReportRaises, GoOn,
         FailWith, durable
    <2>9. ASSUME NEW i \in DOMAIN outcome, NEW q \in Path, SideEffects(i, q) PROVE FALSE
      <3>1. q # p /\ disk'[p] = disk[p]
        BY <2>9, SideEffectsFrame DEF OutcomeInv, ReceiptInv
      <3> QED
        BY <3>1
    <2> QED
      BY <2>2, <2>3, <2>4, <2>5, <2>6, <2>7, <2>8, <2>9 DEF Next, RunStep
  <1>2. OutcomeInv /\ [Next]_vars =>
           [\A p \in Path :
              /\ disk[p] # Absent /\ disk'[p] = Absent /\ phase \notin {"idle", "revert"}
              /\ ~\E i \in DOMAIN outcome : SideEffects(i, p)
              =>
                  /\ req.onStale = "prune"
                  /\ \E n \in DOMAIN ledger : ledger[n] = [run |-> runs, standing |-> "alive"]
                  /\ p \in StalePaths(req, observed)]_vars
    BY <1>1
  <1> QED
    BY <1>2, OutcomeHolds, PTL DEF Spec, PruneOnlyAfterEvidence

\* A dry run writes neither files nor manifest, and under --check no receipt.
THEOREM ReconcileDryRunWritesNothing == Spec => DryRunWritesNothing
  <1>1. OutcomeInv /\ [Next]_vars =>
           [phase # "idle" /\ ~Applied =>
              UNCHANGED <<disk, manifest>> /\ (req.mode = "check" => UNCHANGED ledger)]_vars
    <2> SUFFICES ASSUME OutcomeInv, Next, phase # "idle", ~Applied
                 PROVE  UNCHANGED <<disk, manifest>> /\ (req.mode = "check" => UNCHANGED ledger)
      OBVIOUS
    <2>1. phase \notin {"promote", "prune"} /\ ToRevert = {}
      BY DEF OutcomeInv, DryIsIdle, ToRevert
    <2>2. CASE \E r \in Request : Begin(r)
      BY <2>2 DEF Begin
    <2>3. CASE \E i \in DOMAIN outcome : Actuate(i)
      BY <2>3 DEF Actuate, Skip, FindUnchanged, Preview, Write, WriteThenHookFails,
         FindInjected, NoAnchor, Tear, ItemFails, Evaluate, Settle
    <2>4. CASE Crash
      BY <2>1, <2>4 DEF Crash, InPlace
    <2>5. CASE \E p \in Path : UserEdit(p) \/ PruneOne(p) \/ RevertOne(p) \/ RevertFails(p)
      BY <2>1, <2>5 DEF UserEdit, PruneOne, Prunes, RevertOne, RevertFails
    <2>6. CASE Report
      BY <2>6 DEF Report
    <2>7. CASE AppendAlive \/ Promote
      BY <2>1, <2>7 DEF AppendAlive, Promote
    <2>8. CASE \/ PlanFails \/ Refuse \/ Admit \/ ActuateDone
               \/ VerifyPasses \/ CompileFails \/ VerifyRaises
               \/ FinalizeFails \/ FinishDry \/ AppendFails
               \/ PromotePending \/ PruneFails \/ Return
               \/ RevertDone \/ ReportRaises
      BY <2>8 DEF PlanFails, Refuse, Admit, ActuateDone, VerifyPasses, CompileFails,
         VerifyRaises, FinalizeFails, FinishDry, AppendFails,
         PromotePending, PruneFails, Return, RevertDone, ReportRaises, GoOn,
         FailWith, durable
    <2>9. ASSUME NEW i \in DOMAIN outcome, NEW p \in Path, SideEffects(i, p) PROVE FALSE
      BY <2>9 DEF SideEffects
    <2> QED
      BY <2>2, <2>3, <2>4, <2>5, <2>6, <2>7, <2>8, <2>9 DEF Next, RunStep
  <1> QED
    BY <1>1, OutcomeHolds, PTL DEF Spec, DryRunWritesNothing

=============================================================================
