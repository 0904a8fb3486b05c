------------------------- MODULE QualificationProofs -------------------------
(***************************************************************************)
(* The qualification of the ash-manufacture-pack, for every plan, every    *)
(* set of modules and any number of faults: where each step stands in the  *)
(* ladder, and what the ledger of the harness promises; what it does to    *)
(* the fixture and its databases; and what a receipt, a verdict and the    *)
(* captures say of the fixture they were written about.                    *)
(***************************************************************************)
EXTENDS Qualification, FiniteSetTheorems, TLAPS

\* The ladder, step by step.
LEMMA LadderAt ==
    /\ DOMAIN Ladder = 1 .. 62 /\ Len(Ladder) = 62
    /\ Ladder[1] = S("day-zero", None, 0) /\ Ladder[2] = S("deps-get", None, 0)
    /\ Ladder[3] = S("baseline-compile", None, 0) /\ Ladder[4] = S("tree-hash", None, 0)
    /\ Ladder[5] = S("ggen-sync", None, 0) /\ Ladder[6] = S("compile-manufacture-task", None, 0)
    /\ Ladder[7] = S("drift-check", None, 0) /\ Ladder[8] = S("evidence-citations", None, 0)
    /\ Ladder[9] = S("manufacture", "base", 1) /\ Ladder[10] = S("compile", "base", 1)
    /\ Ladder[11] = S("isolate", None, 1) /\ Ladder[12] = S("manufacture", "core", 1)
    /\ Ladder[13] = S("compile", "core", 1) /\ Ladder[14] = S("seal", "base", 1)
    /\ Ladder[15] = S("seal", "core", 1) /\ Ladder[16] = S("ash-codegen", None, 1)
    /\ Ladder[17] = S("ash-setup", None, 1) /\ Ladder[18] = S("db-fingerprint", None, 1)
    /\ Ladder[19] = S("db-nondegenerate", None, 1)
    /\ Ladder[20] = S("compile-after-lifecycle", None, 1)
    /\ Ladder[21] = S("ash-setup-test-env", None, 1)
    /\ Ladder[22] = S("resources-execute", None, 1)
    /\ Ladder[23] = S("tree-hash", None, 1) /\ Ladder[24] = S("copy-ocel", None, 1)
    /\ Ladder[25] = S("check", "base", 1) /\ Ladder[26] = S("check", "core", 1)
    /\ Ladder[27] = S("manufacture", "base", 2) /\ Ladder[28] = S("manufacture", "core", 2)
    /\ Ladder[29] = S("ash-codegen", None, 2) /\ Ladder[30] = S("compile", None, 2)
    /\ Ladder[31] = S("ash-setup", None, 2) /\ Ladder[32] = S("db-fingerprint", None, 2)
    /\ Ladder[33] = S("db-diff", None, 2) /\ Ladder[34] = S("seal", "base", 2)
    /\ Ladder[35] = S("seal", "core", 2) /\ Ladder[36] = S("tree-hash", None, 2)
    /\ Ladder[37] = S("tree-diff", None, 2) /\ Ladder[38] = S("copy-ocel", None, 2)
    /\ Ladder[39] = S("check", "base", 2) /\ Ladder[40] = S("check", "core", 2)
    /\ Ladder[41] = S("manufacture", "base", 3) /\ Ladder[42] = S("manufacture", "core", 3)
    /\ Ladder[43] = S("ash-codegen", None, 3) /\ Ladder[44] = S("compile", None, 3)
    /\ Ladder[45] = S("seal", "base", 3) /\ Ladder[46] = S("seal", "core", 3)
    /\ Ladder[47] = S("copy-ocel", None, 3) /\ Ladder[48] = S("ash-migrate", None, 3)
    /\ Ladder[49] = S("db-fingerprint", None, 3) /\ Ladder[50] = S("db-diff", None, 3)
    /\ Ladder[51] = S("tree-hash", None, 3) /\ Ladder[52] = S("tree-diff", None, 3)
    /\ Ladder[53] = S("check", "base", 3) /\ Ladder[54] = S("check", "core", 3)
    /\ Ladder[55] = S("guard", "blocks-ash-resource", 0)
    /\ Ladder[56] = S("guard", "blocks-base-resource-header", 0)
    /\ Ladder[57] = S("guard", "allows-plain-elixir", 0)
    /\ Ladder[58] = S("guard", "allows-manufactured-task", 0)
    /\ Ladder[59] = S("beam4pm-import", None, 0) /\ Ladder[60] = S("drift-report", None, 0)
    /\ Ladder[61] = S("conformance", None, 0) /\ Ladder[62] = S("receipt", None, 0)
  BY SMTT(60) DEF Ladder, Reset, Run1, Run2, Run3, Report, Manufactured, SealedLogs, Checked

ResetSteps == {"day-zero", "deps-get", "baseline-compile", "tree-hash", "ggen-sync",
               "compile-manufacture-task", "drift-check", "evidence-citations"}
Isolation == 11

\* One reset before the isolation, one isolation, no database before it.
LEMMA LadderOrder ==
    /\ \A i \in DOMAIN Ladder : Ladder[i].run \in 0 .. 3
    /\ \A i \in 1 .. (Isolation - 1) : Ladder[i].step \in ResetSteps \cup {"manufacture", "compile"}
    /\ Ladder[Isolation].step = "isolate"
    /\ \A i \in (Isolation + 1) .. Len(Ladder) : Ladder[i].step \notin {"day-zero", "isolate"}
  BY LadderAt DEF S, ResetSteps, Isolation
-----------------------------------------------------------------------------
(* What an action does to the ledger, whatever else it does.                *)

Row == [label : Range(Ladder), exit : {Null, 0, 1, 2}, expected : {0, 2}]
RowFor(exit, expected) == [label |-> Here, exit |-> exit, expected |-> expected]

Recorded ==
    /\ Here.step \notin Rowless
    /\ \E exit \in {0, 1, 2}, expected \in {0, 2} :
           /\ rows' = Append(rows, RowFor(exit, expected))
           /\ failed' = (failed \/ exit # expected)
           /\ expected # 0 => Here.step = "guard"
Skipped ==
    /\ Here.step = "beam4pm-import"
    /\ rows' = Append(rows, RowFor(Null, 0)) /\ failed' = failed
Silent == Here.step \in Rowless /\ UNCHANGED <<rows, failed>>
Judged == ConformanceStep \/ WriteReceipt
Rung ==
    \/ Observe \/ DayZero \/ Sync \/ DriftCheck
    \/ ManufactureFails \/ Manufacture \/ Compile \/ Isolate \/ Seal
    \/ Codegen \/ Setup \/ Fingerprint \/ DbNondegenerate \/ DiffStep
    \/ TreeHash \/ CopyOcel \/ Check \/ GuardCase \/ Import \/ DriftReport

\* A step of the ladder that runs a command records it.
LEMMA RunRecords ==
    ASSUME NEW exit \in {0, 1, 2}, NEW expected \in {0, 2}, Run(exit, expected),
           Here.step \notin Rowless, expected # 0 => Here.step = "guard"
    PROVE  Recorded /\ pos' = pos + 1 /\ killed' = killed /\ reset' = reset
  BY DEF Run, Recorded, RowFor

\* Each rung but the last two: one row, or a skipped one, or none.
LEMMA RungKind ==
    ASSUME Rung
    PROVE  /\ Recorded \/ Skipped \/ Silent
           /\ ~killed /\ pos \in DOMAIN Ladder
           /\ pos' = pos + 1 /\ killed' = killed
           /\ Here.step \notin {"conformance", "receipt"}
           /\ UNCHANGED <<verdict, receipt>>
<1>. USE RunRecords DEF At, Rowless, evidence
<1>1. CASE Observe
  BY <1>1 DEF Observe
<1>2. CASE DayZero
  BY <1>2 DEF DayZero, Silent
<1>3. CASE Sync
  BY <1>3 DEF Sync
<1>4. CASE DriftCheck
  BY <1>4 DEF DriftCheck
<1>5. CASE ManufactureFails
  BY <1>5 DEF ManufactureFails
<1>6. CASE Manufacture
  BY <1>6 DEF Manufacture
<1>7. CASE Compile
  BY <1>7 DEF Compile
<1>8. CASE Isolate
  BY <1>8 DEF Isolate
<1>9. CASE Seal
  BY <1>9 DEF Seal
<1>10. CASE Codegen
  BY <1>10 DEF Codegen
<1>11. CASE Setup
  BY <1>11 DEF Setup
<1>12. CASE Fingerprint
  BY <1>12 DEF Fingerprint
<1>13. CASE DbNondegenerate
  BY <1>13 DEF DbNondegenerate
<1>14. CASE DiffStep
  BY <1>14 DEF DiffStep
<1>15. CASE TreeHash
  BY <1>15 DEF TreeHash, Pass, Silent
<1>16. CASE CopyOcel
  BY <1>16 DEF CopyOcel, Pass, Silent
<1>17. CASE Check
  BY <1>17 DEF Check
<1>18. CASE GuardCase
  <2>1. GuardExit \in {0, 2} /\ 2 - GuardExit \in {0, 2}
    BY DEF GuardExit
  <2>. QED
    BY <1>18, <2>1 DEF GuardCase
<1>19. CASE Import
  <2>1. CASE Skip
    BY <1>19, <2>1 DEF Import, Skip, Skipped, RowFor
  <2>2. CASE Run(0, 0) \/ Run(1, 0)
    BY <1>19, <2>2 DEF Import
  <2>. QED
    BY <1>19, <2>1, <2>2 DEF Import
<1>20. CASE DriftReport
  BY <1>20 DEF DriftReport, Pass, Silent
<1>. QED
  BY <1>1, <1>2, <1>3, <1>4, <1>5, <1>6, <1>7, <1>8, <1>9, <1>10, <1>11, <1>12, <1>13,
     <1>14, <1>15, <1>16, <1>17, <1>18, <1>19, <1>20 DEF Rung

-----------------------------------------------------------------------------
(* $FAILED and the ledger.                                                  *)

LastRow == Len(Ladder)
RowsRed == \E i \in FailedRows(rows) : rows[i].exit # Null
Verdicts == {None, "conformant", "violations", "crash"}

LedgerType ==
    /\ pos \in 1 .. (LastRow + 1)
    /\ rows \in Seq(Row)
    /\ failed \in BOOLEAN /\ killed \in BOOLEAN
    /\ verdict \in Verdicts

\* Where the harness is, and what it cannot have written yet.
Progress ==
    /\ killed => pos \in DOMAIN Ladder
    /\ pos <= LastRow - 1 => verdict = None
    /\ ~killed /\ pos \in DOMAIN Ladder => receipt = {}

LedgerInv == LedgerType /\ Progress /\ LedgerTellsFailure

\* The ladder is a sequence longer than the isolation.
LEMMA LastIs ==
    /\ LastRow \in Nat /\ LastRow > 12 /\ DOMAIN Ladder = 1 .. LastRow
    /\ Ladder[LastRow].step = "receipt" /\ Ladder[LastRow - 1].step = "conformance"
    /\ \A i \in 1 .. LastRow : Ladder[i].step = "receipt" => i = LastRow
    /\ \A i \in 1 .. LastRow : Ladder[i].step = "conformance" => i = LastRow - 1
  BY LadderAt DEF LastRow, S

\* A row more makes the ledger red exactly when it is red itself.
LEMMA AppendRed ==
    ASSUME rows \in Seq(Row), NEW row \in Row, rows' = Append(rows, row)
    PROVE  /\ rows' \in Seq(Row)
           /\ RowsRed' <=> RowsRed \/ (row.exit # row.expected /\ row.exit # Null)
<1>1. /\ rows' \in Seq(Row) /\ DOMAIN rows' = DOMAIN rows \cup {Len(rows) + 1}
      /\ \A i \in DOMAIN rows : rows'[i] = rows[i]
      /\ rows'[Len(rows) + 1] = row
  <2>. HIDE DEF Row
  <2>. QED
    OBVIOUS
<1>2. ASSUME RowsRed PROVE RowsRed'
  BY <1>1, <1>2 DEF RowsRed, FailedRows, AsExpected
<1>3. ASSUME row.exit # row.expected, row.exit # Null PROVE RowsRed'
  BY <1>1, <1>3 DEF RowsRed, FailedRows, AsExpected
<1>4. ASSUME RowsRed' PROVE RowsRed \/ (row.exit # row.expected /\ row.exit # Null)
  <2>1. PICK i \in DOMAIN rows' : rows'[i].exit # rows'[i].expected /\ rows'[i].exit # Null
    BY <1>4 DEF RowsRed, FailedRows, AsExpected
  <2>2. CASE i \in DOMAIN rows
    BY <1>1, <2>1, <2>2 DEF RowsRed, FailedRows, AsExpected
  <2>3. CASE i = Len(rows) + 1
    BY <1>1, <2>1, <2>3
  <2>. QED
    BY <1>1, <2>1, <2>2, <2>3
<1>. QED
  BY <1>1, <1>2, <1>3, <1>4

\* A row of the step the harness is at.
LEMMA RowForType ==
    ASSUME pos \in DOMAIN Ladder, NEW exit \in {Null, 0, 1, 2}, NEW expected \in {0, 2}
    PROVE  RowFor(exit, expected) \in Row
<1>1. Here \in Range(Ladder)
  BY DEF Here, Range
<1>. QED
  BY <1>1 DEF RowFor, Row

\* What a rung does to the ledger, to $FAILED and to the color of the rows.
LEMMA RungRed ==
    ASSUME LedgerType, Rung
    PROVE  /\ rows' \in Seq(Row)
           /\ failed' \in BOOLEAN
           /\ (failed <=> RowsRed) => (failed' <=> RowsRed')
<1>1. pos \in DOMAIN Ladder /\ rows \in Seq(Row) /\ failed \in BOOLEAN
  BY RungKind DEF LedgerType
<1>2. CASE Recorded
  <2>1. PICK exit \in {0, 1, 2}, expected \in {0, 2} :
           rows' = Append(rows, RowFor(exit, expected)) /\ failed' = (failed \/ exit # expected)
    BY <1>2 DEF Recorded
  <2>2. RowFor(exit, expected) \in Row
    BY <1>1, RowForType
  <2>3. /\ RowFor(exit, expected).exit = exit /\ RowFor(exit, expected).expected = expected
        /\ exit # Null
    BY DEF RowFor, Null
  <2>4. rows' \in Seq(Row) /\ (RowsRed' <=> RowsRed \/ exit # expected)
    BY <1>1, <2>1, <2>2, <2>3, AppendRed
  <2>. QED
    BY <1>1, <2>1, <2>4
<1>3. CASE Skipped
  <2>1. RowFor(Null, 0) \in Row /\ RowFor(Null, 0).exit = Null
    BY <1>1, RowForType DEF RowFor
  <2>2. rows' \in Seq(Row) /\ (RowsRed' <=> RowsRed) /\ failed' = failed
    BY <1>1, <1>3, <2>1, AppendRed DEF Skipped
  <2>. QED
    BY <1>1, <2>2
<1>4. CASE Silent
  BY <1>1, <1>4 DEF Silent, RowsRed
<1>. QED
  BY <1>2, <1>3, <1>4, RungKind

\* The property, with the color of the rows by its name.
LEMMA TellsIs ==
    LedgerTellsFailure <=>
        (failed <=> \/ RowsRed \/ verdict \in {"violations", "crash"}
                    \/ pos = LastRow + 1 /\ receipt = {})
  BY DEF LedgerTellsFailure, RowsRed, Finished, LastRow

\* Nothing is failed, judged or written before the first step.
LEMMA InitLedger == Init => LedgerInv
<1>. SUFFICES ASSUME Init PROVE LedgerInv
  OBVIOUS
<1>1. rows = <<>> /\ failed = FALSE /\ pos = 1 /\ verdict = None /\ receipt = {} /\ killed = FALSE
  BY DEF Init
<1>2. ~RowsRed
  BY <1>1 DEF RowsRed, FailedRows
<1>3. None \notin {"violations", "crash"}
  BY DEF None
<1>4. LedgerType
  <2>1. rows \in Seq(Row)
    BY <1>1
  <2>2. pos \in 1 .. (LastRow + 1)
    BY <1>1, LastIs
  <2>. QED
    BY <1>1, <2>1, <2>2 DEF LedgerType, Verdicts
<1>5. Progress
  BY <1>1, LastIs DEF Progress
<1>. QED
  BY <1>1, <1>2, <1>3, <1>4, <1>5, LastIs, TellsIs DEF LedgerInv

\* A rung before the verdict keeps the ledger true.
LEMMA RungLedger == ASSUME LedgerInv, Rung PROVE LedgerInv'
<1>1. /\ pos' = pos + 1 /\ pos \in 1 .. LastRow /\ killed' = killed /\ ~killed
      /\ verdict' = verdict /\ receipt' = receipt
      /\ Here.step \notin {"conformance", "receipt"}
  BY RungKind, LastIs
<1>2. pos \in 1 .. (LastRow - 2)
  BY <1>1, LastIs DEF Here
<1>3. verdict = None /\ receipt = {}
  BY <1>1, <1>2, LastIs DEF LedgerInv, Progress
<1>4. None \notin {"violations", "crash"}
  BY DEF None
<1>5. failed <=> RowsRed
  BY <1>2, <1>3, <1>4, TellsIs, LastIs DEF LedgerInv
<1>6. rows' \in Seq(Row) /\ failed' \in BOOLEAN /\ (failed' <=> RowsRed')
  BY <1>5, RungRed DEF LedgerInv
<1>7. LedgerType'
  <2>1. pos' \in 1 .. (LastRow + 1)
    BY <1>1, <1>2, LastIs
  <2>2. killed' \in BOOLEAN /\ verdict' \in Verdicts
    BY <1>1 DEF LedgerInv, LedgerType
  <2>. QED
    BY <1>6, <2>1, <2>2 DEF LedgerType, LastRow
<1>8. Progress'
  BY <1>1, <1>2, <1>3, LastIs DEF LedgerInv, Progress, LastRow
<1>9. pos' # LastRow + 1 /\ verdict' \notin {"violations", "crash"}
  BY <1>1, <1>2, <1>3, <1>4, LastIs
<1>10. LedgerTellsFailure'
  BY <1>6, <1>9 DEF LedgerTellsFailure, RowsRed, Finished, LastRow
<1>. QED
  BY <1>7, <1>8, <1>10 DEF LedgerInv

\* The verdict is the last step but one: $FAILED takes it up.
LEMMA VerdictLedger == ASSUME LedgerInv, ConformanceStep PROVE LedgerInv'
<1>1. /\ ~killed /\ pos \in 1 .. LastRow /\ Here.step = "conformance" /\ pos' = pos + 1
      /\ UNCHANGED <<rows, receipt, killed>>
      /\ failed' = (failed \/ verdict' # "conformant")
      /\ verdict' \in {"conformant", "violations", "crash"}
  BY LastIs DEF ConformanceStep, At
<1>2. pos = LastRow - 1
  BY <1>1, LastIs DEF Here
<1>3. verdict = None /\ receipt = {}
  BY <1>1, <1>2, LastIs DEF LedgerInv, Progress
<1>4. (failed <=> RowsRed) /\ failed \in BOOLEAN
  BY <1>2, <1>3, TellsIs, LastIs DEF LedgerInv, LedgerType, None
<1>5. RowsRed' <=> RowsRed
  BY <1>1 DEF RowsRed
<1>6. (failed' <=> RowsRed' \/ verdict' \in {"violations", "crash"}) /\ failed' \in BOOLEAN
  BY <1>1, <1>4, <1>5
<1>7. LedgerType' /\ Progress'
  BY <1>1, <1>2, <1>3, <1>6, LastIs DEF LedgerInv, LedgerType, Progress, Verdicts, LastRow
<1>8. pos' # LastRow + 1
  BY <1>1, <1>2, LastIs
<1>9. LedgerTellsFailure'
  BY <1>6, <1>8 DEF LedgerTellsFailure, RowsRed, Finished, LastRow
<1>. QED
  BY <1>7, <1>9 DEF LedgerInv

\* The receipt is the last step: without one the qualification has failed.
LEMMA ReceiptLedger == ASSUME LedgerInv, WriteReceipt PROVE LedgerInv'
<1>1. /\ ~killed /\ pos \in 1 .. LastRow /\ Here.step = "receipt" /\ pos' = pos + 1
      /\ UNCHANGED <<rows, verdict, killed>>
      /\ failed' = (failed \/ receipt' = {})
  BY LastIs DEF WriteReceipt, At
<1>2. pos = LastRow
  BY <1>1, LastIs DEF Here
<1>3. (failed <=> RowsRed \/ verdict \in {"violations", "crash"}) /\ failed \in BOOLEAN
  BY <1>2, TellsIs, LastIs DEF LedgerInv, LedgerType
<1>4. RowsRed' <=> RowsRed
  BY <1>1 DEF RowsRed
<1>5. /\ failed' <=> RowsRed' \/ verdict' \in {"violations", "crash"} \/ receipt' = {}
      /\ failed' \in BOOLEAN
  BY <1>1, <1>3, <1>4
<1>6. LedgerType' /\ Progress'
  BY <1>1, <1>2, <1>5, LastIs DEF LedgerInv, LedgerType, Progress, LastRow
<1>7. pos' = LastRow + 1
  BY <1>1, <1>2
<1>8. LedgerTellsFailure'
  BY <1>5, <1>7 DEF LedgerTellsFailure, RowsRed, Finished, LastRow
<1>. QED
  BY <1>6, <1>8 DEF LedgerInv

\* An interrupt, and a receipt written by hand after it, change no row.
LEMMA KilledLedger == ASSUME LedgerInv, Interrupt \/ ReceiptByHand PROVE LedgerInv'
<1>1. killed' = TRUE /\ UNCHANGED <<pos, rows, failed, verdict>>
  BY DEF Interrupt, ReceiptByHand, evidence, LedgerInv, LedgerType
<1>2. pos \in 1 .. LastRow
  BY LastIs DEF Interrupt, ReceiptByHand, LedgerInv, Progress
<1>3. LedgerType' /\ Progress'
  BY <1>1, <1>2, LastIs DEF LedgerInv, LedgerType, Progress, LastRow
<1>4. failed <=> RowsRed \/ verdict \in {"violations", "crash"}
  BY <1>2, TellsIs, LastIs DEF LedgerInv
<1>5. pos' # LastRow + 1
  BY <1>1, <1>2, LastIs
<1>6. LedgerTellsFailure'
  BY <1>1, <1>4, <1>5 DEF LedgerTellsFailure, RowsRed, Finished, LastRow
<1>. QED
  BY <1>3, <1>6 DEF LedgerInv

\* The invariant of the ledger.
THEOREM LedgerInvariant == Spec => []LedgerInv
<1>1. LedgerInv /\ [Next]_vars => LedgerInv'
  <2>. SUFFICES ASSUME LedgerInv, [Next]_vars PROVE LedgerInv'
    OBVIOUS
  <2>1. CASE UNCHANGED vars
    BY <2>1 DEF vars, evidence, LedgerInv, LedgerType, Progress, LedgerTellsFailure, Finished
  <2>. QED
    BY <2>1, RungLedger, VerdictLedger, ReceiptLedger, KilledLedger DEF Next, Rung
<1>. QED
  BY <1>1, InitLedger, PTL DEF Spec

\* $FAILED, and with it the exit status of the qualification, is exactly what
\* the ledger, the verdict and the receipt say, in every run of every plan.
THEOREM LedgerTells == Spec => []LedgerTellsFailure
<1>1. LedgerInv => LedgerTellsFailure
  BY DEF LedgerInv
<1>. QED
  BY <1>1, LedgerInvariant, PTL

-----------------------------------------------------------------------------
(* The fixture and its databases: the types, and that a database that is   *)
(* not this run's is touched only without isolation; and the receipt.      *)

Configs == {"bare", "shared", "scoped"}

TreeOK ==
    /\ tree \in [Paths -> Texts]
    /\ \A env \in Envs : tree[env] \in Configs
    /\ tree["migration"] \in {Gone, "v1", "v2", "old"}

\* A configuration that names the database of this run still does.
KeepsScoped == \A env \in Envs : tree[env] = "scoped" => tree'[env] = "scoped"

\* Modules, configurations, the task and the migration are different paths.
LEMMA PathsDiffer ==
    /\ Modules \subseteq Paths /\ Envs \subseteq Paths
    /\ "task" \in Paths /\ "migration" \in Paths
    /\ \A env \in Envs : env \notin Modules /\ env # "task" /\ env # "migration"
    /\ "task" \notin Modules /\ "migration" \notin Modules
  BY PlanAssumption DEF Paths, Envs

\* Manufacturing some modules writes those, and a configuration without a
\* database.
LEMMA WithSubjectsTree ==
    ASSUME TreeOK, NEW subjects \in SUBSET Modules
    PROVE  /\ WithSubjects(subjects) \in [Paths -> Texts]
           /\ \A env \in Envs : /\ WithSubjects(subjects)[env] \in Configs
                                /\ tree[env] = "scoped" => WithSubjects(subjects)[env] = "scoped"
           /\ WithSubjects(subjects)["migration"] = tree["migration"]
<1>1. "v1" \in Texts /\ "shared" \in Texts /\ "shared" \in Configs
  BY DEF Texts, Configs
<1>2. WithSubjects(subjects) \in [Paths -> Texts]
  BY <1>1 DEF WithSubjects, TreeOK
<1>3. ASSUME NEW env \in Envs
      PROVE  /\ WithSubjects(subjects)[env] \in Configs
             /\ tree[env] = "scoped" => WithSubjects(subjects)[env] = "scoped"
  BY <1>1, PathsDiffer DEF WithSubjects, TreeOK
<1>4. WithSubjects(subjects)["migration"] = tree["migration"]
  BY PathsDiffer DEF WithSubjects, Envs
<1>. QED
  BY <1>2, <1>3, <1>4

\* A manufacture run of either end.
LEMMA ManufactureTree ==
    ASSUME TreeOK, Manufacture PROVE TreeOK' /\ KeepsScoped
<1>. DEFINE subjects == ComposedSubjects(Here.phase)
<1>1. subjects \in SUBSET Modules
  BY DEF ComposedSubjects
<1>. HIDE DEF subjects
<1>2. \/ tree' = tree
      \/ \E applied \in SUBSET subjects : tree' = WithSubjects(applied)
      \/ \E p \in subjects : tree' = [WithSubjects(subjects) EXCEPT ![p] = "v2"]
  BY DEF Manufacture, subjects
<1>3. CASE tree' = tree
  BY <1>3 DEF TreeOK, KeepsScoped
<1>4. ASSUME NEW applied \in SUBSET subjects, tree' = WithSubjects(applied)
      PROVE  TreeOK' /\ KeepsScoped
  BY <1>1, <1>4, WithSubjectsTree DEF TreeOK, KeepsScoped
<1>5. ASSUME NEW p \in subjects, tree' = [WithSubjects(subjects) EXCEPT ![p] = "v2"]
      PROVE  TreeOK' /\ KeepsScoped
  <2>1. "v2" \in Texts /\ p \in Modules
    BY <1>1 DEF Texts
  <2>2. WithSubjects(subjects) \in [Paths -> Texts]
    BY <1>1, WithSubjectsTree
  <2>3. tree' \in [Paths -> Texts]
    BY <1>5, <2>1, <2>2
  <2>4. \A q \in Paths : q # p => tree'[q] = WithSubjects(subjects)[q]
    BY <1>5, <2>2
  <2>5. \A q \in Envs \cup {"migration"} : tree'[q] = WithSubjects(subjects)[q]
    BY <2>1, <2>4, PathsDiffer
  <2>. QED
    BY <1>1, <2>3, <2>5, WithSubjectsTree DEF TreeOK, KeepsScoped
<1>. QED
  BY <1>2, <1>3, <1>4, <1>5

\* The reset, complete or stopped on the way, leaves configurations.
LEMMA ResetTree == ASSUME TreeOK, DayZero PROVE TreeOK'
<1>1. Gone \in Texts /\ "bare" \in Texts /\ "bare" \in Configs
  BY DEF Texts, Configs
<1>2. CASE tree' = DayZeroTree
  BY <1>1, <1>2, PathsDiffer DEF DayZeroTree, TreeOK
<1>3. ASSUME NEW k \in 0 .. Len(ResetOrder),
             tree' = [p \in Paths |-> IF p \in {ResetOrder[i] : i \in 1 .. k}
                                      THEN Gone ELSE tree[p]]
      PROVE  TreeOK'
  <2>1. \A i \in 1 .. k : ResetOrder[i] \notin Envs
    BY PlanAssumption, PathsDiffer
  <2>2. tree' \in [Paths -> Texts]
    BY <1>1, <1>3 DEF TreeOK
  <2>3. \A env \in Envs : tree'[env] = tree[env]
    BY <1>3, <2>1, PathsDiffer
  <2>4. tree'["migration"] \in {Gone, tree["migration"]}
    BY <1>3, PathsDiffer
  <2>. QED
    BY <2>2, <2>3, <2>4 DEF TreeOK
<1>. QED
  BY <1>2, <1>3 DEF DayZero

\* Isolation leaves configurations, and scopes those that have a database.
LEMMA IsolatedTree ==
    ASSUME TreeOK, NEW envs \in SUBSET Envs
    PROVE  /\ Isolated(envs) \in [Paths -> Texts]
           /\ \A env \in Envs : /\ Isolated(envs)[env] \in Configs
                                /\ tree[env] = "scoped" => Isolated(envs)[env] = "scoped"
                                /\ env \in envs /\ tree[env] # "bare" => Isolated(envs)[env] = "scoped"
           /\ Isolated(envs)["migration"] = tree["migration"]
<1>1. "scoped" \in Texts /\ "scoped" \in Configs
  BY DEF Texts, Configs
<1>2. Isolated(envs) \in [Paths -> Texts]
  BY <1>1 DEF Isolated, TreeOK
<1>3. ASSUME NEW env \in Envs
      PROVE  /\ Isolated(envs)[env] \in Configs
             /\ tree[env] = "scoped" => Isolated(envs)[env] = "scoped"
             /\ env \in envs /\ tree[env] # "bare" => Isolated(envs)[env] = "scoped"
  BY <1>1, PathsDiffer DEF Isolated, Rewritable, TreeOK, Configs, Gone
<1>4. Isolated(envs)["migration"] = tree["migration"]
  BY PathsDiffer DEF Isolated
<1>. QED
  BY <1>2, <1>3, <1>4

\* What every rung does to the tree; only the reset takes an isolation back.
LEMMA RungTree ==
    ASSUME TreeOK, Rung
    PROVE  TreeOK' /\ (Here.step # "day-zero" => KeepsScoped)
<1>1. CASE DayZero
  BY <1>1, ResetTree DEF DayZero, At
<1>2. CASE Sync
  <2>1. "v1" \in Texts
    BY DEF Texts
  <2>. QED
    BY <1>2, <2>1, PathsDiffer DEF Sync, TreeOK, KeepsScoped
<1>3. CASE Manufacture
  BY <1>3, ManufactureTree
<1>4. CASE Isolate
  <2>1. PICK envs \in SUBSET Envs : tree' = Isolated(envs)
    <3>1. Envs \in SUBSET Envs /\ {} \in SUBSET Envs /\ {"dev"} \in SUBSET Envs
      BY DEF Envs
    <3>. QED
      BY <1>4, <3>1 DEF Isolate
  <2>. QED
    BY <2>1, IsolatedTree DEF TreeOK, KeepsScoped
<1>5. CASE Codegen
  <2>1. "v1" \in Texts /\ "v2" \in Texts
    BY DEF Texts
  <2>2. tree' = tree \/ \E text \in {"v1", "v2"} : tree' = [tree EXCEPT !["migration"] = text]
    BY <1>5 DEF Codegen, TreeOK
  <2>. QED
    BY <2>1, <2>2, PathsDiffer DEF TreeOK, KeepsScoped
<1>6. CASE Observe \/ DriftCheck \/ ManufactureFails \/ Compile \/ Seal \/ Setup
           \/ Fingerprint \/ DbNondegenerate \/ DiffStep
           \/ TreeHash \/ CopyOcel \/ Check \/ GuardCase \/ Import \/ DriftReport
  <2>1. tree' = tree
    BY <1>6 DEF fixture, Observe, DriftCheck, ManufactureFails, Compile, Seal, Setup,
           Fingerprint, DbNondegenerate, DiffStep, TreeHash, CopyOcel, Check, GuardCase,
           Import, DriftReport
  <2>. QED
    BY <2>1 DEF TreeOK, KeepsScoped
<1>. QED
  BY <1>1, <1>2, <1>3, <1>4, <1>5, <1>6 DEF Rung

-----------------------------------------------------------------------------
(* The databases.                                                           *)

NotIsolated == \E i \in DOMAIN rows : rows[i].label.step = "isolate" /\ rows[i].exit # 0
SharedUntouched == \A env \in Envs : db[env]["shared"] = "none"
Scoped == \A env \in Envs : tree[env] = "scoped"

DbOK == db \in [Envs -> [Sites -> Schemas]]

\* Before the isolation no database is touched; after it the configurations
\* are scoped, or the ledger has the row that says they are not.
SharedInv ==
    /\ SharedUntouched \/ (NotIsolated /\ pos > Isolation)
    /\ pos > Isolation => Scoped \/ NotIsolated

WorldInv == TreeOK /\ DbOK /\ SharedInv

\* What is migrated is a schema.
LEMMA MigratedType == TreeOK => Migrated \in Schemas
  BY DEF TreeOK, Migrated, Schemas

\* A rung other than a set-up leaves the databases alone.
LEMMA OtherDb == ASSUME Rung, ~Setup PROVE db' = db
<1>1. CASE DayZero \/ Sync \/ Manufacture \/ Isolate \/ Codegen \/ Seal
  BY <1>1 DEF DayZero, Sync, Manufacture, Isolate, Codegen, Seal
<1>2. CASE Observe \/ DriftCheck \/ ManufactureFails \/ Compile
           \/ Fingerprint \/ DbNondegenerate \/ DiffStep
           \/ TreeHash \/ CopyOcel \/ Check \/ GuardCase \/ Import \/ DriftReport
  BY <1>2 DEF fixture, Observe, DriftCheck, ManufactureFails, Compile,
         Fingerprint, DbNondegenerate, DiffStep, TreeHash, CopyOcel, Check, GuardCase,
         Import, DriftReport
<1>. QED
  BY <1>1, <1>2 DEF Rung

\* A set-up acts on the database the configuration names, and no other.
LEMMA SetupDb ==
    ASSUME TreeOK, DbOK, Setup
    PROVE  /\ DbOK'
           /\ pos > Isolation
           /\ \A env \in Envs : tree[env] = "scoped" => db'[env]["shared"] = db[env]["shared"]
<1>. DEFINE env == EnvOf(Here.step)  site == tree[env]
<1>1. env \in Envs
  BY DEF EnvOf, Envs
<1>2. pos > Isolation
  <2>1. /\ pos \in 1 .. LastRow
        /\ Here.step \in {"ash-setup", "ash-setup-test-env", "resources-execute", "ash-migrate"}
    BY LastIs DEF Setup, At
  <2>2. Here.step \notin ResetSteps \cup {"manufacture", "compile"} /\ Here.step # "isolate"
    BY <2>1 DEF ResetSteps
  <2>. QED
    BY <2>1, <2>2, LadderOrder, LastIs, SMTT(20) DEF Here, Isolation
<1>3. \/ db' = db
      \/ \E schema \in Schemas : site \in Sites /\ db' = [db EXCEPT ![env][site] = schema]
  <2>1. "empty" \in Schemas
    BY DEF Schemas
  <2>. QED
    BY <2>1, MigratedType DEF Setup
<1>. HIDE DEF env
<1>4. CASE db' = db
  BY <1>2, <1>4 DEF DbOK
<1>5. ASSUME NEW schema \in Schemas, site \in Sites, db' = [db EXCEPT ![env][site] = schema]
      PROVE  DbOK' /\ \A e \in Envs : tree[e] = "scoped" => db'[e]["shared"] = db[e]["shared"]
  <2>1. db' = [db EXCEPT ![env] = [db[env] EXCEPT ![site] = schema]]
    BY <1>5
  <2>2. [db[env] EXCEPT ![site] = schema] \in [Sites -> Schemas]
    BY <1>1, <1>5 DEF DbOK
  <2>3. DbOK'
    BY <2>1, <2>2 DEF DbOK
  <2>4. ASSUME NEW e \in Envs, tree[e] = "scoped" PROVE db'[e]["shared"] = db[e]["shared"]
    <3>1. CASE e # env
      BY <2>1, <3>1 DEF DbOK
    <3>2. CASE e = env
      <4>1. site # "shared" /\ "shared" \in Sites
        BY <2>4, <3>2 DEF Sites
      <4>2. [db[env] EXCEPT ![site] = schema]["shared"] = db[env]["shared"]
        BY <1>1, <4>1 DEF DbOK
      <4>. QED
        BY <1>1, <2>1, <3>2, <4>2 DEF DbOK
    <3>. QED
      BY <3>1, <3>2
  <2>. QED
    BY <2>3, <2>4
<1>. QED
  BY <1>2, <1>3, <1>4, <1>5

\* Rows are only added.
LEMMA RowsGrow ==
    ASSUME LedgerType, Rung PROVE NotIsolated => NotIsolated'
<1>1. ASSUME NEW row, rows' = Append(rows, row), NotIsolated PROVE NotIsolated'
  <2>1. DOMAIN rows \subseteq DOMAIN rows' /\ \A i \in DOMAIN rows : rows'[i] = rows[i]
    BY <1>1 DEF LedgerType
  <2>. QED
    BY <1>1, <2>1 DEF NotIsolated
<1>2. CASE UNCHANGED rows
  BY <1>2 DEF NotIsolated
<1>. QED
  BY <1>1, <1>2, RungKind DEF Recorded, Skipped, Silent

\* An isolation that exits 0 has scoped both configurations; another leaves
\* its row.
LEMMA IsolateScopes == ASSUME LedgerType, TreeOK, Isolate PROVE Scoped' \/ NotIsolated'
<1>1. ASSUME Run(1, 0) PROVE NotIsolated'
  <2>1. rows' = Append(rows, [label |-> Here, exit |-> 1, expected |-> 0])
    BY <1>1 DEF Run
  <2>2. /\ Len(rows) + 1 \in DOMAIN rows'
        /\ rows'[Len(rows) + 1] = [label |-> Here, exit |-> 1, expected |-> 0]
    BY <2>1 DEF LedgerType
  <2>3. Here.step = "isolate"
    BY DEF Isolate, At
  <2>. QED
    BY <2>2, <2>3 DEF NotIsolated
<1>2. CASE tree' = Isolated(Envs) /\ \A env \in Envs : tree[env] # "bare"
  BY <1>2, IsolatedTree DEF Scoped
<1>. QED
  BY <1>1, <1>2 DEF Isolate

\* No database is there, and none is scoped, to begin with.
LEMMA InitWorld == Init => WorldInv
<1>. SUFFICES ASSUME Init PROVE WorldInv
  OBVIOUS
<1>1. TreeOK
  <2>1. {Gone, "bare", "shared", "v1", "old", "edited"} \subseteq Texts
    BY DEF Texts
  <2>2. CASE tree = DayZeroTree
    BY <2>1, <2>2, PathsDiffer DEF DayZeroTree, TreeOK, Configs
  <2>3. ASSUME NEW text \in {"v1", "edited"}, tree = LeftoverTree(text) PROVE TreeOK
    BY <2>1, <2>3, PathsDiffer DEF LeftoverTree, TreeOK, Configs
  <2>. QED
    BY <2>2, <2>3 DEF Init
<1>2. db = [env \in Envs |-> [site \in Sites |-> "none"]] /\ pos = 1
  BY DEF Init
<1>3. DbOK
  BY <1>2 DEF DbOK, Schemas
<1>4. SharedInv
  BY <1>2 DEF SharedInv, SharedUntouched, Sites, Isolation
<1>. QED
  BY <1>1, <1>3, <1>4 DEF WorldInv

\* Every rung keeps the databases of others untouched, or has been told.
LEMMA RungWorld == ASSUME LedgerInv, WorldInv, Rung PROVE WorldInv'
<1>. USE DEF WorldInv
<1>1. LedgerType /\ pos' = pos + 1 /\ pos \in 1 .. LastRow
  BY RungKind, LastIs DEF LedgerInv
<1>2. TreeOK' /\ (Here.step # "day-zero" => KeepsScoped)
  BY RungTree
<1>3. NotIsolated => NotIsolated'
  BY <1>1, RowsGrow
<1>4. DbOK' /\ (SharedUntouched' \/ (NotIsolated' /\ pos' > Isolation))
  <2>1. CASE Setup
    <3>1. /\ DbOK' /\ pos > Isolation
          /\ \A env \in Envs : tree[env] = "scoped" => db'[env]["shared"] = db[env]["shared"]
      BY <2>1, SetupDb
    <3>2. Scoped \/ NotIsolated
      BY <3>1 DEF SharedInv
    <3>3. CASE NotIsolated
      BY <1>1, <1>3, <3>1, <3>3 DEF Isolation
    <3>4. CASE Scoped /\ ~NotIsolated
      BY <3>1, <3>4 DEF Scoped, SharedInv, SharedUntouched
    <3>. QED
      BY <3>1, <3>2, <3>3, <3>4
  <2>2. CASE ~Setup
    BY <1>1, <1>3, <2>2, OtherDb DEF SharedInv, SharedUntouched, DbOK, Isolation
  <2>. QED
    BY <2>1, <2>2
<1>5. pos' > Isolation => Scoped' \/ NotIsolated'
  <2>1. CASE pos > Isolation
    <3>1. Here.step # "day-zero"
      BY <1>1, <2>1, LadderOrder DEF Here, LastRow, Isolation
    <3>. QED
      BY <1>2, <1>3, <2>1, <3>1 DEF SharedInv, Scoped, KeepsScoped
  <2>2. CASE pos = Isolation
    <3>1. Here.step = "isolate"
      BY <2>2, LadderOrder DEF Here
    <3>2. Isolate
      BY <3>1 DEF Rung, At, Observe, DayZero, Sync, DriftCheck, ManufactureFails, Manufacture,
             Compile, Seal, Codegen, Setup, Fingerprint, DbNondegenerate, DiffStep,
             TreeHash, CopyOcel, Check, GuardCase, Import, DriftReport
    <3>. QED
      BY <1>1, <3>2, IsolateScopes
  <2>3. CASE pos < Isolation
    BY <1>1, <2>3 DEF Isolation
  <2>. QED
    BY <1>1, <2>1, <2>2, <2>3 DEF Isolation
<1>. QED
  BY <1>2, <1>4, <1>5 DEF SharedInv

\* The verdict, the receipt and an interrupt leave the fixture alone.
LEMMA OtherWorld ==
    ASSUME LedgerInv, WorldInv, ConformanceStep \/ WriteReceipt \/ Interrupt \/ ReceiptByHand
    PROVE  WorldInv'
<1>1. UNCHANGED <<tree, db, rows>> /\ (pos' = pos \/ (pos' = pos + 1 /\ pos > Isolation))
  <2>1. CASE Interrupt \/ ReceiptByHand
    BY <2>1 DEF Interrupt, ReceiptByHand, fixture
  <2>2. CASE ConformanceStep \/ WriteReceipt
    <3>1. /\ UNCHANGED <<tree, db, rows>> /\ pos' = pos + 1 /\ pos \in 1 .. LastRow
          /\ Here.step \in {"conformance", "receipt"}
      BY <2>2, LastIs DEF ConformanceStep, WriteReceipt, fixture, At
    <3>2. pos > Isolation
      BY <3>1, LastIs DEF Here, Isolation
    <3>. QED
      BY <3>1, <3>2
  <2>. QED
    BY <2>1, <2>2
<1>. QED
  BY <1>1 DEF WorldInv, TreeOK, DbOK, SharedInv, SharedUntouched, Scoped, NotIsolated,
         LedgerInv, LedgerType, Isolation

\* The invariant of the fixture and its databases.
THEOREM WorldInvariant == Spec => []WorldInv
<1>1. LedgerInv /\ WorldInv /\ [Next]_vars => WorldInv'
  <2>. SUFFICES ASSUME LedgerInv, WorldInv, [Next]_vars PROVE WorldInv'
    OBVIOUS
  <2>1. CASE UNCHANGED vars
    BY <2>1 DEF vars, fixture, WorldInv, TreeOK, DbOK, SharedInv, SharedUntouched, Scoped,
           NotIsolated
  <2>. QED
    BY <2>1, RungWorld, OtherWorld DEF Next, Rung
<1>. QED
  BY <1>1, InitWorld, LedgerInvariant, PTL DEF Spec

\* A database the qualification does not own is touched only after a row that
\* says the isolation failed, whatever fails before and after it.
THEOREM SharedOnlyWithoutIsolation == Spec => []SharedOnlyIfNotIsolated
<1>1. WorldInv => SharedOnlyIfNotIsolated
  BY DEF WorldInv, SharedInv, SharedUntouched, NotIsolated, SharedOnlyIfNotIsolated
<1>. QED
  BY <1>1, WorldInvariant, PTL

-----------------------------------------------------------------------------
(* Type correctness.                                                        *)

LiveOK ==
    /\ DOMAIN live = Phases
    /\ \A phase \in Phases : \A log \in live[phase] :
           log = [doc |-> log.doc, by |-> log.by] /\ log.by \in 0 .. 3
Captures == [1 .. 3 -> SUBSET (Schemas \cup {"error"})]
RestOK ==
    /\ compileExit \in [Phases -> {0, 1}]
    /\ D \in Captures
    /\ drift \in {None, "clean", "drift", "traceback"}
    /\ reset \in BOOLEAN
    /\ faults \in 0 .. MaxFaults

TypeInv == LiveOK /\ RestOK

\* A label of the ladder names one of its runs.
LEMMA HereType == ASSUME pos \in DOMAIN Ladder PROVE Here.run \in 0 .. 3
  BY LadderOrder DEF Here

\* A log says which run wrote it, sealed or not.
LEMMA RungLive == ASSUME LiveOK, Rung PROVE LiveOK'
<1>1. CASE live' = live
  BY <1>1 DEF LiveOK
<1>2. CASE live' = NoLogs
  BY <1>2 DEF LiveOK, NoLogs
<1>3. CASE Manufacture
  <2>1. PICK doc : live' = [live EXCEPT ![Here.phase] = {[doc |-> doc, by |-> Here.run]}]
    BY <1>3 DEF Manufacture, WriteLog
  <2>2. Here.run \in 0 .. 3
    BY HereType, RungKind
  <2>. QED
    BY <2>1, <2>2 DEF LiveOK
<1>4. CASE Seal
  <2>. DEFINE phase == Here.phase
              sealed(log) == [log EXCEPT !.doc = SealedWith(log.doc, phase, compileExit[phase])]
  <2>1. live' = live \/ live' = [live EXCEPT ![phase] = {sealed(log) : log \in live[phase]}]
    BY <1>4 DEF Seal, Sealing
  <2>2. ASSUME NEW log, log = [doc |-> log.doc, by |-> log.by], log.by \in 0 .. 3
        PROVE  sealed(log) = [doc |-> sealed(log).doc, by |-> sealed(log).by] /\ sealed(log).by \in 0 .. 3
    BY <2>2
  <2>. HIDE DEF sealed, phase
  <2>. QED
    BY <1>1, <2>1, <2>2 DEF LiveOK
<1>5. CASE DayZero \/ Sync \/ Isolate \/ Codegen \/ Setup
  BY <1>1, <1>2, <1>5 DEF DayZero, Sync, Isolate, Codegen, Setup
<1>6. CASE Observe \/ DriftCheck \/ ManufactureFails \/ Compile
           \/ Fingerprint \/ DbNondegenerate \/ DiffStep
           \/ TreeHash \/ CopyOcel \/ Check \/ GuardCase \/ Import \/ DriftReport
  BY <1>1, <1>6 DEF fixture, Observe, DriftCheck, ManufactureFails, Compile,
         Fingerprint, DbNondegenerate, DiffStep, TreeHash, CopyOcel, Check, GuardCase,
         Import, DriftReport
<1>. QED
  BY <1>3, <1>4, <1>5, <1>6 DEF Rung

\* The faults are counted, and stay in their bound.
LEMMA FaultType ==
    ASSUME faults \in 0 .. MaxFaults, Fault \/ Tolerate \/ UNCHANGED faults
    PROVE  faults' \in 0 .. MaxFaults
  BY PlanAssumption DEF Fault, Tolerate

\* Each rung spends a fault or none.
LEMMA RungFaults == ASSUME Rung PROVE Fault \/ UNCHANGED faults
<1>. USE DEF Tolerate
<1>1. CASE Observe \/ DayZero \/ Sync \/ ManufactureFails \/ Compile \/ Isolate \/ Seal \/ Codegen
  BY <1>1 DEF Observe, DayZero, Sync, ManufactureFails, Compile, Isolate, Seal, Codegen
<1>2. CASE Manufacture \/ Setup \/ Fingerprint
  BY <1>2 DEF Manufacture, Setup, Fingerprint
<1>3. CASE Check \/ GuardCase \/ Import \/ TreeHash \/ CopyOcel \/ DriftReport
           \/ DriftCheck \/ DbNondegenerate \/ DiffStep
  BY <1>3 DEF Check, GuardCase, Import, TreeHash, CopyOcel, DriftReport,
         DriftCheck, DbNondegenerate, DiffStep
<1>. QED
  BY <1>1, <1>2, <1>3 DEF Rung

\* The exits, the captures, the drift report, the reset and the faults.
LEMMA RungRest == ASSUME DbOK, RestOK, Rung PROVE RestOK'
<1>1. faults' \in 0 .. MaxFaults
  BY RungFaults, FaultType DEF RestOK
<1>2. reset' \in BOOLEAN
  <2>1. CASE DayZero
    BY <2>1 DEF DayZero, RestOK
  <2>2. reset' = reset \/ DayZero
    <3>. USE DEF Run, Pass, Skip
    <3>1. CASE Observe \/ Sync \/ DriftCheck \/ ManufactureFails \/ Manufacture \/ Compile
               \/ Isolate \/ Seal \/ Codegen \/ Setup
      BY <3>1 DEF Observe, Sync, DriftCheck, ManufactureFails, Manufacture, Compile,
             Isolate, Seal, Codegen, Setup
    <3>2. CASE Fingerprint \/ DbNondegenerate \/ DiffStep \/ TreeHash \/ CopyOcel \/ Check
               \/ GuardCase \/ Import \/ DriftReport
      BY <3>2 DEF Fingerprint, DbNondegenerate, DiffStep, TreeHash, CopyOcel, Check,
             GuardCase, Import, DriftReport
    <3>. QED
      BY <3>1, <3>2 DEF Rung
  <2>. QED
    BY <2>1, <2>2 DEF RestOK
<1>3. CASE Compile
  <2>1. PICK exit \in {0, 1} :
           compileExit' = [phase \in Phases |-> IF Here.phase \in {phase, None}
                                               THEN exit ELSE compileExit[phase]]
    BY <1>3 DEF Compile
  <2>2. compileExit' \in [Phases -> {0, 1}]
    BY <2>1 DEF RestOK
  <2>3. D' = D /\ drift' = drift
    BY <1>3 DEF Compile, evidence
  <2>. QED
    BY <1>1, <1>2, <2>2, <2>3 DEF RestOK
<1>4. CASE Fingerprint
  <2>1. PICK capture \in SUBSET (Schemas \cup {"error"}) : D' = [D EXCEPT ![Here.run] = capture]
    <3>1. db["dev"]["scoped"] \in Schemas
      BY DEF DbOK, Envs, Sites
    <3>2. {db["dev"]["scoped"]} \in SUBSET (Schemas \cup {"error"})
          /\ {"error"} \in SUBSET (Schemas \cup {"error"})
      BY <3>1
    <3>. QED
      BY <1>4, <3>2 DEF Fingerprint
  <2>2. D' \in Captures
    BY <2>1 DEF RestOK, Captures
  <2>3. compileExit' = compileExit /\ drift' = drift
    BY <1>4 DEF Fingerprint
  <2>. QED
    BY <1>1, <1>2, <2>2, <2>3 DEF RestOK
<1>5. CASE DriftReport
  <2>1. drift' \in {"clean", "drift", "traceback"} /\ UNCHANGED <<compileExit, D>>
    BY <1>5 DEF DriftReport
  <2>. QED
    BY <1>1, <1>2, <2>1 DEF RestOK
<1>6. CASE UNCHANGED <<compileExit, D, drift>>
  BY <1>1, <1>2, <1>6 DEF RestOK
<1>7. CASE Observe \/ DayZero \/ Sync \/ DriftCheck \/ ManufactureFails \/ Manufacture
           \/ Isolate \/ Seal \/ Codegen \/ Setup \/ DbNondegenerate \/ DiffStep
           \/ TreeHash \/ CopyOcel \/ Check \/ GuardCase \/ Import
  BY <1>6, <1>7 DEF evidence, Observe, DayZero, Sync, DriftCheck, ManufactureFails, Manufacture,
         Isolate, Seal, Codegen, Setup, DbNondegenerate, DiffStep, TreeHash, CopyOcel, Check,
         GuardCase, Import
<1>. QED
  BY <1>3, <1>4, <1>5, <1>7 DEF Rung

\* The first state has its types: no logs, or sealed ones.
LEMMA InitType == Init => TypeInv
<1>. SUFFICES ASSUME Init PROVE TypeInv
  OBVIOUS
<1>1. LiveOK
  <2>1. CASE live = NoLogs
    BY <2>1 DEF LiveOK, NoLogs
  <2>2. ASSUME NEW text, live = [phase \in Phases |-> LeftoverLog(text, phase)] PROVE LiveOK
    <3>1. ASSUME NEW phase \in Phases, NEW log \in LeftoverLog(text, phase)
          PROVE  log = [doc |-> log.doc, by |-> log.by] /\ log.by \in 0 .. 3
      <4>1. PICK doc : log = [doc |-> doc, by |-> 0]
        BY <3>1 DEF LeftoverLog
      <4>. QED
        BY <4>1
    <3>. QED
      BY <2>2, <3>1 DEF LiveOK
  <2>. QED
    BY <2>1, <2>2 DEF Init
<1>2. faults \in 0 .. MaxFaults
  <2>1. faults \in Nat
    <3>1. /\ faults = Cardinality(broken)
          /\ broken \in {{}} \cup {{what} : what \in Phases \cup {"psql", "shasum"}}
      BY DEF Init
    <3>2. Cardinality({}) = 0 /\ \A what : Cardinality({what}) = 1
      BY FS_EmptySet, FS_Singleton
    <3>3. CASE broken = {}
      BY <3>1, <3>2, <3>3
    <3>4. ASSUME NEW what, broken = {what} PROVE faults \in Nat
      <4>1. Cardinality(broken) = 1
        BY <3>2, <3>4, Zenon
      <4>. QED
        BY <3>1, <4>1
    <3>. QED
      BY <3>1, <3>3, <3>4
  <2>. QED
    BY <2>1, PlanAssumption DEF Init
<1>3. RestOK
  BY <1>2 DEF Init, RestOK, Captures
<1>. QED
  BY <1>1, <1>3 DEF TypeInv

\* The rest of Next changes the verdict, the receipt or the interruption.
LEMMA OtherType ==
    ASSUME LedgerInv, TypeInv, ConformanceStep \/ WriteReceipt \/ Interrupt \/ ReceiptByHand
    PROVE  TypeInv'
<1>1. UNCHANGED <<live, compileExit, D, drift, reset>>
  BY DEF ConformanceStep, WriteReceipt, Interrupt, ReceiptByHand, fixture, evidence
<1>2. faults' \in 0 .. MaxFaults
  BY FaultType DEF ConformanceStep, WriteReceipt, Interrupt, ReceiptByHand, Tolerate, TypeInv, RestOK
<1>. QED
  BY <1>1, <1>2 DEF TypeInv, LiveOK, RestOK

\* The invariant of the types.
THEOREM TypeInvariant == Spec => []TypeInv
<1>1. LedgerInv /\ WorldInv /\ TypeInv /\ [Next]_vars => TypeInv'
  <2>. SUFFICES ASSUME LedgerInv, WorldInv, TypeInv, [Next]_vars PROVE TypeInv'
    OBVIOUS
  <2>1. CASE UNCHANGED vars
    BY <2>1 DEF vars, fixture, evidence, TypeInv, LiveOK, RestOK
  <2>2. CASE Rung
    BY <2>2, RungLive, RungRest DEF TypeInv, WorldInv
  <2>. QED
    BY <2>1, <2>2, OtherType DEF Next, Rung
<1>. QED
  BY <1>1, InitType, LedgerInvariant, WorldInvariant, PTL DEF Spec

-----------------------------------------------------------------------------
(* What the receipt says of the artifacts it was written from.              *)

ReceiptNow == Receipt(rows, T, D, Logs, verdict)
ReceiptInv == \A r \in receipt : r = ReceiptNow

\* A comparison is identical exactly when both sides are there and the same.
LEMMA IdenticalIsSame ==
    ASSUME NEW a, NEW b
    PROVE  /\ CompareState(a, b) = "identical" <=> Same(a, b)
           /\ CompareState(a, b) = "differs" => a # {} /\ b # {}
<1>1. CASE a = {} \/ b = {}
  BY <1>1 DEF CompareState, Same
<1>2. CASE a # {} /\ b # {} /\ a = b
  BY <1>2 DEF CompareState, Same
<1>3. CASE a # {} /\ b # {} /\ a # b
  BY <1>3 DEF CompareState, Same
<1>. QED
  BY <1>1, <1>2, <1>3

\* The oracles of IDEMPOTENCY_ALIVE are the ones that are named when red.
LEMMA NoOracleIsAlive ==
    ASSUME NEW rs, NEW TT, NEW DD
    PROVE  ChecksClean(rs) /\ TreeFixpoint(TT) /\ DbIdentical(rs, DD)
               <=> FailedOracles(rs, TT, DD) = {}
<1>1. {c \in Compared(TT, DD) : c[2] # "identical"} = {}
          <=> TreeFixpoint(TT) /\ Same(DD[1], DD[2]) /\ Same(DD[2], DD[3])
  <2>. DEFINE t12 == CompareState(TT[1], TT[2])
              t23 == CompareState(TT[2], TT[3])
              d12 == CompareState(DD[1], DD[2])
              d23 == CompareState(DD[2], DD[3])
              Found == {<<"tree_T1_T2", t12>>, <<"tree_T2_T3", t23>>,
                        <<"db_D1_D2", d12>>, <<"db_D2_D3", d23>>}
  <2>1. {c \in Found : c[2] # "identical"} = {}
            <=> t12 = "identical" /\ t23 = "identical" /\ d12 = "identical" /\ d23 = "identical"
    <3>. HIDE DEF t12, t23, d12, d23
    <3>1. ASSUME {c \in Found : c[2] # "identical"} = {}
          PROVE  t12 = "identical" /\ t23 = "identical" /\ d12 = "identical" /\ d23 = "identical"
      <4>1. \A c \in Found : c[2] = "identical"
        <5>. HIDE DEF Found
        <5>. QED
          BY <3>1, Zenon
      <4>2. /\ <<"tree_T1_T2", t12>> \in Found /\ <<"tree_T2_T3", t23>> \in Found
            /\ <<"db_D1_D2", d12>> \in Found /\ <<"db_D2_D3", d23>> \in Found
        BY Zenon
      <4>. HIDE DEF Found
      <4>. QED
        BY <4>1, <4>2
    <3>2. ASSUME t12 = "identical", t23 = "identical", d12 = "identical", d23 = "identical"
          PROVE  {c \in Found : c[2] # "identical"} = {}
      <4>1. \A c \in Found : c[2] = "identical"
        BY <3>2
      <4>. HIDE DEF Found
      <4>. QED
        BY <4>1, Zenon
    <3>. QED
      BY <3>1, <3>2
  <2>2. Compared(TT, DD) = Found
    BY Zenon DEF Compared
  <2>. QED
    BY <2>1, <2>2, IdenticalIsSame DEF TreeFixpoint
<1>2. /\ Unless(ChecksClean(rs), "igniter_check") = {} <=> ChecksClean(rs)
      /\ Unless(AllAsExpected(rs, "db-nondegenerate"), "db_nondegenerate") = {}
             <=> AllAsExpected(rs, "db-nondegenerate")
  BY DEF Unless
<1>. QED
  BY <1>1, <1>2 DEF FailedOracles, DbIdentical

\* A receipt is written once, and nothing happens after it.
LEMMA NextReceipt == ASSUME LedgerInv, ReceiptInv, Next PROVE ReceiptInv'
<1>1. CASE Rung \/ ConformanceStep
  <2>1. receipt' = receipt /\ ~killed /\ pos \in DOMAIN Ladder
    BY <1>1, RungKind DEF ConformanceStep, At
  <2>2. receipt' = {}
    BY <2>1 DEF LedgerInv, Progress
  <2>. QED
    BY <2>2 DEF ReceiptInv
<1>2. CASE WriteReceipt \/ ReceiptByHand
  <2>1. UNCHANGED <<rows, T, D, ocel, verdict>> /\ receipt' \subseteq Written
    BY <1>2 DEF WriteReceipt, ReceiptByHand
  <2>2. ReceiptNow' = ReceiptNow
    BY <2>1 DEF ReceiptNow, Logs
  <2>3. Written \subseteq {ReceiptNow}
    BY DEF Written, ReceiptNow
  <2>. QED
    BY <2>1, <2>2, <2>3 DEF ReceiptInv
<1>3. CASE Interrupt
  <2>1. receipt' = {}
    BY <1>3 DEF Interrupt, evidence, LedgerInv, Progress
  <2>. QED
    BY <2>1 DEF ReceiptInv
<1>. QED
  BY <1>1, <1>2, <1>3 DEF Next, Rung

\* A receipt is about the artifacts as they are.
THEOREM ReceiptInvariant == Spec => []ReceiptInv
<1>1. Init => ReceiptInv
  BY DEF Init, ReceiptInv
<1>2. LedgerInv /\ ReceiptInv /\ [Next]_vars => ReceiptInv'
  <2>1. ASSUME ReceiptInv, UNCHANGED vars PROVE ReceiptInv'
    BY <2>1 DEF vars, evidence, ReceiptInv, ReceiptNow, Logs
  <2>. QED
    BY <2>1, NextReceipt
<1>. QED
  BY <1>1, <1>2, LedgerInvariant, PTL DEF Spec

\* A red IDEMPOTENCY_ALIVE names its oracle and a named oracle makes it red;
\* "differs" is said of two captures that are both there.
THEOREM RedNamesItsOracle == Spec => []RedStandingNamesItsOracle
<1>1. ReceiptInv => RedStandingNamesItsOracle
  <2>. SUFFICES ASSUME ReceiptInv, NEW r \in receipt
                PROVE  /\ r.alive.IDEMPOTENCY <=> r.failedOracles = {}
                       /\ <<"tree_T1_T2", "differs">> \in r.failedOracles => T[1] # {} /\ T[2] # {}
                       /\ <<"db_D2_D3", "differs">> \in r.failedOracles => D[2] # {} /\ D[3] # {}
    BY DEF RedStandingNamesItsOracle
  <2>1. r.failedOracles = FailedOracles(rows, T, D)
    BY DEF ReceiptInv, ReceiptNow, Receipt
  <2>2. r.alive = Alive(rows, T, D, Logs, verdict)
    BY DEF ReceiptInv, ReceiptNow, Receipt
  <2>3. r.alive.IDEMPOTENCY = (ChecksClean(rows) /\ TreeFixpoint(T) /\ DbIdentical(rows, D))
    BY <2>2 DEF Alive
  <2>4. r.alive.IDEMPOTENCY <=> r.failedOracles = {}
    BY <2>1, <2>3, NoOracleIsAlive, Zenon
  <2>5. ASSUME NEW name \in {"tree_T1_T2", "db_D2_D3"},
               <<name, "differs">> \in FailedOracles(rows, T, D)
        PROVE  <<name, "differs">> \in Compared(T, D)
    BY <2>5 DEF FailedOracles, Unless
  <2>6. <<"tree_T1_T2", "differs">> \in Compared(T, D) => CompareState(T[1], T[2]) = "differs"
    BY DEF Compared
  <2>7. <<"db_D2_D3", "differs">> \in Compared(T, D) => CompareState(D[2], D[3]) = "differs"
    BY DEF Compared
  <2>. QED
    BY <2>1, <2>4, <2>5, <2>6, <2>7, IdenticalIsSame
<1>. QED
  BY <1>1, ReceiptInvariant, PTL

-----------------------------------------------------------------------------
(* The evidence: rows, captures, diffs, and what is judged on them.        *)

\* What every action of Next is, apart from an interrupt, to the position.
LEMMA RungPos ==
    ASSUME LedgerInv, Rung
    PROVE  pos' = pos + 1 /\ pos \in 1 .. 60 /\ ~killed /\ verdict = None /\ receipt = {}
<1>1. pos' = pos + 1 /\ pos \in 1 .. 62 /\ ~killed /\ Here.step \notin {"conformance", "receipt"}
  BY RungKind, LadderAt
<1>2. pos # 61 /\ pos # 62
  BY <1>1, LadderAt DEF Here, S
<1>3. pos \in 1 .. 60 /\ pos \in DOMAIN Ladder /\ pos <= LastRow - 1
  BY <1>1, <1>2, LadderAt DEF LastRow
<1>. QED
  BY <1>1, <1>3 DEF LedgerInv, Progress

\* The last two steps, and what is not a step.
LEMMA JudgedPos ==
    ASSUME LedgerInv, ConformanceStep \/ WriteReceipt \/ Interrupt \/ ReceiptByHand
    PROVE  /\ UNCHANGED <<tree, live, db, rows, T, short, D, ocel, reset>>
           /\ ConformanceStep => pos = 61 /\ pos' = 62
           /\ WriteReceipt => pos = 62 /\ pos' = 63 /\ verdict' = verdict
           /\ Interrupt \/ ReceiptByHand => pos' = pos /\ verdict' = verdict
<1>1. ConformanceStep => pos = 61 /\ pos' = 62
  <2>1. ConformanceStep => pos \in 1 .. 62 /\ Ladder[pos].step = "conformance" /\ pos' = pos + 1
    BY LadderAt DEF ConformanceStep, At, Here
  <2>. QED
    BY <2>1, LadderAt DEF S
<1>2. WriteReceipt => pos = 62 /\ pos' = 63 /\ verdict' = verdict
  <2>1. WriteReceipt => /\ pos \in 1 .. 62 /\ Ladder[pos].step = "receipt" /\ pos' = pos + 1
                        /\ verdict' = verdict
    BY LadderAt DEF WriteReceipt, At, Here
  <2>. QED
    BY <2>1, LadderAt DEF S
<1>3. Interrupt \/ ReceiptByHand => pos' = pos /\ verdict' = verdict
  BY DEF Interrupt, ReceiptByHand, evidence
<1>4. UNCHANGED <<tree, live, db, rows, T, short, D, ocel, reset>>
  BY DEF ConformanceStep, WriteReceipt, Interrupt, ReceiptByHand, fixture, evidence
<1>. QED
  BY <1>1, <1>2, <1>3, <1>4

-----------------------------------------------------------------------------
(* The rows of the ledger: one for each rung the harness has passed.        *)

RowOf(row, label) ==
    /\ row.label = label /\ label.step \notin Rowless
    /\ row.exit = Null => label.step = "beam4pm-import"
    /\ row.expected # 0 => label.step = "guard"
RowsInv ==
    /\ \A i \in DOMAIN rows : \E k \in 1 .. (pos - 1) : RowOf(rows[i], Ladder[k])
    /\ \A k \in 1 .. (pos - 1) :
           Ladder[k].step \notin Rowless => \E i \in DOMAIN rows : rows[i].label = Ladder[k]

\* The rows stay, and a rung that is not silent adds its own.
LEMMA RungRow ==
    ASSUME LedgerInv, Rung
    PROVE  /\ rows \in Seq(Row) /\ rows' \in Seq(Row)
           /\ \A i \in DOMAIN rows : i \in DOMAIN rows' /\ rows'[i] = rows[i]
           /\ \A i \in DOMAIN rows' \ DOMAIN rows : RowOf(rows'[i], Here)
           /\ Here.step \notin Rowless => \E i \in DOMAIN rows' : rows'[i].label = Here
<1>1. rows \in Seq(Row) /\ pos \in DOMAIN Ladder
  BY RungKind DEF LedgerInv, LedgerType
<1>2. ASSUME NEW exit \in {Null, 0, 1, 2}, NEW expected \in {0, 2},
             rows' = Append(rows, RowFor(exit, expected)),
             RowOf(RowFor(exit, expected), Here)
      PROVE  /\ rows' \in Seq(Row)
             /\ \A i \in DOMAIN rows : i \in DOMAIN rows' /\ rows'[i] = rows[i]
             /\ \A i \in DOMAIN rows' \ DOMAIN rows : RowOf(rows'[i], Here)
             /\ \E i \in DOMAIN rows' : rows'[i].label = Here
  <2>. DEFINE row == RowFor(exit, expected)
  <2>1. row \in Row /\ row.label = Here
    BY <1>1, RowForType DEF RowFor
  <2>. HIDE DEF row, Row
  <2>2. /\ rows' \in Seq(Row) /\ DOMAIN rows' = DOMAIN rows \cup {Len(rows) + 1}
        /\ \A i \in DOMAIN rows : rows'[i] = rows[i]
        /\ rows'[Len(rows) + 1] = row
    BY <1>1, <1>2, <2>1 DEF row
  <2>. QED
    BY <1>2, <2>1, <2>2 DEF row
<1>3. CASE Recorded
  <2>1. PICK exit \in {0, 1, 2}, expected \in {0, 2} :
           /\ rows' = Append(rows, RowFor(exit, expected))
           /\ expected # 0 => Here.step = "guard"
    BY <1>3 DEF Recorded
  <2>2. RowOf(RowFor(exit, expected), Here)
    BY <1>3, <2>1 DEF Recorded, RowOf, RowFor, Null
  <2>. QED
    BY <1>1, <1>2, <2>1, <2>2
<1>4. CASE Skipped
  <2>1. RowOf(RowFor(Null, 0), Here)
    BY <1>4 DEF Skipped, RowOf, RowFor, Rowless
  <2>. QED
    BY <1>1, <1>2, <1>4, <2>1 DEF Skipped
<1>5. CASE Silent
  BY <1>1, <1>5 DEF Silent
<1>. QED
  BY <1>3, <1>4, <1>5, RungKind

\* Every step keeps the rows the rungs' rows.
LEMMA NextRows == ASSUME LedgerInv, RowsInv, Next PROVE RowsInv'
<1>1. CASE Rung
  <2>1. pos' = pos + 1 /\ pos \in 1 .. 60 /\ Here = Ladder[pos]
    BY <1>1, RungPos DEF Here
  <2>2. /\ \A i \in DOMAIN rows : i \in DOMAIN rows' /\ rows'[i] = rows[i]
        /\ \A i \in DOMAIN rows' \ DOMAIN rows : RowOf(rows'[i], Here)
        /\ Here.step \notin Rowless => \E i \in DOMAIN rows' : rows'[i].label = Here
    BY <1>1, RungRow
  <2>3. 1 .. (pos' - 1) = (1 .. (pos - 1)) \cup {pos}
    BY <2>1
  <2>. QED
    BY <2>1, <2>2, <2>3 DEF RowsInv
<1>2. CASE ConformanceStep \/ WriteReceipt \/ Interrupt \/ ReceiptByHand
  <2>1. rows' = rows /\ (pos' = pos \/ (pos \in 61 .. 62 /\ pos' = pos + 1))
    BY <1>2, JudgedPos
  <2>2. \A k \in 61 .. 62 : Ladder[k].step \in Rowless
    BY LadderAt DEF S, Rowless
  <2>3. CASE pos' = pos
    BY <2>1, <2>3 DEF RowsInv
  <2>4. CASE pos \in 61 .. 62 /\ pos' = pos + 1
    <3>1. 1 .. (pos' - 1) = (1 .. (pos - 1)) \cup {pos}
      BY <2>4
    <3>. QED
      BY <2>1, <2>2, <2>4, <3>1 DEF RowsInv
  <2>. QED
    BY <2>1, <2>3, <2>4
<1>. QED
  BY <1>1, <1>2 DEF Next, Rung

\* The ledger has a row for each rung that was passed, and no other.
THEOREM RowsInvariant == Spec => []RowsInv
<1>1. Init => RowsInv
  BY DEF Init, RowsInv
<1>2. LedgerInv /\ RowsInv /\ [Next]_vars => RowsInv'
  <2>1. ASSUME RowsInv, UNCHANGED vars PROVE RowsInv'
    BY <2>1 DEF vars, RowsInv
  <2>. QED
    BY <2>1, NextRows
<1>. QED
  BY <1>1, <1>2, LedgerInvariant, PTL DEF Spec

-----------------------------------------------------------------------------
(* Who writes what, and where in the ladder.                                *)

HashedAt(run) == IF run = 0 THEN 4 ELSE <<23, 36, 51>>[run]
FingerprintAt(run) == <<18, 32, 49>>[run]

\* Where the steps that write the fixture and the evidence stand.
LEMMA StepsAt ==
    \A i \in 1 .. 62 : LET step == Ladder[i].step  run == Ladder[i].run IN
        /\ step = "day-zero" => i = 1
        /\ step = "ggen-sync" => i = 5
        /\ step = "isolate" => i = 11
        /\ step = "manufacture" => i \in {9, 12, 27, 28, 41, 42}
        /\ step = "seal" => i \in {14, 15, 34, 35, 45, 46}
        /\ step = "ash-codegen" => i \in {16, 29, 43}
        /\ step \in {"ash-setup", "ash-setup-test-env", "resources-execute", "ash-migrate"}
               => i \in {17, 21, 22, 31, 48}
        /\ step = "copy-ocel" => i \in {24, 38, 47}
        /\ step = "tree-hash" => run \in 0 .. 3 /\ i = HashedAt(run)
        /\ step = "db-fingerprint" => run \in 1 .. 3 /\ i = FingerprintAt(run)
  BY LadderAt DEF S, HashedAt, FingerprintAt

\* So where the harness is when it writes.
LEMMA WriterAt ==
    /\ DayZero => pos = 1
    /\ Sync => pos = 5
    /\ Isolate => pos = 11
    /\ Manufacture => pos \in {9, 12, 27, 28, 41, 42}
    /\ Codegen => pos \in {16, 29, 43}
    /\ Seal => pos \in {14, 15, 34, 35, 45, 46}
    /\ Setup => pos \in {17, 21, 22, 31, 48}
    /\ CopyOcel => pos \in {24, 38, 47}
    /\ TreeHash => Here.run \in 0 .. 3 /\ pos = HashedAt(Here.run)
    /\ Fingerprint => Here.run \in 1 .. 3 /\ pos = FingerprintAt(Here.run)
<1>. DEFINE Stands(steps) == pos \in 1 .. 62 /\ Ladder[pos].step \in steps
<1>1. \A steps : At(steps) => Stands(steps)
  BY LadderAt DEF At, Here
<1>. HIDE DEF Stands
<1>2. /\ DayZero => Stands({"day-zero"})
      /\ Sync => Stands({"ggen-sync"})
      /\ Isolate => Stands({"isolate"})
      /\ Manufacture => Stands({"manufacture"})
      /\ Codegen => Stands({"ash-codegen"})
  BY <1>1 DEF DayZero, Sync, Isolate, Manufacture, Codegen
<1>3. /\ Seal => Stands({"seal"})
      /\ Setup => Stands({"ash-setup", "ash-setup-test-env", "resources-execute", "ash-migrate"})
      /\ CopyOcel => Stands({"copy-ocel"})
      /\ TreeHash => Stands({"tree-hash"})
      /\ Fingerprint => Stands({"db-fingerprint"})
  BY <1>1 DEF Seal, Setup, CopyOcel, TreeHash, Fingerprint
<1>4. /\ Stands({"day-zero"}) => pos = 1
      /\ Stands({"ggen-sync"}) => pos = 5
      /\ Stands({"isolate"}) => pos = 11
      /\ Stands({"manufacture"}) => pos \in {9, 12, 27, 28, 41, 42}
      /\ Stands({"ash-codegen"}) => pos \in {16, 29, 43}
      /\ Stands({"seal"}) => pos \in {14, 15, 34, 35, 45, 46}
      /\ Stands({"ash-setup", "ash-setup-test-env", "resources-execute", "ash-migrate"})
             => pos \in {17, 21, 22, 31, 48}
      /\ Stands({"copy-ocel"}) => pos \in {24, 38, 47}
      /\ Stands({"tree-hash"}) => Here.run \in 0 .. 3 /\ pos = HashedAt(Here.run)
      /\ Stands({"db-fingerprint"}) => Here.run \in 1 .. 3 /\ pos = FingerprintAt(Here.run)
  BY StepsAt DEF Stands, Here
<1>. QED
  BY <1>2, <1>3, <1>4

\* The only rungs that write the fixture and the evidence.
LEMMA RungWrites ==
    ASSUME Rung
    PROVE  /\ DayZero \/ Sync \/ Isolate \/ Manufacture \/ Codegen \/ tree' = tree
           /\ DayZero \/ Manufacture \/ Seal \/ live' = live
           /\ Setup \/ db' = db
           /\ TreeHash \/ (T' = T /\ short' = short)
           /\ Fingerprint \/ D' = D
           /\ CopyOcel \/ ocel' = ocel
           /\ DayZero \/ reset' = reset
<1>. USE DEF Run, Pass, Skip, fixture, evidence
<1>1. CASE DayZero
  BY <1>1 DEF DayZero
<1>2. CASE Sync \/ Isolate \/ Codegen
  BY <1>2 DEF Sync, Isolate, Codegen
<1>3. CASE Manufacture
  BY <1>3 DEF Manufacture
<1>4. CASE Seal
  BY <1>4 DEF Seal
<1>5. CASE Setup \/ TreeHash \/ Fingerprint \/ CopyOcel
  BY <1>5 DEF Setup, TreeHash, Fingerprint, CopyOcel
<1>6. CASE Observe \/ DriftCheck \/ ManufactureFails \/ Compile \/ DbNondegenerate
           \/ DiffStep \/ Check \/ GuardCase \/ Import \/ DriftReport
  BY <1>6 DEF Observe, DriftCheck, ManufactureFails, Compile, DbNondegenerate, DiffStep,
         Check, GuardCase, Import, DriftReport
<1>. QED
  BY <1>1, <1>2, <1>3, <1>4, <1>5, <1>6 DEF Rung

-----------------------------------------------------------------------------
(* The captures of the tree and of the database.                            *)

\* A tree is captured once, with its configurations unless the capture is
\* short; after a complete reset the first one has nothing else, and the last
\* one is of the tree as it is, all of it unless it is short.
TreeCaptures ==
    /\ T = [run \in 0 .. 3 |-> T[run]] /\ short \subseteq 0 .. 3
    /\ \A run \in 0 .. 3 :
           /\ T[run] # {} <=> pos > HashedAt(run)
           /\ \A t \in T[run] : T[run] = {t}
           /\ run \notin short => \A t \in T[run] : Envs \subseteq DOMAIN t
    /\ reset => /\ pos > 1
                /\ pos <= 4 => tree = DayZeroTree
                /\ pos > 4 => \A t \in T[0] : DOMAIN t \subseteq Envs
    /\ pos > 51 => \A t \in T[3] : /\ \A p \in DOMAIN t : tree[p] = t[p]
                                   /\ 3 \notin short => t = Listing

\* So is a database, and the last one is the one of this qualification.
DbCaptures ==
    /\ \A run \in 1 .. 3 : D[run] # {} <=> pos > FingerprintAt(run)
    /\ pos > 49 => \/ D[3] = {"error"}
                   \/ D[3] = {db["dev"]["scoped"]} /\ db["dev"]["scoped"] # "none"

\* A tree has its configurations.
LEMMA ListingHasEnvs == ASSUME TreeOK PROVE Envs \subseteq DOMAIN Listing
  BY PathsDiffer DEF TreeOK, Listing, Configs, Gone

\* A tree that was reset has nothing else.
LEMMA ListingOfReset == ASSUME tree = DayZeroTree PROVE DOMAIN Listing \subseteq Envs
<1>1. \A p \in Paths : tree[p] # Gone => p \in Envs
  BY DEF DayZeroTree, Gone
<1>. QED
  BY <1>1 DEF Listing

\* A capture lists what is there, and all of it unless it is noted as short.
LEMMA CaptureIs ==
    ASSUME TreeHash
    PROVE  \E t : /\ T' = [T EXCEPT ![Here.run] = {t}]
                  /\ DOMAIN t \subseteq DOMAIN Listing /\ \A p \in DOMAIN t : tree[p] = t[p]
                  /\ short \subseteq short' /\ short' \subseteq short \cup {Here.run}
                  /\ Here.run \in short' \/ t = Listing
<1>1. CASE T' = [T EXCEPT ![Here.run] = {Listing}] /\ short' = short
  <2>1. \A p \in DOMAIN Listing : tree[p] = Listing[p]
    BY DEF Listing
  <2>. QED
    BY <1>1, <2>1
<1>2. ASSUME NEW lost, T' = [T EXCEPT ![Here.run] = {Without(lost)}],
             short' = short \cup {Here.run}
      PROVE  \E t : /\ T' = [T EXCEPT ![Here.run] = {t}]
                    /\ DOMAIN t \subseteq DOMAIN Listing /\ \A p \in DOMAIN t : tree[p] = t[p]
                    /\ short \subseteq short' /\ short' \subseteq short \cup {Here.run}
                    /\ Here.run \in short' \/ t = Listing
  <2>1. /\ DOMAIN Without(lost) \subseteq DOMAIN Listing
        /\ \A p \in DOMAIN Without(lost) : tree[p] = Without(lost)[p]
    BY DEF Without, Listing
  <2>2. short \subseteq short' /\ short' \subseteq short \cup {Here.run} /\ Here.run \in short'
    BY <1>2
  <2>. QED
    BY <1>2, <2>1, <2>2
<1>. QED
  BY <1>1, <1>2 DEF TreeHash

\* A rung keeps what was captured, and captures the tree as it is.
LEMMA RungTrees ==
    ASSUME LedgerInv, WorldInv, TreeCaptures, Rung PROVE TreeCaptures'
<1>1. pos' = pos + 1 /\ pos \in 1 .. 60
  BY RungPos
<1>. DEFINE Lists(t, run) ==
        /\ DOMAIN t \subseteq DOMAIN Listing /\ \A p \in DOMAIN t : tree[p] = t[p]
        /\ run \notin short' => t = Listing
<1>2. /\ T' = [run \in 0 .. 3 |-> T'[run]] /\ short' \subseteq 0 .. 3
      /\ \A run \in 0 .. 3 :
           /\ T'[run] # {} <=> pos' > HashedAt(run)
           /\ \A t \in T'[run] : T'[run] = {t}
           /\ run \notin short' => \A t \in T'[run] : Envs \subseteq DOMAIN t
           /\ pos # HashedAt(run) => T'[run] = T[run] /\ (run \in short' <=> run \in short)
           /\ pos = HashedAt(run) => \A t \in T'[run] : Lists(t, run)
  <2>1. CASE TreeHash
    <3>0. Here.run \in 0 .. 3 /\ pos = HashedAt(Here.run)
      BY <2>1, WriterAt
    <3>1. PICK u : /\ T' = [T EXCEPT ![Here.run] = {u}]
                   /\ DOMAIN u \subseteq DOMAIN Listing /\ \A p \in DOMAIN u : tree[p] = u[p]
                   /\ short \subseteq short' /\ short' \subseteq short \cup {Here.run}
                   /\ Here.run \in short' \/ u = Listing
      BY <2>1, CaptureIs
    <3>2. \A run \in 0 .. 3 : run # Here.run => HashedAt(run) # pos
      BY <3>0 DEF HashedAt
    <3>3. Envs \subseteq DOMAIN Listing
      BY ListingHasEnvs DEF WorldInv
    <3>4. \A run \in 0 .. 3 : T'[run] = IF run = Here.run THEN {u} ELSE T[run]
      BY <3>0, <3>1 DEF TreeCaptures
    <3>5. \A run \in 0 .. 3 : HashedAt(run) \in Nat
      BY DEF HashedAt
    <3>12. \A run \in 0 .. 3 : \A t \in T'[run] : T'[run] = {t}
      BY <3>4 DEF TreeCaptures
    <3>6. \A run \in 0 .. 3 : run \notin short' => \A t \in T'[run] : Envs \subseteq DOMAIN t
      <4>1. ASSUME NEW run \in 0 .. 3, NEW t \in T'[run], run = Here.run, run \notin short'
            PROVE  Envs \subseteq DOMAIN t
        BY <3>1, <3>3, <3>4, <4>1
      <4>2. ASSUME NEW run \in 0 .. 3, NEW t \in T'[run], run # Here.run, run \notin short'
            PROVE  Envs \subseteq DOMAIN t
        <5>1. T'[run] = T[run] /\ (run \notin short' => run \notin short)
          BY <3>1, <3>4, <4>2
        <5>. QED
          BY <4>2, <5>1 DEF TreeCaptures
      <4>. QED
        BY <4>1, <4>2
    <3>7. \A run \in 0 .. 3 : T'[run] # {} <=> pos' > HashedAt(run)
      BY <1>1, <3>0, <3>2, <3>4, <3>5 DEF TreeCaptures
    <3>8. T' = [run \in 0 .. 3 |-> T'[run]]
      BY <3>1 DEF TreeCaptures
    <3>9. short' \subseteq 0 .. 3
      BY <3>0, <3>1 DEF TreeCaptures
    <3>10. \A run \in 0 .. 3 : pos = HashedAt(run) => \A t \in T'[run] : Lists(t, run)
      BY <3>1, <3>2, <3>4
    <3>11. \A run \in 0 .. 3 :
              pos # HashedAt(run) => T'[run] = T[run] /\ (run \in short' <=> run \in short)
      BY <3>0, <3>1, <3>4
    <3>. QED
      BY <3>12, <3>6, <3>7, <3>8, <3>9, <3>10, <3>11
  <2>2. CASE ~TreeHash
    <3>1. \A run \in 0 .. 3 : pos # HashedAt(run) /\ HashedAt(run) \in Nat
      <4>1. \A run \in 0 .. 3 : Ladder[HashedAt(run)].step = "tree-hash"
        BY LadderAt DEF S, HashedAt
      <4>2. Here.step # "tree-hash"
        BY <2>2 DEF Rung, At, Observe, DayZero, Sync, DriftCheck, ManufactureFails, Manufacture,
               Compile, Isolate, Seal, Codegen, Setup, Fingerprint, DbNondegenerate, DiffStep,
               CopyOcel, Check, GuardCase, Import, DriftReport
      <4>. QED
        BY <4>1, <4>2 DEF Here, HashedAt
    <3>2. T' = T /\ short' = short
      BY <2>2, RungWrites
    <3>3. \A run \in 0 .. 3 : pos' > HashedAt(run) <=> pos > HashedAt(run)
      BY <1>1, <3>1
    <3>. QED
      BY <3>1, <3>2, <3>3 DEF TreeCaptures
  <2>. QED
    BY <2>1, <2>2
<1>3. reset' => /\ pos' > 1
                /\ pos' <= 4 => tree' = DayZeroTree
                /\ pos' > 4 => \A t \in T'[0] : DOMAIN t \subseteq Envs
  <2>1. CASE DayZero
    <3>1. pos = 1 /\ ~reset
      BY <2>1, WriterAt DEF TreeCaptures
    <3>2. reset' => tree' = DayZeroTree
      BY <2>1, <3>1 DEF DayZero
    <3>. QED
      BY <1>1, <3>1, <3>2
  <2>2. CASE reset' = reset /\ pos # 1 /\ reset
    <3>1. pos <= 4 => tree = DayZeroTree /\ (pos' <= 4 => tree' = tree)
      BY <1>1, <2>2, RungWrites, WriterAt DEF TreeCaptures
    <3>2. pos = 4 => \A t \in T'[0] : DOMAIN t \subseteq Envs
      BY <1>2, <3>1, ListingOfReset DEF HashedAt
    <3>3. pos > 4 => \A t \in T'[0] : DOMAIN t \subseteq Envs
      BY <1>2, <2>2 DEF HashedAt, TreeCaptures
    <3>. QED
      BY <1>1, <3>1, <3>2, <3>3
  <2>3. CASE reset' = reset /\ pos = 1
    BY <1>1, <2>3 DEF TreeCaptures
  <2>. QED
    BY <2>1, <2>2, <2>3, RungWrites
<1>4. pos' > 51 => \A t \in T'[3] : /\ \A p \in DOMAIN t : tree'[p] = t[p]
                                    /\ 3 \notin short' => t = Listing'
  <2>1. CASE pos = 51
    <3>1. tree' = tree
      BY <2>1, RungWrites, WriterAt
    <3>2. Listing' = Listing
      BY <3>1 DEF Listing
    <3>. QED
      <4>1. \A t \in T'[3] : Lists(t, 3)
        BY <1>2, <2>1 DEF HashedAt
      <4>. QED
        BY <3>1, <3>2, <4>1
  <2>2. CASE pos > 51
    <3>1. tree' = tree
      BY <2>2, RungWrites, WriterAt
    <3>2. Listing' = Listing
      BY <3>1 DEF Listing
    <3>. QED
      <4>1. T'[3] = T[3] /\ (3 \in short' <=> 3 \in short)
        BY <1>2, <2>2 DEF HashedAt
      <4>2. \A t \in T[3] : (\A p \in DOMAIN t : tree[p] = t[p]) /\ (3 \notin short => t = Listing)
        BY <2>2 DEF TreeCaptures
      <4>. QED
        BY <3>1, <3>2, <4>1, <4>2
  <2>. QED
    BY <1>1, <2>1, <2>2
<1>5. /\ T' = [run \in 0 .. 3 |-> T'[run]] /\ short' \subseteq 0 .. 3
      /\ \A run \in 0 .. 3 :
           /\ T'[run] # {} <=> pos' > HashedAt(run)
           /\ \A t \in T'[run] : T'[run] = {t}
           /\ run \notin short' => \A t \in T'[run] : Envs \subseteq DOMAIN t
  BY <1>2
<1>. QED
  BY <1>3, <1>4, <1>5 DEF TreeCaptures, HashedAt

\* The last fingerprint comes after the last set-up.
LEMMA RungDbs ==
    ASSUME LedgerInv, WorldInv, TypeInv, DbCaptures, Rung PROVE DbCaptures'
<1>1. pos' = pos + 1 /\ pos \in 1 .. 60
  BY RungPos
<1>2. CASE Fingerprint
  <2>1. Here.run \in 1 .. 3 /\ pos = FingerprintAt(Here.run)
    BY <1>2, WriterAt
  <2>2. PICK schema : /\ D' = [D EXCEPT ![Here.run] = {schema}]
                      /\ schema = "error" \/ (schema = db["dev"]["scoped"] /\ schema # "none")
    BY <1>2 DEF Fingerprint
  <2>3. \A run \in 1 .. 3 : D'[run] = IF run = Here.run THEN {schema} ELSE D[run]
    BY <2>1, <2>2 DEF TypeInv, RestOK, Captures
  <2>4. \A run \in 1 .. 3 : run # Here.run => FingerprintAt(run) # pos
    BY <2>1 DEF FingerprintAt
  <2>5. \A run \in 1 .. 3 : FingerprintAt(run) \in Nat
    BY DEF FingerprintAt
  <2>6. \A run \in 1 .. 3 : D'[run] # {} <=> pos' > FingerprintAt(run)
    BY <1>1, <2>1, <2>3, <2>4, <2>5 DEF DbCaptures
  <2>7. db' = db
    BY <1>2 DEF Fingerprint, fixture
  <2>8. pos' > 49 => Here.run = 3
    BY <1>1, <2>1 DEF FingerprintAt
  <2>9. pos' > 49 => D'[3] = {"error"} \/ (D'[3] = {db'["dev"]["scoped"]} /\ db'["dev"]["scoped"] # "none")
    BY <2>2, <2>3, <2>7, <2>8
  <2>. QED
    BY <2>6, <2>9 DEF DbCaptures, FingerprintAt
<1>3. CASE ~Fingerprint
  <2>1. \A run \in 1 .. 3 : pos # FingerprintAt(run) /\ FingerprintAt(run) \in Nat
    <3>1. \A run \in 1 .. 3 : Ladder[FingerprintAt(run)].step = "db-fingerprint"
      BY LadderAt DEF S, FingerprintAt
    <3>2. Here.step # "db-fingerprint"
      BY <1>3 DEF Rung, At, Observe, DayZero, Sync, DriftCheck, ManufactureFails, Manufacture,
             Compile, Isolate, Seal, Codegen, Setup, TreeHash, DbNondegenerate, DiffStep,
             CopyOcel, Check, GuardCase, Import, DriftReport
    <3>. QED
      BY <3>1, <3>2 DEF Here, FingerprintAt
  <2>2. D' = D /\ pos # 49 /\ (pos > 49 => db' = db)
    <3>1. pos # 49
      BY <2>1 DEF FingerprintAt
    <3>. QED
      BY <1>3, <3>1, RungWrites, WriterAt
  <2>3. \A run \in 1 .. 3 : D'[run] # {} <=> pos' > FingerprintAt(run)
    BY <1>1, <2>1, <2>2 DEF DbCaptures
  <2>4. pos' > 49 => pos > 49
    BY <1>1, <2>2
  <2>. QED
    BY <2>2, <2>3, <2>4 DEF DbCaptures, FingerprintAt
<1>. QED
  BY <1>2, <1>3

CaptureInv == TreeCaptures /\ DbCaptures

\* Nothing is captured in the first state, and the reset has not run.
LEMMA InitCaptures == Init => CaptureInv
<1>. SUFFICES ASSUME Init PROVE CaptureInv
  OBVIOUS
<1>1. /\ pos = 1 /\ T = [run \in 0 .. 3 |-> {}] /\ D = [run \in 1 .. 3 |-> {}]
      /\ reset = FALSE /\ short = {}
  BY DEF Init
<1>2. \A run \in 0 .. 3 : T[run] = {} /\ ~(pos > HashedAt(run))
  BY <1>1 DEF HashedAt
<1>3. \A run \in 1 .. 3 : D[run] = {} /\ ~(pos > FingerprintAt(run))
  BY <1>1 DEF FingerprintAt
<1>4. T = [run \in 0 .. 3 |-> T[run]]
  BY <1>1
<1>. QED
  BY <1>1, <1>2, <1>3, <1>4 DEF CaptureInv, TreeCaptures, DbCaptures

\* The verdict, the receipt and an interrupt come after the captures.
LEMMA JudgedCaptures ==
    ASSUME LedgerInv, CaptureInv, ConformanceStep \/ WriteReceipt \/ Interrupt \/ ReceiptByHand
    PROVE  CaptureInv'
<1>1. /\ UNCHANGED <<tree, db, T, short, D, reset>> /\ Listing' = Listing
      /\ pos' = pos \/ (pos > 60 /\ pos' > 60)
  BY JudgedPos DEF Listing
<1>2. /\ \A run \in 0 .. 3 : HashedAt(run) \in 1 .. 60
      /\ \A run \in 1 .. 3 : FingerprintAt(run) \in 1 .. 60
  BY DEF HashedAt, FingerprintAt
<1>3. pos \in Int /\ pos' \in Int
  <2>1. pos \in 1 .. 63
    BY LadderAt DEF LedgerInv, LedgerType, LastRow
  <2>. QED
    BY <2>1, JudgedPos
<1>4. /\ \A run \in 0 .. 3 : pos' > HashedAt(run) <=> pos > HashedAt(run)
      /\ \A run \in 1 .. 3 : pos' > FingerprintAt(run) <=> pos > FingerprintAt(run)
      /\ pos' > 1 <=> pos > 1
      /\ pos' > 4 <=> pos > 4
      /\ pos' <= 4 <=> pos <= 4
      /\ pos' > 49 <=> pos > 49
      /\ pos' > 51 <=> pos > 51
  BY <1>1, <1>2, <1>3
<1>. QED
  BY <1>1, <1>4 DEF CaptureInv, TreeCaptures, DbCaptures, HashedAt, FingerprintAt

\* The invariant of the captures.
THEOREM CaptureInvariant == Spec => []CaptureInv
<1>1. LedgerInv /\ WorldInv /\ TypeInv /\ CaptureInv /\ [Next]_vars => CaptureInv'
  <2>. SUFFICES ASSUME LedgerInv, WorldInv, TypeInv, CaptureInv, [Next]_vars PROVE CaptureInv'
    OBVIOUS
  <2>1. CASE UNCHANGED vars
    BY <2>1 DEF vars, fixture, evidence, CaptureInv, TreeCaptures, DbCaptures, Listing,
           HashedAt, FingerprintAt
  <2>2. CASE Rung
    BY <2>2, RungTrees, RungDbs DEF CaptureInv
  <2>. QED
    BY <2>1, <2>2, JudgedCaptures DEF Next, Rung
<1>. QED
  BY <1>1, InitCaptures, LedgerInvariant, WorldInvariant, TypeInvariant, PTL DEF Spec

\* Type correctness of the qualification, for every plan and number of faults.
THEOREM QualificationTypes == Spec => []TypeOK
<1>1. LedgerInv /\ WorldInv /\ TypeInv /\ CaptureInv => TypeOK
  <2>. SUFFICES ASSUME LedgerInv, WorldInv, TypeInv, CaptureInv PROVE TypeOK
    OBVIOUS
  <2>1. ASSUME NEW i \in DOMAIN rows
        PROVE  /\ rows[i].label \in Range(Ladder)
               /\ rows[i].exit \in {Null, 0, 1, 2} /\ rows[i].expected \in {0, 2}
    <3>1. rows[i] \in Row
      <4>. HIDE DEF Row
      <4>. QED
        BY DEF LedgerInv, LedgerType
    <3>. QED
      BY <3>1 DEF Row
  <2>2. pos \in 1 .. (Len(Ladder) + 1) /\ failed \in BOOLEAN /\ killed \in BOOLEAN
        /\ verdict \in {None, "conformant", "violations", "crash"}
    BY DEF LedgerInv, LedgerType, LastRow, Verdicts
  <2>3. tree \in [Paths -> Texts] /\ db \in [Envs -> [Sites -> Schemas]]
    BY DEF WorldInv, TreeOK, DbOK
  <2>4. short \subseteq 0 .. 3
    BY DEF CaptureInv, TreeCaptures
  <2>. QED
    BY <2>1, <2>2, <2>3, <2>4 DEF TypeOK, TypeInv, LiveOK, RestOK, Captures
<1>. QED
  BY <1>1, LedgerInvariant, WorldInvariant, TypeInvariant, CaptureInvariant, PTL

-----------------------------------------------------------------------------
(* What a row that exits 0 says of the captures.                            *)

\* A diff that found none, and a database that is not degenerate.
Certifies(row) ==
    LET run == row.label.run IN
    row.exit = 0 =>
        /\ row.label.step = "tree-diff" => T[run - 1] = T[run]
        /\ row.label.step = "db-diff" => D[run - 1] = D[run]
        /\ row.label.step = "db-nondegenerate" => D[1] \cap {"error", "empty"} = {}
DiffInv == \A i \in DOMAIN rows : Certifies(rows[i])

\* A diff comes after the captures it compares.
LEMMA DiffsAt ==
    \A i \in 1 .. 62 : LET step == Ladder[i].step  run == Ladder[i].run IN
        /\ step = "tree-diff" => run \in 2 .. 3 /\ i > HashedAt(run) /\ i > HashedAt(run - 1)
        /\ step = "db-diff" => run \in 2 .. 3 /\ i > FingerprintAt(run) /\ i > FingerprintAt(run - 1)
        /\ step = "db-nondegenerate" => i > FingerprintAt(1)
  BY LadderAt DEF S, HashedAt, FingerprintAt

\* What was captured stays as it is.
LEMMA CapturesStay ==
    ASSUME LedgerInv, CaptureInv, Next
    PROVE  /\ \A run \in 0 .. 3 : pos > HashedAt(run) => T'[run] = T[run]
           /\ \A run \in 1 .. 3 : pos > FingerprintAt(run) => D'[run] = D[run]
<1>1. CASE TreeHash
  <2>1. /\ \E t : T' = [T EXCEPT ![Here.run] = {t}]
        /\ D' = D /\ Here.run \in 0 .. 3 /\ pos = HashedAt(Here.run)
    BY <1>1, WriterAt, CaptureIs DEF TreeHash
  <2>2. \A run \in 0 .. 3 : HashedAt(run) \in Nat
    BY DEF HashedAt
  <2>3. \A run \in 0 .. 3 : pos > HashedAt(run) => run # Here.run
    BY <2>1, <2>2
  <2>. QED
    BY <2>1, <2>3 DEF CaptureInv, TreeCaptures
<1>2. CASE Fingerprint
  <2>1. /\ \E capture : D' = [D EXCEPT ![Here.run] = capture]
        /\ T' = T /\ Here.run \in 1 .. 3 /\ pos = FingerprintAt(Here.run)
    BY <1>2, WriterAt DEF Fingerprint
  <2>2. \A run \in 1 .. 3 : FingerprintAt(run) \in Nat
    BY DEF FingerprintAt
  <2>3. \A run \in 1 .. 3 : pos > FingerprintAt(run) => run # Here.run
    BY <2>1, <2>2
  <2>. QED
    BY <2>1, <2>3
<1>3. CASE Rung /\ ~TreeHash /\ ~Fingerprint
  BY <1>3, RungWrites
<1>4. CASE ConformanceStep \/ WriteReceipt \/ Interrupt \/ ReceiptByHand
  BY <1>4, JudgedPos
<1>. QED
  BY <1>1, <1>2, <1>3, <1>4 DEF Next, Rung

\* A row that was written keeps its word.
LEMMA OldRowCertifies ==
    ASSUME LedgerInv, RowsInv, CaptureInv, Next, NEW i \in DOMAIN rows, Certifies(rows[i])
    PROVE  rows'[i] = rows[i] /\ Certifies(rows[i])'
<1>1. rows'[i] = rows[i]
  BY RungRow, JudgedPos DEF Next, Rung
<1>2. PICK k \in 1 .. (pos - 1) : rows[i].label = Ladder[k]
  BY DEF RowsInv, RowOf
<1>3. pos \in 1 .. 63 /\ k \in 1 .. 62 /\ k < pos
  <2>1. pos \in 1 .. 63
    BY LadderAt DEF LedgerInv, LedgerType, LastRow
  <2>. QED
    BY <2>1
<1>. DEFINE step == rows[i].label.step  run == rows[i].label.run
<1>4. /\ step = "tree-diff" => run \in 2 .. 3 /\ pos > HashedAt(run) /\ pos > HashedAt(run - 1)
      /\ step = "db-diff" => /\ run \in 2 .. 3
                             /\ pos > FingerprintAt(run) /\ pos > FingerprintAt(run - 1)
      /\ step = "db-nondegenerate" => pos > FingerprintAt(1)
  <2>1. /\ \A n \in 0 .. 3 : HashedAt(n) \in Nat
        /\ \A n \in 1 .. 3 : FingerprintAt(n) \in Nat
    BY DEF HashedAt, FingerprintAt
  <2>2. /\ step = Ladder[k].step /\ run = Ladder[k].run
        /\ \A n \in Nat : k > n => pos > n
    BY <1>2, <1>3
  <2>. HIDE DEF step, run
  <2>3. step = "tree-diff" => run \in 2 .. 3 /\ pos > HashedAt(run) /\ pos > HashedAt(run - 1)
    <3>1. step = "tree-diff" => run \in 2 .. 3 /\ k > HashedAt(run) /\ k > HashedAt(run - 1)
      BY <1>3, <2>2, DiffsAt
    <3>. QED
      BY <2>1, <2>2, <3>1
  <2>4. step = "db-diff" => /\ run \in 2 .. 3
                            /\ pos > FingerprintAt(run) /\ pos > FingerprintAt(run - 1)
    <3>1. step = "db-diff" => /\ run \in 2 .. 3
                              /\ k > FingerprintAt(run) /\ k > FingerprintAt(run - 1)
      BY <1>3, <2>2, DiffsAt
    <3>. QED
      BY <2>1, <2>2, <3>1
  <2>5. step = "db-nondegenerate" => pos > FingerprintAt(1)
    <3>1. step = "db-nondegenerate" => k > FingerprintAt(1)
      BY <1>3, <2>2, DiffsAt
    <3>. QED
      BY <2>1, <2>2, <3>1
  <2>. QED
    BY <2>3, <2>4, <2>5
<1>5. /\ step = "tree-diff" => T'[run] = T[run] /\ T'[run - 1] = T[run - 1]
      /\ step = "db-diff" => D'[run] = D[run] /\ D'[run - 1] = D[run - 1]
      /\ step = "db-nondegenerate" => D'[1] = D[1]
  <2>1. step = "tree-diff" => run \in 0 .. 3 /\ run - 1 \in 0 .. 3
    BY <1>4
  <2>2. step = "db-diff" => run \in 1 .. 3 /\ run - 1 \in 1 .. 3
    BY <1>4
  <2>. QED
    BY <1>4, <2>1, <2>2, CapturesStay
<1>. QED
  BY <1>1, <1>5 DEF Certifies

\* A row that is written says what was found.
LEMMA NewRowCertifies ==
    ASSUME LedgerInv, Rung, NEW i \in DOMAIN rows' \ DOMAIN rows
    PROVE  Certifies(rows[i])'
<1>1. rows \in Seq(Row) /\ rows'[i].label = Here
  BY RungRow DEF RowOf
<1>2. ASSUME NEW exit, NEW expected, Run(exit, expected) PROVE rows'[i].exit = exit
  <2>1. rows' = Append(rows, RowFor(exit, expected))
    BY <1>2 DEF Run, RowFor
  <2>. HIDE DEF Row
  <2>2. i = Len(rows) + 1 /\ rows'[i] = RowFor(exit, expected)
    BY <1>1, <2>1
  <2>. QED
    BY <2>2 DEF RowFor
<1>3. CASE DiffStep
  <2>1. T' = T /\ D' = D
    BY <1>3 DEF DiffStep, evidence
  <2>2. (Here.step = "db-diff" /\ Diff(D)) \/ (Here.step = "tree-diff" /\ Diff(T))
            \/ rows'[i].exit = 1
    BY <1>2, <1>3 DEF DiffStep
  <2>3. Here.step \in {"db-diff", "tree-diff"}
    BY <1>3 DEF DiffStep, At
  <2>. QED
    BY <1>1, <2>1, <2>2, <2>3 DEF Certifies, Diff
<1>4. CASE DbNondegenerate
  <2>1. D' = D /\ Here.step = "db-nondegenerate"
    BY <1>4 DEF DbNondegenerate, evidence, At
  <2>2. D[1] \cap {"error", "empty"} = {} \/ rows'[i].exit = 1
    BY <1>2, <1>4 DEF DbNondegenerate
  <2>. QED
    BY <1>1, <2>1, <2>2 DEF Certifies
<1>5. CASE ~DiffStep /\ ~DbNondegenerate
  <2>1. Here.step \notin {"db-diff", "tree-diff", "db-nondegenerate"}
    BY <1>5 DEF Rung, At, Observe, DayZero, Sync, DriftCheck, ManufactureFails, Manufacture,
           Compile, Isolate, Seal, Codegen, Setup, TreeHash, Fingerprint,
           CopyOcel, Check, GuardCase, Import, DriftReport
  <2>. QED
    BY <1>1, <2>1 DEF Certifies
<1>. QED
  BY <1>3, <1>4, <1>5

\* A green diff is about captures that stay, whatever comes after it.
THEOREM DiffsInvariant == Spec => []DiffInv
<1>1. Init => DiffInv
  BY DEF Init, DiffInv
<1>2. ASSUME LedgerInv, RowsInv, CaptureInv, DiffInv, Next PROVE DiffInv'
  <2>1. \A i \in DOMAIN rows : Certifies(rows[i])'
    BY <1>2, OldRowCertifies DEF DiffInv
  <2>2. \A i \in DOMAIN rows' \ DOMAIN rows : Certifies(rows[i])'
    <3>1. CASE Rung
      BY <1>2, <3>1, NewRowCertifies
    <3>2. CASE ~Rung
      BY <1>2, <3>2, JudgedPos DEF Next, Rung
    <3>. QED
      BY <3>1, <3>2
  <2>. QED
    BY <2>1, <2>2 DEF DiffInv
<1>3. LedgerInv /\ RowsInv /\ CaptureInv /\ DiffInv /\ [Next]_vars => DiffInv'
  <2>1. ASSUME DiffInv, UNCHANGED vars PROVE DiffInv'
    BY <2>1 DEF vars, evidence, DiffInv, Certifies
  <2>. QED
    BY <1>2, <2>1
<1>. QED
  BY <1>1, <1>3, LedgerInvariant, RowsInvariant, CaptureInvariant, PTL DEF Spec

-----------------------------------------------------------------------------
(* The receipt and the world.                                               *)

\* Of a capture the manifest is read back.
LEMMA ManifestOf == ASSUME NEW t PROVE Manifest({t}) = t
  BY DEF Manifest

\* The standings of a receipt are those of the artifacts.
LEMMA AliveNow ==
    ASSUME ReceiptInv, NEW r \in receipt
    PROVE  /\ r.alive.ONTOLOGY = Succeeded(rows, "ggen-sync", "none", 0)
           /\ r.alive.ASH_MANUFACTURE = (/\ Succeeded(rows, "manufacture", "base", 1)
                                         /\ Succeeded(rows, "manufacture", "core", 1)
                                         /\ Succeeded(rows, "compile", "core", 1)
                                         /\ Succeeded(rows, "ash-setup", "none", 1))
           /\ r.alive.IDEMPOTENCY = (ChecksClean(rows) /\ TreeFixpoint(T) /\ DbIdentical(rows, D))
           /\ r.alive.OCEL_PROCESS = (Logs # 0 /\ verdict = "conformant")
           /\ r.alive.AGENT_HANDWRITE_REFUSAL = AllAsExpected(rows, "guard")
           /\ r.alive.ASH_RUNTIME = (/\ Succeeded(rows, "ash-setup-test-env", "none", 1)
                                     /\ Succeeded(rows, "resources-execute", "none", 1))
<1>1. r.alive = Alive(rows, T, D, Logs, verdict)
  BY DEF ReceiptInv, ReceiptNow, Receipt
<1>. HIDE DEF Logs
<1>. QED
  BY <1>1 DEF Alive

\* After a complete reset the receipt's provenance is the truth of the files
\* the manifests list, in the tree of run 3 or, when there is none, of run 2:
\* nothing a hand wrote is called generated, unless the day-zero manifest is
\* short, and nothing a hand wrote is missed, unless the last one is.
THEOREM ProvenanceTrue == Spec => []ProvenanceIsTrue
<1>1. LedgerInv /\ ReceiptInv /\ CaptureInv => ProvenanceIsTrue
  <2>. SUFFICES ASSUME LedgerInv, ReceiptInv, CaptureInv, NEW r \in receipt,
                       reset, T[2] # {} \/ T[3] # {}
                PROVE  LET last == IF T[3] # {} THEN 3 ELSE 2 IN
                       /\ r.files.handwritten \cup r.files.modified \subseteq Envs
                       /\ 0 \notin short => r.files.generated \cap Envs = {}
                       /\ last \notin short => r.files.removed = {}
                       /\ {0, last} \cap short = {}
                             => r.files.handwritten \cup r.files.modified = Envs
    BY DEF ProvenanceIsTrue
  <2>. DEFINE last == IF T[3] # {} THEN 3 ELSE 2
  <2>1. r.files = Provenance(T)
    BY DEF ReceiptInv, ReceiptNow, Receipt
  <2>2. pos > 4
    <3>1. pos > 36 \/ pos > 51
      BY DEF CaptureInv, TreeCaptures, HashedAt
    <3>2. pos \in 1 .. 63
      BY LadderAt DEF LedgerInv, LedgerType, LastRow
    <3>. QED
      BY <3>1, <3>2
  <2>3. PICK first : /\ T[0] = {first} /\ DOMAIN first \subseteq Envs
                     /\ 0 \notin short => Envs \subseteq DOMAIN first
    <3>1. T[0] # {}
      BY <2>2 DEF CaptureInv, TreeCaptures, HashedAt
    <3>2. PICK u : u \in T[0]
      BY <3>1
    <3>3. T[0] = {u} /\ (0 \notin short => Envs \subseteq DOMAIN u)
      BY <3>2 DEF CaptureInv, TreeCaptures
    <3>4. DOMAIN u \subseteq Envs
      BY <2>2, <3>2 DEF CaptureInv, TreeCaptures
    <3>. QED
      BY <3>3, <3>4
  <2>4. T[last] # {} /\ FinalTree(T) = Manifest(T[last]) /\ last \in 0 .. 3
    BY DEF FinalTree
  <2>5. PICK t : T[last] = {t} /\ (last \notin short => Envs \subseteq DOMAIN t)
    <3>1. PICK u : u \in T[last]
      BY <2>4
    <3>. HIDE DEF last
    <3>2. T[last] = {u} /\ (last \notin short => Envs \subseteq DOMAIN u)
      BY <2>4, <3>1 DEF CaptureInv, TreeCaptures
    <3>. QED
      BY <3>2
  <2>6. FinalTree(T) = t /\ Manifest(T[0]) = first
    BY <2>3, <2>4, <2>5, ManifestOf
  <2>7. /\ r.files.handwritten \cup r.files.modified = DOMAIN first \cap DOMAIN t
        /\ r.files.removed = DOMAIN first \ DOMAIN t
        /\ r.files.generated = DOMAIN t \ DOMAIN first
    BY <2>1, <2>6 DEF Provenance
  <2>. QED
    BY <2>3, <2>5, <2>7
<1>. QED
  BY <1>1, LedgerInvariant, ReceiptInvariant, CaptureInvariant, PTL

\* A green IDEMPOTENCY_ALIVE is about the tree and the database as they are
\* when the receipt is there, also one written by hand after an interrupt.
THEOREM IdempotencyOfTheWorld == Spec => []IdempotencyIsTheWorlds
<1>1. ReceiptInv /\ RowsInv /\ CaptureInv /\ DiffInv => IdempotencyIsTheWorlds
  <2>. SUFFICES ASSUME ReceiptInv, RowsInv, CaptureInv, DiffInv, NEW r \in receipt,
                       r.alive.IDEMPOTENCY
                PROVE  /\ \A run \in 1 .. 3 : D[run] = {db["dev"]["scoped"]}
                       /\ db["dev"]["scoped"] \notin {"none", "empty"}
                       /\ \A run \in 1 .. 3 : \A t \in T[run] : \A p \in DOMAIN t : tree[p] = t[p]
                       /\ 3 \notin short => \A run \in 1 .. 3 : T[run] = {Listing}
    BY DEF IdempotencyIsTheWorlds
  <2>2. TreeFixpoint(T) /\ DbIdentical(rows, D)
    BY AliveNow, Zenon
  <2>3. /\ T[1] = T[2] /\ T[2] = T[3] /\ T[3] # {}
        /\ D[1] = D[2] /\ D[2] = D[3] /\ D[3] # {}
        /\ AllAsExpected(rows, "db-nondegenerate")
    BY <2>2 DEF TreeFixpoint, DbIdentical, Same
  <2>4. /\ \A t \in T[3] : \A p \in DOMAIN t : tree[p] = t[p]
        /\ 3 \notin short => T[3] = {Listing}
    BY <2>3 DEF CaptureInv, TreeCaptures, HashedAt
  <2>5. D[1] \cap {"error", "empty"} = {}
    <3>1. PICK i \in DOMAIN rows : /\ rows[i].label.step = "db-nondegenerate"
                                   /\ rows[i].exit = rows[i].expected
      BY <2>3 DEF AllAsExpected, RowsOf, AsExpected
    <3>2. rows[i].expected = 0
      BY <3>1 DEF RowsInv, RowOf
    <3>. QED
      BY <3>1, <3>2 DEF DiffInv, Certifies
  <2>6. D[3] = {db["dev"]["scoped"]} /\ db["dev"]["scoped"] # "none"
    BY <2>3, <2>5 DEF CaptureInv, DbCaptures, FingerprintAt
  <2>. QED
    <3>1. db["dev"]["scoped"] # "empty"
      BY <2>3, <2>5, <2>6
    <3>. QED
      BY <2>3, <2>4, <2>6, <3>1
<1>. QED
  BY <1>1, ReceiptInvariant, RowsInvariant, CaptureInvariant, DiffsInvariant, PTL

-----------------------------------------------------------------------------
(* The verdict.                                                             *)

ConformantNow == Conformant(PlanOf(tree["task"]), Caps, rows, ocel, Modules, Present)
VerdictInv ==
    /\ pos > 61 => verdict # None
    /\ verdict = "conformant" => ConformantNow

\* The verdict is given once, on what is there until the end.
LEMMA NextVerdict == ASSUME LedgerInv, VerdictInv, Next PROVE VerdictInv'
<1>1. CASE Rung
  <2>1. pos' = pos + 1 /\ pos \in 1 .. 60 /\ verdict' = None
    BY <1>1, RungPos, RungKind
  <2>. QED
    BY <2>1 DEF VerdictInv, None
<1>2. CASE ConformanceStep
  <2>1. UNCHANGED <<tree, rows, ocel>> /\ (verdict' = "conformant" => ConformantNow)
        /\ verdict' \in {"conformant", "violations", "crash"}
    <3>1. UNCHANGED <<tree, rows, ocel>>
      BY <1>2, JudgedPos
    <3>2. /\ verdict' \in {"conformant", "violations", "crash"}
          /\ verdict' = "conformant" => ConformantNow
      <4>. HIDE DEF ConformantNow
      <4>1. verdict' = (IF ConformantNow THEN "conformant" ELSE "violations") \/ verdict' = "crash"
        BY <1>2 DEF ConformanceStep, ConformantNow
      <4>. QED
        BY <4>1
    <3>. QED
      BY <3>1, <3>2
  <2>2. ConformantNow' = ConformantNow
    BY <2>1 DEF ConformantNow, Present
  <2>. QED
    BY <2>1, <2>2 DEF VerdictInv, None
<1>3. CASE WriteReceipt \/ Interrupt \/ ReceiptByHand
  <2>1. UNCHANGED <<tree, rows, ocel, verdict>>
        /\ (pos' = pos \/ (pos = 62 /\ pos' = 63))
    BY <1>3, JudgedPos
  <2>2. ConformantNow' = ConformantNow
    BY <2>1 DEF ConformantNow, Present
  <2>. QED
    BY <2>1, <2>2 DEF VerdictInv
<1>. QED
  BY <1>1, <1>2, <1>3 DEF Next, Rung

\* A conformant verdict stays true of the evidence and of the tree.
THEOREM VerdictInvariant == Spec => []VerdictInv
<1>1. Init => VerdictInv
  BY DEF Init, VerdictInv, None
<1>2. LedgerInv /\ VerdictInv /\ [Next]_vars => VerdictInv'
  <2>1. ASSUME VerdictInv, UNCHANGED vars PROVE VerdictInv'
    BY <2>1 DEF vars, fixture, evidence, VerdictInv, ConformantNow, Present
  <2>. QED
    BY <2>1, NextVerdict
<1>. QED
  BY <1>1, <1>2, LedgerInvariant, PTL DEF Spec
==============================================================================
