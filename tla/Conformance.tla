---------------------------- MODULE Conformance ----------------------------
(***************************************************************************)
(* bin/conformance.py of the ash-manufacture-pack: did the logs of runs 1  *)
(* and 2 follow the admitted process?  One operator per check; the verdict *)
(* is that none of them found a violation.                                 *)
(*                                                                         *)
(* A ledger is the sequence of rows [label, exit, expected] of steps.jsonl;*)
(* a plan is the sequence of steps parsed from the rendered task; caps maps *)
(* each declared mix task to whether it is admitted; a run's directory maps *)
(* the phases whose log was copied into it to the logs.                    *)
(***************************************************************************)
EXTENDS OcelLog, FiniteSets

DecisionTypes == {"task_composed", "task_admission_refused"}

\* The first object an event is related to under a qualifier.
Related(e, qualifier) ==
    LET hits == {i \in DOMAIN e.rels : e.rels[i].qualifier = qualifier}
    IN  IF hits = {} THEN None
        ELSE e.rels[CHOOSE i \in hits : \A j \in hits : i <= j].object

TaskOf(e) == Related(e, "generator")
SubjectOf(e) == Related(e, "subject")
OfType(events, types) == {i \in DOMAIN events : events[i].type \in types}

Labels(ledger) == {ledger[i].label : i \in DOMAIN ledger}
Rows(ledger, label) == {i \in DOMAIN ledger : ledger[i].label = label}

\* A dictionary by label: the last row wins, and a second row is reported.
LedgerExit(ledger, label) ==
    ledger[CHOOSE i \in Rows(ledger, label) : \A j \in Rows(ledger, label) : j <= i].exit
NoLabelTwice(ledger) == \A label \in Labels(ledger) : Cardinality(Rows(ledger, label)) = 1

\* check_structure: the graph inside the document closes.
StructureSound(doc) ==
    /\ \A i, j \in DOMAIN doc.events : i # j => doc.events[i].id # doc.events[j].id
    /\ \A i \in DOMAIN doc.events : doc.events[i].type \in doc.eventTypes
    /\ \A i \in DOMAIN doc.events : LET rels == doc.events[i].rels IN
           /\ \A k \in DOMAIN rels : rels[k].object \in {o.id : o \in doc.objects}
           /\ \A k, l \in DOMAIN rels :
                  k # l => \/ rels[k].object # rels[l].object
                           \/ rels[k].qualifier # rels[l].qualifier
    /\ \A o \in doc.objects : o.type \in doc.objectTypes

ManufactureLabel(phase, run) == [step |-> "manufacture", phase |-> phase, run |-> run]

\* Mutant: a seal that agrees with itself is enough.
SealCorroboratedByItself(doc, label, ledger) ==
    \A i \in OfType(doc.events, SealTypes) :
        LET seal == doc.events[i] IN
        /\ seal.type = IF seal.exit = 0 THEN Applied ELSE Aborted
        /\ label \in Labels(ledger)

\* check_seal_ledger: the seal agrees with itself and with the harness's row.
SealCorroborated(doc, label, ledger) ==
    \A i \in OfType(doc.events, SealTypes) :
        LET seal == doc.events[i] IN
        /\ seal.type = IF seal.exit = 0 THEN Applied ELSE Aborted
        /\ label \in Labels(ledger)
        /\ LedgerExit(ledger, label) = seal.exit

SealedApplied(doc) ==
    /\ Sealed(doc)
    /\ OfType(doc.events, {Aborted}) = {}

\* check_coverage: each plan step decided, none more often than planned, and
\* no decision the plan does not contain.
KeyOf(phase, step, subject) == <<phase, step, subject>>
Covered(plan, events) ==
    LET decisions == OfType(events, DecisionTypes)
        Planned(key) == {i \in DOMAIN plan :
                            key = KeyOf(plan[i].phase, plan[i].step, plan[i].subject)}
        Observed(key) == {i \in decisions :
                            key = KeyOf(events[i].phase, events[i].step, SubjectOf(events[i]))}
    IN  /\ \A i \in DOMAIN plan :
               LET key == KeyOf(plan[i].phase, plan[i].step, plan[i].subject)
               IN  Cardinality(Observed(key)) \in 1 .. Cardinality(Planned(key))
        /\ \A i \in decisions :
               Planned(KeyOf(events[i].phase, events[i].step, SubjectOf(events[i]))) # {}

Composed(events) == OfType(events, {"task_composed"})
GuardRefused(events) == OfType(events, {"task_admission_refused"})

\* Mutant: a declared task counts as an admitted one.
OnlyDeclaredComposed(caps, events) ==
    \A i \in Composed(events) : TaskOf(events[i]) \in DOMAIN caps

OnlyAdmittedComposed(caps, events) ==
    \A i \in Composed(events) :
        LET task == TaskOf(events[i])
        IN  task \in DOMAIN caps /\ caps[task]

InadmissibleRefused(caps, events) ==
    \A task \in DOMAIN caps :
        caps[task] \/ \E i \in OfType(events, {"capability_refused"}) : TaskOf(events[i]) = task

\* The events come file by file, and base sorts before core.
BaseBeforeCore(events) ==
    \A i, j \in DOMAIN events :
        events[i].phase = "core" /\ events[j].phase = "base" => j < i

\* Mutant: the subjects that were refused are looked up.
SubjectsOnDiskOfRefused(events, modules, files) ==
    \A i \in GuardRefused(events) :
        LET subject == SubjectOf(events[i])
        IN  subject \in modules => subject \in files

\* check_subjects_on_disk: a subject that is a module has its file, in the
\* tree as it is when the check runs.
SubjectsOnDisk(events, modules, files) ==
    \A i \in Composed(events) :
        LET subject == SubjectOf(events[i])
        IN  subject \in modules => subject \in files

GuardedOff(events) == {SubjectOf(events[i]) : i \in GuardRefused(events)}

\* os.listdir sorted: <task>.base.ocel.json before <task>.core.ocel.json.
RunEvents(dir) ==
    LET EventsOf(phase) == IF phase \in DOMAIN dir THEN dir[phase].doc.events ELSE <<>>
    IN  EventsOf("base") \o EventsOf("core")

RunConformant(run, dir, plan, caps, ledger, modules, files) ==
    /\ \A phase \in DOMAIN dir :
           LET doc == dir[phase].doc IN
           /\ StructureSound(doc)
           /\ SealedApplied(doc)
           /\ \/ ledger = <<>>
              \/ SealCorroborated(doc, ManufactureLabel(phase, run), ledger)
    /\ Covered(plan, RunEvents(dir))
    /\ OnlyAdmittedComposed(caps, RunEvents(dir))
    /\ InadmissibleRefused(caps, RunEvents(dir))
    /\ BaseBeforeCore(RunEvents(dir))
    /\ SubjectsOnDisk(RunEvents(dir), modules, files)

\* main: an empty plan (no single rendered task, or none of its steps parsed)
\* and a missing directory are violations of their own.
Conformant(plan, caps, ledger, ocel, modules, files) ==
    /\ plan # <<>>
    /\ NoLabelTwice(ledger)
    /\ {1, 2} \subseteq DOMAIN ocel
    /\ \A run \in {1, 2} :
           RunConformant(run, ocel[run], plan, caps, ledger, modules, files)
    /\ GuardedOff(RunEvents(ocel[2])) \ GuardedOff(RunEvents(ocel[1])) # {}
=============================================================================
