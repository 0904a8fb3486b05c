------------------------------ MODULE OcelLog ------------------------------
(***************************************************************************)
(* The OCEL 2.0 logs of a manufacture run: how the rendered task's events  *)
(* become a document (lib/ggen_igniter/telemetry/ocel2_export.ex) and how  *)
(* mix ggen_igniter.ocel.seal appends the outcome the harness observed.    *)
(*                                                                         *)
(* An event carries the attributes somebody reads: phase and step of a     *)
(* decision, exit of a seal.  Times and argv are left out.                 *)
(***************************************************************************)
EXTENDS Integers, Sequences, SequencesExt

Null == -1        \* no exit code: Python's None, JSON's null
None == "none"    \* no such attribute or object

Applied == "manufacture_run_applied"
Aborted == "manufacture_run_aborted"
SealTypes == {Applied, Aborted}

\* The object every event of a run is related to.
RunOf(phase) == [object |-> phase, qualifier |-> "run", type |-> "manufacture_run"]

\* Mutant: a relation as often as it is named.
UniqueRelationsRepeated(rels) == rels

\* Keep the first of two relations to one object under one qualifier.
SameRelation(r, s) == r.object = s.object /\ r.qualifier = s.qualifier
UniqueRelations(rels) ==
    FlattenSeq([k \in DOMAIN rels |->
                   IF \E j \in 1 .. (k - 1) : SameRelation(rels[j], rels[k])
                   THEN <<>> ELSE <<rels[k]>>])

\* Number the events and relate each of them to the run.
Normalize(events, run) ==
    [i \in DOMAIN events |->
        [id |-> i, type |-> events[i].activity, phase |-> events[i].phase,
         step |-> events[i].step, exit |-> events[i].exit,
         rels |-> UniqueRelations(Append(events[i].objects, run))]]

\* The objects the events name; the first mention of an id gives its type.
ObjectsOf(normalized) ==
    LET mentions == FlattenSeq([i \in DOMAIN normalized |-> normalized[i].rels])
    IN  {[id |-> mentions[i].object, type |-> mentions[i].type] :
            i \in {k \in DOMAIN mentions :
                       \A j \in 1 .. (k - 1) : mentions[j].object # mentions[k].object}}

Document(events, run) ==
    LET normalized == Normalize(events, run)
        objects == ObjectsOf(normalized)
    IN  [eventTypes |-> {normalized[i].type : i \in DOMAIN normalized},
         objectTypes |-> {o.type : o \in objects},
         events |-> normalized,
         objects |-> objects]

Sealed(doc) == \E i \in DOMAIN doc.events : doc.events[i].type \in SealTypes

\* The events of a document as input to Document again: without the relation
\* to the run, which Document adds, the types looked up among the objects.
TypeOfObject(doc, id) == (CHOOSE o \in doc.objects : o.id = id).type
ObjectsAgain(doc, rels) ==
    FlattenSeq([k \in DOMAIN rels |->
                   IF rels[k].qualifier = "run" THEN <<>>
                   ELSE <<[rels[k] EXCEPT !.type = TypeOfObject(doc, rels[k].object)]>>])
Rebuilt(doc) ==
    [i \in DOMAIN doc.events |->
        [activity |-> doc.events[i].type, phase |-> doc.events[i].phase,
         step |-> doc.events[i].step, exit |-> doc.events[i].exit,
         objects |-> ObjectsAgain(doc, doc.events[i].rels)]]

\* What the seal task writes over an unsealed log.
SealedWith(doc, phase, exit) ==
    Document(Append(Rebuilt(doc),
                    [activity |-> IF exit = 0 THEN Applied ELSE Aborted,
                     phase |-> None, step |-> None, exit |-> exit,
                     objects |-> <<RunOf(phase)>>]),
             RunOf(phase))
=============================================================================
