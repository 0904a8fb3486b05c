------------------------ MODULE QualificationLogProofs ------------------------
(***************************************************************************)
(* What the logs of the qualification are, from the events igniter/1 writes *)
(* to the sealed copies a conformance verdict is given on, for every plan,  *)
(* every set of modules and any number of faults.                          *)
(***************************************************************************)
EXTENDS QualificationProofs, SequenceProofs

-----------------------------------------------------------------------------
(* The relations of an event.                                               *)

\* What a sequence of relations says, whatever their order and number.
Keys(rels) == {<<rels[k].object, rels[k].qualifier>> : k \in DOMAIN rels}

\* Of the relations to one object under one qualifier the first is kept.
LEMMA UniqueKept ==
    ASSUME NEW X, NEW rels \in Seq(X)
    PROVE  /\ UniqueRelations(rels) \in Seq(X)
           /\ \A n \in DOMAIN UniqueRelations(rels) :
                  \E k \in DOMAIN rels : UniqueRelations(rels)[n] = rels[k]
           /\ \A k \in DOMAIN rels : \E n \in DOMAIN UniqueRelations(rels) :
                  SameRelation(UniqueRelations(rels)[n], rels[k])
           /\ \A n, m \in DOMAIN UniqueRelations(rels) :
                  n # m => ~SameRelation(UniqueRelations(rels)[n], UniqueRelations(rels)[m])
<1>. DEFINE Later(k) == \E j \in 1 .. (k - 1) : SameRelation(rels[j], rels[k])
            kept == [k \in DOMAIN rels |-> IF Later(k) THEN <<>> ELSE <<rels[k]>>]
            r == FlattenSeq(kept)
<1>1. r = UniqueRelations(rels) /\ DOMAIN rels = 1 .. Len(rels) /\ Len(rels) \in Nat
  BY DEF UniqueRelations
<1>. HIDE DEF Later
<1>2. kept \in Seq(Seq(X))
  <2>1. \A k \in DOMAIN rels : kept[k] \in Seq(X)
    OBVIOUS
  <2>2. kept \in [1 .. Len(rels) -> Seq(X)]
    BY <1>1, <2>1
  <2>. HIDE DEF kept
  <2>. QED
    BY <1>1, <2>2
<1>3. /\ DOMAIN kept = DOMAIN rels /\ Len(kept) = Len(rels)
      /\ \A k \in DOMAIN rels : Later(k) => Len(kept[k]) = 0
      /\ \A k \in DOMAIN rels : ~Later(k) => Len(kept[k]) = 1 /\ kept[k][1] = rels[k]
  BY <1>1, <1>2
<1>. HIDE DEF kept
<1>4. r \in Seq(X) /\ Flat(r, kept, Len(kept))
  BY <1>2, Flattened
<1>. HIDE DEF r
<1>5. PICK row, col : Placed(r, kept, Len(kept), row, col)
  BY <1>4 DEF Flat
<1>6. ASSUME NEW n \in DOMAIN r
      PROVE  row[n] \in DOMAIN rels /\ ~Later(row[n]) /\ col[n] = 1 /\ r[n] = rels[row[n]]
  <2>1. /\ row[n] \in DOMAIN rels /\ col[n] \in 1 .. Len(kept[row[n]])
        /\ r[n] = kept[row[n]][col[n]]
    BY <1>1, <1>3, <1>4, <1>5 DEF Placed
  <2>2. ~Later(row[n])
    BY <1>3, <2>1
  <2>3. col[n] = 1
    BY <1>3, <2>1, <2>2
  <2>. QED
    BY <1>3, <2>1, <2>2, <2>3
<1>7. ASSUME NEW k \in DOMAIN rels PROVE \E n \in DOMAIN r : SameRelation(r[n], rels[k])
  <2>. DEFINE A == {j \in 1 .. k : SameRelation(rels[j], rels[k])}
  <2>1. k \in A /\ A \in SUBSET Nat
    BY <1>1 DEF SameRelation
  <2>2. PICK j \in A : \A i \in A : j <= i
    <3>. HIDE DEF A
    <3>. QED
      BY <2>1, LeastElement
  <2>3. ~Later(j)
    <3>. SUFFICES ASSUME NEW i \in 1 .. (j - 1), SameRelation(rels[i], rels[j]) PROVE FALSE
      BY DEF Later
    <3>1. SameRelation(rels[i], rels[k]) /\ i \in 1 .. k
      BY <1>1, <2>2 DEF SameRelation
    <3>. QED
      BY <2>2, <3>1
  <2>4. j \in DOMAIN rels /\ j \in 1 .. Len(kept) /\ 1 \in 1 .. Len(kept[j])
    BY <1>1, <1>3, <2>2, <2>3
  <2>5. PICK n \in 1 .. Len(r) : row[n] = j
    BY <1>5, <2>4 DEF Placed
  <2>6. n \in DOMAIN r /\ r[n] = rels[j]
    BY <1>4, <1>6, <2>5, SMTT(20)
  <2>. QED
    BY <2>2, <2>6
<1>8. ASSUME NEW n \in DOMAIN r, NEW m \in DOMAIN r, n < m, SameRelation(r[n], r[m])
      PROVE  FALSE
  <2>1. n \in 1 .. Len(r) /\ m \in 1 .. Len(r)
    BY <1>4
  <2>2. row[n] < row[m] \/ (row[n] = row[m] /\ col[n] < col[m])
    BY <1>5, <1>8, <2>1 DEF Placed
  <2>3. row[n] < row[m]
    BY <1>6, <2>2
  <2>4. row[n] \in 1 .. (row[m] - 1)
    BY <1>1, <1>6, <2>3
  <2>5. SameRelation(rels[row[n]], rels[row[m]])
    BY <1>6, <1>8
  <2>6. Later(row[m])
    BY <2>4, <2>5 DEF Later
  <2>. QED
    BY <1>6, <2>6
<1>9. ASSUME NEW n \in DOMAIN r, NEW m \in DOMAIN r, n # m PROVE ~SameRelation(r[n], r[m])
  <2>1. n \in Nat /\ m \in Nat
    BY <1>4
  <2>2. n < m \/ m < n
    BY <1>9, <2>1
  <2>. QED
    BY <1>8, <2>2 DEF SameRelation
<1>. QED
  BY <1>1, <1>4, <1>6, <1>7, <1>9

\* So nothing that is said of an event is lost, and nothing is added.
LEMMA KeysKept ==
    ASSUME NEW X, NEW rels \in Seq(X)
    PROVE  Keys(UniqueRelations(rels)) = Keys(rels)
<1>1. \A n \in DOMAIN UniqueRelations(rels) :
          \E k \in DOMAIN rels : UniqueRelations(rels)[n] = rels[k]
  BY UniqueKept
<1>4. \A k \in DOMAIN rels : \E n \in DOMAIN UniqueRelations(rels) :
          SameRelation(UniqueRelations(rels)[n], rels[k])
  BY UniqueKept
<1>2. Keys(UniqueRelations(rels)) \subseteq Keys(rels)
  BY <1>1 DEF Keys
<1>3. Keys(rels) \subseteq Keys(UniqueRelations(rels))
  BY <1>4 DEF Keys, SameRelation
<1>. QED
  BY <1>2, <1>3

-----------------------------------------------------------------------------
(* A document.                                                              *)

Closed(normalized, rel) == \E o \in ObjectsOf(normalized) : o.id = rel.object

\* Every relation of every event names an object of the document.
LEMMA ObjectsClosed ==
    ASSUME NEW X, NEW normalized, NEW len \in Nat, DOMAIN normalized = 1 .. len,
           \A j \in DOMAIN normalized : normalized[j].rels \in Seq(X),
           NEW i \in DOMAIN normalized, NEW k \in DOMAIN normalized[i].rels
    PROVE  Closed(normalized, normalized[i].rels[k])
<1>. DEFINE seqs == [j \in DOMAIN normalized |-> normalized[j].rels]
            mentions == FlattenSeq(seqs)
            first(n) == \A j \in 1 .. (n - 1) : mentions[j].object # mentions[n].object
            id == normalized[i].rels[k].object
            A == {m \in DOMAIN mentions : mentions[m].object = id}
<1>1. i \in DOMAIN seqs /\ k \in DOMAIN seqs[i] /\ seqs[i][k] = normalized[i].rels[k]
  OBVIOUS
<1>2. seqs \in Seq(Seq(X))
  <2>1. seqs \in [1 .. len -> Seq(X)]
    OBVIOUS
  <2>. HIDE DEF seqs
  <2>. QED
    BY <2>1
<1>. HIDE DEF seqs
<1>3. mentions \in Seq(X) /\ \E n \in DOMAIN mentions : mentions[n] = seqs[i][k]
  BY <1>1, <1>2, FlattenedRange
<1>. HIDE DEF mentions, id
<1>4. A \in SUBSET Nat /\ A # {}
  BY <1>1, <1>3 DEF id
<1>5. PICK n \in A : \A m \in A : n <= m
  <2>. HIDE DEF A
  <2>. QED
    BY <1>4, LeastElement
<1>6. first(n)
  <2>. SUFFICES ASSUME NEW j \in 1 .. (n - 1), mentions[j].object = mentions[n].object PROVE FALSE
    OBVIOUS
  <2>1. j \in A
    BY <1>3, <1>5
  <2>. QED
    BY <1>4, <1>5, <2>1
<1>7. ObjectsOf(normalized) = {[id |-> mentions[m].object, type |-> mentions[m].type] :
                                  m \in {l \in DOMAIN mentions : first(l)}}
  BY DEF ObjectsOf, mentions, seqs
<1>. HIDE DEF first
<1>8. [id |-> mentions[n].object, type |-> mentions[n].type] \in ObjectsOf(normalized)
  BY <1>5, <1>6, <1>7
<1>. QED
  BY <1>5, <1>8 DEF id, Closed

\* A closed document of these events, each related to the run as well.
IsDocumentOf(doc, events, run, R) ==
    /\ StructureSound(doc)
    /\ DOMAIN doc.events = DOMAIN events
    /\ Len(doc.events) = Len(events)
    /\ doc.events \in Seq(Range(doc.events))
    /\ \A i \in DOMAIN events : LET e == doc.events[i] IN
           /\ e.type = events[i].activity /\ e.phase = events[i].phase
           /\ e.step = events[i].step /\ e.exit = events[i].exit
           /\ e.rels = UniqueRelations(Append(events[i].objects, run))
           /\ e.rels \in Seq(R)
           /\ Keys(e.rels) = Keys(events[i].objects) \cup {<<run.object, run.qualifier>>}

\* The events of a document are those it was made from.
LEMMA DocumentIs ==
    ASSUME NEW R, NEW events, events \in Seq(Range(events)), NEW run \in R,
           \A i \in DOMAIN events : events[i].objects \in Seq(R)
    PROVE  IsDocumentOf(Document(events, run), events, run, R)
<1>. DEFINE doc == Document(events, run)
            normalized == Normalize(events, run)
            all(i) == Append(events[i].objects, run)
<1>1. /\ doc.events = normalized
      /\ doc.eventTypes = {normalized[i].type : i \in DOMAIN normalized}
      /\ doc.objects = ObjectsOf(normalized)
      /\ doc.objectTypes = {o.type : o \in ObjectsOf(normalized)}
  BY DEF Document
<1>2. DOMAIN normalized = DOMAIN events /\ DOMAIN events = 1 .. Len(events) /\ Len(events) \in Nat
  BY DEF Normalize
<1>3. Len(normalized) = Len(events) /\ normalized \in Seq(Range(normalized))
  <2>1. normalized \in [1 .. Len(events) -> Range(normalized)]
    BY <1>2 DEF Normalize, Range
  <2>. HIDE DEF normalized
  <2>2. normalized \in Seq(Range(normalized))
    BY <1>2, <2>1
  <2>. QED
    BY <1>2, <2>1, <2>2
<1>4. ASSUME NEW i \in DOMAIN events
      PROVE  /\ normalized[i].id = i
             /\ normalized[i].type = events[i].activity /\ normalized[i].phase = events[i].phase
             /\ normalized[i].step = events[i].step /\ normalized[i].exit = events[i].exit
             /\ normalized[i].rels = UniqueRelations(all(i))
  BY DEF Normalize
<1>. HIDE DEF normalized
<1>5. ASSUME NEW i \in DOMAIN events
      PROVE  /\ all(i) \in Seq(R)
             /\ Keys(all(i)) = Keys(events[i].objects) \cup {<<run.object, run.qualifier>>}
  <2>. DEFINE objects == events[i].objects
  <2>1. objects \in Seq(R)
    OBVIOUS
  <2>. HIDE DEF objects
  <2>2. /\ Append(objects, run) \in Seq(R)
        /\ DOMAIN Append(objects, run) = DOMAIN objects \cup {Len(objects) + 1}
        /\ Append(objects, run)[Len(objects) + 1] = run
        /\ \A k \in DOMAIN objects : Append(objects, run)[k] = objects[k]
    BY <2>1
  <2>3. Keys(Append(objects, run)) = Keys(objects) \cup {<<run.object, run.qualifier>>}
    BY <2>2 DEF Keys
  <2>. QED
    BY <2>2, <2>3 DEF objects
<1>. HIDE DEF all
<1>6. ASSUME NEW i \in DOMAIN events
      PROVE  /\ normalized[i].rels \in Seq(R)
             /\ Keys(normalized[i].rels) = Keys(events[i].objects) \cup {<<run.object, run.qualifier>>}
             /\ \A k, l \in DOMAIN normalized[i].rels :
                    k # l => ~SameRelation(normalized[i].rels[k], normalized[i].rels[l])
  BY <1>4, <1>5, UniqueKept, KeysKept, SMTT(20)
<1>8. StructureSound(doc)
  <2>1. \A i, j \in DOMAIN normalized : i # j => normalized[i].id # normalized[j].id
    BY <1>2, <1>4
  <2>2. \A i \in DOMAIN normalized : \A k \in DOMAIN normalized[i].rels :
            normalized[i].rels[k].object \in {o.id : o \in ObjectsOf(normalized)}
    <3>1. ASSUME NEW i \in DOMAIN normalized, NEW k \in DOMAIN normalized[i].rels
          PROVE  Closed(normalized, normalized[i].rels[k])
      <4>1. \A j \in DOMAIN normalized : normalized[j].rels \in Seq(R)
        BY <1>2, <1>6
      <4>2. Len(events) \in Nat /\ DOMAIN normalized = 1 .. Len(events)
        BY <1>2
      <4>. QED
        BY <3>1, <4>1, <4>2, ObjectsClosed
    <3>. QED
      BY <3>1 DEF Closed
  <2>3. \A i \in DOMAIN normalized : \A k, l \in DOMAIN normalized[i].rels :
            k # l => \/ normalized[i].rels[k].object # normalized[i].rels[l].object
                     \/ normalized[i].rels[k].qualifier # normalized[i].rels[l].qualifier
    BY <1>2, <1>6 DEF SameRelation
  <2>. HIDE DEF doc
  <2>. QED
    BY <1>1, <2>1, <2>2, <2>3 DEF StructureSound
<1>. QED
  BY <1>1, <1>2, <1>3, <1>4, <1>6, <1>8 DEF all, IsDocumentOf

-----------------------------------------------------------------------------
(* Sealing.                                                                 *)

\* A set of relations, and the set with the types looked up in a document.
Relations(R) == \A r \in R : r = [object |-> r.object, qualifier |-> r.qualifier, type |-> r.type]
Retyped(R, doc) ==
    {RunOf(phase) : phase \in {"base", "core"}}
    \cup {[r EXCEPT !.type = TypeOfObject(doc, r.object)] : r \in R}

\* The objects of an event are its relations but the one to the run.
LEMMA ObjectsAgainIs ==
    ASSUME NEW R, Relations(R), NEW doc, NEW rels \in Seq(R)
    PROVE  /\ ObjectsAgain(doc, rels) \in Seq(Retyped(R, doc))
           /\ Keys(ObjectsAgain(doc, rels)) = {key \in Keys(rels) : key[2] # "run"}
<1>. DEFINE X == Retyped(R, doc)
            again(r) == [r EXCEPT !.type = TypeOfObject(doc, r.object)]
            seqs == [k \in DOMAIN rels |->
                        IF rels[k].qualifier = "run" THEN <<>> ELSE <<again(rels[k])>>]
            objects == FlattenSeq(seqs)
<1>1. ObjectsAgain(doc, rels) = objects
  BY DEF ObjectsAgain
<1>2. ASSUME NEW r \in R
      PROVE  again(r) \in X /\ again(r).object = r.object /\ again(r).qualifier = r.qualifier
  BY SMTT(20) DEF Relations, Retyped
<1>3. DOMAIN rels = 1 .. Len(rels) /\ Len(rels) \in Nat /\ \A k \in DOMAIN rels : rels[k] \in R
  OBVIOUS
<1>. HIDE DEF again, X
<1>4. seqs \in Seq(Seq(X))
  <2>1. seqs \in [1 .. Len(rels) -> Seq(X)]
    BY <1>2, <1>3
  <2>. HIDE DEF seqs
  <2>. QED
    BY <1>3, <2>1
<1>5. ASSUME NEW k \in DOMAIN rels
      PROVE  IF rels[k].qualifier = "run" THEN Len(seqs[k]) = 0
             ELSE Len(seqs[k]) = 1 /\ seqs[k][1] = again(rels[k])
  OBVIOUS
<1>6. DOMAIN seqs = DOMAIN rels
  OBVIOUS
<1>. HIDE DEF seqs
<1>7. /\ objects \in Seq(X)
      /\ \A n \in DOMAIN objects : \E i \in DOMAIN seqs :
             \E k \in DOMAIN seqs[i] : objects[n] = seqs[i][k]
      /\ \A i \in DOMAIN seqs : \A k \in DOMAIN seqs[i] :
             \E n \in DOMAIN objects : objects[n] = seqs[i][k]
  BY <1>4, FlattenedRange
<1>8. \A k \in DOMAIN rels : seqs[k] \in Seq(X)
  BY <1>4, <1>6
<1>. HIDE DEF objects
<1>9. ASSUME NEW n \in DOMAIN objects
      PROVE  \E i \in DOMAIN rels : /\ rels[i].qualifier # "run" /\ objects[n].object = rels[i].object
                                    /\ objects[n].qualifier = rels[i].qualifier
  <2>1. PICK i \in DOMAIN seqs : \E k \in DOMAIN seqs[i] : objects[n] = seqs[i][k]
    BY <1>7
  <2>2. PICK k \in DOMAIN seqs[i] : objects[n] = seqs[i][k]
    BY <2>1
  <2>3. rels[i].qualifier # "run" /\ k = 1
    BY <1>5, <1>6, <1>8, <2>1, <2>2
  <2>. QED
    BY <1>2, <1>3, <1>5, <1>6, <2>2, <2>3
<1>10. ASSUME NEW i \in DOMAIN rels, rels[i].qualifier # "run"
       PROVE  \E n \in DOMAIN objects : /\ objects[n].object = rels[i].object
                                        /\ objects[n].qualifier = rels[i].qualifier
  <2>1. 1 \in DOMAIN seqs[i] /\ seqs[i][1] = again(rels[i])
    BY <1>5, <1>8, <1>10
  <2>2. PICK n \in DOMAIN objects : objects[n] = seqs[i][1]
    BY <1>6, <1>7, <2>1
  <2>. QED
    BY <1>2, <1>3, <2>1, <2>2
<1>11. Keys(objects) \subseteq {key \in Keys(rels) : key[2] # "run"}
  BY <1>9 DEF Keys
<1>12. {key \in Keys(rels) : key[2] # "run"} \subseteq Keys(objects)
  BY <1>10 DEF Keys
<1>. QED
  BY <1>1, <1>7, <1>11, <1>12 DEF X

\* A relation repeated is one relation.
LEMMA TwiceIsOnce ==
    ASSUME NEW r, r = [object |-> r.object, qualifier |-> r.qualifier, type |-> r.type]
    PROVE  UniqueRelations(Append(<<r>>, r)) = <<r>>
<1>. DEFINE twice == Append(<<r>>, r)
            u == UniqueRelations(twice)
<1>1. twice \in Seq({r}) /\ DOMAIN twice = 1 .. 2
  OBVIOUS
<1>. HIDE DEF twice
<1>2. u \in Seq({r})
  BY <1>1, UniqueKept
<1>3. \A k \in 1 .. 2 : \E n \in DOMAIN u : SameRelation(u[n], twice[k])
  BY <1>1, UniqueKept
<1>4. \A n, m \in DOMAIN u : n # m => ~SameRelation(u[n], u[m])
  BY <1>1, UniqueKept
<1>. HIDE DEF u
<1>5. \A n \in DOMAIN u : u[n] = r
  BY <1>2
<1>6. Len(u) \in Nat /\ DOMAIN u = 1 .. Len(u)
  BY <1>2
<1>7. Len(u) >= 1
  BY <1>3, <1>6
<1>8. Len(u) <= 1
  <2>. SUFFICES ASSUME Len(u) >= 2 PROVE FALSE
    BY <1>6
  <2>1. 1 \in DOMAIN u /\ 2 \in DOMAIN u
    BY <1>6
  <2>. QED
    BY <1>4, <1>5, <2>1 DEF SameRelation
<1>9. Len(u) = 1 /\ u[1] = r
  BY <1>5, <1>6, <1>7, <1>8
<1>. QED
  BY <1>2, <1>9 DEF u, twice

\* A document that is well formed, with relations of R.
DocOf(doc, R) ==
    /\ Relations(R)
    /\ doc.events \in Seq(Range(doc.events))
    /\ \A i \in DOMAIN doc.events : doc.events[i].rels \in Seq(R)

\* Sealing keeps every event, and adds the one that names the run.
LEMMA SealedIs ==
    ASSUME NEW R, NEW doc, DocOf(doc, R), NEW phase \in {"base", "core"}, NEW exit
    PROVE  LET sealed == SealedWith(doc, phase, exit)
               last == Len(doc.events) + 1
           IN  /\ StructureSound(sealed)
               /\ DocOf(sealed, Retyped(R, doc))
               /\ DOMAIN sealed.events = DOMAIN doc.events \cup {last}
               /\ Len(sealed.events) = last
               /\ sealed.events[last].type = (IF exit = 0 THEN Applied ELSE Aborted)
               /\ sealed.events[last].phase = None
               /\ sealed.events[last].exit = exit
               /\ sealed.events[last].rels = <<RunOf(phase)>>
               /\ \A i \in DOMAIN doc.events :
                      /\ sealed.events[i].type = doc.events[i].type
                      /\ sealed.events[i].phase = doc.events[i].phase
                      /\ sealed.events[i].step = doc.events[i].step
                      /\ sealed.events[i].exit = doc.events[i].exit
                      /\ Keys(sealed.events[i].rels) =
                             {key \in Keys(doc.events[i].rels) : key[2] # "run"}
                             \cup {<<phase, "run">>}
<1>. DEFINE sealed == SealedWith(doc, phase, exit)
            len == Len(doc.events)
            X == Retyped(R, doc)
            run == RunOf(phase)
            outcome == [activity |-> IF exit = 0 THEN Applied ELSE Aborted,
                        phase |-> None, step |-> None, exit |-> exit, objects |-> <<run>>]
            old(i) == [activity |-> doc.events[i].type, phase |-> doc.events[i].phase,
                       step |-> doc.events[i].step, exit |-> doc.events[i].exit,
                       objects |-> ObjectsAgain(doc, doc.events[i].rels)]
            E == {outcome} \cup {old(i) : i \in DOMAIN doc.events}
            events == Append(Rebuilt(doc), outcome)
<1>1. doc.events \in Seq(Range(doc.events)) /\ len \in Nat /\ DOMAIN doc.events = 1 .. len
  BY DEF DocOf
<1>2. /\ Rebuilt(doc) \in Seq(E) /\ Len(Rebuilt(doc)) = len
      /\ \A i \in 1 .. len : Rebuilt(doc)[i] = old(i)
  <2>1. Rebuilt(doc) = [i \in 1 .. len |-> old(i)]
    BY <1>1 DEF Rebuilt
  <2>. HIDE DEF old, outcome
  <2>2. Rebuilt(doc) \in [1 .. len -> E]
    BY <1>1, <2>1
  <2>. HIDE DEF E
  <2>. QED
    BY <1>1, <2>1, <2>2
<1>3. /\ events \in Seq(Range(events)) /\ Len(events) = len + 1 /\ DOMAIN events = 1 .. (len + 1)
      /\ events[len + 1] = outcome
      /\ \A i \in 1 .. len : events[i] = old(i)
  <2>1. outcome \in E
    OBVIOUS
  <2>. HIDE DEF E, old, outcome
  <2>2. /\ events \in Seq(E) /\ Len(events) = len + 1 /\ DOMAIN events = 1 .. (len + 1)
        /\ events[len + 1] = outcome
        /\ \A i \in 1 .. len : events[i] = old(i)
    BY <1>1, <1>2, <2>1
  <2>. HIDE DEF events
  <2>3. events \in [1 .. (len + 1) -> Range(events)]
    BY <2>2 DEF Range
  <2>4. events \in Seq(Range(events))
    BY <1>1, <2>3
  <2>. QED
    BY <2>2, <2>4
<1>4. sealed = Document(events, run)
  BY DEF SealedWith
<1>5. run \in X /\ <<run>> \in Seq(X)
  BY DEF Retyped
<1>6. ASSUME NEW i \in 1 .. len
      PROVE  /\ old(i).objects \in Seq(X)
             /\ Keys(old(i).objects) = {key \in Keys(doc.events[i].rels) : key[2] # "run"}
  <2>1. old(i).objects = ObjectsAgain(doc, doc.events[i].rels)
    OBVIOUS
  <2>2. doc.events[i].rels \in Seq(R) /\ Relations(R)
    BY <1>1 DEF DocOf
  <2>. HIDE DEF old
  <2>. QED
    BY <2>1, <2>2, ObjectsAgainIs
<1>7. outcome.objects = <<run>>
  OBVIOUS
<1>8. \A i \in DOMAIN events : events[i].objects \in Seq(X)
  <2>. SUFFICES ASSUME NEW i \in 1 .. (len + 1) PROVE events[i].objects \in Seq(X)
    BY <1>3
  <2>. HIDE DEF outcome, old, run, X, E, events
  <2>1. CASE i = len + 1
    BY <1>3, <1>5, <1>7, <2>1
  <2>2. CASE i \in 1 .. len
    BY <1>3, <1>6, <2>2
  <2>. QED
    BY <1>1, <2>1, <2>2
<1>9. /\ run.object = phase /\ run.qualifier = "run"
      /\ run = [object |-> run.object, qualifier |-> run.qualifier, type |-> run.type]
  BY DEF RunOf
<1>10. /\ StructureSound(sealed)
       /\ DOMAIN sealed.events = DOMAIN events
       /\ Len(sealed.events) = Len(events)
       /\ sealed.events \in Seq(Range(sealed.events))
       /\ \A i \in DOMAIN events :
              /\ sealed.events[i].type = events[i].activity
              /\ sealed.events[i].phase = events[i].phase
              /\ sealed.events[i].step = events[i].step
              /\ sealed.events[i].exit = events[i].exit
              /\ sealed.events[i].rels = UniqueRelations(Append(events[i].objects, run))
              /\ sealed.events[i].rels \in Seq(X)
              /\ Keys(sealed.events[i].rels) = Keys(events[i].objects) \cup {<<phase, "run">>}
  <2>. HIDE DEF events, run, X, E
  <2>1. IsDocumentOf(Document(events, run), events, run, X)
    BY <1>3, <1>5, <1>8, DocumentIs
  <2>. HIDE DEF sealed
  <2>. QED
    BY <1>4, <1>9, <2>1 DEF IsDocumentOf
<1>11. DOMAIN sealed.events = DOMAIN doc.events \cup {len + 1}
  BY <1>1, <1>3, <1>10
<1>12. /\ sealed.events[len + 1].type = (IF exit = 0 THEN Applied ELSE Aborted)
       /\ sealed.events[len + 1].phase = None /\ sealed.events[len + 1].exit = exit
       /\ sealed.events[len + 1].rels = <<run>>
  <2>1. len + 1 \in DOMAIN events /\ events[len + 1] = outcome
    BY <1>1, <1>3
  <2>2. /\ sealed.events[len + 1].type = outcome.activity
        /\ sealed.events[len + 1].phase = outcome.phase
        /\ sealed.events[len + 1].exit = outcome.exit
        /\ sealed.events[len + 1].rels = UniqueRelations(Append(outcome.objects, run))
    <3>. HIDE DEF outcome, events, run, sealed
    <3>. QED
      BY <1>10, <2>1
  <2>3. Append(outcome.objects, run) = Append(<<run>>, run)
    OBVIOUS
  <2>4. UniqueRelations(Append(<<run>>, run)) = <<run>>
    <3>. HIDE DEF run
    <3>. QED
      BY <1>9, TwiceIsOnce
  <2>. QED
    BY <2>2, <2>3, <2>4
<1>13. \A i \in DOMAIN doc.events :
          /\ sealed.events[i].type = doc.events[i].type
          /\ sealed.events[i].phase = doc.events[i].phase
          /\ sealed.events[i].step = doc.events[i].step
          /\ sealed.events[i].exit = doc.events[i].exit
          /\ Keys(sealed.events[i].rels) =
                 {key \in Keys(doc.events[i].rels) : key[2] # "run"} \cup {<<phase, "run">>}
  <2>. SUFFICES ASSUME NEW i \in 1 .. len
                PROVE  /\ sealed.events[i].type = doc.events[i].type
                       /\ sealed.events[i].phase = doc.events[i].phase
                       /\ sealed.events[i].step = doc.events[i].step
                       /\ sealed.events[i].exit = doc.events[i].exit
                       /\ Keys(sealed.events[i].rels) =
                              {key \in Keys(doc.events[i].rels) : key[2] # "run"}
                              \cup {<<phase, "run">>}
    BY <1>1
  <2>0. i \in DOMAIN events
    BY <1>1, <1>3
  <2>1. i \in DOMAIN events /\ events[i] = old(i)
    <3>. HIDE DEF events, old, sealed, X, run, outcome
    <3>. QED
      BY <1>3, <2>0
  <2>2. /\ sealed.events[i].type = old(i).activity /\ sealed.events[i].phase = old(i).phase
        /\ sealed.events[i].step = old(i).step /\ sealed.events[i].exit = old(i).exit
        /\ Keys(sealed.events[i].rels) = Keys(old(i).objects) \cup {<<phase, "run">>}
    <3>. HIDE DEF old, events, run, sealed
    <3>. QED
      BY <1>10, <2>1
  <2>. QED
    BY <1>6, <2>2
<1>14. DocOf(sealed, X)
  <2>1. Relations(X)
    BY DEF DocOf, Relations, Retyped, RunOf
  <2>2. \A i \in DOMAIN sealed.events : sealed.events[i].rels \in Seq(X)
    BY <1>10
  <2>3. sealed.events \in Seq(Range(sealed.events))
    BY <1>10
  <2>. QED
    BY <2>1, <2>2, <2>3 DEF DocOf
<1>. QED
  <2>. HIDE DEF sealed, X
  <2>. QED
    BY <1>3, <1>10, <1>11, <1>12, <1>13, <1>14 DEF sealed, X

-----------------------------------------------------------------------------
(* What conformance.py reads of an event.                                   *)

\* The object an event is related to under a qualifier, when there is one.
LEMMA RelatedIs ==
    ASSUME NEW R, NEW e, e.rels \in Seq(R), NEW q, NEW x, <<x, q>> \in Keys(e.rels),
           \A key \in Keys(e.rels) : key[2] = q => key[1] = x
    PROVE  Related(e, q) = x
<1>. DEFINE hits == {i \in DOMAIN e.rels : e.rels[i].qualifier = q}
            first == CHOOSE i \in hits : \A j \in hits : i <= j
<1>1. hits # {} /\ hits \in SUBSET Nat
  BY DEF Keys
<1>2. \E i \in hits : \A j \in hits : i <= j
  <2>. HIDE DEF hits
  <2>. QED
    BY <1>1, LeastElement
<1>3. first \in hits
  BY <1>2
<1>4. Related(e, q) = e.rels[first].object
  BY <1>1 DEF Related
<1>. HIDE DEF first
<1>5. <<e.rels[first].object, e.rels[first].qualifier>> \in Keys(e.rels)
  BY <1>3 DEF Keys
<1>. QED
  BY <1>3, <1>4, <1>5

-----------------------------------------------------------------------------
(* What igniter/1 writes into a log.                                        *)

\* A sequence of a set is one of a larger set.
LEMMA SeqMono ==
    ASSUME NEW A, NEW B, A \subseteq B, NEW s \in Seq(A) PROVE s \in Seq(B)
  OBVIOUS

\* What is assumed of both plans holds of the plan of any task.
LEMMA PlanIs ==
    ASSUME NEW text
    PROVE  /\ PlanOf(text) \in Seq(Range(PlanOf(text)))
           /\ \A i \in DOMAIN PlanOf(text) : LET s == PlanOf(text)[i] IN
                  /\ s.phase \in Phases /\ s.task \in DOMAIN Caps
                  /\ s.guarded => s.subject \in Modules
                  /\ s.drains \in Seq(Range(s.drains))
<1>1. PlanOf(text) = Plan \/ PlanOf(text) = EditedPlan \/ PlanOf(text) = <<>>
  BY DEF PlanOf
<1>2. CASE PlanOf(text) = <<>>
  BY <1>2
<1>3. ASSUME NEW plan \in {Plan, EditedPlan}, PlanOf(text) = plan
      PROVE  /\ PlanOf(text) \in Seq(Range(PlanOf(text)))
             /\ \A i \in DOMAIN PlanOf(text) : LET s == PlanOf(text)[i] IN
                    /\ s.phase \in Phases /\ s.task \in DOMAIN Caps
                    /\ s.guarded => s.subject \in Modules
                    /\ s.drains \in Seq(Range(s.drains))
  BY <1>3, PlanAssumption
<1>. QED
  BY <1>1, <1>2, <1>3

\* An event of the task: a decision of a step, or what one drops or refuses.
Decided(e, activity, s) ==
    /\ e.activity = activity /\ e.phase = s.phase /\ e.step = s.step
    /\ Keys(e.objects) = {<<s.subject, "subject">>, <<s.task, "generator">>}
WellMade(e, phase) ==
    /\ e.phase \in {phase, None}
    /\ e.activity \in {"task_composed", "queued_task_dropped", "task_admission_refused",
                       "capability_refused"}
    /\ e.objects \in Seq(Range(e.objects)) /\ Relations(Range(e.objects))

\* The objects of an event.
LEMMA EventIs ==
    ASSUME NEW activity, NEW s
    PROVE  /\ Event(activity, s, <<>>).objects \in Seq(Range(Event(activity, s, <<>>).objects))
           /\ Relations(Range(Event(activity, s, <<>>).objects))
           /\ Decided(Event(activity, s, <<>>), activity, s)
<1>. DEFINE a == Object(s.subject, "subject", s.type)
            b == Object(s.task, "generator", "mix_task")
            objects == Event(activity, s, <<>>).objects
<1>1. objects = <<a, b>>
  BY DEF Event
<1>2. /\ a.object = s.subject /\ a.qualifier = "subject"
      /\ b.object = s.task /\ b.qualifier = "generator"
      /\ a = [object |-> a.object, qualifier |-> a.qualifier, type |-> a.type]
      /\ b = [object |-> b.object, qualifier |-> b.qualifier, type |-> b.type]
  BY DEF Object
<1>. HIDE DEF a, b, objects
<1>3. Range(objects) = {a, b} /\ objects \in Seq({a, b}) /\ DOMAIN objects = 1 .. 2
      /\ objects[1] = a /\ objects[2] = b
  BY <1>1 DEF Range
<1>4. Keys(objects) = {<<s.subject, "subject">>, <<s.task, "generator">>}
  BY <1>2, <1>3 DEF Keys
<1>5. Decided(Event(activity, s, <<>>), activity, s)
  BY <1>4 DEF Decided, Event, objects
<1>. QED
  BY <1>2, <1>3, <1>5 DEF Relations, objects

\* So are those of a dropped task, and of a refusal.
LEMMA OtherEventsAre ==
    ASSUME NEW s, NEW d, NEW c
    PROVE  LET dropped == Event("queued_task_dropped", s, <<Object(d, "dropped_task", "mix_task")>>)
               refusal == Refusal(c)
           IN  /\ dropped.objects \in Seq(Range(dropped.objects))
               /\ Relations(Range(dropped.objects))
               /\ refusal.objects \in Seq(Range(refusal.objects))
               /\ Relations(Range(refusal.objects))
<1>. DEFINE a == Object(s.subject, "subject", s.type)
            b == Object(s.task, "generator", "mix_task")
            more == Object(d, "dropped_task", "mix_task")
            g == Object(c, "generator", "mix_task")
            dropped == Event("queued_task_dropped", s, <<more>>)
            objects == dropped.objects
            refused == Refusal(c).objects
<1>1. objects = <<a, b>> \o <<more>> /\ refused = <<g>>
  BY DEF Event, Refusal
<1>2. \A r \in {a, b, more, g} :
          r = [object |-> r.object, qualifier |-> r.qualifier, type |-> r.type]
  BY DEF Object
<1>. HIDE DEF a, b, more, g, objects, refused
<1>3. objects \in Seq({a, b, more}) /\ Range(objects) \subseteq {a, b, more}
  <2>1. <<a, b>> \in Seq({a, b, more}) /\ <<more>> \in Seq({a, b, more})
    OBVIOUS
  <2>2. objects \in Seq({a, b, more})
    BY <1>1, <2>1
  <2>. QED
    BY <2>2 DEF Range
<1>4. objects \in Seq(Range(objects))
  <2>1. objects \in [1 .. Len(objects) -> Range(objects)] /\ Len(objects) \in Nat
    BY <1>3 DEF Range
  <2>. QED
    BY <2>1
<1>5. refused \in Seq({g}) /\ Range(refused) = {g}
  BY <1>1 DEF Range
<1>6. Relations(Range(objects)) /\ Relations(Range(refused))
  BY <1>2, <1>3, <1>5 DEF Relations
<1>7. refused \in Seq(Range(refused))
  BY <1>5
<1>. QED
  BY <1>4, <1>6, <1>7 DEF objects, refused, dropped, more

\* What a step of the plan writes, over a tree.
LEMMA StepEventsAre ==
    ASSUME NEW t, NEW s, NEW phase \in Phases, s.phase = phase, s.drains \in Seq(Range(s.drains))
    PROVE  /\ StepEvents(t, s) \in Seq(Range(StepEvents(t, s)))
           /\ \A n \in DOMAIN StepEvents(t, s) : LET e == StepEvents(t, s)[n] IN
                  /\ WellMade(e, phase)
                  /\ e.activity = "task_admission_refused" => ~Composes(t, s) /\ Decided(e, e.activity, s)
           /\ Composes(t, s) => \E n \in DOMAIN StepEvents(t, s) :
                  Decided(StepEvents(t, s)[n], "task_composed", s)
<1>. DEFINE events == StepEvents(t, s)
            one == Event("task_composed", s, <<>>)
            no == Event("task_admission_refused", s, <<>>)
            drop(i) == Event("queued_task_dropped", s, <<Object(s.drains[i], "dropped_task", "mix_task")>>)
            dropped == [i \in DOMAIN s.drains |-> drop(i)]
<1>1. /\ WellMade(one, phase) /\ Decided(one, "task_composed", s) /\ one.activity = "task_composed"
      /\ WellMade(no, phase) /\ Decided(no, "task_admission_refused", s)
      /\ no.activity = "task_admission_refused"
  <2>1. /\ one.phase = phase /\ one.activity = "task_composed"
        /\ no.phase = phase /\ no.activity = "task_admission_refused"
    BY DEF Event
  <2>. HIDE DEF one, no
  <2>. QED
    BY <2>1, EventIs DEF WellMade, one, no
<1>2. ASSUME NEW i \in DOMAIN s.drains
      PROVE  WellMade(drop(i), phase) /\ drop(i).activity = "queued_task_dropped"
  <2>1. drop(i).phase = phase /\ drop(i).activity = "queued_task_dropped"
    BY DEF Event
  <2>2. drop(i).objects \in Seq(Range(drop(i).objects)) /\ Relations(Range(drop(i).objects))
    BY OtherEventsAre
  <2>. QED
    BY <2>1, <2>2 DEF WellMade
<1>3. events = IF Composes(t, s) THEN <<one>> \o dropped ELSE <<no>>
  BY DEF StepEvents
<1>. HIDE DEF one, no, events
<1>4. CASE ~Composes(t, s)
  <2>1. events = <<no>>
    BY <1>3, <1>4
  <2>2. events \in Seq(Range(events)) /\ DOMAIN events = 1 .. 1 /\ events[1] = no
    BY <2>1 DEF Range
  <2>. QED
    BY <1>1, <1>4, <2>2 DEF events
<1>5. CASE Composes(t, s)
  <2>. DEFINE Y == {one} \cup {drop(i) : i \in DOMAIN s.drains}
  <2>1. dropped \in Seq(Y) /\ <<one>> \in Seq(Y)
    <3>1. dropped \in [1 .. Len(s.drains) -> Y] /\ Len(s.drains) \in Nat
      OBVIOUS
    <3>2. one \in Y
      OBVIOUS
    <3>. HIDE DEF dropped, Y
    <3>3. dropped \in Seq(Y)
      BY <3>1
    <3>. QED
      BY <3>2, <3>3
  <2>. HIDE DEF dropped, drop
  <2>2. events = <<one>> \o dropped
    BY <1>3, <1>5
  <2>3. events \in Seq(Y) /\ 1 \in DOMAIN events /\ events[1] = one
    <3>. HIDE DEF Y
    <3>. QED
      BY <2>1, <2>2
  <2>4. \A n \in DOMAIN events : events[n] \in Y
    BY <2>3
  <2>5. events \in Seq(Range(events))
    <3>1. events \in [1 .. Len(events) -> Range(events)] /\ Len(events) \in Nat
      BY <2>3 DEF Range
    <3>. QED
      BY <3>1
  <2>6. \A e \in Y : WellMade(e, phase) /\ e.activity # "task_admission_refused"
    BY <1>1, <1>2
  <2>. QED
    BY <1>1, <1>5, <2>3, <2>4, <2>5, <2>6 DEF events
<1>. QED
  BY <1>4, <1>5

\* The tasks that are refused are a sequence, in some order.
LEMMA RefusedIs == Refused \in Seq(Range(Refused))
<1>. DEFINE A == {c \in DOMAIN Caps : ~Caps[c]}
<1>1. IsFiniteSet(A)
  BY PlanAssumption, FS_Subset
<1>2. Refused = SetToSeq(A)
  BY DEF Refused
<1>. HIDE DEF A
<1>. QED
  BY <1>1, <1>2, SetToSeqIs

\* The log of a phase tells what each of its steps does over a tree.
DecisionsOf(events, t, phase) ==
    LET plan == PlanOf(t["task"]) IN
    /\ events \in Seq(Range(events))
    /\ \A n \in DOMAIN events :
           /\ WellMade(events[n], phase)
           /\ events[n].activity = "task_admission_refused" =>
                  \E i \in DOMAIN plan : /\ plan[i].phase = phase /\ ~Composes(t, plan[i])
                                         /\ Decided(events[n], "task_admission_refused", plan[i])
    /\ \A i \in DOMAIN plan : plan[i].phase = phase /\ Composes(t, plan[i]) =>
           \E n \in DOMAIN events : Decided(events[n], "task_composed", plan[i])

\* Two sequences joined have the elements of both.
Joined(c, a, b, X) ==
    /\ c \in Seq(X)
    /\ \A n \in DOMAIN c : (\E k \in DOMAIN a : c[n] = a[k]) \/ (\E k \in DOMAIN b : c[n] = b[k])
    /\ \A k \in DOMAIN a : \E n \in DOMAIN c : c[n] = a[k]
    /\ \A k \in DOMAIN b : \E n \in DOMAIN c : c[n] = b[k]
LEMMA ConcatIs ==
    ASSUME NEW X, NEW a \in Seq(X), NEW b \in Seq(X) PROVE Joined(a \o b, a, b, X)
<1>. DEFINE c == a \o b
<1>1. /\ c \in Seq(X) /\ Len(c) = Len(a) + Len(b) /\ Len(a) \in Nat /\ Len(b) \in Nat
      /\ \A n \in 1 .. Len(a) : c[n] = a[n]
      /\ \A n \in 1 .. Len(b) : c[Len(a) + n] = b[n]
      /\ DOMAIN a = 1 .. Len(a) /\ DOMAIN b = 1 .. Len(b) /\ DOMAIN c = 1 .. Len(c)
  OBVIOUS
<1>. HIDE DEF c
<1>2. ASSUME NEW n \in DOMAIN c
      PROVE  (\E k \in DOMAIN a : c[n] = a[k]) \/ (\E k \in DOMAIN b : c[n] = b[k])
  <2>1. n \in 1 .. Len(a) \/ n - Len(a) \in 1 .. Len(b)
    BY <1>1
  <2>2. n = Len(a) + (n - Len(a))
    BY <1>1
  <2>. QED
    BY <1>1, <2>1, <2>2
<1>3. ASSUME NEW k \in DOMAIN b PROVE Len(a) + k \in DOMAIN c /\ c[Len(a) + k] = b[k]
  BY <1>1
<1>4. \A k \in DOMAIN a : k \in DOMAIN c
  BY <1>1
<1>. QED
  BY <1>1, <1>2, <1>3, <1>4 DEF c, Joined

\* What igniter/1 writes of a phase is what its steps do, and the refusals.
LEMMA DecisionsAre ==
    ASSUME NEW t, NEW phase \in Phases PROVE DecisionsOf(Decisions(t, phase), t, phase)
<1>. DEFINE plan == PlanOf(t["task"])
            own(i) == IF plan[i].phase = phase THEN StepEvents(t, plan[i]) ELSE <<>>
            seqs == [i \in DOMAIN plan |-> own(i)]
            refusals == [i \in DOMAIN Refused |-> Refusal(Refused[i])]
            steps == FlattenSeq(seqs)
            X == Range(refusals) \cup UNION {Range(own(i)) : i \in DOMAIN plan}
<1>1. Decisions(t, phase) = steps \o refusals
  BY DEF Decisions
<1>2. /\ plan \in Seq(Range(plan))
      /\ \A i \in DOMAIN plan : plan[i].phase \in Phases /\ plan[i].drains \in Seq(Range(plan[i].drains))
  <2>. DEFINE text == t["task"]
  <2>. HIDE DEF text
  <2>1. /\ PlanOf(text) \in Seq(Range(PlanOf(text)))
        /\ \A i \in DOMAIN PlanOf(text) : /\ PlanOf(text)[i].phase \in Phases
                                          /\ PlanOf(text)[i].drains \in Seq(Range(PlanOf(text)[i].drains))
    BY PlanIs
  <2>. QED
    BY <2>1 DEF text
<1>. HIDE DEF plan
<1>3. ASSUME NEW i \in DOMAIN plan
      PROVE  /\ own(i) \in Seq(Range(own(i)))
             /\ \A n \in DOMAIN own(i) :
                    /\ plan[i].phase = phase
                    /\ WellMade(own(i)[n], phase)
                    /\ own(i)[n].activity = "task_admission_refused" =>
                           ~Composes(t, plan[i]) /\ Decided(own(i)[n], "task_admission_refused", plan[i])
             /\ plan[i].phase = phase /\ Composes(t, plan[i]) => \E n \in DOMAIN own(i) :
                    Decided(own(i)[n], "task_composed", plan[i])
  <2>1. CASE plan[i].phase # phase
    <3>1. own(i) = <<>>
      BY <2>1
    <3>. HIDE DEF own
    <3>2. DOMAIN own(i) = {} /\ own(i) \in Seq(Range(own(i)))
      BY <3>1
    <3>. QED
      BY <2>1, <3>2
  <2>2. CASE plan[i].phase = phase
    <3>. DEFINE s == plan[i]
    <3>1. own(i) = StepEvents(t, s) /\ s.phase = phase /\ s.drains \in Seq(Range(s.drains))
      BY <1>2, <2>2
    <3>. HIDE DEF own, s
    <3>2. /\ StepEvents(t, s) \in Seq(Range(StepEvents(t, s)))
          /\ \A n \in DOMAIN StepEvents(t, s) :
                 /\ WellMade(StepEvents(t, s)[n], phase)
                 /\ StepEvents(t, s)[n].activity = "task_admission_refused" =>
                        ~Composes(t, s) /\ Decided(StepEvents(t, s)[n], StepEvents(t, s)[n].activity, s)
          /\ Composes(t, s) => \E n \in DOMAIN StepEvents(t, s) :
                 Decided(StepEvents(t, s)[n], "task_composed", s)
      BY <3>1, StepEventsAre
    <3>. QED
      BY <3>1, <3>2 DEF s
  <2>. QED
    BY <2>1, <2>2
<1>. HIDE DEF own
<1>4. seqs \in Seq(Seq(X)) /\ DOMAIN seqs = DOMAIN plan /\ \A i \in DOMAIN plan : seqs[i] = own(i)
  <2>1. ASSUME NEW i \in DOMAIN plan PROVE own(i) \in Seq(X)
    <3>1. Range(own(i)) \subseteq X
      OBVIOUS
    <3>. HIDE DEF X
    <3>. QED
      BY <1>3, <3>1, SeqMono
  <2>. HIDE DEF X
  <2>2. seqs \in [1 .. Len(plan) -> Seq(X)] /\ Len(plan) \in Nat
    BY <1>2, <2>1
  <2>. QED
    BY <2>2
<1>5. refusals \in Seq(X) /\ \A k \in DOMAIN refusals : /\ WellMade(refusals[k], phase)
                                                       /\ refusals[k].activity = "capability_refused"
  <2>1. DOMAIN Refused = 1 .. Len(Refused) /\ Len(Refused) \in Nat
    BY RefusedIs
  <2>2. ASSUME NEW c PROVE WellMade(Refusal(c), phase) /\ Refusal(c).activity = "capability_refused"
    <3>1. /\ Refusal(c).objects \in Seq(Range(Refusal(c).objects))
          /\ Relations(Range(Refusal(c).objects))
      BY OtherEventsAre
    <3>2. Refusal(c).phase = None /\ Refusal(c).activity = "capability_refused"
      BY DEF Refusal
    <3>. QED
      BY <3>1, <3>2 DEF WellMade
  <2>3. \A k \in DOMAIN refusals : refusals[k] = Refusal(Refused[k])
    OBVIOUS
  <2>4. refusals \in [1 .. Len(Refused) -> X]
    <3>1. DOMAIN refusals = 1 .. Len(Refused) /\ refusals = [k \in DOMAIN refusals |-> refusals[k]]
      BY <2>1
    <3>2. Range(refusals) \subseteq X
      <4>. HIDE DEF refusals
      <4>. QED
        OBVIOUS
    <3>. HIDE DEF refusals, X
    <3>. QED
      BY <3>1, <3>2 DEF Range
  <2>. HIDE DEF X, refusals
  <2>. QED
    BY <2>1, <2>2, <2>3, <2>4
<1>. HIDE DEF seqs, X, refusals
<1>6. /\ steps \in Seq(X)
      /\ \A n \in DOMAIN steps : \E i \in DOMAIN seqs :
             \E k \in DOMAIN seqs[i] : steps[n] = seqs[i][k]
      /\ \A i \in DOMAIN seqs : \A k \in DOMAIN seqs[i] :
             \E n \in DOMAIN steps : steps[n] = seqs[i][k]
  BY <1>4, FlattenedRange
<1>. HIDE DEF steps
<1>. DEFINE events == steps \o refusals
<1>7. /\ events \in Seq(X)
      /\ \A n \in DOMAIN events : \/ \E k \in DOMAIN steps : events[n] = steps[k]
                                  \/ \E k \in DOMAIN refusals : events[n] = refusals[k]
      /\ \A k \in DOMAIN steps : \E n \in DOMAIN events : events[n] = steps[k]
  <2>1. Joined(events, steps, refusals, X)
    BY <1>5, <1>6, ConcatIs
  <2>. QED
    BY <2>1 DEF Joined
<1>. HIDE DEF events
<1>8. events \in Seq(Range(events))
  <2>1. events \in [1 .. Len(events) -> Range(events)] /\ Len(events) \in Nat
    BY <1>7 DEF Range
  <2>. QED
    BY <2>1
<1>9. ASSUME NEW n \in DOMAIN events
      PROVE  /\ WellMade(events[n], phase)
             /\ events[n].activity = "task_admission_refused" =>
                    \E i \in DOMAIN plan : /\ plan[i].phase = phase /\ ~Composes(t, plan[i])
                                           /\ Decided(events[n], "task_admission_refused", plan[i])
  <2>1. CASE \E k \in DOMAIN refusals : events[n] = refusals[k]
    BY <1>5, <2>1
  <2>2. ASSUME NEW i \in DOMAIN plan, NEW k \in DOMAIN own(i), events[n] = own(i)[k]
        PROVE  /\ WellMade(events[n], phase)
               /\ events[n].activity = "task_admission_refused" =>
                      \E j \in DOMAIN plan : /\ plan[j].phase = phase /\ ~Composes(t, plan[j])
                                             /\ Decided(events[n], "task_admission_refused", plan[j])
    BY <1>3, <2>2
  <2>3. ASSUME NEW k \in DOMAIN steps, events[n] = steps[k]
        PROVE  \E i \in DOMAIN plan : \E l \in DOMAIN own(i) : events[n] = own(i)[l]
    <3>1. PICK i \in DOMAIN seqs : \E l \in DOMAIN seqs[i] : steps[k] = seqs[i][l]
      BY <1>6
    <3>. QED
      BY <1>4, <2>3, <3>1
  <2>. QED
    BY <1>7, <2>1, <2>2, <2>3
<1>10. ASSUME NEW i \in DOMAIN plan, plan[i].phase = phase, Composes(t, plan[i])
       PROVE  \E n \in DOMAIN events : Decided(events[n], "task_composed", plan[i])
  <2>1. PICK k \in DOMAIN own(i) : Decided(own(i)[k], "task_composed", plan[i])
    BY <1>3, <1>10
  <2>2. \E n \in DOMAIN events : events[n] = own(i)[k]
    BY <1>4, <1>6, <1>7
  <2>. QED
    BY <2>1, <2>2
<1>11. DecisionsOf(events, t, phase)
  BY <1>8, <1>9, <1>10 DEF DecisionsOf, plan
<1>. QED
  BY <1>1, <1>11 DEF events

-----------------------------------------------------------------------------
(* A log, as it is written and as it is sealed.                             *)

\* Sound, of one phase, and sealed at most by its last event.
GoodDoc(doc, phase) ==
    /\ StructureSound(doc)
    /\ \E R : DocOf(doc, R)
    /\ \A i \in DOMAIN doc.events :
           /\ doc.events[i].phase \in {phase, None}
           /\ doc.events[i].type \in SealTypes =>
                  i = Len(doc.events) /\ doc.events[i].rels = <<RunOf(phase)>>

\* Related to one object under a qualifier, and to no other.
Refers(e, q, x) ==
    /\ <<x, q>> \in Keys(e.rels)
    /\ \A key \in Keys(e.rels) : key[2] = q => key[1] = x
Composition(e, s) == e.type = "task_composed" /\ Refers(e, "generator", s.task)

\* A refusal names a module that is there, and what would be composed was.
Tells(doc, phase, t) ==
    LET plan == PlanOf(t["task"]) IN
    /\ \A n \in DOMAIN doc.events : doc.events[n].type = "task_admission_refused" =>
           \E m \in Modules : t[m] # Gone /\ Refers(doc.events[n], "subject", m)
    /\ \A i \in DOMAIN plan : plan[i].phase = phase /\ Composes(t, plan[i]) =>
           \E n \in DOMAIN doc.events : Composition(doc.events[n], plan[i])

\* An event of the document refers as the task's event does.
LEMMA DecidedRefers ==
    ASSUME NEW e, NEW s, NEW phase,
           Keys(e.rels) = {<<s.subject, "subject">>, <<s.task, "generator">>}
                          \cup {<<phase, "run">>}
    PROVE  Refers(e, "subject", s.subject) /\ Refers(e, "generator", s.task)
<1>1. \A key \in Keys(e.rels) :
          \/ key[1] = s.subject /\ key[2] = "subject"
          \/ key[1] = s.task /\ key[2] = "generator"
          \/ key[1] = phase /\ key[2] = "run"
  OBVIOUS
<1>2. <<s.subject, "subject">> \in Keys(e.rels) /\ <<s.task, "generator">> \in Keys(e.rels)
  OBVIOUS
<1>. QED
  BY <1>1, <1>2 DEF Refers

\* The log igniter/1 writes over a tree is good, unsealed, and tells the tree.
LEMMA WrittenIs ==
    ASSUME NEW t, NEW phase \in Phases
    PROVE  LET doc == Document(Decisions(t, phase), RunOf(phase)) IN
           GoodDoc(doc, phase) /\ ~Sealed(doc) /\ Tells(doc, phase, t)
<1>. DEFINE events == Decisions(t, phase)
            run == RunOf(phase)
            doc == Document(events, run)
            plan == PlanOf(t["task"])
            R == {run} \cup UNION {Range(events[i].objects) : i \in DOMAIN events}
<1>1. DecisionsOf(events, t, phase)
  BY DecisionsAre
<1>. HIDE DEF events
<1>2. /\ events \in Seq(Range(events))
      /\ \A n \in DOMAIN events :
             /\ WellMade(events[n], phase)
             /\ events[n].activity = "task_admission_refused" =>
                    \E i \in DOMAIN plan : ~Composes(t, plan[i])
                         /\ Decided(events[n], "task_admission_refused", plan[i])
      /\ \A i \in DOMAIN plan : plan[i].phase = phase /\ Composes(t, plan[i]) =>
             \E n \in DOMAIN events : Decided(events[n], "task_composed", plan[i])
  BY <1>1 DEF DecisionsOf
<1>3. run.object = phase /\ run.qualifier = "run"
      /\ run = [object |-> run.object, qualifier |-> run.qualifier, type |-> run.type]
  BY DEF RunOf
<1>. HIDE DEF run, plan
<1>4. Relations(R)
  BY <1>2, <1>3 DEF WellMade, Relations
<1>5. run \in R /\ \A i \in DOMAIN events : events[i].objects \in Seq(R)
  <2>1. ASSUME NEW i \in DOMAIN events PROVE events[i].objects \in Seq(R)
    <3>1. Range(events[i].objects) \subseteq R
      OBVIOUS
    <3>2. events[i].objects \in Seq(Range(events[i].objects))
      BY <1>2 DEF WellMade
    <3>. DEFINE objects == events[i].objects
    <3>. HIDE DEF R, objects
    <3>. QED
      BY <3>1, <3>2, SeqMono DEF objects
  <2>. QED
    BY <2>1
<1>. HIDE DEF R
<1>6. IsDocumentOf(doc, events, run, R)
  BY <1>2, <1>5, DocumentIs
<1>. HIDE DEF doc
<1>7. /\ StructureSound(doc)
      /\ DOMAIN doc.events = DOMAIN events
      /\ doc.events \in Seq(Range(doc.events))
      /\ \A i \in DOMAIN events :
             /\ doc.events[i].type = events[i].activity /\ doc.events[i].phase = events[i].phase
             /\ doc.events[i].rels \in Seq(R)
             /\ Keys(doc.events[i].rels) = Keys(events[i].objects) \cup {<<phase, "run">>}
  BY <1>3, <1>6 DEF IsDocumentOf
<1>8. \A i \in DOMAIN events : /\ doc.events[i].phase \in {phase, None}
                               /\ doc.events[i].type \notin SealTypes
  BY <1>2, <1>7 DEF WellMade, SealTypes, Applied, Aborted
<1>9. DocOf(doc, R)
  BY <1>4, <1>7 DEF DocOf
<1>10. GoodDoc(doc, phase) /\ ~Sealed(doc)
  BY <1>7, <1>8, <1>9 DEF GoodDoc, Sealed
<1>11. ASSUME NEW n \in DOMAIN events, NEW activity, NEW s, Decided(events[n], activity, s)
       PROVE  /\ doc.events[n].type = activity
              /\ Refers(doc.events[n], "subject", s.subject)
              /\ Refers(doc.events[n], "generator", s.task)
  <2>1. Keys(doc.events[n].rels) = {<<s.subject, "subject">>, <<s.task, "generator">>}
                                   \cup {<<phase, "run">>}
    BY <1>7, <1>11 DEF Decided
  <2>2. Refers(doc.events[n], "subject", s.subject) /\ Refers(doc.events[n], "generator", s.task)
    BY <2>1, DecidedRefers
  <2>. QED
    BY <1>7, <1>11, <2>2 DEF Decided
<1>12. ASSUME NEW n \in DOMAIN events, doc.events[n].type = "task_admission_refused"
       PROVE  \E m \in Modules : t[m] # Gone /\ Refers(doc.events[n], "subject", m)
  <2>1. PICK i \in DOMAIN plan : ~Composes(t, plan[i])
                                 /\ Decided(events[n], "task_admission_refused", plan[i])
    BY <1>2, <1>7, <1>12
  <2>2. plan[i].subject \in Modules /\ t[plan[i].subject] # Gone
    BY <2>1, PlanIs DEF plan, Composes
  <2>. QED
    BY <1>11, <2>1, <2>2
<1>13. ASSUME NEW i \in DOMAIN plan, plan[i].phase = phase, Composes(t, plan[i])
       PROVE  \E n \in DOMAIN doc.events : Composition(doc.events[n], plan[i])
  <2>1. PICK n \in DOMAIN events : Decided(events[n], "task_composed", plan[i])
    BY <1>2, <1>13
  <2>2. Composition(doc.events[n], plan[i])
    BY <1>11, <2>1 DEF Composition
  <2>. QED
    BY <1>7, <2>2
<1>14. Tells(doc, phase, t)
  BY <1>7, <1>12, <1>13 DEF Tells, plan
<1>. QED
  BY <1>10, <1>14 DEF doc, events, run

\* Sealing refers as before, but to the run.
LEMMA SealedRefers ==
    ASSUME NEW a, NEW b, NEW phase, NEW q \in {"subject", "generator"}, NEW x, Refers(a, q, x),
           Keys(b.rels) = {key \in Keys(a.rels) : key[2] # "run"} \cup {<<phase, "run">>}
    PROVE  Refers(b, q, x)
<1>1. <<x, q>> \in Keys(b.rels)
  <2>1. <<x, q>>[2] # "run"
    OBVIOUS
  <2>. QED
    BY <2>1 DEF Refers
<1>2. \A key \in Keys(b.rels) : key[2] = q => key[1] = x
  BY DEF Refers
<1>. QED
  BY <1>1, <1>2 DEF Refers

\* A log that is sealed is as good as before, and tells the same.
LEMMA SealedGood ==
    ASSUME NEW phase \in Phases, NEW doc, GoodDoc(doc, phase), ~Sealed(doc), NEW exit
    PROVE  /\ GoodDoc(SealedWith(doc, phase, exit), phase)
           /\ Sealed(SealedWith(doc, phase, exit))
           /\ \A t : Tells(doc, phase, t) => Tells(SealedWith(doc, phase, exit), phase, t)
           /\ \A s : (\E n \in DOMAIN doc.events : Composition(doc.events[n], s))
                  => \E n \in DOMAIN SealedWith(doc, phase, exit).events :
                         Composition(SealedWith(doc, phase, exit).events[n], s)
<1>. DEFINE sealed == SealedWith(doc, phase, exit)
            last == Len(doc.events) + 1
<1>1. PICK R : DocOf(doc, R)
  BY DEF GoodDoc
<1>2. /\ StructureSound(sealed)
      /\ DocOf(sealed, Retyped(R, doc))
      /\ DOMAIN sealed.events = DOMAIN doc.events \cup {last}
      /\ Len(sealed.events) = last
      /\ sealed.events[last].type = (IF exit = 0 THEN Applied ELSE Aborted)
      /\ sealed.events[last].phase = None
      /\ sealed.events[last].rels = <<RunOf(phase)>>
      /\ \A i \in DOMAIN doc.events :
             /\ sealed.events[i].type = doc.events[i].type
             /\ sealed.events[i].phase = doc.events[i].phase
             /\ Keys(sealed.events[i].rels) = {key \in Keys(doc.events[i].rels) : key[2] # "run"}
                                              \cup {<<phase, "run">>}
  BY <1>1, SealedIs DEF Phases
<1>. HIDE DEF sealed, last
<1>3. \A i \in DOMAIN doc.events : /\ sealed.events[i].type \notin SealTypes
                                   /\ sealed.events[i].phase \in {phase, None}
  BY <1>2 DEF Sealed, GoodDoc
<1>4. sealed.events[last].type \in SealTypes
  BY <1>2 DEF SealTypes
<1>5. GoodDoc(sealed, phase) /\ Sealed(sealed)
  <2>1. \A i \in DOMAIN sealed.events :
           /\ sealed.events[i].phase \in {phase, None}
           /\ sealed.events[i].type \in SealTypes =>
                  i = Len(sealed.events) /\ sealed.events[i].rels = <<RunOf(phase)>>
    BY <1>2, <1>3
  <2>2. \E X : DocOf(sealed, X)
    BY <1>2
  <2>. QED
    BY <1>2, <1>4, <2>1, <2>2 DEF GoodDoc, Sealed
<1>6. ASSUME NEW s, NEW n \in DOMAIN doc.events, Composition(doc.events[n], s)
      PROVE  \E k \in DOMAIN sealed.events : Composition(sealed.events[k], s)
  <2>1. Refers(sealed.events[n], "generator", s.task)
    BY <1>2, <1>6, SealedRefers DEF Composition
  <2>. QED
    BY <1>2, <1>6, <2>1 DEF Composition
<1>7. ASSUME NEW t, Tells(doc, phase, t) PROVE Tells(sealed, phase, t)
  <2>. DEFINE plan == PlanOf(t["task"])
  <2>. HIDE DEF plan
  <2>1. ASSUME NEW n \in DOMAIN sealed.events, sealed.events[n].type = "task_admission_refused"
        PROVE  \E m \in Modules : t[m] # Gone /\ Refers(sealed.events[n], "subject", m)
    <3>1. n \in DOMAIN doc.events
      BY <1>2, <1>4, <2>1 DEF SealTypes, Applied, Aborted
    <3>2. PICK m \in Modules : t[m] # Gone /\ Refers(doc.events[n], "subject", m)
      BY <1>2, <1>7, <2>1, <3>1 DEF Tells
    <3>3. Refers(sealed.events[n], "subject", m)
      BY <1>2, <3>1, <3>2, SealedRefers
    <3>. QED
      BY <3>2, <3>3
  <2>2. \A i \in DOMAIN plan : plan[i].phase = phase /\ Composes(t, plan[i]) =>
           \E n \in DOMAIN sealed.events : Composition(sealed.events[n], plan[i])
    BY <1>6, <1>7 DEF Tells, plan
  <2>. QED
    BY <2>1, <2>2 DEF Tells, plan
<1>. QED
  BY <1>5, <1>6, <1>7 DEF sealed

-----------------------------------------------------------------------------
(* Where the logs are, and what a step does to them.                        *)

\* The logs of a phase: where the task writes it, and the copies of the runs.
LogsOf(phase) ==
    live[phase] \cup {ocel[run][phase] : run \in {r \in DOMAIN ocel : phase \in DOMAIN ocel[r]}}

ManufacturedAt(phase, run) == IF phase = "base" THEN <<9, 27, 41>>[run] ELSE <<12, 28, 42>>[run]
CopiedAt(run) == <<24, 38, 47>>[run]
Copies(at) == IF at > 47 THEN 3 ELSE IF at > 38 THEN 2 ELSE IF at > 24 THEN 1 ELSE 0

\* A run is copied when it is copied, by the phases that have a log, one each.
OcelInv ==
    /\ ocel \in Seq(Range(ocel)) /\ Len(ocel) = Copies(pos)
    /\ \A run \in DOMAIN ocel : DOMAIN ocel[run] \subseteq Phases
    /\ \A phase \in Phases : \A log \in live[phase] : live[phase] = {log}

\* Where the steps that write, seal and copy logs stand.
LEMMA LogStepsAt ==
    \A i \in 1 .. 62 : LET step == Ladder[i].step  phase == Ladder[i].phase  run == Ladder[i].run IN
        /\ step = "manufacture" => /\ phase \in Phases /\ run \in 1 .. 3
                                   /\ i = ManufacturedAt(phase, run)
        /\ step = "seal" => phase \in Phases
        /\ step = "copy-ocel" => run \in 1 .. 3 /\ i = CopiedAt(run)
  BY LadderAt DEF S, ManufacturedAt, CopiedAt, Phases

NewLog == [doc |-> Document(Decisions(tree, Here.phase), RunOf(Here.phase)), by |-> Here.run]
SealOf(log, old, phase) ==
    log.by = old.by /\ log.doc = SealedWith(old.doc, phase, compileExit[phase])

\* What a rung may do to the log of a phase.
LiveStep(phase) ==
    \/ live'[phase] = live[phase]
    \/ DayZero /\ live'[phase] = {}
    \/ Manufacture /\ Here.phase = phase /\ live'[phase] = {NewLog}
    \/ Seal /\ \E old, log : /\ live[phase] = {old} /\ ~Sealed(old.doc)
                             /\ live'[phase] = {log} /\ SealOf(log, old, phase)
LEMMA RungLiveStep ==
    ASSUME TypeInv, OcelInv, Rung, NEW phase \in Phases PROVE LiveStep(phase)
<1>1. CASE DayZero
  <2>1. live' = NoLogs \/ live' = live
    BY <1>1 DEF DayZero
  <2>. QED
    BY <1>1, <2>1 DEF LiveStep, NoLogs
<1>2. CASE Manufacture
  <2>1. live' = [live EXCEPT ![Here.phase] = {NewLog}]
    BY <1>2 DEF Manufacture, WriteLog, NewLog
  <2>. HIDE DEF NewLog
  <2>2. live'[phase] = IF phase = Here.phase THEN {NewLog} ELSE live[phase]
    BY <2>1 DEF TypeInv, LiveOK
  <2>. QED
    BY <1>2, <2>2 DEF LiveStep
<1>3. CASE Seal
  <2>. DEFINE here == Here.phase
              sealed(log) == [log EXCEPT !.doc = SealedWith(log.doc, here, compileExit[here])]
  <2>1. \/ live' = live
        \/ /\ \E log \in live[here] : ~Sealed(log.doc)
           /\ live' = [live EXCEPT ![here] = {sealed(log) : log \in live[here]}]
    BY <1>3 DEF Seal, Sealing
  <2>2. CASE live' = live \/ phase # here
    <3>. HIDE DEF here, sealed
    <3>1. live'[phase] = live[phase]
      BY <2>1, <2>2 DEF TypeInv, LiveOK
    <3>. QED
      BY <3>1 DEF LiveStep
  <2>3. CASE live' # live /\ phase = here
    <3>1. PICK old \in live[here] : ~Sealed(old.doc)
      BY <2>1, <2>3
    <3>2. live[phase] = {old} /\ old = [doc |-> old.doc, by |-> old.by]
      BY <2>3, <3>1 DEF OcelInv, TypeInv, LiveOK
    <3>3. live'[phase] = {sealed(old)}
      <4>1. live' = [live EXCEPT ![here] = {sealed(log) : log \in live[here]}]
        BY <2>1, <2>3
      <4>. HIDE DEF sealed, here
      <4>. QED
        BY <2>3, <3>2, <4>1 DEF TypeInv, LiveOK
    <3>4. SealOf(sealed(old), old, phase)
      BY <2>3, <3>2 DEF SealOf
    <3>. HIDE DEF sealed
    <3>. QED
      BY <1>3, <3>1, <3>2, <3>3, <3>4 DEF LiveStep
  <2>. QED
    BY <2>2, <2>3
<1>4. CASE ~DayZero /\ ~Manufacture /\ ~Seal
  BY <1>4, RungWrites DEF LiveStep
<1>. QED
  BY <1>1, <1>2, <1>3, <1>4

\* The logs that are copied are the ones that are there.
LEMMA LogsNowIs ==
    /\ DOMAIN LogsNow = {p \in Phases : live[p] # {}}
    /\ \A phase \in DOMAIN LogsNow : LogsNow[phase] \in live[phase]
<1>1. ASSUME NEW phase \in {p \in Phases : live[p] # {}}
      PROVE  (CHOOSE log \in live[phase] : TRUE) \in live[phase]
  BY <1>1
<1>. QED
  BY <1>1 DEF LogsNow

\* A copy is added to the copies.
LEMMA CopyIs ==
    ASSUME OcelInv, CopyOcel
    PROVE  /\ ocel' \in Seq(Range(ocel')) /\ Len(ocel') = Len(ocel) + 1
           /\ DOMAIN ocel' = DOMAIN ocel \cup {Len(ocel) + 1}
           /\ \A run \in DOMAIN ocel : ocel'[run] = ocel[run]
           /\ ocel'[Len(ocel) + 1] = LogsNow
<1>. DEFINE X == Range(ocel) \cup {LogsNow}
<1>1. ocel' = Append(ocel, LogsNow) /\ ocel \in Seq(Range(ocel))
  BY DEF CopyOcel, OcelInv
<1>2. ocel \in Seq(X) /\ LogsNow \in X
  BY <1>1, SeqMono
<1>. HIDE DEF X, LogsNow
<1>3. /\ ocel' \in Seq(X) /\ Len(ocel') = Len(ocel) + 1 /\ Len(ocel) \in Nat
      /\ DOMAIN ocel' = DOMAIN ocel \cup {Len(ocel) + 1}
      /\ \A run \in DOMAIN ocel : ocel'[run] = ocel[run]
      /\ ocel'[Len(ocel) + 1] = LogsNow
  BY <1>1, <1>2
<1>4. ocel' \in [1 .. Len(ocel') -> Range(ocel')] /\ Len(ocel') \in Nat
  BY <1>3 DEF Range
<1>5. ocel' \in Seq(Range(ocel'))
  BY <1>4
<1>. QED
  BY <1>3, <1>5

\* Where the harness is when it touches the logs.
LEMMA LogWriterAt ==
    /\ Manufacture => /\ Here.phase \in Phases /\ Here.run \in 1 .. 3
                      /\ pos = ManufacturedAt(Here.phase, Here.run)
    /\ CopyOcel => Here.run \in 1 .. 3 /\ pos = CopiedAt(Here.run)
<1>1. /\ Manufacture => pos \in 1 .. 62 /\ Ladder[pos].step = "manufacture"
      /\ CopyOcel => pos \in 1 .. 62 /\ Ladder[pos].step = "copy-ocel"
  BY LadderAt DEF Manufacture, CopyOcel, At, Here
<1>. QED
  BY <1>1, LogStepsAt DEF Here

\* Every step keeps the shape of the logs.
LEMMA NextOcel == ASSUME LedgerInv, TypeInv, OcelInv, Next PROVE OcelInv'
<1>1. CASE Rung
  <2>1. pos' = pos + 1 /\ pos \in 1 .. 60
    BY <1>1, RungPos
  <2>2. \A phase \in Phases : \A log \in live'[phase] : live'[phase] = {log}
    <3>1. ASSUME NEW phase \in Phases PROVE \A log \in live'[phase] : live'[phase] = {log}
      <4>. HIDE DEF NewLog
      <4>. QED
        BY <1>1, RungLiveStep DEF LiveStep, OcelInv
    <3>. QED
      BY <3>1
  <2>3. /\ ocel' \in Seq(Range(ocel')) /\ Len(ocel') = Copies(pos')
        /\ \A run \in DOMAIN ocel' : DOMAIN ocel'[run] \subseteq Phases
    <3>1. CASE CopyOcel
      <4>1. pos \in {24, 38, 47}
        BY <3>1, WriterAt
      <4>2. Copies(pos') = Copies(pos) + 1
        BY <2>1, <4>1 DEF Copies
      <4>. QED
        BY <3>1, <4>2, CopyIs, LogsNowIs DEF OcelInv
    <3>2. CASE ~CopyOcel
      <4>1. ocel' = ocel
        BY <1>1, <3>2, RungWrites
      <4>2. pos \notin {24, 38, 47}
        <5>1. pos \in {24, 38, 47} => Here.step = "copy-ocel"
          BY LadderAt DEF Here, S
        <5>2. Here.step # "copy-ocel"
          BY <1>1, <3>2 DEF Rung, At, Observe, DayZero, Sync, DriftCheck, ManufactureFails,
                 Manufacture, Compile, Isolate, Seal, Codegen, Setup, Fingerprint,
                 DbNondegenerate, DiffStep, TreeHash, Check, GuardCase, Import, DriftReport
        <5>. QED
          BY <5>1, <5>2
      <4>3. Copies(pos') = Copies(pos)
        BY <2>1, <4>2 DEF Copies
      <4>. QED
        BY <4>1, <4>3 DEF OcelInv
    <3>. QED
      BY <3>1, <3>2
  <2>. QED
    BY <2>2, <2>3 DEF OcelInv, Copies
<1>2. CASE ConformanceStep \/ WriteReceipt \/ Interrupt \/ ReceiptByHand
  <2>1. UNCHANGED <<live, ocel>> /\ (pos' = pos \/ (pos > 60 /\ pos' > 60))
    BY <1>2, JudgedPos
  <2>2. pos \in Int /\ pos' \in Int
    <3>1. pos \in 1 .. 63
      BY LadderAt DEF LedgerInv, LedgerType, LastRow
    <3>. QED
      BY <1>2, <3>1, JudgedPos
  <2>3. Copies(pos') = Copies(pos)
    BY <2>1, <2>2 DEF Copies
  <2>. QED
    BY <2>1, <2>3 DEF OcelInv, Copies
<1>. QED
  BY <1>1, <1>2 DEF Next, Rung

\* Nothing is copied to begin with, and a phase has one log at most.
LEMMA InitOcel == Init => OcelInv
<1>. SUFFICES ASSUME Init PROVE OcelInv
  OBVIOUS
<1>1. ocel = <<>> /\ pos = 1
  BY DEF Init
<1>2. ASSUME NEW phase \in Phases PROVE \A log \in live[phase] : live[phase] = {log}
  <2>1. CASE live = NoLogs
    BY <2>1 DEF NoLogs
  <2>2. ASSUME NEW task, live = [p \in Phases |-> LeftoverLog(task, p)]
        PROVE  \A log \in live[phase] : live[phase] = {log}
    BY <2>2 DEF LeftoverLog
  <2>. QED
    BY <2>1, <2>2 DEF Init
<1>3. ocel \in Seq(Range(ocel)) /\ Len(ocel) = 0 /\ DOMAIN ocel = {}
  BY <1>1
<1>. QED
  BY <1>1, <1>2, <1>3 DEF OcelInv, Copies

\* The invariant of the copies.
THEOREM OcelInvariant == Spec => []OcelInv
<1>1. LedgerInv /\ TypeInv /\ OcelInv /\ [Next]_vars => OcelInv'
  <2>1. ASSUME OcelInv, UNCHANGED vars PROVE OcelInv'
    BY <2>1 DEF vars, fixture, evidence, OcelInv, Copies
  <2>. QED
    BY <2>1, NextOcel
<1>. QED
  BY <1>1, InitOcel, LedgerInvariant, TypeInvariant, PTL DEF Spec

-----------------------------------------------------------------------------
(* The logs are sound, and sealed once.                                     *)

\* Where a log of the next state is from.
LogFrom(log, phase) ==
    \/ log \in LogsOf(phase)
    \/ Manufacture /\ Here.phase = phase /\ log = NewLog
    \/ Seal /\ \E old \in live[phase] : ~Sealed(old.doc) /\ SealOf(log, old, phase)
LEMMA NextLogs ==
    ASSUME LedgerInv, TypeInv, OcelInv, Next, NEW phase \in Phases,
           NEW log, log \in LogsOf(phase)'
    PROVE  LogFrom(log, phase)
<1>. HIDE DEF NewLog
<1>1. CASE Rung
  <2>1. CASE log \in live'[phase]
    BY <1>1, <2>1, RungLiveStep DEF LiveStep, LogFrom, LogsOf
  <2>2. ASSUME NEW run \in DOMAIN ocel', phase \in DOMAIN ocel'[run], log = ocel'[run][phase]
        PROVE  log \in LogsOf(phase)
    <3>1. CASE ocel' = ocel
      BY <2>2, <3>1 DEF LogsOf
    <3>2. CASE CopyOcel
      <4>1. CASE run \in DOMAIN ocel
        BY <2>2, <3>2, <4>1, CopyIs DEF LogsOf
      <4>2. CASE run \notin DOMAIN ocel
        BY <2>2, <3>2, <4>2, CopyIs, LogsNowIs DEF LogsOf
      <4>. QED
        BY <4>1, <4>2
    <3>. QED
      BY <1>1, <3>1, <3>2, RungWrites
  <2>. QED
    BY <2>1, <2>2 DEF LogsOf, LogFrom
<1>2. CASE ConformanceStep \/ WriteReceipt \/ Interrupt \/ ReceiptByHand
  <2>1. live' = live /\ ocel' = ocel
    BY <1>2, JudgedPos
  <2>. QED
    BY <2>1 DEF LogsOf, LogFrom
<1>. QED
  BY <1>1, <1>2 DEF Next, Rung

LogsInv == \A phase \in Phases : \A log \in LogsOf(phase) : GoodDoc(log.doc, phase)

\* The log an earlier qualification left is a sealed one.
LEMMA LeftoverIs ==
    ASSUME NEW task, NEW phase \in Phases, NEW log \in LeftoverLog(task, phase)
    PROVE  GoodDoc(log.doc, phase) /\ log.by = 0
<1>. DEFINE t == [DayZeroTree EXCEPT !["task"] = task]
            doc == Document(Decisions(t, phase), RunOf(phase))
<1>1. log = [doc |-> SealedWith(doc, phase, 0), by |-> 0]
  BY DEF LeftoverLog
<1>. HIDE DEF t
<1>2. GoodDoc(doc, phase) /\ ~Sealed(doc)
  BY WrittenIs
<1>. HIDE DEF doc
<1>3. GoodDoc(SealedWith(doc, phase, 0), phase)
  BY <1>2, SealedGood
<1>. QED
  BY <1>1, <1>3

\* The logs of the first state are those.
LEMMA InitLogs ==
    ASSUME Init, NEW phase \in Phases, NEW log \in LogsOf(phase)
    PROVE  GoodDoc(log.doc, phase) /\ log.by = 0
<1>1. LogsOf(phase) = live[phase]
  BY DEF LogsOf, Init
<1>2. CASE live = NoLogs
  BY <1>1, <1>2 DEF NoLogs
<1>3. ASSUME NEW task, live = [p \in Phases |-> LeftoverLog(task, p)]
      PROVE  GoodDoc(log.doc, phase) /\ log.by = 0
  <2>1. log \in LeftoverLog(task, phase)
    BY <1>1, <1>3
  <2>. QED
    BY <2>1, LeftoverIs
<1>. QED
  BY <1>2, <1>3 DEF Init

\* Every log there is, and every copy, is as good as it was written.
THEOREM LogsInvariant == Spec => []LogsInv
<1>1. Init => LogsInv
  BY InitLogs DEF LogsInv
<1>2. ASSUME LedgerInv, TypeInv, OcelInv, LogsInv, Next PROVE LogsInv'
  <2>1. ASSUME NEW phase \in Phases, NEW log, log \in LogsOf(phase)'
        PROVE  GoodDoc(log.doc, phase)
    <3>1. LogFrom(log, phase)
      BY <1>2, <2>1, NextLogs
    <3>2. CASE log \in LogsOf(phase)
      BY <1>2, <3>2 DEF LogsInv
    <3>3. CASE Here.phase = phase /\ log = NewLog
      BY <3>3, WrittenIs DEF NewLog
    <3>4. CASE \E old \in live[phase] : ~Sealed(old.doc) /\ SealOf(log, old, phase)
      <4>1. PICK old \in live[phase] : ~Sealed(old.doc) /\ SealOf(log, old, phase)
        BY <3>4
      <4>2. GoodDoc(old.doc, phase)
        BY <1>2 DEF LogsInv, LogsOf
      <4>3. GoodDoc(SealedWith(old.doc, phase, compileExit[phase]), phase)
        BY <4>1, <4>2, SealedGood
      <4>. QED
        BY <4>1, <4>3 DEF SealOf
    <3>. HIDE DEF NewLog
    <3>. QED
      BY <3>1, <3>2, <3>3, <3>4 DEF LogFrom
  <2>. QED
    BY <2>1 DEF LogsInv
<1>3. LedgerInv /\ TypeInv /\ OcelInv /\ LogsInv /\ [Next]_vars => LogsInv'
  <2>1. ASSUME LogsInv, UNCHANGED vars PROVE LogsInv'
    BY <2>1 DEF vars, fixture, evidence, LogsInv, LogsOf
  <2>. QED
    BY <1>2, <2>1
<1>. QED
  BY <1>1, <1>3, LedgerInvariant, TypeInvariant, OcelInvariant, PTL DEF Spec

\* Every log that is written, sealed or copied is a closed graph of objects,
\* whatever the plan and however often it is sealed and copied.
THEOREM LogsAreSound == Spec => []LogsSound
<1>1. OcelInv /\ LogsInv => LogsSound
  BY DEF OcelInv, LogsInv, LogsOf, GoodDoc, LogsSound
<1>. QED
  BY <1>1, OcelInvariant, LogsInvariant, PTL

\* A log is sealed by its last event, which is related to its run and no more.
THEOREM SealedOnceOnly == Spec => []SealedOnce
<1>1. LogsInv => SealedOnce
  <2>. SUFFICES ASSUME LogsInv, NEW phase \in Phases, NEW log \in live[phase],
                       OfType(log.doc.events, SealTypes) # {}
                PROVE  /\ OfType(log.doc.events, SealTypes) = {Len(log.doc.events)}
                       /\ log.doc.events[Len(log.doc.events)].rels = <<RunOf(phase)>>
                       /\ log.doc.events[Len(log.doc.events)].type \in log.doc.eventTypes
    BY DEF SealedOnce
  <2>1. GoodDoc(log.doc, phase)
    BY DEF LogsInv, LogsOf
  <2>2. PICK i \in DOMAIN log.doc.events : log.doc.events[i].type \in SealTypes
    BY DEF OfType
  <2>3. i = Len(log.doc.events) /\ log.doc.events[i].rels = <<RunOf(phase)>>
    BY <2>1, <2>2 DEF GoodDoc
  <2>4. log.doc.events[i].type \in log.doc.eventTypes
    BY <2>1 DEF GoodDoc, StructureSound
  <2>5. OfType(log.doc.events, SealTypes) = {i}
    BY <2>1, <2>2, <2>3 DEF GoodDoc, OfType
  <2>. QED
    BY <2>3, <2>4, <2>5
<1>. QED
  BY <1>1, LogsInvariant, PTL

-----------------------------------------------------------------------------
(* What the logs of this qualification say of the tree.                     *)

Made == {"v1", "v2"}

\* What is applied never removes a module, or touches the task.
LEMMA WithSubjectsModules ==
    ASSUME TreeOK, NEW subjects \in SUBSET Modules
    PROVE  /\ WithSubjects(subjects)["task"] = tree["task"]
           /\ \A m \in Modules :
                  /\ tree[m] # Gone => WithSubjects(subjects)[m] = tree[m]
                  /\ m \notin subjects => WithSubjects(subjects)[m] = tree[m]
<1>1. WithSubjects(subjects)["task"] = tree["task"]
  BY PathsDiffer DEF WithSubjects, Envs
<1>2. ASSUME NEW m \in Modules PROVE m \in Paths /\ m \notin Envs
  BY PathsDiffer
<1>. QED
  BY <1>1, <1>2 DEF WithSubjects

\* Only a manufacture run makes a module, one that it composes.
LEMMA ManufactureModules ==
    ASSUME TreeOK, Manufacture
    PROVE  /\ tree'["task"] = tree["task"]
           /\ \A m \in Modules : tree[m] # Gone => tree'[m] # Gone
           /\ \A m \in Modules : tree'[m] \in Made =>
                  tree[m] \in Made \/ m \in ComposedSubjects(Here.phase)
<1>. DEFINE subjects == ComposedSubjects(Here.phase)
<1>1. subjects \in SUBSET Modules
  BY DEF ComposedSubjects
<1>. HIDE DEF subjects
<1>2. \/ tree' = tree
      \/ \E applied \in SUBSET subjects : tree' = WithSubjects(applied)
      \/ \E p \in subjects : tree' = [WithSubjects(subjects) EXCEPT ![p] = "v2"]
  BY DEF Manufacture, subjects
<1>3. CASE tree' = tree
  BY <1>3
<1>4. ASSUME NEW applied \in SUBSET subjects, tree' = WithSubjects(applied)
      PROVE  /\ tree'["task"] = tree["task"]
             /\ \A m \in Modules : tree[m] # Gone => tree'[m] # Gone
             /\ \A m \in Modules : tree'[m] \in Made => tree[m] \in Made \/ m \in subjects
  <2>1. applied \in SUBSET Modules
    BY <1>1
  <2>. QED
    BY <1>4, <2>1, WithSubjectsModules
<1>5. ASSUME NEW p \in subjects, tree' = [WithSubjects(subjects) EXCEPT ![p] = "v2"]
      PROVE  /\ tree'["task"] = tree["task"]
             /\ \A m \in Modules : tree[m] # Gone => tree'[m] # Gone
             /\ \A m \in Modules : tree'[m] \in Made => tree[m] \in Made \/ m \in subjects
  <2>1. WithSubjects(subjects) \in [Paths -> Texts] /\ p \in Modules /\ p \in Paths /\ p # "task"
    BY <1>1, WithSubjectsTree, PathsDiffer
  <2>2. /\ tree'[p] = "v2"
        /\ \A q \in Paths : q # p => tree'[q] = WithSubjects(subjects)[q]
    BY <1>5, <2>1
  <2>. QED
    BY <1>1, <2>1, <2>2, WithSubjectsModules, PathsDiffer DEF Gone
<1>. QED
  BY <1>2, <1>3, <1>4, <1>5 DEF subjects

\* After the synchronisation the task is the task, and a module stays.
LEMMA RungModules ==
    ASSUME TreeOK, Rung
    PROVE  /\ DayZero \/ Sync \/ tree'["task"] = tree["task"]
           /\ DayZero \/ \A m \in Modules : tree[m] # Gone => tree'[m] # Gone
           /\ \A m \in Modules : tree'[m] \in Made =>
                  tree[m] \in Made \/ (Manufacture /\ m \in ComposedSubjects(Here.phase))
<1>1. CASE DayZero
  <2>1. \A m \in Modules : tree'[m] = Gone \/ tree'[m] = tree[m]
    BY <1>1, PathsDiffer DEF DayZero, DayZeroTree
  <2>. QED
    BY <1>1, <2>1 DEF Made, Gone
<1>2. CASE Sync
  <2>1. tree' = tree \/ tree' = [tree EXCEPT !["task"] = "v1"]
    BY <1>2 DEF Sync
  <2>2. \A m \in Modules : tree'[m] = tree[m]
    BY <2>1, PathsDiffer DEF TreeOK
  <2>. QED
    BY <1>2, <2>2
<1>3. CASE Manufacture
  BY <1>3, ManufactureModules
<1>4. CASE Isolate
  <2>1. PICK envs \in SUBSET Envs : tree' = Isolated(envs)
    <3>1. Envs \in SUBSET Envs /\ {} \in SUBSET Envs /\ {"dev"} \in SUBSET Envs
      BY DEF Envs
    <3>. QED
      BY <1>4, <3>1 DEF Isolate
  <2>2. \A p \in Modules \cup {"task"} : tree'[p] = tree[p]
    BY <2>1, PathsDiffer DEF Isolated
  <2>. QED
    BY <2>2
<1>5. CASE Codegen
  <2>1. tree' = tree \/ \E text : tree' = [tree EXCEPT !["migration"] = text]
    BY <1>5 DEF Codegen
  <2>2. \A p \in Modules \cup {"task"} : tree'[p] = tree[p]
    BY <2>1, PathsDiffer DEF TreeOK
  <2>. QED
    BY <2>2
<1>6. CASE tree' = tree
  BY <1>6
<1>. QED
  BY <1>1, <1>2, <1>3, <1>4, <1>5, <1>6, RungWrites

\* What is told of a tree holds of the trees that come after it.
LEMMA TellsStays ==
    ASSUME NEW t, NEW u, u["task"] = t["task"], \A m \in Modules : t[m] # Gone => u[m] # Gone,
           NEW doc, NEW phase, Tells(doc, phase, t)
    PROVE  Tells(doc, phase, u)
<1>. DEFINE plan == PlanOf(t["task"])
<1>1. plan = PlanOf(u["task"])
  OBVIOUS
<1>2. \A i \in DOMAIN plan : plan[i].guarded => plan[i].subject \in Modules
  BY PlanIs
<1>. HIDE DEF plan
<1>3. \A i \in DOMAIN plan : Composes(u, plan[i]) => Composes(t, plan[i])
  BY <1>2 DEF Composes
<1>. QED
  BY <1>1, <1>3 DEF Tells, plan

\* A log of this qualification tells the tree, whatever was applied since.
TellsInv ==
    \A phase \in Phases : \A log \in LogsOf(phase) :
        log.by # 0 => pos > 9 /\ Tells(log.doc, phase, tree)

\* A rung keeps what is told, and tells the tree it is about to change.
LEMMA RungTells ==
    ASSUME LedgerInv, WorldInv, TypeInv, OcelInv, LogsInv, TellsInv, Rung PROVE TellsInv'
<1>. SUFFICES ASSUME NEW phase \in Phases, NEW log, log \in LogsOf(phase)', log.by # 0
              PROVE  pos' > 9 /\ Tells(log.doc, phase, tree)'
  BY DEF TellsInv
<1>1. pos' = pos + 1 /\ pos \in 1 .. 60
  BY RungPos
<1>2. (pos > 9 \/ Manufacture) /\ Tells(log.doc, phase, tree)
  <2>1. LogFrom(log, phase)
    BY NextLogs DEF Next, Rung
  <2>2. CASE log \in LogsOf(phase)
    BY <2>2 DEF TellsInv
  <2>3. CASE Manufacture /\ Here.phase = phase /\ log = NewLog
    BY <2>3, WrittenIs DEF NewLog
  <2>4. ASSUME NEW old \in live[phase], ~Sealed(old.doc), SealOf(log, old, phase)
        PROVE  pos > 9 /\ Tells(log.doc, phase, tree)
    <3>1. old \in LogsOf(phase) /\ old.by # 0
      BY <2>4 DEF LogsOf, SealOf
    <3>2. pos > 9 /\ Tells(old.doc, phase, tree) /\ GoodDoc(old.doc, phase)
      BY <3>1 DEF TellsInv, LogsInv
    <3>3. Tells(SealedWith(old.doc, phase, compileExit[phase]), phase, tree)
      BY <2>4, <3>2, SealedGood
    <3>. QED
      BY <2>4, <3>2, <3>3 DEF SealOf
  <2>. HIDE DEF NewLog
  <2>. QED
    BY <2>1, <2>2, <2>3, <2>4 DEF LogFrom
<1>3. pos > 8
  BY <1>1, <1>2, WriterAt
<1>4. tree'["task"] = tree["task"] /\ \A m \in Modules : tree[m] # Gone => tree'[m] # Gone
  BY <1>1, <1>3, RungModules, WriterAt DEF WorldInv
<1>5. pos' > 9
  BY <1>1, <1>3
<1>6. Tells(log.doc, phase, tree')
  BY <1>2, <1>4, TellsStays
<1>. QED
  BY <1>5, <1>6 DEF Tells, Refers, Keys, Composition, Composes, PlanOf

\* The verdict, the receipt and an interrupt leave the logs and the tree.
LEMMA JudgedLogs ==
    ASSUME LedgerInv, ConformanceStep \/ WriteReceipt \/ Interrupt \/ ReceiptByHand
    PROVE  /\ UNCHANGED <<tree, live, ocel, rows>>
           /\ pos \in 1 .. 63 /\ pos' \in 1 .. 63 /\ (pos' = pos \/ (pos > 60 /\ pos' > 60))
           /\ \A phase : LogsOf(phase)' = LogsOf(phase)
<1>1. pos \in 1 .. 63
  BY LadderAt DEF LedgerInv, LedgerType, LastRow
<1>. QED
  BY <1>1, JudgedPos DEF LogsOf

\* The logs tell the tree.
THEOREM TellsInvariant == Spec => []TellsInv
<1>1. Init => TellsInv
  BY InitLogs DEF TellsInv
<1>2. ASSUME LedgerInv, TellsInv, ConformanceStep \/ WriteReceipt \/ Interrupt \/ ReceiptByHand
      PROVE  TellsInv'
  <2>1. /\ tree' = tree /\ (pos > 9 => pos' > 9)
        /\ \A phase : LogsOf(phase)' = LogsOf(phase)
    BY <1>2, JudgedLogs
  <2>. QED
    BY <1>2, <2>1 DEF TellsInv
<1>3. LedgerInv /\ WorldInv /\ TypeInv /\ OcelInv /\ LogsInv /\ TellsInv /\ [Next]_vars => TellsInv'
  <2>1. ASSUME TellsInv, UNCHANGED vars PROVE TellsInv'
    BY <2>1 DEF vars, fixture, evidence, TellsInv, LogsOf
  <2>. QED
    BY <1>2, <2>1, RungTells DEF Next, Rung
<1>. QED
  BY <1>1, <1>3, LedgerInvariant, WorldInvariant, TypeInvariant, OcelInvariant, LogsInvariant,
     PTL DEF Spec

-----------------------------------------------------------------------------
(* Whose work a module is.                                                  *)

\* The log of run 1 has the step that made the module.
MadeBy(m, s) ==
    /\ s.subject = m /\ s.phase \in Phases /\ pos > ManufacturedAt(s.phase, 1)
    /\ \A log \in LogsOf(s.phase) : log.by = 1 =>
           \E n \in DOMAIN log.doc.events : Composition(log.doc.events[n], s)
MadeInv ==
    \A m \in Modules : tree[m] \in Made =>
        \E s \in Range(PlanOf(tree["task"])) : MadeBy(m, s)

\* A manufacture run is the first of its phase, or comes after it.
LEMMA ManufactureOrder ==
    ASSUME NEW phase \in Phases, NEW run \in 1 .. 3
    PROVE  /\ ManufacturedAt(phase, run) \in 9 .. 42 /\ ManufacturedAt(phase, 1) >= 9
           /\ run = 1 <=> ManufacturedAt(phase, run) <= ManufacturedAt(phase, 1)
           /\ ManufacturedAt(phase, run) < CopiedAt(run) /\ CopiedAt(run) \in 24 .. 47
           /\ \A other \in 1 .. 3 : ~(/\ ManufacturedAt(phase, run) < ManufacturedAt(phase, other)
                                      /\ ManufacturedAt(phase, other) < CopiedAt(run))
  BY DEF ManufacturedAt, CopiedAt, Phases

\* What it takes to have made a module after a step.
LEMMA MadeNext ==
    ASSUME NEW m, NEW s, s.subject = m, s.phase \in Phases, pos' > ManufacturedAt(s.phase, 1),
           \A log \in LogsOf(s.phase)' : log.by = 1 =>
               \E n \in DOMAIN log.doc.events : Composition(log.doc.events[n], s)
    PROVE  MadeBy(m, s)'
<1>. DEFINE here(log) == \E n \in DOMAIN log.doc.events : Composition(log.doc.events[n], s)
<1>1. (pos > ManufacturedAt(s.phase, 1))'
  BY DEF ManufacturedAt
<1>2. (\A log \in LogsOf(s.phase) : log.by = 1 => here(log))'
  BY DEF Composition, Refers, Keys
<1>. QED
  BY <1>1, <1>2 DEF MadeBy

\* What made a module is in the logs of run 1 that come later.
LEMMA MadeStays ==
    ASSUME LedgerInv, TypeInv, OcelInv, LogsInv, Rung, NEW m, NEW s, MadeBy(m, s)
    PROVE  MadeBy(m, s)'
<1>1. pos' = pos + 1 /\ pos \in 1 .. 60
  BY RungPos
<1>2. ASSUME NEW log, log \in LogsOf(s.phase)', log.by = 1
      PROVE  \E n \in DOMAIN log.doc.events : Composition(log.doc.events[n], s)
  <2>1. LogFrom(log, s.phase)
    BY <1>2, NextLogs DEF Next, Rung, MadeBy
  <2>2. CASE log \in LogsOf(s.phase)
    BY <1>2, <2>2 DEF MadeBy
  <2>3. CASE Manufacture /\ Here.phase = s.phase /\ log = NewLog
    <3>1. Here.run = 1
      BY <1>2, <2>3 DEF NewLog
    <3>2. pos = ManufacturedAt(s.phase, 1)
      BY <2>3, <3>1, LogWriterAt
    <3>. QED
      BY <1>1, <3>2 DEF MadeBy
  <2>4. ASSUME NEW old \in live[s.phase], ~Sealed(old.doc), SealOf(log, old, s.phase)
        PROVE  \E n \in DOMAIN log.doc.events : Composition(log.doc.events[n], s)
    <3>1. old \in LogsOf(s.phase) /\ old.by = 1
      BY <1>2, <2>4 DEF LogsOf, SealOf
    <3>2. GoodDoc(old.doc, s.phase) /\ s.phase \in Phases
      BY <3>1 DEF LogsInv, MadeBy
    <3>3. \E n \in DOMAIN old.doc.events : Composition(old.doc.events[n], s)
      BY <3>1 DEF MadeBy
    <3>4. \E n \in DOMAIN SealedWith(old.doc, s.phase, compileExit[s.phase]).events :
              Composition(SealedWith(old.doc, s.phase, compileExit[s.phase]).events[n], s)
      BY <2>4, <3>2, <3>3, SealedGood
    <3>. QED
      BY <2>4, <3>4 DEF SealOf
  <2>. HIDE DEF NewLog
  <2>. QED
    BY <2>1, <2>2, <2>3, <2>4 DEF LogFrom
<1>3. /\ ManufacturedAt(s.phase, 1) \in Int /\ pos > ManufacturedAt(s.phase, 1)
      /\ s.subject = m /\ s.phase \in Phases
  BY ManufactureOrder DEF MadeBy
<1>4. pos' > ManufacturedAt(s.phase, 1)
  BY <1>1, <1>3
<1>. QED
  BY <1>2, <1>3, <1>4, MadeNext

\* What is made is in the log that was written before it was applied.
LEMMA MakingIsLogged ==
    ASSUME LedgerInv, WorldInv, TypeInv, OcelInv, LogsInv, TellsInv, Manufacture,
           NEW phase \in Phases, Here.phase = phase,
           NEW s \in Range(PlanOf(tree["task"])), s.phase = phase, Composes(tree, s)
    PROVE  MadeBy(s.subject, s)'
<1>1. Here.run \in 1 .. 3 /\ pos = ManufacturedAt(phase, Here.run)
  BY LogWriterAt
<1>2. pos' = pos + 1 /\ pos \in 1 .. 60
  BY RungPos DEF Rung
<1>3. pos' > ManufacturedAt(phase, 1)
  BY <1>1, <1>2, ManufactureOrder
<1>4. \A doc : Tells(doc, phase, tree) => \E n \in DOMAIN doc.events : Composition(doc.events[n], s)
  BY DEF Tells, Range
<1>5. ASSUME NEW log, log \in LogsOf(phase)', log.by = 1
      PROVE  Tells(log.doc, phase, tree)
  <2>1. LogFrom(log, phase)
    BY <1>5, NextLogs DEF Next
  <2>2. CASE log \in LogsOf(phase)
    BY <1>5, <2>2 DEF TellsInv
  <2>3. CASE log = NewLog
    BY <2>3, WrittenIs DEF NewLog
  <2>4. ASSUME NEW old \in live[phase], ~Sealed(old.doc), SealOf(log, old, phase)
        PROVE  Tells(log.doc, phase, tree)
    <3>1. old \in LogsOf(phase) /\ old.by = 1
      BY <1>5, <2>4 DEF LogsOf, SealOf
    <3>2. Tells(old.doc, phase, tree) /\ GoodDoc(old.doc, phase)
      BY <3>1 DEF TellsInv, LogsInv
    <3>3. Tells(SealedWith(old.doc, phase, compileExit[phase]), phase, tree)
      BY <2>4, <3>2, SealedGood
    <3>. QED
      BY <2>4, <3>3 DEF SealOf
  <2>. HIDE DEF NewLog
  <2>. QED
    BY <2>1, <2>2, <2>3, <2>4 DEF LogFrom
<1>6. \A log \in LogsOf(phase)' : log.by = 1 =>
          \E n \in DOMAIN log.doc.events : Composition(log.doc.events[n], s)
  BY <1>4, <1>5
<1>. QED
  BY <1>3, <1>6, MadeNext

\* Each module that was made was made by a step of the plan that is logged.
LEMMA RungMade ==
    ASSUME LedgerInv, WorldInv, TypeInv, OcelInv, LogsInv, TellsInv, MadeInv, Rung PROVE MadeInv'
<1>. DEFINE plan == PlanOf(tree["task"])
<1>1. pos' = pos + 1 /\ pos \in 1 .. 60
  BY RungPos
<1>2. ASSUME NEW m \in Modules, tree'[m] \in Made
      PROVE  \E s \in Range(plan) : MadeBy(m, s)' /\ plan' = plan
  <2>1. tree[m] \in Made \/ (Manufacture /\ m \in ComposedSubjects(Here.phase))
    BY <1>2, RungModules DEF WorldInv
  <2>2. CASE tree[m] \in Made
    <3>1. PICK s \in Range(plan) : MadeBy(m, s)
      BY <2>2 DEF MadeInv
    <3>2. MadeBy(m, s)'
      BY <3>1, MadeStays
    <3>3. pos > 5
      BY <1>1, <3>1, ManufactureOrder DEF MadeBy
    <3>4. tree'["task"] = tree["task"]
      BY <1>1, <3>3, RungModules, WriterAt DEF WorldInv
    <3>. QED
      BY <3>2, <3>4
  <2>3. CASE Manufacture /\ m \in ComposedSubjects(Here.phase)
    <3>1. PICK i \in DOMAIN plan : /\ plan[i].phase = Here.phase /\ Composes(tree, plan[i])
                                   /\ plan[i].subject = m
      BY <2>3 DEF ComposedSubjects
    <3>2. PICK s \in Range(plan) : s.phase = Here.phase /\ Composes(tree, s) /\ s.subject = m
      BY <3>1 DEF Range
    <3>3. s.phase \in Phases
      BY <2>3, <3>2, LogWriterAt
    <3>4. MadeBy(m, s)'
      BY <2>3, <3>2, <3>3, MakingIsLogged
    <3>5. tree'["task"] = tree["task"]
      BY <2>3, ManufactureModules DEF WorldInv
    <3>. QED
      BY <3>4, <3>5
  <2>. QED
    BY <2>1, <2>2, <2>3
<1>. QED
  BY <1>2 DEF MadeInv, Made

\* Who made the modules.
THEOREM MadeInvariant == Spec => []MadeInv
<1>1. Init => MadeInv
  <2>. SUFFICES ASSUME Init PROVE \A m \in Modules : tree[m] \notin Made
    BY DEF MadeInv
  <2>1. CASE tree = DayZeroTree
    BY <2>1, PathsDiffer DEF DayZeroTree, Made, Gone
  <2>2. ASSUME NEW task, tree = LeftoverTree(task) PROVE \A m \in Modules : tree[m] \notin Made
    BY <2>2, PathsDiffer DEF LeftoverTree, Made
  <2>. QED
    BY <2>1, <2>2 DEF Init
<1>2. ASSUME LedgerInv, MadeInv, ConformanceStep \/ WriteReceipt \/ Interrupt \/ ReceiptByHand
      PROVE  MadeInv'
  <2>1. /\ tree' = tree /\ pos \in 1 .. 63 /\ pos' \in 1 .. 63 /\ (pos' = pos \/ (pos > 60 /\ pos' > 60))
        /\ \A phase : LogsOf(phase)' = LogsOf(phase)
    BY <1>2, JudgedLogs
  <2>2. \A phase \in Phases : ManufacturedAt(phase, 1) \in 9 .. 42
    BY ManufactureOrder
  <2>3. ASSUME NEW m, NEW s, MadeBy(m, s) PROVE MadeBy(m, s)'
    <3>1. s.subject = m /\ s.phase \in Phases /\ pos' > ManufacturedAt(s.phase, 1)
      BY <2>1, <2>2, <2>3 DEF MadeBy
    <3>2. \A log \in LogsOf(s.phase)' : log.by = 1 =>
              \E n \in DOMAIN log.doc.events : Composition(log.doc.events[n], s)
      BY <2>1, <2>3 DEF MadeBy
    <3>. QED
      BY <3>1, <3>2, MadeNext
  <2>. QED
    BY <1>2, <2>1, <2>3 DEF MadeInv
<1>3. LedgerInv /\ WorldInv /\ TypeInv /\ OcelInv /\ LogsInv /\ TellsInv /\ MadeInv /\ [Next]_vars
          => MadeInv'
  <2>1. ASSUME MadeInv, UNCHANGED vars PROVE MadeInv'
    BY <2>1 DEF vars, fixture, evidence, MadeInv, MadeBy, LogsOf
  <2>. QED
    BY <1>2, <2>1, RungMade DEF Next, Rung
<1>. QED
  BY <1>1, <1>3, LedgerInvariant, WorldInvariant, TypeInvariant, OcelInvariant, LogsInvariant,
     TellsInvariant, PTL DEF Spec

-----------------------------------------------------------------------------
(* Which run wrote a log.                                                   *)

\* A manufacture run that exits 0 leaves a log of its own: it is where the
\* task writes it until the logs of the run are copied, and then in the copy.
Fresh(row) ==
    LET phase == row.label.phase  run == row.label.run IN
    row.label.step = "manufacture" /\ row.exit = 0 =>
        /\ pos <= CopiedAt(run) => \A log \in live[phase] : log.by = run
        /\ pos > CopiedAt(run) => (phase \in DOMAIN ocel[run] => ocel[run][phase].by = run)
FreshInv == \A i \in DOMAIN rows : Fresh(rows[i])

\* How many copies there are says which runs were copied.
LEMMA CopiesAt ==
    ASSUME NEW at \in 1 .. 63, NEW run \in 1 .. 3
    PROVE  /\ at > CopiedAt(run) <=> run <= Copies(at)
           /\ at = CopiedAt(run) => run = Copies(at) + 1
  BY DEF Copies, CopiedAt

\* What was written stays until it is copied, and what was copied stays.
LEMMA OldRowFresh ==
    ASSUME LedgerInv, TypeInv, OcelInv, RowsInv, Rung, NEW i \in DOMAIN rows, Fresh(rows[i])
    PROVE  rows'[i] = rows[i] /\ Fresh(rows[i])'
<1>. DEFINE row == rows[i]
<1>1. rows'[i] = row
  BY RungRow
<1>2. PICK k \in 1 .. (pos - 1) : row.label = Ladder[k]
  BY DEF RowsInv, RowOf
<1>3. pos' = pos + 1 /\ pos \in 1 .. 60 /\ k < pos /\ k \in 1 .. 62
  BY RungPos
<1>4. ASSUME NEW phase, NEW run, phase = row.label.phase, run = row.label.run,
             row.label.step = "manufacture", row.exit = 0
      PROVE  /\ pos' <= CopiedAt(run) => \A log \in live'[phase] : log.by = run
             /\ pos' > CopiedAt(run) => (phase \in DOMAIN ocel'[run] => ocel'[run][phase].by = run)
  <2>1. phase \in Phases /\ run \in 1 .. 3 /\ k = ManufacturedAt(phase, run)
    BY <1>2, <1>3, <1>4, LogStepsAt
  <2>2. /\ pos <= CopiedAt(run) => \A log \in live[phase] : log.by = run
        /\ pos > CopiedAt(run) => (phase \in DOMAIN ocel[run] => ocel[run][phase].by = run)
    BY <1>4 DEF Fresh
  <2>3. CopiedAt(run) \in 24 .. 47
    BY <2>1, ManufactureOrder
  <2>4. ASSUME pos' <= CopiedAt(run), NEW log \in live'[phase] PROVE log.by = run
    <3>1. pos < CopiedAt(run)
      BY <1>3, <2>3, <2>4
    <3>2. ~(Manufacture /\ Here.phase = phase)
      <4>1. Manufacture /\ Here.phase = phase =>
                Here.run \in 1 .. 3 /\ pos = ManufacturedAt(phase, Here.run)
        BY LogWriterAt
      <4>. QED
        BY <1>3, <2>1, <3>1, <4>1, ManufactureOrder
    <3>3. \/ live'[phase] = live[phase] \/ live'[phase] = {}
          \/ \E old : live[phase] = {old} /\ live'[phase] = {log} /\ SealOf(log, old, phase)
      <4>. HIDE DEF NewLog
      <4>1. LiveStep(phase)
        BY <2>1, RungLiveStep
      <4>. QED
        BY <2>4, <3>2, <4>1 DEF LiveStep
    <3>4. \A old \in live[phase] : old.by = run
      <4>1. pos <= CopiedAt(run)
        BY <1>3, <2>3, <3>1
      <4>. QED
        BY <2>2, <4>1
    <3>. QED
      BY <2>4, <3>3, <3>4 DEF SealOf
  <2>5. ASSUME pos' > CopiedAt(run), phase \in DOMAIN ocel'[run] PROVE ocel'[run][phase].by = run
    <3>1. CASE pos > CopiedAt(run)
      <4>1. run \in DOMAIN ocel
        <5>1. pos \in 1 .. 63
          BY <1>3
        <5>2. run <= Copies(pos)
          BY <2>1, <3>1, <5>1, CopiesAt
        <5>. QED
          BY <2>1, <5>2 DEF OcelInv
      <4>2. ocel'[run] = ocel[run]
        BY <4>1, RungWrites, CopyIs
      <4>. QED
        BY <2>2, <2>5, <3>1, <4>2
    <3>2. CASE pos = CopiedAt(run)
      <4>1. Here.step = "copy-ocel"
        BY <2>1, <3>2, LadderAt DEF Here, S, CopiedAt
      <4>2. CopyOcel
        BY <4>1 DEF Rung, At, Observe, DayZero, Sync, DriftCheck, ManufactureFails, Manufacture,
               Compile, Isolate, Seal, Codegen, Setup, Fingerprint, DbNondegenerate, DiffStep,
               TreeHash, Check, GuardCase, Import, DriftReport
      <4>3. Len(ocel) + 1 = run
        <5>1. pos \in 1 .. 63
          BY <1>3
        <5>2. run = Copies(pos) + 1
          BY <2>1, <3>2, <5>1, CopiesAt
        <5>. QED
          BY <5>2 DEF OcelInv
      <4>4. ocel'[run] = LogsNow
        BY <4>2, <4>3, CopyIs
      <4>5. ocel'[run][phase] \in live[phase]
        <5>. HIDE DEF LogsNow
        <5>. QED
          BY <2>5, <4>4, LogsNowIs
      <4>6. pos <= CopiedAt(run)
        BY <1>3, <3>2
      <4>. QED
        BY <2>2, <4>5, <4>6
    <3>. QED
      BY <1>3, <2>3, <2>5, <3>1, <3>2
  <2>. QED
    BY <2>4, <2>5
<1>5. Fresh(row)'
  BY <1>1, <1>4 DEF Fresh, CopiedAt
<1>. QED
  BY <1>1, <1>5

\* A run that exits 0 has written its log.
LEMMA NewRowFresh ==
    ASSUME LedgerInv, TypeInv, OcelInv, Rung, NEW i \in DOMAIN rows' \ DOMAIN rows
    PROVE  Fresh(rows[i])'
<1>1. rows \in Seq(Row) /\ rows'[i].label = Here
  BY RungRow DEF RowOf
<1>2. pos' = pos + 1 /\ pos \in 1 .. 60
  BY RungPos
<1>3. ASSUME Here.step = "manufacture", rows'[i].exit = 0
      PROVE  pos' <= CopiedAt(Here.run) /\ \A log \in live'[Here.phase] : log.by = Here.run
  <2>1. Manufacture \/ ManufactureFails
    BY <1>3 DEF Rung, At, Observe, DayZero, Sync, DriftCheck, Compile, Isolate, Seal, Codegen,
           Setup, Fingerprint, DbNondegenerate, DiffStep, TreeHash, CopyOcel, Check, GuardCase,
           Import, DriftReport
  <2>2. ~ManufactureFails
    <3>1. ASSUME ManufactureFails PROVE rows'[i].exit = 1
      <4>1. rows' = Append(rows, RowFor(1, 0))
        BY <3>1 DEF ManufactureFails, Run, RowFor
      <4>. HIDE DEF Row
      <4>2. rows'[i] = RowFor(1, 0)
        BY <1>1, <4>1
      <4>. QED
        BY <4>2 DEF RowFor
    <3>. QED
      BY <1>3, <3>1
  <2>3. Here.phase \in Phases /\ Here.run \in 1 .. 3 /\ pos = ManufacturedAt(Here.phase, Here.run)
    BY <2>1, <2>2, LogWriterAt
  <2>4. live' = [live EXCEPT ![Here.phase] = {NewLog}]
    BY <2>1, <2>2 DEF Manufacture, WriteLog, NewLog
  <2>5. NewLog.by = Here.run
    BY DEF NewLog
  <2>6. live'[Here.phase] = {NewLog}
    <3>. HIDE DEF NewLog
    <3>. QED
      BY <2>3, <2>4 DEF TypeInv, LiveOK
  <2>7. pos' <= CopiedAt(Here.run)
    BY <1>2, <2>3, ManufactureOrder
  <2>. HIDE DEF NewLog
  <2>. QED
    BY <2>5, <2>6, <2>7
<1>4. Here.step = "manufacture" => Here.run \in 1 .. 3
  <2>1. pos \in 1 .. 62
    BY <1>2
  <2>2. Ladder[pos].step = "manufacture" => Ladder[pos].run \in 1 .. 3
    BY <2>1, LogStepsAt
  <2>. QED
    BY <2>2 DEF Here
<1>5. Here.run \in 1 .. 3 => CopiedAt(Here.run) \in Int
  BY DEF CopiedAt
<1>. QED
  BY <1>1, <1>2, <1>3, <1>4, <1>5 DEF Fresh, CopiedAt

\* The log of a run that exits 0 is its own.
THEOREM FreshInvariant == Spec => []FreshInv
<1>1. Init => FreshInv
  BY DEF Init, FreshInv
<1>2. ASSUME LedgerInv, TypeInv, OcelInv, RowsInv, FreshInv, Rung PROVE FreshInv'
  <2>1. \A i \in DOMAIN rows : Fresh(rows[i])'
    BY <1>2, OldRowFresh DEF FreshInv
  <2>2. \A i \in DOMAIN rows' \ DOMAIN rows : Fresh(rows[i])'
    BY <1>2, NewRowFresh
  <2>. QED
    BY <2>1, <2>2 DEF FreshInv
<1>3. ASSUME LedgerInv, RowsInv, FreshInv, ConformanceStep \/ WriteReceipt \/ Interrupt \/ ReceiptByHand
      PROVE  FreshInv'
  <2>1. /\ UNCHANGED <<live, ocel, rows>>
        /\ pos \in 1 .. 63 /\ pos' \in 1 .. 63 /\ (pos' = pos \/ (pos > 60 /\ pos' > 60))
    BY <1>3, JudgedLogs
  <2>2. ASSUME NEW i \in DOMAIN rows PROVE Fresh(rows[i])'
    <3>1. PICK k \in 1 .. (pos - 1) : rows[i].label = Ladder[k]
      BY <1>3 DEF RowsInv, RowOf
    <3>2. k \in 1 .. 62
      BY <2>1
    <3>3. rows[i].label.step = "manufacture" => CopiedAt(rows[i].label.run) \in 24 .. 47
      BY <3>1, <3>2, LogStepsAt, ManufactureOrder
    <3>4. Fresh(rows[i])
      BY <1>3 DEF FreshInv
    <3>. QED
      BY <2>1, <3>3, <3>4 DEF Fresh, CopiedAt
  <2>. QED
    BY <2>1, <2>2 DEF FreshInv
<1>4. LedgerInv /\ TypeInv /\ OcelInv /\ RowsInv /\ FreshInv /\ [Next]_vars => FreshInv'
  <2>1. ASSUME FreshInv, UNCHANGED vars PROVE FreshInv'
    BY <2>1 DEF vars, fixture, evidence, FreshInv, Fresh
  <2>. QED
    BY <1>2, <1>3, <2>1 DEF Next, Rung
<1>. QED
  BY <1>1, <1>4, LedgerInvariant, TypeInvariant, OcelInvariant, RowsInvariant, PTL DEF Spec

-----------------------------------------------------------------------------
(* What a conformant verdict says of the tree.                              *)

PlanNow == PlanOf(tree["task"])
JudgedRun(run) == RunConformant(run, ocel[run], PlanNow, Caps, rows, Modules, Present)

\* A conformant verdict comes at the end, and what it says still holds.
LEMMA JudgedAt ==
    ASSUME LedgerInv, VerdictInv, verdict = "conformant"
    PROVE  /\ pos \in 62 .. 63
           /\ PlanNow # <<>> /\ NoLabelTwice(rows)
           /\ \A run \in {1, 2} : run \in DOMAIN ocel /\ JudgedRun(run)
<1>1. pos \in 1 .. 63 /\ (pos <= 61 => verdict = None)
  BY LadderAt DEF LedgerInv, LedgerType, Progress, LastRow
<1>2. pos \in 62 .. 63
  BY <1>1 DEF None
<1>3. ConformantNow
  BY DEF VerdictInv
<1>. QED
  BY <1>2, <1>3 DEF ConformantNow, Conformant, PlanNow, JudgedRun

\* The log a run is judged on is that of the run.
LEMMA JudgedOnItsOwn ==
    ASSUME LedgerInv, RowsInv, OcelInv, FreshInv, VerdictInv, verdict = "conformant",
           NEW run \in {1, 2}, NEW phase \in DOMAIN ocel[run]
    PROVE  phase \in Phases /\ ocel[run][phase] \in LogsOf(phase) /\ ocel[run][phase].by = run
<1>. DEFINE doc == ocel[run][phase].doc
            label == ManufactureLabel(phase, run)
<1>1. /\ pos \in 62 .. 63 /\ NoLabelTwice(rows) /\ run \in DOMAIN ocel /\ JudgedRun(run)
      /\ phase \in Phases
  BY JudgedAt DEF OcelInv
<1>2. rows # <<>>
  <2>1. Ladder[2].step \notin Rowless /\ 2 \in 1 .. (pos - 1)
    BY <1>1, LadderAt DEF S, Rowless
  <2>2. \E i \in DOMAIN rows : rows[i].label = Ladder[2]
    BY <2>1 DEF RowsInv
  <2>. QED
    BY <2>2
<1>3. SealedApplied(doc) /\ SealCorroborated(doc, label, rows)
  BY <1>1, <1>2 DEF JudgedRun, RunConformant
<1>4. label \in Labels(rows) /\ LedgerExit(rows, label) = 0
  <2>1. PICK i \in DOMAIN doc.events : doc.events[i].type \in SealTypes
    BY <1>3 DEF SealedApplied, Sealed
  <2>2. doc.events[i].type # Aborted
    BY <1>3 DEF SealedApplied, OfType
  <2>3. i \in OfType(doc.events, SealTypes)
    BY <2>1 DEF OfType
  <2>. HIDE DEF doc, label
  <2>. QED
    BY <1>3, <2>2, <2>3 DEF SealCorroborated
<1>5. PICK r \in DOMAIN rows : rows[r].label = label /\ rows[r].exit = 0
  <2>1. PICK r \in DOMAIN rows : rows[r].label = label
    BY <1>4 DEF Labels
  <2>2. IsFiniteSet(DOMAIN rows)
    <3>1. DOMAIN rows = 1 .. Len(rows) /\ Len(rows) \in Nat
      BY DEF LedgerInv, LedgerType
    <3>. QED
      BY <3>1, FS_Interval
  <2>3. IsFiniteSet(Rows(rows, label)) /\ Cardinality(Rows(rows, label)) = 1
    BY <1>1, <1>4, <2>2, FS_Subset DEF NoLabelTwice, Rows
  <2>4. Rows(rows, label) = {r}
    <3>1. PICK x : Rows(rows, label) = {x}
      BY <2>3, FS_Singleton
    <3>2. r \in Rows(rows, label)
      BY <2>1 DEF Rows
    <3>. QED
      BY <3>1, <3>2
  <2>5. r <= r
    BY DEF LedgerInv, LedgerType
  <2>6. LedgerExit(rows, label) = rows[r].exit
    BY <2>4, <2>5 DEF LedgerExit
  <2>. QED
    BY <1>4, <2>1, <2>6
<1>6. label.step = "manufacture" /\ label.phase = phase /\ label.run = run
  BY DEF ManufactureLabel
<1>7. pos > CopiedAt(run)
  BY <1>1 DEF CopiedAt
<1>8. Fresh(rows[r])
  BY DEF FreshInv
<1>9. ocel[run][phase].by = run
  BY <1>5, <1>6, <1>7, <1>8 DEF Fresh
<1>. QED
  BY <1>1, <1>9 DEF LogsOf

\* A verdict certifies a run on the log of that run, never on an older one.
THEOREM ConformantIsFresh == Spec => []ConformantLogsAreFresh
<1>1. LedgerInv /\ RowsInv /\ OcelInv /\ FreshInv /\ VerdictInv => ConformantLogsAreFresh
  BY JudgedOnItsOwn DEF ConformantLogsAreFresh
<1>. QED
  BY <1>1, LedgerInvariant, RowsInvariant, OcelInvariant, FreshInvariant, VerdictInvariant, PTL

EventsOf(run, phase) ==
    IF phase \in DOMAIN ocel[run] THEN ocel[run][phase].doc.events ELSE <<>>

\* What an event of a judged log refers to is what conformance.py reads.
LEMMA JudgedRelated ==
    ASSUME LedgerInv, RowsInv, OcelInv, LogsInv, FreshInv, VerdictInv, verdict = "conformant",
           NEW run \in {1, 2}, NEW phase \in DOMAIN ocel[run],
           NEW n \in DOMAIN ocel[run][phase].doc.events, NEW q, NEW x,
           Refers(ocel[run][phase].doc.events[n], q, x)
    PROVE  Related(ocel[run][phase].doc.events[n], q) = x
<1>1. GoodDoc(ocel[run][phase].doc, phase)
  BY JudgedOnItsOwn DEF LogsInv
<1>2. PICK R : DocOf(ocel[run][phase].doc, R)
  BY <1>1 DEF GoodDoc
<1>3. ocel[run][phase].doc.events[n].rels \in Seq(R)
  BY <1>2 DEF DocOf
<1>. QED
  BY <1>3, RelatedIs DEF Refers

\* The events of a run are those of its logs.
LEMMA RunEventsAre ==
    ASSUME LedgerInv, RowsInv, OcelInv, LogsInv, FreshInv, VerdictInv, verdict = "conformant",
           NEW run \in {1, 2}
    PROVE  /\ \A k \in DOMAIN RunEvents(ocel[run]) :
                  \E phase \in DOMAIN ocel[run] : \E n \in DOMAIN ocel[run][phase].doc.events :
                      RunEvents(ocel[run])[k] = ocel[run][phase].doc.events[n]
           /\ \A phase \in DOMAIN ocel[run] : \A n \in DOMAIN ocel[run][phase].doc.events :
                  /\ \E k \in DOMAIN RunEvents(ocel[run]) :
                         RunEvents(ocel[run])[k] = ocel[run][phase].doc.events[n]
                  /\ ocel[run][phase].doc.events[n].phase \in {phase, None}
<1>. DEFINE a == EventsOf(run, "base")
            b == EventsOf(run, "core")
            X == Range(a) \cup Range(b)
            dir == ocel[run]
<1>1. \A phase \in DOMAIN dir : phase \in Phases /\ GoodDoc(dir[phase].doc, phase)
  BY JudgedOnItsOwn DEF LogsInv
<1>2. \A phase \in DOMAIN dir : EventsOf(run, phase) = dir[phase].doc.events
  BY DEF EventsOf
<1>3. \A phase : phase \notin DOMAIN dir => EventsOf(run, phase) = <<>>
  BY DEF EventsOf
<1>4. RunEvents(dir) = a \o b
  BY DEF RunEvents, EventsOf
<1>5. \A phase : EventsOf(run, phase) \in Seq(Range(EventsOf(run, phase)))
  <2>1. ASSUME NEW phase \in DOMAIN dir
        PROVE  dir[phase].doc.events \in Seq(Range(dir[phase].doc.events))
    BY <1>1 DEF GoodDoc, DocOf
  <2>2. ASSUME NEW phase PROVE EventsOf(run, phase) \in Seq(Range(EventsOf(run, phase)))
    <3>1. CASE phase \in DOMAIN dir
      BY <1>2, <2>1, <3>1
    <3>2. CASE EventsOf(run, phase) = <<>>
      BY <3>2
    <3>. QED
      BY <1>3, <3>1, <3>2
  <2>. QED
    BY <2>2
<1>. HIDE DEF dir, a, b
<1>6. a \in Seq(X) /\ b \in Seq(X)
  BY <1>5, SeqMono DEF a, b
<1>7. Joined(RunEvents(dir), a, b, X)
  BY <1>4, <1>6, ConcatIs
<1>8. ASSUME NEW k \in DOMAIN RunEvents(dir)
      PROVE  \E phase \in DOMAIN dir : \E n \in DOMAIN dir[phase].doc.events :
                 RunEvents(dir)[k] = dir[phase].doc.events[n]
  <2>1. (\E n \in DOMAIN a : RunEvents(dir)[k] = a[n]) \/ (\E n \in DOMAIN b : RunEvents(dir)[k] = b[n])
    BY <1>7 DEF Joined
  <2>2. (DOMAIN a # {} => "base" \in DOMAIN dir) /\ (DOMAIN b # {} => "core" \in DOMAIN dir)
    BY <1>3 DEF a, b
  <2>. QED
    BY <1>2, <2>1, <2>2 DEF a, b
<1>9. ASSUME NEW phase \in DOMAIN dir, NEW n \in DOMAIN dir[phase].doc.events
      PROVE  \E k \in DOMAIN RunEvents(dir) : RunEvents(dir)[k] = dir[phase].doc.events[n]
  <2>1. phase \in {"base", "core"}
    BY <1>1 DEF Phases
  <2>. QED
    BY <1>2, <1>7, <2>1 DEF Joined, a, b
<1>10. \A phase \in DOMAIN dir : \A n \in DOMAIN dir[phase].doc.events :
           dir[phase].doc.events[n].phase \in {phase, None}
  BY <1>1 DEF GoodDoc
<1>. QED
  BY <1>8, <1>9, <1>10 DEF dir


\* Each step of the plan is decided by an event of the run.
LEMMA StepIsDecided ==
    ASSUME NEW plan, NEW events, Covered(plan, events), NEW i \in DOMAIN plan
    PROVE  \E k \in DOMAIN events : /\ events[k].type \in DecisionTypes
                                    /\ events[k].phase = plan[i].phase
                                    /\ SubjectOf(events[k]) = plan[i].subject
<1>. DEFINE key == KeyOf(plan[i].phase, plan[i].step, plan[i].subject)
            observed == {k \in OfType(events, DecisionTypes) :
                            key = KeyOf(events[k].phase, events[k].step, SubjectOf(events[k]))}
            planned == {k \in DOMAIN plan :
                            key = KeyOf(plan[k].phase, plan[k].step, plan[k].subject)}
<1>1. Cardinality(observed) \in 1 .. Cardinality(planned)
  BY DEF Covered
<1>2. observed # {}
  <2>. HIDE DEF observed, planned
  <2>1. Cardinality(observed) # 0
    BY <1>1
  <2>. QED
    BY <2>1, FS_EmptySet
<1>3. PICK k \in OfType(events, DecisionTypes) :
          key = KeyOf(events[k].phase, events[k].step, SubjectOf(events[k]))
  BY <1>2
<1>. QED
  BY <1>3 DEF OfType, KeyOf

\* A step that composed has its file, and one that was refused was refused
\* because its file was there.
LEMMA DecidedIsThere ==
    ASSUME LedgerInv, RowsInv, OcelInv, LogsInv, TellsInv, FreshInv, VerdictInv,
           verdict = "conformant", NEW run \in {1, 2}, NEW k \in DOMAIN RunEvents(ocel[run]),
           RunEvents(ocel[run])[k].type \in DecisionTypes,
           NEW m \in Modules, SubjectOf(RunEvents(ocel[run])[k]) = m
    PROVE  tree[m] # Gone
<1>. DEFINE e == RunEvents(ocel[run])[k]
<1>1. CASE e.type = "task_composed"
  <2>1. SubjectsOnDisk(RunEvents(ocel[run]), Modules, Present)
    BY JudgedAt DEF JudgedRun, RunConformant
  <2>2. k \in Composed(RunEvents(ocel[run]))
    BY <1>1 DEF Composed, OfType
  <2>3. m \in Present
    BY <2>1, <2>2 DEF SubjectsOnDisk
  <2>. QED
    BY <2>3 DEF Present
<1>2. CASE e.type = "task_admission_refused"
  <2>1. PICK phase \in DOMAIN ocel[run] : \E n \in DOMAIN ocel[run][phase].doc.events :
            e = ocel[run][phase].doc.events[n]
    BY RunEventsAre
  <2>2. PICK n \in DOMAIN ocel[run][phase].doc.events : e = ocel[run][phase].doc.events[n]
    BY <2>1
  <2>3. phase \in Phases /\ ocel[run][phase] \in LogsOf(phase) /\ ocel[run][phase].by # 0
    BY JudgedOnItsOwn
  <2>4. Tells(ocel[run][phase].doc, phase, tree)
    BY <2>3 DEF TellsInv
  <2>5. PICK p \in Modules : tree[p] # Gone /\ Refers(e, "subject", p)
    BY <1>2, <2>2, <2>4 DEF Tells
  <2>6. Related(e, "subject") = p
    <3>. DEFINE own == ocel[run][phase].doc.events[n]
    <3>1. Refers(own, "subject", p) => Related(own, "subject") = p
      BY JudgedRelated
    <3>2. e = own
      BY <2>2
    <3>. HIDE DEF e, own
    <3>. QED
      BY <2>5, <3>1, <3>2
  <2>. QED
    BY <2>5, <2>6 DEF SubjectOf
<1>. QED
  BY <1>1, <1>2 DEF DecisionTypes

\* A conformant verdict speaks of the tree, though the logs are written before
\* anything is applied: each module of the plan has its file.
THEOREM ConformantIsManufactured == Spec => []ConformantTreeIsManufactured
<1>. DEFINE Inv == /\ LedgerInv /\ RowsInv /\ OcelInv /\ LogsInv /\ TellsInv /\ FreshInv
                   /\ VerdictInv
<1>1. Inv => ConformantTreeIsManufactured
  <2>. SUFFICES ASSUME Inv, verdict = "conformant"
                PROVE  /\ PlanNow # <<>>
                       /\ \A i \in DOMAIN PlanNow :
                              PlanNow[i].subject \in Modules => tree[PlanNow[i].subject] # Gone
    BY DEF ConformantTreeIsManufactured, PlanNow
  <2>1. PlanNow # <<>> /\ Covered(PlanNow, RunEvents(ocel[2]))
    BY JudgedAt DEF JudgedRun, RunConformant
  <2>2. ASSUME NEW i \in DOMAIN PlanNow, PlanNow[i].subject \in Modules
        PROVE  tree[PlanNow[i].subject] # Gone
    <3>. DEFINE m == PlanNow[i].subject
    <3>1. PICK k \in DOMAIN RunEvents(ocel[2]) :
              /\ RunEvents(ocel[2])[k].type \in DecisionTypes
              /\ SubjectOf(RunEvents(ocel[2])[k]) = m
      BY <2>1, StepIsDecided
    <3>. HIDE DEF m
    <3>2. tree[m] # Gone
      BY <2>2, <3>1, DecidedIsThere DEF m
    <3>. QED
      BY <3>2 DEF m
  <2>. QED
    BY <2>1, <2>2
<1>. QED
  BY <1>1, LedgerInvariant, RowsInvariant, OcelInvariant, LogsInvariant, TellsInvariant,
     FreshInvariant, VerdictInvariant, PTL

\* Nothing in the tree was made through a task the ontology does not admit,
\* although neither the rendered plan nor an edited one need be of admitted
\* tasks: nothing is assumed of Plan and Caps but their types.
THEOREM ConformantIsAdmitted == Spec => []ConformantTreeIsAdmitted
<1>. DEFINE Inv == /\ LedgerInv /\ RowsInv /\ OcelInv /\ LogsInv /\ MadeInv /\ FreshInv
                   /\ VerdictInv
<1>1. Inv => ConformantTreeIsAdmitted
  <2>. SUFFICES ASSUME Inv, verdict = "conformant", NEW m \in Modules, tree[m] \in {"v1", "v2"}
                PROVE  \E i \in DOMAIN PlanNow : PlanNow[i].subject = m /\ Caps[PlanNow[i].task]
    BY DEF ConformantTreeIsAdmitted, PlanNow
  <2>1. PICK i \in DOMAIN PlanNow : MadeBy(m, PlanNow[i])
    <3>1. PICK s \in Range(PlanNow) : MadeBy(m, s)
      BY DEF MadeInv, Made, PlanNow
    <3>. QED
      BY <3>1 DEF Range
  <2>. DEFINE s == PlanNow[i]
              events == RunEvents(ocel[1])
  <2>2. s.phase \in Phases /\ s.subject = m
    BY <2>1 DEF MadeBy
  <2>3. Covered(PlanNow, events) /\ OnlyAdmittedComposed(Caps, events)
    BY JudgedAt DEF JudgedRun, RunConformant
  <2>4. s.phase \in DOMAIN ocel[1]
    <3>1. PICK k \in DOMAIN events : events[k].phase = s.phase
      BY <2>3, StepIsDecided
    <3>2. PICK phase \in DOMAIN ocel[1] : \E n \in DOMAIN ocel[1][phase].doc.events :
              events[k] = ocel[1][phase].doc.events[n]
      BY RunEventsAre
    <3>3. events[k].phase \in {phase, None}
      BY <3>2, RunEventsAre
    <3>4. s.phase # None
      BY <2>2 DEF Phases, None
    <3>. QED
      BY <3>1, <3>3, <3>4
  <2>5. ocel[1][s.phase] \in LogsOf(s.phase) /\ ocel[1][s.phase].by = 1
    BY <2>4, JudgedOnItsOwn
  <2>6. PICK n \in DOMAIN ocel[1][s.phase].doc.events :
            Composition(ocel[1][s.phase].doc.events[n], s)
    BY <2>1, <2>5 DEF MadeBy
  <2>7. PICK k \in DOMAIN events : events[k] = ocel[1][s.phase].doc.events[n]
    BY <2>4, RunEventsAre
  <2>8. events[k].type = "task_composed" /\ TaskOf(events[k]) = s.task
    <3>1. Refers(ocel[1][s.phase].doc.events[n], "generator", s.task)
              => Related(ocel[1][s.phase].doc.events[n], "generator") = s.task
      BY <2>4, JudgedRelated
    <3>. QED
      BY <2>6, <2>7, <3>1 DEF Composition, TaskOf
  <2>9. Caps[s.task]
    <3>1. k \in Composed(events)
      BY <2>8 DEF Composed, OfType
    <3>. QED
      BY <2>3, <2>8, <3>1 DEF OnlyAdmittedComposed
  <2>. QED
    BY <2>2, <2>9
<1>. QED
  BY <1>1, LedgerInvariant, RowsInvariant, OcelInvariant, LogsInvariant, MadeInvariant,
     FreshInvariant, VerdictInvariant, PTL

-----------------------------------------------------------------------------
(* What a green exit says.                                                  *)

\* The exit is green: no row is red, there is a receipt, and the verdict is
\* that the logs conform.
Green ==
    /\ pos = 63 /\ receipt # {} /\ verdict = "conformant"
    /\ \A i \in DOMAIN rows : rows[i].exit # rows[i].expected => rows[i].exit = Null
LEMMA GreenIs == ASSUME LedgerInv, VerdictInv, Finished, ~failed PROVE Green
<1>1. pos = 63
  BY LadderAt DEF Finished
<1>2. /\ \A i \in FailedRows(rows) : rows[i].exit = Null
      /\ verdict \notin {"violations", "crash"} /\ receipt # {}
  BY DEF LedgerInv, LedgerTellsFailure
<1>3. verdict = "conformant"
  BY <1>1, <1>2 DEF VerdictInv, LedgerInv, LedgerType, Verdicts
<1>. QED
  BY <1>1, <1>2, <1>3 DEF Green, FailedRows, AsExpected

\* Then each rung that is not silent has a row, as it should be.
LEMMA GreenRow ==
    ASSUME RowsInv, Green, NEW k \in 1 .. 62, Ladder[k].step \notin Rowless
    PROVE  \E i \in DOMAIN rows :
               /\ rows[i].label = Ladder[k]
               /\ Ladder[k].step # "beam4pm-import" => rows[i].exit = rows[i].expected
               /\ Ladder[k].step \notin {"guard", "beam4pm-import"} => rows[i].exit = 0
<1>1. PICK i \in DOMAIN rows : rows[i].label = Ladder[k]
  BY SMTT(20) DEF RowsInv, Green
<1>2. PICK l \in 1 .. (pos - 1) : RowOf(rows[i], Ladder[l])
  BY DEF RowsInv
<1>. QED
  BY <1>1, <1>2 DEF Green, RowOf

\* And every row of a step that is not the skipped import is as expected.
LEMMA GreenRows ==
    ASSUME RowsInv, Green, NEW i \in DOMAIN rows, rows[i].label.step # "beam4pm-import"
    PROVE  /\ rows[i].exit = rows[i].expected
           /\ rows[i].label.step # "guard" => rows[i].exit = 0
<1>1. PICK k \in 1 .. (pos - 1) : RowOf(rows[i], Ladder[k])
  BY DEF RowsInv
<1>. QED
  BY <1>1 DEF Green, RowOf

\* The captures of a green run are the same.
LEMMA GreenCaptures ==
    ASSUME RowsInv, CaptureInv, DiffInv, Green
    PROVE  ChecksClean(rows) /\ TreeFixpoint(T) /\ DbIdentical(rows, D)
<1>1. \A k \in 1 .. 62 :
          /\ Ladder[k].step = "tree-diff" => T[Ladder[k].run - 1] = T[Ladder[k].run]
          /\ Ladder[k].step = "db-diff" => D[Ladder[k].run - 1] = D[Ladder[k].run]
  <2>. SUFFICES ASSUME NEW k \in 1 .. 62, Ladder[k].step \in {"tree-diff", "db-diff"}
                PROVE  /\ Ladder[k].step = "tree-diff" => T[Ladder[k].run - 1] = T[Ladder[k].run]
                       /\ Ladder[k].step = "db-diff" => D[Ladder[k].run - 1] = D[Ladder[k].run]
    OBVIOUS
  <2>1. PICK i \in DOMAIN rows : rows[i].label = Ladder[k] /\ rows[i].exit = 0
    <3>1. Ladder[k].step \notin Rowless /\ Ladder[k].step \notin {"guard", "beam4pm-import"}
      BY DEF Rowless
    <3>. QED
      BY <3>1, GreenRow
  <2>. QED
    BY <2>1 DEF DiffInv, Certifies
<1>2. T[1] = T[2] /\ T[2] = T[3] /\ D[1] = D[2] /\ D[2] = D[3]
  <2>1. /\ Ladder[37].step = "tree-diff" /\ Ladder[37].run = 2
        /\ Ladder[52].step = "tree-diff" /\ Ladder[52].run = 3
        /\ Ladder[33].step = "db-diff" /\ Ladder[33].run = 2
        /\ Ladder[50].step = "db-diff" /\ Ladder[50].run = 3
    BY LadderAt DEF S
  <2>2. T[2 - 1] = T[2] /\ T[3 - 1] = T[3]
    BY <1>1, <2>1
  <2>3. D[2 - 1] = D[2] /\ D[3 - 1] = D[3]
    BY <1>1, <2>1
  <2>. QED
    BY <2>2, <2>3
<1>3. T[3] # {} /\ D[3] # {}
  BY DEF CaptureInv, TreeCaptures, DbCaptures, HashedAt, FingerprintAt, Green
<1>4. ASSUME NEW step \in {"check", "db-nondegenerate"}
      PROVE  /\ RowsOf(rows, {step}) # {}
             /\ \A i \in RowsOf(rows, {step}) : rows[i].exit = 0 /\ rows[i].exit = rows[i].expected
  <2>1. PICK k \in 1 .. 62 : Ladder[k].step = step
    BY LadderAt DEF S
  <2>2. \E i \in DOMAIN rows : rows[i].label = Ladder[k]
    BY <2>1, GreenRow DEF Rowless
  <2>. QED
    BY <2>1, <2>2, GreenRows DEF RowsOf
<1>. QED
  BY <1>2, <1>3, <1>4 DEF ChecksClean, TreeFixpoint, DbIdentical, Same, AllAsExpected, AsExpected

\* There are logs under a conformant verdict.
LEMMA GreenLogs ==
    ASSUME LedgerInv, RowsInv, OcelInv, LogsInv, FreshInv, VerdictInv, verdict = "conformant"
    PROVE  Logs # 0
<1>. DEFINE logs == {log \in (DOMAIN ocel) \X Phases : log[2] \in DOMAIN ocel[log[1]]}
<1>1. PlanNow # <<>> /\ Covered(PlanNow, RunEvents(ocel[1])) /\ 1 \in DOMAIN ocel
  BY JudgedAt DEF JudgedRun, RunConformant
<1>2. PICK i \in DOMAIN PlanNow : TRUE
  <2>1. PlanNow \in Seq(Range(PlanNow))
    BY PlanIs DEF PlanNow
  <2>. HIDE DEF PlanNow
  <2>2. Len(PlanNow) # 0 /\ Len(PlanNow) \in Nat /\ DOMAIN PlanNow = 1 .. Len(PlanNow)
    BY <1>1, <2>1
  <2>3. 1 \in DOMAIN PlanNow
    BY <2>2
  <2>. QED
    BY <2>3
<1>3. PICK k \in DOMAIN RunEvents(ocel[1]) : TRUE
  BY <1>1, StepIsDecided
<1>4. PICK phase \in DOMAIN ocel[1] : phase \in Phases
  BY RunEventsAre, JudgedOnItsOwn
<1>5. <<1, phase>> \in logs
  BY <1>1, <1>4
<1>6. IsFiniteSet(logs)
  <2>1. IsFiniteSet(DOMAIN ocel)
    <3>1. DOMAIN ocel = 1 .. Len(ocel) /\ Len(ocel) \in Nat
      BY DEF OcelInv
    <3>. QED
      BY <3>1, FS_Interval
  <2>2. IsFiniteSet(Phases)
    <3>1. Phases = {"base"} \cup {"core"}
      BY DEF Phases
    <3>. QED
      BY <3>1, FS_Singleton, FS_AddElement
  <2>3. IsFiniteSet((DOMAIN ocel) \X Phases)
    BY <2>1, <2>2, FS_Product
  <2>. QED
    BY <2>3, FS_Subset
<1>. HIDE DEF logs
<1>7. Cardinality(logs) # 0
  BY <1>5, <1>6, FS_EmptySet
<1>. QED
  BY <1>7 DEF Logs, logs

\* A green exit leaves a receipt on which every standing is alive.
THEOREM PassIsAlive == Spec => []PassImpliesAlive
<1>. DEFINE Inv == /\ LedgerInv /\ ReceiptInv /\ RowsInv /\ CaptureInv /\ DiffInv
                   /\ OcelInv /\ LogsInv /\ FreshInv /\ VerdictInv
<1>1. Inv => PassImpliesAlive
  <2>. SUFFICES ASSUME Inv, Finished, ~failed
                PROVE  receipt # {} /\ \A r \in receipt : \A s \in Standings : r.alive[s]
    BY DEF PassImpliesAlive
  <2>1. Green
    BY GreenIs
  <2>2. ASSUME NEW k \in {5, 9, 12, 13, 17, 21, 22}
        PROVE  Succeeded(rows, Ladder[k].step, Ladder[k].phase, Ladder[k].run)
    <3>1. k \in 1 .. 62 /\ Ladder[k].step \notin Rowless \cup {"guard", "beam4pm-import"}
          /\ Ladder[k] = S(Ladder[k].step, Ladder[k].phase, Ladder[k].run)
      BY LadderAt DEF S, Rowless
    <3>2. \E i \in DOMAIN rows : rows[i].label = Ladder[k] /\ rows[i].exit = 0
      BY <2>1, <3>1, GreenRow
    <3>. QED
      BY <3>1, <3>2 DEF Succeeded, S
  <2>3. /\ Succeeded(rows, "ggen-sync", "none", 0)
        /\ Succeeded(rows, "manufacture", "base", 1) /\ Succeeded(rows, "manufacture", "core", 1)
        /\ Succeeded(rows, "compile", "core", 1) /\ Succeeded(rows, "ash-setup", "none", 1)
        /\ Succeeded(rows, "ash-setup-test-env", "none", 1)
        /\ Succeeded(rows, "resources-execute", "none", 1)
    BY <2>2, LadderAt DEF S, None
  <2>4. AllAsExpected(rows, "guard")
    <3>1. PICK k \in 1 .. 62 : Ladder[k].step = "guard"
      BY LadderAt DEF S
    <3>2. \E i \in DOMAIN rows : rows[i].label = Ladder[k]
      BY <2>1, <3>1, GreenRow DEF Rowless
    <3>. QED
      BY <2>1, <3>1, <3>2, GreenRows DEF AllAsExpected, RowsOf, AsExpected
  <2>5. ChecksClean(rows) /\ TreeFixpoint(T) /\ DbIdentical(rows, D)
    BY <2>1, GreenCaptures
  <2>6. Logs # 0 /\ verdict = "conformant"
    BY <2>1, GreenLogs DEF Green
  <2>7. ASSUME NEW r \in receipt
        PROVE  /\ r.alive.ONTOLOGY /\ r.alive.ASH_MANUFACTURE /\ r.alive.IDEMPOTENCY
               /\ r.alive.OCEL_PROCESS /\ r.alive.AGENT_HANDWRITE_REFUSAL
               /\ r.alive.ASH_RUNTIME
    BY <2>3, <2>4, <2>5, <2>6, <2>7, AliveNow, Zenon
  <2>8. receipt # {}
    BY <2>1 DEF Green
  <2>. QED
    BY <2>7, <2>8 DEF Standings
<1>. QED
  BY <1>1, LedgerInvariant, ReceiptInvariant, RowsInvariant, CaptureInvariant, DiffsInvariant,
     OcelInvariant, LogsInvariant, FreshInvariant, VerdictInvariant, PTL
==============================================================================
