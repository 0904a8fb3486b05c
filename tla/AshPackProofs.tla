---------------------------- MODULE AshPackProofs ----------------------------
(***************************************************************************)
(* What the pack's checks promise, for every ontology, task, dependency    *)
(* and number of edits.  Behind the citation check is the type of the      *)
(* cited sources; behind the drift check, the type of the graph and of the *)
(* task, and what the template renders.                                    *)
(***************************************************************************)
EXTENDS AshPack, SequenceProofs

\* A line of a file, or the one an edit puts before the others.
Line == STRING \cup {"moved"}
Citation == [pin : STRING, file : Deps, first : Int, last : Int, symbol : STRING, read : BOOLEAN]
Pin == [dep : Deps, version : Versions]

SourcesOK ==
    /\ files \in [Deps -> SUBSET Seq(Line)]
    /\ lock \in [Deps -> Versions]
    /\ pins \in [DOMAIN pins -> Pin]
    /\ citations \subseteq Citation

\* The lines of a moved or shortened file are still lines.
LEMMA ShiftedType ==
    ASSUME NEW lines \in Seq(Line) PROVE Shifted(lines) \subseteq Seq(Line)
<1>1. <<"moved">> \o lines \in Seq(Line)
  <2>1. "moved" \in Line
    BY DEF Line
  <2>2. <<"moved">> \in Seq(Line)
    BY <2>1
  <2>. QED
    BY <2>2
<1>2. SubSeq(lines, 2, Len(lines)) \in Seq(Line)
  OBVIOUS
<1>. QED
  BY <1>1, <1>2 DEF Shifted

\* The cited sources begin as the constants say.
LEMMA InitSources == Init => SourcesOK
<1>. SUFFICES ASSUME Init PROVE SourcesOK
  OBVIOUS
<1>1. \A seq \in Seq(STRING) : seq \in Seq(Line)
  BY DEF Line
<1>2. files \in [Deps -> SUBSET Seq(Line)]
  BY <1>1, PackAssumption DEF Init
<1>3. pins \in [DOMAIN pins -> Pin]
  BY PackAssumption DEF Init, Pin
<1>. QED
  BY <1>2, <1>3, PackAssumption DEF Init, SourcesOK, Citation

\* Whatever leaves the sources alone keeps their type.
LEMMA SourcesUnchanged == ASSUME SourcesOK, UNCHANGED sources PROVE SourcesOK'
  BY DEF SourcesOK, sources

\* Edits of the ontology and of the task leave the sources alone.
LEMMA OtherEdits ==
    ASSUME \/ Sync \/ ChangeFact \/ ChangeDomain \/ ChangeResource \/ ChangeProperty
           \/ ChangeAdmission \/ ChangeEnum \/ Reformat
           \/ DropStep \/ RepeatStep \/ ForeignStep \/ RenameStep \/ RearrangeStep
           \/ AddValue \/ DropValue \/ ReorderValues \/ EditCsv
    PROVE  UNCHANGED sources
<1>1. ASSUME NEW o, EditOntology(o) PROVE UNCHANGED sources
  BY <1>1 DEF EditOntology
<1>2. ASSUME NEW steps, HandEdit(steps) PROVE UNCHANGED sources
  BY <1>2 DEF HandEdit
<1>3. CASE Sync
  BY <1>3 DEF Sync
<1>4. CASE ChangeFact \/ ChangeDomain \/ ChangeResource \/ ChangeProperty
  BY <1>1, <1>4 DEF ChangeFact, ChangeDomain, ChangeResource, ChangeProperty
<1>5. CASE ChangeAdmission \/ ChangeEnum \/ Reformat
  BY <1>1, <1>5 DEF ChangeAdmission, ChangeEnum, Reformat
<1>6. CASE DropStep \/ RepeatStep \/ ForeignStep
  BY <1>2, <1>6 DEF DropStep, RepeatStep, ForeignStep
<1>7. CASE RenameStep \/ RearrangeStep \/ AddValue \/ DropValue
  BY <1>2, <1>7 DEF RenameStep, RearrangeStep, AddValue, DropValue
<1>8. CASE ReorderValues \/ EditCsv
  BY <1>2, <1>8 DEF ReorderValues, EditCsv
<1>. QED
  BY <1>3, <1>4, <1>5, <1>6, <1>7, <1>8

\* Upgrades, patches, new pins and moved citations keep the type.
LEMMA NextSources == SourcesOK /\ [Next]_vars => SourcesOK'
<1>. SUFFICES ASSUME SourcesOK, [Next]_vars PROVE SourcesOK'
  OBVIOUS
<1>. USE DEF SourcesOK
<1>1. CASE Upgrade
  <2>1. PICK dep \in Deps : \E lines \in files[dep] :
           /\ \E other \in {{}} \cup {{l} : l \in {lines} \cup Shifted(lines)} :
                  files' = [files EXCEPT ![dep] = other]
           /\ \E version \in Versions : lock' = [lock EXCEPT ![dep] = version]
           /\ UNCHANGED <<pins, citations>>
    BY <1>1 DEF Upgrade
  <2>2. files' \in [Deps -> SUBSET Seq(Line)]
    BY <2>1, ShiftedType
  <2>3. lock' \in [Deps -> Versions]
    BY <2>1
  <2>. QED
    BY <2>1, <2>2, <2>3 DEF Pin
<1>2. CASE Patch
  <2>1. PICK dep \in Deps : \E lines \in files[dep] :
           /\ \E other \in Shifted(lines) : files' = [files EXCEPT ![dep] = {other}]
           /\ UNCHANGED <<lock, pins, citations>>
    BY <1>2 DEF Patch
  <2>2. files' \in [Deps -> SUBSET Seq(Line)]
    BY <2>1, ShiftedType
  <2>. QED
    BY <2>1, <2>2
<1>3. CASE Repin
  <2>1. PICK p \in DOMAIN pins, version \in Versions :
           /\ pins' = [pins EXCEPT ![p].version = version]
           /\ UNCHANGED <<files, lock, citations>>
    BY <1>3 DEF Repin
  <2>2. pins' \in [DOMAIN pins' -> Pin]
    BY <2>1 DEF Pin
  <2>. QED
    BY <2>1, <2>2
<1>4. CASE Reanchor
  <2>1. PICK c \in citations, shift \in {-1, 1} :
           /\ citations' = (citations \ {c}) \cup
                               {[c EXCEPT !.first = @ + shift, !.last = @ + shift]}
           /\ UNCHANGED <<files, lock, pins>>
    BY <1>4 DEF Reanchor
  <2>2. [c EXCEPT !.first = @ + shift, !.last = @ + shift] \in Citation
    <3>1. c \in Citation
      OBVIOUS
    <3>2. c.first + shift \in Int /\ c.last + shift \in Int
      BY <3>1 DEF Citation
    <3>. QED
      BY <3>1, <3>2 DEF Citation
  <2>. QED
    BY <2>1, <2>2
<1>5. CASE RewriteCitation
  <2>1. PICK c \in citations :
           /\ citations' = (citations \ {c}) \cup {[c EXCEPT !.read = ~c.read]}
           /\ UNCHANGED <<files, lock, pins>>
    BY <1>5 DEF RewriteCitation
  <2>2. [c EXCEPT !.read = ~c.read] \in Citation
    BY DEF Citation
  <2>. QED
    BY <2>1, <2>2
<1>6. CASE UNCHANGED vars
  BY <1>6, SourcesUnchanged DEF vars
<1>. QED
  BY <1>1, <1>2, <1>3, <1>4, <1>5, <1>6, OtherEdits, SourcesUnchanged DEF Next

\* The invariant of the cited sources.
THEOREM SourcesInvariant == Spec => []SourcesOK
  BY InitSources, NextSources, PTL DEF Spec
-----------------------------------------------------------------------------
\* A green citation check suppressed nothing, so each citation it read is
\* anchored.
LEMMA GreenIsAnchored ==
    ASSUME NEW fs, NEW ps, NEW lk, NEW cs, AllAnchored(fs, ps, lk, cs), NEW c \in cs, c.read
    PROVE  Anchored(fs, c)
<1>1. Drifted(ps, lk) = {}
  BY DEF AllAnchored
<1>2. ~Suppressed(ps, lk, c)
  BY <1>1 DEF Suppressed
<1>. QED
  BY <1>2 DEF AllAnchored, Misses

\* When citation_check.py is green the lines of the citations it reads have
\* their symbols, whatever was edited, upgraded, patched or pinned before.
THEOREM AnchorsHold == Spec => []AnchorsHoldOrRed
<1>1. SourcesOK => AnchorsHoldOrRed
  <2>. SUFFICES ASSUME SourcesOK, AllAnchored(files, pins, lock, citations),
                       NEW c \in citations, c.read
                PROVE  \E lines \in files[c.file] :
                           \E i \in c.first .. c.last :
                               i \in DOMAIN lines /\ lines[i] = c.symbol
    BY DEF AnchorsHoldOrRed
  <2>1. c \in Citation
    BY DEF SourcesOK
  <2>2. PICK lines \in files[c.file] :
           /\ 1 <= c.first /\ c.last <= Len(lines)
           /\ \E i \in c.first .. c.last : lines[i] = c.symbol
    BY GreenIsAnchored DEF Anchored
  <2>3. lines \in Seq(Line)
    BY <2>1 DEF SourcesOK, Citation
  <2>4. \A i \in c.first .. c.last : i \in DOMAIN lines
    BY <2>1, <2>2, <2>3 DEF Citation
  <2>. QED
    BY <2>2, <2>4
<1>. QED
  BY <1>1, SourcesInvariant, PTL
-----------------------------------------------------------------------------
\* What the checker reads is a part of the graph, as the graph has it.
LEMMA ParsedIsPart ==
    ASSUME NEW o
    PROVE  /\ Parsed(o).domains \subseteq o.domains
           /\ Parsed(o).resources \subseteq o.resources
           /\ Parsed(o).facts \subseteq o.facts
           /\ \A s \in Parsed(o).supports : \E t \in o.supports : s = ReadSupport(o, t)
  BY DEF Parsed

\* An enum is read with its values, or with none.
LEMMA ReadSupportIs ==
    ASSUME NEW o, NEW t \in [module : STRING, task : STRING, values : SUBSET Int]
    PROVE  /\ ReadSupport(o, t).module = t.module
           /\ ReadSupport(o, t).task = t.task
           /\ ReadSupport(o, t).values \in {{}, t.values}
           /\ IsEnum(ReadSupport(o, t)) <=> IsEnum(t)
  BY DEF ReadSupport, IsEnum

\* A generator that is admitted for the checker is admitted.
LEMMA AdmittedIsAdmitted ==
    ASSUME NEW o, NEW gen, Admitted(Parsed(o), gen)
    PROVE  Admitted(o, gen)
<1>. DEFINE read == {x \in DOMAIN o.caps : Readable(o, "GeneratorCapability", x)}
<1>1. Parsed(o).caps = [g \in read |-> o.caps[g]]
  BY DEF Parsed
<1>2. gen \in read /\ Parsed(o).caps[gen] = o.caps[gen]
  BY <1>1 DEF Admitted
<1>. QED
  BY <1>2, Zenon DEF Admitted

\* The only step of a subject is its last one.
LEMMA OnlyStepIsLast ==
    ASSUME NEW steps, NEW kind, NEW subject,
           NEW i \in StepsFor(steps, kind, subject),
           \A j \in StepsFor(steps, kind, subject) : j = i
    PROVE  LastStep(steps, kind, subject) = steps[i]
<1>. DEFINE own == StepsFor(steps, kind, subject)
<1>1. own = {i}
  OBVIOUS
<1>. HIDE DEF own
<1>2. \A k \in own : k = i
  BY <1>1
<1>3. (CHOOSE k \in own : \A j \in own : j <= k) = i
  BY <1>1
<1>. QED
  BY <1>1, <1>3 DEF LastStep, own

\* A resource that is read is given each value that is read of it.
LEMMA ReadValuesArePassed ==
    ASSUME NEW p, NEW steps, FactsInvoked(p, steps), NEW r, NEW option
    PROVE  FactValues(p.facts, r, option) \subseteq Values(OptionOf(steps, r, option))
<1>1. \A f \in p.facts : f.value \in Values(OptionOf(steps, f.resource, f.option))
  BY DEF FactsInvoked
<1>. QED
  BY <1>1 DEF FactValues

\* And no value the graph does not have.
LEMMA PassedValuesAreFacts ==
    ASSUME NEW o, NEW steps, ResourcesTraced(Parsed(o), steps),
           NEW r \in Subjects(steps, "ash.gen.resource"), NEW option \in Options
    PROVE  /\ Values(OptionOf(steps, r, option)) \subseteq FactValues(Parsed(o).facts, r, option)
           /\ FactValues(Parsed(o).facts, r, option) \subseteq FactValues(o.facts, r, option)
<1>1. Values(OptionOf(steps, r, option)) \subseteq FactValues(Parsed(o).facts, r, option)
  BY DEF ResourcesTraced
<1>2. Parsed(o).facts \subseteq o.facts
  BY ParsedIsPart
<1>3. \A S, U : S \subseteq U => FactValues(S, r, option) \subseteq FactValues(U, r, option)
  BY DEF FactValues
<1>. QED
  BY <1>1, <1>2, <1>3

\* When drift_check.py finds no drift, the task says what the checker reads of
\* the ontology and, in the steps it sees, nothing the ontology does not: for
\* every ontology, however it is written, every task and every edit of either.
THEOREM NoDriftIsTrue == Spec => []NoDriftMeansFaithful
<1>1. NoDriftMeansFaithful
  <2>. SUFFICES ASSUME NoDrift(ontology, task) PROVE NoDriftMeansFaithful
    BY DEF NoDriftMeansFaithful
  <2>. DEFINE resource == "ash.gen.resource"
              p == Parsed(ontology)
  <2>1. /\ FactsInvoked(p, task) /\ SupportsInvoked(p, task) /\ EnumsInvoked(p, task)
        /\ ResourcesTraced(p, task) /\ EnumsTraced(p, task) /\ TasksTraced(p, task)
        /\ ~ParseVacuous(ontology)
    BY DEF NoDrift
  <2>2. ASSUME NEW r \in Subjects(task, resource), NEW option \in Options, Alone(resource, r),
               NEW i \in StepsFor(task, resource, r)
        PROVE  /\ FactValues(p.facts, r, option) \subseteq Values(task[i].opts[option])
               /\ Values(task[i].opts[option]) \subseteq FactValues(ontology.facts, r, option)
    <3>1. OptionOf(task, r, option) = task[i].opts[option]
      BY <2>2, OnlyStepIsLast DEF OptionOf, Alone
    <3>2. FactValues(p.facts, r, option) \subseteq Values(OptionOf(task, r, option))
      BY <2>1, ReadValuesArePassed
    <3>3. Values(OptionOf(task, r, option)) \subseteq FactValues(ontology.facts, r, option)
      BY <2>1, <2>2, PassedValuesAreFacts
    <3>. QED
      BY <3>1, <3>2, <3>3
  <2>3. ASSUME NEW s \in p.supports, Admitted(p, s.task)
        PROVE  Mentioning(task, s.task, s.module) # {}
    BY <2>1, <2>3 DEF SupportsInvoked
  <2>4. ASSUME NEW s \in p.supports, IsEnum(s), Alone(s.task, s.module),
               NEW i \in StepsFor(task, s.task, s.module)
        PROVE  \E csv \in task[i].csv : s.values \subseteq Values(csv)
    <3>1. LastStep(task, s.task, s.module) = task[i]
      BY <2>4, OnlyStepIsLast DEF Alone
    <3>2. s.task = "ash.gen.enum" /\ s.module \in Subjects(task, "ash.gen.enum")
      BY <2>4 DEF IsEnum, StepsFor, Subjects
    <3>3. task[i].csv # {}
      BY <2>1, <3>1, <3>2 DEF EnumsTraced
    <3>4. \A found \in task[i].csv : s.values \subseteq Values(found)
      BY <2>1, <2>4, <3>1 DEF EnumsInvoked
    <3>. QED
      BY <3>3, <3>4
  <2>5. ASSUME NEW i \in DOMAIN task, task[i].seen PROVE Admitted(ontology, task[i].task)
    <3>1. Admitted(p, task[i].task)
      BY <2>1, <2>5 DEF TasksTraced
    <3>. QED
      BY <3>1, AdmittedIsAdmitted
  <2>6. ASSUME Detected("Domain", ontology.domains) # {}
        PROVE  Subjects(task, "ash.gen.domain") # {}
    <3>1. p.domains # {}
      BY <2>1, <2>6 DEF ParseVacuous, Unread, Detected
    <3>2. PICK d \in p.domains : Mentioning(task, "ash.gen.domain", d) # {}
      BY <2>1, <3>1 DEF FactsInvoked
    <3>. QED
      BY <3>2 DEF Mentioning, Subjects
  <2>7. ASSUME Detected("Resource", ontology.resources) # {} PROVE Subjects(task, resource) # {}
    <3>1. p.resources # {}
      BY <2>1, <2>7 DEF ParseVacuous, Unread, Detected
    <3>2. PICK r \in p.resources : StepsFor(task, resource, r) # {}
      BY <2>1, <3>1 DEF FactsInvoked
    <3>. QED
      BY <3>2 DEF StepsFor, Subjects
  <2>8. /\ \A d \in p.domains : Mentioning(task, "ash.gen.domain", d) # {}
        /\ \A r \in p.resources : StepsFor(task, resource, r) # {}
    BY <2>1 DEF FactsInvoked
  <2>. HIDE DEF p
  <2>9. \A s \in p.supports : Admitted(p, s.task) =>
               /\ Mentioning(task, s.task, s.module) # {}
               /\ IsEnum(s) /\ Alone(s.task, s.module) =>
                      \A i \in StepsFor(task, s.task, s.module) :
                          \E csv \in task[i].csv : s.values \subseteq Values(csv)
    BY <2>3, <2>4
  <2>10. \A r \in Subjects(task, resource) : \A option \in Options :
               Alone(resource, r) =>
                   \A i \in StepsFor(task, resource, r) :
                       /\ FactValues(p.facts, r, option) \subseteq Values(task[i].opts[option])
                       /\ Values(task[i].opts[option]) \subseteq
                              FactValues(ontology.facts, r, option)
    BY <2>2
  <2>. QED
    BY <2>5, <2>6, <2>7, <2>8, <2>9, <2>10 DEF NoDriftMeansFaithful, p
<1>. QED
  BY <1>1, PTL

-----------------------------------------------------------------------------
(* What the template renders.                                               *)

\* The set of what a function gives to a finite set is finite.
LEMMA ImageIsFinite ==
    ASSUME NEW S, IsFiniteSet(S), NEW g, DOMAIN g = S, g = [x \in S |-> g[x]]
    PROVE  IsFiniteSet(Range(g))
<1>1. g \in Surjection(S, Range(g))
  BY DEF Surjection, Range
<1>. QED
  BY <1>1, FS_Surjection

\* The ranks of the values the facts may have.
Rank == {f.value : f \in Facts}
LEMMA RankIs == IsFiniteSet(Rank) /\ Rank \in SUBSET Int
<1>. DEFINE g == [f \in Facts |-> f.value]
<1>1. IsFiniteSet(Range(g))
  BY PackAssumption, ImageIsFinite
<1>2. Range(g) = Rank
  BY DEF Range, Rank
<1>3. \A f \in Facts : f.value \in Int
  BY PackAssumption
<1>4. Rank \in SUBSET Int
  BY <1>3 DEF Rank
<1>. QED
  BY <1>1, <1>2, <1>4

\* An option's values are among them.
LEMMA FactValuesAre ==
    ASSUME NEW facts \in SUBSET Facts, NEW r, NEW option
    PROVE  /\ FactValues(facts, r, option) \in SUBSET Rank
           /\ FactValues(facts, r, option) \in SUBSET Int
           /\ IsFiniteSet(FactValues(facts, r, option))
<1>1. FactValues(facts, r, option) \in SUBSET Rank
  BY DEF FactValues, Rank
<1>. QED
  BY <1>1, RankIs, FS_Subset

\* The projected order of a finite set has each of its elements once.
LEMMA ProjectedIs ==
    ASSUME NEW S \in SUBSET Int, IsFiniteSet(S)
    PROVE  /\ ProjectedOrder(S) \in Seq(S)
           /\ Range(ProjectedOrder(S)) = S
           /\ IsInjective(ProjectedOrder(S))
<1>1. \E seq \in [1 .. Cardinality(S) -> S] : Ascending(seq)
  BY SortedEnumeration
<1>2. ProjectedOrder(S) \in [1 .. Cardinality(S) -> S] /\ Ascending(ProjectedOrder(S))
  BY <1>1 DEF ProjectedOrder, Ascending
<1>. QED
  BY <1>2, AscendingIsAll

\* A step of a task, and whom it is for.
Name == STRING \cup {"ash", "Repo", "Base", "Foreign"}
Tasks == DOMAIN Ontology.caps \cup {"ash.gen.domain", "ash.gen.resource"}
Step ==
    [task : Tasks, subject : Name, also : SUBSET Name, opts : [Options -> Seq(Rank)],
     csv : {csvs \in SUBSET Seq(Int) : Cardinality(csvs) <= 1}, seen : BOOLEAN]

\* The generators that are no support module's.
Own == {"ash.install", "ash_postgres.install", "ash.gen.base_resource",
        "ash.gen.domain", "ash.gen.resource"}

\* An ontology of the pack, however it was edited.
GraphOK(o) ==
    /\ o \in Ontologies
    /\ IsFiniteSet(o.supports)
    /\ \A s, t \in o.supports : s.module = t.module => s = t
    /\ \A s \in o.supports : IsFiniteSet(s.values)
    /\ \A s \in o.supports : s.task \notin Own

\* The steps the template renders, without their order.
Installs(o) ==
    Range(Installed(o, "ash.install", "ash"))
    \cup Range(Installed(o, "ash_postgres.install", "Repo"))
    \cup Range(Installed(o, "ash.gen.base_resource", "Base"))
Domains(o) == {Invocation("ash.gen.domain", d) : d \in Complete(o, "Domain", o.domains)}
Enums(o) == {EnumInvocation(s) : s \in {s \in GateSupports(o) : IsEnum(s)}}
Resources(o) ==
    {ResourceInvocation(GateFacts(o), r) : r \in Complete(o, "Resource", o.resources)}
Others(o) == {Invocation(s.task, s.module) : s \in {s \in GateSupports(o) : ~IsEnum(s)}}
Rendered(o) == Installs(o) \cup Domains(o) \cup Enums(o) \cup Resources(o) \cup Others(o)

\* A plain invocation passes no options and no values.
LEMMA InvocationIs ==
    ASSUME NEW gen \in Tasks, NEW subject \in Name
    PROVE  Invocation(gen, subject) \in Step
<1>1. {} \in SUBSET Seq(Int) /\ Cardinality({}) <= 1
  BY FS_EmptySet
<1>2. NoOpts \in [Options -> Seq(Rank)]
  BY DEF NoOpts
<1>. QED
  BY <1>1, <1>2 DEF Invocation, Step

\* An installer is invoked when the gate admits it.
LEMMA InstalledIs ==
    ASSUME NEW o, NEW gen, NEW subject \in Name, Admitted(o, gen) => gen \in Tasks
    PROVE  /\ Installed(o, gen, subject) \in Seq(Step)
           /\ \A x \in Range(Installed(o, gen, subject)) :
                  Admitted(o, gen) /\ x = Invocation(gen, subject)
<1>1. CASE GateAdmits(o, gen)
  <2>. DEFINE x == Invocation(gen, subject)
  <2>1. Admitted(o, gen)
    BY <1>1 DEF GateAdmits
  <2>2. x \in Step
    BY <2>1, InvocationIs
  <2>3. Installed(o, gen, subject) = <<x>>
    BY <1>1 DEF Installed
  <2>. HIDE DEF x
  <2>4. Range(<<x>>) = {x} /\ <<x>> \in Seq(Step)
    BY <2>2 DEF Range
  <2>. QED
    BY <2>1, <2>3, <2>4 DEF x
<1>2. CASE ~GateAdmits(o, gen)
  <2>1. Installed(o, gen, subject) = <<>>
    BY <1>2 DEF Installed
  <2>2. Range(<<>>) = {} /\ <<>> \in Seq(Step)
    BY DEF Range
  <2>. QED
    BY <2>1, <2>2
<1>. QED
  BY <1>1, <1>2

\* The gates select a part of the graph.
LEMMA GatesSelect ==
    ASSUME NEW o
    PROVE  /\ Complete(o, "Domain", o.domains) \in SUBSET o.domains
           /\ Complete(o, "Resource", o.resources) \in SUBSET o.resources
           /\ GateFacts(o) \in SUBSET o.facts
           /\ GateSupports(o) \in SUBSET o.supports
           /\ \A s \in GateSupports(o) : Admitted(o, s.task)
  BY DEF Complete, GateFacts, GateSupports, GateAdmits

\* An enum passes its values, once each and in order.
LEMMA EnumInvocationIs ==
    ASSUME NEW o, GraphOK(o), NEW s \in o.supports, s.task \in Tasks
    PROVE  /\ EnumInvocation(s) \in Step
           /\ EnumInvocation(s).task = s.task
           /\ EnumInvocation(s).subject = s.module
           /\ EnumInvocation(s).also = {}
           /\ EnumInvocation(s).seen
           /\ EnumInvocation(s).csv = {ProjectedOrder(s.values)}
           /\ ProjectedOrder(s.values) \in Seq(Int)
           /\ Range(ProjectedOrder(s.values)) = s.values
<1>1. s \in [module : STRING, task : STRING, values : SUBSET Int] /\ IsFiniteSet(s.values)
  BY DEF GraphOK, Ontologies
<1>. DEFINE csv == ProjectedOrder(s.values)
<1>2. csv \in Seq(s.values) /\ Range(csv) = s.values
  BY <1>1, ProjectedIs
<1>. HIDE DEF csv
<1>3. csv \in Seq(Int)
  BY <1>1, <1>2
<1>4. EnumInvocation(s) = [task |-> s.task, subject |-> s.module, also |-> {}, opts |-> NoOpts,
                           csv |-> {csv}, seen |-> TRUE]
  <2>1. EnumInvocation(s) = [Invocation(s.task, s.module) EXCEPT !.csv = {csv}]
    BY DEF EnumInvocation, csv
  <2>. QED
    BY <2>1 DEF Invocation
<1>5. {csv} \in SUBSET Seq(Int) /\ Cardinality({csv}) <= 1
  <2>1. Cardinality({csv}) = 1
    BY FS_Singleton
  <2>. QED
    BY <1>3, <2>1
<1>6. NoOpts \in [Options -> Seq(Rank)]
  BY DEF NoOpts
<1>7. EnumInvocation(s) \in Step
  BY <1>1, <1>4, <1>5, <1>6 DEF Step, Name
<1>. QED
  BY <1>2, <1>3, <1>4, <1>7 DEF csv

\* A resource passes the values of each option, once each and in order.
LEMMA ResourceInvocationIs ==
    ASSUME NEW facts \in SUBSET Facts, NEW r \in STRING
    PROVE  /\ ResourceInvocation(facts, r) \in Step
           /\ ResourceInvocation(facts, r).task = "ash.gen.resource"
           /\ ResourceInvocation(facts, r).subject = r
           /\ ResourceInvocation(facts, r).also = {}
           /\ ResourceInvocation(facts, r).seen
           /\ \A option \in Options :
                  /\ ResourceInvocation(facts, r).opts[option]
                         = ProjectedOrder(FactValues(facts, r, option))
                  /\ Values(ResourceInvocation(facts, r).opts[option])
                         = FactValues(facts, r, option)
<1>. DEFINE opts == [option \in Options |-> ProjectedOrder(FactValues(facts, r, option))]
<1>2. ASSUME NEW option \in Options
      PROVE  /\ ProjectedOrder(FactValues(facts, r, option)) \in Seq(Rank)
             /\ Range(ProjectedOrder(FactValues(facts, r, option))) = FactValues(facts, r, option)
  <2>. DEFINE S == FactValues(facts, r, option)
  <2>1. S \in SUBSET Rank /\ S \in SUBSET Int /\ IsFiniteSet(S)
    BY FactValuesAre
  <2>. HIDE DEF S
  <2>2. ProjectedOrder(S) \in Seq(S) /\ Range(ProjectedOrder(S)) = S
    BY <2>1, ProjectedIs
  <2>3. ProjectedOrder(S) \in Seq(Rank)
    <3>. DEFINE seq == ProjectedOrder(S)
    <3>1. seq \in Seq(S) /\ S \in SUBSET Rank
      BY <2>1, <2>2
    <3>. HIDE DEF seq, S
    <3>2. seq \in Seq(Rank)
      BY <3>1
    <3>. QED
      BY <3>2 DEF seq
  <2>. QED
    BY <2>2, <2>3 DEF S
<1>3. opts \in [Options -> Seq(Rank)]
  BY <1>2
<1>4. ResourceInvocation(facts, r)
          = [task |-> "ash.gen.resource", subject |-> r, also |-> {}, opts |-> opts, csv |-> {},
             seen |-> TRUE]
  <2>1. ResourceInvocation(facts, r) = [Invocation("ash.gen.resource", r) EXCEPT !.opts = opts]
    BY DEF ResourceInvocation
  <2>. HIDE DEF opts
  <2>. QED
    BY <2>1 DEF Invocation
<1>5. \A option \in Options :
          /\ opts[option] = ProjectedOrder(FactValues(facts, r, option))
          /\ Values(opts[option]) = FactValues(facts, r, option)
  BY <1>2 DEF Values, Range
<1>6. {} \in SUBSET Seq(Int) /\ Cardinality({}) <= 1
  BY FS_EmptySet
<1>. HIDE DEF opts
<1>7. ResourceInvocation(facts, r) \in Step
  BY <1>3, <1>4, <1>6 DEF Step, Tasks, Name
<1>. QED
  BY <1>4, <1>5, <1>7

\* Whatever is rendered is a step.
LEMMA RenderedAreSteps == ASSUME NEW o, GraphOK(o) PROVE Rendered(o) \in SUBSET Step
<1>1. /\ o.domains \in SUBSET STRING /\ o.resources \in SUBSET STRING /\ o.facts \in SUBSET Facts
      /\ o.supports \in SUBSET [module : STRING, task : STRING, values : SUBSET Int]
      /\ DOMAIN o.caps = DOMAIN Ontology.caps
  BY DEF GraphOK, Ontologies
<1>2. \A gen : Admitted(o, gen) => gen \in Tasks
  BY <1>1 DEF Admitted, Tasks
<1>3. Installs(o) \in SUBSET Step
  <2>1. "ash" \in Name /\ "Repo" \in Name /\ "Base" \in Name
    BY DEF Name
  <2>2. \A gen, subject : subject \in Name => Range(Installed(o, gen, subject)) \in SUBSET Step
    BY <1>2, InstalledIs DEF Range
  <2>. QED
    BY <2>1, <2>2 DEF Installs
<1>4. Domains(o) \in SUBSET Step
  BY <1>1, GatesSelect, InvocationIs DEF Domains, Tasks, Name
<1>5. Enums(o) \in SUBSET Step
  <2>1. \A s \in GateSupports(o) : s \in o.supports /\ s.task \in Tasks
    BY <1>2, GatesSelect
  <2>2. \A s \in GateSupports(o) : EnumInvocation(s) \in Step
    BY <2>1, EnumInvocationIs
  <2>. QED
    BY <2>2 DEF Enums
<1>6. Resources(o) \in SUBSET Step
  <2>1. GateFacts(o) \in SUBSET Facts /\ Complete(o, "Resource", o.resources) \in SUBSET STRING
    BY <1>1, GatesSelect
  <2>2. \A r \in STRING : ResourceInvocation(GateFacts(o), r) \in Step
    BY <2>1, ResourceInvocationIs
  <2>. QED
    BY <2>1, <2>2 DEF Resources
<1>7. Others(o) \in SUBSET Step
  <2>1. \A s \in GateSupports(o) : s.task \in Tasks /\ s.module \in Name
    BY <1>1, <1>2, GatesSelect DEF Name
  <2>2. \A s \in GateSupports(o) : Invocation(s.task, s.module) \in Step
    BY <2>1, InvocationIs
  <2>. QED
    BY <2>2 DEF Others
<1>. QED
  BY <1>3, <1>4, <1>5, <1>6, <1>7 DEF Rendered

\* The rendered task is these steps, in some order.
LEMMA RenderIs ==
    ASSUME NEW o, GraphOK(o)
    PROVE  Render(o) \in Seq(Step) /\ Range(Render(o)) = Rendered(o)
<1>. DEFINE supports == GateSupports(o)
            others == {s \in supports : ~IsEnum(s)}
            domains == Complete(o, "Domain", o.domains)
            resources == Complete(o, "Resource", o.resources)
            ash == Installed(o, "ash.install", "ash")
            repo == Installed(o, "ash_postgres.install", "Repo")
            base == Installed(o, "ash.gen.base_resource", "Base")
<1>1. /\ IsFiniteSet(domains) /\ IsFiniteSet(resources)
      /\ IsFiniteSet(others) /\ IsFiniteSet(supports \ others)
  <2>1. domains \in SUBSET Ontology.domains /\ resources \in SUBSET Ontology.resources
    BY GatesSelect DEF GraphOK, Ontologies
  <2>2. IsFiniteSet(o.supports) /\ others \in SUBSET o.supports /\ supports \ others \in SUBSET o.supports
    BY GatesSelect DEF GraphOK
  <2>. HIDE DEF supports, others, domains, resources
  <2>. QED
    BY <2>1, <2>2, PackAssumption, FS_Subset
<1>2. /\ supports \ others = {s \in GateSupports(o) : IsEnum(s)}
      /\ others = {s \in GateSupports(o) : ~IsEnum(s)}
  OBVIOUS
<1>3. /\ Enums(o) = {EnumInvocation(s) : s \in supports \ others}
      /\ Others(o) = {Invocation(s.task, s.module) : s \in others}
  BY <1>2 DEF Enums, Others
<1>4. Render(o) = ash \o repo \o base \o SetToSeq(Domains(o)) \o SetToSeq(Enums(o))
                      \o SetToSeq(Resources(o)) \o SetToSeq(Others(o))
  BY <1>3 DEF Render, Domains, Resources
<1>5. ash \in Seq(Step) /\ repo \in Seq(Step) /\ base \in Seq(Step)
  <2>1. "ash" \in Name /\ "Repo" \in Name /\ "Base" \in Name
    BY DEF Name
  <2>2. \A gen : Admitted(o, gen) => gen \in Tasks
    BY DEF Admitted, Tasks, GraphOK, Ontologies
  <2>. QED
    BY <2>1, <2>2, InstalledIs
<1>. HIDE DEF supports, others, domains, resources
<1>6. IsFiniteSet(Domains(o))
  <2>. DEFINE g == [d \in domains |-> Invocation("ash.gen.domain", d)]
  <2>1. IsFiniteSet(Range(g))
    BY <1>1, ImageIsFinite
  <2>. QED
    BY <2>1 DEF Range, Domains, domains
<1>7. IsFiniteSet(Enums(o))
  <2>. DEFINE g == [s \in supports \ others |-> EnumInvocation(s)]
  <2>1. IsFiniteSet(Range(g))
    BY <1>1, ImageIsFinite
  <2>. QED
    BY <1>3, <2>1 DEF Range
<1>8. IsFiniteSet(Resources(o))
  <2>. DEFINE g == [r \in resources |-> ResourceInvocation(GateFacts(o), r)]
  <2>1. IsFiniteSet(Range(g))
    BY <1>1, ImageIsFinite
  <2>. QED
    BY <2>1 DEF Range, Resources, resources
<1>9. IsFiniteSet(Others(o))
  <2>. DEFINE g == [s \in others |-> Invocation(s.task, s.module)]
  <2>1. IsFiniteSet(Range(g))
    BY <1>1, ImageIsFinite
  <2>. QED
    BY <1>3, <2>1 DEF Range
<1>10. /\ Domains(o) \in SUBSET Step /\ Enums(o) \in SUBSET Step
       /\ Resources(o) \in SUBSET Step /\ Others(o) \in SUBSET Step
  BY RenderedAreSteps DEF Rendered
<1>. DEFINE a == ash \o repo \o base
            b == SetToSeq(Domains(o))
            c == SetToSeq(Enums(o))
            d == SetToSeq(Resources(o))
            e == SetToSeq(Others(o))
<1>. HIDE DEF ash, repo, base
<1>. DEFINE ar == ash \o repo
<1>18. ar \in Seq(Step) /\ Range(ar) = Range(ash) \cup Range(repo)
  BY <1>5, RangeConcatenation
<1>. HIDE DEF ar
<1>19. ar \o base \in Seq(Step) /\ Range(ar \o base) = Range(ar) \cup Range(base)
  BY <1>5, <1>18, RangeConcatenation
<1>20. a \in Seq(Step) /\ Range(a) = Installs(o)
  BY <1>18, <1>19 DEF ar, ash, repo, base, Installs
<1>11. /\ b \in Seq(Step) /\ Range(b) = Domains(o)
       /\ c \in Seq(Step) /\ Range(c) = Enums(o)
       /\ d \in Seq(Step) /\ Range(d) = Resources(o)
       /\ e \in Seq(Step) /\ Range(e) = Others(o)
  BY <1>6, <1>7, <1>8, <1>9, <1>10, SetToSeqIs
<1>12. Render(o) = a \o b \o c \o d \o e
  BY <1>4 DEF ash, repo, base
<1>. HIDE DEF a, b, c, d, e
<1>. DEFINE ab == a \o b
            abc == ab \o c
            abcd == abc \o d
            abcde == abcd \o e
<1>13. ab \in Seq(Step) /\ Range(ab) = Range(a) \cup Range(b)
  BY <1>11, <1>20, RangeConcatenation
<1>. HIDE DEF ab
<1>14. abc \in Seq(Step) /\ Range(abc) = Range(ab) \cup Range(c)
  BY <1>11, <1>13, RangeConcatenation
<1>. HIDE DEF abc
<1>15. abcd \in Seq(Step) /\ Range(abcd) = Range(abc) \cup Range(d)
  BY <1>11, <1>14, RangeConcatenation
<1>. HIDE DEF abcd
<1>16. abcde \in Seq(Step) /\ Range(abcde) = Range(abcd) \cup Range(e)
  BY <1>11, <1>15, RangeConcatenation
<1>17. Render(o) = abcde
  BY <1>12 DEF ab, abc, abcd
<1>. HIDE DEF abcde
<1>. QED
  BY <1>11, <1>13, <1>14, <1>15, <1>16, <1>17, <1>20 DEF Rendered

-----------------------------------------------------------------------------
(* The invariant of the pack: the ontology stays one, the task is a         *)
(* sequence of steps and, as long as nobody edits anything, the rendered    *)
(* one; a file is there once or not at all.                                 *)

RenderingOK ==
    /\ GraphOK(ontology)
    /\ task \in Seq(Step)
    /\ synced \in BOOLEAN
    /\ synced => task = Render(ontology)

VersionsOK ==
    /\ edits \in 0 .. MaxEdits
    /\ \A dep \in Deps : Cardinality(files[dep]) <= 1
    /\ DOMAIN pins = DOMAIN Pins

PackInv == RenderingOK /\ VersionsOK

\* The pack begins with its ontology, rendered.
LEMMA InitPackInv == Init => PackInv
<1>. SUFFICES ASSUME Init PROVE PackInv
  OBVIOUS
<1>1. GraphOK(Ontology)
  BY PackAssumption DEF GraphOK, Own
<1>2. RenderingOK
  BY <1>1, RenderIs DEF Init, RenderingOK
<1>3. VersionsOK
  BY PackAssumption DEF Init, VersionsOK
<1>. QED
  BY <1>2, <1>3 DEF PackInv

\* An edit of the ontology leaves an ontology.
LEMMA EditOntologyKeeps ==
    ASSUME RenderingOK, NEW o, GraphOK(o), EditOntology(o)
    PROVE  RenderingOK'
  BY DEF RenderingOK, EditOntology, GraphOK

\* An edit of the task leaves a task.
LEMMA HandEditKeeps ==
    ASSUME RenderingOK, NEW steps \in Seq(Step), HandEdit(steps)
    PROVE  RenderingOK'
  BY DEF RenderingOK, HandEdit, GraphOK

\* A set with one element more, or less, of a larger set is a part of it.
LEMMA ToggledIs ==
    ASSUME NEW U, NEW S \in SUBSET U, NEW x \in U
    PROVE  Toggled(S, x) \in SUBSET U
  BY DEF Toggled

\* Of a step the options, the values, the subject or the lines are edited.
LEMMA StepEdited ==
    ASSUME NEW steps \in Seq(Step), NEW i \in DOMAIN steps
    PROVE  /\ \A option \in Options : \A values \in Seq(Rank) :
                  [steps EXCEPT ![i].opts[option] = values] \in Seq(Step)
           /\ \A csvs \in SUBSET Seq(Int) : Cardinality(csvs) <= 1 =>
                  [steps EXCEPT ![i].csv = csvs] \in Seq(Step)
           /\ \A subject \in Name : \A also \in SUBSET Name :
                  [steps EXCEPT ![i].subject = subject, ![i].also = also] \in Seq(Step)
           /\ \A seen \in BOOLEAN : [steps EXCEPT ![i].seen = seen] \in Seq(Step)
<1>1. steps[i] \in Step /\ steps \in [1 .. Len(steps) -> Step] /\ Len(steps) \in Nat
  OBVIOUS
<1>2. ASSUME NEW option \in Options, NEW values \in Seq(Rank)
      PROVE  [steps EXCEPT ![i].opts[option] = values] \in Seq(Step)
  <2>1. [steps[i] EXCEPT !.opts[option] = values] \in Step
    BY <1>1 DEF Step
  <2>2. [steps EXCEPT ![i].opts[option] = values]
            = [steps EXCEPT ![i] = [steps[i] EXCEPT !.opts[option] = values]]
    OBVIOUS
  <2>. QED
    BY <1>1, <2>1, <2>2
<1>3. ASSUME NEW csvs \in SUBSET Seq(Int), Cardinality(csvs) <= 1
      PROVE  [steps EXCEPT ![i].csv = csvs] \in Seq(Step)
  <2>1. [steps[i] EXCEPT !.csv = csvs] \in Step
    BY <1>1, <1>3 DEF Step
  <2>2. [steps EXCEPT ![i].csv = csvs] = [steps EXCEPT ![i] = [steps[i] EXCEPT !.csv = csvs]]
    OBVIOUS
  <2>. QED
    BY <1>1, <2>1, <2>2
<1>4. ASSUME NEW subject \in Name, NEW also \in SUBSET Name
      PROVE  [steps EXCEPT ![i].subject = subject, ![i].also = also] \in Seq(Step)
  <2>1. [steps[i] EXCEPT !.subject = subject, !.also = also] \in Step
    BY <1>1 DEF Step
  <2>2. [steps EXCEPT ![i].subject = subject, ![i].also = also]
            = [steps EXCEPT ![i] = [steps[i] EXCEPT !.subject = subject, !.also = also]]
    OBVIOUS
  <2>. QED
    BY <1>1, <2>1, <2>2
<1>5. ASSUME NEW seen \in BOOLEAN PROVE [steps EXCEPT ![i].seen = seen] \in Seq(Step)
  <2>1. [steps[i] EXCEPT !.seen = seen] \in Step
    BY <1>1 DEF Step
  <2>2. [steps EXCEPT ![i].seen = seen] = [steps EXCEPT ![i] = [steps[i] EXCEPT !.seen = seen]]
    OBVIOUS
  <2>. QED
    BY <1>1, <2>1, <2>2
<1>. QED
  BY <1>2, <1>3, <1>4, <1>5

\* Each edit of the ontology.
LEMMA OntologyEdits ==
    ASSUME RenderingOK,
           \/ ChangeFact \/ ChangeDomain \/ ChangeResource \/ ChangeProperty
           \/ ChangeAdmission \/ ChangeEnum \/ Reformat
    PROVE  RenderingOK'
<1>. DEFINE o == ontology
<1>0. GraphOK(o) /\ o \in Ontologies
  BY DEF RenderingOK, GraphOK
<1>. HIDE DEF o
<1>1. CASE ChangeFact
  <2>1. PICK f \in Facts : EditOntology([o EXCEPT !.facts = Toggled(o.facts, f)])
    BY <1>1 DEF ChangeFact, o
  <2>2. Toggled(o.facts, f) \in SUBSET Facts
    BY <1>0, ToggledIs DEF Ontologies
  <2>3. GraphOK([o EXCEPT !.facts = Toggled(o.facts, f)])
    BY <1>0, <2>2 DEF GraphOK, Ontologies
  <2>. QED
    BY <2>1, <2>3, EditOntologyKeeps
<1>2. CASE ChangeDomain
  <2>1. PICK d \in Ontology.domains : EditOntology([o EXCEPT !.domains = Toggled(o.domains, d)])
    BY <1>2 DEF ChangeDomain, o
  <2>2. Toggled(o.domains, d) \in SUBSET (Ontology.domains \cap STRING)
    BY <1>0, PackAssumption, ToggledIs DEF Ontologies
  <2>3. GraphOK([o EXCEPT !.domains = Toggled(o.domains, d)])
    BY <1>0, <2>2 DEF GraphOK, Ontologies
  <2>. QED
    BY <2>1, <2>3, EditOntologyKeeps
<1>3. CASE ChangeResource
  <2>1. PICK r \in Ontology.resources :
           EditOntology([o EXCEPT !.resources = Toggled(o.resources, r)])
    BY <1>3 DEF ChangeResource, o
  <2>2. Toggled(o.resources, r) \in SUBSET (Ontology.resources \cap STRING)
    BY <1>0, PackAssumption, ToggledIs DEF Ontologies
  <2>3. GraphOK([o EXCEPT !.resources = Toggled(o.resources, r)])
    BY <1>0, <2>2 DEF GraphOK, Ontologies
  <2>. QED
    BY <2>1, <2>3, EditOntologyKeeps
<1>4. CASE ChangeProperty
  <2>1. PICK b \in GatedBlocks :
           EditOntology([o EXCEPT !.incomplete = Toggled(o.incomplete, b)])
    BY <1>4 DEF ChangeProperty, o
  <2>2. Toggled(o.incomplete, b) \in SUBSET GatedBlocks
    BY <1>0, ToggledIs DEF Ontologies
  <2>3. GraphOK([o EXCEPT !.incomplete = Toggled(o.incomplete, b)])
    BY <1>0, <2>2 DEF GraphOK, Ontologies
  <2>. QED
    BY <2>1, <2>3, EditOntologyKeeps
<1>5. CASE ChangeAdmission
  <2>1. PICK c \in DOMAIN Ontology.caps : EditOntology([o EXCEPT !.caps[c] = ~o.caps[c]])
    BY <1>5 DEF ChangeAdmission, o
  <2>2. [o EXCEPT !.caps[c] = ~o.caps[c]] = [o EXCEPT !.caps = [o.caps EXCEPT ![c] = ~o.caps[c]]]
    OBVIOUS
  <2>. DEFINE caps == [o.caps EXCEPT ![c] = ~o.caps[c]]
  <2>3. caps \in [DOMAIN Ontology.caps -> BOOLEAN]
    BY <1>0 DEF Ontologies
  <2>. HIDE DEF caps
  <2>4. GraphOK([o EXCEPT !.caps = caps])
    BY <1>0, <2>3 DEF GraphOK, Ontologies
  <2>. QED
    BY <2>1, <2>2, <2>4, EditOntologyKeeps DEF caps
<1>6. CASE ChangeEnum
  <2>1. PICK s \in o.supports, v \in 1 .. 3 :
           EditOntology([o EXCEPT !.supports =
                            (o.supports \ {s}) \cup {[s EXCEPT !.values = Toggled(s.values, v)]}])
    BY <1>6 DEF ChangeEnum, o
  <2>. DEFINE t == [s EXCEPT !.values = Toggled(s.values, v)]
              supports == (o.supports \ {s}) \cup {t}
  <2>2. /\ s \in [module : STRING, task : STRING, values : SUBSET Int] /\ IsFiniteSet(s.values)
        /\ o.supports \in SUBSET [module : STRING, task : STRING, values : SUBSET Int]
        /\ IsFiniteSet(o.supports)
    BY <1>0 DEF GraphOK, Ontologies
  <2>3. Toggled(s.values, v) \in SUBSET Int /\ IsFiniteSet(Toggled(s.values, v))
    <3>1. IsFiniteSet(s.values \ {v}) /\ IsFiniteSet(s.values \cup {v})
      BY <2>2, FS_AddElement, FS_RemoveElement
    <3>. QED
      BY <2>2, <3>1 DEF Toggled
  <2>4. /\ t \in [module : STRING, task : STRING, values : SUBSET Int]
        /\ t.module = s.module /\ t.task = s.task /\ IsFiniteSet(t.values)
    BY <2>2, <2>3
  <2>. HIDE DEF t
  <2>5. IsFiniteSet(supports)
    BY <2>2, FS_AddElement, FS_RemoveElement
  <2>6. supports \in SUBSET [module : STRING, task : STRING, values : SUBSET Int]
    BY <2>2, <2>4
  <2>7. \A x \in supports : IsFiniteSet(x.values) /\ x.task \notin Own
    BY <1>0, <2>4 DEF GraphOK
  <2>8. \A x, y \in supports : x.module = y.module => x = y
    <3>1. \A x, y \in o.supports : x.module = y.module => x = y
      BY <1>0 DEF GraphOK
    <3>. QED
      BY <2>4, <3>1
  <2>. HIDE DEF supports
  <2>9. GraphOK([o EXCEPT !.supports = supports])
    BY <1>0, <2>5, <2>6, <2>7, <2>8 DEF GraphOK, Ontologies
  <2>. QED
    BY <2>1, <2>9, EditOntologyKeeps DEF supports, t
<1>7. CASE Reformat
  <2>1. PICK b \in AllBlocks :
           \/ EditOntology([o EXCEPT !.loose = Toggled(o.loose, b), !.odd = o.odd \ {b}])
           \/ EditOntology([o EXCEPT !.odd = Toggled(o.odd, b), !.loose = o.loose \ {b}])
    BY <1>7 DEF Reformat, o
  <2>2. /\ Toggled(o.loose, b) \in SUBSET AllBlocks /\ o.odd \ {b} \in SUBSET AllBlocks
        /\ Toggled(o.odd, b) \in SUBSET AllBlocks /\ o.loose \ {b} \in SUBSET AllBlocks
    BY <1>0, ToggledIs DEF Ontologies
  <2>3. ASSUME NEW loose \in SUBSET AllBlocks, NEW odd \in SUBSET AllBlocks
        PROVE  GraphOK([o EXCEPT !.loose = loose, !.odd = odd])
    BY <1>0 DEF GraphOK, Ontologies
  <2>4. /\ GraphOK([o EXCEPT !.loose = Toggled(o.loose, b), !.odd = o.odd \ {b}])
        /\ GraphOK([o EXCEPT !.loose = o.loose \ {b}, !.odd = Toggled(o.odd, b)])
    BY <2>2, <2>3
  <2>5. [o EXCEPT !.odd = Toggled(o.odd, b), !.loose = o.loose \ {b}]
            = [o EXCEPT !.loose = o.loose \ {b}, !.odd = Toggled(o.odd, b)]
    BY <1>0 DEF Ontologies
  <2>. QED
    BY <2>1, <2>4, <2>5, EditOntologyKeeps
<1>. QED
  BY <1>1, <1>2, <1>3, <1>4, <1>5, <1>6, <1>7

\* Each edit of the task.
LEMMA TaskEdits ==
    ASSUME RenderingOK,
           \/ DropStep \/ RepeatStep \/ ForeignStep \/ RenameStep \/ RearrangeStep
           \/ AddValue \/ DropValue \/ ReorderValues \/ EditCsv
    PROVE  RenderingOK'
<1>0. /\ task \in Seq(Step)
      /\ \A i \in DOMAIN task : task[i] \in Step
      /\ DOMAIN ontology.caps \subseteq Tasks
  BY DEF RenderingOK, GraphOK, Ontologies, Tasks
<1>1. CASE DropStep
  <2>1. PICK i \in DOMAIN task :
           HandEdit(SubSeq(task, 1, i - 1) \o SubSeq(task, i + 1, Len(task)))
    BY <1>1 DEF DropStep
  <2>2. SubSeq(task, 1, i - 1) \in Seq(Step) /\ SubSeq(task, i + 1, Len(task)) \in Seq(Step)
    BY <1>0
  <2>3. SubSeq(task, 1, i - 1) \o SubSeq(task, i + 1, Len(task)) \in Seq(Step)
    BY <2>2
  <2>. QED
    BY <2>1, <2>3, HandEditKeeps
<1>2. CASE RepeatStep
  <2>1. PICK i \in DOMAIN task : HandEdit(Append(task, task[i]))
    BY <1>2 DEF RepeatStep
  <2>2. Append(task, task[i]) \in Seq(Step)
    BY <1>0
  <2>. QED
    BY <2>1, <2>2, HandEditKeeps
<1>3. CASE ForeignStep
  <2>1. PICK c \in DOMAIN ontology.caps : HandEdit(Append(task, Invocation(c, "Foreign")))
    BY <1>3 DEF ForeignStep
  <2>2. Invocation(c, "Foreign") \in Step
    <3>1. c \in Tasks /\ "Foreign" \in Name
      BY <1>0 DEF Name
    <3>. QED
      BY <3>1, InvocationIs, Zenon
  <2>3. Append(task, Invocation(c, "Foreign")) \in Seq(Step)
    BY <1>0, <2>2
  <2>. QED
    BY <2>1, <2>3, HandEditKeeps
<1>4. CASE AddValue
  <2>1. PICK i \in DOMAIN task, option \in Options, v \in Rank :
           HandEdit([task EXCEPT ![i].opts[option] = Append(task[i].opts[option], v)])
    BY <1>4 DEF AddValue, Rank
  <2>2. Append(task[i].opts[option], v) \in Seq(Rank)
    BY <1>0 DEF Step
  <2>3. [task EXCEPT ![i].opts[option] = Append(task[i].opts[option], v)] \in Seq(Step)
    BY <1>0, <2>2, StepEdited
  <2>. QED
    BY <2>1, <2>3, HandEditKeeps
<1>5. CASE DropValue
  <2>1. PICK i \in DOMAIN task, option \in Options :
           /\ task[i].opts[option] # <<>>
           /\ HandEdit([task EXCEPT ![i].opts[option] = Tail(task[i].opts[option])])
    BY <1>5 DEF DropValue
  <2>2. Tail(task[i].opts[option]) \in Seq(Rank)
    BY <1>0, <2>1 DEF Step
  <2>3. [task EXCEPT ![i].opts[option] = Tail(task[i].opts[option])] \in Seq(Step)
    BY <1>0, <2>2, StepEdited
  <2>. QED
    BY <2>1, <2>3, HandEditKeeps
<1>6. CASE ReorderValues
  <2>1. PICK i \in DOMAIN task, option \in Options :
           HandEdit([task EXCEPT ![i].opts[option] = Reverse(task[i].opts[option])])
    BY <1>6 DEF ReorderValues
  <2>2. Reverse(task[i].opts[option]) \in Seq(Rank)
    BY <1>0 DEF Step, Reverse
  <2>3. [task EXCEPT ![i].opts[option] = Reverse(task[i].opts[option])] \in Seq(Step)
    BY <1>0, <2>2, StepEdited
  <2>. QED
    BY <2>1, <2>3, HandEditKeeps
<1>7. CASE EditCsv
  <2>0. PICK i \in DOMAIN task : \E csv \in task[i].csv :
           \E other \in {{}, {Append(csv, 3)}, {Reverse(csv)}, {SubSeq(csv, 2, Len(csv))}} :
               HandEdit([task EXCEPT ![i].csv = other])
    BY <1>7 DEF EditCsv
  <2>1. PICK csv \in task[i].csv :
           \E other \in {{}, {Append(csv, 3)}, {Reverse(csv)}, {SubSeq(csv, 2, Len(csv))}} :
               HandEdit([task EXCEPT ![i].csv = other])
    BY <2>0
  <2>2. csv \in Seq(Int)
    BY <1>0 DEF Step
  <2>3. Append(csv, 3) \in Seq(Int) /\ Reverse(csv) \in Seq(Int) /\ SubSeq(csv, 2, Len(csv)) \in Seq(Int)
    BY <2>2 DEF Reverse
  <2>4. Cardinality({}) = 0 /\ \A x : Cardinality({x}) = 1
    BY FS_Singleton, FS_EmptySet, Zenon
  <2>5. \A other \in {{}, {Append(csv, 3)}, {Reverse(csv)}, {SubSeq(csv, 2, Len(csv))}} :
            other \in SUBSET Seq(Int) /\ Cardinality(other) <= 1
    <3>1. ASSUME NEW seq \in Seq(Int)
          PROVE  {seq} \in SUBSET Seq(Int) /\ Cardinality({seq}) <= 1
      <4>1. Cardinality({seq}) = 1
        BY <2>4
      <4>. QED
        BY <4>1
    <3>2. {} \in SUBSET Seq(Int) /\ Cardinality({}) <= 1
      BY <2>4
    <3>. QED
      BY <2>3, <3>1, <3>2
  <2>6. PICK other \in SUBSET Seq(Int) :
           Cardinality(other) <= 1 /\ HandEdit([task EXCEPT ![i].csv = other])
    BY <2>1, <2>5
  <2>7. [task EXCEPT ![i].csv = other] \in Seq(Step)
    BY <1>0, <2>6, StepEdited
  <2>. QED
    BY <2>6, <2>7, HandEditKeeps
<1>8. CASE RenameStep
  <2>1. PICK i \in DOMAIN task :
           HandEdit([task EXCEPT ![i].subject = "Foreign",
                                 ![i].also = task[i].also \cup {task[i].subject}])
    BY <1>8 DEF RenameStep
  <2>2. "Foreign" \in Name /\ task[i].also \cup {task[i].subject} \in SUBSET Name
    BY <1>0 DEF Step, Name
  <2>3. [task EXCEPT ![i].subject = "Foreign",
                     ![i].also = task[i].also \cup {task[i].subject}] \in Seq(Step)
    BY <1>0, <2>2, StepEdited
  <2>. QED
    BY <2>1, <2>3, HandEditKeeps
<1>9. CASE RearrangeStep
  <2>1. PICK i \in DOMAIN task : HandEdit([task EXCEPT ![i].seen = ~task[i].seen])
    BY <1>9 DEF RearrangeStep
  <2>2. [task EXCEPT ![i].seen = ~task[i].seen] \in Seq(Step)
    BY <1>0, StepEdited
  <2>. QED
    BY <2>1, <2>2, HandEditKeeps
<1>. QED
  BY <1>1, <1>2, <1>3, <1>4, <1>5, <1>6, <1>7, <1>8, <1>9

\* An edit counts, and leaves the sources.
LEMMA RenderingEditsVersions ==
    ASSUME VersionsOK, MaxEdits \in Nat, UNCHANGED sources, Edit \/ UNCHANGED edits
    PROVE  VersionsOK'
  BY DEF Edit, VersionsOK, sources

\* What is done to the dependencies leaves each of their files whole.
LEMMA SourceEditsVersions ==
    ASSUME SourcesOK, VersionsOK, MaxEdits \in Nat,
           Upgrade \/ Patch \/ Repin \/ Reanchor \/ RewriteCitation
    PROVE  VersionsOK'
<1>1. Edit
  BY DEF Upgrade, Patch, Repin, Reanchor, RewriteCitation, EditSources
<1>2. edits' \in 0 .. MaxEdits
  BY <1>1 DEF Edit, VersionsOK
<1>4. \A dep \in Deps : Cardinality(files'[dep]) <= 1
  <2>0. Cardinality({}) <= 1 /\ \A x : Cardinality({x}) <= 1
    <3>1. Cardinality({}) = 0 /\ \A x : Cardinality({x}) = 1
      BY FS_Singleton, FS_EmptySet, Zenon
    <3>. QED
      BY <3>1
  <2>1. CASE files' = files
    BY <2>1 DEF VersionsOK
  <2>2. ASSUME NEW dep \in Deps, NEW other, files' = [files EXCEPT ![dep] = other],
               Cardinality(other) <= 1, NEW d \in Deps
        PROVE  Cardinality(files'[d]) <= 1
    <3>1. files'[d] = IF d = dep THEN other ELSE files[d]
      BY <2>2 DEF SourcesOK
    <3>. QED
      BY <2>2, <3>1 DEF VersionsOK
  <2>3. CASE Upgrade
    <3>1. PICK dep \in Deps : \E lines \in files[dep] :
             \E other \in {{}} \cup {{l} : l \in {lines} \cup Shifted(lines)} :
                 files' = [files EXCEPT ![dep] = other]
      BY <2>3 DEF Upgrade
    <3>2. \E other : Cardinality(other) <= 1 /\ files' = [files EXCEPT ![dep] = other]
      BY <2>0, <3>1
    <3>. QED
      BY <2>2, <3>2
  <2>4. CASE Patch
    <3>1. PICK dep \in Deps : \E lines \in files[dep] : \E other \in Shifted(lines) :
             files' = [files EXCEPT ![dep] = {other}]
      BY <2>4 DEF Patch
    <3>. QED
      BY <2>0, <2>2, <3>1
  <2>. QED
    BY <2>1, <2>3, <2>4 DEF Repin, Reanchor, RewriteCitation
<1>5. DOMAIN pins' = DOMAIN Pins
  <2>1. CASE Repin
    BY <2>1 DEF Repin, VersionsOK
  <2>2. CASE pins' = pins
    BY <2>2 DEF VersionsOK
  <2>. QED
    BY <2>1, <2>2 DEF Upgrade, Patch, Reanchor, RewriteCitation
<1>. QED
  BY <1>2, <1>4, <1>5 DEF VersionsOK

\* Every step of the pack keeps the invariant.
LEMMA NextPackInv == SourcesOK /\ PackInv /\ [Next]_vars => PackInv'
<1>. SUFFICES ASSUME SourcesOK, PackInv, [Next]_vars PROVE PackInv'
  OBVIOUS
<1>0. RenderingOK /\ VersionsOK /\ MaxEdits \in Nat
  BY PackAssumption DEF PackInv
<1>1. CASE Sync
  <2>1. Render(ontology) \in Seq(Step)
    BY <1>0, RenderIs DEF RenderingOK
  <2>2. RenderingOK'
    BY <1>0, <1>1, <2>1 DEF Sync, RenderingOK, GraphOK
  <2>3. VersionsOK'
    BY <1>0, <1>1, OtherEdits, RenderingEditsVersions DEF Sync
  <2>. QED
    BY <2>2, <2>3 DEF PackInv
<1>2. CASE \/ ChangeFact \/ ChangeDomain \/ ChangeResource \/ ChangeProperty
           \/ ChangeAdmission \/ ChangeEnum \/ Reformat
  <2>1. Edit
    <3>1. \A o : EditOntology(o) => Edit
      BY DEF EditOntology
    <3>. QED
      BY <1>2, <3>1 DEF ChangeFact, ChangeDomain, ChangeResource, ChangeProperty,
                        ChangeAdmission, ChangeEnum, Reformat
  <2>. QED
    BY <1>0, <1>2, <2>1, OtherEdits, OntologyEdits, RenderingEditsVersions DEF PackInv
<1>3. CASE \/ DropStep \/ RepeatStep \/ ForeignStep \/ RenameStep \/ RearrangeStep
           \/ AddValue \/ DropValue \/ ReorderValues \/ EditCsv
  <2>1. Edit
    <3>1. \A steps : HandEdit(steps) => Edit
      BY DEF HandEdit
    <3>. QED
      BY <1>3, <3>1 DEF DropStep, RepeatStep, ForeignStep, RenameStep, RearrangeStep,
                        AddValue, DropValue, ReorderValues, EditCsv
  <2>. QED
    BY <1>0, <1>3, <2>1, OtherEdits, TaskEdits, RenderingEditsVersions DEF PackInv
<1>4. CASE Upgrade \/ Patch \/ Repin \/ Reanchor \/ RewriteCitation
  <2>1. UNCHANGED rendering
    BY <1>4 DEF Upgrade, Patch, Repin, Reanchor, RewriteCitation, EditSources
  <2>2. RenderingOK'
    BY <1>0, <2>1 DEF rendering, RenderingOK, GraphOK
  <2>. QED
    BY <1>0, <1>4, <2>2, SourceEditsVersions DEF PackInv
<1>5. CASE UNCHANGED vars
  BY <1>0, <1>5 DEF vars, rendering, sources, PackInv, RenderingOK, GraphOK, VersionsOK
<1>. QED
  BY <1>1, <1>2, <1>3, <1>4, <1>5 DEF Next

\* The invariant of the pack.
THEOREM PackInvariant == Spec => []PackInv
<1>1. Init => PackInv
  BY InitPackInv
<1>2. SourcesOK /\ PackInv /\ [Next]_vars => PackInv'
  BY NextPackInv
<1>. QED
  BY <1>1, <1>2, SourcesInvariant, PTL DEF Spec

\* The task and the sources stay what they are made of, however many edits
\* the ontology, the task and the dependencies see.
THEOREM PackTypes == Spec => []TypeOK
<1>1. SourcesOK /\ PackInv => TypeOK
  <2>. SUFFICES ASSUME SourcesOK, PackInv PROVE TypeOK
    OBVIOUS
  <2>1. ontology.facts \subseteq Facts /\ ontology.domains \subseteq Ontology.domains
    BY DEF PackInv, RenderingOK, GraphOK, Ontologies
  <2>2. ASSUME NEW i \in DOMAIN task
        PROVE  /\ task[i].task \in Tasks
               /\ \A option \in Options : task[i].opts[option] \in Seq(Rank)
               /\ Cardinality(task[i].csv) <= 1
    <3>1. task[i] \in Step
      BY DEF PackInv, RenderingOK
    <3>. QED
      BY <3>1 DEF Step
  <2>. QED
    BY <2>1, <2>2 DEF PackInv, RenderingOK, VersionsOK, SourcesOK, TypeOK, Tasks, Rank
<1>. QED
  BY <1>1, SourcesInvariant, PackInvariant, PTL

-----------------------------------------------------------------------------
(* What drift_check.py answers about the order of the values, and about the *)
(* task the template has just rendered.                                     *)

\* The last step of a subject that has one is one of its steps.
LEMMA LastStepIs ==
    ASSUME NEW X, NEW steps \in Seq(X), NEW kind, NEW subject,
           StepsFor(steps, kind, subject) # {}
    PROVE  \E i \in StepsFor(steps, kind, subject) : LastStep(steps, kind, subject) = steps[i]
<1>. DEFINE own == StepsFor(steps, kind, subject)
<1>1. own \in SUBSET Int /\ own \in SUBSET (1 .. Len(steps)) /\ Len(steps) \in Nat
  BY DEF StepsFor
<1>2. IsFiniteSet(own)
  BY <1>1, IndicesAreFinite, FS_Subset
<1>. HIDE DEF own
<1>3. own # {}
  BY DEF own
<1>4. \E i \in own : \A j \in own : j <= i
  BY <1>1, <1>2, <1>3, GreatestElement
<1>5. (CHOOSE i \in own : \A j \in own : j <= i) \in own
  BY <1>4
<1>. QED
  BY <1>3, <1>5 DEF LastStep, own

\* So what the checker reads of a subject is a step, or nothing.
LEMMA LastStepIsStep ==
    ASSUME NEW steps \in Seq(Step), NEW kind, NEW subject
    PROVE  /\ \A option \in Options : LastStep(steps, kind, subject).opts[option] \in Seq(Rank)
           /\ LastStep(steps, kind, subject).csv \in SUBSET Seq(Int)
<1>1. CASE StepsFor(steps, kind, subject) # {}
  <2>1. PICK i \in StepsFor(steps, kind, subject) : LastStep(steps, kind, subject) = steps[i]
    BY <1>1, LastStepIs
  <2>2. steps[i] \in Step
    BY DEF StepsFor
  <2>. QED
    BY <2>1, <2>2 DEF Step
<1>2. CASE StepsFor(steps, kind, subject) = {}
  <2>1. LastStep(steps, kind, subject) = Invocation(kind, subject)
    BY <1>2 DEF LastStep
  <2>. QED
    BY <2>1 DEF Invocation, NoOpts
<1>. QED
  BY <1>1, <1>2

\* Two sequences with the same values, neither of which repeats one, have the
\* same bag: of them the checker asks for the order.
LEMMA InOrderIsOrder ==
    ASSUME NEW X, NEW found \in Seq(X), NoRepeats(found),
           NEW S \in SUBSET Int, IsFiniteSet(S), Values(found) = S,
           InOrder(found, ProjectedOrder(S))
    PROVE  found = ProjectedOrder(S)
<1>1. Range(found) = S /\ Cardinality(Range(found)) = Len(found)
  BY DEF NoRepeats, Values, Range
<1>2. IsInjective(found)
  BY <1>1, NoRepeatsInjective
<1>3. Range(ProjectedOrder(S)) = S /\ IsInjective(ProjectedOrder(S))
  BY ProjectedIs
<1>4. ToBag(found) = ToBag(ProjectedOrder(S))
  BY <1>1, <1>2, <1>3, ToBagOfInjective
<1>. QED
  BY <1>4 DEF InOrder

\* Nothing to pass is passed in order.
LEMMA NothingIsOrdered ==
    ASSUME NEW X, NEW found \in Seq(X), Values(found) = {}
    PROVE  found = ProjectedOrder({})
<1>1. found = <<>>
  <2>1. \A i \in DOMAIN found : found[i] \in Values(found)
    BY DEF Values
  <2>2. DOMAIN found = {}
    BY <2>1
  <2>3. DOMAIN found = 1 .. Len(found) /\ Len(found) \in Nat
    OBVIOUS
  <2>4. Len(found) = 0
    BY <2>2, <2>3
  <2>. QED
    BY <2>4
<1>2. ProjectedOrder({}) \in Seq({})
  BY ProjectedIs, FS_EmptySet
<1>3. ProjectedOrder({}) = <<>>
  BY <1>2
<1>. QED
  BY <1>1, <1>3

\* When drift_check.py finds no drift, a step that repeats no value passes the
\* default actions of its resource, and the values of its enum, in the
\* projected order: however the ontology was edited and written, and whatever
\* was done to the task by hand.
THEOREM NoDriftIsOrdered == Spec => []NoDriftMeansOrdered
<1>1. PackInv => NoDriftMeansOrdered
  <2>. SUFFICES ASSUME PackInv, NoDrift(ontology, task) PROVE NoDriftMeansOrdered
    BY DEF NoDriftMeansOrdered
  <2>. DEFINE p == Parsed(ontology)
  <2>1. GraphOK(ontology) /\ task \in Seq(Step)
    BY DEF PackInv, RenderingOK
  <2>2. p.facts \in SUBSET Facts
    BY <2>1, ParsedIsPart DEF GraphOK, Ontologies
  <2>3. /\ FactsInvoked(p, task) /\ EnumsInvoked(p, task) /\ ActionsInOrder(p, task)
        /\ ResourcesTraced(p, task) /\ EnumsTraced(p, task)
    BY DEF NoDrift
  <2>4. \A s \in p.supports : \E t \in ontology.supports : s = ReadSupport(ontology, t)
    BY ParsedIsPart
  <2>5. ASSUME NEW r \in p.resources, NoRepeats(OptionOf(task, r, Actions))
        PROVE  OptionOf(task, r, Actions) = ProjectedOrder(FactValues(p.facts, r, Actions))
    <3>. DEFINE passed == OptionOf(task, r, Actions)
                S == FactValues(p.facts, r, Actions)
    <3>. HIDE DEF p
    <3>1. S \in SUBSET Int /\ IsFiniteSet(S)
      BY <2>2, FactValuesAre
    <3>2. passed \in Seq(Rank)
      BY <2>1, LastStepIsStep DEF OptionOf, Options, Actions
    <3>3. r \in Subjects(task, "ash.gen.resource")
      BY <2>3, <2>5 DEF FactsInvoked, StepsFor, Subjects
    <3>4. Values(passed) \subseteq S
      BY <2>3, <3>3 DEF ResourcesTraced, Options, Actions
    <3>5. S \subseteq Values(passed)
      BY <2>3, ReadValuesArePassed
    <3>6. CASE S = {}
      <4>1. Values(passed) = {}
        BY <3>4, <3>6
      <4>. HIDE DEF passed, S
      <4>. QED
        BY <3>2, <3>6, <4>1, NothingIsOrdered DEF passed, S
    <3>7. CASE S # {}
      <4>1. r \in {f.resource : f \in {g \in p.facts : g.option = Actions}}
        BY <3>7 DEF FactValues
      <4>2. InOrder(passed, ProjectedOrder(S))
        BY <2>3, <4>1 DEF ActionsInOrder
      <4>3. NoRepeats(passed) /\ Values(passed) = S
        BY <2>5, <3>4, <3>5
      <4>. HIDE DEF passed, S
      <4>4. passed = ProjectedOrder(S)
        BY <3>1, <3>2, <4>2, <4>3, InOrderIsOrder
      <4>. QED
        BY <4>4 DEF passed, S
    <3>. QED
      BY <3>6, <3>7
  <2>6. ASSUME NEW s \in p.supports, IsEnum(s),
               NEW csv \in LastStep(task, s.task, s.module).csv, NoRepeats(csv)
        PROVE  csv = ProjectedOrder(s.values)
    <3>. DEFINE S == s.values
    <3>0. PICK t \in ontology.supports : s = ReadSupport(ontology, t)
      BY <2>4, <2>6
    <3>1. t \in [module : STRING, task : STRING, values : SUBSET Int] /\ IsFiniteSet(t.values)
      BY <2>1 DEF GraphOK, Ontologies
    <3>2. s.module = t.module /\ S \in {{}, t.values}
      BY <3>0, <3>1, ReadSupportIs
    <3>3. S \in SUBSET Int /\ IsFiniteSet(S)
      BY <3>1, <3>2, FS_EmptySet
    <3>4. csv \in Seq(Int)
      BY <2>1, <2>6, LastStepIsStep
    <3>5. S \subseteq Values(csv) /\ InOrder(csv, ProjectedOrder(S))
      BY <2>3, <2>6 DEF EnumsInvoked
    <3>6. Values(csv) \subseteq S
      <4>1. s.task = "ash.gen.enum"
        BY <2>6 DEF IsEnum
      <4>2. StepsFor(task, s.task, s.module) # {}
        BY <2>6 DEF LastStep, Invocation
      <4>3. s.module \in Subjects(task, "ash.gen.enum")
        BY <4>1, <4>2 DEF StepsFor, Subjects
      <4>4. ASSUME NEW v \in Values(csv) PROVE v \in S
        <5>1. PICK q \in p.supports : q.module = s.module /\ v \in q.values
          BY <2>3, <2>6, <4>1, <4>3 DEF EnumsTraced
        <5>2. PICK u \in ontology.supports : q = ReadSupport(ontology, u)
          BY <2>4, <5>1
        <5>3. u \in [module : STRING, task : STRING, values : SUBSET Int]
          BY <2>1 DEF GraphOK, Ontologies
        <5>4. q.module = u.module
          BY <5>2, <5>3, ReadSupportIs
        <5>5. u = t
          BY <2>1, <3>2, <5>1, <5>4 DEF GraphOK
        <5>. QED
          BY <3>0, <5>1, <5>2, <5>5
      <4>. QED
        BY <4>4
    <3>7. Values(csv) = S /\ NoRepeats(csv) /\ InOrder(csv, ProjectedOrder(S))
      BY <2>6, <3>5, <3>6
    <3>. HIDE DEF S, p
    <3>8. csv = ProjectedOrder(S)
      BY <3>3, <3>4, <3>7, InOrderIsOrder
    <3>. QED
      BY <3>8 DEF S
  <2>. QED
    BY <2>5, <2>6 DEF NoDriftMeansOrdered
<1>. QED
  BY <1>1, PackInvariant, PTL

\* Where a rendered step comes from: a domain or a resource of the gate's, or
\* a support module of the gate's, of which it names nothing else.
LEMMA RenderedStepIs ==
    ASSUME NEW o, GraphOK(o), NEW x \in Rendered(o)
    PROVE  /\ x.also = {} /\ x.seen
           /\ x.task = "ash.gen.domain" =>
                  x.subject \in Complete(o, "Domain", o.domains)
           /\ x.task = "ash.gen.resource" =>
                  /\ x.subject \in Complete(o, "Resource", o.resources)
                  /\ x = ResourceInvocation(GateFacts(o), x.subject)
           /\ x.task \notin Own =>
                  \E s \in GateSupports(o) :
                      /\ x.task = s.task /\ x.subject = s.module
                      /\ x = IF IsEnum(s) THEN EnumInvocation(s) ELSE Invocation(s.task, s.module)
           /\ x.task \in {"ash.gen.domain", "ash.gen.resource"} \/ Admitted(o, x.task)
<1>0. /\ \A s \in o.supports : s.task \notin Own
      /\ o.facts \in SUBSET Facts /\ o.resources \in SUBSET STRING
      /\ DOMAIN o.caps = DOMAIN Ontology.caps
  BY DEF GraphOK, Ontologies
<1>1. CASE x \in Installs(o)
  <2>1. "ash" \in Name /\ "Repo" \in Name /\ "Base" \in Name
    BY DEF Name
  <2>2. \A gen : Admitted(o, gen) => gen \in Tasks
    BY <1>0 DEF Admitted, Tasks
  <2>3. PICK gen \in {"ash.install", "ash_postgres.install", "ash.gen.base_resource"},
             subject \in Name :
           Admitted(o, gen) /\ x = Invocation(gen, subject)
    BY <1>1, <2>1, <2>2, InstalledIs DEF Installs
  <2>4. x.task = gen /\ x.also = {} /\ x.seen
    BY <2>3 DEF Invocation
  <2>. QED
    BY <2>3, <2>4 DEF Own
<1>2. CASE x \in Domains(o)
  <2>1. PICK d \in Complete(o, "Domain", o.domains) : x = Invocation("ash.gen.domain", d)
    BY <1>2 DEF Domains
  <2>2. x.task = "ash.gen.domain" /\ x.subject = d /\ x.also = {} /\ x.seen
    BY <2>1 DEF Invocation
  <2>. QED
    BY <2>2 DEF Own
<1>3. CASE x \in Enums(o)
  <2>1. PICK s \in GateSupports(o) : IsEnum(s) /\ x = EnumInvocation(s)
    BY <1>3 DEF Enums
  <2>2. s \in o.supports /\ Admitted(o, s.task)
    BY GatesSelect
  <2>3. s.task \in Tasks
    BY <1>0, <2>2 DEF Admitted, Tasks
  <2>4. x.task = s.task /\ x.subject = s.module /\ x.also = {} /\ x.seen
    BY <2>1, <2>2, <2>3, EnumInvocationIs
  <2>. QED
    BY <1>0, <2>1, <2>2, <2>4 DEF Own
<1>4. CASE x \in Resources(o)
  <2>1. PICK r \in Complete(o, "Resource", o.resources) : x = ResourceInvocation(GateFacts(o), r)
    BY <1>4 DEF Resources
  <2>2. r \in STRING /\ GateFacts(o) \in SUBSET Facts
    BY <1>0, GatesSelect
  <2>3. x.task = "ash.gen.resource" /\ x.subject = r /\ x.also = {} /\ x.seen
    BY <2>1, <2>2, ResourceInvocationIs
  <2>. QED
    BY <2>1, <2>3 DEF Own
<1>5. CASE x \in Others(o)
  <2>1. PICK s \in GateSupports(o) : ~IsEnum(s) /\ x = Invocation(s.task, s.module)
    BY <1>5 DEF Others
  <2>2. s \in o.supports /\ Admitted(o, s.task)
    BY GatesSelect
  <2>3. x.task = s.task /\ x.subject = s.module /\ x.also = {} /\ x.seen
    BY <2>1 DEF Invocation
  <2>. QED
    BY <1>0, <2>1, <2>2, <2>3 DEF Own
<1>. QED
  BY <1>1, <1>2, <1>3, <1>4, <1>5 DEF Rendered

\* What the checker looks at in the rendered task is what was rendered.
LEMMA RenderedOnly ==
    ASSUME NEW o, GraphOK(o), NEW i \in DOMAIN Render(o)
    PROVE  Render(o)[i] \in Rendered(o)
<1>1. Range(Render(o)) = Rendered(o)
  BY RenderIs
<1>. QED
  BY <1>1 DEF Range

\* A resource that has a step passes what the gate has of it.
LEMMA RenderedOption ==
    ASSUME NEW o, GraphOK(o), NEW r, StepsFor(Render(o), "ash.gen.resource", r) # {}
    PROVE  /\ r \in Complete(o, "Resource", o.resources)
           /\ \A option \in Options :
                  /\ OptionOf(Render(o), r, option)
                         = ProjectedOrder(FactValues(GateFacts(o), r, option))
                  /\ Values(OptionOf(Render(o), r, option)) = FactValues(GateFacts(o), r, option)
<1>. DEFINE steps == Render(o)
<1>1. steps \in Seq(Step)
  BY RenderIs
<1>2. PICK i \in StepsFor(steps, "ash.gen.resource", r) :
         LastStep(steps, "ash.gen.resource", r) = steps[i]
  BY <1>1, LastStepIs
<1>3. steps[i] \in Rendered(o) /\ steps[i].task = "ash.gen.resource" /\ steps[i].subject = r
  BY RenderedOnly DEF StepsFor
<1>4. r \in Complete(o, "Resource", o.resources) /\ steps[i] = ResourceInvocation(GateFacts(o), r)
  BY <1>3, RenderedStepIs
<1>5. r \in STRING /\ GateFacts(o) \in SUBSET Facts
  BY <1>4, GatesSelect DEF GraphOK, Ontologies
<1>6. LastStep(steps, "ash.gen.resource", r) = ResourceInvocation(GateFacts(o), r)
  BY <1>2, <1>4
<1>. QED
  BY <1>4, <1>5, <1>6, ResourceInvocationIs DEF OptionOf

\* A row that a gate drops is drift when the checker reads its block: for
\* every ontology, whatever other blocks it lost, and every edit.
THEOREM DroppedIsDrift == Spec => []DroppedRowIsDrift
<1>1. PackInv => DroppedRowIsDrift
  <2>. SUFFICES ASSUME PackInv, synced, NoDrift(ontology, task) PROVE DroppedRowIsDrift
    BY DEF DroppedRowIsDrift
  <2>. DEFINE o == ontology
              p == Parsed(ontology)
  <2>1. GraphOK(o) /\ task = Render(o)
    BY DEF PackInv, RenderingOK
  <2>2. FactsInvoked(p, task) /\ SupportsInvoked(p, task)
    BY DEF NoDrift
  <2>3. /\ p.facts \subseteq o.facts /\ o.facts \subseteq Facts
        /\ \A s \in p.supports : \E t \in o.supports : s = ReadSupport(o, t)
    BY <2>1, ParsedIsPart DEF GraphOK, Ontologies
  <2>. HIDE DEF o, p
  <2>4. ASSUME NEW d \in p.domains PROVE <<"Domain", d>> \notin o.incomplete
    <3>1. PICK i \in DOMAIN task : /\ task[i].task = "ash.gen.domain"
                                   /\ d \in {task[i].subject} \cup task[i].also
      BY <2>2, <2>4 DEF FactsInvoked, Mentioning
    <3>2. task[i].also = {} /\ task[i].subject \in Complete(o, "Domain", o.domains)
      BY <2>1, <3>1, RenderedOnly, RenderedStepIs
    <3>. QED
      BY <3>1, <3>2 DEF Complete
  <2>5. ASSUME NEW r \in p.resources PROVE r \in Complete(o, "Resource", o.resources)
    BY <2>1, <2>2, <2>5, RenderedOption DEF FactsInvoked
  <2>6. ASSUME NEW f \in p.facts PROVE f \in GateFacts(o)
    <3>1. f \in Facts /\ f.option \in Options
      BY <2>3, <2>6, PackAssumption
    <3>2. f.value \in Values(OptionOf(task, f.resource, f.option))
      BY <2>2, <2>6 DEF FactsInvoked
    <3>3. StepsFor(task, "ash.gen.resource", f.resource) # {}
      BY <2>2, <2>6 DEF FactsInvoked
    <3>4. f.value \in FactValues(GateFacts(o), f.resource, f.option)
      BY <2>1, <3>1, <3>2, <3>3, RenderedOption
    <3>5. PICK g \in GateFacts(o) :
             g.resource = f.resource /\ g.option = f.option /\ g.value = f.value
      BY <3>4 DEF FactValues
    <3>6. g \in Facts
      BY <2>3, <3>5, GatesSelect
    <3>7. g = f
      BY <3>1, <3>5, <3>6, PackAssumption
    <3>. QED
      BY <3>5, <3>7
  <2>7. ASSUME NEW s \in p.supports, Admitted(p, s.task)
        PROVE  /\ <<"SupportModule", s.module>> \notin o.incomplete
               /\ <<"GeneratorCapability", s.task>> \notin o.incomplete
    <3>1. PICK t \in o.supports : s = ReadSupport(o, t)
      BY <2>3, <2>7
    <3>2. s.task = t.task /\ t.task \notin Own
      BY <2>1, <3>1, ReadSupportIs DEF GraphOK, Ontologies
    <3>3. Mentioning(task, s.task, s.module) # {}
      BY <2>2, <2>7 DEF SupportsInvoked
    <3>4. PICK i \in DOMAIN task : /\ task[i].task = s.task
                                   /\ s.module \in {task[i].subject} \cup task[i].also
      BY <3>3 DEF Mentioning
    <3>5. task[i] \in Rendered(o)
      BY <2>1, RenderedOnly
    <3>6. task[i].also = {}
      BY <2>1, <3>5, RenderedStepIs
    <3>7. PICK u \in GateSupports(o) : task[i].task = u.task /\ task[i].subject = u.module
      BY <2>1, <3>2, <3>4, <3>5, RenderedStepIs
    <3>8. u.task = s.task /\ u.module = s.module
      BY <3>4, <3>6, <3>7
    <3>. QED
      BY <3>7, <3>8 DEF GateSupports, GateAdmits
  <2>8. /\ Complete(o, "Domain", p.domains) = p.domains
        /\ Complete(o, "Resource", p.resources) = p.resources
    BY <2>4, <2>5 DEF Complete
  <2>9. p.facts \subseteq GateFacts(o)
    BY <2>6
  <2>10. \A s \in p.supports : Admitted(p, s.task) =>
               /\ <<"SupportModule", s.module>> \notin o.incomplete
               /\ <<"GeneratorCapability", s.task>> \notin o.incomplete
    BY <2>7
  <2>. QED
    BY <2>8, <2>9, <2>10 DEF DroppedRowIsDrift, o, p
<1>. QED
  BY <1>1, PackInvariant, PTL

\* Of a well formed ontology the gates select everything that is admitted,
\* and the checker reads it all.
LEMMA WellFormedIs ==
    ASSUME NEW o, GraphOK(o), WellFormed(o)
    PROVE  /\ Complete(o, "Domain", o.domains) = o.domains
           /\ Complete(o, "Resource", o.resources) = o.resources
           /\ GateFacts(o) = o.facts
           /\ GateSupports(o) = {s \in o.supports : Admitted(o, s.task)}
           /\ Parsed(o).domains = o.domains /\ Parsed(o).resources = o.resources
           /\ Parsed(o).facts = o.facts /\ Parsed(o).supports = o.supports
           /\ \A gen : Admitted(Parsed(o), gen) <=> Admitted(o, gen)
           /\ ~ParseVacuous(o)
<1>0. /\ o.loose = {} /\ o.odd = {} /\ o.incomplete = {}
      /\ \A f \in o.facts : f.resource \in o.resources
      /\ o.supports \in SUBSET [module : STRING, task : STRING, values : SUBSET Int]
      /\ o.caps \in [DOMAIN Ontology.caps -> BOOLEAN]
  BY DEF WellFormed, GraphOK, Ontologies
<1>1. \A class, x : Readable(o, class, x)
  BY <1>0 DEF Readable
<1>2. /\ Complete(o, "Domain", o.domains) = o.domains
      /\ Complete(o, "Resource", o.resources) = o.resources
      /\ GateFacts(o) = o.facts
      /\ GateSupports(o) = {s \in o.supports : Admitted(o, s.task)}
  BY <1>0 DEF Complete, GateFacts, GateSupports, GateAdmits
<1>3. \A s \in o.supports : ReadSupport(o, s) = s
  BY <1>0, <1>1 DEF ReadSupport
<1>4. Parsed(o).supports = o.supports
  <2>1. Parsed(o).supports = {ReadSupport(o, s) : s \in o.supports}
    BY <1>1 DEF Parsed
  <2>. QED
    BY <1>3, <2>1
<1>5. Parsed(o).domains = o.domains /\ Parsed(o).resources = o.resources
  BY <1>1 DEF Parsed
<1>6. Parsed(o).facts = o.facts
  BY <1>0, <1>1 DEF Parsed
<1>7. Parsed(o).caps = o.caps
  <2>1. Parsed(o).caps = [gen \in DOMAIN o.caps |-> o.caps[gen]]
    BY <1>1 DEF Parsed
  <2>. QED
    BY <1>0, <2>1
<1>8. \A gen : Admitted(Parsed(o), gen) <=> Admitted(o, gen)
  BY <1>7, Zenon DEF Admitted
<1>9. ~ParseVacuous(o)
  <2>1. ~Unread(o, "Domain", Parsed(o).domains, o.domains)
    BY <1>5 DEF Unread
  <2>2. ~Unread(o, "Resource", Parsed(o).resources, o.resources)
    BY <1>5 DEF Unread
  <2>3. \A option \in Options : ~Unread(o, option, {f \in Parsed(o).facts : f.option = option},
                                                   {f \in o.facts : f.option = option})
    BY <1>6 DEF Unread
  <2>4. ~Unread(o, "SupportModule", Parsed(o).supports, {s.module : s \in o.supports})
    BY <1>4 DEF Unread
  <2>5. ~Unread(o, "enumValue", UNION {s.values : s \in Parsed(o).supports},
                {s.module : s \in {t \in o.supports : t.values # {}}})
    BY <1>4 DEF Unread
  <2>6. ~Unread(o, "GeneratorCapability", DOMAIN Parsed(o).caps, DOMAIN o.caps)
    BY <1>7 DEF Unread
  <2>. QED
    BY <2>1, <2>2, <2>3, <2>4, <2>5, <2>6 DEF ParseVacuous
<1>. QED
  BY <1>2, <1>4, <1>5, <1>6, <1>8, <1>9

\* The template and the checker agree: what is rendered from a well formed
\* ontology has no drift.
LEMMA RenderingIsClean ==
    ASSUME NEW o, GraphOK(o), WellFormed(o)
    PROVE  NoDrift(o, Render(o))
<1>. DEFINE steps == Render(o)
            p == Parsed(o)
<1>1. steps \in Seq(Step) /\ Range(steps) = Rendered(o) /\ steps # <<>>
  BY RenderIs DEF WellFormed
<1>2. ~ParseVacuous(o)
  BY WellFormedIs
<1>3. /\ p.domains = o.domains /\ p.resources = o.resources /\ p.facts = o.facts
      /\ p.supports = o.supports
      /\ \A gen : Admitted(p, gen) <=> Admitted(o, gen)
  BY WellFormedIs
<1>4. /\ Complete(o, "Domain", o.domains) = o.domains
      /\ Complete(o, "Resource", o.resources) = o.resources
      /\ GateFacts(o) = o.facts
      /\ GateSupports(o) = {s \in o.supports : Admitted(o, s.task)}
  BY WellFormedIs
<1>. HIDE DEF p
<1>5. /\ o.facts \in SUBSET Facts /\ DOMAIN o.caps = DOMAIN Ontology.caps
      /\ o.resources \in SUBSET STRING
      /\ \A f \in o.facts : f.resource \in o.resources
      /\ \A s \in o.supports : IsEnum(s) <=> s.values # {}
      /\ \A s \in o.supports : s.task \notin Own
      /\ o.domains # {} => Admitted(o, "ash.gen.domain")
      /\ o.resources # {} => Admitted(o, "ash.gen.resource")
  BY DEF GraphOK, Ontologies, WellFormed
<1>6. ASSUME NEW i \in DOMAIN steps
      PROVE  steps[i] \in Rendered(o) /\ steps[i].seen /\ Admitted(o, steps[i].task)
  <2>1. steps[i] \in Rendered(o)
    BY RenderedOnly
  <2>2. CASE steps[i].task = "ash.gen.domain"
    <3>1. o.domains # {}
      BY <1>4, <2>1, <2>2, RenderedStepIs
    <3>. QED
      BY <1>5, <2>1, <2>2, <3>1, RenderedStepIs
  <2>3. CASE steps[i].task = "ash.gen.resource"
    <3>1. o.resources # {}
      BY <1>4, <2>1, <2>3, RenderedStepIs
    <3>. QED
      BY <1>5, <2>1, <2>3, <3>1, RenderedStepIs
  <2>4. CASE steps[i].task \notin {"ash.gen.domain", "ash.gen.resource"}
    BY <2>1, <2>4, RenderedStepIs
  <2>. QED
    BY <2>2, <2>3, <2>4
<1>7. ASSUME NEW x \in Rendered(o)
      PROVE  /\ StepsFor(steps, x.task, x.subject) # {}
             /\ Mentioning(steps, x.task, x.subject) # {}
  <2>1. PICK i \in DOMAIN steps : steps[i] = x
    BY <1>1 DEF Range
  <2>2. steps[i].seen
    BY <1>6
  <2>. QED
    BY <2>1, <2>2 DEF StepsFor, Mentioning
<1>8. ASSUME NEW r \in o.resources
      PROVE  /\ StepsFor(steps, "ash.gen.resource", r) # {}
             /\ \A option \in Options :
                    /\ OptionOf(steps, r, option) = ProjectedOrder(FactValues(o.facts, r, option))
                    /\ Values(OptionOf(steps, r, option)) = FactValues(o.facts, r, option)
  <2>. DEFINE x == ResourceInvocation(GateFacts(o), r)
  <2>1. x \in Rendered(o)
    BY <1>4 DEF Rendered, Resources
  <2>2. x.task = "ash.gen.resource" /\ x.subject = r
    <3>1. GateFacts(o) \in SUBSET Facts /\ r \in STRING
      BY <1>4, <1>5
    <3>. QED
      BY <3>1, ResourceInvocationIs
  <2>. HIDE DEF x
  <2>3. StepsFor(steps, "ash.gen.resource", r) # {}
    BY <1>7, <2>1, <2>2
  <2>. QED
    BY <1>4, <2>3, RenderedOption
<1>9. ASSUME NEW m, NEW i \in StepsFor(steps, "ash.gen.enum", m)
      PROVE  \E s \in o.supports :
                 /\ IsEnum(s) /\ s.module = m
                 /\ LastStep(steps, "ash.gen.enum", m).csv = {ProjectedOrder(s.values)}
                 /\ Values(ProjectedOrder(s.values)) = s.values
  <2>1. PICK k \in StepsFor(steps, "ash.gen.enum", m) :
           LastStep(steps, "ash.gen.enum", m) = steps[k]
    BY <1>1, LastStepIs
  <2>2. /\ steps[k] \in Rendered(o) /\ steps[k].task = "ash.gen.enum" /\ steps[k].subject = m
        /\ Admitted(o, "ash.gen.enum")
    BY <1>6 DEF StepsFor
  <2>3. "ash.gen.enum" \notin Own
    BY DEF Own
  <2>4. PICK s \in GateSupports(o) :
           /\ steps[k].task = s.task /\ steps[k].subject = s.module
           /\ steps[k] = IF IsEnum(s) THEN EnumInvocation(s) ELSE Invocation(s.task, s.module)
    BY <2>2, <2>3, RenderedStepIs
  <2>5. s \in o.supports /\ IsEnum(s) /\ s.module = m /\ s.task = "ash.gen.enum"
    BY <2>2, <2>4, GatesSelect DEF IsEnum
  <2>6. s.task \in Tasks
    BY <1>5, <2>2, <2>5 DEF Admitted, Tasks
  <2>7. steps[k] = EnumInvocation(s)
    BY <2>4, <2>5
  <2>8. EnumInvocation(s).csv = {ProjectedOrder(s.values)} /\ Range(ProjectedOrder(s.values)) = s.values
    BY <2>5, <2>6, EnumInvocationIs
  <2>. QED
    BY <2>1, <2>5, <2>7, <2>8 DEF Values, Range
<1>10. FactsInvoked(p, steps)
  <2>1. ASSUME NEW d \in o.domains PROVE Mentioning(steps, "ash.gen.domain", d) # {}
    <3>. DEFINE x == Invocation("ash.gen.domain", d)
    <3>1. x \in Rendered(o) /\ x.task = "ash.gen.domain" /\ x.subject = d
      BY <1>4 DEF Rendered, Domains, Invocation
    <3>. HIDE DEF x
    <3>. QED
      BY <1>7, <3>1
  <2>2. ASSUME NEW f \in o.facts PROVE f.value \in Values(OptionOf(steps, f.resource, f.option))
    <3>1. f.resource \in o.resources /\ f.option \in Options
      BY <1>5, PackAssumption
    <3>2. f.value \in FactValues(o.facts, f.resource, f.option)
      BY DEF FactValues
    <3>. QED
      BY <1>8, <3>1, <3>2
  <2>. HIDE DEF steps
  <2>. QED
    BY <1>3, <1>5, <1>8, <2>1, <2>2 DEF FactsInvoked
<1>11. SupportsInvoked(p, steps)
  <2>1. ASSUME NEW s \in o.supports, Admitted(o, s.task)
        PROVE  Mentioning(steps, s.task, s.module) # {}
    <3>1. s.task \in Tasks /\ s \in GateSupports(o)
      BY <1>4, <1>5, <2>1 DEF Admitted, Tasks
    <3>2. CASE IsEnum(s)
      <4>. DEFINE x == EnumInvocation(s)
      <4>1. x \in Rendered(o)
        BY <3>1, <3>2 DEF Rendered, Enums
      <4>2. x.task = s.task /\ x.subject = s.module
        BY <3>1, EnumInvocationIs
      <4>. HIDE DEF x
      <4>. QED
        BY <1>7, <4>1, <4>2
    <3>3. CASE ~IsEnum(s)
      <4>. DEFINE x == Invocation(s.task, s.module)
      <4>1. x \in Rendered(o)
        BY <3>1, <3>3 DEF Rendered, Others
      <4>2. x.task = s.task /\ x.subject = s.module
        BY DEF Invocation
      <4>. HIDE DEF x
      <4>. QED
        BY <1>7, <4>1, <4>2
    <3>. QED
      BY <3>2, <3>3
  <2>2. ASSUME NEW s \in o.supports, Mentioning(steps, s.task, s.module) # {}
        PROVE  Admitted(o, s.task)
    <3>1. PICK i \in DOMAIN steps : steps[i].task = s.task
      BY <2>2 DEF Mentioning
    <3>. QED
      BY <1>6, <3>1
  <2>. QED
    BY <1>3, <2>1, <2>2 DEF SupportsInvoked
<1>12. EnumsInvoked(p, steps)
  <2>1. ASSUME NEW s \in o.supports, IsEnum(s),
               NEW found \in LastStep(steps, s.task, s.module).csv
        PROVE  s.values \subseteq Values(found) /\ InOrder(found, ProjectedOrder(s.values))
    <3>1. s.task = "ash.gen.enum"
      BY <2>1 DEF IsEnum
    <3>2. PICK i \in StepsFor(steps, "ash.gen.enum", s.module) : TRUE
      BY <2>1, <3>1 DEF LastStep, Invocation
    <3>3. PICK t \in o.supports :
             /\ t.module = s.module
             /\ LastStep(steps, "ash.gen.enum", s.module).csv = {ProjectedOrder(t.values)}
             /\ Values(ProjectedOrder(t.values)) = t.values
      BY <1>9, <3>2
    <3>4. t = s
      BY <3>3 DEF GraphOK
    <3>5. found = ProjectedOrder(s.values) /\ Values(found) = s.values
      BY <2>1, <3>1, <3>3, <3>4
    <3>. QED
      BY <3>5 DEF InOrder
  <2>. QED
    BY <1>3, <1>5, <2>1 DEF EnumsInvoked
<1>13. ActionsInOrder(p, steps)
  <2>1. ASSUME NEW r \in {f.resource : f \in {g \in p.facts : g.option = Actions}}
        PROVE  OptionOf(steps, r, Actions) = ProjectedOrder(FactValues(p.facts, r, Actions))
    <3>1. r \in o.resources
      BY <1>3, <1>5
    <3>. QED
      BY <1>3, <1>8, <3>1 DEF Options, Actions
  <2>. QED
    BY <2>1 DEF ActionsInOrder, InOrder
<1>14. ResourcesTraced(p, steps)
  <2>1. ASSUME NEW r \in Subjects(steps, "ash.gen.resource") PROVE r \in o.resources
    <3>1. PICK i \in DOMAIN steps : steps[i].task = "ash.gen.resource" /\ steps[i].subject = r
      BY DEF Subjects
    <3>. QED
      BY <1>4, <1>6, <3>1, RenderedStepIs
  <2>. QED
    BY <1>3, <1>8, <2>1 DEF ResourcesTraced
<1>15. EnumsTraced(p, steps)
  <2>1. ASSUME NEW m \in Subjects(steps, "ash.gen.enum")
        PROVE  /\ LastStep(steps, "ash.gen.enum", m).csv # {}
               /\ \A found \in LastStep(steps, "ash.gen.enum", m).csv :
                      /\ found # <<>>
                      /\ \A v \in Values(found) :
                             \E s \in p.supports : IsEnum(s) /\ s.module = m /\ v \in s.values
    <3>1. PICK i \in StepsFor(steps, "ash.gen.enum", m) : TRUE
      BY DEF Subjects, StepsFor
    <3>2. PICK s \in o.supports :
             /\ IsEnum(s) /\ s.module = m
             /\ LastStep(steps, "ash.gen.enum", m).csv = {ProjectedOrder(s.values)}
             /\ Values(ProjectedOrder(s.values)) = s.values
      BY <1>9, <3>1
    <3>3. s.values # {}
      BY <1>5, <3>2
    <3>4. ProjectedOrder(s.values) # <<>>
      BY <3>2, <3>3 DEF Values
    <3>. QED
      BY <1>3, <3>2, <3>4
  <2>. QED
    BY <2>1 DEF EnumsTraced
<1>16. TasksTraced(p, steps)
  BY <1>3, <1>6 DEF TasksTraced
<1>17. \E i \in DOMAIN steps : steps[i].seen
  <2>1. 1 \in DOMAIN steps
    BY <1>1
  <2>. QED
    BY <1>6, <2>1
<1>18. /\ ~ParseVacuous(o) /\ \E i \in DOMAIN steps : steps[i].seen
       /\ FactsInvoked(Parsed(o), steps) /\ SupportsInvoked(Parsed(o), steps)
       /\ EnumsInvoked(Parsed(o), steps) /\ ActionsInOrder(Parsed(o), steps)
       /\ ResourcesTraced(Parsed(o), steps) /\ EnumsTraced(Parsed(o), steps)
       /\ TasksTraced(Parsed(o), steps)
  BY <1>2, <1>10, <1>11, <1>12, <1>13, <1>14, <1>15, <1>16, <1>17 DEF p
<1>. HIDE DEF steps
<1>19. NoDrift(o, steps)
  BY <1>18 DEF NoDrift
<1>. QED
  BY <1>19 DEF steps

\* The task that was just rendered from a well formed ontology, after whatever
\* edits, has no drift: the checker finds only what somebody changed.
THEOREM RenderedIsClean == Spec => []RenderedHasNoDrift
<1>1. PackInv => RenderedHasNoDrift
  BY RenderingIsClean DEF PackInv, RenderingOK, RenderedHasNoDrift
<1>. QED
  BY <1>1, PackInvariant, PTL
==============================================================================
