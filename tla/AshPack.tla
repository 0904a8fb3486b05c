------------------------------- MODULE AshPack -------------------------------
(***************************************************************************)
(* The ash-manufacture-pack under maintenance: somebody edits the ontology,*)
(* renders the task or edits it by hand, and upgrades, patches or re-pins  *)
(* a dependency, in any order.  Its two checks are read in every state.    *)
(***************************************************************************)
EXTENDS DriftCheck, CitationCheck

CONSTANTS
    Ontology,    \* the ontology the pack begins with
    Facts,       \* the facts that may come and go
    Deps,        \* the dependencies, each with one file
    Files,       \* their lines
    Pins,        \* the pin declared for each of them, with its version
    Versions,    \* the versions a dependency may be resolved to
    Citations,   \* what the ontology cites in them
    MaxEdits     \* how many edits are made

\* The blocks the ontology may have, and those of a gate that asks for more
\* than the checker reads.
AllBlocks == Blocks([Ontology EXCEPT !.facts = Facts])
GatedBlocks == {b \in AllBlocks : b[1] \notin {"--extend", Actions, "enumValue"}}

\* What an ontology may become.  A support module is known by its name, by
\* which the gates' rows are joined, and is of a kind of its own.
Ontologies ==
    [domains : SUBSET (Ontology.domains \cap STRING),
     resources : SUBSET (Ontology.resources \cap STRING),
     incomplete : SUBSET GatedBlocks,
     facts : SUBSET Facts,
     supports : SUBSET [module : STRING, task : STRING, values : SUBSET Int],
     caps : [DOMAIN Ontology.caps -> BOOLEAN],
     loose : SUBSET AllBlocks, odd : SUBSET AllBlocks]

ASSUME PackAssumption ==
    /\ Ontology \in Ontologies
    /\ Facts \subseteq [resource : STRING, option : Options, value : Int]
    /\ IsFiniteSet(Facts) /\ IsFiniteSet(Ontology.domains)
    /\ IsFiniteSet(Ontology.resources) /\ IsFiniteSet(Ontology.supports)
    /\ \A s, t \in Ontology.supports : s.module = t.module => s = t
    /\ \A s \in Ontology.supports :
           /\ IsFiniteSet(s.values)
           /\ s.task \notin {"ash.install", "ash_postgres.install", "ash.gen.base_resource",
                             "ash.gen.domain", "ash.gen.resource"}
    /\ Files \in [Deps -> SUBSET Seq(STRING)] /\ \A dep \in Deps : Cardinality(Files[dep]) <= 1
    /\ Pins \in [DOMAIN Pins -> [dep : Deps, version : Versions]]
    /\ Citations \subseteq [pin : STRING, file : Deps, first : Int, last : Int, symbol : STRING,
                            read : BOOLEAN]
    /\ MaxEdits \in Nat

VARIABLES ontology, task, files, lock, pins, citations, edits, synced
rendering == <<ontology, task, synced>>
sources == <<files, lock, pins, citations>>
vars == <<rendering, sources, edits>>

Edit == edits < MaxEdits /\ edits' = edits + 1

\* mix ggen_igniter.sync: the task is rendered from the ontology.
Sync ==
    /\ task' = Render(ontology)
    /\ synced' = TRUE
    /\ UNCHANGED <<ontology, sources, edits>>

EditOntology(o) ==
    /\ Edit
    /\ ontology' = o
    /\ synced' = FALSE
    /\ UNCHANGED <<task, sources>>

Toggled(S, x) == IF x \in S THEN S \ {x} ELSE S \cup {x}

ChangeFact == \E f \in Facts : EditOntology([ontology EXCEPT !.facts = Toggled(@, f)])
ChangeDomain == \E d \in Ontology.domains : EditOntology([ontology EXCEPT !.domains = Toggled(@, d)])
ChangeResource ==
    \E r \in Ontology.resources : EditOntology([ontology EXCEPT !.resources = Toggled(@, r)])
\* A block loses, or gets back, a property that only its gate asks for.
ChangeProperty ==
    \E b \in GatedBlocks : EditOntology([ontology EXCEPT !.incomplete = Toggled(@, b)])
ChangeAdmission ==
    \E c \in DOMAIN Ontology.caps : EditOntology([ontology EXCEPT !.caps[c] = ~@])
ChangeEnum ==
    \E s \in ontology.supports : \E v \in 1 .. 3 :
        EditOntology([ontology EXCEPT !.supports =
                         (@ \ {s}) \cup {[s EXCEPT !.values = Toggled(@, v)]}])
\* A block written another way: the graph is the same.
Reformat ==
    \E b \in AllBlocks :
        \/ EditOntology([ontology EXCEPT !.loose = Toggled(@, b), !.odd = @ \ {b}])
        \/ EditOntology([ontology EXCEPT !.odd = Toggled(@, b), !.loose = @ \ {b}])

\* The rendered task edited by hand.
HandEdit(steps) ==
    /\ Edit
    /\ task' = steps
    /\ synced' = FALSE
    /\ UNCHANGED <<ontology, sources>>

DropStep ==
    \E i \in DOMAIN task :
        HandEdit(SubSeq(task, 1, i - 1) \o SubSeq(task, i + 1, Len(task)))
RepeatStep == \E i \in DOMAIN task : HandEdit(Append(task, task[i]))
ForeignStep ==
    \E c \in DOMAIN ontology.caps : HandEdit(Append(task, Invocation(c, "Foreign")))
\* Another subject before the one that was there.
RenameStep ==
    \E i \in DOMAIN task :
        HandEdit([task EXCEPT ![i].subject = "Foreign",
                              ![i].also = @ \cup {task[i].subject}])
\* Between the task and the argv of a step comes another line, or no more.
RearrangeStep == \E i \in DOMAIN task : HandEdit([task EXCEPT ![i].seen = ~@])
AddValue ==
    \E i \in DOMAIN task, option \in Options, v \in {f.value : f \in Facts} :
        /\ task[i].task = "ash.gen.resource"
        /\ HandEdit([task EXCEPT ![i].opts[option] = Append(@, v)])
DropValue ==
    \E i \in DOMAIN task, option \in Options :
        /\ task[i].opts[option] # <<>>
        /\ HandEdit([task EXCEPT ![i].opts[option] = Tail(@)])
ReorderValues ==
    \E i \in DOMAIN task, option \in Options :
        /\ Len(task[i].opts[option]) > 1
        /\ HandEdit([task EXCEPT ![i].opts[option] = Reverse(@)])
EditCsv ==
    \E i \in DOMAIN task :
        \E csv \in task[i].csv :
            \E other \in {{}, {Append(csv, 3)}, {Reverse(csv)}, {SubSeq(csv, 2, Len(csv))}} :
                HandEdit([task EXCEPT ![i].csv = other])

\* What happens to the dependencies, and to what is said of them.
EditSources == Edit /\ UNCHANGED rendering

Shifted(lines) == {<<"moved">> \o lines, SubSeq(lines, 2, Len(lines))}
\* To a later version, or back to an earlier one.
Upgrade ==
    \E dep \in Deps :
        \E lines \in files[dep] : \E other \in {{}} \cup {{l} : l \in {lines} \cup Shifted(lines)} :
            /\ files' = [files EXCEPT ![dep] = other]
            /\ \E version \in Versions \ {lock[dep]} : lock' = [lock EXCEPT ![dep] = version]
            /\ EditSources /\ UNCHANGED <<pins, citations>>
\* The file changes under an unchanged version: a patched or a path dependency.
Patch ==
    \E dep \in Deps :
        \E lines \in files[dep] : \E other \in Shifted(lines) :
            /\ files' = [files EXCEPT ![dep] = {other}]
            /\ EditSources /\ UNCHANGED <<lock, pins, citations>>
\* A pin declared anew, for the version resolved now or one to come.
Repin ==
    \E p \in DOMAIN pins : \E version \in Versions \ {pins[p].version} :
        /\ pins' = [pins EXCEPT ![p].version = version]
        /\ EditSources /\ UNCHANGED <<files, lock, citations>>
Reanchor ==
    \E c \in citations : \E shift \in {-1, 1} :
        /\ citations' = (citations \ {c}) \cup
                            {[c EXCEPT !.first = @ + shift, !.last = @ + shift]}
        /\ EditSources /\ UNCHANGED <<files, lock, pins>>
RewriteCitation ==
    \E c \in citations :
        /\ citations' = (citations \ {c}) \cup {[c EXCEPT !.read = ~@]}
        /\ EditSources /\ UNCHANGED <<files, lock, pins>>

Init ==
    /\ ontology = Ontology
    /\ task = Render(Ontology) /\ synced = TRUE
    /\ files = Files
    /\ lock \in [Deps -> Versions]
    /\ \A p \in DOMAIN Pins : lock[Pins[p].dep] = Pins[p].version
    /\ pins = Pins
    /\ citations = Citations
    /\ edits = 0

Next ==
    \/ Sync
    \/ ChangeFact \/ ChangeDomain \/ ChangeResource \/ ChangeProperty
    \/ ChangeAdmission \/ ChangeEnum \/ Reformat
    \/ DropStep \/ RepeatStep \/ ForeignStep \/ RenameStep \/ RearrangeStep
    \/ AddValue \/ DropValue \/ ReorderValues \/ EditCsv
    \/ Upgrade \/ Patch \/ Repin \/ Reanchor \/ RewriteCitation

Spec == Init /\ [][Next]_vars

-----------------------------------------------------------------------------
(* Properties.                                                              *)

\* Every option the task passes has values, each the rank of a fact's, and
\* what is cited and pinned stays what it is made of.
TypeOK ==
    /\ ontology.facts \subseteq Facts /\ ontology.domains \subseteq Ontology.domains
    /\ \A i \in DOMAIN task :
           /\ task[i].task \in DOMAIN Ontology.caps \cup {"ash.gen.domain", "ash.gen.resource"}
           /\ \A option \in Options : task[i].opts[option] \in Seq({f.value : f \in Facts})
           /\ Cardinality(task[i].csv) <= 1
    /\ synced \in BOOLEAN
    /\ \A dep \in Deps : Cardinality(files[dep]) <= 1
    /\ lock \in [Deps -> Versions]
    /\ DOMAIN pins = DOMAIN Pins
    /\ edits \in 0 .. MaxEdits

\* Of two steps with one subject the checker reads only the last.
Alone(kind, subject) == \A i, j \in StepsFor(task, kind, subject) : i = j
NoRepeats(seq) == Cardinality(Values(seq)) = Len(seq)

Detected(class, S) == {x \in S : <<class, x>> \notin ontology.odd}

\* When drift_check.py finds no drift, the task says what the checker reads of
\* the ontology, and nothing the ontology does not: every domain, resource and
\* admitted support module it reads has a step that names it; a resource with
\* one step is given every value it reads, and no value the graph does not
\* have; and no step it sees composes a generator that is not admitted.  A
\* class whose blocks its patterns lost one and all is not absent from the
\* task, unless its guards could not detect any of them either.
NoDriftMeansFaithful ==
    NoDrift(ontology, task) =>
        LET p == Parsed(ontology) IN
        /\ \A d \in p.domains : Mentioning(task, "ash.gen.domain", d) # {}
        /\ \A r \in p.resources : StepsFor(task, "ash.gen.resource", r) # {}
        /\ \A r \in Subjects(task, "ash.gen.resource") : \A option \in Options :
               Alone("ash.gen.resource", r) =>
                   \A i \in StepsFor(task, "ash.gen.resource", r) :
                       /\ FactValues(p.facts, r, option) \subseteq Values(task[i].opts[option])
                       /\ Values(task[i].opts[option]) \subseteq
                              FactValues(ontology.facts, r, option)
        /\ \A s \in p.supports : Admitted(p, s.task) =>
               /\ Mentioning(task, s.task, s.module) # {}
               /\ IsEnum(s) /\ Alone(s.task, s.module) =>
                      \A i \in StepsFor(task, s.task, s.module) :
                          \E csv \in task[i].csv : s.values \subseteq Values(csv)
        /\ \A i \in DOMAIN task : task[i].seen => Admitted(ontology, task[i].task)
        /\ Detected("Domain", ontology.domains) # {} => Subjects(task, "ash.gen.domain") # {}
        /\ Detected("Resource", ontology.resources) # {} => Subjects(task, "ash.gen.resource") # {}

\* When drift_check.py finds no drift, a step that is the last of its subject
\* and repeats no value passes the default actions, and the values of the
\* enum, in the projected order; of values that differ it does not ask for
\* an order (drift_check.py:417-420), but then they are drift themselves.
NoDriftMeansOrdered ==
    NoDrift(ontology, task) =>
        LET p == Parsed(ontology) IN
        /\ \A r \in p.resources :
               LET passed == OptionOf(task, r, Actions) IN
               NoRepeats(passed) => passed = ProjectedOrder(FactValues(p.facts, r, Actions))
        /\ \A s \in p.supports : IsEnum(s) =>
               \A csv \in LastStep(task, s.task, s.module).csv :
                   NoRepeats(csv) => csv = ProjectedOrder(s.values)

\* The second opinion: a row that a gate dropped from the task for want of a
\* property is drift when the checker reads its block, whatever else is lost
\* (drift_check.py:34-36, "it can still see a row a conjunctive gate silently
\* dropped").  Capabilities that no support module needs are no such rows: an
\* installer that is dropped is missed by nobody.
DroppedRowIsDrift ==
    synced /\ NoDrift(ontology, task) =>
        LET p == Parsed(ontology) IN
        /\ Complete(ontology, "Domain", p.domains) = p.domains
        /\ Complete(ontology, "Resource", p.resources) = p.resources
        /\ p.facts \subseteq GateFacts(ontology)
        /\ \A s \in p.supports : Admitted(p, s.task) =>
               /\ <<"SupportModule", s.module>> \notin ontology.incomplete
               /\ <<"GeneratorCapability", s.task>> \notin ontology.incomplete

\* What the graph must satisfy for its rendering to be free of drift.
WellFormed(o) ==
    /\ o.loose = {} /\ o.odd = {} /\ o.incomplete = {}
    /\ {f.resource : f \in o.facts} \subseteq o.resources
    /\ o.domains # {} => Admitted(o, "ash.gen.domain")
    /\ o.resources # {} => Admitted(o, "ash.gen.resource")
    /\ \A s \in o.supports : IsEnum(s) <=> s.values # {}
    /\ Render(o) # <<>>

\* The template and the checker, each written on its own, agree: the task
\* just rendered from a well formed ontology has no drift.
RenderedHasNoDrift == synced /\ WellFormed(ontology) => NoDrift(ontology, task)

\* When citation_check.py is green, the lines of every citation it reads are
\* there and have its symbol, whichever citations a drifted pin suppressed on
\* the way.
AnchorsHoldOrRed ==
    AllAnchored(files, pins, lock, citations) =>
        \A c \in citations : c.read =>
            \E lines \in files[c.file] :
                \E i \in c.first .. c.last : i \in DOMAIN lines /\ lines[i] = c.symbol
=============================================================================
