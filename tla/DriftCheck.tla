----------------------------- MODULE DriftCheck -----------------------------
(***************************************************************************)
(* The manufacture task as the template renders it from the ontology       *)
(* (templates/manufacture.ex.eex over the gates' rows), and                *)
(* bin/drift_check.py, which compares the two again on its own.            *)
(*                                                                         *)
(* A fact [resource, option, value] is an attribute, a relationship, an    *)
(* extension or a default action; a value is a number, its rank in the     *)
(* lexical order; a support module is [module, task, values].  A step of   *)
(* the task is [task, subject, also, opts, csv, seen]: subject is the first *)
(* of its arguments, or what the step is for when it has none; also the     *)
(* other plain ones; opts has the values of each option in order, csv those *)
(* of an enum, {} when the argument is missing; seen tells whether its argv *)
(* follows its task as the checker's pattern asks.                          *)
(*                                                                         *)
(* The graph is written in blocks <<class, what it declares>>.  Some are    *)
(* incomplete: they lack a property that only the gate asks for.  Some are  *)
(* not as the checker's strict pattern has them: loose ones its guard still *)
(* detects, odd ones it does not.                                          *)
(***************************************************************************)
EXTENDS Integers, Sequences, SequencesExt, FiniteSets

Options == {"--attribute", "--relationship", "--extend", "--default-actions"}
Actions == "--default-actions"
NoOpts == [option \in Options |-> <<>>]

\* projected_order: the lexical sort.
ProjectedOrder(S) ==
    CHOOSE seq \in [1 .. Cardinality(S) -> S] :
        \A i, j \in DOMAIN seq : i < j => seq[i] < seq[j]
Values(seq) == {seq[i] : i \in DOMAIN seq}

FactValues(facts, resource, option) ==
    {f.value : f \in {g \in facts : g.resource = resource /\ g.option = option}}

\* The blocks a check can read, gate by gate and class by class.
Blocks(o) ==
    ({"Domain"} \X o.domains) \cup ({"Resource"} \X o.resources)
    \cup {<<f.option, f>> : f \in o.facts}
    \cup {<<class, s.module>> : class \in {"SupportModule", "enumValue"}, s \in o.supports}
    \cup ({"GeneratorCapability"} \X DOMAIN o.caps)
Complete(o, class, S) == {x \in S : <<class, x>> \notin o.incomplete}
Readable(o, class, x) == <<class, x>> \notin o.loose \cup o.odd

Admitted(o, task) == task \in DOMAIN o.caps /\ o.caps[task]
IsEnum(s) == s.task = "ash.gen.enum"

-----------------------------------------------------------------------------
(* The template.                                                            *)

Invocation(task, subject) ==
    [task |-> task, subject |-> subject, also |-> {}, opts |-> NoOpts, csv |-> {}, seen |-> TRUE]
\* Mutant: the gate's ORDER BY is gone.
EnumInvocationUnordered(s) ==
    [Invocation(s.task, s.module) EXCEPT !.csv = {Reverse(ProjectedOrder(s.values))}]

EnumInvocation(s) ==
    [Invocation(s.task, s.module) EXCEPT !.csv = {ProjectedOrder(s.values)}]

\* Mutant: an option without values is passed all the same, with "".
ResourceInvocationEmpty(facts, r) ==
    [Invocation("ash.gen.resource", r) EXCEPT !.opts =
        [option \in Options |->
            IF FactValues(facts, r, option) = {} THEN <<0>>
            ELSE ProjectedOrder(FactValues(facts, r, option))]]

ResourceInvocation(facts, r) ==
    [Invocation("ash.gen.resource", r) EXCEPT !.opts =
        [option \in Options |-> ProjectedOrder(FactValues(facts, r, option))]]

\* What the gates select: the facts, the support modules and the admitted
\* generators of complete blocks.
GateFacts(o) == {f \in o.facts : <<f.option, f>> \notin o.incomplete}
GateAdmits(o, task) ==
    Admitted(o, task) /\ <<"GeneratorCapability", task>> \notin o.incomplete
GateSupports(o) ==
    {s \in o.supports : <<"SupportModule", s.module>> \notin o.incomplete /\ GateAdmits(o, s.task)}

Installed(o, task, subject) ==
    IF GateAdmits(o, task) THEN <<Invocation(task, subject)>> ELSE <<>>

\* Domains and resources are rendered whether or not their generator is
\* admitted.
Render(o) ==
    LET others == {s \in GateSupports(o) : ~IsEnum(s)}
    IN  Installed(o, "ash.install", "ash")
        \o Installed(o, "ash_postgres.install", "Repo")
        \o Installed(o, "ash.gen.base_resource", "Base")
        \o SetToSeq({Invocation("ash.gen.domain", d) : d \in Complete(o, "Domain", o.domains)})
        \o SetToSeq({EnumInvocation(s) : s \in GateSupports(o) \ others})
        \o SetToSeq({ResourceInvocation(GateFacts(o), r) :
                         r \in Complete(o, "Resource", o.resources)})
        \o SetToSeq({Invocation(s.task, s.module) : s \in others})
-----------------------------------------------------------------------------
(* The checker.                                                             *)

\* What the strict patterns read of the ontology; a default action is read
\* in the block of its resource.
ReadSupport(o, s) ==
    [s EXCEPT !.values = IF Readable(o, "enumValue", s.module) THEN s.values ELSE {}]
Parsed(o) ==
    LET Read(class, S) == {x \in S : Readable(o, class, x)}
    IN  [domains |-> Read("Domain", o.domains),
         resources |-> Read("Resource", o.resources),
         facts |-> {f \in o.facts :
                        /\ Readable(o, f.option, f)
                        /\ f.option = Actions => f.resource \in Read("Resource", o.resources)},
         supports |-> {ReadSupport(o, s) :
                          s \in {t \in o.supports : Readable(o, "SupportModule", t.module)}},
         caps |-> [task \in Read("GeneratorCapability", DOMAIN o.caps) |-> o.caps[task]]]

\* Mutant: the guards share the strict pattern, so they never fire.
ParseVacuousNever(o) == FALSE

\* guard_class and guard_property: nothing of a class was read, although the
\* loose pattern detects some of it.
Unread(o, class, rows, S) == rows = {} /\ \E x \in S : <<class, x>> \notin o.odd
ParseVacuous(o) ==
    LET p == Parsed(o) IN
    \/ Unread(o, "Domain", p.domains, o.domains)
    \/ Unread(o, "Resource", p.resources, o.resources)
    \/ \E option \in Options : Unread(o, option, {f \in p.facts : f.option = option},
                                        {f \in o.facts : f.option = option})
    \/ Unread(o, "SupportModule", p.supports, {s.module : s \in o.supports})
    \/ Unread(o, "enumValue", UNION {s.values : s \in p.supports},
              {s.module : s \in {t \in o.supports : t.values # {}}})
    \/ Unread(o, "GeneratorCapability", DOMAIN p.caps, DOMAIN o.caps)

\* parse_rendered: only the steps its pattern matches are looked at.
StepsFor(steps, task, subject) ==
    {i \in DOMAIN steps : steps[i].seen /\ steps[i].task = task /\ steps[i].subject = subject}
Subjects(steps, task) ==
    {steps[i].subject : i \in {k \in DOMAIN steps : steps[k].seen /\ steps[k].task = task}}
\* "x in argv", wherever in it.
Mentioning(steps, task, module) ==
    {i \in DOMAIN steps : /\ steps[i].seen /\ steps[i].task = task
                          /\ module \in {steps[i].subject} \cup steps[i].also}

\* by_resource, by_enum_step: the last step of a subject.
LastStep(steps, task, subject) ==
    LET own == StepsFor(steps, task, subject)
    IN  IF own = {} THEN Invocation(task, subject)
        ELSE steps[CHOOSE i \in own : \A j \in own : j <= i]
OptionOf(steps, resource, option) == LastStep(steps, "ash.gen.resource", resource).opts[option]

\* Mutant: the order is looked at only when the numbers of values differ.
InOrderOfOtherLength(found, expected) ==
    Len(found) # Len(expected) => ToBag(found) # ToBag(expected)

\* The same values in another order (sorted(found) == sorted(expected)); a
\* value too many or too few is not a question of order.
InOrder(found, expected) == found # expected => ToBag(found) # ToBag(expected)

\* Mutant: only the resources are looked for in the task.
ResourcesInvoked(p, steps) ==
    \A r \in p.resources : StepsFor(steps, "ash.gen.resource", r) # {}

\* A fact of a resource that was not read is <UNRESOLVED>, in no invocation.
FactsInvoked(p, steps) ==
    /\ \A d \in p.domains : Mentioning(steps, "ash.gen.domain", d) # {}
    /\ \A r \in p.resources : StepsFor(steps, "ash.gen.resource", r) # {}
    /\ \A f \in p.facts : /\ f.resource \in p.resources
                           /\ f.value \in Values(OptionOf(steps, f.resource, f.option))
SupportsInvoked(p, steps) ==
    \A s \in p.supports :
        Admitted(p, s.task) <=> Mentioning(steps, s.task, s.module) # {}
EnumsInvoked(p, steps) ==
    \A s \in p.supports :
        IF ~IsEnum(s) THEN s.values = {}
        ELSE /\ s.values # {}
             /\ \A found \in LastStep(steps, s.task, s.module).csv :
                    /\ s.values \subseteq Values(found)
                    /\ InOrder(found, ProjectedOrder(s.values))
ActionsInOrder(p, steps) ==
    \A r \in {f.resource : f \in {g \in p.facts : g.option = Actions}} :
        InOrder(OptionOf(steps, r, Actions),
                ProjectedOrder(FactValues(p.facts, r, Actions)))

ResourcesTraced(p, steps) ==
    \A r \in Subjects(steps, "ash.gen.resource") :
        /\ r \in p.resources
        /\ \A option \in Options :
               Values(OptionOf(steps, r, option)) \subseteq FactValues(p.facts, r, option)
EnumsTraced(p, steps) ==
    \A m \in Subjects(steps, "ash.gen.enum") :
        LET csv == LastStep(steps, "ash.gen.enum", m).csv IN
        /\ csv # {}
        /\ \A found \in csv :
               /\ found # <<>>
               /\ \A v \in Values(found) :
                      \E s \in p.supports : IsEnum(s) /\ s.module = m /\ v \in s.values
TasksTraced(p, steps) == \A i \in DOMAIN steps : steps[i].seen => Admitted(p, steps[i].task)

NoDrift(o, steps) ==
    LET p == Parsed(o) IN
    /\ ~ParseVacuous(o)
    /\ \E i \in DOMAIN steps : steps[i].seen
    /\ FactsInvoked(p, steps)
    /\ SupportsInvoked(p, steps)
    /\ EnumsInvoked(p, steps)
    /\ ActionsInOrder(p, steps)
    /\ ResourcesTraced(p, steps)
    /\ EnumsTraced(p, steps)
    /\ TasksTraced(p, steps)
=============================================================================
