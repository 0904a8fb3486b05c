------------------------------ MODULE MCAshPack ------------------------------
(* A small pack for TLC: two resources, one enum, one support module whose  *)
(* generator is refused, two dependencies with a file of three lines each.  *)
EXTENDS AshPack

Fact(r, option, v) == [resource |-> r, option |-> option, value |-> v]

MCOntology ==
    [domains |-> {"Lending"}, resources |-> {"Item", "Loan"},
     facts |-> {Fact("Item", "--default-actions", 1), Fact("Item", "--default-actions", 2),
                Fact("Loan", "--extend", 2)},
     supports |-> {[module |-> "Status", task |-> "ash.gen.enum", values |-> {1, 2}],
                   [module |-> "Check", task |-> "ash.gen.change", values |-> {}]},
     caps |-> [gen \in {"ash.install", "ash.gen.domain", "ash.gen.resource",
                         "ash.gen.enum", "ash.gen.change"} |-> gen # "ash.gen.change"],
     incomplete |-> {}, loose |-> {}, odd |-> {}]
MCFacts == MCOntology.facts \cup {Fact("Loan", "--attribute", 1)}

MCDeps == {"ash", "igniter"}
MCFiles == [ash |-> {<<"strict", "gen", "end">>}, igniter |-> {<<"halt", "end", "end">>}]
MCPins == [PinAsh |-> [dep |-> "ash", version |-> 1],
           PinIgniter |-> [dep |-> "igniter", version |-> 1]]
MCCitations ==
    {[pin |-> "PinAsh", file |-> "ash", first |-> 2, last |-> 2, symbol |-> "gen",
      read |-> TRUE],
     [pin |-> "PinIgniter", file |-> "igniter", first |-> 1, last |-> 2, symbol |-> "halt",
      read |-> TRUE]}

\* Bound: the ontology and its task are edited, or the dependencies and what is
\* cited in them; no action and no property looks at both.
OneSide ==
    \/ ontology = Ontology /\ task = Render(Ontology)
    \/ /\ files = Files /\ pins = Pins /\ citations = Citations
       /\ \A p \in DOMAIN Pins : lock[Pins[p].dep] = Pins[p].version
=============================================================================
