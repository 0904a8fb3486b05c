-------------------------- MODULE MCQualification --------------------------
(* Values for Qualification: two steps in each phase, one of them guarded, *)
(* one that drains what it queues, and one capability that is not admitted.*)
EXTENDS Qualification

Step(phase, step, task, subject, type, guarded, drains) ==
    [phase |-> phase, step |-> step, task |-> task, subject |-> subject, type |-> type,
     guarded |-> guarded, drains |-> drains]

MCPlan ==
    <<Step("base", "install_ash_postgres", "ash_postgres.install", "Repo", "repo",
           FALSE, <<"ash.codegen">>),
      Step("base", "gen_base_resource", "ash.gen.base_resource", "Resource",
           "ash_base_resource", TRUE, <<>>),
      Step("core", "gen_resource", "ash.gen.resource", "Book", "ash_resource", FALSE, <<>>),
      Step("core", "gen_change", "ash.gen.change", "Change", "ash_support_module", TRUE, <<>>)>>
MCEditedPlan ==
    Append(MCPlan, Step("core", "gen_preparation", "ash.gen.preparation", "Preparation",
                        "ash_support_module", TRUE, <<>>))
MCCaps == [c \in {"ash_postgres.install", "ash.gen.base_resource", "ash.gen.resource",
                  "ash.gen.change", "ash.gen.preparation"} |-> c # "ash.gen.preparation"]
MCModules == {"Repo", "Resource", "Book", "Change", "Preparation"}
MCResetOrder == <<"Repo", "Resource", "Book", "Change", "Preparation", "task", "migration">>
MCShortfalls == {{"Book"}}
=============================================================================
