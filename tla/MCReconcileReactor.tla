------------------------- MODULE MCReconcileReactor -------------------------
(***************************************************************************)
(* Small instances of ReconcileReactor: two files inside the project root  *)
(* and one outside, two recipes, and the requests whose combinations reach *)
(* every branch of the pipeline.                                           *)
(***************************************************************************)
EXTENDS ReconcileReactor

CONSTANTS a, b, outside, ra, rb, v1, v2, snip

MCSlotted == {v1}

\* A user deletes a file, writes one of their own, or has spliced the snippet in.
MCUserFile == {Absent, Rendered(v2), [base |-> v1, frags |-> {snip}]}

\* Commands and evaluated code write the text without a marker line, anywhere.
MCSideEffect == {Rendered(v2)}

File(path, recipe, text) ==
    [op |-> "file", path |-> path, recipe |-> recipe, text |-> text, skipOn |-> {},
     hooks |-> {}]

\* The same target under `unless_exists: true`.
OnceFile(path, recipe, text) == [File(path, recipe, text) EXCEPT !.skipOn = Content]

Inject(path) == [op |-> "inject", path |-> path, frag |-> snip, hooks |-> {}]
Eval == [op |-> "eval"]
Hooked(target, hooks) == [target EXCEPT !.hooks = hooks]

Ask(targets, onStale, mode) == [targets |-> targets, onStale |-> onStale, mode |-> mode]

\* A fan-out over both files, its renaming to one file under each policy, two
\* recipes that meet on one file, an injection into a file that may have no
\* marker, evaluated code, the refusals, and the dry runs of these.
Everything ==
    LET both == <<File(a, ra, v1), File(b, ra, v1)>>
        one == <<File(b, ra, v1)>>
        mixed == <<File(a, rb, v2), Inject(b), Eval, Eval>>
        hooked == <<Hooked(File(a, ra, v1), Hook), Hooked(Inject(b), {"sh_after"})>>
    IN  {Ask(both, "refuse", "apply"), Ask(both, "refuse", "dry"),
         Ask(one, "refuse", "apply"), Ask(one, "prune", "apply"),
         Ask(one, "preserve", "apply"), Ask(one, "prune", "check"),
         Ask(mixed, "refuse", "apply"), Ask(mixed, "prune", "dry"),
         Ask(hooked, "refuse", "apply"), Ask(hooked, "prune", "dry"),
         Ask(<<OnceFile(a, rb, v1), Inject(b)>>, "refuse", "apply"),
         Ask(<<File(a, ra, v1), Inject(a)>>, "refuse", "apply"),
         Ask(<<File(outside, rb, v1)>>, "refuse", "apply")}

\* A fan-out of `unless_exists` rows, made once and again.
FanOutOnce == {Ask(<<OnceFile(a, ra, v1), OnceFile(b, ra, v1)>>, "refuse", "apply")}

\* A recipe that moves from one file to the other under --on-stale prune.
Rename == {Ask(<<File(a, ra, v1)>>, "prune", "apply"),
           Ask(<<File(b, ra, v1)>>, "prune", "apply")}
=============================================================================
