---------------------------- MODULE MCDirLedger ----------------------------
(***************************************************************************)
(* Small instances of DirLedger: three writers, and the combinations of    *)
(* payloads and epoch options whose races differ.                          *)
(***************************************************************************)
EXTENDS DirLedger, TLC

CONSTANTS w1, w2, w3, p, q

Ask(payload, option) == [payload |-> payload, option |-> option]
Asks(a, b, c) == w1 :> a @@ w2 :> b @@ w3 :> c

\* The same event three times; two events and one of them again; a bump that
\* races plain appends; two bumps; explicit epochs that may regress.
Races ==
    {Asks(Ask(p, Stay), Ask(p, Stay), Ask(q, Stay)),
     Asks(Ask(p, Stay), Ask(q, Stay), Ask(q, Bump)),
     Asks(Ask(p, Bump), Ask(q, Bump), Ask(q, Stay)),
     Asks(Ask(p, 2), Ask(q, 1), Ask(p, Bump))}

\* The same event again, and a writer that may fail.
Duplicates == {Asks(Ask(p, Stay), Ask(p, Stay), Ask(p, Stay))}

\* One bump after the other.
Bumps == {Asks(Ask(p, Bump), Ask(q, Bump), Ask(q, Bump))}
=============================================================================
