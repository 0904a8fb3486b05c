---------------------------- MODULE CitationCheck ----------------------------
(***************************************************************************)
(* bin/citation_check.py: do the lines the ontology cites in its           *)
(* dependencies still say what they are cited for?                         *)
(*                                                                         *)
(* files maps a path to {} (not there) or {lines}, lines a sequence of     *)
(* symbols; lock maps each resolved dependency to its version; a pin is    *)
(* [dep, version]; a citation [pin, file, first, last, symbol, read], not  *)
(* read when the checker's pattern does not match it, which no guard       *)
(* misses.                                                                 *)
(***************************************************************************)
EXTENDS Integers, Sequences, FiniteSets

\* pin_drift: a pinned dependency the lock does not resolve, or to another
\* version.  A lock that does not exist resolves none.
Drifted(pins, lock) ==
    {pins[p].dep : p \in {q \in DOMAIN pins : \/ pins[q].dep \notin DOMAIN lock
                                              \/ lock[pins[q].dep] # pins[q].version}}

\* A citation whose pin is not declared belongs to no dependency, and is
\* never suppressed.
DepOf(pins, c) == IF c.pin \in DOMAIN pins THEN {pins[c.pin].dep} ELSE {}
Suppressed(pins, lock, c) == DepOf(pins, c) \cap Drifted(pins, lock) # {}

Anchored(files, c) ==
    \E lines \in files[c.file] :
        /\ 1 <= c.first /\ c.first <= c.last /\ c.last <= Len(lines)
        /\ \E i \in c.first .. c.last : lines[i] = c.symbol

Misses(files, pins, lock, citations) ==
    {c \in citations : c.read /\ ~Suppressed(pins, lock, c) /\ ~Anchored(files, c)}

\* Mutant: the suppressed citations count as checked.
AllAnchoredSuppressed(files, pins, lock, citations) ==
    Misses(files, pins, lock, citations) = {}

AllAnchored(files, pins, lock, citations) ==
    /\ Drifted(pins, lock) = {}
    /\ Misses(files, pins, lock, citations) = {}
=============================================================================
