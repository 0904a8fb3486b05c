---------------------------- MODULE StandingLog ----------------------------
(***************************************************************************)
(* What a ledger of standing transitions promises its readers              *)
(* (lib/ggen_igniter/semantic_jira/transition_log.ex, moduledoc): an       *)
(* append-only set of events, each digest and each seq owned by one event. *)
(*                                                                         *)
(* An event is [payload, epoch, seq].  Its digest commits to everything    *)
(* but the seq, so two events with the same payload and epoch are the      *)
(* same event.                                                             *)
(***************************************************************************)
EXTENDS Naturals

VARIABLE log

Digest(e) == [payload |-> e.payload, epoch |-> e.epoch]

Fresh(e) == \A f \in log : f.seq # e.seq /\ Digest(f) # Digest(e)

Init == log = {}

\* One new event appears; nothing is rewritten or removed.
Append == \E e \in log' : Fresh(e) /\ log' = log \cup {e}

Spec == Init /\ [][Append]_log

\* Each event and each seq has a single owner.
SingleOwner ==
    \A e, f \in log : e.seq = f.seq \/ Digest(e) = Digest(f) => e = f

=============================================================================
