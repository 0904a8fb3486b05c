-------------------------- MODULE MCTransitionLog --------------------------
(***************************************************************************)
(* Small instances of TransitionLog: the calls of MCDirLedger, on a ledger *)
(* of either form.                                                         *)
(***************************************************************************)
EXTENDS TransitionLog, MCDirLedger
=============================================================================
