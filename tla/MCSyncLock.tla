---------------------------- MODULE MCSyncLock ----------------------------
(***************************************************************************)
(* Instances of SyncLock: the invocations of one user, or one of them run  *)
(* by another user, who may not signal the rest and is not signalled.      *)
(***************************************************************************)
EXTENDS SyncLock

CONSTANT Other    \* the invocation of another user

OneUser == Proc \X Proc
TwoUsers == {pair \in Proc \X Proc : (pair[1] = Other) = (pair[2] = Other)}

=============================================================================
