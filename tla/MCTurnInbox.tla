---------------------------- MODULE MCTurnInbox ----------------------------
(***************************************************************************)
(* Instances of TurnInbox for TLC.                                         *)
(***************************************************************************)
EXTENDS TurnInbox
==============================================================================
