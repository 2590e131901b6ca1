-------------------------- MODULE MCDayTransition --------------------------
(***************************************************************************)
(* Instances of DayTransition for TLC.                                     *)
(***************************************************************************)
EXTENDS DayTransition
==============================================================================
