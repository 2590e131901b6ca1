-------------------------- MODULE MCDayLifecycle --------------------------
(***************************************************************************)
(* Instances of DayLifecycle for TLC.                                      *)
(***************************************************************************)
EXTENDS DayLifecycle
==============================================================================
