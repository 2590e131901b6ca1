------------------------- MODULE MCRootScheduler --------------------------
(***************************************************************************)
(* Instances of RootScheduler for TLC.                                     *)
(***************************************************************************)
EXTENDS RootScheduler
===========================================================================
