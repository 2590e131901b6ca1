-------------------------- MODULE MCRuntimeHandle --------------------------
(***************************************************************************)
(* Instances of RuntimeHandle for TLC.                                     *)
(***************************************************************************)
EXTENDS RuntimeHandle
==============================================================================
