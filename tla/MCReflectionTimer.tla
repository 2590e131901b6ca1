-------------------------- MODULE MCReflectionTimer --------------------------
(* Two days and two preflights: a held request outlives midnight and the     *)
(* next due moment, and one preflight can resume the source while the other  *)
(* stops it.  Two preflights never have more than two serve tasks.           *)
EXTENDS ReflectionTimer
=============================================================================
