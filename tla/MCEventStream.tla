------------------------------ MODULE MCEventStream ------------------------------
(* A small instance of EventStream: events of several kinds and sizes, one *)
(* of them larger than a segment of the journal.                           *)
EXTENDS EventStream

MCSize == [k \in Kinds |-> CASE k = "big" -> 3 [] k = "huge" -> 4 [] OTHER -> 1]
=============================================================================
