----------------------------- MODULE MCConfigControl -----------------------------
(* A small instance of ConfigControl: two documents, two calls of any kind. *)
EXTENDS ConfigControl

CONSTANTS a, b

MCRequests ==
  {[kind |-> "patch", docs |-> {a, b}, value |-> "new"],
   [kind |-> "apply", docs |-> {a, b}, value |-> "new"],
   [kind |-> "reload"], [kind |-> "close"]}
  \cup {[kind |-> k, id |-> p] :
          k \in {"preset", "save_preset", "delete_preset"}, p \in Presets}
=============================================================================
