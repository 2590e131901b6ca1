---------------------------- MODULE RootRequests ----------------------------
(***************************************************************************)
(* What the root scheduler promises to whoever submits a request: it is    *)
(* accepted once, withdrawn or run in the order of acceptance, one at a    *)
(* time, and settled exactly once, with an outcome only if it was run.     *)
(* RootScheduler implements it.                                            *)
(***************************************************************************)
EXTENDS Naturals

CONSTANT Requests

VARIABLES
  phase,    \* where each request is
  number,   \* its place in the order of acceptance
  verdict   \* the result its holder waits for

vars == <<phase, number, verdict>>

Init ==
  /\ phase = [r \in Requests |-> "new"]
  /\ number = [r \in Requests |-> 0]
  /\ verdict = [r \in Requests |-> "none"]

\* A batch is accepted as a whole, behind everything accepted before.
Accept(batch) ==
  /\ \A r \in batch : phase[r] = "new"
  /\ phase' = [r \in Requests |-> IF r \in batch THEN "waiting" ELSE phase[r]]
  /\ number' \in [Requests -> Nat]
  /\ \A r \in Requests \ batch : number'[r] = number[r]
  /\ \A r \in batch, q \in Requests :
       q # r => number'[q] # number'[r] /\ (q \notin batch => number'[q] < number'[r])
  /\ UNCHANGED verdict

\* Requests that will not be run any more.
Withdraw(batch) ==
  /\ \A r \in batch : phase[r] = "waiting"
  /\ phase' = [r \in Requests |-> IF r \in batch THEN "withdrawn" ELSE phase[r]]
  /\ UNCHANGED <<number, verdict>>

\* The request that waits longest runs, when no other one does.
Run(r) ==
  /\ phase[r] = "waiting"
  /\ \A q \in Requests : phase[q] # "running"
  /\ \A q \in Requests : phase[q] = "waiting" => number[r] <= number[q]
  /\ phase' = [phase EXCEPT ![r] = "running"]
  /\ UNCHANGED <<number, verdict>>

Settle(r, v) ==
  /\ phase[r] \in {"withdrawn", "running"}
  /\ v = "outcome" => phase[r] = "running"
  /\ phase' = [phase EXCEPT ![r] = "settled"]
  /\ verdict' = [verdict EXCEPT ![r] = v]
  /\ UNCHANGED number

Next ==
  \/ \E batch \in SUBSET Requests : Accept(batch) \/ Withdraw(batch)
  \/ \E r \in Requests : Run(r) \/ \E v \in {"outcome", "cancelled", "failed"} : Settle(r, v)

Spec == Init /\ [][Next]_vars

=============================================================================
