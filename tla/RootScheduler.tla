--------------------------- MODULE RootScheduler ----------------------------
(***************************************************************************)
(* The root scheduler (tinysoul/agent/dispatch/scheduler.py), the handles  *)
(* of its requests (tinysoul/agent/handles.py) and the shutdown of its     *)
(* Agent (tinysoul/agent/sdk.py), as three kinds of task on one event loop:*)
(*                                                                         *)
(*   - the worker, which takes requests from the mailbox, runs each in a   *)
(*     task of its own, settles its handle, and at its end closes what is  *)
(*     left; the shutdown task, which cancels the worker, joins it and     *)
(*     closes again what is left, is its continuation;                     *)
(*   - callers of cancel_request;                                          *)
(*   - one publish task for each handle that is being settled.             *)
(*                                                                         *)
(* One action is what a task does between two suspension points.  Handles  *)
(* are identified by their request, and an identity is accepted once: it   *)
(* does not come back after its handle was evicted.  Submitting a request  *)
(* whose handle is retained returns that handle and changes nothing; a     *)
(* full queue or an unequal duplicate raises and changes nothing.          *)
(***************************************************************************)
EXTENDS Naturals, Sequences, FiniteSets

CONSTANTS
  Requests,    \* identities of User Turn and Reflection requests
  Callers,     \* tasks that cancel requests
  Worker,      \* the worker of the Agent, and its shutdown task
  Nothing,     \* no request
  Exit,        \* the ExitRequest
  Capacity,    \* RootScheduler._capacity
  Retained     \* RootScheduler._retained_outcomes

ASSUME SchedulerAssumption ==
  /\ Worker \notin Callers
  /\ Nothing \notin Requests /\ Exit \notin Requests
  /\ Capacity \in Nat \ {0} /\ Retained \in Nat \ {0}

Tasks == Callers \cup {Worker}
States == {"absent", "queued", "preparing", "finalizing", "finished"}
Ended == {"outcome", "cancelled_outcome", "aborted", "failed"}
Results == {"outcome", "cancelled", "failed"}
Closes == {"serve_close", "shutdown_close", "failed_close"}

VARIABLES
  (* RootScheduler *)
  accepting,   \* _accepting
  exiting,     \* _exit_request is set
  queue,       \* _input_queue
  completed,   \* _completed
  finishing,   \* _finishing: is there a publish task, and has it ended?
  active,      \* _active
  (* the handles, by request *)
  state,       \* TurnHandle.state, "absent" when _handles has none
  cancel,      \* _cancel_requested
  execution,   \* the task bound to the handle: how it ended, if it did
  turn,        \* turn_id, 0 for none
  intended,    \* the result its publish task will set
  result,      \* the result of its Future
  (* allocation of identities *)
  sequence,    \* the persisted high-water mark of the day
  number,      \* history: place in the order of acceptance
  accepted,    \* history: how many were accepted
  (* the tasks *)
  worker,      \* where the worker is suspended
  interrupt,   \* the shutdown's cancellation of the worker
  join,        \* the request whose publish task each task waits for
  woken,       \* tasks whose publish task has ended
  todo         \* handles close_requests has still to visit

schedulerVars == <<accepting, exiting, queue, completed, finishing, active>>
handleVars == <<state, cancel, execution, turn, intended, result>>
numberVars == <<sequence, number, accepted>>
taskVars == <<worker, interrupt, join, woken, todo>>
vars == <<schedulerVars, handleVars, numberVars, taskVars>>

TypeOK ==
  /\ accepting \in BOOLEAN /\ exiting \in BOOLEAN
  /\ queue \in Seq(Requests \cup {Exit})
  /\ completed \in Seq(Requests)
  /\ finishing \in [Requests -> {"none", "publishing", "published"}]
  /\ active \in Requests \cup {Nothing}
  /\ state \in [Requests -> States]
  /\ cancel \in [Requests -> BOOLEAN]
  /\ execution \in [Requests -> Ended \cup {"none", "running"}]
  /\ turn \in [Requests -> Nat]
  /\ intended \in [Requests -> Results \cup {"none"}]
  /\ result \in [Requests -> Results \cup {"none"}]
  /\ sequence \in Nat /\ number \in [Requests -> Nat] /\ accepted \in Nat
  /\ worker \in {"starting", "get", "run", "finish", "leave", "stopped", "closed"} \cup Closes
  /\ interrupt \in {"no", "delivered", "pending", "over"}
  /\ join \in [Tasks -> Requests \cup {Nothing}]
  /\ woken \subseteq Tasks
  /\ todo \subseteq Requests

Init ==
  /\ accepting = TRUE /\ exiting = FALSE
  /\ queue = <<>> /\ completed = <<>> /\ active = Nothing
  /\ finishing = [r \in Requests |-> "none"]
  /\ state = [r \in Requests |-> "absent"]
  /\ cancel = [r \in Requests |-> FALSE]
  /\ execution = [r \in Requests |-> "none"]
  /\ turn = [r \in Requests |-> 0]
  /\ intended = [r \in Requests |-> "none"]
  /\ result = [r \in Requests |-> "none"]
  /\ sequence = 0 /\ number = [r \in Requests |-> 0] /\ accepted = 0
  /\ worker = "starting" /\ interrupt = "no"
  /\ join = [t \in Tasks |-> Nothing] /\ woken = {} /\ todo = {}

InQueue(r) == \E i \in 1 .. Len(queue) : queue[i] = r
\* The handle is known and its Future is not done.
Open(r) == state[r] # "absent" /\ result[r] = "none"

(***************************************************************************)
(* Handles: request_cancel and _finish_handle.                             *)
(***************************************************************************)
\* AsyncMailbox.discard: the first occurrence goes.
Discard(q, r) ==
  LET at == CHOOSE i \in 1 .. Len(q) : q[i] = r /\ \A j \in 1 .. (i - 1) : q[j] # r
  IN  IF \E i \in 1 .. Len(q) : q[i] = r
        THEN [i \in 1 .. (Len(q) - 1) |-> IF i < at THEN q[i] ELSE q[i + 1]]
        ELSE q

\* request_cancel returns True; the flag is set and the bound task cancelled.
Cancellable(r) ==
  /\ Open(r) /\ state[r] # "finalizing"
  /\ execution[r] \notin Ended

\* The task of the active request has been cancelled.
Signalled(r) == cancel[r] \/ interrupt = "delivered"

\* _finish_handle, by task t, up to its first suspension: it starts the
\* publish task of the handle or joins the one it finds.  One that has ended
\* already does not suspend it.
FinishHandle(t, r, res) ==
  \/ /\ result[r] # "none"
     /\ UNCHANGED <<state, finishing, intended, join>>
  \/ /\ result[r] = "none" /\ finishing[r] = "none"
     /\ state' = [state EXCEPT ![r] = "finalizing"]
     /\ finishing' = [finishing EXCEPT ![r] = "publishing"]
     /\ intended' = [intended EXCEPT ![r] = res]
     /\ join' = [join EXCEPT ![t] = r]
  \/ /\ result[r] = "none" /\ finishing[r] = "publishing"
     /\ join' = [join EXCEPT ![t] = r]
     /\ UNCHANGED <<state, finishing, intended>>
  \/ /\ result[r] = "none" /\ finishing[r] = "published"
     /\ finishing' = [finishing EXCEPT ![r] = "none"]
     /\ UNCHANGED <<state, intended, join>>

\* The publish task: TurnHandle.finish, then the retention window.
Publish(r) ==
  /\ finishing[r] = "publishing"
  /\ result[r] = "none"
  /\ result' = [result EXCEPT ![r] = intended[r]]
  /\ finishing' = [finishing EXCEPT ![r] = "published"]
  /\ woken' = woken \cup {t \in Tasks : join[t] = r}
  /\ IF Len(completed) < Retained
       THEN /\ completed' = Append(completed, r)
            /\ state' = [state EXCEPT ![r] = "finished"]
       ELSE /\ completed' = Append(Tail(completed), r)
            /\ state' = [state EXCEPT ![r] = "finished", ![Head(completed)] = "absent"]
  /\ UNCHANGED <<accepting, exiting, queue, active, cancel, execution, turn, intended,
                 numberVars, worker, interrupt, join, todo>>

\* The joined task goes on: _finishing.pop.
Joined(t) ==
  /\ t \in woken
  /\ finishing' = [finishing EXCEPT ![join[t]] = "none"]
  /\ join' = [join EXCEPT ![t] = Nothing]
  /\ woken' = woken \ {t}

(***************************************************************************)
(* Producers and callers.                                                  *)
(***************************************************************************)
Queued == {r \in Requests : state[r] = "queued"}

\* The capacity check of submit_batch.
Room(batch) == Cardinality(Queued) + Len(batch) <= Capacity

\* The members of the batch whose handles are not retained are accepted
\* together, or none is.
Accepted(batch) ==
  /\ accepting
  /\ \A i \in 1 .. Len(batch) : state[batch[i]] = "absent"
  /\ Room(batch)
  /\ LET in(r) == \E i \in 1 .. Len(batch) : batch[i] = r
         at(r) == CHOOSE i \in 1 .. Len(batch) : batch[i] = r
     IN  /\ state' = [r \in Requests |-> IF in(r) THEN "queued" ELSE state[r]]
         /\ cancel' = [r \in Requests |-> ~in(r) /\ cancel[r]]
         /\ execution' = [r \in Requests |-> IF in(r) THEN "none" ELSE execution[r]]
         /\ turn' = [r \in Requests |-> IF in(r) THEN 0 ELSE turn[r]]
         /\ result' = [r \in Requests |-> IF in(r) THEN "none" ELSE result[r]]
         /\ number' = [r \in Requests |-> IF in(r) THEN accepted + at(r) ELSE number[r]]
  /\ queue' = queue \o batch
  /\ accepted' = accepted + Len(batch)
  /\ UNCHANGED <<accepting, exiting, completed, finishing, active, intended, sequence, taskVars>>

\* submit_turn, and the pair of Reflections of a daily trigger.
Batches == {<<r>> : r \in Requests} \cup {p \in Requests \X Requests : p[1] # p[2]}

Submit(batch) ==
  /\ \A i \in 1 .. Len(batch) : number[batch[i]] = 0
  /\ Accepted(batch)

\* MUTANT of RequestExit: the handles are not cancelled.
RequestExitNoCancel ==
  /\ ~exiting /\ accepting
  /\ exiting' = TRUE /\ accepting' = FALSE
  /\ queue' = Append(queue, Exit)
  /\ UNCHANGED <<completed, finishing, active, handleVars, numberVars, taskVars>>

\* request_exit: nothing is accepted or run any more.
RequestExit ==
  /\ ~exiting /\ accepting
  /\ exiting' = TRUE /\ accepting' = FALSE
  /\ cancel' = [r \in Requests |-> cancel[r] \/ Cancellable(r)]
  /\ queue' = Append(queue, Exit)
  /\ UNCHANGED <<completed, finishing, active, state, execution, turn, intended, result,
                 numberVars, taskVars>>

\* MUTANT of CancelRequest: a queued request leaves the queue and is not settled.
CancelRequestForgets(c, r) ==
  /\ join[c] = Nothing /\ Cancellable(r)
  /\ cancel' = [cancel EXCEPT ![r] = TRUE]
  /\ queue' = Discard(queue, r)
  /\ UNCHANGED <<state, finishing, intended, join>>
  /\ UNCHANGED <<accepting, exiting, completed, active, execution, turn, result, numberVars,
                 worker, interrupt, woken, todo>>

\* cancel_request: a queued request leaves the queue and is settled, a
\* running one has its task cancelled.
CancelRequest(c, r) ==
  /\ join[c] = Nothing /\ Cancellable(r)
  /\ cancel' = [cancel EXCEPT ![r] = TRUE]
  /\ IF state[r] = "queued"
       THEN queue' = Discard(queue, r) /\ FinishHandle(c, r, "cancelled")
       ELSE UNCHANGED <<queue, state, finishing, intended, join>>
  /\ UNCHANGED <<accepting, exiting, completed, active, execution, turn, result, numberVars,
                 worker, interrupt, woken, todo>>

\* cancel_request returns.
CallerJoined(c) ==
  /\ Joined(c)
  /\ UNCHANGED <<accepting, exiting, queue, completed, active, handleVars, numberVars,
                 worker, interrupt, todo>>

(***************************************************************************)
(* The task of the active request.                                         *)
(***************************************************************************)
\* allocate_turn and bind_turn, under the day lease.
AllocateTurn ==
  /\ active # Nothing /\ execution[active] = "running"
  /\ turn[active] = 0 /\ state[active] = "preparing"
  /\ sequence' = sequence + 1
  /\ turn' = [turn EXCEPT ![active] = sequence + 1]
  /\ UNCHANGED <<schedulerVars, state, cancel, execution, intended, result, number, accepted,
                 taskVars>>

\* The Turn has fixed how it completes: set_activity(FINALIZING).
Finalizes ==
  /\ active # Nothing /\ execution[active] = "running"
  /\ turn[active] # 0 /\ state[active] = "preparing"
  /\ state' = [state EXCEPT ![active] = "finalizing"]
  /\ UNCHANGED <<schedulerVars, cancel, execution, turn, intended, result, numberVars, taskVars>>

\* How it can end: with an outcome once it was finalized, without one when it
\* was cancelled before or when it raises.
ExecutionEnds(how) ==
  /\ active # Nothing /\ execution[active] = "running"
  /\ how \in {"outcome", "cancelled_outcome"} => state[active] = "finalizing"
  /\ IF Signalled(active) THEN how # "outcome" ELSE how \in {"outcome", "failed"}
  /\ execution' = [execution EXCEPT ![active] = how]
  /\ UNCHANGED <<schedulerVars, state, cancel, turn, intended, result, numberVars, taskVars>>

(***************************************************************************)
(* The worker: RootScheduler.run and _dispatch.                            *)
(***************************************************************************)
\* activate has returned, no shutdown has begun, and the worker waits for a
\* request.
Start ==
  /\ worker = "starting" /\ (accepting \/ exiting)
  /\ worker' = "get"
  /\ UNCHANGED <<schedulerVars, handleVars, numberVars, interrupt, join, woken, todo>>

\* close_requests begins: nothing is accepted, and every handle is visited.
EnterClose(pass) ==
  /\ worker' = pass
  /\ accepting' = FALSE
  /\ todo' = {r \in Requests : state[r] # "absent"}

\* MUTANT of Get: the cancellation of a queued request is not looked at.
GetRunsCancelled ==
  /\ worker = "get" /\ queue # <<>>
  /\ queue' = Tail(queue)
  /\ \/ /\ Head(queue) = Exit /\ EnterClose("serve_close")
        /\ UNCHANGED <<active, state, execution>>
     \/ /\ Head(queue) # Exit
        /\ active' = Head(queue)
        /\ state' = [state EXCEPT ![Head(queue)] = "preparing"]
        /\ execution' = [execution EXCEPT ![Head(queue)] = "running"]
        /\ worker' = "run"
        /\ UNCHANGED <<accepting, todo>>
  /\ UNCHANGED <<exiting, completed, cancel, turn, result, numberVars, interrupt, woken, intended,
                 finishing, join>>

\* The next request: the exit ends the run, a cancelled one is settled, any
\* other one is bound to a task.
Get ==
  /\ worker = "get" /\ queue # <<>>
  /\ queue' = Tail(queue)
  /\ \/ /\ Head(queue) = Exit /\ EnterClose("serve_close")
        /\ UNCHANGED <<active, state, execution, intended, finishing, join>>
     \/ /\ Head(queue) # Exit /\ cancel[Head(queue)]
        /\ FinishHandle(Worker, Head(queue), "cancelled")
        /\ worker' = "finish"
        /\ UNCHANGED <<accepting, todo, active, execution>>
     \/ /\ Head(queue) # Exit /\ ~cancel[Head(queue)]
        /\ active' = Head(queue)
        /\ state' = [state EXCEPT ![Head(queue)] = "preparing"]
        /\ execution' = [execution EXCEPT ![Head(queue)] = "running"]
        /\ worker' = "run"
        /\ UNCHANGED <<accepting, todo, intended, finishing, join>>
  /\ UNCHANGED <<exiting, completed, cancel, turn, result, numberVars, interrupt, woken>>

\* MUTANT of Verdict: a cancelled task always has an outcome.
VerdictAlwaysOutcome ==
  CASE execution[active] \in {"outcome", "failed"} /\ interrupt = "pending" ->
         {<<"cancelled", "leave">>}
    [] execution[active] = "failed" /\ interrupt # "pending" -> {<<"failed", "leave">>}
    [] OTHER -> {<<"outcome", IF interrupt = "no" THEN "finish" ELSE "leave">>}

\* What _dispatch makes of the end of the task, and whether run goes on.  A
\* cancellation of the worker that came after the end hides what the task
\* returned or raised, unless that was a cancellation itself: asyncio keeps the
\* task's own, which has the outcome with it.
Verdict ==
  CASE execution[active] = "cancelled_outcome" ->
         {<<"outcome", "leave">>}
           \cup IF interrupt \in {"delivered", "pending"} THEN {} ELSE {<<"outcome", "finish">>}
    [] execution[active] = "aborted" ->
         {<<"cancelled", IF interrupt \in {"delivered", "pending"} THEN "leave" ELSE "finish">>}
    [] execution[active] = "outcome" /\ interrupt # "pending" ->
         {<<"outcome", "finish">>, <<"outcome", "leave">>}
    [] execution[active] = "failed" /\ interrupt # "pending" -> {<<"failed", "leave">>}
    [] OTHER -> {<<"cancelled", "leave">>}

\* The worker is resumed by the end of the task.
Resumes ==
  /\ worker = "run" /\ execution[active] \in Ended
  /\ \E v \in Verdict : FinishHandle(Worker, active, v[1]) /\ worker' = v[2]
  /\ active' = Nothing
  /\ interrupt' = IF interrupt = "no" THEN "no" ELSE "over"
  /\ UNCHANGED <<accepting, exiting, queue, completed, cancel, execution, turn, result,
                 numberVars, woken, todo>>

\* The handle is settled: run goes on, or ends and leaves the rest to close.
FinishJoined ==
  /\ worker \in {"finish", "leave"} /\ Joined(Worker)
  /\ IF worker = "leave" \/ interrupt = "pending"
       THEN EnterClose("serve_close")
       ELSE worker' = "get" /\ UNCHANGED <<accepting, todo>>
  /\ interrupt' = IF interrupt = "pending" THEN "over" ELSE interrupt
  /\ UNCHANGED <<exiting, queue, completed, active, handleVars, numberVars>>

(***************************************************************************)
(* Closing: close_requests, by the worker and then by the shutdown, or by  *)
(* a start that failed.                                                    *)
(***************************************************************************)
Failure == IF worker = "failed_close" THEN "failed" ELSE "cancelled"

\* Starting fails or is cancelled.
StartFails ==
  /\ worker = "starting"
  /\ \E pass \in {"shutdown_close", "failed_close"} : EnterClose(pass)
  /\ UNCHANGED <<exiting, queue, completed, finishing, active, handleVars, numberVars,
                 interrupt, join, woken>>

\* close_requests visits the next handle.
CloseNext(r) ==
  /\ worker \in Closes /\ join[Worker] = Nothing /\ r \in todo
  /\ todo' = todo \ {r}
  /\ cancel' = [cancel EXCEPT ![r] = cancel[r] \/ (Failure = "cancelled" /\ Cancellable(r))]
  /\ queue' = IF Open(r) THEN Discard(queue, r) ELSE queue
  /\ FinishHandle(Worker, r, Failure)
  /\ UNCHANGED <<accepting, exiting, completed, active, execution, turn, result, numberVars,
                 worker, interrupt, woken>>

\* It goes on, or is cut short by the cancellation of the worker.
CloseJoined ==
  /\ worker \in Closes /\ Joined(Worker)
  /\ worker' = IF interrupt = "pending" THEN "stopped" ELSE worker
  /\ interrupt' = IF interrupt = "pending" THEN "over" ELSE interrupt
  /\ UNCHANGED <<accepting, exiting, queue, completed, active, handleVars, numberVars, todo>>

CloseDone ==
  /\ worker \in Closes /\ join[Worker] = Nothing /\ todo = {}
  /\ worker' = IF worker = "serve_close" THEN "stopped" ELSE "closed"
  /\ UNCHANGED <<schedulerVars, handleVars, numberVars, interrupt, join, woken, todo>>

\* Agent.shutdown begins.
StopAccepting ==
  /\ accepting
  /\ accepting' = FALSE
  /\ UNCHANGED <<exiting, queue, completed, finishing, active, handleVars, numberVars, taskVars>>

\* MUTANT of Interrupt: the task the worker waits for is not cancelled.
InterruptNotForwarded ==
  /\ ~accepting /\ interrupt = "no"
  /\ \/ /\ worker = "get" /\ interrupt' = "over"
        /\ EnterClose("serve_close")
     \/ /\ worker \in {"run", "finish", "leave"} /\ interrupt' = "pending"
        /\ UNCHANGED <<worker, todo, accepting>>
     \/ /\ worker = "serve_close" /\ interrupt' = IF join[Worker] = Nothing THEN "over" ELSE "pending"
        /\ UNCHANGED <<worker, todo, accepting>>
  /\ UNCHANGED <<exiting, queue, completed, finishing, active, handleVars, numberVars, join, woken>>

\* The shutdown cancels the worker, wherever that is suspended.
Interrupt ==
  /\ ~accepting /\ interrupt = "no"
  /\ \/ /\ worker = "get" /\ interrupt' = "over"
        /\ EnterClose("serve_close")
     \/ /\ \/ worker = "run" /\ interrupt' = IF execution[active] = "running" THEN "delivered" ELSE "pending"
           \/ worker \in {"finish", "leave"} /\ interrupt' = "pending"
           \/ worker = "serve_close" /\ interrupt' = IF join[Worker] = Nothing THEN "over" ELSE "pending"
        /\ UNCHANGED <<worker, todo, accepting>>
  /\ UNCHANGED <<exiting, queue, completed, finishing, active, handleVars, numberVars, join, woken>>

\* The worker has ended, and the shutdown closes what is left.
ShutdownCloses ==
  /\ worker = "stopped"
  /\ EnterClose("shutdown_close")
  /\ interrupt' = "over"
  /\ UNCHANGED <<exiting, queue, completed, finishing, active, handleVars, numberVars, join, woken>>

(***************************************************************************)
(* The specification.                                                      *)
(***************************************************************************)
WorkerNext ==
  \/ Start \/ Get \/ Resumes \/ FinishJoined
  \/ StartFails \/ CloseJoined \/ CloseDone \/ StopAccepting \/ Interrupt \/ ShutdownCloses
  \/ \E r \in Requests : CloseNext(r)
ExecutionNext == AllocateTurn \/ Finalizes \/ \E how \in Ended : ExecutionEnds(how)
CallerNext(c) == CallerJoined(c) \/ \E r \in Requests : CancelRequest(c, r)

Next ==
  \/ \E batch \in Batches : Submit(batch)
  \/ RequestExit
  \/ \E c \in Callers : CallerNext(c)
  \/ \E r \in Requests : Publish(r)
  \/ ExecutionNext
  \/ WorkerNext

EndsSoon == active # Nothing /\ (Signalled(active) \/ state[active] = "finalizing")

\* Every task that is ready is run by the event loop.  A Turn may wait for
\* its user for ever, so only one that was cancelled or is being finalized is
\* assumed to end (TurnEnds of TurnInbox).  The shutdown, once it has cancelled
\* the worker, goes on when the worker has ended.
Fairness ==
  /\ \A r \in Requests : WF_vars(Publish(r))
  /\ \A c \in Callers : WF_vars(CallerJoined(c))
  /\ WF_vars(\E how \in Ended : EndsSoon /\ ExecutionEnds(how))
  /\ WF_vars(Start \/ StartFails) /\ WF_vars(Get) /\ WF_vars(Resumes) /\ WF_vars(FinishJoined)
  /\ WF_vars(\E r \in Requests : CloseNext(r)) /\ WF_vars(CloseJoined) /\ WF_vars(CloseDone)
  /\ WF_vars(ShutdownCloses /\ interrupt # "no")

Spec == Init /\ [][Next]_vars
FairSpec == Spec /\ Fairness

(***************************************************************************)
(* Safety.                                                                 *)
(***************************************************************************)
Running(r) == worker = "run" /\ active = r

\* A request that was accepted and is not settled is in exactly one place:
\* once in the mailbox, in the hands of the worker, or with a publish task.
NothingLost ==
  \A r \in Requests : Open(r) =>
    /\ InQueue(r) \/ Running(r) \/ finishing[r] = "publishing"
    /\ InQueue(r) => ~Running(r) /\ finishing[r] # "publishing"
    /\ Running(r) => finishing[r] # "publishing"
    /\ \A i, j \in 1 .. Len(queue) : queue[i] = r /\ queue[j] = r => i = j

\* The mailbox holds open requests only: nobody runs what was settled, and
\* the queue that is counted against the capacity is the one that is served.
QueueIsLive ==
  /\ \A i \in 1 .. Len(queue) :
       queue[i] # Exit => state[queue[i]] = "queued" /\ result[queue[i]] = "none"
  /\ Cardinality(Queued) <= Capacity

\* The retention window is the last settled requests, each once and no more
\* than its limit: an open request is never evicted.
WindowIsSettled ==
  /\ Len(completed) <= Retained
  /\ \A i, j \in 1 .. Len(completed) : completed[i] = completed[j] => i = j
  /\ \A r \in Requests : (\E i \in 1 .. Len(completed) : completed[i] = r)
                            <=> state[r] # "absent" /\ result[r] # "none"

\* A result says how its request went: an outcome is that of a Turn with an
\* identity, nothing fails that did not raise, unless the start failed.
ResultsHaveACause ==
  \A r \in Requests :
    /\ result[r] = "outcome" => execution[r] \in {"outcome", "cancelled_outcome"} /\ turn[r] # 0
    /\ result[r] = "failed" => execution[r] = "failed" \/ (execution[r] = "none" /\ ~accepting)
    /\ result[r] = "cancelled" /\ execution[r] = "none" => cancel[r] /\ turn[r] = 0

\* Turn identities are given out once, in the order of acceptance.
TurnsInOrder ==
  \A r, q \in Requests :
    turn[r] # 0 /\ turn[q] # 0 /\ number[r] < number[q] => turn[r] < turn[q]

\* When the Agent is closed every request it accepted is settled.
ClosedIsSettled ==
  worker = "closed" => ~accepting /\ \A r \in Requests : number[r] # 0 => result[r] # "none"

\* A Turn that returned an outcome is reported with it.
CompletedIsReported ==
  \A r \in Requests :
    execution[r] \in {"outcome", "cancelled_outcome"} /\ result[r] # "none" => result[r] = "outcome"

(***************************************************************************)
(* The abstract specification.                                             *)
(***************************************************************************)
Phase(r) ==
  CASE number[r] = 0 -> "new"
    [] number[r] # 0 /\ result[r] # "none" -> "settled"
    [] number[r] # 0 /\ result[r] = "none" /\ execution[r] # "none" -> "running"
    [] number[r] # 0 /\ result[r] = "none" /\ execution[r] = "none"
         /\ (cancel[r] \/ finishing[r] # "none") -> "withdrawn"
    [] OTHER -> "waiting"
phaseBar == [r \in Requests |-> Phase(r)]

Abs == INSTANCE RootRequests WITH phase <- phaseBar, number <- number, verdict <- result

\* The scheduler implements RootRequests: requests run one at a time, in the
\* order of acceptance, and each is settled once.
ServedInOrder == Abs!Spec

(***************************************************************************)
(* Liveness.                                                               *)
(***************************************************************************)
\* A shutdown comes to its end.
ShutdownEnds == (interrupt # "no") ~> (worker = "closed")
\* An exit request ends the worker, although requests are queued before it.
ExitStops == exiting ~> (worker \in {"stopped", "closed"})

==============================================================================
