--------------------------- MODULE AgentLifecycle ---------------------------
(***************************************************************************)
(* The lifecycle of an Agent (tinysoul/agent/sdk.py): the tasks that       *)
(* start, stop and restart it, the worker task that serves its runtime,    *)
(* and the future that wait_for_exit waits for.                            *)
(*                                                                         *)
(* There is one task of a kind at a time; callers join the one they find.  *)
(* A step is what a task does between two awaits.  What a joining caller   *)
(* does after its task has ended changes nothing, but for the caller of an *)
(* explicit shutdown, who cancels the future: asyncio resumes it before    *)
(* anything that could replace the future, and the cancellation is part of *)
(* the step that ends the shutdown.  Its own cancellation is deferred      *)
(* until then (JoinedOperations) and is left out.  Closing a runtime       *)
(* reports its failures as diagnostics and does not raise.                 *)
(***************************************************************************)
EXTENDS Naturals

CONSTANTS
    MaxCalls,     \* bound: calls of start, shutdown and restart from outside
    MaxFailures   \* bound: failed starts and failed runs

ASSUME AgentAssumption == MaxCalls \in Nat /\ MaxFailures \in Nat

VARIABLES
    state,        \* Agent._state
    runtime,      \* Agent._runtime: its number, or 0 for None
    built,        \* how many runtimes were built
    open,         \* the runtimes that are not closed
    accepting,    \* the runtimes that accept work
    worker,       \* Agent._worker: where it is, and how it ends
    completion,   \* Agent._completion
    start,        \* Agent._start_task: where it is, and whether it was cancelled
    shutdown,     \* Agent._shutdown_task
    explicit,     \* a caller from outside has joined it
    restart,      \* Agent._restart_task: like start
    wanted,       \* a start or a restart was begun after the last explicit
                  \* shutdown was called
    calls, failures

runtimes == <<runtime, built, open, accepting>>
bounds   == <<calls, failures>>
vars == <<state, runtimes, worker, completion, start, shutdown, explicit,
          restart, wanted, bounds>>

StartStages    == {"none", "created", "closing", "building", "activating",
                   "cleaning", "done"}
ShutdownStages == {"none", "created", "joining", "closing", "done"}
RestartStages  == {"none", "created", "stopping", "starting", "done"}
WorkerStages   == {"none", "serving", "closing", "ended", "reported"}

TypeOK ==
    /\ state \in {"created", "running", "stopping", "stopped", "faulted"}
    /\ built \in Nat /\ runtime \in 0 .. built
    /\ open \subseteq 1 .. built /\ accepting \subseteq 1 .. built
    /\ worker \in [at : WorkerStages, cancelled : BOOLEAN,
                   ends : {"exit", "error", "cancelled"}]
    /\ completion \in {"none", "pending", "result", "error", "cancelled"}
    /\ start \in [at : StartStages, cancelled : BOOLEAN]
    /\ shutdown \in ShutdownStages /\ explicit \in BOOLEAN
    /\ restart \in [at : RestartStages, cancelled : BOOLEAN]
    /\ wanted \in BOOLEAN
    /\ calls \in Nat /\ failures \in Nat

NoWorker  == [at |-> "none", cancelled |-> FALSE, ends |-> "exit"]
NewWorker == [at |-> "serving", cancelled |-> FALSE, ends |-> "exit"]
Task(at)  == [at |-> at, cancelled |-> FALSE]

\* A task that is there and not done.
Busy(task) == task.at \notin {"none", "done"}

\* task.cancel(), for a task that is not done.
Cancel(task) == IF Busy(task) THEN [task EXCEPT !.cancelled = TRUE] ELSE task

\* Agent.assemble: a runtime is prepared, nothing runs.
Init ==
    /\ state = "created" /\ built = 1 /\ runtime = 1
    /\ open = {1} /\ accepting = {1}
    /\ worker = NoWorker /\ completion = "none"
    /\ start = Task("none") /\ restart = Task("none")
    /\ shutdown = "none" /\ explicit = FALSE /\ wanted = FALSE
    /\ calls = 0 /\ failures = 0

Call == calls < MaxCalls /\ calls' = calls + 1 /\ UNCHANGED failures
Fail == failures < MaxFailures /\ failures' = failures + 1 /\ UNCHANGED calls

-----------------------------------------------------------------------------
\* A cancelled future keeps a result that it has.
Cancelled(future) == IF future = "pending" THEN "cancelled" ELSE future

\* The beginning of a shutdown: nothing is accepted, a start is cancelled.
BeginShutdown ==
    /\ state' = "stopping"
    /\ accepting' = accepting \ {runtime}
    /\ start' = Cancel(start)
    /\ shutdown' = "created"

\* The beginning of a start, by a caller or by the restart.
BeginStart ==
    /\ shutdown' = "none"
    /\ start' = Task("created")

\* start: it is refused during a restart and a shutdown, has nothing to do
\* while the Agent runs, and joins a start that it finds.
CallStart ==
    /\ ~Busy(restart) /\ state \notin {"running", "stopping"} /\ ~Busy(start)
    /\ Call
    /\ BeginStart
    /\ wanted' = TRUE
    /\ UNCHANGED <<state, runtimes, worker, completion, explicit, restart>>

\* MUTANT of CallShutdown: the restart is not cancelled.
ShutdownKeepsRestart ==
    /\ Call
    /\ IF shutdown = "none"
       THEN BeginShutdown
       ELSE UNCHANGED <<state, accepting, start, shutdown>>
    /\ wanted' = FALSE
    /\ explicit' = (shutdown # "done")
    /\ completion' = IF shutdown = "done" THEN Cancelled(completion) ELSE completion
    /\ UNCHANGED <<runtime, built, open, worker, restart>>

\* shutdown from outside: it cancels a restart, and joins a shutdown that it
\* finds.  One that is done ends the wait for the exit at once.
CallShutdown ==
    /\ Call
    /\ restart' = Cancel(restart)
    /\ IF shutdown = "none"
       THEN BeginShutdown
       ELSE UNCHANGED <<state, accepting, start, shutdown>>
    /\ wanted' = FALSE
    /\ explicit' = (shutdown # "done")
    /\ completion' = IF shutdown = "done" THEN Cancelled(completion) ELSE completion
    /\ UNCHANGED <<runtime, built, open, worker>>

\* MUTANT of CallRestart: the shutdown of an earlier restart is taken for its own.
RestartFindsOld ==
    /\ ~Busy(restart)
    /\ Call
    /\ state' = "stopping"
    /\ accepting' = accepting \ {runtime}
    /\ restart' = Task("created")
    /\ wanted' = TRUE
    /\ UNCHANGED <<runtime, built, open, worker, completion, start, shutdown,
                   explicit>>

\* restart: it joins a restart that it finds.
CallRestart ==
    /\ ~Busy(restart)
    /\ Call
    /\ shutdown' = IF shutdown = "done" THEN "none" ELSE shutdown
    /\ state' = "stopping"
    /\ accepting' = accepting \ {runtime}
    /\ restart' = Task("created")
    /\ wanted' = TRUE
    /\ UNCHANGED <<runtime, built, open, worker, completion, start, explicit>>

-----------------------------------------------------------------------------
(* _start.                                                                 *)

Starting(from, to) == start.at = from /\ start' = [start EXCEPT !.at = to]

\* A task that is cancelled before its first step runs none of its code.
StartNever ==
    /\ start.at = "created" /\ start.cancelled
    /\ start' = [start EXCEPT !.at = "done"]
    /\ UNCHANGED <<state, runtimes, worker, completion, shutdown, explicit,
                   restart, wanted, bounds>>

\* The runtime of a run that has ended is closed, a prepared one is activated.
StartBegins ==
    /\ ~start.cancelled
    /\ CASE runtime = 0 -> Starting("created", "building")
         [] runtime # 0 /\ state \in {"stopped", "faulted"} ->
              Starting("created", "closing")
         [] OTHER -> Starting("created", "activating")
    /\ accepting' = IF state \in {"stopped", "faulted"}
                    THEN accepting \ {runtime} ELSE accepting
    /\ UNCHANGED <<state, runtime, built, open, worker, completion, shutdown,
                   explicit, restart, wanted, bounds>>

StartClosed ==
    /\ start.at = "closing" /\ ~start.cancelled
    /\ start' = Task("building")
    /\ open' = open \ {runtime} /\ runtime' = 0
    /\ UNCHANGED <<state, built, accepting, worker, completion, shutdown,
                   explicit, restart, wanted, bounds>>

StartBuilt ==
    /\ Starting("building", "activating") /\ ~start.cancelled
    /\ built' = built + 1 /\ runtime' = built + 1
    /\ open' = open \cup {built + 1} /\ accepting' = accepting \cup {built + 1}
    /\ UNCHANGED <<state, worker, completion, shutdown, explicit, restart,
                   wanted, bounds>>

\* MUTANT of StartActivated: nobody looks whether the Agent is to stop.
StartActivatedBlindly ==
    /\ Starting("activating", "done") /\ ~start.cancelled
    /\ state' = "running"
    /\ worker' = NewWorker
    /\ completion' = "pending"
    /\ UNCHANGED <<runtimes, shutdown, explicit, restart, wanted, bounds>>

\* The runtime is active, and nobody has asked to stop it meanwhile.
StartActivated ==
    /\ Starting("activating", "done") /\ ~start.cancelled /\ state # "stopping"
    /\ state' = "running"
    /\ worker' = NewWorker
    /\ completion' = "pending"
    /\ UNCHANGED <<runtimes, shutdown, explicit, restart, wanted, bounds>>

\* The start is cancelled, or fails: a runtime that is there is cleaned up.
StartFails ==
    /\ start.at \in {"closing", "building", "activating"}
    /\ IF start.cancelled \/ (state = "stopping" /\ start.at = "activating")
       THEN UNCHANGED bounds
       ELSE start.at # "closing" /\ Fail
    /\ start' = [start EXCEPT !.at = IF runtime = 0 THEN "done" ELSE "cleaning"]
    /\ accepting' = accepting \ {runtime}
    /\ state' = IF runtime # 0 \/ state = "stopping" THEN state ELSE "faulted"
    /\ UNCHANGED <<runtime, built, open, worker, completion, shutdown,
                   explicit, restart, wanted>>

StartCleaned ==
    /\ Starting("cleaning", "done")
    /\ open' = open \ {runtime} /\ runtime' = 0
    /\ state' = IF state = "stopping" THEN state ELSE "faulted"
    /\ UNCHANGED <<built, accepting, worker, completion, shutdown, explicit,
                   restart, wanted, bounds>>

-----------------------------------------------------------------------------
(* _serve and its done callback _stopped.                                  *)

\* The dispatcher ends by itself, or sees that the worker was cancelled.
WorkerLeaves ==
    /\ worker.at = "serving"
    /\ \/ worker.cancelled /\ worker' = [worker EXCEPT !.at = "closing"]
          /\ UNCHANGED bounds
       \/ ~worker.cancelled /\ worker' = [worker EXCEPT !.at = "closing"]
          /\ UNCHANGED bounds
       \/ ~worker.cancelled /\ Fail
          /\ worker' = [worker EXCEPT !.at = "closing", !.ends = "error"]
    /\ accepting' = accepting \ {runtime}
    /\ UNCHANGED <<state, runtime, built, open, completion, start, shutdown,
                   explicit, restart, wanted>>

WorkerEnds ==
    /\ worker.at = "closing"
    /\ worker' = [worker EXCEPT
                    !.at = "ended",
                    !.ends = IF worker.cancelled THEN "cancelled" ELSE @]
    /\ UNCHANGED <<state, runtimes, completion, start, shutdown, explicit,
                   restart, wanted, bounds>>

\* MUTANT of Stopped: a worker that was stopped is reported like any other.
StoppedAlways ==
    /\ worker.at = "ended"
    /\ worker' = [worker EXCEPT !.at = "reported"]
    /\ state' = IF worker.ends = "exit" THEN "stopped" ELSE "faulted"
    /\ completion' = IF completion # "pending" THEN completion
                     ELSE IF worker.ends = "exit" THEN "result" ELSE worker.ends
    /\ UNCHANGED <<runtimes, start, shutdown, explicit, restart, wanted, bounds>>

\* Whoever stops the Agent meanwhile has the say on its state and its exit.
Stopped ==
    /\ worker.at = "ended"
    /\ worker' = [worker EXCEPT !.at = "reported"]
    /\ IF state = "stopping"
       THEN UNCHANGED <<state, completion>>
       ELSE /\ state' = IF worker.ends = "exit" THEN "stopped" ELSE "faulted"
            /\ completion' = IF completion # "pending" THEN completion
                             ELSE IF worker.ends = "exit" THEN "result"
                             ELSE worker.ends
    /\ UNCHANGED <<runtimes, start, shutdown, explicit, restart, wanted, bounds>>

-----------------------------------------------------------------------------
(* _shutdown.                                                              *)

\* The start is joined, the sources are paused, the worker is cancelled.
ShutdownCancels ==
    /\ shutdown = "created" /\ ~Busy(start)
    /\ shutdown' = "joining"
    /\ worker' = IF worker.at \in {"serving", "closing"}
                 THEN [worker EXCEPT !.cancelled = TRUE] ELSE worker
    /\ UNCHANGED <<state, runtimes, completion, start, explicit, restart,
                   wanted, bounds>>

ShutdownJoins ==
    /\ shutdown = "joining" /\ worker.at \in {"none", "reported"}
    /\ shutdown' = "closing"
    /\ UNCHANGED <<state, runtimes, worker, completion, start, explicit,
                   restart, wanted, bounds>>

\* The runtime is closed; explicit callers then end the wait for the exit.
ShutdownEnds ==
    /\ shutdown = "closing"
    /\ shutdown' = "done" /\ explicit' = FALSE
    /\ state' = "stopped"
    /\ open' = open \ {runtime} /\ runtime' = 0
    /\ worker' = NoWorker
    /\ completion' = IF explicit THEN Cancelled(completion) ELSE completion
    /\ UNCHANGED <<built, accepting, start, restart, wanted, bounds>>

-----------------------------------------------------------------------------
(* _restart.                                                               *)

RestartNever ==
    /\ restart.at = "created" /\ restart.cancelled
    /\ restart' = [restart EXCEPT !.at = "done"]
    /\ UNCHANGED <<state, runtimes, worker, completion, start, shutdown,
                   explicit, wanted, bounds>>

\* Its own call of shutdown.
RestartStops ==
    /\ restart.at = "created" /\ ~restart.cancelled
    /\ restart' = [restart EXCEPT !.at = "stopping"]
    /\ IF shutdown = "none"
       THEN BeginShutdown
       ELSE UNCHANGED <<state, accepting, start, shutdown>>
    /\ UNCHANGED <<runtime, built, open, worker, completion, explicit, wanted,
                   bounds>>

\* The shutdown has ended; a restart that was cancelled meanwhile ends here.
RestartStarts ==
    /\ restart.at = "stopping" /\ shutdown = "done"
    /\ IF restart.cancelled
       THEN /\ restart' = [restart EXCEPT !.at = "done"]
            /\ UNCHANGED <<start, shutdown>>
       ELSE /\ restart' = [restart EXCEPT !.at = "starting"]
            /\ BeginStart
    /\ UNCHANGED <<state, runtimes, worker, completion, explicit, wanted, bounds>>

RestartEnds ==
    /\ restart.at = "starting" /\ ~Busy(start)
    /\ restart' = [restart EXCEPT !.at = "done"]
    /\ UNCHANGED <<state, runtimes, worker, completion, start, shutdown,
                   explicit, wanted, bounds>>

-----------------------------------------------------------------------------
Calls ==
    CallStart \/ CallShutdown \/ CallRestart
StartStep ==
    \/ StartNever \/ StartBegins \/ StartClosed \/ StartBuilt
    \/ StartActivated \/ StartFails \/ StartCleaned
WorkerStep == WorkerLeaves \/ WorkerEnds \/ Stopped
ShutdownStep == ShutdownCancels \/ ShutdownJoins \/ ShutdownEnds
RestartStep == RestartNever \/ RestartStops \/ RestartStarts \/ RestartEnds

Next == Calls \/ StartStep \/ WorkerStep \/ ShutdownStep \/ RestartStep

\* Every task goes on when what it waits for has come; a worker that was
\* cancelled leaves, and one that leaves ends.  Nobody has to call, and the
\* dispatcher need not end by itself.
Fairness ==
    /\ WF_vars(StartStep) /\ WF_vars(ShutdownStep) /\ WF_vars(RestartStep)
    /\ WF_vars((worker.cancelled /\ WorkerLeaves) \/ WorkerEnds \/ Stopped)

Spec     == Init /\ [][Next]_vars
FairSpec == Spec /\ Fairness

-----------------------------------------------------------------------------
\* (sdk.py:84-86, 175-183, 396-398)  An Agent that says it is running has a
\* runtime that is open and accepts work while its worker serves it: no start
\* completes on a runtime that a shutdown or a restart has stopped meanwhile,
\* and no task of the past takes the runtime or the worker from it.
RunningIsServed ==
    state = "running" =>
        /\ runtime \in open
        /\ worker.at \in {"serving", "closing", "ended"}
        /\ worker.at = "serving" => runtime \in accepting

\* (sdk.py:163-172, 184-209, 366-371)  Every runtime that was built and is not
\* the Agent's is closed: failed and cancelled starts, restarts and shutdowns
\* leave none behind.
NoRuntimeIsLeft == open \subseteq {runtime}

\* (sdk.py:320-334, 391-393)  Once a shutdown was called from outside, the Agent
\* does not run again unless a start or a restart was called after it: a start
\* or a restart in progress does not revive it.
ShutdownIsFinal == state = "running" => wanted

\* (sdk.py:310-318, 340-341, 410-425)  Whoever waits for the exit waits across
\* restarts, failed ones included: the wait ends with the outcome of a run that
\* ended by itself while nobody was stopping the Agent, or with a shutdown that
\* was called from outside.
ExitIsKept ==
    [][completion = "pending" /\ completion' # "pending" =>
         \/ /\ state = "running" /\ worker.ends \in {"exit", "error"}
            /\ completion' = IF worker.ends = "exit" THEN "result" ELSE "error"
         \/ completion' = "cancelled" /\ (explicit \/ shutdown = "done")]_vars

\* (sdk.py:158-160, 337-339, 348-352, 387-393)  The tasks that start, stop and
\* restart the Agent join each other and the worker, and all of them end; the
\* Agent does not stay in the state between.
OperationsEnd ==
    /\ Busy(start) ~> ~Busy(start)
    /\ shutdown \notin {"none", "done"} ~> shutdown \in {"none", "done"}
    /\ Busy(restart) ~> ~Busy(restart)
    /\ state = "stopping" ~> state # "stopping"
=============================================================================
