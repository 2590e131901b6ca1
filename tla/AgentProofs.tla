------------------------------ MODULE AgentProofs ------------------------------
(***************************************************************************)
(* Theorems of the two state machines of the Agent: AgentLifecycle, for    *)
(* any number of calls and failures, and DayLifecycle (its specification   *)
(* is DaySpec), for any set of service calls and any number of days,       *)
(* failures and cancellations.  Neither uses the other; they stand here    *)
(* side by side.                                                           *)
(***************************************************************************)
EXTENDS AgentLifecycle, DayLifecycle, TLAPS

(***************************************************************************)
(* AgentLifecycle.  The parts of the inductive invariant say what each     *)
(* task may find when it goes on: a start that is under way was not        *)
(* overtaken by a shutdown or a restart unless the state tells it so.      *)
(***************************************************************************)
\* The runtime of the Agent is the only one that is open.
Runtimes ==
    /\ open \subseteq {runtime}
    /\ runtime # 0 => runtime \in open
    /\ start.at = "building" => runtime = 0

\* A worker that has not been reported belongs to an Agent that runs, or that
\* is being stopped; it is cancelled by a shutdown only.
Workers ==
    /\ state \in {"created", "stopped", "faulted"} => worker.at \in {"none", "reported"}
    /\ Busy(start) => worker.at \in {"none", "reported"}
    /\ worker.cancelled /\ worker.at \in {"serving", "closing", "ended"}
         => state = "stopping"
    /\ worker.ends = "cancelled" => worker.cancelled

\* A start that nobody has told to stop may go on with its runtime.
Starts ==
    Busy(start) /\ state # "stopping" =>
        /\ shutdown = "none" /\ ~start.cancelled /\ wanted
        /\ state # "running"
        /\ start.at = "activating" => runtime \in accepting

\* An Agent that has not run yet, and one that runs.
Prepared ==
    state = "created" =>
        /\ runtime # 0 /\ shutdown = "none"
        /\ start.at \notin {"closing", "building"}
        /\ start.at # "cleaning" => runtime \in accepting
Running ==
    state = "running" =>
        /\ runtime # 0 /\ shutdown = "none" /\ ~Busy(start) /\ wanted
        /\ worker.at \in {"serving", "closing", "ended"}
        /\ worker.at = "serving" => runtime \in accepting

\* A shutdown keeps the state, and finds the start and the worker at its end.
Shutdowns ==
    /\ shutdown \in {"created", "joining", "closing"} => state = "stopping"
    /\ shutdown # "none" /\ Busy(start) => shutdown = "created" /\ start.cancelled
    /\ shutdown = "closing" => worker.at \in {"none", "reported"}
    /\ shutdown = "done" => state = "stopped" /\ runtime = 0 /\ worker.at = "none"

\* A restart on its way to the start has stopped the Agent, and is wanted
\* unless it was cancelled.
Restarts ==
    restart.at \in {"created", "stopping"} =>
        /\ state = "stopping" \/ shutdown = "done"
        /\ restart.cancelled \/ wanted
        /\ restart.at = "stopping" => shutdown # "none"

AgentInv ==
    /\ TypeOK
    /\ Runtimes /\ Workers /\ Starts /\ Prepared /\ Running /\ Shutdowns
    /\ Restarts

LEMMA AgentInit == ASSUME Init PROVE AgentInv
  <1>1. TypeOK
    <2>1. /\ worker \in [at : WorkerStages, cancelled : BOOLEAN,
                         ends : {"exit", "error", "cancelled"}]
          /\ start \in [at : StartStages, cancelled : BOOLEAN]
          /\ restart \in [at : RestartStages, cancelled : BOOLEAN]
      BY DEF Init, Task, NoWorker, StartStages, RestartStages, WorkerStages
    <2>2. /\ built \in Nat /\ runtime \in 0 .. built
          /\ open \subseteq 1 .. built /\ accepting \subseteq 1 .. built
          /\ calls \in Nat /\ failures \in Nat
      BY DEF Init
    <2>3. /\ state \in {"created", "running", "stopping", "stopped", "faulted"}
          /\ completion \in {"none", "pending", "result", "error", "cancelled"}
          /\ shutdown \in ShutdownStages
          /\ explicit \in BOOLEAN /\ wanted \in BOOLEAN
      BY DEF Init, ShutdownStages
    <2> QED
      BY <2>1, <2>2, <2>3 DEF TypeOK
  <1>2. Runtimes /\ Workers /\ Starts /\ Prepared /\ Running /\ Shutdowns /\ Restarts
    BY DEF Init, Runtimes, Workers, Starts, Prepared, Running, Shutdowns,
           Restarts, Busy, Task, NoWorker
  <1> QED
    BY <1>1, <1>2 DEF AgentInv

\* Every step keeps the types.
LEMMA TypeStep ==
  ASSUME AgentInv, Next PROVE TypeOK'
  <1> USE DEF AgentInv, TypeOK, StartStages, ShutdownStages, RestartStages,
              WorkerStages, runtimes, bounds
  <1>1. CASE CallStart
    BY <1>1 DEF CallStart, Call, BeginStart, Busy, Task
  <1>2. CASE CallShutdown
    <2>1. start' \in [at : StartStages, cancelled : BOOLEAN]
      BY <1>2 DEF CallShutdown, BeginShutdown, Cancel
    <2>2. restart' \in [at : RestartStages, cancelled : BOOLEAN]
      BY <1>2 DEF CallShutdown, Cancel
    <2>3. accepting' \subseteq 1 .. built'
      BY <1>2 DEF CallShutdown, BeginShutdown
    <2>4. explicit' \in BOOLEAN
      BY <1>2 DEF CallShutdown
    <2>5. /\ state' \in {"created", "running", "stopping", "stopped", "faulted"}
          /\ completion' \in {"none", "pending", "result", "error", "cancelled"}
          /\ shutdown' \in ShutdownStages /\ wanted' \in BOOLEAN
      BY <1>2 DEF CallShutdown, BeginShutdown, Cancelled
    <2>6. built' = built /\ runtime' = runtime /\ open' = open /\ worker' = worker
          /\ calls' \in Nat /\ failures' \in Nat
      BY <1>2 DEF CallShutdown, Call
    <2> QED
      BY <2>1, <2>2, <2>3, <2>4, <2>5, <2>6
  <1>3. CASE CallRestart
    BY <1>3 DEF CallRestart, Call, Busy, Task
  <1>4. CASE StartNever
    BY <1>4 DEF StartNever
  <1>5. CASE StartBegins
    BY <1>5 DEF StartBegins, Starting
  <1>6. CASE StartClosed
    BY <1>6 DEF StartClosed, Task
  <1>7. CASE StartBuilt
    BY <1>7 DEF StartBuilt, Starting
  <1>8. CASE StartActivated
    BY <1>8 DEF StartActivated, Starting, NewWorker
  <1>9. CASE StartFails
    BY <1>9 DEF StartFails, Fail
  <1>10. CASE StartCleaned
    BY <1>10 DEF StartCleaned, Starting
  <1>11. CASE WorkerLeaves
    <2>1. accepting' \subseteq 1 .. built'
      BY <1>11 DEF WorkerLeaves
    <2>2. worker' \in [at : WorkerStages, cancelled : BOOLEAN,
                       ends : {"exit", "error", "cancelled"}]
      BY <1>11 DEF WorkerLeaves
    <2> QED
      BY <1>11, <2>1, <2>2 DEF WorkerLeaves, Fail
  <1>12. CASE WorkerEnds
    <2>1. worker' \in [at : WorkerStages, cancelled : BOOLEAN,
                       ends : {"exit", "error", "cancelled"}]
      BY <1>12 DEF WorkerEnds
    <2> QED
      BY <1>12, <2>1 DEF WorkerEnds
  <1>13. CASE Stopped
    BY <1>13 DEF Stopped
  <1>14. CASE ShutdownCancels
    <2>1. worker' \in [at : WorkerStages, cancelled : BOOLEAN,
                       ends : {"exit", "error", "cancelled"}]
      BY <1>14 DEF ShutdownCancels
    <2> QED
      BY <1>14, <2>1 DEF ShutdownCancels
  <1>15. CASE ShutdownJoins
    BY <1>15 DEF ShutdownJoins
  <1>16. CASE ShutdownEnds
    <2>1. worker' \in [at : WorkerStages, cancelled : BOOLEAN,
                       ends : {"exit", "error", "cancelled"}]
      BY <1>16 DEF ShutdownEnds, NoWorker
    <2>2. runtime' \in 0 .. built' /\ open' \subseteq 1 .. built'
      BY <1>16 DEF ShutdownEnds
    <2>3. completion' \in {"none", "pending", "result", "error", "cancelled"}
      BY <1>16 DEF ShutdownEnds, Cancelled
    <2> QED
      BY <1>16, <2>1, <2>2, <2>3 DEF ShutdownEnds
  <1>17. CASE RestartNever
    BY <1>17 DEF RestartNever
  <1>18. CASE RestartStops
    <2>1. start' \in [at : StartStages, cancelled : BOOLEAN]
      BY <1>18 DEF RestartStops, BeginShutdown, Cancel
    <2>2. restart' \in [at : RestartStages, cancelled : BOOLEAN]
      BY <1>18 DEF RestartStops
    <2>3. accepting' \subseteq 1 .. built'
      BY <1>18 DEF RestartStops, BeginShutdown
    <2> QED
      BY <1>18, <2>1, <2>2, <2>3 DEF RestartStops, BeginShutdown
  <1>19. CASE RestartStarts
    <2>1. start' \in [at : StartStages, cancelled : BOOLEAN]
      <3>1. CASE restart.cancelled
        BY <1>19, <3>1 DEF RestartStarts
      <3>2. CASE ~restart.cancelled
        <4>1. start' = [at |-> "created", cancelled |-> FALSE]
          BY <1>19, <3>2 DEF RestartStarts, BeginStart, Task
        <4> QED
          BY <4>1
      <3> QED
        BY <3>1, <3>2
    <2>2. restart' \in [at : RestartStages, cancelled : BOOLEAN]
      BY <1>19 DEF RestartStarts
    <2> QED
      BY <1>19, <2>1, <2>2 DEF RestartStarts, BeginStart
  <1>20. CASE RestartEnds
    BY <1>20 DEF RestartEnds, Busy
  <1> QED
    BY <1>1, <1>2, <1>3, <1>4, <1>5, <1>6, <1>7, <1>8, <1>9, <1>10, <1>11,
       <1>12, <1>13, <1>14, <1>15, <1>16, <1>17, <1>18, <1>19, <1>20
       DEF Next, Calls, StartStep, WorkerStep, ShutdownStep, RestartStep

\* Every step keeps what the tasks rely on.
LEMMA RelyStep ==
  ASSUME AgentInv, Next
  PROVE  (Runtimes /\ Workers /\ Starts /\ Prepared /\ Running /\ Shutdowns
            /\ Restarts)'
  <1> USE DEF AgentInv, TypeOK, Runtimes, Workers, Starts, Prepared, Running,
              Shutdowns, Restarts, runtimes, bounds, Busy, StartStages,
              ShutdownStages, RestartStages, WorkerStages
  <1>1. CASE CallStart
    BY <1>1 DEF CallStart, Call, BeginStart, Task
  <1>2. CASE CallShutdown
    BY <1>2 DEF CallShutdown, Call, BeginShutdown, Cancelled, Cancel
  <1>3. CASE CallRestart
    BY <1>3 DEF CallRestart, Call, Task
  <1>4. CASE StartNever
    BY <1>4 DEF StartNever
  <1>5. CASE StartBegins
    BY <1>5 DEF StartBegins, Starting
  <1>6. CASE StartClosed
    BY <1>6 DEF StartClosed, Task
  <1>7. CASE StartBuilt
    BY <1>7 DEF StartBuilt, Starting
  <1>8. CASE StartActivated
    BY <1>8 DEF StartActivated, Starting, NewWorker
  <1>9. CASE StartFails
    BY <1>9 DEF StartFails, Fail
  <1>10. CASE StartCleaned
    BY <1>10 DEF StartCleaned, Starting
  <1>11. CASE WorkerLeaves
    <2>1. worker.at = "serving" /\ worker'.at = "closing"
          /\ worker'.cancelled = worker.cancelled
          /\ worker'.ends \in {worker.ends, "error"}
      BY <1>11 DEF WorkerLeaves
    <2>2. /\ state = "running" \/ state = "stopping"
          /\ ~Busy(start)
      BY <2>1
    <2> QED
      BY <1>11, <2>1, <2>2 DEF WorkerLeaves
  <1>12. CASE WorkerEnds
    BY <1>12 DEF WorkerEnds
  <1>13. CASE Stopped
    BY <1>13 DEF Stopped
  <1>14. CASE ShutdownCancels
    BY <1>14 DEF ShutdownCancels
  <1>15. CASE ShutdownJoins
    BY <1>15 DEF ShutdownJoins
  <1>16. CASE ShutdownEnds
    BY <1>16 DEF ShutdownEnds, NoWorker, Cancelled
  <1>17. CASE RestartNever
    BY <1>17 DEF RestartNever
  <1>18. CASE RestartStops
    BY <1>18 DEF RestartStops, BeginShutdown, Cancel
  <1>19. CASE RestartStarts
    BY <1>19 DEF RestartStarts, BeginStart, Task
  <1>20. CASE RestartEnds
    BY <1>20 DEF RestartEnds
  <1> QED
    BY <1>1, <1>2, <1>3, <1>4, <1>5, <1>6, <1>7, <1>8, <1>9, <1>10, <1>11,
       <1>12, <1>13, <1>14, <1>15, <1>16, <1>17, <1>18, <1>19, <1>20
       DEF Next, Calls, StartStep, WorkerStep, ShutdownStep, RestartStep

THEOREM AgentInvariant == Spec => []AgentInv
  <1>1. AgentInv /\ [Next]_vars => AgentInv'
    <2>1. CASE Next
      BY <2>1, TypeStep, RelyStep DEF AgentInv
    <2>2. CASE UNCHANGED vars
      BY <2>2 DEF vars, runtimes, bounds, AgentInv, TypeOK, Runtimes, Workers,
                  Starts, Prepared, Running, Shutdowns, Restarts, Busy
    <2> QED
      BY <2>1, <2>2
  <1> QED
    BY AgentInit, <1>1, PTL DEF Spec

\* The state of the Agent keeps its types, however often it is started and
\* restarted (sdk.py:56-77).
THEOREM AgentTypeCorrect == Spec => []TypeOK
  <1> AgentInv => TypeOK
    BY DEF AgentInv
  <1> QED
    BY AgentInvariant, PTL

\* An Agent that says it is running is served (sdk.py:175-183): a start under
\* way finds its runtime untouched, or sees that the Agent is to stop.
THEOREM AgentRunningIsServed == Spec => []RunningIsServed
  <1> AgentInv => RunningIsServed
    BY DEF AgentInv, Running, Runtimes, RunningIsServed
  <1> QED
    BY AgentInvariant, PTL

\* Every runtime but the one of the Agent is closed (sdk.py:184-209, 366-371).
THEOREM AgentNoRuntimeIsLeft == Spec => []NoRuntimeIsLeft
  <1> AgentInv => NoRuntimeIsLeft
    BY DEF AgentInv, Runtimes, NoRuntimeIsLeft
  <1> QED
    BY AgentInvariant, PTL

\* A shutdown from outside is not undone by a start or a restart in progress
\* (sdk.py:320-334, 391-393).
THEOREM AgentShutdownIsFinal == Spec => []ShutdownIsFinal
  <1> AgentInv => ShutdownIsFinal
    BY DEF AgentInv, Running, ShutdownIsFinal
  <1> QED
    BY AgentInvariant, PTL

\* No start, restart or failed restart ends the wait for the exit
\* (sdk.py:310-318, 410-425).
THEOREM AgentExitIsKept == Spec => ExitIsKept
  <1> DEFINE Kept ==
        completion = "pending" /\ completion' # "pending" =>
          \/ /\ state = "running" /\ worker.ends \in {"exit", "error"}
             /\ completion' = IF worker.ends = "exit" THEN "result" ELSE "error"
          \/ completion' = "cancelled" /\ (explicit \/ shutdown = "done")
  <1>1. AgentInv /\ Next => Kept
    <2> SUFFICES ASSUME AgentInv, Next PROVE Kept
      OBVIOUS
    <2> USE DEF AgentInv
    <2>1. CASE CallShutdown
      BY <2>1 DEF CallShutdown, Cancelled
    <2>2. CASE StartActivated
      BY <2>2 DEF StartActivated, Starting
    <2>3. CASE Stopped
      <3>1. state = "running" \/ state = "stopping"
        BY <2>3 DEF Stopped, Workers, TypeOK
      <3>2. state = "running" => worker.ends \in {"exit", "error"}
        BY <2>3 DEF Stopped, Workers, TypeOK
      <3> QED
        BY <2>3, <3>1, <3>2 DEF Stopped
    <2>4. CASE ShutdownEnds
      BY <2>4 DEF ShutdownEnds, Cancelled
    <2>5. ASSUME ~CallShutdown, ~StartActivated, ~Stopped, ~ShutdownEnds
          PROVE  UNCHANGED completion
      BY <2>5 DEF Next, Calls, StartStep, WorkerStep, ShutdownStep, RestartStep,
                  CallStart, CallRestart, StartNever, StartBegins, StartClosed,
                  StartBuilt, StartFails, StartCleaned, WorkerLeaves,
                  WorkerEnds, ShutdownCancels, ShutdownJoins, RestartNever,
                  RestartStops, RestartStarts, RestartEnds
    <2> QED
      BY <2>1, <2>2, <2>3, <2>4, <2>5
  <1>2. UNCHANGED vars => Kept
    BY DEF vars
  <1>3. AgentInv /\ [Next]_vars => [Kept]_vars
    BY <1>1, <1>2
  <1> QED
    BY AgentInvariant, <1>3, PTL DEF Spec, ExitIsKept

(***************************************************************************)
(* The inductive invariant of DayLifecycle.                                *)
(***************************************************************************)
\* The lock belongs to the tasks that are where only an owner is.
LockOwners ==
  /\ \A t \in Tasks : pc[t] \in {"prepare", "rolling"} <=> writer = t
  /\ \A t \in Tasks : t \in readers <=> pc[t] = "work"
  /\ writer # Nobody => readers = {}
  /\ \A t \in waiting : pc[t] = "write"

\* The active day is not ahead of the clock, nor a rollover behind the active day.
DayOrder ==
  /\ activeDay <= today
  /\ \A t \in Tasks : pc[t] = "rolling" => activeDay <= target[t] /\ target[t] <= today

LifecycleInv == DayTypeOK /\ LockOwners /\ DayOrder /\ WorkOnOwnDay /\ SleepersAreHeldUp

\* The running Agent satisfies the inductive invariant.
LEMMA LifecycleInit == DayInit => LifecycleInv
  <1> SUFFICES ASSUME DayInit PROVE LifecycleInv
    OBVIOUS
  <1> USE LifecycleAssumption DEF DayInit, Days, Tasks
  <1>1. DayTypeOK
    BY DEF DayTypeOK, PCs
  <1>2. LockOwners /\ DayOrder /\ WorkOnOwnDay /\ SleepersAreHeldUp
    BY DEF LockOwners, DayOrder, WorkOnOwnDay, SleepersAreHeldUp
  <1> QED
    BY <1>1, <1>2 DEF LifecycleInv

\* Every step keeps the types.
LEMMA LifecycleTypes == LifecycleInv /\ [DayNext]_lifecycleVars => DayTypeOK'
  <1> SUFFICES ASSUME LifecycleInv, [DayNext]_lifecycleVars PROVE DayTypeOK'
    OBVIOUS
  <1> USE LifecycleAssumption
      DEF LifecycleInv, Tasks, Days, lockVars, sourceVars, dayVars, DayTypeOK, PCs
  <1>1. CASE Midnight
    BY <1>1 DEF Midnight
  <1>2. CASE RootStart
    BY <1>2 DEF RootStart, Preflight
  <1>3. CASE RootEnd
    BY <1>3 DEF RootEnd
  <1>4. ASSUME NEW s \in Services, Acquire(s) PROVE DayTypeOK'
    BY <1>4 DEF Acquire
  <1>5. ASSUME NEW s \in Services, ServiceCall(s) PROVE DayTypeOK'
    <2>1. CASE Preflight(s)
      BY <1>5, <2>1 DEF Preflight
    <2>2. CASE /\ failed' = [failed EXCEPT ![s] = "no"] /\ TryRead(s)
               /\ UNCHANGED <<today, dayVars, sourceVars, changing, day, faults>>
      BY <1>5, <2>2 DEF TryRead, CanRead, Exit
    <2> QED
      BY <1>5, <2>1, <2>2 DEF ServiceCall
  <1>6. ASSUME NEW t \in Tasks, Read(t) PROVE DayTypeOK'
    BY <1>6 DEF Read, TryRead, CanRead, Exit
  <1>7. ASSUME NEW t \in Tasks, Leave(t) PROVE DayTypeOK'
    BY <1>7 DEF Leave, Exit
  <1>8. ASSUME NEW t \in Tasks, StopDone(t) PROVE DayTypeOK'
    BY <1>8 DEF StopDone, Exit
  <1>9. ASSUME NEW t \in Tasks, ReleaseDone(t) PROVE DayTypeOK'
    BY <1>9 DEF ReleaseDone, Resume, Exit
  <1>10. ASSUME NEW t \in Tasks, Write(t) PROVE DayTypeOK'
    BY <1>10 DEF Write, CanWrite
  <1>11. ASSUME NEW t \in Tasks, Prepare(t) PROVE DayTypeOK'
    BY <1>11 DEF Prepare
  <1>12. ASSUME NEW t \in Tasks, PrepareDone(t) PROVE DayTypeOK'
    BY <1>12 DEF PrepareDone, Resume, Exit
  <1>13. ASSUME NEW t \in Tasks, StartDone(t) PROVE DayTypeOK'
    BY <1>13 DEF StartDone, Exit
  <1>14. ASSUME NEW t \in Tasks, UnstartDone(t) PROVE DayTypeOK'
    BY <1>14 DEF UnstartDone, Exit
  <1>15. ASSUME NEW t \in Tasks, PrepareFails(t) PROVE DayTypeOK'
    <2>1. whole' \in BOOLEAN
      BY <1>15 DEF PrepareFails
    <2>2. running' \in BOOLEAN /\ sink' \in BOOLEAN
      BY <1>15 DEF PrepareFails, Resume
    <2>3. pc' \in [Tasks -> PCs] /\ failed' \in [Tasks -> {"no", "error", "cancel"}]
      BY <1>15 DEF PrepareFails, Resume, Exit
    <2> QED
      BY <1>15, <2>1, <2>2, <2>3 DEF PrepareFails, Fault
  <1>16. ASSUME NEW t \in Tasks, StartSourcesFails(t) PROVE DayTypeOK'
    BY <1>16 DEF StartSourcesFails, Fault
  <1>17. ASSUME NEW t \in Tasks, CancelTask(t) PROVE DayTypeOK'
    BY <1>17 DEF CancelTask, CancelWrite, Resume, Exit, Fault
  <1>18. CASE UNCHANGED lifecycleVars
    BY <1>18 DEF lifecycleVars
  <1> QED
    BY <1>1, <1>2, <1>3, <1>4, <1>5, <1>6, <1>7, <1>8, <1>9, <1>10, <1>11, <1>12, <1>13,
       <1>14, <1>15, <1>16, <1>17, <1>18 DEF DayNext, Step

\* Every step takes and gives the lock where it says it does.
LEMMA LifecycleLock == LifecycleInv /\ [DayNext]_lifecycleVars => LockOwners'
  <1> SUFFICES ASSUME LifecycleInv, [DayNext]_lifecycleVars PROVE LockOwners'
    OBVIOUS
  <1> USE LifecycleAssumption
      DEF LifecycleInv, Tasks, Days, lockVars, sourceVars, dayVars, DayTypeOK, LockOwners,
          SleepersAreHeldUp
  <1>1. CASE Midnight
    BY <1>1 DEF Midnight
  <1>2. CASE RootStart
    BY <1>2 DEF RootStart, Preflight
  <1>3. CASE RootEnd
    BY <1>3 DEF RootEnd
  <1>4. ASSUME NEW s \in Services, Acquire(s) PROVE LockOwners'
    BY <1>4 DEF Acquire
  <1>5. ASSUME NEW s \in Services, ServiceCall(s) PROVE LockOwners'
    BY <1>5 DEF ServiceCall, Preflight, TryRead, CanRead, Exit
  <1>6. ASSUME NEW t \in Tasks, Read(t) PROVE LockOwners'
    BY <1>6 DEF Read, TryRead, CanRead, Exit
  <1>7. ASSUME NEW t \in Tasks, Leave(t) PROVE LockOwners'
    BY <1>7 DEF Leave, Exit
  <1>8. ASSUME NEW t \in Tasks, StopDone(t) PROVE LockOwners'
    BY <1>8 DEF StopDone, Exit
  <1>9. ASSUME NEW t \in Tasks, ReleaseDone(t) PROVE LockOwners'
    BY <1>9 DEF ReleaseDone, Resume, Exit
  <1>10. ASSUME NEW t \in Tasks, Write(t) PROVE LockOwners'
    BY <1>10 DEF Write, CanWrite
  <1>11. ASSUME NEW t \in Tasks, Prepare(t) PROVE LockOwners'
    BY <1>11 DEF Prepare
  <1>12. ASSUME NEW t \in Tasks, PrepareDone(t) PROVE LockOwners'
    BY <1>12 DEF PrepareDone, Resume, Exit
  <1>13. ASSUME NEW t \in Tasks, StartDone(t) PROVE LockOwners'
    BY <1>13 DEF StartDone, Exit
  <1>14. ASSUME NEW t \in Tasks, UnstartDone(t) PROVE LockOwners'
    BY <1>14 DEF UnstartDone, Exit
  <1>15. ASSUME NEW t \in Tasks, PrepareFails(t) PROVE LockOwners'
    BY <1>15 DEF PrepareFails, Resume, Exit, Fault
  <1>16. ASSUME NEW t \in Tasks, StartSourcesFails(t) PROVE LockOwners'
    BY <1>16 DEF StartSourcesFails, Fault
  <1>17. ASSUME NEW t \in Tasks, CancelTask(t) PROVE LockOwners'
    BY <1>17 DEF CancelTask, CancelWrite, Resume, Exit, Fault
  <1>18. CASE UNCHANGED lifecycleVars
    BY <1>18 DEF lifecycleVars
  <1> QED
    BY <1>1, <1>2, <1>3, <1>4, <1>5, <1>6, <1>7, <1>8, <1>9, <1>10, <1>11, <1>12, <1>13,
       <1>14, <1>15, <1>16, <1>17, <1>18 DEF DayNext, Step

\* The clock is read under the lock.
LEMMA LifecycleDays == LifecycleInv /\ [DayNext]_lifecycleVars => DayOrder'
  <1> SUFFICES ASSUME LifecycleInv, [DayNext]_lifecycleVars PROVE DayOrder'
    OBVIOUS
  <1> USE LifecycleAssumption
      DEF LifecycleInv, Tasks, Days, lockVars, sourceVars, dayVars, DayTypeOK, LockOwners,
          DayOrder
  <1>1. CASE Midnight
    BY <1>1 DEF Midnight
  <1>2. CASE RootStart
    BY <1>2 DEF RootStart, Preflight
  <1>3. CASE RootEnd
    BY <1>3 DEF RootEnd
  <1>4. ASSUME NEW s \in Services, Acquire(s) PROVE DayOrder'
    BY <1>4 DEF Acquire
  <1>5. ASSUME NEW s \in Services, ServiceCall(s) PROVE DayOrder'
    BY <1>5 DEF ServiceCall, Preflight, TryRead, CanRead, Exit
  <1>6. ASSUME NEW t \in Tasks, Read(t) PROVE DayOrder'
    BY <1>6 DEF Read, TryRead, CanRead, Exit
  <1>7. ASSUME NEW t \in Tasks, Leave(t) PROVE DayOrder'
    BY <1>7 DEF Leave, Exit
  <1>8. ASSUME NEW t \in Tasks, StopDone(t) PROVE DayOrder'
    BY <1>8 DEF StopDone, Exit
  <1>9. ASSUME NEW t \in Tasks, ReleaseDone(t) PROVE DayOrder'
    BY <1>9 DEF ReleaseDone, Resume, Exit
  <1>10. ASSUME NEW t \in Tasks, Write(t) PROVE DayOrder'
    BY <1>10 DEF Write, CanWrite
  <1>11. ASSUME NEW t \in Tasks, Prepare(t) PROVE DayOrder'
    BY <1>11 DEF Prepare
  <1>12. ASSUME NEW t \in Tasks, PrepareDone(t) PROVE DayOrder'
    BY <1>12 DEF PrepareDone, Resume, Exit
  <1>13. ASSUME NEW t \in Tasks, StartDone(t) PROVE DayOrder'
    BY <1>13 DEF StartDone, Exit
  <1>14. ASSUME NEW t \in Tasks, UnstartDone(t) PROVE DayOrder'
    BY <1>14 DEF UnstartDone, Exit
  <1>15. ASSUME NEW t \in Tasks, PrepareFails(t) PROVE DayOrder'
    BY <1>15 DEF PrepareFails, Resume, Exit, Fault
  <1>16. ASSUME NEW t \in Tasks, StartSourcesFails(t) PROVE DayOrder'
    BY <1>16 DEF StartSourcesFails, Fault
  <1>17. ASSUME NEW t \in Tasks, CancelTask(t) PROVE DayOrder'
    BY <1>17 DEF CancelTask, CancelWrite, Resume, Exit, Fault
  <1>18. CASE UNCHANGED lifecycleVars
    BY <1>18 DEF lifecycleVars
  <1> QED
    BY <1>1, <1>2, <1>3, <1>4, <1>5, <1>6, <1>7, <1>8, <1>9, <1>10, <1>11, <1>12, <1>13,
       <1>14, <1>15, <1>16, <1>17, <1>18 DEF DayNext, Step

\* The day is compared under the lease, and kept by it.
LEMMA LifecycleWork == LifecycleInv /\ [DayNext]_lifecycleVars => WorkOnOwnDay'
  <1> SUFFICES ASSUME LifecycleInv, [DayNext]_lifecycleVars PROVE WorkOnOwnDay'
    OBVIOUS
  <1> USE LifecycleAssumption
      DEF LifecycleInv, Tasks, Days, lockVars, sourceVars, dayVars, DayTypeOK, LockOwners,
          WorkOnOwnDay
  <1>1. CASE Midnight
    BY <1>1 DEF Midnight
  <1>2. CASE RootStart
    BY <1>2 DEF RootStart, Preflight
  <1>3. CASE RootEnd
    BY <1>3 DEF RootEnd
  <1>4. ASSUME NEW s \in Services, Acquire(s) PROVE WorkOnOwnDay'
    BY <1>4 DEF Acquire
  <1>5. ASSUME NEW s \in Services, ServiceCall(s) PROVE WorkOnOwnDay'
    BY <1>5 DEF ServiceCall, Preflight, TryRead, CanRead, Exit
  <1>6. ASSUME NEW t \in Tasks, Read(t) PROVE WorkOnOwnDay'
    BY <1>6 DEF Read, TryRead, CanRead, Exit
  <1>7. ASSUME NEW t \in Tasks, Leave(t) PROVE WorkOnOwnDay'
    BY <1>7 DEF Leave, Exit
  <1>8. ASSUME NEW t \in Tasks, StopDone(t) PROVE WorkOnOwnDay'
    BY <1>8 DEF StopDone, Exit
  <1>9. ASSUME NEW t \in Tasks, ReleaseDone(t) PROVE WorkOnOwnDay'
    BY <1>9 DEF ReleaseDone, Resume, Exit
  <1>10. ASSUME NEW t \in Tasks, Write(t) PROVE WorkOnOwnDay'
    BY <1>10 DEF Write, CanWrite
  <1>11. ASSUME NEW t \in Tasks, Prepare(t) PROVE WorkOnOwnDay'
    BY <1>11 DEF Prepare
  <1>12. ASSUME NEW t \in Tasks, PrepareDone(t) PROVE WorkOnOwnDay'
    BY <1>12 DEF PrepareDone, Resume, Exit
  <1>13. ASSUME NEW t \in Tasks, StartDone(t) PROVE WorkOnOwnDay'
    BY <1>13 DEF StartDone, Exit
  <1>14. ASSUME NEW t \in Tasks, UnstartDone(t) PROVE WorkOnOwnDay'
    BY <1>14 DEF UnstartDone, Exit
  <1>15. ASSUME NEW t \in Tasks, PrepareFails(t) PROVE WorkOnOwnDay'
    BY <1>15 DEF PrepareFails, Resume, Exit, Fault
  <1>16. ASSUME NEW t \in Tasks, StartSourcesFails(t) PROVE WorkOnOwnDay'
    BY <1>16 DEF StartSourcesFails, Fault
  <1>17. ASSUME NEW t \in Tasks, CancelTask(t) PROVE WorkOnOwnDay'
    BY <1>17 DEF CancelTask, CancelWrite, Resume, Exit, Fault
  <1>18. CASE UNCHANGED lifecycleVars
    BY <1>18 DEF lifecycleVars
  <1> QED
    BY <1>1, <1>2, <1>3, <1>4, <1>5, <1>6, <1>7, <1>8, <1>9, <1>10, <1>11, <1>12, <1>13,
       <1>14, <1>15, <1>16, <1>17, <1>18 DEF DayNext, Step

\* Whoever frees the lock wakes all.
LEMMA LifecycleSleepers == LifecycleInv /\ [DayNext]_lifecycleVars => SleepersAreHeldUp'
  <1> SUFFICES ASSUME LifecycleInv, [DayNext]_lifecycleVars PROVE SleepersAreHeldUp'
    OBVIOUS
  <1> USE LifecycleAssumption
      DEF LifecycleInv, Tasks, Days, lockVars, sourceVars, dayVars, DayTypeOK, LockOwners,
          SleepersAreHeldUp, CanRead, CanWrite
  <1>1. CASE Midnight
    BY <1>1 DEF Midnight
  <1>2. CASE RootStart
    BY <1>2 DEF RootStart, Preflight
  <1>3. CASE RootEnd
    BY <1>3 DEF RootEnd
  <1>4. ASSUME NEW s \in Services, Acquire(s) PROVE SleepersAreHeldUp'
    BY <1>4 DEF Acquire
  <1>5. ASSUME NEW s \in Services, ServiceCall(s) PROVE SleepersAreHeldUp'
    BY <1>5 DEF ServiceCall, Preflight, TryRead, CanRead, Exit
  <1>6. ASSUME NEW t \in Tasks, Read(t) PROVE SleepersAreHeldUp'
    BY <1>6 DEF Read, TryRead, CanRead, Exit
  <1>7. ASSUME NEW t \in Tasks, Leave(t) PROVE SleepersAreHeldUp'
    BY <1>7 DEF Leave, Exit
  <1>8. ASSUME NEW t \in Tasks, StopDone(t) PROVE SleepersAreHeldUp'
    BY <1>8 DEF StopDone, Exit
  <1>9. ASSUME NEW t \in Tasks, ReleaseDone(t) PROVE SleepersAreHeldUp'
    BY <1>9 DEF ReleaseDone, Resume, Exit
  <1>10. ASSUME NEW t \in Tasks, Write(t) PROVE SleepersAreHeldUp'
    BY <1>10 DEF Write, CanWrite
  <1>11. ASSUME NEW t \in Tasks, Prepare(t) PROVE SleepersAreHeldUp'
    BY <1>11 DEF Prepare
  <1>12. ASSUME NEW t \in Tasks, PrepareDone(t) PROVE SleepersAreHeldUp'
    BY <1>12 DEF PrepareDone, Resume, Exit
  <1>13. ASSUME NEW t \in Tasks, StartDone(t) PROVE SleepersAreHeldUp'
    BY <1>13 DEF StartDone, Exit
  <1>14. ASSUME NEW t \in Tasks, UnstartDone(t) PROVE SleepersAreHeldUp'
    BY <1>14 DEF UnstartDone, Exit
  <1>15. ASSUME NEW t \in Tasks, PrepareFails(t) PROVE SleepersAreHeldUp'
    BY <1>15 DEF PrepareFails, Resume, Exit, Fault
  <1>16. ASSUME NEW t \in Tasks, StartSourcesFails(t) PROVE SleepersAreHeldUp'
    BY <1>16 DEF StartSourcesFails, Fault
  <1>17. ASSUME NEW t \in Tasks, CancelTask(t) PROVE SleepersAreHeldUp'
    BY <1>17 DEF CancelTask, CancelWrite, Resume, Exit, Fault
  <1>18. CASE UNCHANGED lifecycleVars
    BY <1>18 DEF lifecycleVars, CanRead, CanWrite
  <1> QED
    BY <1>1, <1>2, <1>3, <1>4, <1>5, <1>6, <1>7, <1>8, <1>9, <1>10, <1>11, <1>12, <1>13,
       <1>14, <1>15, <1>16, <1>17, <1>18 DEF DayNext, Step

\* Every reachable state satisfies the inductive invariant.
THEOREM LifecycleInvariant == DaySpec => []LifecycleInv
  <1>1. LifecycleInv /\ [DayNext]_lifecycleVars => LifecycleInv'
    BY LifecycleTypes, LifecycleLock, LifecycleDays, LifecycleWork, LifecycleSleepers
       DEF LifecycleInv
  <1> QED
    BY LifecycleInit, <1>1, PTL DEF DaySpec

\* The type invariant.
THEOREM LifecycleTypeOK == DaySpec => []DayTypeOK
  <1>1. LifecycleInv => DayTypeOK
    BY DEF LifecycleInv
  <1> QED
    BY LifecycleInvariant, <1>1, PTL

\* Turns and calls work on the day they were prepared or bound for.
THEOREM LifecycleOwnDay == DaySpec => []WorkOnOwnDay
  <1>1. LifecycleInv => WorkOnOwnDay
    BY DEF LifecycleInv
  <1> QED
    BY LifecycleInvariant, <1>1, PTL

\* No wake-up of the lock is lost, with any interleaving of cancellations.
THEOREM LifecycleNoLostWakeup == DaySpec => []SleepersAreHeldUp
  <1>1. LifecycleInv => SleepersAreHeldUp
    BY DEF LifecycleInv
  <1> QED
    BY LifecycleInvariant, <1>1, PTL

\* The active day only changes forward and never under a lease.
THEOREM LifecycleDayAlone == DaySpec => DayChangesAlone
  <1> DEFINE Alone == activeDay' # activeDay => activeDay' > activeDay /\ readers = {}
  <1>1. ASSUME LifecycleInv, [DayNext]_lifecycleVars PROVE Alone
    <2> USE <1>1 DEF dayVars
    <2>1. CASE UNCHANGED activeDay
      BY <2>1
    <2>2. ASSUME NEW t \in Tasks, PrepareDone(t) PROVE Alone
      <3>1. activeDay' = target[t] /\ activeDay <= target[t] /\ writer = t
        BY <2>2 DEF PrepareDone, LifecycleInv, DayOrder, LockOwners
      <3>2. activeDay \in Nat /\ target[t] \in Nat
        BY LifecycleAssumption DEF LifecycleInv, DayTypeOK, Days
      <3>3. readers = {}
        BY <3>1, LifecycleAssumption DEF LifecycleInv, LockOwners, Tasks
      <3> QED
        BY <3>1, <3>2, <3>3
    <2>3. UNCHANGED activeDay \/ \E t \in Tasks : PrepareDone(t)
      BY DEF DayNext, Step, Midnight, RootStart, RootEnd, Acquire, ServiceCall, Read, Leave, StopDone,
         ReleaseDone, Write, Prepare, StartDone, UnstartDone, PrepareFails, StartSourcesFails,
         CancelTask, Preflight, lifecycleVars
    <2> QED
      BY <2>1, <2>2, <2>3
  <1> QED
    BY LifecycleInvariant, <1>1, PTL DEF DaySpec, DayChangesAlone
================================================================================
