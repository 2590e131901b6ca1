--------------------------- MODULE RuntimeHandle ---------------------------
(***************************************************************************)
(* The generation handle of the Agent runtime                              *)
(* (tinysoul/runtime/generation/handle.py) together with the four kinds of *)
(* task that use it on the Agent's event loop:                             *)
(*                                                                         *)
(*   - root Turns of the scheduler, which take an activity lease, a read   *)
(*     lease and, while holding it, nested read leases;                    *)
(*   - service calls of the gateway, which take one read lease and recheck *)
(*     the generation they were resolved against;                          *)
(*   - configuration activations, which build a candidate generation,      *)
(*     swap it in under a write lease and retire the previous one;         *)
(*   - the runtime's close.                                                *)
(*                                                                         *)
(* One action is what a task does between two suspension points: the event *)
(* loop is single threaded, so everything between two awaits that really   *)
(* suspend is one step.  The shared asyncio.Event `_changed` is modelled   *)
(* by the set of tasks parked on it: set() empties the set, and since      *)
(* every waiter calls clear() right before wait(), a task that finds its   *)
(* condition false always parks.                                           *)
(***************************************************************************)
EXTENDS Naturals, FiniteSets

CONSTANTS
  Roots,          \* tasks that run root Turns or the daily preflight
  Services,       \* tasks that run gateway service calls
  Configs,        \* tasks that reload or apply a configuration
  Closer,         \* the task that closes the runtime
  NoTask,         \* nobody holds a lock
  MaxGeneration   \* bound: the largest generation number a candidate may get

ASSUME TaskAssumption ==
  /\ Roots \cap Services = {} /\ Roots \cap Configs = {} /\ Services \cap Configs = {}
  /\ Closer \notin Roots \cup Services \cup Configs
  /\ NoTask \notin Roots \cup Services \cup Configs \cup {Closer}
  /\ MaxGeneration \in Nat

Tasks == Roots \cup Services \cup Configs \cup {Closer}
Generations == 0 .. MaxGeneration

Idle == "idle"
ConfigActivation == "config_activation"
TurnActivities == {"user_turn", "reflection_turn", "daily_transition"}
Activities == TurnActivities \cup {Idle, ConfigActivation}

VARIABLES
  (* RuntimeHandle *)
  generation,     \* number of the published generation
  activity,       \* _activity
  activation,     \* _activation
  leases,         \* the read leases counted by _readers: <<task, depth>>
  writer,         \* _writer
  writersWaiting, \* the tasks counted by _writers_waiting
  closed,         \* _closed
  waiting,        \* tasks parked on _changed
  (* the tasks *)
  pc,             \* where each task is suspended
  kind,           \* the activity a root Turn asks for
  want,           \* the generation a service call was resolved against
  requestLock,    \* holder of RootScheduler._request_lock
  configLock,     \* holder of ConfigController._lock
  accepting,      \* AgentRuntime._accepting
  configOpen,     \* not ConfigController._closed
  (* generations *)
  made,           \* how many candidates were built
  retired,        \* generations whose close() has started
  running,        \* generations whose sources run (GenerationSources._running)
  publishing      \* generations whose sources have a publisher

handleVars == <<generation, activity, activation, leases, writer, writersWaiting, closed>>
lockVars == <<requestLock, configLock, accepting, configOpen>>
genVars == <<made, retired, running, publishing>>
vars == <<handleVars, waiting, pc, kind, want, lockVars, genVars>>

RootPCs == {"idle", "activity", "outer", "day", "nested", "turn"}
ServicePCs == {"idle", "resolved", "enter", "using"}
ConfigPCs == {"idle", "building", "built", "pausing", "writerWait", "writing",
              "starting", "retiring", "aborting", "resuming"}
CloserPCs == {"idle", "sources", "config", "handle", "resources", "done"}

TypeOK ==
  /\ generation \in Generations
  /\ activity \in Activities
  /\ activation \in {"active", "preparing", "failed"}
  /\ leases \subseteq (Roots \cup Services) \X {1, 2}
  /\ writer \in BOOLEAN
  /\ writersWaiting \subseteq Configs
  /\ closed \in BOOLEAN
  /\ waiting \subseteq Tasks
  /\ pc \in [Tasks -> RootPCs \cup ServicePCs \cup ConfigPCs \cup CloserPCs]
  /\ \A r \in Roots : pc[r] \in RootPCs
  /\ \A s \in Services : pc[s] \in ServicePCs
  /\ \A c \in Configs : pc[c] \in ConfigPCs
  /\ pc[Closer] \in CloserPCs
  /\ kind \in [Roots -> TurnActivities]
  /\ want \in [Services -> Generations]
  /\ requestLock \in Roots \cup {NoTask}
  /\ configLock \in Configs \cup {NoTask}
  /\ accepting \in BOOLEAN
  /\ configOpen \in BOOLEAN
  /\ made \in Generations
  /\ retired \subseteq Generations
  /\ running \subseteq Generations
  /\ publishing \subseteq Generations

Init ==
  /\ generation = 0 /\ activity = Idle /\ activation = "active"
  /\ leases = {} /\ writer = FALSE /\ writersWaiting = {} /\ closed = FALSE
  /\ waiting = {}
  /\ pc = [t \in Tasks |-> "idle"]
  /\ kind \in [Roots -> TurnActivities]
  /\ want = [s \in Services |-> 0]
  /\ requestLock = NoTask /\ configLock = NoTask
  /\ accepting = TRUE /\ configOpen = TRUE
  /\ made = 0 /\ retired = {} /\ running = {0} /\ publishing = {0}

(***************************************************************************)
(* Conditions and effects shared by the actions.                           *)
(***************************************************************************)
\* MUTANT of CanRead: readers are admitted while a candidate is prepared.
CanReadWhilePreparing == ~writer /\ writersWaiting = {}

\* The condition _acquire_reader waits for.
CanRead == ~writer /\ writersWaiting = {} /\ activity # ConfigActivation

\* The condition _acquire_writer waits for.
CanWrite == ~writer /\ leases = {}

\* _changed.set(): every parked task becomes ready.
Wake == waiting' = {}
\* _changed.clear(); await _changed.wait()
Park(t) == waiting' = waiting \cup {t}
Goto(t, where) == pc' = [pc EXCEPT ![t] = where]
LeasesOf(t) == {l \in leases : l[1] = t}

(***************************************************************************)
(* Root Turns: RootScheduler._dispatch/_preflight under _request_lock.     *)
(***************************************************************************)
\* The activity a root task holds from its activity lease to the end.
HoldsActivity(r) == pc[r] \in {"outer", "day", "nested", "turn"}

RootStart(r) ==
  /\ pc[r] = "idle" /\ requestLock = NoTask
  /\ requestLock' = r
  /\ \E k \in TurnActivities : kind' = [kind EXCEPT ![r] = k]
  /\ Goto(r, "activity")
  /\ UNCHANGED <<handleVars, waiting, want, configLock, accepting, configOpen, genVars>>

\* Leaving the `async with` blocks: read leases go, the activity becomes
\* IDLE when its lease was taken, and the request lock is released.
RootLeave(r) ==
  /\ leases' = leases \ LeasesOf(r)
  /\ activity' = IF HoldsActivity(r) THEN Idle ELSE activity
  /\ waiting' = IF HoldsActivity(r) THEN {} ELSE waiting \ {r}
  /\ requestLock' = NoTask
  /\ Goto(r, "idle")
  /\ UNCHANGED <<generation, activation, writer, writersWaiting, closed>>

\* _acquire_activity: a new root parks behind an activation in progress.
RootActivity(r) ==
  /\ pc[r] = "activity" /\ r \notin waiting
  /\ \/ /\ closed \/ activity \in TurnActivities      \* raises
        /\ RootLeave(r)
     \/ /\ ~closed /\ activity = ConfigActivation
        /\ Park(r)
        /\ UNCHANGED <<handleVars, pc, requestLock>>
     \/ /\ ~closed /\ activity = Idle
        /\ activity' = kind[r]
        /\ Wake
        /\ Goto(r, "outer")
        /\ UNCHANGED <<generation, activation, leases, writer, writersWaiting, closed,
                       requestLock>>
  /\ UNCHANGED <<kind, want, configLock, accepting, configOpen, genVars>>

\* _acquire_reader by a root: granted are the leases `got`, else it parks.
RootRead(r, got, next) ==
  /\ r \notin waiting
  /\ \/ closed /\ RootLeave(r)
     \/ /\ ~closed /\ CanRead
        /\ leases' = leases \cup got
        /\ Goto(r, next)
        /\ UNCHANGED <<generation, activity, activation, writer, writersWaiting, closed,
                       waiting, requestLock>>
     \/ /\ ~closed /\ ~CanRead
        /\ Park(r)
        /\ UNCHANGED <<handleVars, pc, requestLock>>
  /\ UNCHANGED <<kind, want, configLock, accepting, configOpen, genVars>>

\* The read lease of _generation_activity; the one of _prepare_day follows
\* without a suspension in between, hence both at once.
RootOuter(r) == pc[r] = "outer" /\ RootRead(r, {<<r, 1>>, <<r, 2>>}, "day")

\* _prepare_day returns and drops its lease.
RootDay(r) ==
  /\ pc[r] = "day"
  /\ \/ kind[r] = "daily_transition" /\ RootLeave(r)
     \/ /\ kind[r] # "daily_transition"
        /\ leases' = leases \ {<<r, 2>>}
        /\ Wake
        /\ Goto(r, IF kind[r] = "user_turn" THEN "nested" ELSE "turn")
        /\ UNCHANGED <<generation, activity, activation, writer, writersWaiting, closed,
                       requestLock>>
  /\ UNCHANGED <<kind, want, configLock, accepting, configOpen, genVars>>

\* _run_user_request takes a lease while the task still holds the outer one.
RootNested(r) == pc[r] = "nested" /\ RootRead(r, {<<r, 2>>}, "turn")

\* The Turn returns.
RootTurn(r) ==
  /\ pc[r] = "turn"
  /\ RootLeave(r)
  /\ UNCHANGED <<kind, want, configLock, accepting, configOpen, genVars>>

\* The task is cancelled, or its work raises, at any of its suspension points.
RootRaise(r) ==
  /\ \/ pc[r] = "day"
     \/ pc[r] \in {"activity", "outer", "nested"} /\ r \in waiting
  /\ RootLeave(r)
  /\ UNCHANGED <<kind, want, configLock, accepting, configOpen, genVars>>

(***************************************************************************)
(* Service calls: AgentRuntimeServices._scope.                             *)
(***************************************************************************)
ServiceUnchanged ==
  UNCHANGED <<generation, activity, activation, writer, writersWaiting, closed, kind,
              lockVars, genVars>>

\* The registry binds a service to the generation published now.
ServiceResolve(s) ==
  /\ pc[s] = "idle" /\ accepting /\ ~closed
  /\ want' = [want EXCEPT ![s] = generation]
  /\ Goto(s, "resolved")
  /\ UNCHANGED <<leases, waiting>> /\ ServiceUnchanged

\* The call enters its scope (first try, or the retry of a woken waiter).
ServiceEnter(s) ==
  /\ pc[s] \in {"resolved", "enter"} /\ s \notin waiting
  /\ \/ /\ closed \/ (pc[s] = "resolved" /\ ~accepting)      \* refused: closed
        /\ Goto(s, "idle")
        /\ UNCHANGED <<leases, waiting>>
     \/ /\ ~closed /\ (pc[s] = "resolved" => accepting) /\ CanRead
        /\ IF accepting /\ want[s] = generation
             THEN /\ leases' = leases \cup {<<s, 1>>}
                  /\ Goto(s, "using")
                  /\ UNCHANGED waiting
             ELSE /\ Goto(s, "idle")      \* closed or stale: the lease is returned
                  /\ Wake
                  /\ UNCHANGED leases
     \/ /\ ~closed /\ (pc[s] = "resolved" => accepting) /\ ~CanRead
        /\ Park(s)
        /\ Goto(s, "enter")
        /\ UNCHANGED leases
  /\ UNCHANGED want /\ ServiceUnchanged

\* MUTANT of ServiceExit: the end of a read lease forgets _changed.set().
ServiceExitNoWake(s) ==
  /\ pc[s] = "using"
  /\ leases' = leases \ LeasesOf(s)
  /\ Goto(s, "idle")
  /\ UNCHANGED <<want, waiting>> /\ ServiceUnchanged

\* The call ends, normally or with an error.
ServiceExit(s) ==
  /\ pc[s] = "using"
  /\ leases' = leases \ LeasesOf(s)
  /\ Wake
  /\ Goto(s, "idle")
  /\ UNCHANGED want /\ ServiceUnchanged

\* The caller goes away while the call waits for its lease.
ServiceCancel(s) ==
  /\ pc[s] = "enter" /\ s \in waiting
  /\ waiting' = waiting \ {s}
  /\ Goto(s, "idle")
  /\ UNCHANGED <<leases, want>> /\ ServiceUnchanged

(***************************************************************************)
(* Configuration activation: ConfigController._activate/_publish with the  *)
(* commit, abort and retire closures of _prepare_generation_activation.    *)
(***************************************************************************)
\* The candidate of the activation in progress.
Candidate == made
ConfigUnchanged == UNCHANGED <<leases, kind, want, requestLock, accepting, configOpen>>

\* What begin_activation requires of the runtime.
ConfigIdle == ~closed /\ activity = Idle /\ leases = {} /\ ~writer

\* begin_activation, and the candidate starts being built.
ConfigStart(c) ==
  /\ pc[c] = "idle" /\ configLock = NoTask
  /\ made < MaxGeneration
  /\ configOpen /\ ConfigIdle
  /\ configLock' = c
  /\ activation' = "preparing" /\ activity' = ConfigActivation
  /\ Goto(c, "building")
  /\ UNCHANGED <<generation, writer, writersWaiting, closed, waiting, genVars>>
  /\ ConfigUnchanged

\* The build fails: fail_activation, and nothing else was touched.
ConfigBuildFails(c) ==
  /\ pc[c] = "building"
  /\ activation' = "failed" /\ activity' = Idle /\ Wake
  /\ configLock' = NoTask
  /\ Goto(c, "idle")
  /\ UNCHANGED <<generation, writer, writersWaiting, closed, genVars>> /\ ConfigUnchanged

ConfigBuilt(c) ==
  /\ pc[c] = "building"
  /\ made' = made + 1
  /\ Goto(c, "built")
  /\ UNCHANGED <<handleVars, waiting, configLock, retired, running, publishing>>
  /\ ConfigUnchanged

\* MUTANT of ConfigPause: commit() leaves the old sources running.
ConfigPauseSkipped(c) ==
  /\ pc[c] = "built"
  /\ Goto(c, "pausing")
  /\ UNCHANGED <<handleVars, waiting, configLock, genVars>>
  /\ ConfigUnchanged

\* The files are written and commit() begins to pause the old sources.
ConfigPause(c) ==
  /\ pc[c] = "built"
  /\ running' = running \ {generation}
  /\ Goto(c, "pausing")
  /\ UNCHANGED <<handleVars, waiting, configLock, made, retired, publishing>>
  /\ ConfigUnchanged

\* The old sources have stopped: _acquire_writer, first try or retry.
ConfigWrite(c) ==
  /\ pc[c] \in {"pausing", "writerWait"} /\ c \notin waiting /\ ~closed
  /\ IF CanWrite
       THEN /\ writer' = TRUE
            /\ writersWaiting' = writersWaiting \ {c} /\ Wake
            /\ Goto(c, "writing")
       ELSE /\ writersWaiting' = writersWaiting \cup {c}
            /\ Park(c)
            /\ Goto(c, "writerWait")
            /\ UNCHANGED writer
  /\ UNCHANGED <<generation, activity, activation, closed, configLock, genVars>>
  /\ ConfigUnchanged

\* Preflight and availability succeed: the candidate's sources are started
\* with the publisher of the old ones, if there still is one.
ConfigStartSources(c) ==
  /\ pc[c] = "writing"
  /\ IF generation \in publishing
       THEN /\ publishing' = publishing \cup {Candidate}
            /\ running' = running \cup {Candidate}
       ELSE UNCHANGED <<publishing, running>>
  /\ Goto(c, "starting")
  /\ UNCHANGED <<handleVars, waiting, configLock, made, retired>> /\ ConfigUnchanged

\* MUTANT of ConfigActivate: the swap does not insist on the write lease.
ConfigActivateUnlocked(c) ==
  /\ pc[c] \in {"pausing", "starting"} /\ ~closed
  /\ generation' = Candidate
  /\ activation' = "active" /\ activity' = Idle
  /\ writer' = FALSE /\ Wake
  /\ retired' = retired \cup {generation}
  /\ publishing' = publishing \ {generation}
  /\ Goto(c, "retiring")
  /\ UNCHANGED <<writersWaiting, closed, configLock, made, running>> /\ ConfigUnchanged

\* activate() and the end of the write lease; the old generation is retired.
ConfigActivate(c) ==
  /\ pc[c] = "starting" /\ ~closed
  /\ generation' = Candidate
  /\ activation' = "active" /\ activity' = Idle
  /\ writer' = FALSE /\ Wake
  /\ retired' = retired \cup {generation}
  /\ publishing' = publishing \ {generation}
  /\ Goto(c, "retiring")
  /\ UNCHANGED <<writersWaiting, closed, configLock, made, running>> /\ ConfigUnchanged

ConfigRetired(c) ==
  /\ pc[c] = "retiring"
  /\ configLock' = NoTask
  /\ Goto(c, "idle")
  /\ UNCHANGED <<handleVars, waiting, genVars>> /\ ConfigUnchanged

\* Writing the files, the preflight, a source or activate() fails, or the
\* handle was closed under a waiting writer: the write lease ends and abort()
\* begins to close the candidate.
ConfigCommitFails(c) ==
  /\ \/ pc[c] \in {"built", "writing", "starting"}
     \/ pc[c] \in {"pausing", "writerWait"} /\ c \notin waiting /\ closed
  /\ IF pc[c] = "built"
       THEN UNCHANGED <<writer, writersWaiting, waiting>>
       ELSE writer' = FALSE /\ writersWaiting' = writersWaiting \ {c} /\ Wake
  /\ retired' = retired \cup {Candidate}
  /\ running' = running \ {Candidate}
  /\ publishing' = publishing \ {Candidate}
  /\ Goto(c, "aborting")
  /\ UNCHANGED <<generation, activity, activation, closed, configLock, made>>
  /\ ConfigUnchanged

\* MUTANT of ConfigAbort: fail_activation forgets _changed.set().
ConfigAbortNoWake(c) ==
  /\ pc[c] = "aborting"
  /\ activation' = "failed" /\ activity' = Idle
  /\ running' = IF generation \in publishing THEN running \cup {generation} ELSE running
  /\ Goto(c, "resuming")
  /\ UNCHANGED <<generation, writer, writersWaiting, closed, waiting, configLock, made,
                 retired, publishing>>
  /\ ConfigUnchanged

\* The candidate is closed: fail_activation and resume the old sources.
ConfigAbort(c) ==
  /\ pc[c] = "aborting"
  /\ activation' = "failed" /\ activity' = Idle /\ Wake
  /\ running' = IF generation \in publishing THEN running \cup {generation} ELSE running
  /\ Goto(c, "resuming")
  /\ UNCHANGED <<generation, writer, writersWaiting, closed, configLock, made, retired,
                 publishing>>
  /\ ConfigUnchanged

\* The old sources run again, or one of them could not start and all stop.
ConfigResumed(c) ==
  /\ pc[c] = "resuming"
  /\ \/ UNCHANGED running
     \/ running' = running \ {generation}
  /\ configLock' = NoTask
  /\ Goto(c, "idle")
  /\ UNCHANGED <<handleVars, waiting, made, retired, publishing>> /\ ConfigUnchanged

(***************************************************************************)
(* AgentRuntime.close.                                                     *)
(***************************************************************************)
CloserUnchanged ==
  UNCHANGED <<generation, activity, activation, leases, writer, writersWaiting, kind, want,
              requestLock, configLock, made>>
StopSources(g) == running' = running \ {g} /\ publishing' = publishing \ {g}

CloseStart ==
  /\ pc[Closer] = "idle"
  /\ accepting' = FALSE
  /\ StopSources(generation)
  /\ Goto(Closer, "sources")
  /\ UNCHANGED <<closed, waiting, configOpen, retired>> /\ CloserUnchanged

\* The sources have stopped: ConfigController.close refuses new activations
\* and joins the one in progress through the lock.
CloseConfig ==
  /\ pc[Closer] = "sources"
  /\ configOpen' = FALSE
  /\ Goto(Closer, "config")
  /\ UNCHANGED <<closed, waiting, accepting, retired, running, publishing>>
  /\ CloserUnchanged

\* RuntimeHandle.close, up to its first suspension.
CloseHandle ==
  /\ pc[Closer] = "config" /\ configLock = NoTask
  /\ closed' = TRUE
  /\ IF CanWrite
       THEN /\ Wake
            /\ Goto(Closer, "resources")
            /\ retired' = retired \cup {generation}
            /\ StopSources(generation)
       ELSE /\ waiting' = {Closer}
            /\ Goto(Closer, "handle")
            /\ UNCHANGED <<retired, running, publishing>>
  /\ UNCHANGED <<accepting, configOpen>> /\ CloserUnchanged

\* The retry of the woken close; then resources.close closes the generation.
CloseRetry ==
  /\ pc[Closer] = "handle" /\ Closer \notin waiting
  /\ IF CanWrite
       THEN /\ Goto(Closer, "resources")
            /\ retired' = retired \cup {generation}
            /\ StopSources(generation)
            /\ UNCHANGED waiting
       ELSE /\ Park(Closer)
            /\ UNCHANGED <<pc, retired, running, publishing>>
  /\ UNCHANGED <<closed, accepting, configOpen>> /\ CloserUnchanged

CloseDone ==
  /\ pc[Closer] = "resources"
  /\ Goto(Closer, "done")
  /\ UNCHANGED <<closed, waiting, accepting, configOpen, retired, running, publishing>>
  /\ CloserUnchanged

(***************************************************************************)
(* The specification.                                                      *)
(***************************************************************************)
RootNext(r) ==
  \/ RootStart(r) \/ RootActivity(r) \/ RootOuter(r) \/ RootDay(r)
  \/ RootNested(r) \/ RootTurn(r) \/ RootRaise(r)
ServiceNext(s) ==
  ServiceResolve(s) \/ ServiceEnter(s) \/ ServiceExit(s) \/ ServiceCancel(s)
ConfigNext(c) ==
  \/ ConfigStart(c) \/ ConfigBuildFails(c) \/ ConfigBuilt(c) \/ ConfigPause(c)
  \/ ConfigWrite(c) \/ ConfigStartSources(c)
  \/ ConfigActivate(c) \/ ConfigRetired(c) \/ ConfigCommitFails(c)
  \/ ConfigAbort(c) \/ ConfigResumed(c)
CloserNext == CloseStart \/ CloseConfig \/ CloseHandle \/ CloseRetry \/ CloseDone

Next ==
  \/ \E r \in Roots : RootNext(r)
  \/ \E s \in Services : ServiceNext(s)
  \/ \E c \in Configs : ConfigNext(c)
  \/ CloserNext

(* A task whose turn has come is run by the event loop, and the awaits of   *)
(* the code end.  A Turn may wait for its user as long as it likes; that it  *)
(* ends is assumed because Agent._shutdown cancels and joins the worker      *)
(* before it closes the runtime (sdk.py 345-373), and because nobody but     *)
(* close waits for a Turn.  Builds, source starts and stops and service      *)
(* calls are assumed to return.  Nobody has to start new work or to fail.    *)
(* A woken task runs before tasks that become ready later, so a task whose   *)
(* condition holds again and again is not passed over for ever.              *)
Fairness ==
  /\ \A r \in Roots :
       /\ SF_vars(RootActivity(r)) /\ WF_vars(RootOuter(r)) /\ WF_vars(RootDay(r))
       /\ WF_vars(RootNested(r)) /\ WF_vars(RootTurn(r))
       /\ SF_vars(RootActivity(r) /\ pc'[r] # "activity")
  /\ \A s \in Services :
       /\ WF_vars(ServiceEnter(s)) /\ WF_vars(ServiceExit(s))
       /\ SF_vars(ServiceEnter(s) /\ pc'[s] # "enter")
  /\ \A c \in Configs :
       /\ WF_vars(ConfigBuilt(c)) /\ WF_vars(ConfigPause(c)) /\ WF_vars(ConfigWrite(c))
       /\ WF_vars(ConfigStartSources(c)) /\ WF_vars(ConfigActivate(c))
       /\ WF_vars(ConfigRetired(c)) /\ WF_vars(ConfigAbort(c)) /\ WF_vars(ConfigResumed(c))
  /\ WF_vars(CloseConfig) /\ SF_vars(CloseHandle) /\ WF_vars(CloseRetry)
  /\ WF_vars(CloseDone)

Spec == Init /\ [][Next]_vars
FairSpec == Spec /\ Fairness

(***************************************************************************)
(* Safety.                                                                 *)
(***************************************************************************)
\* A generation is neither replaced nor closed under a task that uses it:
\* while read leases are out there is no writer, no activation in progress
\* and the published generation is not retired.  (A lease returns the
\* generation published when it was granted; see GenerationPinned for the
\* swap itself.)
LeasedGenerationIsLive ==
  leases # {} => /\ ~writer
                 /\ activity # ConfigActivation
                 /\ generation \notin retired

\* A task that is parked on _changed holds no read lease.  This is what keeps
\* the scheduler's nested read leases free of deadlock although
\* _acquire_reader gives precedence to waiting writers.
WaitersHoldNoLease == \A t \in waiting : LeasesOf(t) = {}

\* The one activity slot belongs to exactly the task that set it: neither the
\* unconditional reset in fail_activation nor the one at the end of an
\* activity lease erases somebody else's activity.
ActivityHasItsOwner ==
  /\ \A r \in Roots : HoldsActivity(r) => activity = kind[r]
  /\ \A r, q \in Roots : HoldsActivity(r) /\ HoldsActivity(q) => r = q
  /\ activity = ConfigActivation <=>
       \E c \in Configs : pc[c] \notin {"idle", "retiring", "resuming"}

\* The sources of two generations never publish at the same time, and a
\* retired generation publishes nothing.
OneGenerationPublishes ==
  /\ \A g, h \in running : g = h
  /\ running \cap retired = {}

\* close() returns only when nobody uses a generation and nothing publishes.
ClosedIsQuiet ==
  pc[Closer] \in {"resources", "done"} => leases = {} /\ ~writer /\ running = {}

(***************************************************************************)
(* Action properties.                                                      *)
(***************************************************************************)
\* The published generation changes only in a write lease, with no reader
\* and no root activity, and moves to a fresh candidate.
GenerationPinned ==
  [][generation' # generation =>
       /\ writer /\ leases = {}
       /\ \A r \in Roots : ~HoldsActivity(r)
       /\ generation' > generation /\ generation' \notin retired]_vars

(***************************************************************************)
(* Liveness.                                                               *)
(***************************************************************************)
\* No wake-up is lost: whoever asked for a lease gets it or is refused.
WaitersGetOn ==
  /\ \A r \in Roots : pc[r] = "activity" ~> pc[r] # "activity"
  /\ \A s \in Services : pc[s] = "enter" ~> pc[s] # "enter"
\* AgentRuntime.close, once begun, returns: the leases and the activation it
\* joins are given back and wake it.
CloseReturns == pc[Closer] = "sources" ~> pc[Closer] = "done"

(***************************************************************************)
(* The inductive invariant behind the safety properties.                   *)
(***************************************************************************)
\* Inside an activation, from begin_activation to activate/fail_activation.
Activating(c) == pc[c] \notin {"idle", "retiring", "resuming"}

LockOrder ==
  /\ \A r \in Roots : pc[r] # "idle" => requestLock = r
  /\ \A c \in Configs : pc[c] # "idle" => configLock = c

\* Leases and the writer belong to the tasks whose control state says so.
LeaseOwners ==
  /\ \A l \in leases : \/ l[1] \in Roots /\ pc[l[1]] \in {"day", "nested", "turn"}
                       \/ l[1] \in Services /\ pc[l[1]] = "using"
  /\ writer <=> \E c \in Configs : pc[c] \in {"writing", "starting"}
  /\ writersWaiting = {}

ActivityOwners ==
  /\ \A c \in Configs : Activating(c) => activity = ConfigActivation
  /\ activity = ConfigActivation => leases = {} /\ \E c \in Configs : Activating(c)
  /\ \A r \in Roots : HoldsActivity(r) => activity = kind[r]

\* Whoever parks holds nothing: roots park only for their activity.
ParkedTasks ==
  /\ \A r \in Roots : r \in waiting => pc[r] = "activity"
  /\ \A s \in Services : s \in waiting => pc[s] = "enter"
  /\ \A c \in Configs : c \notin waiting

\* Closing ends activations before it closes the handle.
Closing ==
  /\ closed <=> pc[Closer] \in {"handle", "resources", "done"}
  /\ pc[Closer] \in {"config", "handle", "resources", "done"} => ~configOpen
  /\ closed => configLock = NoTask
  /\ pc[Closer] \in {"resources", "done"} => leases = {}

\* A candidate is newer than everything published or retired.
Numbering ==
  /\ generation <= made
  /\ \A g \in retired : g <= made
  /\ generation \in retired => pc[Closer] \in {"resources", "done"}
  /\ \A c \in Configs : pc[c] = "building" => made < MaxGeneration
  /\ \A c \in Configs :
       pc[c] \in {"built", "pausing", "writerWait", "writing", "starting"} =>
         generation < made /\ made \notin retired

\* Sources run for the published generation, or for the candidate that is
\* about to replace it.
SourceOwners ==
  /\ \A g \in running : g = generation \/ \E c \in Configs : pc[c] = "starting" /\ g = made
  /\ \A c \in Configs : pc[c] \in {"pausing", "writerWait", "writing"} => running = {}
  /\ \A c \in Configs : pc[c] = "starting" => generation \notin running
  /\ pc[Closer] \in {"resources", "done"} => running = {}

HandleInv ==
  /\ TypeOK /\ LockOrder /\ LeaseOwners /\ ActivityOwners /\ ParkedTasks
  /\ Closing /\ Numbering /\ SourceOwners

==============================================================================
