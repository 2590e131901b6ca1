---------------------------- MODULE DayLifecycle ----------------------------
(***************************************************************************)
(* The active day of one generation (tinysoul/agent/lifecycle/day.py):     *)
(* root Turns and day-bound service calls share the day under the lease of *)
(* an AsyncReadWriteLock (infra/concurrency.py), and each may find that it *)
(* has to change the day first: preflight stops the event sources, drops   *)
(* the connections of the old day, takes the lock and runs the rollover.   *)
(*                                                                         *)
(* One step is what a task does between two awaits.  The rollover itself   *)
(* is DayTransition; here it succeeds, or fails and may leave the storage  *)
(* half moved.  The sources of the generation are one source, of the kind  *)
(* the Workspace watch is.  The model starts when the Agent is running.    *)
(***************************************************************************)
EXTENDS Naturals, FiniteSets

CONSTANTS Root,       \* the task of the root scheduler: one Turn after the other
          Services,   \* day-bound service calls
          Nobody,     \* no task
          MaxDay,     \* bound: the last calendar day
          MaxFaults   \* bound: how many failures and cancellations happen

ASSUME LifecycleAssumption ==
  /\ Root \notin Services /\ Nobody \notin Services \cup {Root}
  /\ MaxDay \in Nat \ {0} /\ MaxFaults \in Nat

Tasks == Services \cup {Root}
Days == 1 .. MaxDay
PCs == {"idle", "stopping", "releasing", "write", "prepare", "rolling", "starting",
        "unstarting", "read", "work", "ended", "stopped"}

VARIABLES
  today,      \* the clock
  activeDay,  \* _active_day
  whole,      \* the storage is that of activeDay, not half moved
  writer,     \* who has the write lock
  readers,    \* who has a lease
  waiting,    \* _waiting_writers
  parked,     \* tasks asleep on _changed
  running,    \* GenerationSources._running
  sink,       \* the source is bound: it has its sink and its watcher
  pc,
  changing,   \* task -> the local variable of preflight
  failed,     \* task -> the exception on its way: no, error or cancel
  day,        \* task -> the day its service is bound to, or its preflight returned
  target,     \* task -> the day its rollover leads to
  faults

lockVars == <<writer, readers, waiting, parked>>
sourceVars == <<running, sink>>
dayVars == <<activeDay, whole, target>>
lifecycleVars == <<today, dayVars, lockVars, sourceVars, pc, changing, failed, day, faults>>

DayInit ==
  /\ today = 1 /\ activeDay = 1 /\ whole = TRUE
  /\ writer = Nobody /\ readers = {} /\ waiting = {} /\ parked = {}
  /\ running = TRUE /\ sink = TRUE
  /\ pc = [t \in Tasks |-> "idle"]
  /\ changing = [t \in Tasks |-> FALSE]
  /\ failed = [t \in Tasks |-> "no"]
  /\ day = [t \in Tasks |-> 1] /\ target = [t \in Tasks |-> 1]
  /\ faults = 0

\* The scheduler's active_turn.
ActiveTurn == pc[Root] \notin {"idle", "stopped"}

\* Where a call ends: a service call returns or raises; a root that raised ends
\* the scheduler, one that was cancelled does not.
Exit(t, how) ==
  IF t # Root THEN "idle" ELSE IF how = "error" THEN "stopped" ELSE "ended"

Fault == faults < MaxFaults /\ faults' = faults + 1

Midnight ==
  /\ today < MaxDay /\ today' = today + 1
  /\ UNCHANGED <<dayVars, lockVars, sourceVars, pc, changing, failed, day, faults>>

(***************************************************************************)
(* The lease.                                                              *)
(***************************************************************************)
\* MUTANT of CanRead: readers do not mind waiting writers.
CanReadAnytime == writer = Nobody

CanRead == writer = Nobody /\ waiting = {}

CanWrite == writer = Nobody /\ readers = {}

\* MUTANT of TryRead: the leased day is not compared.
TryReadAnyDay(t) ==
  /\ UNCHANGED <<writer, waiting>>
  /\ \/ /\ ~CanRead
        /\ parked' = parked \cup {t} /\ pc' = [pc EXCEPT ![t] = "read"] /\ UNCHANGED readers
     \/ /\ CanRead
        /\ readers' = readers \cup {t} /\ pc' = [pc EXCEPT ![t] = "work"] /\ UNCHANGED parked

\* active_day_lease: sleep, or take the lease and compare the day.
TryRead(t) ==
  /\ UNCHANGED <<writer, waiting>>
  /\ \/ /\ ~CanRead
        /\ parked' = parked \cup {t} /\ pc' = [pc EXCEPT ![t] = "read"] /\ UNCHANGED readers
     \/ /\ CanRead /\ day[t] = activeDay
        /\ readers' = readers \cup {t} /\ pc' = [pc EXCEPT ![t] = "work"] /\ UNCHANGED parked
     \/ /\ CanRead /\ day[t] # activeDay
        /\ parked' = {} /\ pc' = [pc EXCEPT ![t] = Exit(t, "error")] /\ UNCHANGED readers

Read(t) ==
  /\ pc[t] = "read" /\ t \notin parked /\ TryRead(t)
  /\ UNCHANGED <<today, dayVars, sourceVars, changing, failed, day, faults>>

\* The Turn or the call is over, however it ended.
Leave(t) ==
  /\ pc[t] = "work"
  /\ readers' = readers \ {t} /\ parked' = {}
  /\ pc' = [pc EXCEPT ![t] = Exit(t, "no")]
  /\ UNCHANGED <<today, dayVars, writer, waiting, sourceVars, changing, failed, day, faults>>

(***************************************************************************)
(* preflight.                                                              *)
(***************************************************************************)
\* The day is compared once; if it is another, the sources are paused, which
\* returns at once if somebody else is stopping them.
Preflight(t) ==
  /\ changing' = [changing EXCEPT ![t] = activeDay # today]
  /\ failed' = [failed EXCEPT ![t] = "no"]
  /\ running' = (running /\ activeDay = today)
  /\ pc' = [pc EXCEPT ![t] = IF activeDay = today THEN "write"
                             ELSE IF running THEN "stopping" ELSE "releasing"]
  /\ UNCHANGED <<today, dayVars, lockVars, sink, day, faults>>

\* The watcher is joined.  Cancelled here, preflight is left before its try.
StopDone(t) ==
  /\ pc[t] = "stopping" /\ sink' = FALSE
  /\ pc' = [pc EXCEPT ![t] = IF failed[t] = "no" THEN "releasing" ELSE Exit(t, failed[t])]
  /\ UNCHANGED <<today, dayVars, lockVars, running, changing, failed, day, faults>>

\* The finally clause: the sources are resumed, unless they run again already;
\* a source that still has its sink does nothing.
Resume(t, how) ==
  LET after == IF how = "no" THEN "read" ELSE Exit(t, how)
      start == changing[t] /\ ~running
  IN /\ running' = (running \/ changing[t])
     /\ sink' = (sink \/ start)
     /\ pc' = [pc EXCEPT ![t] = IF start /\ ~sink THEN "starting" ELSE after]

\* The release_day closers are done.
ReleaseDone(t) ==
  /\ pc[t] = "releasing"
  /\ \/ failed[t] = "no" /\ pc' = [pc EXCEPT ![t] = "write"] /\ UNCHANGED sourceVars
     \/ failed[t] # "no" /\ Resume(t, failed[t])
  /\ UNCHANGED <<today, dayVars, lockVars, changing, failed, day, faults>>

\* write_locked: a writer counts as waiting while it sleeps.
Write(t) ==
  /\ pc[t] = "write" /\ t \notin parked
  /\ \/ /\ ~CanWrite
        /\ waiting' = waiting \cup {t} /\ parked' = parked \cup {t} /\ UNCHANGED <<writer, pc>>
     \/ /\ CanWrite
        /\ writer' = t /\ waiting' = waiting \ {t} /\ parked' = {}
        /\ pc' = [pc EXCEPT ![t] = "prepare"]
  /\ UNCHANGED <<today, dayVars, readers, sourceVars, changing, failed, day, faults>>

\* _prepare looks at the clock under the lock, and runs the rollover.
Prepare(t) ==
  /\ pc[t] = "prepare" /\ target' = [target EXCEPT ![t] = today]
  /\ pc' = [pc EXCEPT ![t] = "rolling"]
  /\ UNCHANGED <<today, activeDay, whole, lockVars, sourceVars, changing, failed, day, faults>>

PrepareDone(t) ==
  /\ pc[t] = "rolling"
  /\ activeDay' = target[t] /\ whole' = TRUE
  /\ writer' = Nobody /\ parked' = {}
  /\ day' = IF t = Root THEN [day EXCEPT ![t] = target[t]] ELSE day
  /\ Resume(t, failed[t]) /\ UNCHANGED failed
  /\ UNCHANGED <<today, target, readers, waiting, changing, faults>>

\* The rollover raises; if it had a day to close, it may have moved half of it.
PrepareFails(t) ==
  /\ pc[t] = "rolling" /\ Fault
  /\ whole' \in {whole, whole /\ target[t] = activeDay}
  /\ writer' = Nobody /\ parked' = {}
  /\ failed' = [failed EXCEPT ![t] = "error"] /\ Resume(t, "error")
  /\ UNCHANGED <<today, activeDay, target, readers, waiting, changing, day>>

\* The source has its watcher and its first scan.
StartDone(t) ==
  /\ pc[t] = "starting"
  /\ pc' = [pc EXCEPT ![t] = IF failed[t] = "no" THEN "read" ELSE Exit(t, failed[t])]
  /\ UNCHANGED <<today, dayVars, lockVars, sourceVars, changing, failed, day, faults>>

StartSourcesFails(t) ==
  /\ pc[t] = "starting" /\ Fault
  /\ failed' = [failed EXCEPT ![t] = "error"]
  /\ pc' = [pc EXCEPT ![t] = "unstarting"]
  /\ UNCHANGED <<today, dayVars, lockVars, sourceVars, changing, day>>

\* A source that did not start is stopped, and the others with it.
UnstartDone(t) ==
  /\ pc[t] = "unstarting"
  /\ sink' = FALSE /\ running' = FALSE
  /\ pc' = [pc EXCEPT ![t] = Exit(t, failed[t])]
  /\ UNCHANGED <<today, dayVars, lockVars, changing, failed, day, faults>>

(***************************************************************************)
(* Cancellation of a call or of a Turn that is being prepared.             *)
(***************************************************************************)
\* MUTANT of CancelWrite: the writer that gives up wakes nobody.
CancelWriteSilently(t) ==
  /\ pc[t] = "write" /\ t \in waiting
  /\ waiting' = waiting \ {t} /\ parked' = parked \ {t} /\ Resume(t, "cancel")

\* A waiting writer gives up.
CancelWrite(t) ==
  /\ pc[t] = "write" /\ t \in waiting
  /\ waiting' = waiting \ {t} /\ parked' = {} /\ Resume(t, "cancel")

\* Stopping, releasing and the rollover are joined first; a start is undone; a
\* lease that was not taken yet is given up.
CancelTask(t) ==
  /\ failed[t] # "cancel" /\ Fault
  /\ failed' = [failed EXCEPT ![t] = "cancel"]
  /\ \/ /\ pc[t] \in {"stopping", "releasing", "prepare", "rolling"}
        /\ UNCHANGED <<pc, sourceVars, waiting, parked>>
     \/ CancelWrite(t)
     \/ /\ pc[t] = "starting" /\ pc' = [pc EXCEPT ![t] = "unstarting"]
        /\ UNCHANGED <<sourceVars, waiting, parked>>
     \/ /\ pc[t] = "read" /\ pc' = [pc EXCEPT ![t] = Exit(t, "cancel")]
        /\ parked' = parked \ {t} /\ UNCHANGED <<sourceVars, waiting>>
  /\ UNCHANGED <<today, dayVars, writer, readers, changing, day>>

(***************************************************************************)
(* The callers.                                                            *)
(***************************************************************************)
\* The scheduler dispatches a request: it is the active Turn before it runs.
RootStart == pc[Root] = "idle" /\ Preflight(Root)

\* The scheduler has the result and forgets the active Turn.
RootEnd ==
  /\ pc[Root] = "ended" /\ pc' = [pc EXCEPT ![Root] = "idle"]
  /\ UNCHANGED <<today, dayVars, lockVars, sourceVars, changing, failed, day, faults>>

\* A caller gets the services, which are bound to the active day.
Acquire(s) ==
  /\ pc[s] = "idle" /\ day[s] # activeDay /\ day' = [day EXCEPT ![s] = activeDay]
  /\ UNCHANGED <<today, dayVars, lockVars, sourceVars, pc, changing, failed, faults>>

\* A call prepares the day only if there is no active Turn and the day is over.
ServiceCall(s) ==
  /\ pc[s] = "idle"
  /\ \/ /\ ~ActiveTurn /\ today # activeDay /\ Preflight(s)
     \/ /\ ActiveTurn \/ today = activeDay
        /\ failed' = [failed EXCEPT ![s] = "no"] /\ TryRead(s)
        /\ UNCHANGED <<today, dayVars, sourceVars, changing, day, faults>>

Step(t) ==
  \/ Read(t) \/ Leave(t) \/ StopDone(t) \/ ReleaseDone(t) \/ Write(t) \/ Prepare(t)
  \/ PrepareDone(t) \/ StartDone(t) \/ UnstartDone(t)

DayNext ==
  \/ Midnight \/ RootStart \/ RootEnd
  \/ \E s \in Services : Acquire(s) \/ ServiceCall(s)
  \/ \E t \in Tasks : Step(t) \/ PrepareFails(t) \/ StartSourcesFails(t) \/ CancelTask(t)

DaySpec == DayInit /\ [][DayNext]_lifecycleVars

(***************************************************************************)
(* Properties.                                                             *)
(***************************************************************************)
\* The type invariant.
DayTypeOK ==
  /\ today \in Days /\ activeDay \in Days /\ whole \in BOOLEAN
  /\ writer \in Tasks \cup {Nobody} /\ readers \subseteq Tasks
  /\ waiting \subseteq Tasks /\ parked \subseteq Tasks
  /\ running \in BOOLEAN /\ sink \in BOOLEAN
  /\ pc \in [Tasks -> PCs] /\ changing \in [Tasks -> BOOLEAN]
  /\ failed \in [Tasks -> {"no", "error", "cancel"}]
  /\ day \in [Tasks -> Days] /\ target \in [Tasks -> Days] /\ faults \in Nat

\* A Turn works on the day its preflight returned and a call on the day its
\* service was bound to, whichever rollovers ran while they waited.
WorkOnOwnDay == \A t \in Tasks : pc[t] = "work" => day[t] = activeDay

\* Nobody sleeps on a free lock: a task asleep on _changed is held up by a
\* writer, by a writer that waits, or by a reader, also after cancellations.
SleepersAreHeldUp ==
  \A t \in parked :
    \/ pc[t] = "read" /\ ~CanRead
    \/ pc[t] = "write" /\ ~CanWrite

\* The active day only changes forward, and never under a lease.
DayChangesAlone == [][activeDay' # activeDay => activeDay' > activeDay /\ readers = {}]_lifecycleVars

\* When the day is current and nobody prepares it, the sources are bound again
\* (docs/design/workspace.md: "日切前停止并等待旧监听回调，归档及新根准备完成后再绑定").
\* The code does not guarantee it: a preflight that resumes the sources while
\* another one is still stopping them starts nothing and says they run; one that
\* is cancelled while it starts them leaves them stopped for the day.
SourcesBoundAgain ==
  activeDay = today /\ (\A t \in Tasks : pc[t] \in {"idle", "read", "work", "ended"})
    => running /\ sink

(***************************************************************************)
(* Fairness: awaited operations finish, and Turns and calls end.  Woken    *)
(* tasks run in the order they were woken, so one that can take the lock   *)
(* again and again gets it: strong fairness.                               *)
(***************************************************************************)
DayFairSpec ==
  /\ DaySpec /\ WF_lifecycleVars(RootEnd)
  /\ \A t \in Tasks :
       /\ WF_lifecycleVars(Step(t))
       /\ SF_lifecycleVars((CanRead /\ Read(t)) \/ (CanWrite /\ Write(t)))

\* Every call and every Turn ends: neither readers nor writers starve.
CallsEnd == \A t \in Tasks : pc[t] # "idle" ~> pc[t] \in {"idle", "stopped"}
==============================================================================
