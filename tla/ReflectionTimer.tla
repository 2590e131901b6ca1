--------------------------- MODULE ReflectionTimer ---------------------------
(***************************************************************************)
(* The daily Reflection trigger of one generation: the asyncio timer       *)
(* (environment/sources/scheduler.py), the source that serves it           *)
(* (plugins/reflection/schedule.py), the day changes that pause and resume *)
(* it (agent/lifecycle/sources.py, agent/lifecycle/day.py), and as much of *)
(* the root queue as answers the submission (agent/commands.py).           *)
(*                                                                         *)
(* A step runs between two awaits.  A tick that has nothing to publish is  *)
(* one step; the publication of the due event may suspend the tick and may *)
(* raise, for it waits for the event bus and for the inboxes of the Turns  *)
(* that observe the event.  A day is a number, its due moment splits it in *)
(* two; the one request of a day is the day itself.                        *)
(***************************************************************************)
EXTENDS Naturals

CONSTANTS
    Loops,        \* the names of serve tasks, used again once a task is joined
    Preflights,   \* the callers of a day preflight: root work and service calls
    LastDay,      \* bound: the clock stops there
    MaxFills,     \* bound: how often other work fills the root queue
    MaxFailures,  \* bound: how often a day change fails or is cancelled
    MaxEvictions, \* bound: how often a finished request leaves the directory
    NoLoop        \* stands for None in DeadlineTimer._task

ASSUME TimerAssumption ==
    /\ NoLoop \notin Loops /\ Loops # {}
    /\ LastDay \in Nat \ {0} /\ MaxFills \in Nat /\ MaxEvictions \in Nat
    /\ MaxFailures \in Nat

Days == 1 .. LastDay

VARIABLES
    day, late,        \* the clock: the date, and whether daily_time has passed
    activeDay,        \* AgentDayCoordinator._active_day
    failures,         \* how often its change has failed or was cancelled
    full, fills,      \* the root queue has no room for the two requests of a day
    known, evictions, \* the days whose requests are in the scheduler's directory
    running,          \* GenerationSources._running
    publisher,        \* ReflectionScheduler._publish is set
    emitted,          \* ReflectionSchedule._last_emitted
    pending,          \* ReflectionScheduler._pending: a day, or 0 for ()
    stop,             \* DeadlineTimer._stop is set
    task,             \* DeadlineTimer._task
    loop,             \* where each serve task is, the day whose event it
                      \* publishes, and the day of the due moment it sleeps for
    pre,              \* where each preflight is, the task that it joins, and
                      \* whether it is to leave when the sources have stopped
    accepted,         \* how often the requests of a day were accepted as new
    failed,           \* the days whose event could not be published
    overlapped,       \* the sources were resumed while they were still being stopped
    belated           \* the timer was started after they had been paused again

clock   == <<day, late>>
days    == <<activeDay, failures>>
queue   == <<full, fills, known, evictions>>
source  == <<running, publisher, stop, task>>
cursor  == <<emitted, pending>>
history == <<accepted, failed, overlapped, belated>>
vars    == <<clock, days, queue, source, cursor, loop, pre, history>>

LoopStages == {"none", "awake", "publishing", "sleeping", "ended", "raised"}
PreStages  == {"idle", "pausing", "joining", "preparing", "resuming", "starting"}

TypeOK ==
    /\ day \in Days /\ late \in BOOLEAN /\ activeDay \in Days
    /\ failures \in 0 .. MaxFailures
    /\ full \in BOOLEAN /\ fills \in 0 .. MaxFills
    /\ known \subseteq Days /\ evictions \in 0 .. MaxEvictions
    /\ running \in BOOLEAN /\ publisher \in BOOLEAN /\ stop \in BOOLEAN
    /\ emitted \in 0 .. LastDay /\ pending \in 0 .. LastDay
    /\ task \in Loops \cup {NoLoop}
    /\ loop \in [Loops -> [at    : LoopStages,
                         event : 0 .. LastDay,
                         wake  : 0 .. LastDay + 1]]
    /\ pre \in [Preflights -> [at : PreStages, joins : Loops \cup {NoLoop},
                               gone : BOOLEAN]]
    /\ accepted \in [Days -> Nat] /\ failed \subseteq 0 .. LastDay
    /\ overlapped \in BOOLEAN /\ belated \in BOOLEAN

Fresh == [at |-> "none", event |-> 0, wake |-> 0]

Outside == [at |-> "idle", joins |-> NoLoop, gone |-> FALSE]

\* A task that is still inside serve.
Live(l) == loop[l].at \in {"awake", "publishing", "sleeping"}

-----------------------------------------------------------------------------
\* The Agent is active: the day is prepared and the source has been started,
\* before or after the due moment of that day.
Init ==
    /\ day = 1 /\ late \in BOOLEAN /\ activeDay = 1 /\ failures = 0
    /\ full = FALSE /\ fills = 0 /\ known = {} /\ evictions = 0
    /\ running = TRUE /\ publisher = TRUE /\ stop = FALSE
    /\ emitted = IF late THEN 1 ELSE 0
    /\ pending = 0
    /\ task \in Loops
    /\ loop = [l \in Loops |-> [Fresh EXCEPT !.at = IF l = task THEN "awake"
                                                   ELSE "none"]]
    /\ pre = [p \in Preflights |-> Outside]
    /\ accepted = [d \in Days |-> 0] /\ failed = {}
    /\ overlapped = FALSE /\ belated = FALSE

\* Time passes the due moment, or midnight.
ClockStep ==
    /\ \/ ~late /\ late' = TRUE /\ day' = day
       \/ day < LastDay /\ late' = FALSE /\ day' = day + 1
    /\ UNCHANGED <<days, queue, source, cursor, loop, pre, history>>

\* Other root work takes the room that the two requests need, and gives it back.
QueueFills ==
    /\ ~full /\ fills < MaxFills
    /\ full' = TRUE /\ fills' = fills + 1
    /\ UNCHANGED <<clock, days, known, evictions, source, cursor, loop,
                   pre, history>>

QueueDrains ==
    /\ full
    /\ full' = FALSE
    /\ UNCHANGED <<clock, days, fills, known, evictions, source, cursor,
                   loop, pre, history>>

\* The finished requests of a day leave the window of retained outcomes.
Evict(d) ==
    /\ d \in known /\ evictions < MaxEvictions
    /\ known' = known \ {d} /\ evictions' = evictions + 1
    /\ UNCHANGED <<clock, days, full, fills, source, cursor, loop, pre,
                   history>>

-----------------------------------------------------------------------------
\* MUTANT of Due: the cursor is not looked at.
DueForgotten == IF late THEN day ELSE 0

\* ReflectionSchedule.due: today's request, unless it was emitted, or () .
Due == IF late /\ emitted < day THEN day ELSE 0

\* MUTANT of Held: what is due now replaces what is held.
HeldNewest == IF Due # 0 THEN Due ELSE pending

\* self._pending or schedule.due(now).
Held == IF pending # 0 THEN pending ELSE Due

\* The next due moment after the time at which the tick began, by its day.
NextDue == IF late THEN day + 1 ELSE day

\* _stop.wait() returns at once if the event is set.
Asleep == IF stop THEN "awake" ELSE "sleeping"

\* The tick of a source that was stopped raises ReflectionContractError.
TickInactive(l) ==
    /\ loop[l].at = "awake" /\ ~stop /\ ~publisher
    /\ loop' = [loop EXCEPT ![l] = [Fresh EXCEPT !.at = "raised"]]
    /\ UNCHANGED <<clock, days, queue, source, cursor, pre, history>>

\* Nothing is due, or the queue has no room: the due request stays in _pending
\* and is tried again after a second at most (wake 0).
TickKeeps(l) ==
    /\ loop[l].at = "awake" /\ ~stop /\ publisher
    /\ Held = 0 \/ (full /\ Held \notin known)
    /\ pending' = Held
    /\ emitted' = IF pending = 0 /\ Due # 0 THEN day ELSE emitted
    /\ loop' = [loop EXCEPT ![l] = [at |-> Asleep, event |-> 0,
                                    wake |-> IF Held = 0 THEN NextDue ELSE 0]]
    /\ UNCHANGED <<clock, days, queue, source, pre, history>>

\* The requests are accepted, or known already by their identity; the tick
\* goes on to publish the event, and _pending still holds the day.
TickSubmits(l) ==
    /\ loop[l].at = "awake" /\ ~stop /\ publisher
    /\ Held # 0 /\ (~full \/ Held \in known)
    /\ pending' = Held
    /\ emitted' = IF pending = 0 THEN day ELSE emitted
    /\ accepted' = [accepted EXCEPT
                      ![Held] = IF Held \in known THEN @ ELSE @ + 1]
    /\ known' = known \cup {Held}
    /\ loop' = [loop EXCEPT ![l] = [at |-> "publishing", event |-> Held,
                                    wake |-> NextDue]]
    /\ UNCHANGED <<clock, days, full, fills, evictions, source, pre,
                   failed, overlapped, belated>>

\* The publication returns: the whole tuple was accepted, _pending is ().
Published(l) ==
    /\ loop[l].at = "publishing"
    /\ pending' = 0
    /\ loop' = [loop EXCEPT ![l] = [@ EXCEPT !.at = Asleep, !.event = 0]]
    /\ UNCHANGED <<clock, days, queue, source, emitted, pre, history>>

\* An observer refuses the event: the exception ends the serve task, and
\* _pending keeps a day that was accepted.
PublishFails(l) ==
    /\ loop[l].at = "publishing"
    /\ loop' = [loop EXCEPT ![l] = [Fresh EXCEPT !.at = "raised"]]
    /\ failed' = failed \cup {loop[l].event}
    /\ UNCHANGED <<clock, days, queue, source, cursor, pre, accepted,
                   overlapped, belated>>

\* wait_for times out.
Timeout(l) ==
    /\ loop[l].at = "sleeping"
    /\ loop[l].wake < day \/ (loop[l].wake = day /\ late)
    /\ loop' = [loop EXCEPT ![l].at = "awake"]
    /\ UNCHANGED <<clock, days, queue, source, cursor, pre, history>>

\* serve sees the event set and returns.
LoopEnds(l) ==
    /\ loop[l].at = "awake" /\ stop
    /\ loop' = [loop EXCEPT ![l] = [Fresh EXCEPT !.at = "ended"]]
    /\ UNCHANGED <<clock, days, queue, source, cursor, pre, history>>

-----------------------------------------------------------------------------
\* GenerationSources.pause at the start of a preflight that changes the day:
\* it returns at once if another one has cleared _running.
Pause(p) ==
    /\ pre[p].at = "idle" /\ activeDay # day
    /\ running' = FALSE
    /\ pre' = [pre EXCEPT ![p].at = IF running THEN "pausing" ELSE "preparing"]
    /\ UNCHANGED <<clock, days, queue, publisher, stop, task, cursor,
                   loop, history>>

\* A preflight that is cancelled while it pauses the sources waits for them to
\* stop, and is left before its try: nobody resumes them.
CancelPause(p) ==
    /\ pre[p].at \in {"pausing", "joining"} /\ ~pre[p].gone
    /\ failures < MaxFailures /\ failures' = failures + 1
    /\ pre' = [pre EXCEPT ![p].gone = TRUE]
    /\ UNCHANGED <<clock, activeDay, queue, source, cursor, loop, history>>

\* The sources have stopped.
Stopped(p) == IF pre[p].gone THEN Outside ELSE [Outside EXCEPT !.at = "preparing"]

\* What p does about the task of the timer.
Joining(p) ==
    IF task = NoLoop THEN Stopped(p) ELSE [pre[p] EXCEPT !.at = "joining", !.joins = task]

\* MUTANT of StopTimer: the task is forgotten, not joined.
StopUnjoined(p) ==
    /\ pre[p].at = "pausing"
    /\ stop' = TRUE /\ task' = NoLoop /\ publisher' = FALSE
    /\ loop' = [l \in Loops |-> IF loop[l].at = "sleeping"
                                THEN [loop[l] EXCEPT !.at = "awake"]
                                ELSE loop[l]]
    /\ pre' = [pre EXCEPT ![p] = Stopped(p)]
    /\ UNCHANGED <<clock, days, queue, running, cursor, history>>

\* MUTANT of StopTimer: the event is not set.
StopUnheard(p) ==
    /\ pre[p].at = "pausing"
    /\ task' = NoLoop
    /\ pre' = [pre EXCEPT ![p] = Joining(p)]
    /\ publisher' = (publisher /\ task # NoLoop)
    /\ UNCHANGED <<clock, days, queue, running, stop, cursor, loop, history>>

\* DeadlineTimer.stop, when the sources registered after this one have stopped:
\* the event wakes whoever sleeps on it; without a task there is none to join.
StopTimer(p) ==
    /\ pre[p].at = "pausing"
    /\ stop' = TRUE /\ task' = NoLoop
    /\ loop' = [l \in Loops |-> IF loop[l].at = "sleeping"
                                THEN [loop[l] EXCEPT !.at = "awake"]
                                ELSE loop[l]]
    /\ pre' = [pre EXCEPT ![p] = Joining(p)]
    /\ publisher' = (publisher /\ task # NoLoop)
    /\ UNCHANGED <<clock, days, queue, running, cursor, history>>

\* `await task` returns, and _publish is cleared; or it raises what ended the
\* task, which AsyncResourceScope keeps as a diagnostic.
Joined(p) ==
    LET l == pre[p].joins
    IN  /\ pre[p].at = "joining" /\ loop[l].at \in {"ended", "raised"}
        /\ publisher' = (publisher /\ loop[l].at = "raised")
        /\ loop' = [loop EXCEPT ![l] = Fresh]
        /\ pre' = [pre EXCEPT ![p] = Stopped(p)]
        /\ UNCHANGED <<clock, days, queue, running, stop, task, cursor,
                       history>>

\* The day is prepared under the write lock; or the preparation fails, or is
\* cancelled before or after it.
Prepare(p) ==
    /\ pre[p].at = "preparing"
    /\ \/ activeDay' = day /\ failures' = failures
       \/ /\ failures < MaxFailures
          /\ activeDay' = activeDay /\ failures' = failures + 1
    /\ pre' = [pre EXCEPT ![p].at = "resuming"]
    /\ UNCHANGED <<clock, queue, source, cursor, loop, history>>

\* DeadlineTimer.start: it keeps a task that is there, and clears the event
\* before it creates one.
StartTimer ==
    IF task # NoLoop
    THEN UNCHANGED <<stop, task, loop>>
    ELSE /\ stop' = FALSE
         /\ \E l \in Loops :
               /\ loop[l].at = "none"
               /\ task' = l
               /\ loop' = [loop EXCEPT ![l].at = "awake"]

BeingStopped == \E q \in Preflights : pre[q].at \in {"pausing", "joining"}

\* GenerationSources.resume in the finally of the preflight: it starts the
\* sources one after the other, unless they run.
Resume(p) ==
    /\ pre[p].at = "resuming"
    /\ running' = TRUE
    /\ pre' = [pre EXCEPT ![p].at = IF running THEN "idle" ELSE "starting"]
    /\ overlapped' = (overlapped \/ (~running /\ BeingStopped))
    /\ UNCHANGED <<clock, days, queue, publisher, stop, task, cursor, loop,
                   accepted, failed, belated>>

\* The turn of the timer, the last of them.  Meanwhile another preflight may
\* have paused the sources: they are started all the same.
StartSource(p) ==
    /\ pre[p].at = "starting"
    /\ pre' = [pre EXCEPT ![p].at = "idle"]
    /\ publisher' = TRUE
    /\ StartTimer
    /\ overlapped' = (overlapped \/ BeingStopped)
    /\ belated' = (belated \/ ~running)
    /\ UNCHANGED <<clock, days, queue, running, cursor, accepted, failed>>

\* A source before the timer does not start, or the preflight is cancelled
\* while it does: the sources are paused, and nobody resumes them.
StartFails(p) ==
    /\ pre[p].at = "starting"
    /\ failures < MaxFailures /\ failures' = failures + 1
    /\ running' = FALSE
    /\ pre' = [pre EXCEPT ![p] = IF running
                                 THEN [Outside EXCEPT !.at = "pausing", !.gone = TRUE]
                                 ELSE Outside]
    /\ UNCHANGED <<clock, activeDay, queue, publisher, stop, task, cursor,
                   loop, history>>

-----------------------------------------------------------------------------
Tick(l)      == TickInactive(l) \/ TickKeeps(l) \/ TickSubmits(l)
Publish(l)   == Published(l) \/ PublishFails(l)
Serve(l)     == Tick(l) \/ Publish(l) \/ Timeout(l) \/ LoopEnds(l)
Preflight(p) == StopTimer(p) \/ Joined(p) \/ Prepare(p) \/ Resume(p) \/ StartSource(p)

Next ==
    \/ ClockStep \/ QueueFills \/ QueueDrains
    \/ \E d \in Days : Evict(d)
    \/ \E l \in Loops : Serve(l)
    \/ \E p \in Preflights :
          Pause(p) \/ Preflight(p) \/ CancelPause(p) \/ StartFails(p)

\* The event loop resumes a task whose await has ended, deliveries and day
\* changes return, and the root queue is served.  Nobody promises that the
\* clock moves on, that other work fills the queue, or that a preflight begins.
Fairness ==
    /\ WF_vars(QueueDrains)
    /\ \A l \in Loops : WF_vars(Serve(l))
    /\ \A p \in Preflights : WF_vars(Preflight(p))

Spec     == Init /\ [][Next]_vars
FairSpec == Spec /\ Fairness

-----------------------------------------------------------------------------
\* (schedule.py:156-173, commands.py:72-94)  The requests of a day are
\* accepted as new once, whatever the queue, midnight, the retries and the day
\* changes do.  A second time needs an event that could not be published after
\* the first one, or two serve tasks at work; and the directory must have
\* forgotten the first requests by then.
AcceptedOnce ==
    \A d \in Days : accepted[d] > 1 =>
        evictions > 0 /\ (d \in failed \/ overlapped)

\* (scheduler.py:31-35, sources.py:57-64)  While the source is paused and nobody
\* is in the middle of stopping it, no serve task is left: the day is changed
\* with the timer joined, and no task is lost to the next start.  Excepted is a
\* timer whose turn in resume comes after another preflight has paused it.
JoinedWhenPaused ==
    ~running /\ ~belated /\ ~BeingStopped => \A l \in Loops : ~Live(l)

\* (scheduler.py:19, schedule.py:153, 177-179)  Unless a source is resumed while
\* it is still being stopped, at most one serve task is at work, it has a sink
\* to publish to, and only a failed publication ends it with an exception.
TimerRunsAlone ==
    ~overlapped =>
        /\ \A l, m \in Loops : Live(l) /\ Live(m) => l = m
        /\ (\E l \in Loops : Live(l)) => publisher
        /\ (\E l \in Loops : loop[l].at = "raised") => failed # {}

\* The sources are paused and no preflight is there to resume them.
Abandoned == ~running /\ \A p \in Preflights : pre[p].at = "idle"

\* (scheduler.py:21-27, schedule.py:69, 156-163, 173-175)  A held request is
\* accepted in the end, on whatever day that is.  A day beyond the cursor whose
\* due moment a task waits for with nothing held is reflected, unless the day is
\* over before the task gets to it.  A failed publication, or overlapping
\* preflights, may leave no timer behind; so does, until a later preflight
\* changes the day, one that is cancelled while it pauses the sources or cannot
\* start them again.  A day whose due moment passes while an earlier day is held
\* is not waited for: the task sleeps for the day after it.
DueIsReflected ==
    \A d \in Days :
        /\ (pending = d)
              ~> (accepted[d] > 0 \/ failed # {} \/ overlapped \/ []Abandoned)
        /\ (/\ day = d /\ late /\ emitted < d /\ pending = 0
            /\ \E l \in Loops : Live(l) /\ loop[l].wake <= d)
              ~> (\/ accepted[d] > 0 \/ day > d
                  \/ failed # {} \/ overlapped \/ []Abandoned)

\* (scheduler.py:31-35)  A preflight that stops the timer gets on: whatever the
\* serve task is doing, the event ends it, unless another preflight clears the
\* event before the task has seen it.
StopReturns ==
    \A p \in Preflights :
        (pre[p].at = "joining") ~> (pre[p].at # "joining" \/ overlapped)
=============================================================================
