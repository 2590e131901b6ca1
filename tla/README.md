# TLA+ models of the TinySoul Agent

This directory holds TLA+ specifications of the concurrent core of TinySoul (`src/tinysoul`), the
TLC configurations that check them on small instances, and TLAPS proofs of their main properties for
every instance. Paths below are relative to `src/`.

Run a model with `tlc -config MCTurnInbox.cfg MCTurnInbox`, check proofs with `tlapm
TurnInboxProofs.tla`. `PROJECT.json` lists the runs, the lines each definition models, the hazards,
the findings and the theorems. Definitions marked `MUTANT of X` are faulty versions of `X`, each of
which makes one property fail; no specification uses them.

## 1. The system and its parts

TinySoul is one Python process. Nearly all of its state belongs to one asyncio event loop, so its
steps are the stretches of code between two suspensions, and its races are between tasks that read
something, suspend, and act on it. Threads appear only behind joined operations; files are changed
by one task at a time, but the process may die between any two changes.

| part | state | operations | talks to |
|---|---|---|---|
| Runtime generations (`runtime/generation/handle.py`) | published generation, readers, writer, waiting writers, activity, activation, closed, one `_changed` event | read lease, write lease, activity lease, begin/complete/fail activation, replace, close | everything that uses a generation: root worker, services, configuration, close |
| Root scheduler (`agent/dispatch/scheduler.py`, `agent/handles.py`) | mailbox, handles, retention window, publish tasks, active handle, exit request | submit, submit a batch, cancel, exit, run, close requests | commands, Agent lifecycle, Turn runner |
| Agent lifecycle (`agent/sdk.py`) | state, runtime, start, shutdown, restart and worker tasks, future of the exit | start, serve, shutdown, restart, wait for the exit | scheduler, runtime |
| Day lifecycle (`agent/lifecycle/day.py`, `sources.py`) | active day, read/write lock, sources running | preflight, day lease, pause, resume, allocate a Turn identity | scheduler, services, archive, sources |
| Archive transition (`plugins/archive/transition`) | active roots, pending archive and its journal, catalog, archives | ensure the active day: recover or start, move, initialise, catalogue, rename | Session, Memory, Workspace, Trash |
| Turn runner and inbox (`kernel/loop/turn.py`, `kernel/loop/interaction/inbox.py`) | pending records, reply, Job results and requests, receipts, captured batch, cursors, Cycle budget | accept, reply, grant, capture, ack, wait, complete, close | users, sources, Jobs, Context |
| Jobs (`kernel/jobs/registry.py`) | running Jobs and their reservations | start, report, ask, cancel, close | Turn inbox, actions |
| Services (`agent/services.py`) | the generation and the day a service is bound to | resolve, call | runtime handle, day lease |
| Configuration (`infra/config/editing`) | files, presets, saved and active environment, lock | save, reload, apply, record, close | composition, runtime handle |
| Reflection trigger (`environment/sources/scheduler.py`, `plugins/reflection/schedule.py`) | serve task, stop event, last emitted and pending day | start, stop, tick, publish | day lifecycle, commands, event bus |
| Context (`kernel/context`) | segments, prepared batch | prepare, install, discard | Turn runner |
| Event stream (`gateway/endpoint/events`) | memory buffer, journal segments and manifest, cursors of clients | write, trim, replay a page, open | observations, clients |
| Events (`agent/dispatch/router.py`, `ingress.py`; `agent/observation`) | targets, subscriptions | route, publish | sources, inboxes, clients |
| Actions, LLM, plugins, endpoint, front end | calls in flight, files, connections | | Turn runner, users |

What is hard in it:

- *Waiting.* Handle, day lock and inbox each wake their sleepers with one event or condition that is
  set by many: a forgotten `set` is a task that never runs on.
- *Precedence.* Writers go before readers, and a Turn takes leases while it has leases: the classic
  way to a deadlock.
- *Exactly once.* A fact a user or a Job produced must be shown to the model once, although
  preparing the Context may fail, facts replace each other and identities are sent again after they
  were forgotten.
- *Stopping.* Cancellation, exit, shutdown and failure all settle the same handles, and a shutdown,
  a restart and a start may each meet the others half way.
- *Two copies.* Files, the saved environment and the running generation; a buffer and its journal:
  one is changed before the other, with failures, crashes and readers in between.
- *Midnight.* The day changes under running calls, sources and Turns, and four stores move together
  or not at all, crashes included.

Every component, those without a model too, is in `PROJECT.json` under `components`, and everything
hard to test, at its line, under `hazards`.

## 2. Modules

| module | what it is |
|---|---|
| `RuntimeHandle` | generation handle with its four kinds of user |
| `TurnInbox` | a Turn's inbox, the runner that consumes it, its producers and Jobs |
| `DayRollover` | abstract: the rollover of a day as one step |
| `DayTransition` | the journaled rollover with failures and crashes; implements `DayRollover` |
| `DayLifecycle` | preflight, day lease and sources of the running Agent; the rollover is one step of it |
| `RootRequests` | abstract: requests served in order, one at a time, settled once |
| `RootScheduler` | scheduler, handles, cancelling callers and shutdown; implements `RootRequests` |
| `AgentLifecycle` | the tasks that start, stop and restart the Agent, the worker and the exit |
| `ReflectionTimer` | the daily trigger: its serve task, its day cursor and the day changes that pause it |
| `ConfigControl` | saving, applying, reloading and recording configurations under failures and crashes |
| `EventFeed` | abstract: a page is one answer, a gap or a continuation of what was retained |
| `EventStream` | the Endpoint's buffer and journal, and clients that read them in pages; implements `EventFeed` |
| `AgentProofs` | inductive invariants and theorems of `AgentLifecycle` and of `DayLifecycle` |
| other `*Proofs` | inductive invariants and theorems of the module they extend |
| `MC*` | instances for TLC |

How they meet: `DayLifecycle` uses of `DayTransition` that a rollover succeeds or fails with the
storage half moved, `DayTransition` uses of `DayLifecycle` that a rollover excludes Turns.
`RootScheduler` assumes that a cancelled Turn ends, which is `TurnEnds` of `TurnInbox`.
`RuntimeHandle` sees a root Turn as a holder of nested leases. `AgentLifecycle` sees the worker of
`RootScheduler` as a task that ends by itself, by an error or by a cancellation; what a shutdown
does to the requests is in `RootScheduler`. `ReflectionTimer` has the pause and resume of
`DayLifecycle` with the timer as the source, its cancellations and failures included, and of
`RootScheduler` whether a request finds room and is still in the directory. `ConfigControl` sees of
`RuntimeHandle` that a generation is swapped between roots only.

### RuntimeHandle

Variables carry the names of the fields. Read leases, which the code counts, are a set of pairs of
task and depth, so that a property can say whose they are; the event `_changed` is the set of tasks
parked on it. The tasks are those of `RootScheduler.run` (activity, read lease, day, nested lease),
a service call (resolve, lease, recheck of the generation), `ConfigController._publish` (build,
commit file and swap, retire, or abort and resume) and `AgentRuntime.close`. Where the code does
more between two suspensions than an action, the finer steps only add behaviours. Sources are
started and stopped as flags of a generation. `close` does not wait for the root worker, as in the
code; the Agent's shutdown joins the worker before.

### TurnInbox

The four containers of the inbox are one set of numbered facts with a kind; `reserved` and
`requested` are the keys of the two that also hold reservations. `receipts` is total, 0 standing for
none. `capture`, preparing the Context, `install` and `ack` are separate, with a failure or a
cancellation possible between them; install and ack follow each other without a suspension and are
one step. `wait_for_cycle` is `Ready` (the order in which `_ready` looks), sleeping, waking by a
notification or a deadline, and the grant of more Cycles. A cancellation and a failure of the Turn
are both `Interrupted`: they take the same way out. There is one coalescing key and one filter of an
event wait; a poll of a Job makes at most one new request. Byte limits, the four requests per Job,
and the content of facts are left out.

### DayRollover and DayTransition

Every action of `DayTransition` is one change of the disk by `DailyLifecycleCoordinator` or one of
its participants, `pc` names the step to come. A check of the code that would raise in the middle of
a recovery is part of the step's guard, `ChecksPass` lists them, and `OnlyCrowdingRefuses` says that
none ever refuses but one: `WorkspaceEngine.archive_day` reconciles the Workspace before it moves
anything, and raises when that is incomplete. `crowded` stands for that, more files than `max_files`
or one that cannot be read. Turns and users bring it about at any moment (`Crowd`) and end it if
they like (`Tidy`); meanwhile every attempt that has to archive the Workspace ends in
`RefuseCrowded`. `Fail` is an exception, `Crash` a death of the process: the disk stays as it is,
and `Restart` begins with what is on it. A rename is atomic; loss of unsynced data on power failure
and other edits by the user are outside the model. `DayRollover` has one step that moves what a day
holds into an archive of its own; the refinement maps what is held by the pending archive to the day
it still belongs to.

### DayLifecycle

One root worker, service calls and the clock. `Preflight` to `UnstartDone` are
`AgentDayCoordinator.preflight`, with the pause and resume of `GenerationSources` and the start and
stop of the one source it has, which is of the kind of the Workspace watch
(`plugins/workspace/events.py`); `Read`, `Write` and `Leave` are the `AsyncReadWriteLock`. A root
error ends the scheduler (`stopped`); a cancellation does not. Its specification is `DaySpec`, so
that one module can hold the proofs of both lifecycles.

### RootRequests and RootScheduler

The worker and the shutdown task that joins it never run at the same time and share a program
counter. `Interrupt` is the cancellation of the worker by the shutdown; it is delivered to the
Turn's task if that is running, and stays pending if the worker is about to be resumed anyway.
`FinishHandle` starts the publish task of a handle or joins the one it finds in `_finishing`;
`Publish` is that task, and `Joined` the `_finishing.pop` after it. An identity is accepted once:
that is an assumption of the model (see the observations below). A Turn identity is a number within
a day. Duplicates, full queues and failing allocations change nothing.

### AgentLifecycle

The fields of `Agent` with the tasks as records of where they are and whether they were cancelled.
`CallStart`, `CallShutdown` and `CallRestart` are what a caller does before it joins; a task is one
action per stretch between two awaits. Cancelling a start has its effect at its next step,
cancelling it before its first step means that it never runs. A runtime is a number; `open` and
`accepting` say what became of it. `wanted` is a history variable: a start or a restart was asked
for after the last explicit shutdown. `explicit` says that a caller from outside has joined the
shutdown, since only such a caller cancels the future of the exit. Left out: the cancellation of a
caller, which `JoinedOperations` defers until the joined task ends; callers inside the worker or the
restart task, that is a Turn that shuts its own Agent down; failures of `runtime.close`, which are
reported as diagnostics. Two orders are taken from asyncio's first-in-first-out queue: `_stopped`
runs before the shutdown that joined the worker goes on, and a caller cancels the future before
anything can replace it.

### ReflectionTimer

`Serve(l)` are the steps of a serve task (`DeadlineTimer._serve` with the tick of
`ReflectionScheduler`), `Preflight(p)` those of a day change: `Pause`, the join of the task it
stopped, the preparation, `Resume`, which marks the sources as running, and `StartSource`, the
timer's turn in it. The timer is the last source of the standard order (`builder.py:995`):
`CancelPause` is a preflight that is cancelled while it pauses, which waits for the sources and
leaves without resuming them, and `StartFails` a source before the timer that does not start, or a
cancellation meanwhile, upon which the sources are paused again. After either nobody resumes them
until a later preflight changes the day: that is `Abandoned`, which `DueIsReflected` names as an end
of its own. `belated` and `overlapped` are history variables: the timer was started after another
preflight had paused the sources, the sources were resumed while another was still stopping them. A
tick without a due day is one step; the publication of a due event may suspend and may raise. The
two requests of a day are one unit, accepted together, refused together when the queue is full and
forgotten together; they have the day as their identity, so that sending them again is recognised
while they are known. Left out: activation of another generation, a disabled schedule, and a
difference between the monotonic and the calendar clock. Other sources of a generation show as the
delays between pausing and joining and between resuming and starting, and as `StartFails`.

### ConfigControl

`queue` and `holder` are the asyncio lock; the holder goes through reading, building a candidate,
staging, replacing one file after the other, and for an activation pausing, swapping and publishing,
or undoing and aborting. `sources` are the inputs of the served generation: an abort resumes those
that were paused, which may fail and then leaves them off with a `cleanup.failed` record
(`builder.py:516`, `controller.py:502`), and a root that meets a new day may fail for the same
reason (`DayChanges`); the next resumption that succeeds, or the next activation, has them running
again. `disk`, `environment` (last saved), `active` (published) and `serving` (of the handle's
generation) are four variables because the code changes them at four moments. The path that requests
write and the rest of a document are separate: the user edits the rest. A document that the user
edits during an operation, or whose own rollback fails, is excepted by the history variable
`touched`. A crash between two replacements leaves a mixture of old and new documents, which nothing
journals and the next start takes as they are: the history starts again from them. What remains is
that a call which is answered with success has its changes, and no others, in the files, and that a
failed one has left them as they were.

### EventFeed and EventStream

A write goes to the memory and then to the journal, under the router's lock. A page is put together
in a thread of its own in steps: the copy of the memory (`Snapshot`), the journal's reach (`Look`,
whose two short uses of the journal's lock are one step), whether to read it (`Check`), the segments
(`Read`), and the rest of the memory (`Finish`); writes, trimming and failures come between them. An
event carries its number, so memory, segments and pages are sets of events, and what the code scans
one event after the other is taken upwards: a page takes the events of which it accepts all that
come before them (`Taken`). `names` are the segment files, each by its first number, `lines` what is
in them; a file ends where the next begins. Events have a size; memory, segments, journal and pages
have bounds in bytes and in numbers.

`PartlyAppended` is whatever the disk may hold on the way through one append: nothing yet, a new
empty segment with or without half a line, the line, or the line with some of the old segments
trimmed. A crash leaves any of them and loses the memory; so does a failure, which degrades the
journal until the process ends. `OpenJournal` removes empty segments and the half line and goes on
from the last number, under a new instance; it refuses (`Unreadable`) segments that do not parse,
half a line before the last segment, and holes. A client reads page after page from the cursor it
was given; `delivered` holds what it got, batch after batch, since its last gap, `since` the cursor
it had then, and `lost` the numbers that the server gave up while one of its pages was being made:
history variables for what it should have got. A filter is one level. `write` refuses an event that
is larger than the memory (`buffer.py:85`), and the model has none; one that is larger than a
segment is taken by the memory and not by the journal, which degrades on it (`Admits`,
`AppendFails`).

`EventFeed` is the promise without the steps: a client asks (`Ask`, which remembers what is retained
then) and has its answer in one step, a `Gap` or a `Page` that goes on from its cursor with events
that were all retained when it asked, without those above its level, and leaves out at most what was
discarded before the answer. Writing, trimming, a failing disk and a broken segment are `Publish`
and `Discard`, a crash is `Stop`, opening the journal is `Restart`. Of `EventStream`, `Snapshot` is
`Ask`, `Finish` the answer, and `Look`, `Check` and `Read` are stutters, or discard what a broken
segment costs. When a gap is permitted `EventFeed` leaves open: a journal whose budget is smaller
than the memory announces gaps that the memory could have filled.

## 3. Model checking

Runs that pass:

| run | instance | distinct states | what it shows |
|---|---|---|---|
| `handle` | 2 roots, 1 service, 1 configuration, 2 generations | 50,643 | no generation is swapped or closed under a lease, one generation publishes; waiters get on, close returns |
| `inbox` | 1 input, 2 states, 1 question, 1 Job with a request, budget requests, capacity 1 | 828,838 | every accepted fact is installed exactly once or replaced, no wake-up is lost, the budget is exact, a Turn completes only when it saw everything and leaves nothing behind; input gets through, an ending Turn ends |
| `day_transition` | 3 days, 3 faults | 168,140 | Turns work on one day, facts stay with their day, a recovery refuses only a crowded Workspace, the whole is an atomic rollover; a day that lasts is reached, whatever failed, unless the Workspace is crowded |
| `day_lifecycle` | 2 calls, 2 days, 1 fault | 71,012 | work happens on its own day, no sleeper is forgotten; calls and Turns end |
| `agent` | 6 calls, 2 failures | 34,692 | an Agent that runs is served by an open runtime, a shutdown is final, the wait for the exit survives restarts; every start, shutdown and restart ends |
| `scheduler` | 3 requests, 1 caller, queue 2, window 1 | 522,677 | no request is lost or settled twice, a result has a cause; implements `RootRequests`; shutdown and exit end |
| `config` | 2 documents, 1 preset, 2 calls, 1 edit, 1 failing replacement or resumption, 1 crash | 1,401,284 | files are whole after every answer, the controller reports what is served, no inputs stay off in silence, nothing is swapped under a root; every call is answered |
| `stream` | 3 events of 4 kinds, memory 1, 2 segments, 1 client, 1 fault, 1 crash | 680,752 | pages are exact up to announced gaps, the journal has no hole and degrades for no other reason than a fault or an oversized event; a client comes to the end |
| `reflection` | 2 days, 2 preflights, 2 serve tasks, 2 fills, 1 failure or cancellation, 1 eviction | 386,978 | a day's requests are accepted once, the day changes with the timer joined; a due day is reflected unless the sources were abandoned, stopping returns |

*Bounds.* The smallest values at which every action fires and every limit is met from both sides:
queues, windows and receipts of size one or two are full, evict and refuse; two faults let a
recovery fail in its turn; three days let a recovery end on a day that is over; a caller and the
worker meet on one handle. Two tasks of a kind are what the conditions on readers and writers can
tell apart. Six calls are a start, a restart and a shutdown that meet, and as many after them; two
days let a held request outlive midnight and the next due moment; a memory of one event and two
segments make every page join the two; the four kinds of event fill a part of a segment, a whole
one, more than one, or are hidden from the client. A second failure of a day change (`reflection`)
multiplies the states; the invariants hold for any number by proof. `MaxSequence`, `MaxGeneration`,
`MaxDay`, `LastDay`, `MaxFaults`, `MaxFailures`, `MaxFills`, `MaxEvictions`, `MaxEdits`,
`MaxCrashes`, `MaxEvents`, `MaxCalls` and `MaxCycles` bound counters that grow for ever; where the
bound could make a step impossible that the code can always take (the terminal fact of a Job), the
model keeps room for it. No symmetry is used, since every run checks liveness too. What larger
instances could add to safety is the subject of the proofs. `CHECK_DEADLOCK FALSE` is set where the
system may stop: a closed Agent (`scheduler`), an Agent nobody calls (`agent`), calls that were all
answered (`config`), a stream nobody writes to any more (`stream`), and a clock at its last day
(`reflection`).

*Fairness.* A task that is ready is run: asyncio's ready queue is first in, first out, which is weak
fairness of every step of a task. A task that sleeps on an event and competes for a lock gets strong
fairness for the step that succeeds: every waiter is put on the ready queue when the event is set,
in the order of waiting, and whoever finds its condition false queues again behind. Users, sources
and the clock have no fairness, with three exceptions: a deadline passes, a Turn that was cancelled
or is being finalized ends, and a full root queue drains (`QueueDrains`). `MaxFaults` and the like
say that failures, and in `DayTransition` the fillings of the Workspace, do not go on for ever, and
`MaxFills` that the queue is not filled again and again; nobody has to tidy the Workspace up (`Tidy`
has no fairness). In `AgentLifecycle` the tasks go on and a cancelled worker leaves, while a worker
that nobody cancelled may serve for ever. In `ConfigControl` the lock is given on and its holder
goes on; users, edits and roots are free. In `EventStream` the journal takes what was written, or
degrades, and a client's pages go on; nobody has to write.

Runs that find a violation state what a document or a message of the repository says, and show a
behaviour of the code that contradicts it:

| run | property | what happens |
|---|---|---|
| `day_sources_bound` | after a day change the sources are bound again | a resume starts a source that another preflight is still stopping; it counts as running and is not bound |
| `scheduler_reported` | a Turn that returned an outcome is reported with it | the shutdown cancels the worker after the task has returned and before the worker is resumed; the result is CANCELLED |
| `stream_gap` | events that were evicted are announced by a gap | a segment is trimmed between the moment a page looks how far back the journal goes and the moment it reads it |

The race of the scheduler was also reproduced with plain asyncio code of the same shape. It needs a
task that returns: one that ends by a cancellation of its own (`cancelled_outcome` of `Verdict`)
hands that exception, with the outcome, to the worker in the same race. The texts they contradict
are quoted under `findings`.

*Observations* made while modelling, which no run states as a property:

- `day.py:125`, `day.py:156`: a Turn that begins just before midnight, or a second preflight during
  the first one's pause, changes the day with the sources bound; the closers, chosen by the local
  `changing` (`day.py:129`), may meet a Turn of the new day.
- `day.py:142`: a call that waited for the lease during a rollover that fails gets it on storage
  that is half moved (`docs/design/reflection.md:18` speaks of whole days).
- `day.py:125`, `sources.py:53`: a preflight that is cancelled while it pauses the sources, or that
  cannot start one of them again, leaves all of them off, and the error is the only trace; the timer
  rests and a held day is not accepted before a later preflight changes the day. `DueIsReflected`
  excepts it (`Abandoned`).
- `sources.py:40`: `resume` starts one source after the other and does not look again: a source may
  be started although another preflight has paused them all meanwhile, and then runs through that
  day change (`belated`).
- `workspace/engine.py:257`: the reconciliation that may refuse comes after Session was archived.
  While the Workspace holds more than `max_files`, every rollover, and with it every Turn, is
  refused with Session in the pending archive.
- `builder.py:516`: inputs that do not resume in an abort stay off, with a `cleanup.failed` record;
  no status of the controller says so, and the next day change or activation starts them again.
- `gateway/endpoint/config.py:65`: `event_bytes` (32 MiB) is larger than `journal_segment_bytes` (8
  MiB): with the defaults one large event degrades the journal until the process ends
  (`journal.py:233`), although nothing is wrong with the disk.
- `inbox.py:613`: the one report that a source failed meets a full inbox and is refused; a wait for
  that source sleeps on.
- `inbox.py:626`: later records evict the receipt of a pending reply, after which a second reply to
  the question is accepted and replaces the first; `ExactlyOnce` counts the first as replaced.
- `scheduler.py:338`: an identity that comes again before the canceller of its former handle has
  removed the finished publish task from `_finishing` is never published.
- `schedule.py:174`: the delay is computed from the time at which the tick began, and a day whose
  due moment passes while an earlier day is held is never emitted.
- `schedule.py:164`: an observer whose inbox is full refuses the due event, and the exception ends
  the serve task: the timer rests until the next day change, although the comment there says that
  admission does not depend on Turn subscriptions.
- `environment/sources/scheduler.py:19`: when a source is started while its former task is still
  being joined, `stop` may not return before the next stop; `reflection`'s properties except that
  overlap (`overlapped`), which has the same cause as `day_sources_bound`.
- `controller.py:235`: the sources are read again at the beginning of a save, so that an edit from
  outside is not overwritten; one that is made between that moment and the replacement still is.

## 4. Proofs

All theorems hold for every value of the constants that satisfies the named assumptions
(`TaskAssumption`, `InboxAssumption`, `DayAssumption`, `LifecycleAssumption`, `SchedulerAssumption`,
`ConfigAssumption`, `TimerAssumption`, `AgentAssumption`, `StreamAssumption`), which say no more
than that tasks are distinct from each other and from the value for "none", that bounds are numbers,
that requests have the form of requests, and that the memory has room for every event it takes
(`buffer.py:85`) and the journal for a segment (`journal.py:63`). Each proof has an inductive
invariant, a lemma that the initial states satisfy it, a lemma with one case per action that steps
keep it, and the properties as corollaries.

*RuntimeHandleProofs.* `HandleInv` is `TypeOK` with `LockOrder` (who is where while it has a lock),
`LeaseOwners` and `ActivityOwners` (a lease, a writer, an activity belongs to a task at a step that
has one), `ParkedTasks` (who sleeps waits for something that is not so), `Closing`, `Numbering` and
`SourceOwners`. The properties speak of the handle only, whose counters say nothing about who will
give a lease back: the owners are what makes them inductive. Proved: `LeasedGenerationIsLive`,
`WaitersHoldNoLease` (why a Turn's nested lease cannot deadlock with a waiting writer),
`ActivityHasItsOwner`, `OneGenerationPublishes`, `ClosedIsQuiet`, the action property
`GenerationPinned`, and that no writer ever waits: activities exclude readers before a writer comes.

*TurnInboxProofs.* `InboxInv` joins the checked invariants with the numbering of facts (`Numbered`:
numbers are unique and below the counter), the captured batch (`BatchOK`: a batch is everything
pending up to its top) and the cursors (`CursorOK`: nothing pending is at or below what was
acknowledged). Proved: `ExactlyOnce`, `CompletedSawEverything`, `EverythingInstalledAtEnd`,
`SleeperHasNothing` (no lost wake-up), `BudgetIsExact`, `PendingHasReceipt`, `TwoStateSlots`,
`CycleStartsClean` and `SlotsMatchJobs`.

*DayTransitionProofs.* `TransitionInv` says, for each step the process may be at or may have died
at, what is on disk: which participants were moved, what the journal says of them, whose facts are
where. It says nothing of `crowded`, which may change at any moment: `OnlyCrowdingRefuses` follows
because it is looked at in one place only, before anything of the Workspace is moved. Proved: the
four safety properties, and `TransitionRefines`: the journaled rollover implements the atomic one.

*AgentProofs*, first part. `LifecycleInv` adds to the checked invariants who owns the lock at which
step and that days only grow. Proved: `WorkOnOwnDay`, `SleepersAreHeldUp` and the action property
`DayChangesAlone`.

*RootSchedulerProofs.* `SchedulerInv` has one named part for each owner of a request: `QueueOrder`
(the mailbox holds exactly the queued requests, by number), `WorkerOwns` (the active request, and no
other, is executed), `HandleOK` (what the state of a handle says of its Future, its publish task and
its Turn), `WindowHolds`, `Joins` (what each task in `_finish_handle` waits for), `Closing` (what
`close_requests` has left to visit), `Numbering` and `Causes`. `NothingLost` is not inductive
without them: that a request is in one place depends on who may move it on. There is one lemma per
part with one case per action; `SubmitEffect`, `PublishEffect` and `DiscardKeeps` say once what the
larger steps do. Proved: `NothingLost`, `QueueIsLive` (with the finite set of queued requests
counted against the capacity), `WindowIsSettled`, `ResultsHaveACause`, `TurnsInOrder`,
`ClosedIsSettled`, and `SchedulerRefines`: submitting accepts, the worker's `Get` runs the request
that waits longest, publishing settles, and every other step at most withdraws.

*AgentProofs*, second part. `AgentInv` says what a task may rely on when it goes on: only the
Agent's runtime is open (`Runtimes`); a worker that was not reported belongs to an Agent that runs
or is being stopped (`Workers`); a start that was overtaken by a shutdown or a restart can see it
from the state (`Starts`), and one that was not finds its runtime untouched; a shutdown keeps the
state until its end (`Shutdowns`); a restart on its way to the start was stopped or is wanted
(`Restarts`). Proved: `RunningIsServed`, `NoRuntimeIsLeft`, `ShutdownIsFinal` and the action
property `ExitIsKept`.

*ReflectionTimerProofs.* `TimerInv` is `TypeOK`, who owns which serve task (`Owned`), what a paused
source looks like, unless one was started after the pause (`Paused`), how often a day was accepted
(`Counted`), and, unless a source was started while it was being stopped, that one task is at work
(`Alone`) and the cursor is settled (`Settled`). Proved: `AcceptedOnce`, `JoinedWhenPaused`,
`TimerRunsAlone`.

*ConfigControlProofs.* `ConfigInv` says who may be where in an operation (`Held`), when the handle
is held (`Handle`) and what is served, published, paused or off at each phase (`Served`): inputs are
paused only inside an activation. `FilesInv` adds what the files hold at each step of a transaction,
for `FilesAreWhole`. Proved: `FilesAreWhole`, `ActiveIsServed` and the action property
`NoSwapUnderRoot`.

*EventStreamProofs.* `StreamInv` has a part for each thing that a restart or a page relies on.
`Server` is `Numbering` (a number is given once in a numbering), `Memory` (it is the newest part of
what was written, and holds the event on its way to the journal), `Disk` (at every moment, also half
way through an append, what is on the disk has no hole, lies in a segment, and can be opened;
without a fault only an event of this numbering that exceeds a segment, `Oversized`, has degraded
it) and `Journal` (one that works stands where `write` stands, and from each of its segments on
holds everything). For each client, `PageInv` says what a page under way may rely on although the
server goes on: `Copy` (its copy of the memory reaches from `Oldest` to `upper`, and whatever is
older can come only from the journal), `Reaches` (without a gap, everything it asks for was retained
when it began) and `Progress` with `Covers` (up to where it has come it has every event but those
that are `Gone`, retained at its beginning and discarded since); `Gave` says the same of what the
client has. `PagesAreExact` alone is not inductive: that the last step of a page may claim the
events up to `upper` depends on what the earlier steps saw of a memory and of segments that no
longer exist. The argument has three parts. Lemmas on the operators say what an eviction, a
rotation, a trim, a journal page and the two parts of a page return (`EvictedIs`, `StartIs`,
`JournalPageIs`, `ExtendedIs`, `OldIs`, `ResultIs`, `GivenHas`, `GivenIs`). `Onward` says what every
step of the server, and of other clients, has in common (numbers grow, the old events in memory and
journal only become fewer, a degraded journal stays degraded), and `OnwardPage` and `OnwardGave`
that such steps keep every page as it is. What is left is one lemma per step of the client itself.
Proved: `PagesAreExact` and `JournalIsWhole`, for any sizes and bounds, clients, failures and
restarts; and that the stream implements `EventFeed` (`PagesAreAnswers`), with `Retained`,
`Obtained` and `Asked` as the refinement mapping. `PageIs`, what a finished page is worth, carries
both `PagesAreExact` and the refinement; the other steps of the refinement have a lemma each
(`WritePublishes` to `FinishAnswers`).

The type invariants are proved and not listed in the runs: each is the first part of the inductive
invariant of its module. Nor are the theorems in the runs which those of the same module make
plausible: `WaitersHoldNoLease`, `ActivityHasItsOwner`, `ClosedIsQuiet`, `PendingHasReceipt`,
`CycleStartsClean`, `SlotsMatchJobs`, `CatalogFindsArchives`, `DayChangesAlone`, `QueueIsLive`,
`WindowIsSettled`, `TurnsInOrder`, `ClosedIsSettled`, `TimerRunsAlone`, `NoRuntimeIsLeft`,
`PagesAreAnswers` (which TLC confirms, as `PROPERTY`, on the instance of `stream` in a few seconds).

Only model-checked: every liveness property (fairness and ENABLED are out of the prover's reach),
and the negative results, which are traces. Every other property of the runs that pass is the
subject of a theorem. In `EventStream` what the sums of sizes amount to is not proved, for no safety
property depends on it: the proofs hold whichever events an eviction, a trim or a page's budget
selects, as long as they are the newest, the last segments, the first; that a page gets on
(`FollowersCatchUp`) does depend on them and stays with TLC.

## 5. What is not modelled

Text, prompts, token accounting, provider formats, configuration parsing, retrieval and the front
end are data or pure conversions. Network, processes and file contents are represented by the
success or failure of the step that uses them. The parts marked `not_modelled` in `PROJECT.json` say
why, or that they are planned. Three hazards there have no property: the report of a failed source
that meets a full inbox (`inbox.py:613`), a call that gets its lease after a rollover failed half
way (`day.py:142`), and an identity that comes again while its former handle is finished
(`scheduler.py:329`, where the model accepts an identity once). They are described among the
observations; of the first two no property could say more than what the code does.

## 6. Plan

Done, the most important behaviour first: generations, the Turn inbox, the journaled rollover, the
day lifecycle, the scheduler, the configuration's transaction, the event stream, the Reflection
trigger, the Agent's lifecycle. What is left, in this order:

1. `EventRouting`: router, subscriptions, registration by request identity and ingress; composed
   with `RootScheduler` for identities that come again.
2. `JobRegistry` in full: resources, requests per Job, output, cancellation.
3. `CyclePhases` and `ActionExecution`: the phases of a Cycle, parallel actions, hooks and their
   failures; then the model chain's retries (`llm/execution`).
4. Session records: what a committed Turn leaves on disk, with crashes.
