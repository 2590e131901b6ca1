----------------------------- MODULE TurnInbox -----------------------------
(***************************************************************************)
(* One Turn's inbox (tinysoul/kernel/loop/interaction/inbox.py), its only  *)
(* consumer, TurnRunner.run (tinysoul/kernel/loop/turn.py), and those who  *)
(* produce for it: user input, environment events, question replies,       *)
(* budget decisions and the Jobs the Turn started (kernel/jobs).           *)
(*                                                                         *)
(* Every accepted fact gets the next admission sequence number.  `facts`   *)
(* is what is pending in the four containers _records, _reply, _terminals  *)
(* and _job_inputs, told apart by kind; `reserved` and `requested` are the *)
(* keys of _terminals and _job_inputs, those without a fact included.  The *)
(* condition lock of the inbox is never held across a suspension, so each  *)
(* of its operations is one step.                                          *)
(*                                                                         *)
(* installed, superseded, unseen and granted are history variables: what   *)
(* the Context was given, what a newer fact replaced, the facts asking for *)
(* a decision that no Cycle has had in its Context yet, and the Cycles     *)
(* granted so far.                                                         *)
(***************************************************************************)
EXTENDS Naturals, FiniteSets

CONSTANTS
  Inputs,           \* identities of appended user input
  Events,           \* identities of ordinary events; they need a decision
  States,           \* identities of the state notifications of one source
  Wanted,           \* the events and states an EVENT wait is filtered for
  StatusEvent,      \* identity of the event reporting that a source failed
  Questions,        \* identities of questions
  Jobs,             \* identities of Jobs
  Requests,         \* identities of the inputs a Job may ask for
  NoQuestion,       \* value of _question when there is none
  Capacity,         \* InboxLimits.capacity
  RetainedReceipts, \* InboxLimits.retained_receipts
  TerminalCapacity, \* InboxLimits.terminal_capacity
  PerTurnCapacity,  \* JobRegistry's per_turn_capacity
  InitialCycles,    \* LoopSettings.max_cycles
  MaxCycles,        \* bound: no grant takes the Cycle limit beyond it
  MaxSequence       \* bound: the last admission sequence number

ASSUME InboxAssumption ==
  /\ Capacity \in Nat /\ RetainedReceipts \in Nat /\ TerminalCapacity \in Nat
  /\ PerTurnCapacity \in Nat
  /\ InitialCycles \in Nat /\ MaxCycles \in Nat /\ MaxSequence \in Nat
  /\ NoQuestion \notin Questions

RecordIds == Inputs \cup Events \cup States \cup {StatusEvent}
RecordKinds == {"input", "event", "state"}
Kinds == RecordKinds \cup {"reply", "terminal", "jobInput"}
Waits == {"none", "question", "job", "event", "timer"}
Wakes == {"none", "input", "reply", "event", "job", "source", "timer"}
JobStates == {"none", "starting", "live", "closed", "delivered", "released", "stuck"}
PCs == {"boundary", "budget", "waiting", "resume", "prepareCycle", "cycle", "recheck",
        "prepareRecheck", "tryClose", "closing", "cleanup", "drain", "prepareDrain", "ended",
        "failed"}

VARIABLES
  (* TurnInbox *)
  sequence,      \* _sequence
  facts,         \* the pending facts: [seq, kind, id]
  receipts,      \* _receipts: identity -> sequence number, 0 for no receipt
  question,      \* _question
  reserved,      \* keys of _terminals
  requested,     \* keys of _job_inputs, <<Job, request>>
  captured,      \* whether _captured is set
  batch,         \* the sequence numbers of the captured batch
  top,           \* its next_sequence
  acknowledged,  \* _acknowledged_sequence
  budget,        \* whether _budget_request is open
  grant,         \* _grant, 0 for none
  closed,        \* _closed
  (* TurnRunner.run and wait_for_cycle *)
  pc,            \* where the runner is
  wait,          \* pending_wait: the kind of condition
  after,         \* cycle_cursor, which becomes its after_sequence
  deadline,      \* its deadline: none, future or passed
  wake,          \* wake of wait_for_cycle
  notified,      \* the loop of wait_for_cycle has to look again
  spent,         \* Cycles begun
  limit,         \* cycle_limit
  asked,         \* the questions the model has asked
  outcome,       \* how the Turn ended
  (* the others *)
  jobs,          \* JobRegistry: where each Job is
  source,        \* a source's status: up, failed, or failed and reported
  (* history *)
  installed, superseded, unseen, granted

intakeVars == <<sequence, facts, receipts, superseded, unseen>>
jobVars == <<reserved, requested, jobs>>
batchVars == <<captured, batch, top, acknowledged, installed>>
budgetVars == <<budget, grant, limit, granted, spent>>
waitVars == <<wait, after, deadline, wake, question, asked>>
vars == <<intakeVars, jobVars, batchVars, budgetVars, waitVars, notified, closed, pc, outcome,
          source>>

Init ==
  /\ sequence = 0 /\ facts = {} /\ receipts = [i \in RecordIds \cup Questions |-> 0]
  /\ superseded = {} /\ unseen = {}
  /\ reserved = {} /\ requested = {} /\ jobs = [j \in Jobs |-> "none"]
  /\ captured = FALSE /\ batch = {} /\ top = 0 /\ acknowledged = 0 /\ installed = {}
  /\ budget = FALSE /\ grant = 0 /\ limit = InitialCycles /\ granted = 0 /\ spent = 0
  /\ wait = "none" /\ after = 0 /\ deadline = "none" /\ wake = "none"
  /\ question = NoQuestion /\ asked = {}
  /\ notified = FALSE /\ closed = FALSE /\ pc = "boundary" /\ outcome = "none"
  /\ source = "up"

(***************************************************************************)
(* Producers.                                                              *)
(***************************************************************************)
Of(kinds) == {f \in facts : f.kind \in kinds}
Seqs(fs) == {f.seq : f \in fs}

\* The next admission number goes to a fact of kind k and identity i.
Fact(k, i) == [seq |-> sequence + 1, kind |-> k, id |-> i]
KindOf(i) == IF i \in Inputs THEN "input" ELSE IF i \in States THEN "state" ELSE "event"

\* The Jobs that have still to deliver their terminal fact.
Unfinished == {j \in Jobs : jobs[j] \in {"starting", "live", "closed"}}

\* Room below the bound for one more number, keeping one for every such Job.
Room == sequence + Cardinality(Unfinished) < MaxSequence

\* Eviction: the oldest receipts outside `keep` go, until at most
\* RetainedReceipts more than `keep` are left.
Evict(rs, keep) ==
  LET held == {i \in DOMAIN rs : rs[i] > 0}
      Older(i) == {k \in held \ keep : rs[k] <= rs[i]}
      Goes(i) == /\ i \in held \ keep
                 /\ Cardinality(Older(i)) + RetainedReceipts + Cardinality(keep)
                      <= Cardinality(held)
  IN  [i \in DOMAIN rs |-> IF Goes(i) THEN 0 ELSE rs[i]]

\* MUTANT of Replaced: the captured batch is not protected.
ReplacedInBatch(k) ==
  {f \in Of({"state"}) : k = "state" /\ \A g \in Of({"state"}) : g.seq <= f.seq}

\* The state notification a new one replaces: the newest, unless it is in the
\* captured batch.
Replaced(k) ==
  {f \in Of({"state"}) : /\ k = "state"
                         /\ captured => f.seq > top
                         /\ \A g \in Of({"state"}) : g.seq <= f.seq}

\* MUTANT of Notify: the wake-up is forgotten.
NotifyNobody == notified' = notified

\* notify_all: a runner asleep in wait_for_cycle looks again.
Notify == notified' = (pc = "waiting")

\* A record of kind k and identity i enters _records.
Enters(k, i) ==
  /\ facts' = (facts \ Replaced(k)) \cup {Fact(k, i)}
  /\ sequence' = sequence + 1
  /\ receipts' = Evict([receipts EXCEPT ![i] = sequence + 1],
                       {f.id : f \in {g \in facts' : g.kind \in RecordKinds}})
  /\ superseded' = superseded \cup Replaced(k)
  /\ unseen' = IF k = "state" THEN unseen ELSE unseen \cup {sequence + 1}
  /\ Notify

\* TurnInbox.accept of a record without a receipt (with one, the call answers
\* from the receipt).  State notifications do not count against the capacity.
Accept(i) ==
  /\ Room /\ ~closed /\ receipts[i] = 0
  /\ i \in States \/ Cardinality(Of({"input", "event"})) < Capacity
  /\ Enters(KindOf(i), i)
  /\ UNCHANGED <<jobVars, batchVars, budgetVars, waitVars, closed, pc, outcome, source>>

\* A source of the wanted events fails: its status says so before the event
\* that reports it is published.
SourceFails ==
  /\ source = "up" /\ source' = "failed"
  /\ UNCHANGED <<intakeVars, jobVars, batchVars, budgetVars, waitVars, notified, closed, pc,
                 outcome>>

\* The event is published once.  Only an inbox whose EVENT wait it concerns
\* accepts it, and only while an ordinary slot is free.
SourceReports ==
  LET taken == /\ ~closed /\ pc = "waiting" /\ wait = "event" /\ receipts[StatusEvent] = 0
               /\ Cardinality(Of({"input", "event"})) < Capacity
  IN  /\ source = "failed" /\ source' = "reported"
      /\ taken => Room
      /\ IF taken THEN Enters("event", StatusEvent) ELSE UNCHANGED <<intakeVars, notified>>
      /\ UNCHANGED <<jobVars, batchVars, budgetVars, waitVars, closed, pc, outcome>>

\* TurnInbox.reply to the open question when it has no receipt.  The fact takes
\* the reply slot, whatever is in it.
Reply(q) ==
  /\ Room /\ receipts[q] = 0 /\ ~closed /\ question = q
  /\ facts' = (facts \ Of({"reply"})) \cup {Fact("reply", q)}
  /\ sequence' = sequence + 1
  /\ receipts' = [receipts EXCEPT ![q] = sequence + 1]
  /\ superseded' = superseded \cup Of({"reply"})
  /\ unseen' = (unseen \ Seqs(Of({"reply"}))) \cup {sequence + 1}
  /\ Notify
  /\ UNCHANGED <<jobVars, batchVars, budgetVars, waitVars, closed, pc, outcome, source>>

\* TurnInbox.grant_cycles: a request is granted once.
GrantCycles(n) ==
  /\ ~closed /\ budget /\ grant = 0 /\ limit + n <= MaxCycles
  /\ grant' = n /\ granted' = granted + n
  /\ Notify
  /\ UNCHANGED <<intakeVars, jobVars, batchVars, waitVars, budget, limit, spent, closed, pc,
                 outcome, source>>

\* The deadline of the current wait passes; the runner's timeout wakes it.
DeadlinePasses ==
  /\ deadline = "future" /\ deadline' = "passed"
  /\ Notify
  /\ UNCHANGED <<intakeVars, jobVars, batchVars, budgetVars, wait, after, wake, question, asked,
                 closed, pc, outcome, source>>

(***************************************************************************)
(* Jobs: JobRegistry.start, the monitor task of a Job, JobRegistry.stop.   *)
(***************************************************************************)
JobUnchanged == UNCHANGED <<batchVars, budgetVars, waitVars, closed, pc, outcome, source>>

\* start, inside a Cycle: the terminal slot is reserved before the backend runs.
JobReserve(j) ==
  /\ pc = "cycle" /\ jobs[j] = "none" /\ Room
  /\ ~closed /\ Cardinality(reserved) < TerminalCapacity
  /\ Cardinality({k \in Jobs : jobs[k] \in {"starting", "live"}}) < PerTurnCapacity
  /\ reserved' = reserved \cup {j} /\ jobs' = [jobs EXCEPT ![j] = "starting"]
  /\ UNCHANGED <<intakeVars, requested, notified>> /\ JobUnchanged

JobStarted(j) ==
  /\ jobs[j] = "starting" /\ jobs' = [jobs EXCEPT ![j] = "live"]
  /\ UNCHANGED <<intakeVars, reserved, requested, notified>> /\ JobUnchanged

\* start raises: release gives the slot back.
JobStartFails(j) ==
  /\ jobs[j] = "starting" /\ jobs' = [jobs EXCEPT ![j] = "released"]
  /\ reserved' = reserved \ {j}
  /\ UNCHANGED <<intakeVars, requested, notified>> /\ JobUnchanged

HasInput(k) == \E f \in facts : f.kind = "jobInput" /\ f.id = k

\* _monitor reports the requests S the Job is waiting for: consumed ones that
\* are over are forgotten, the new one (at most one per poll here) gets a slot.
JobAsks(j, S) ==
  LET fresh == {r \in S : <<j, r>> \notin requested}
  IN  /\ jobs[j] = "live" /\ \A r, t \in fresh : r = t
      /\ fresh # {} => Room
      /\ requested' = {k \in requested : k[1] = j => k[2] \in S \/ HasInput(k)}
                        \cup {<<j, r>> : r \in fresh}
      /\ facts' = facts \cup {Fact("jobInput", <<j, r>>) : r \in fresh}
      /\ sequence' = IF fresh = {} THEN sequence ELSE sequence + 1
      /\ unseen' = unseen \cup {sequence + 1 : r \in fresh}
      /\ Notify
      /\ UNCHANGED <<receipts, superseded, reserved, jobs>> /\ JobUnchanged

\* _close_execution succeeded, in the monitor or in stop.
JobCloses(j) ==
  /\ jobs[j] = "live" /\ jobs' = [jobs EXCEPT ![j] = "closed"]
  /\ UNCHANGED <<intakeVars, reserved, requested, notified>> /\ JobUnchanged

\* deliver_terminal fills the slot reserved for j.
Delivers(j) ==
  /\ facts' = facts \cup {Fact("terminal", j)}
  /\ sequence' = sequence + 1
  /\ unseen' = unseen \cup {sequence + 1}
  /\ Notify
  /\ UNCHANGED <<receipts, superseded>>

\* _terminal, in the monitor or in stop.
JobTerminal(j) ==
  /\ jobs[j] = "closed" /\ jobs' = [jobs EXCEPT ![j] = "delivered"]
  /\ Delivers(j)
  /\ UNCHANGED <<reserved, requested>> /\ JobUnchanged

(***************************************************************************)
(* The runner: waiting for the next Cycle.                                 *)
(***************************************************************************)
\* The limit is reached: a budget request is opened.
RequestBudget ==
  /\ pc = "boundary" /\ spent >= limit
  /\ ~closed /\ ~budget
  /\ budget' = TRUE /\ pc' = "budget"
  /\ Notify
  /\ UNCHANGED <<intakeVars, jobVars, batchVars, waitVars, grant, limit, granted, spent, closed,
                 outcome, source>>

\* wait_for_cycle begins: its loop looks at the inbox before it sleeps.
EnterWait ==
  /\ \/ pc = "budget"
     \/ pc = "boundary" /\ spent < limit /\ wait # "none"
  /\ wait = "question" => question # NoQuestion
  /\ pc' = "waiting" /\ wake' = "none" /\ notified' = TRUE
  /\ UNCHANGED <<intakeVars, jobVars, batchVars, budgetVars, wait, after, deadline, question,
                 asked, closed, outcome, source>>

\* _ready and _matches_event: the pending facts the current wait is for.
Matches(f) ==
  \/ f.kind = "input"
  \/ wait = "question" /\ f.kind = "reply"
  \/ wait = "event" /\ f.id \in Wanted
  \/ wait = "job" /\ f.kind \in {"terminal", "jobInput", "event"}

\* _ready: the reason to wake, by the first pending fact after the cursor that
\* matches, else by a failed source, else by the deadline.
Ready ==
  LET hits == {f \in facts : f.seq > after /\ Matches(f)}
      first == CHOOSE f \in hits : \A g \in hits : f.seq <= g.seq
  IN  IF hits # {}
        THEN IF first.kind \in {"input", "reply"} THEN first.kind
             ELSE IF first.kind \in {"event", "state"} THEN "event" ELSE "job"
        ELSE IF wait = "event" /\ source # "up" THEN "source"
        ELSE IF deadline = "passed" THEN "timer" ELSE "none"

\* The wake so far: once found it is kept while the budget is missing.
Woken == IF wait # "none" /\ wake = "none" THEN Ready ELSE wake

\* MUTANT of Returns: a satisfied condition passes over the missing budget.
ReturnsUnpaid == \/ wait = "none" /\ grant > 0
                 \/ wait # "none" /\ Woken # "none"

\* wait_for_cycle returns: a question that expired needs no budget.
Returns ==
  \/ wait = "question" /\ Woken = "timer"
  \/ (budget => grant > 0) /\ (wait = "none" \/ Woken # "none")

\* One pass of wait_for_cycle's loop that goes to sleep.
WaitSleeps ==
  /\ pc = "waiting" /\ notified /\ ~Returns
  /\ wake' = Woken /\ notified' = FALSE
  /\ question' = IF wait = "question" /\ Woken # "none" THEN NoQuestion ELSE question
  /\ UNCHANGED <<intakeVars, jobVars, batchVars, budgetVars, wait, after, deadline, asked, closed,
                 pc, outcome, source>>

\* The grant goes into the limit, and the request is over.
TakeGrant == /\ budget' = FALSE /\ grant' = 0 /\ limit' = limit + grant

\* The finally clause of wait_for_cycle.
EndQuestion == question' = IF wait = "question" THEN NoQuestion ELSE question

\* The pass that returns: an expired question ends the Turn, otherwise the
\* runner notes why it resumes.
WaitReturns ==
  /\ pc = "waiting" /\ notified /\ Returns
  /\ TakeGrant /\ EndQuestion
  /\ IF wait = "question" /\ Woken = "timer"
       THEN pc' = "closing" /\ outcome' = "awaiting_user"
       ELSE pc' = "resume" /\ outcome' = outcome
  /\ wait' = "none" /\ deadline' = "none" /\ wake' = "none" /\ notified' = FALSE
  /\ UNCHANGED <<intakeVars, jobVars, batchVars, granted, spent, after, asked, closed, source>>

(***************************************************************************)
(* The runner: installing a batch, _consume_inbox.                         *)
(***************************************************************************)
\* capture: what is pending becomes the batch, unless one is captured already.
Capture ==
  /\ \/ pc = "boundary" /\ spent < limit /\ wait = "none" /\ pc' = "prepareCycle"
     \/ pc = "resume" /\ pc' = "prepareCycle"
     \/ pc = "recheck" /\ pc' = "prepareRecheck"
     \/ pc = "drain" /\ pc' = "prepareDrain"
  /\ captured' = TRUE
  /\ IF captured
       THEN UNCHANGED <<batch, top>>
       ELSE /\ batch' = Seqs(facts)
            /\ top' \in Seqs(facts) \cup {0}
            /\ \A f \in facts : f.seq <= top'
            /\ facts # {} => top' # 0
  /\ UNCHANGED <<intakeVars, jobVars, budgetVars, waitVars, acknowledged, installed, notified,
                 closed, outcome, source>>

\* The facts an acknowledgement of the captured batch removes.
Covers(f) == f.seq <= top

\* The keys of _job_inputs that stay: `left` is still pending, `slots` reserved.
KeepsRequests(left, slots) ==
  {k \in requested : \/ k[1] \in slots
                     \/ \E f \in left : f.kind = "jobInput" /\ f.id = k}

\* The Context has prepared the batch and installs it; ack follows before
\* anything else runs.
Ack ==
  LET left == {f \in facts : ~Covers(f)}
      slots == {j \in reserved : \A f \in facts :
                  f.kind = "terminal" /\ f.id = j => ~Covers(f)}
  IN  /\ installed' = installed \cup batch
      /\ facts' = left
      /\ reserved' = slots /\ requested' = KeepsRequests(left, slots)
      /\ acknowledged' = IF top > acknowledged THEN top ELSE acknowledged
      /\ captured' = FALSE
      /\ receipts' = Evict(receipts, {f.id : f \in {g \in left :
                                                      g.kind \in RecordKinds \cup {"reply"}}})
      /\ batch' = {} /\ top' = 0
      /\ UNCHANGED <<sequence, superseded, jobs>>

\* MUTANT of Cursor: the cursor is taken when the Cycle is over.
CursorLate == after' = sequence

\* cycle_cursor: what the Cycle has in its Context.
Cursor == after' = acknowledged'

\* The batch before a Cycle is installed and the Cycle begins.
BeginCycle ==
  /\ pc = "prepareCycle" /\ Ack
  /\ pc' = "cycle" /\ spent' = spent + 1
  /\ unseen' = unseen \ installed'
  /\ Cursor
  /\ UNCHANGED <<budget, grant, limit, granted, wait, deadline, wake, question, asked, notified,
                 closed, outcome, source>>

(***************************************************************************)
(* The runner: what comes of a Cycle.                                      *)
(***************************************************************************)
\* A Cycle ends when the actions it runs, starting a Job among them, are over.
CycleOver == pc = "cycle" /\ \A j \in Jobs : jobs[j] # "starting"

CycleUnchanged == UNCHANGED <<intakeVars, jobVars, batchVars, budgetVars, closed, outcome, source>>

\* The Cycle asks a question: open_question, then a wait with or without a
\* timeout.
CycleAsks(q) ==
  /\ CycleOver /\ q \notin asked
  /\ ~closed /\ question = NoQuestion /\ Of({"reply"}) = {}
  /\ question' = q /\ asked' = asked \cup {q}
  /\ wait' = "question" /\ deadline' \in {"none", "future"}
  /\ pc' = "boundary"
  /\ Notify
  /\ UNCHANGED <<after, wake>> /\ CycleUnchanged

\* The Cycle waits for a Job, an event or a time.
CycleWaits(w) ==
  /\ CycleOver
  /\ wait' = w
  /\ deadline' \in IF w = "timer" THEN {"future"} ELSE {"none", "future"}
  /\ pc' = "boundary"
  /\ UNCHANGED <<after, wake, question, asked, notified>> /\ CycleUnchanged

\* Nothing special: the next Cycle.
CycleContinues ==
  /\ CycleOver /\ pc' = "boundary"
  /\ UNCHANGED <<waitVars, notified>> /\ CycleUnchanged

\* The Cycle answers; a live Job blocks that.
CycleAnswers ==
  /\ CycleOver
  /\ pc' = IF \E j \in Jobs : jobs[j] = "live" THEN "boundary" ELSE "recheck"
  /\ UNCHANGED <<waitVars, notified>> /\ CycleUnchanged

\* The batch captured before completing: a fact that needs a decision withdraws
\* the answer.
Recheck ==
  /\ pc = "prepareRecheck" /\ Ack
  /\ pc' = IF \E f \in facts : f.seq \in batch /\ f.kind # "state"
             THEN "boundary" ELSE "tryClose"
  /\ UNCHANGED <<unseen, budgetVars, waitVars, notified, closed, outcome, source>>

\* MUTANT of Empty: the slots of Jobs are not looked at.
EmptyOfFacts == Of({"input", "event", "reply"}) = {}

\* close_if_empty's condition.
Empty == Of({"input", "event", "reply"}) = {} /\ reserved = {} /\ requested = {}

\* close_if_empty: the Turn completes, or goes on.
TryClose ==
  /\ pc = "tryClose"
  /\ IF Empty THEN closed' = TRUE /\ pc' = "closing" /\ outcome' = "completed"
              ELSE closed' = closed /\ pc' = "boundary" /\ outcome' = outcome
  /\ UNCHANGED <<intakeVars, jobVars, batchVars, budgetVars, waitVars, notified, source>>

(***************************************************************************)
(* The runner: the end of the Turn.                                        *)
(***************************************************************************)
\* A cancellation or a failure, wherever the runner is suspended: an empty
\* batch is installed without a suspension.  A captured batch stays captured.
Interrupted ==
  /\ \/ pc \in {"boundary", "budget", "waiting", "resume"} \/ CycleOver
     \/ pc \in {"prepareCycle", "prepareRecheck"} /\ batch # {}
  /\ pc' = "closing" /\ outcome' = "stopped"
  /\ IF pc = "waiting" THEN EndQuestion ELSE question' = question
  /\ wait' = "none" /\ deadline' = "none" /\ wake' = "none" /\ notified' = FALSE
  /\ UNCHANGED <<intakeVars, jobVars, batchVars, budgetVars, after, asked, closed, source>>

\* Ingress is closed first.
CloseIngress ==
  /\ pc = "closing" /\ pc' = "cleanup"
  /\ closed' = TRUE
  /\ Notify
  /\ UNCHANGED <<intakeVars, jobVars, batchVars, budgetVars, waitVars, outcome, source>>

\* cleanup_turn releases a Job: it closes, delivers its terminal fact if that is
\* missing, and its consumed requests are forgotten.
CleanupJob(j) ==
  /\ pc = "cleanup" /\ jobs[j] \in {"live", "closed", "delivered"}
  /\ jobs' = [jobs EXCEPT ![j] = "released"]
  /\ IF jobs[j] = "delivered" THEN UNCHANGED <<intakeVars, notified>> ELSE Delivers(j)
  /\ requested' = {k \in requested : k[1] = j => HasInput(k)}
  /\ UNCHANGED reserved /\ JobUnchanged

\* Its execution cannot be closed: the Job stays, without a monitor.
CleanupFails(j) ==
  /\ pc = "cleanup" /\ jobs[j] = "live"
  /\ jobs' = [jobs EXCEPT ![j] = "stuck"]
  /\ UNCHANGED <<intakeVars, reserved, requested, notified>> /\ JobUnchanged

\* MUTANT of CleanedUp: the drain does not wait for the Jobs.
CleanedUpAlways == TRUE

\* Every Job of the Turn was released, or failed to close.
CleanedUp == \A j \in Jobs : jobs[j] \in {"none", "released", "stuck"}

CleanupDone ==
  /\ pc = "cleanup" /\ CleanedUp /\ pc' = "drain"
  /\ UNCHANGED <<intakeVars, jobVars, batchVars, budgetVars, waitVars, notified, closed, outcome,
                 source>>

\* MUTANT of Drained: the loop compares the batch with the last number instead.
DrainedUpToDate == top = sequence

\* _consume_inbox found nothing, which ends the loop of drain_final_records.
Drained == batch = {}

\* drain_final_records: batches are installed until one is empty.
Drain ==
  /\ pc = "prepareDrain" /\ Ack
  /\ pc' = IF Drained THEN "ended" ELSE "drain"
  /\ UNCHANGED <<unseen, budgetVars, waitVars, notified, closed, outcome, source>>

\* The Context cannot prepare the batch: the Turn ends with a failure.
DrainFails ==
  /\ pc = "prepareDrain" /\ batch # {} /\ pc' = "failed"
  /\ UNCHANGED <<intakeVars, jobVars, batchVars, budgetVars, waitVars, notified, closed, outcome,
                 source>>

Done == pc \in {"ended", "failed"} /\ UNCHANGED vars

ProducerNext ==
  \/ \E i \in Inputs \cup Events \cup States : Accept(i)
  \/ \E q \in Questions : Reply(q)
  \/ \E n \in 1 .. MaxCycles : GrantCycles(n)
  \/ SourceFails \/ SourceReports \/ DeadlinePasses

JobNext ==
  \E j \in Jobs : \/ JobReserve(j) \/ JobStarted(j) \/ JobStartFails(j)
                  \/ \E S \in SUBSET Requests : JobAsks(j, S)
                  \/ JobCloses(j) \/ JobTerminal(j)

WaitNext == RequestBudget \/ EnterWait \/ WaitSleeps \/ WaitReturns

BatchNext == Capture \/ BeginCycle \/ Recheck \/ TryClose \/ Drain

CycleNext ==
  \/ \E q \in Questions : CycleAsks(q)
  \/ \E w \in {"job", "event", "timer"} : CycleWaits(w)
  \/ CycleContinues \/ CycleAnswers

EndNext ==
  \/ Interrupted \/ CloseIngress \/ CleanupDone \/ DrainFails
  \/ \E j \in Jobs : CleanupJob(j) \/ CleanupFails(j)

Next == ProducerNext \/ JobNext \/ WaitNext \/ BatchNext \/ CycleNext \/ EndNext \/ Done

Spec == Init /\ [][Next]_vars

(***************************************************************************)
(* Properties.                                                             *)
(***************************************************************************)
Pending == Seqs(facts)
Superseded == Seqs(superseded)
Numbers == Nat \ {0}
Ids == RecordIds \cup Questions \cup Jobs \cup (Jobs \X Requests)
Facts == [seq : Numbers, kind : Kinds, id : Ids]

\* The type invariant.
TypeOK ==
  /\ sequence \in Nat /\ facts \subseteq Facts /\ superseded \subseteq Facts
  /\ receipts \in [RecordIds \cup Questions -> Nat]
  /\ unseen \subseteq Numbers /\ installed \subseteq Numbers /\ batch \subseteq Numbers
  /\ top \in Nat /\ acknowledged \in Nat /\ after \in Nat
  /\ reserved \subseteq Jobs /\ requested \subseteq Jobs \X Requests
  /\ jobs \in [Jobs -> JobStates]
  /\ captured \in BOOLEAN /\ budget \in BOOLEAN /\ notified \in BOOLEAN /\ closed \in BOOLEAN
  /\ grant \in Nat /\ limit \in Nat /\ granted \in Nat /\ spent \in Nat
  /\ wait \in Waits /\ deadline \in {"none", "future", "passed"} /\ wake \in Wakes
  /\ question \in Questions \cup {NoQuestion} /\ asked \subseteq Questions
  /\ pc \in PCs /\ source \in {"up", "failed", "reported"}
  /\ outcome \in {"none", "completed", "awaiting_user", "stopped"}

\* Every number handed out by the inbox is at any time in exactly one place: it
\* is pending, it was installed in the Context, or a newer fact replaced it.
\* No accepted fact is lost or installed twice, whatever is captured,
\* cancelled, retried or coalesced in between.
ExactlyOnce ==
  /\ Pending \cup installed \cup Superseded = 1 .. sequence
  /\ Pending \cap installed = {}
  /\ Pending \cap Superseded = {}
  /\ installed \cap Superseded = {}

\* A Turn completes only when every input, event, reply, Job request and Job
\* result it accepted has been in the Context of some Cycle.
CompletedSawEverything == outcome = "completed" => unseen = {}

\* When the Turn is over and its final drain did not fail, nothing accepted is
\* left in the inbox.
EverythingInstalledAtEnd == pc = "ended" => facts = {}

\* Of one source at most two state notifications are pending, one in the
\* captured batch and one for the next.
TwoStateSlots ==
  \A f, g \in Of({"state"}) : f.seq < g.seq => captured /\ f.seq <= top /\ top < g.seq

\* A pending record has its receipt, so that sending it again returns the
\* receipt and does not enter it twice.
PendingHasReceipt == \A f \in Of(RecordKinds) : receipts[f.id] = f.seq

\* A runner asleep in wait_for_cycle without a wake has nothing pending that
\* its wait is for, user input above all: no wake-up is lost, also for what
\* arrived during the Cycle that asked for the wait.
SleeperHasNothing ==
  pc = "waiting" /\ ~notified /\ wait # "none" /\ wake = "none" =>
    \A f \in facts : ~Matches(f)

\* No Cycle runs without budget, and every granted Cycle counts once.
BudgetIsExact ==
  /\ spent <= limit
  /\ limit + grant = InitialCycles + granted
  /\ pc \in {"prepareCycle", "resume"} => spent < limit

\* When a Cycle runs nothing is left of the last wait: neither question nor
\* reply nor budget request, so that open_question and request_budget never
\* raise.
CycleStartsClean ==
  pc = "cycle" => question = NoQuestion /\ Of({"reply"}) = {} /\ ~budget

\* Slots are held only for those who need them: a Job with something to
\* deliver has its slot, a slot belongs to such a Job or to an undelivered
\* fact, and a consumed request is forgotten with its Job.  Otherwise a
\* delivery fails or no answer ever completes the Turn.
SlotsMatchJobs ==
  /\ Unfinished \subseteq reserved
  /\ \A j \in reserved : \/ jobs[j] \in {"starting", "live", "closed", "stuck"}
                         \/ \E f \in facts : f.kind = "terminal" /\ f.id = j
  /\ \A k \in requested : k[1] \in reserved \/ HasInput(k)

(***************************************************************************)
(* The inductive invariant: what the properties above rest on.             *)
(***************************************************************************)
Running == {"cycle", "recheck", "prepareRecheck", "tryClose"}
Preparing == {"prepareCycle", "prepareRecheck", "prepareDrain"}
Ending == {"closing", "cleanup", "drain", "prepareDrain", "ended", "failed"}

\* No two pending facts share a number, and records have record identities.
Numbered ==
  /\ \A f, g \in facts : f.seq = g.seq => f = g
  /\ \A f \in facts : f.kind \in RecordKinds => f.id \in RecordIds

\* The captured batch is exactly what is pending up to its top; it is captured
\* while it is prepared, and stays captured only if it is not empty.
BatchOK ==
  /\ top <= sequence
  /\ captured => /\ batch \subseteq Pending /\ \A b \in batch : b <= top
                 /\ \A f \in facts : f.seq <= top => f.seq \in batch
  /\ pc \in Preparing => captured
  /\ captured /\ pc \notin Preparing => batch # {} /\ pc \in Ending

\* Everything pending is newer than what was acknowledged, and so newer than
\* the cursor of a wait.
CursorOK ==
  /\ after <= acknowledged /\ acknowledged <= sequence
  /\ \A f \in facts : f.seq > acknowledged

\* Where budget and grant may be open.
BudgetOK ==
  /\ BudgetIsExact
  /\ budget => pc \in {"budget", "waiting"} \cup Ending
  /\ pc = "budget" => budget
  /\ grant > 0 => budget
  /\ pc = "waiting" /\ ~budget => spent < limit

\* Where a question may be open and a reply pending.
QuestionOK ==
  /\ pc \in Running => question = NoQuestion /\ Of({"reply"}) = {} /\ wait = "none"
  /\ pc \in {"resume", "prepareCycle"} => question = NoQuestion /\ wait = "none"
  /\ pc \in {"boundary", "budget", "waiting"} /\ wait # "question" => question = NoQuestion
  /\ pc = "prepareCycle" => \A f \in Of({"reply"}) : f.seq <= top
  /\ captured /\ ~closed => question = NoQuestion

\* Slots, requests and the facts in them.
SlotsOK ==
  /\ SlotsMatchJobs
  /\ \A f \in Of({"terminal"}) :
       /\ f.id \in reserved /\ jobs[f.id] \in {"delivered", "released"}
       /\ \A g \in Of({"terminal"}) : g.id = f.id => g = f
  /\ \A f \in Of({"jobInput"}) : f.id \in requested
  /\ \A k \in requested : jobs[k[1]] \notin {"none", "starting"}
  /\ \A j \in Jobs : jobs[j] = "starting" => pc = "cycle"

\* A pending fact is unseen exactly if it needs a decision; from the start of a
\* Cycle to its end everything unseen is pending.  What was replaced is not
\* unseen.
UnseenOK ==
  /\ \A f \in facts : f.seq \in unseen <=> f.kind # "state"
  /\ pc \in Running => unseen \subseteq Pending
  /\ \A s \in unseen : s <= sequence
  /\ unseen \cap Superseded = {}

\* A completed Turn leaves nobody behind who could still deliver.
CompletedOK ==
  outcome = "completed" => unseen = {} /\ closed /\ Unfinished = {} /\ pc \in Ending

\* The end of a Turn: ingress is closed, then the Jobs are gone, then the inbox
\* is empty.
EndOK ==
  /\ closed => pc \in Ending
  /\ pc \in Ending \ {"closing"} => closed
  /\ pc \in {"drain", "prepareDrain", "ended", "failed"} => CleanedUp
  /\ pc = "prepareDrain" /\ batch = {} => facts = {}
  /\ EverythingInstalledAtEnd

InboxInv ==
  /\ TypeOK /\ ExactlyOnce /\ Numbered /\ BatchOK /\ CursorOK
  /\ PendingHasReceipt /\ TwoStateSlots /\ SleeperHasNothing
  /\ BudgetOK /\ QuestionOK /\ SlotsOK /\ UnseenOK /\ CompletedOK /\ EndOK

(***************************************************************************)
(* Fairness: the runner goes on whenever it can (Interrupted and the       *)
(* choice of what a Cycle does are left open), time passes and clean-up of *)
(* a Job ends.                                                             *)
(***************************************************************************)
FairSpec ==
  /\ Spec
  /\ WF_vars(WaitNext) /\ WF_vars(BatchNext) /\ WF_vars(CycleNext)
  /\ WF_vars(CloseIngress) /\ WF_vars(CleanupDone)
  /\ WF_vars(DeadlinePasses) /\ WF_vars(SourceReports)
  /\ \A j \in Jobs : WF_vars(JobStarted(j) \/ JobStartFails(j)) /\ WF_vars(CleanupJob(j))

\* The user has still to decide about more Cycles.
Unpaid == budget /\ grant = 0

\* User input does not stay in the inbox while the Turn has budget.
InputGetsThrough ==
  (Of({"input"}) # {}) ~> (Of({"input"}) = {} \/ pc = "failed" \/ Unpaid)

\* A Turn that is being finalised ends.
TurnEnds == pc = "closing" ~> pc \in {"ended", "failed"}

==============================================================================
