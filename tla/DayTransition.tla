--------------------------- MODULE DayTransition ---------------------------
(***************************************************************************)
(* The daily rollover of the archive owner                                 *)
(* (tinysoul/plugins/archive/transition/coordinator.py): Session, active   *)
(* Memory, Workspace and Trash of a day are moved into a pending archive   *)
(* under a journal, the next day is initialised, and the archive is        *)
(* catalogued and renamed.  Every step changes the disk once, may fail (an *)
(* exception ends the attempt, the process lives on) and may be the last   *)
(* before a crash; the next attempt resumes from what is on disk.          *)
(*                                                                         *)
(* Callers are the root Turns: each runs the rollover first and then works *)
(* under the active-day lease.  Days are numbers; the archive's name, a    *)
(* timestamp, is the number of the day it was started on, which is the day *)
(* it leads to.  The history variable written is what Turns wrote.         *)
(***************************************************************************)
EXTENDS Naturals, FiniteSets

CONSTANTS MaxDay,     \* bound: the last calendar day
          MaxFaults   \* bound: how many failures, crashes and fillings happen

ASSUME DayAssumption == MaxDay \in Nat \ {0} /\ MaxFaults \in Nat

Days == 1 .. MaxDay
NoDay == 0
MaybeDay == Days \cup {NoDay}
Parts == {"session", "workspace", "trash"}
Steps == {"session_archived", "workspace_archived", "active_initialized"}
PCs == {"down", "idle", "look", "claim", "initSession", "initMemory", "initWorkspace",
        "choose", "start", "journal", "session", "sessionSave", "trash", "workspace",
        "workspaceSave", "initSave", "record", "finalize"}

VARIABLES
  (* on disk: the active roots *)
  session,    \* day of the Session manifest, NoDay without one
  memory,     \* day of Memory.md, which lives in the Session root
  workspace,  \* day of the Workspace manifest, NoDay if unassigned or absent
  trash,      \* whether the Trash directory exists
  live,       \* participant -> the days whose facts its active root holds
  (* on disk: the archive root *)
  pending,    \* the pending directory: none, bare (no journal yet) or journaled
  from, to,   \* from_day and to_day of its journal
  steps,      \* completed_steps of its journal
  moved,      \* which participants it holds
  memoryIn,   \* day of the Memory.md in it
  held,       \* participant -> the days whose facts it holds
  catalog,    \* day -> name of its archive, NoDay without an entry
  archives,   \* finished archives: [name, day, facts]
  (* the process *)
  pc,         \* step of ensure_active_day
  target,     \* target_day
  goal,       \* the day _initialize_all is called with
  active,     \* AgentDayCoordinator._active_day
  turn,       \* the root Turn: none, preflight, ready or working
  (* the world *)
  crowded,    \* whether the Workspace holds more than it can reconcile
  today, faults, written

liveVars == <<session, memory, workspace, trash, live>>
pendingVars == <<pending, from, to, steps, moved, memoryIn, held>>
archiveVars == <<catalog, archives>>
diskVars == <<liveVars, pendingVars, archiveVars>>
procVars == <<target, goal, active, turn>>
worldVars == <<crowded, today, faults, written>>
vars == <<diskVars, pc, procVars, worldVars>>

Nothing == [p \in Parts |-> {}]

Init ==
  /\ session = NoDay /\ memory = NoDay /\ workspace = NoDay /\ trash = FALSE
  /\ live = Nothing
  /\ pending = "none" /\ from = NoDay /\ to = NoDay /\ steps = {} /\ moved = {}
  /\ memoryIn = NoDay /\ held = Nothing
  /\ catalog = [d \in Days |-> NoDay] /\ archives = {}
  /\ pc = "idle" /\ target = NoDay /\ goal = NoDay /\ active = NoDay /\ turn = "none"
  /\ crowded = FALSE /\ today = 1 /\ faults = 0 /\ written = {}

Goto(from_, to_) == pc = from_ /\ pc' = to_

(***************************************************************************)
(* Around the rollover: time, Turns, failures and crashes.                 *)
(***************************************************************************)
Midnight ==
  /\ today < MaxDay /\ today' = today + 1
  /\ UNCHANGED <<diskVars, pc, procVars, crowded, faults, written>>

\* The files of the Workspace become more than max_files, or one of them cannot
\* be inspected, until somebody tidies up: Turns and users write them freely.
Crowd ==
  /\ ~crowded /\ faults < MaxFaults /\ faults' = faults + 1
  /\ crowded' = TRUE
  /\ UNCHANGED <<diskVars, pc, procVars, today, written>>

Tidy ==
  /\ crowded /\ crowded' = FALSE
  /\ UNCHANGED <<diskVars, pc, procVars, today, faults, written>>

\* A root Turn begins with the rollover, preflight, to the day it is now.
Begin ==
  /\ Goto("idle", "look") /\ turn = "none"
  /\ turn' = "preflight" /\ target' = today
  /\ UNCHANGED <<diskVars, goal, active, worldVars>>

\* The Turn has the active-day lease until it leaves it.
Enter ==
  /\ pc = "idle" /\ turn = "ready" /\ turn' = "working"
  /\ UNCHANGED <<diskVars, pc, target, goal, active, worldVars>>

\* The Turn writes a fact of participant p; Session checks the day it is for.
Work(p) ==
  /\ turn = "working"
  /\ p = "session" => session = active
  /\ live' = [live EXCEPT ![p] = @ \cup {active}]
  /\ trash' = (trash \/ p = "trash")
  /\ written' = written \cup {<<p, active>>}
  /\ UNCHANGED <<session, memory, workspace, pendingVars, archiveVars, pc, procVars, crowded,
                 today, faults>>

Leave ==
  /\ turn \in {"ready", "working"} /\ turn' = "none"
  /\ UNCHANGED <<diskVars, pc, target, goal, active, worldVars>>

\* The step raises: nothing of it happened, and the attempt is over.  A journal
\* that cannot be written takes its directory along, if that can be removed.
Fail ==
  /\ pc \notin {"down", "idle"} /\ faults < MaxFaults /\ faults' = faults + 1
  /\ pc' = "idle" /\ turn' = "none"
  /\ \/ UNCHANGED pendingVars
     \/ /\ pc = "journal" /\ pending' = "none"
        /\ UNCHANGED <<from, to, steps, moved, memoryIn, held>>
  /\ UNCHANGED <<liveVars, archiveVars, target, goal, active, crowded, today, written>>

\* The process dies; what is on disk stays.
Crash ==
  /\ pc # "down" /\ faults < MaxFaults /\ faults' = faults + 1
  /\ pc' = "down" /\ turn' = "none" /\ active' = NoDay
  /\ UNCHANGED <<diskVars, target, goal, crowded, today, written>>

Restart ==
  /\ Goto("down", "idle")
  /\ UNCHANGED <<diskVars, procVars, worldVars>>

(***************************************************************************)
(* _ensure_active_day_locked.                                              *)
(***************************************************************************)
StepUnchanged == UNCHANGED <<target, active, turn, worldVars>>

\* MUTANT of Look: a journal without a completed step counts as not started.
LookDiscards ==
  /\ pc = "look"
  /\ IF pending = "journaled" /\ steps # {}
       THEN pc' = "session" /\ UNCHANGED pendingVars
       ELSE /\ pc' = "claim"
            /\ pending' = "none" /\ from' = NoDay /\ to' = NoDay /\ steps' = {}
            /\ moved' = {} /\ memoryIn' = NoDay /\ held' = Nothing
  /\ UNCHANGED <<liveVars, archiveVars, goal>>
  /\ StepUnchanged

\* MUTANT of Look: a directory without a journal is an error.
LookRaises ==
  /\ pc = "look"
  /\ IF pending = "bare"
       THEN pc' = "idle" /\ turn' = "none"
       ELSE /\ pc' = IF pending = "journaled" THEN "session" ELSE "claim"
            /\ UNCHANGED turn
  /\ UNCHANGED <<diskVars, goal, target, active, worldVars>>

\* _pending_directory: a directory without a journal is discarded, one with a
\* journal is resumed.
Look ==
  /\ pc = "look"
  /\ pending = "bare" => moved = {}
  /\ pc' = IF pending = "journaled" THEN "session" ELSE "claim"
  /\ pending' = IF pending = "bare" THEN "none" ELSE pending
  /\ UNCHANGED <<liveVars, from, to, steps, moved, memoryIn, held, archiveVars, goal>>
  /\ StepUnchanged

\* _claim_active_day: the day the participants are tagged with, else the target.
Claim ==
  /\ Goto("claim", "initSession")
  /\ session = NoDay \/ workspace = NoDay \/ session = workspace
  /\ goal' = IF session # NoDay THEN session
             ELSE IF workspace # NoDay THEN workspace ELSE target
  /\ UNCHANGED diskVars /\ StepUnchanged

\* _initialize_all: a participant without a day gets it, one with a day keeps it.
InitSession ==
  /\ Goto("initSession", "initMemory")
  /\ session \in {NoDay, goal} /\ session' = goal
  /\ UNCHANGED <<memory, workspace, trash, live, pendingVars, archiveVars, goal>>
  /\ StepUnchanged

InitMemory ==
  /\ Goto("initMemory", "initWorkspace")
  /\ memory \in {NoDay, goal} /\ memory' = goal
  /\ UNCHANGED <<session, workspace, trash, live, pendingVars, archiveVars, goal>>
  /\ StepUnchanged

InitWorkspace ==
  /\ pc = "initWorkspace"
  /\ pc' = IF pending = "journaled" THEN "initSave" ELSE "choose"
  /\ workspace \in {NoDay, goal} /\ workspace' = goal
  /\ session = goal /\ memory = goal
  /\ UNCHANGED <<session, memory, trash, live, pendingVars, archiveVars, goal>>
  /\ StepUnchanged

\* The rollover is over: the coordinator of the Agent takes the new day.
Finish == active' = target /\ turn' = "ready" /\ pc' = "idle"

\* The claimed day is the target, or it has to be closed.
Choose ==
  /\ pc = "choose" /\ goal <= target
  /\ IF goal = target THEN Finish ELSE pc' = "start" /\ UNCHANGED <<active, turn>>
  /\ UNCHANGED <<diskVars, target, goal, worldVars>>

\* _start: the pending directory, then its journal.
Start ==
  /\ Goto("start", "journal")
  /\ \A a \in archives : a.name # target
  /\ pending' = "bare"
  /\ UNCHANGED <<liveVars, from, to, steps, moved, memoryIn, held, archiveVars, goal>>
  /\ StepUnchanged

SaveJournal ==
  /\ Goto("journal", "session")
  /\ pending' = "journaled" /\ from' = goal /\ to' = target /\ steps' = {}
  /\ UNCHANGED <<liveVars, moved, memoryIn, held, archiveVars, goal>> /\ StepUnchanged

(***************************************************************************)
(* _resume.                                                                *)
(***************************************************************************)
\* Session is moved together with Memory.md, unless that was done before.
MoveSession ==
  /\ pc = "session"
  /\ IF "session_archived" \in steps
       THEN /\ pc' = "trash" /\ memoryIn = from
            /\ UNCHANGED <<session, memory, live, moved, memoryIn, held>>
     ELSE IF "session" \in moved /\ session = NoDay
       THEN /\ pc' = "sessionSave" /\ memoryIn = from
            /\ UNCHANGED <<session, memory, live, moved, memoryIn, held>>
     ELSE /\ pc' = "sessionSave"
          /\ memory = from /\ session = from /\ "session" \notin moved
          /\ moved' = moved \cup {"session"}
          /\ session' = NoDay /\ memory' = NoDay /\ memoryIn' = memory
          /\ held' = [held EXCEPT !["session"] = live["session"]]
          /\ live' = [live EXCEPT !["session"] = {}]
  /\ UNCHANGED <<workspace, trash, pending, from, to, steps, archiveVars, goal>>
  /\ StepUnchanged

\* The journal is rewritten with one step more.
Journal(step, here, there) ==
  /\ Goto(here, there)
  /\ steps' = steps \cup {step}
  /\ UNCHANGED <<liveVars, pending, from, to, moved, memoryIn, held, archiveVars>>
  /\ StepUnchanged

SaveSession == Journal("session_archived", "sessionSave", "trash") /\ UNCHANGED goal

\* Workspace.archive_day is called: not after both of its moves were done.
ArchivesDay ==
  /\ "workspace_archived" \notin steps
  /\ ~({"workspace", "trash"} \subseteq moved /\ workspace = NoDay)

\* MUTANT of MoveTrash: the move that was done but not journaled is tried again.
MoveTrashAgain ==
  /\ pc = "trash"
  /\ IF "workspace_archived" \in steps
       THEN /\ pc' = (IF "active_initialized" \in steps THEN "record" ELSE "initSession")
            /\ goal' = to
            /\ UNCHANGED <<trash, live, moved, held>>
       ELSE /\ pc' = "workspace" /\ goal' = goal
            /\ ~crowded /\ ~("trash" \in moved /\ trash)
            /\ moved' = moved \cup {"trash"} /\ trash' = FALSE
            /\ held' = [held EXCEPT !["trash"] = @ \cup live["trash"]]
            /\ live' = [live EXCEPT !["trash"] = {}]
  /\ UNCHANGED <<session, memory, workspace, pending, from, to, steps, memoryIn, archiveVars>>
  /\ StepUnchanged

\* MUTANT of MoveTrash: a recovery makes the empty Trash of the archive anew.
MoveTrashReplaces ==
  /\ pc = "trash"
  /\ IF "workspace_archived" \in steps
       THEN /\ pc' = (IF "active_initialized" \in steps THEN "record" ELSE "initSession")
            /\ goal' = to
            /\ UNCHANGED <<trash, live, moved, held>>
     ELSE IF {"workspace", "trash"} \subseteq moved /\ workspace = NoDay
       THEN pc' = "workspaceSave" /\ UNCHANGED <<trash, live, moved, held, goal>>
     ELSE /\ pc' = "workspace" /\ goal' = goal /\ ~crowded
          /\ moved' = moved \cup {"trash"} /\ trash' = FALSE
          /\ held' = [held EXCEPT !["trash"] = live["trash"]]
          /\ live' = [live EXCEPT !["trash"] = {}]
  /\ UNCHANGED <<session, memory, workspace, pending, from, to, steps, memoryIn, archiveVars>>
  /\ StepUnchanged

\* Workspace.archive_day reconciles the Workspace and moves Trash first, or makes
\* an empty one in the archive; what was done before is not repeated.
MoveTrash ==
  /\ pc = "trash"
  /\ ArchivesDay => ~crowded
  /\ IF "workspace_archived" \in steps
       THEN /\ pc' = (IF "active_initialized" \in steps THEN "record" ELSE "initSession")
            /\ goal' = to
            /\ UNCHANGED <<trash, live, moved, held>>
     ELSE IF {"workspace", "trash"} \subseteq moved /\ workspace = NoDay
       THEN pc' = "workspaceSave" /\ UNCHANGED <<trash, live, moved, held, goal>>
     ELSE /\ pc' = "workspace" /\ goal' = goal
          /\ workspace = from /\ ~("trash" \in moved /\ trash)
          /\ moved' = moved \cup {"trash"} /\ trash' = FALSE
          /\ held' = [held EXCEPT !["trash"] = @ \cup live["trash"]]
          /\ live' = [live EXCEPT !["trash"] = {}]
  /\ UNCHANGED <<session, memory, workspace, pending, from, to, steps, memoryIn, archiveVars>>
  /\ StepUnchanged

\* The reconciliation is incomplete: archive_day raises before it moves anything.
RefuseCrowded ==
  /\ Goto("trash", "idle")
  /\ ArchivesDay /\ workspace = from /\ crowded
  /\ turn' = "none"
  /\ UNCHANGED <<diskVars, target, goal, active, worldVars>>

\* The files go with the root; the next day's is empty.
MoveWorkspace ==
  /\ Goto("workspace", "workspaceSave")
  /\ "workspace" \notin moved
  /\ moved' = moved \cup {"workspace"} /\ workspace' = NoDay
  /\ held' = [held EXCEPT !["workspace"] = live["workspace"]]
  /\ live' = [live EXCEPT !["workspace"] = {}]
  /\ crowded' = FALSE
  /\ UNCHANGED <<session, memory, trash, pending, from, to, steps, memoryIn, archiveVars, goal>>
  /\ UNCHANGED <<target, active, turn, today, faults, written>>

\* MUTANT of SaveWorkspace: the next day is not initialised.
SaveWorkspaceLast == Journal("workspace_archived", "workspaceSave", "record") /\ goal' = to

SaveWorkspace ==
  Journal("workspace_archived", "workspaceSave", "initSession") /\ goal' = to

SaveInit == Journal("active_initialized", "initSave", "record") /\ UNCHANGED goal

\* The catalog names the archive before it has its final name.
Record ==
  /\ Goto("record", "finalize")
  /\ \A a \in archives : a.name # to
  /\ catalog[from] \in {NoDay, to}
  /\ catalog' = [catalog EXCEPT ![from] = to]
  /\ UNCHANGED <<liveVars, pendingVars, archives, goal>> /\ StepUnchanged

\* The rename; after a recovery that did not lead to the target day, once more.
Finalize ==
  /\ pc = "finalize"
  /\ {"session", "workspace"} \subseteq moved
  /\ archives' = archives \cup {[name |-> to, day |-> from, facts |-> held]}
  /\ pending' = "none" /\ from' = NoDay /\ to' = NoDay /\ steps' = {} /\ moved' = {}
  /\ memoryIn' = NoDay /\ held' = Nothing
  /\ IF to = target THEN Finish ELSE pc' = "look" /\ UNCHANGED <<active, turn>>
  /\ UNCHANGED <<liveVars, catalog, target, goal, worldVars>>

EnsureActiveDay ==
  \/ Look \/ Claim \/ InitSession \/ InitMemory \/ InitWorkspace \/ Choose
  \/ Start \/ SaveJournal
  \/ MoveSession \/ SaveSession \/ MoveTrash \/ RefuseCrowded \/ MoveWorkspace
  \/ SaveWorkspace
  \/ SaveInit \/ Record \/ Finalize

Next ==
  \/ Midnight \/ Crowd \/ Tidy \/ Begin \/ Enter \/ Leave \/ \E p \in Parts : Work(p)
  \/ Fail \/ Crash \/ Restart
  \/ EnsureActiveDay

Spec == Init /\ [][Next]_vars

(***************************************************************************)
(* Properties.                                                             *)
(***************************************************************************)
Contents == [Parts -> SUBSET Days]

\* The type invariant.
TypeOK ==
  /\ session \in MaybeDay /\ memory \in MaybeDay /\ workspace \in MaybeDay
  /\ trash \in BOOLEAN /\ live \in Contents
  /\ pending \in {"none", "bare", "journaled"} /\ from \in MaybeDay /\ to \in MaybeDay
  /\ steps \subseteq Steps /\ moved \subseteq Parts /\ memoryIn \in MaybeDay
  /\ held \in Contents
  /\ catalog \in [Days -> MaybeDay]
  /\ archives \subseteq [name : Days, day : Days, facts : Contents]
  /\ pc \in PCs /\ target \in MaybeDay /\ goal \in MaybeDay /\ active \in MaybeDay
  /\ turn \in {"none", "preflight", "ready", "working"}
  /\ crowded \in BOOLEAN /\ today \in Days /\ faults \in Nat /\ written \subseteq Parts \X Days

\* Once the rollover has returned, the Turn it was for works on one whole day:
\* Session, Memory and Workspace are all on the active day and no archive is
\* pending, whatever failed or crashed before.
TurnsWorkOnOneDay ==
  turn \in {"ready", "working"} =>
    active # NoDay /\ {session, memory, workspace} = {active} /\ pending = "none"

\* Facts are kept under their own day: what a Turn wrote is in the active root
\* of the day, in the pending archive of the day, or in its finished archive,
\* and in one of them only.
FactsKeptByDay ==
  \A p \in Parts :
    /\ \A d \in live[p] : d \notin held[p]
    /\ \A d \in held[p] : d = from
    /\ \A a \in archives : a.facts[p] \subseteq {a.day} \ (live[p] \cup held[p])
    /\ \A d \in Days : <<p, d>> \in written =>
         d \in live[p] \cup held[p] \cup UNION {a.facts[p] : a \in archives}

\* The catalog leads to an archive of the day, except for the one entry that is
\* made just before the rename, and no two archives claim one day or one name.
CatalogFindsArchives ==
  /\ \A d \in Days : catalog[d] # NoDay =>
       \/ \E a \in archives : a.day = d /\ a.name = catalog[d]
       \/ pending = "journaled" /\ d = from /\ catalog[d] = to
  /\ \A a \in archives : catalog[a.day] = a.name
  /\ \A a, b \in archives : a.day = b.day \/ a.name = b.name => a = b

\* The steps whose checks pass; the others raise.
ChecksPass ==
  /\ pc = "look" /\ pending = "bare" => moved = {}
  /\ pc = "claim" => session = NoDay \/ workspace = NoDay \/ session = workspace
  /\ pc = "initSession" => session \in {NoDay, goal}
  /\ pc = "initMemory" => memory \in {NoDay, goal}
  /\ pc = "initWorkspace" =>
       workspace \in {NoDay, goal} /\ session = goal /\ memory = goal
  /\ pc = "choose" => goal <= target
  /\ pc = "start" => \A a \in archives : a.name # target
  /\ pc = "session" =>
       IF "session_archived" \in steps \/ ("session" \in moved /\ session = NoDay)
         THEN memoryIn = from
         ELSE memory = from /\ session = from /\ "session" \notin moved
  /\ pc = "trash" /\ ArchivesDay =>
       ~crowded /\ workspace = from /\ ~("trash" \in moved /\ trash)
  /\ pc = "workspace" => "workspace" \notin moved /\ workspace = from
  /\ pc = "record" => catalog[from] \in {NoDay, to} /\ \A a \in archives : a.name # to
  /\ pc = "finalize" => {"session", "workspace"} \subseteq moved

\* Nothing but a crowded Workspace makes a check refuse, in a first attempt or in
\* a recovery, and then it is the reconciliation of archive_day, met with
\* Session archived and the Workspace still whole, so that the attempt after the
\* tidying up goes on from there: every other state a failure or crash leaves
\* behind can be resumed.
OnlyCrowdingRefuses ==
  \/ ChecksPass
  \/ /\ pc = "trash" /\ crowded
     /\ steps = {"session_archived"} /\ "workspace" \notin moved
     /\ workspace = from /\ memoryIn = from /\ ~("trash" \in moved /\ trash)

(***************************************************************************)
(* The rollover is atomic: the refinement.  The day changes when the       *)
(* pending archive gets its final name.                                    *)
(***************************************************************************)
Current == IF pending = "journaled" THEN from ELSE session
Found(d) == {a \in archives : a.day = d /\ a.name = catalog[d]}
Archived == {d \in Days : Found(d) # {}}
Shelf == {w \in Parts \X Days : \E a \in Found(w[2]) : w[2] \in a.facts[w[1]]}

Abs == INSTANCE DayRollover
         WITH current <- Current, archived <- Archived, shelf <- Shelf

\* With every crash, failure and recovery, the steps on disk look like one
\* atomic step that closes a day with all its facts and opens the next.
RolloverIsAtomic == Abs!Spec

(***************************************************************************)
(* Fairness: the steps of the rollover are taken, the process is started   *)
(* again, Turns end and new ones are requested.  Failures, crashes and the *)
(* fillings of the Workspace are finitely many; nobody has to tidy up.     *)
(***************************************************************************)
FairSpec ==
  Spec /\ WF_vars(EnsureActiveDay) /\ WF_vars(Restart) /\ WF_vars(Begin) /\ WF_vars(Leave)

\* Every day that lasts long enough becomes the active day, unless the Workspace
\* is crowded: nothing tidies it but those who filled it.
DayIsReached == \A d \in Days : (today = d) ~> (active = d \/ today # d \/ crowded)
==============================================================================
