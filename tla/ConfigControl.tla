------------------------------ MODULE ConfigControl ------------------------------
(***************************************************************************)
(* The configuration controller of the Agent (infra/config/editing):       *)
(* several callers save, apply, reload and record configurations under one *)
(* asyncio lock, while the user may edit the same files in an editor, the  *)
(* run of a root may begin or end, a file replacement or a generation may  *)
(* fail, a caller may be cancelled, and the process may die.               *)
(*                                                                         *)
(* A document holds two things: `own`, the paths that the requests write,  *)
(* and `other`, the rest of the file, which only the user edits.           *)
(***************************************************************************)
EXTENDS Naturals, Sequences

CONSTANTS Docs,          \* the project's configuration documents
          Values,        \* what a path may be set to
          Invalid,       \* values that the validator refuses
          First,         \* the value every document starts with
          Presets,       \* identities of stored presets
          NoPreset,      \* an identity with no record
          Callers,       \* calls of the controller, each made once
          Requests,      \* what a call may ask for
          Nobody,        \* the lock is free
          MaxEdits,      \* edits by the user
          MaxFaults,     \* failures of a file replacement or a resumed input
          MaxCrashes     \* deaths of the process

Content == [own : Values, other : 0..MaxEdits]
Environments == [Docs -> Content]
Definitions == [Docs -> Values]

ASSUME ConfigAssumption ==
  /\ First \in Values \ Invalid
  /\ Nobody \notin Callers
  /\ NoPreset \notin Definitions
  /\ MaxEdits \in Nat /\ MaxFaults \in Nat /\ MaxCrashes \in Nat
  /\ Requests \subseteq
       [kind : {"patch", "apply"}, docs : SUBSET Docs, value : Values]
       \cup [kind : {"reload", "close"}]
       \cup [kind : {"preset", "save_preset", "delete_preset"}, id : Presets]

VARIABLES disk,        \* the files
          presets,     \* the records under configs/presets
          environment, \* _environment: the source graph last saved
          active,      \* _active_environment: what the controller published
          serving,     \* the configuration of the handle's generation
          sources,     \* the inputs of that generation: "running", "paused",
                       \* or "off": they did not resume, and that was reported
          activating,  \* the handle holds the right to swap
          root,        \* a root is running
          closed,      \* _closed
          up,          \* the process lives
          call,        \* progress and answer of each call
          request,     \* what it asked for
          cancelled,   \* its task has been cancelled
          queue,       \* the waiters of _lock, in order
          holder,      \* who holds _lock
          phase,       \* where the holder stands
          candidate,   \* the environment that the holder built
          todo,        \* documents still to be replaced
          replaced,    \* documents already replaced, in order
          backup,      \* what they held before
          receipt,     \* the transaction was committed, not yet completed
          expected,    \* history: what a reader should find in each file
          touched,     \* history: documents nothing is promised about
          edits, faults, crashes

files == <<disk, presets>>
runtime == <<serving, sources, activating, root>>
controller == <<environment, active, closed>>
calls == <<call, request, cancelled>>
transaction == <<candidate, todo, replaced, backup, receipt>>
history == <<expected, touched>>
counters == <<edits, faults, crashes>>
lock == <<up, calls, queue, holder>>
world == <<files, runtime, controller>>
ghosts == <<history, counters>>
vars == <<world, lock, phase, transaction, ghosts>>

Activations == {"reload", "apply", "preset"}
Phases == {"free", "reading", "building", "staging", "writing", "undoing",
           "pausing", "swapping", "aborting", "publishing", "retiring"}
Answers == {"ok", "failed", "cancelled", "lost"}

Start == [d \in Docs |-> [own |-> First, other |-> 0]]

Init ==
  /\ disk = Start /\ presets = [p \in Presets |-> NoPreset]
  /\ environment = Start /\ active = Start /\ serving = Start
  /\ sources = "running" /\ activating = FALSE /\ root = FALSE
  /\ closed = FALSE /\ up = TRUE
  /\ call = [c \in Callers |-> "none"]
  /\ request \in [Callers -> Requests]
  /\ cancelled = [c \in Callers |-> FALSE]
  /\ queue = <<>> /\ holder = Nobody /\ phase = "free"
  /\ candidate = Start /\ todo = {} /\ replaced = <<>> /\ backup = Start
  /\ receipt = FALSE
  /\ expected = Start /\ touched = {}
  /\ edits = 0 /\ faults = 0 /\ crashes = 0

Valid(env) == \A d \in Docs : env[d].own \notin Invalid
Mine == request[holder]
Activates == Mine.kind \in Activations

\* The mutations of a request, given the presets on disk.
Wanted(r) ==
  CASE r.kind \in {"patch", "apply"} -> [d \in r.docs |-> r.value]
    [] r.kind = "preset" -> presets[r.id]
    [] OTHER -> [d \in {} |-> First]

Overlaid(env, changes) ==
  [d \in Docs |-> IF d \in DOMAIN changes
                    THEN [env[d] EXCEPT !.own = changes[d]] ELSE env[d]]

----------------------------------------------------------------------------
(* The lock.                                                               *)

\* A caller enters `async with self._lock`; close() has first set _closed.
Ask(c) ==
  /\ up /\ call[c] = "none"
  /\ call' = [call EXCEPT ![c] = "waiting"]
  /\ queue' = Append(queue, c)
  /\ closed' = (closed \/ request[c].kind = "close")
  /\ UNCHANGED <<files, runtime, environment, active, up, request, cancelled,
                 holder, phase, transaction, ghosts>>

\* The lock wakes its waiters in order.
Acquire ==
  /\ up /\ holder = Nobody /\ queue # <<>>
  /\ holder' = Head(queue) /\ queue' = Tail(queue)
  /\ UNCHANGED <<world, up, calls, phase, transaction, ghosts>>

\* What a call asked for no longer matters once it was served.
Forgotten == CHOOSE r \in Requests : TRUE

\* The locals of an operation end with it.
Forget ==
  /\ candidate' = Start /\ todo' = {} /\ replaced' = <<>> /\ backup' = Start
  /\ receipt' = FALSE

Release(answer) ==
  /\ call' = [call EXCEPT ![holder] =
                IF cancelled[holder] /\ answer = "ok" THEN "cancelled" ELSE answer]
  /\ holder' = Nobody /\ phase' = "free"
  /\ request' = [request EXCEPT ![holder] = Forgotten]
  /\ cancelled' = [cancelled EXCEPT ![holder] = FALSE]
  /\ Forget
  /\ UNCHANGED <<queue, up>>

\* A waiter, woken or not, leaves the lock; work that has begun goes on to its
\* end and the cancellation is raised after it.
Cancel(c) ==
  /\ up /\ call[c] = "waiting" /\ ~cancelled[c]
  /\ cancelled' = [cancelled EXCEPT ![c] = TRUE]
  /\ \/ /\ c = holder /\ phase # "free"
        /\ UNCHANGED <<call, queue, holder>>
     \/ /\ c = holder /\ phase = "free"
        /\ call' = [call EXCEPT ![c] = "cancelled"]
        /\ holder' = Nobody /\ UNCHANGED queue
     \/ /\ c # holder
        /\ call' = [call EXCEPT ![c] = "cancelled"]
        /\ \E i \in DOMAIN queue :
             /\ queue[i] = c
             /\ queue' = SubSeq(queue, 1, i - 1) \o SubSeq(queue, i + 1, Len(queue))
        /\ UNCHANGED holder
  /\ UNCHANGED <<world, up, request, phase, transaction, ghosts>>

----------------------------------------------------------------------------
(* The beginning of an operation, under the lock.                          *)

Entering == up /\ holder # Nobody /\ phase = "free"

\* Refused before anything is read: closed, or a root runs.
Refuse ==
  /\ Entering /\ Mine.kind # "close"
  /\ closed \/ (Activates /\ (root \/ activating))
  /\ Release("failed")
  /\ UNCHANGED <<world, ghosts>>

\* close() only waits for the lock.
Close ==
  /\ Entering /\ Mine.kind = "close"
  /\ Release("ok")
  /\ UNCHANGED <<world, ghosts>>

Begin ==
  /\ Entering /\ ~closed
  /\ Mine.kind = "patch" \/ (Activates /\ ~root /\ ~activating)
  /\ phase' = "reading"
  /\ expected' = disk /\ touched' = {}
  /\ UNCHANGED <<world, lock, transaction, counters>>

\* Preset records change in one step of the loop, outside the transaction.
RecordPreset ==
  /\ Entering /\ ~closed
  /\ \/ /\ Mine.kind = "save_preset" /\ Valid(disk)
        /\ presets' = [presets EXCEPT ![Mine.id] = [d \in Docs |-> disk[d].own]]
     \/ /\ Mine.kind = "delete_preset" /\ presets[Mine.id] # NoPreset
        /\ presets' = [presets EXCEPT ![Mine.id] = NoPreset]
  /\ Release("ok")
  /\ UNCHANGED <<disk, runtime, controller, ghosts>>

RecordFails ==
  /\ Entering /\ ~closed
  /\ \/ Mine.kind = "save_preset" /\ ~Valid(disk)
     \/ Mine.kind = "delete_preset" /\ presets[Mine.id] = NoPreset
  /\ Release("failed")
  /\ UNCHANGED <<world, ghosts>>

----------------------------------------------------------------------------
(* Building the candidate, and the generation for it.                      *)

\* MUTANT of Source: the graph of the last save is used again.
StaleSource == environment

\* What the operation reads before it lays its mutations over it.
Source == disk

Missing == Mine.kind = "preset" /\ presets[Mine.id] = NoPreset

\* MUTANT of Read: the handle is not asked again whether a root has started.
ReadUnasked ==
  /\ up /\ phase = "reading" /\ ~Missing
  /\ Valid(Overlaid(Source, Wanted(Mine)))
  /\ candidate' = Overlaid(Source, Wanted(Mine))
  /\ todo' = DOMAIN Wanted(Mine)
  /\ replaced' = <<>> /\ receipt' = FALSE /\ UNCHANGED backup
  /\ activating' = (activating \/ Activates)
  /\ phase' = IF Activates THEN "building" ELSE "staging"
  /\ UNCHANGED <<files, serving, sources, root, controller, lock, ghosts>>

Read ==
  /\ up /\ phase = "reading" /\ ~Missing
  /\ LET next == Overlaid(Source, Wanted(Mine))
     IN /\ Valid(next)
        /\ candidate' = next
        /\ todo' = DOMAIN Wanted(Mine)
  /\ replaced' = <<>> /\ receipt' = FALSE /\ UNCHANGED backup
  /\ IF Activates
       THEN /\ ~root /\ activating' = TRUE /\ phase' = "building"
       ELSE phase' = "staging" /\ UNCHANGED activating
  /\ UNCHANGED <<files, serving, sources, root, controller, lock, ghosts>>

\* MUTANT of Reject: an activation waits for the root that began meanwhile.
RejectLate ==
  /\ up /\ phase = "reading"
  /\ Missing \/ (~Missing /\ ~Valid(Overlaid(Source, Wanted(Mine))))
  /\ Release("failed")
  /\ UNCHANGED <<world, ghosts>>

\* The preset is gone, the candidate is refused, or a root began meanwhile.
Reject ==
  /\ up /\ phase = "reading"
  /\ \/ Missing
     \/ ~Missing /\ ~Valid(Overlaid(Source, Wanted(Mine)))
     \/ Activates /\ root
  /\ Release("failed")
  /\ UNCHANGED <<world, ghosts>>

Build ==
  /\ up /\ phase = "building"
  /\ phase' = "staging"
  /\ UNCHANGED <<world, lock, transaction, ghosts>>

\* The candidate's generation cannot be built: the handle is freed at once.
BuildFails ==
  /\ up /\ phase = "building"
  /\ activating' = FALSE
  /\ Release("failed")
  /\ UNCHANGED <<files, serving, sources, root, controller, ghosts>>

----------------------------------------------------------------------------
(* ConfigFileTransaction: replace every document, or put all back.         *)

Stage ==
  /\ up /\ phase = "staging"
  /\ backup' = disk
  /\ phase' = "writing"
  /\ UNCHANGED <<world, lock, candidate, todo, replaced, receipt, ghosts>>

Replace ==
  /\ up /\ phase = "writing"
  /\ \E d \in todo :
       /\ disk' = [disk EXCEPT ![d] = candidate[d]]
       /\ todo' = todo \ {d} /\ replaced' = Append(replaced, d)
  /\ UNCHANGED <<presets, runtime, controller, lock, phase, candidate, backup,
                 receipt, ghosts>>

ReplaceFails ==
  /\ up /\ phase = "writing" /\ todo # {} /\ faults < MaxFaults
  /\ faults' = faults + 1
  /\ phase' = "undoing"
  /\ UNCHANGED <<world, lock, transaction, history, edits, crashes>>

\* A save is over with its files; an activation goes on to the swap.
Committed ==
  /\ up /\ phase = "writing" /\ todo = {}
  /\ IF Activates
       THEN /\ phase' = "pausing" /\ receipt' = TRUE
            /\ UNCHANGED <<environment, expected, lock, candidate, todo,
                           replaced, backup>>
       ELSE /\ environment' = candidate
            /\ expected' = Overlaid(expected, Wanted(Mine))
            /\ Release("ok")
  /\ UNCHANGED <<files, runtime, active, closed, touched, counters>>

Undone == replaced = <<>>

Undo ==
  /\ up /\ phase = "undoing" /\ ~Undone
  /\ LET d == replaced[Len(replaced)]
     IN disk' = [disk EXCEPT ![d] = backup[d]]
  /\ replaced' = SubSeq(replaced, 1, Len(replaced) - 1)
  /\ UNCHANGED <<presets, runtime, controller, lock, phase, candidate, todo,
                 backup, receipt, ghosts>>

\* The rollback ends, or itself fails and leaves the rest as it is.
UndoEnds ==
  /\ up /\ phase = "undoing"
  /\ \/ Undone /\ UNCHANGED <<faults, touched>>
     \/ /\ ~Undone /\ faults < MaxFaults /\ faults' = faults + 1
        /\ touched' = touched \cup {replaced[i] : i \in DOMAIN replaced}
  /\ IF Activates /\ ~receipt
       THEN phase' = "aborting"
            /\ UNCHANGED <<lock, transaction>>
       ELSE Release("failed")
  /\ UNCHANGED <<world, expected, edits, crashes>>

----------------------------------------------------------------------------
(* PreparedConfigActivation: commit, abort, retire.                        *)

Pause ==
  /\ up /\ phase = "pausing"
  /\ sources' = "paused" /\ phase' = "swapping"
  /\ UNCHANGED <<files, serving, activating, root, controller, lock,
                 transaction, ghosts>>

\* handle.activate is the last thing commit() does.
Swap ==
  /\ up /\ phase = "swapping"
  /\ serving' = candidate /\ sources' = "running" /\ activating' = FALSE
  /\ phase' = "publishing"
  /\ UNCHANGED <<files, root, controller, lock, transaction, ghosts>>

\* The day is not ready, or an input of the new generation does not start.
SwapFails ==
  /\ up /\ phase = "swapping"
  /\ phase' = "aborting"
  /\ UNCHANGED <<world, lock, transaction, ghosts>>

\* The inputs run again, or one of them does not start and all are off.
Resume ==
  \/ sources' = "running" /\ UNCHANGED faults
  \/ faults < MaxFaults /\ faults' = faults + 1 /\ sources' = "off"

\* MUTANT of Abort: the old inputs stay paused.
AbortPaused ==
  /\ up /\ phase = "aborting"
  /\ activating' = FALSE /\ UNCHANGED <<sources, faults>>
  /\ IF receipt
       THEN phase' = "undoing"
            /\ UNCHANGED <<lock, transaction>>
       ELSE Release("failed")
  /\ UNCHANGED <<files, serving, root, controller, history, edits, crashes>>

\* The candidate is closed and the old inputs resume if they were paused; that
\* they do not is recorded as a failed cleanup.  Either way the files go back.
Abort ==
  /\ up /\ phase = "aborting"
  /\ activating' = FALSE
  /\ IF sources = "running" THEN UNCHANGED <<sources, faults>> ELSE Resume
  /\ IF receipt
       THEN phase' = "undoing"
            /\ UNCHANGED <<lock, transaction>>
       ELSE Release("failed")
  /\ UNCHANGED <<files, serving, root, controller, history, edits, crashes>>

Publish ==
  /\ up /\ phase = "publishing"
  /\ environment' = candidate /\ active' = candidate
  /\ receipt' = FALSE
  /\ expected' = Overlaid(expected, Wanted(Mine))
  /\ phase' = "retiring"
  /\ UNCHANGED <<files, runtime, closed, lock, candidate, todo, replaced,
                 backup, touched, counters>>

Retire ==
  /\ up /\ phase = "retiring"
  /\ Release("ok")
  /\ UNCHANGED <<world, ghosts>>

----------------------------------------------------------------------------
(* What surrounds the controller.                                          *)

\* From the reading of the files to the publication an operation no longer
\* looks at what the user does to the documents it replaces.
Window == Phases \ {"free", "reading", "retiring"}

\* The user saves a document in an editor.
Edit(d, v) ==
  /\ edits < MaxEdits /\ edits' = edits + 1
  /\ disk' = [disk EXCEPT ![d] = [own |-> v, other |-> edits + 1]]
  /\ expected' = [expected EXCEPT ![d] = [own |-> v, other |-> edits + 1]]
  /\ touched' = IF phase \in Window /\ d \in DOMAIN Wanted(Mine)
                  THEN touched \cup {d} ELSE touched
  /\ UNCHANGED <<presets, runtime, controller, lock, phase, transaction,
                 faults, crashes>>

RootStarts ==
  /\ up /\ ~root /\ ~activating
  /\ root' = TRUE
  /\ UNCHANGED <<files, serving, sources, activating, controller, lock, phase,
                 transaction, ghosts>>

RootEnds ==
  /\ up /\ root
  /\ root' = FALSE
  /\ UNCHANGED <<files, serving, sources, activating, controller, lock, phase,
                 transaction, ghosts>>

\* A root that meets a new day pauses and resumes the inputs, and fails when
\* one of them does not start.
DayChanges ==
  /\ up /\ root /\ Resume
  /\ UNCHANGED <<files, serving, activating, root, controller, lock, phase,
                 transaction, history, edits, crashes>>

\* The process dies; only the files survive it.
Crash ==
  /\ up /\ crashes < MaxCrashes /\ crashes' = crashes + 1
  /\ up' = FALSE
  /\ call' = [c \in Callers |-> IF call[c] = "waiting" THEN "lost" ELSE call[c]]
  /\ queue' = <<>> /\ holder' = Nobody /\ phase' = "free"
  /\ Forget
  /\ activating' = FALSE /\ root' = FALSE /\ sources' = "running"
  /\ expected' = disk /\ touched' = {}
  /\ request' = [c \in Callers |-> IF call[c] = "none" THEN request[c] ELSE Forgotten]
  /\ cancelled' = [c \in Callers |-> FALSE]
  /\ UNCHANGED <<files, serving, controller, edits, faults>>

\* A new process builds its controller and generation from the files.
Restart ==
  /\ ~up /\ Valid(disk)
  /\ up' = TRUE /\ closed' = FALSE
  /\ environment' = disk /\ active' = disk /\ serving' = disk
  /\ UNCHANGED <<files, sources, activating, root, calls, queue, holder,
                 phase, transaction, ghosts>>

----------------------------------------------------------------------------
Transaction ==
  Stage \/ Replace \/ ReplaceFails \/ Committed \/ Undo \/ UndoEnds

Activation ==
  Build \/ BuildFails \/ Pause \/ Swap \/ SwapFails \/ Abort \/ Publish \/ Retire

Operation ==
  Refuse \/ Close \/ Begin \/ RecordPreset \/ RecordFails \/ Read \/ Reject
  \/ Transaction \/ Activation

Surroundings ==
  \/ \E d \in Docs, v \in Values : Edit(d, v)
  \/ RootStarts \/ RootEnds \/ DayChanges \/ Crash \/ Restart

Next ==
  \/ \E c \in Callers : Ask(c) \/ Cancel(c)
  \/ Acquire \/ Operation \/ Surroundings

Spec == Init /\ [][Next]_vars

\* The loop runs its ready tasks and worker threads end.
FairSpec == Spec /\ WF_vars(Acquire) /\ WF_vars(Operation)

----------------------------------------------------------------------------
(* Properties.                                                             *)

TypeOK ==
  /\ disk \in Environments /\ presets \in [Presets -> Definitions \cup {NoPreset}]
  /\ environment \in Environments /\ active \in Environments
  /\ serving \in Environments
  /\ sources \in {"running", "paused", "off"}
  /\ activating \in BOOLEAN /\ root \in BOOLEAN
  /\ closed \in BOOLEAN /\ up \in BOOLEAN
  /\ call \in [Callers -> {"none", "waiting"} \cup Answers]
  /\ request \in [Callers -> Requests]
  /\ cancelled \in [Callers -> BOOLEAN]
  /\ queue \in Seq(Callers) /\ holder \in Callers \cup {Nobody}
  /\ phase \in Phases
  /\ candidate \in Environments /\ todo \subseteq Docs
  /\ replaced \in Seq(Docs) /\ backup \in Environments
  /\ receipt \in BOOLEAN
  /\ expected \in Environments /\ touched \subseteq Docs
  /\ edits \in 0..MaxEdits /\ faults \in 0..MaxFaults
  /\ crashes \in 0..MaxCrashes

\* Between operations every document holds what the saves that succeeded and
\* the user's edits put there, all of a save's documents or none: a failed
\* candidate is rolled back, an earlier save and an edit made while nothing
\* was running survive.  Only a document that the user edits during an operation,
\* or whose own rollback fails, is excepted.
FilesAreWhole ==
  phase = "free" => \A d \in Docs \ touched : disk[d] = expected[d]

\* Between operations the controller reports as active what the handle serves,
\* with the handle free for the next root; and no operation leaves the inputs of
\* that generation off silently: they run, unless an abort recorded that they
\* could not resume or the root that met a new day failed of it.
ActiveIsServed ==
  up /\ phase \in {"free", "reading"} =>
    /\ active = serving /\ ~activating
    /\ sources # "paused"

\* A generation is never replaced while a root runs, though the root may
\* begin between the controller's look at the activity and the activation.
NoSwapUnderRoot == [][serving' # serving => ~root]_vars

\* Every call is answered, unless the process dies: the lock is always
\* released, whichever step fails.
CallsAreAnswered ==
  \A c \in Callers : call[c] = "waiting" ~> call[c] # "waiting"
=============================================================================
