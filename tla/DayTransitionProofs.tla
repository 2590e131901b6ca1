------------------------ MODULE DayTransitionProofs ------------------------
(***************************************************************************)
(* Proofs about DayTransition: every state a failure or crash leaves on    *)
(* disk is one of a few shapes, told apart by the journal, from which the  *)
(* next attempt goes on; so no check refuses but the reconciliation of a   *)
(* crowded Workspace, facts stay with their day, and the whole rollover    *)
(* implements the atomic one of DayRollover.                               *)
(***************************************************************************)
EXTENDS DayTransition, TLAPS

(***************************************************************************)
(* The inductive invariant.                                                *)
(***************************************************************************)
Running == pc \notin {"down", "idle"}
Journaled == pending = "journaled"
SessionDone == "session_archived" \in steps
WorkspaceDone == "workspace_archived" \in steps
InitDone == "active_initialized" \in steps

\* The participants are initialised in the order Session, Memory, Workspace.
InOrder ==
  /\ memory \in {NoDay, session} /\ workspace \in {NoDay, session}
  /\ workspace # NoDay => memory # NoDay

\* Without a journal nothing is moved, and the active roots hold one day.
NoJournal ==
  ~Journaled =>
    /\ from = NoDay /\ to = NoDay /\ steps = {} /\ moved = {} /\ memoryIn = NoDay
    /\ held = Nothing /\ InOrder
    /\ \A p \in Parts : live[p] \subseteq {session} /\ NoDay \notin live[p]

\* With a journal: what is moved, what is journaled, and where the facts are.
JournalOK ==
  Journaled =>
    /\ from \in Days /\ to \in Days /\ from < to
    /\ InitDone => WorkspaceDone
    /\ WorkspaceDone => SessionDone /\ "workspace" \in moved
    /\ SessionDone => "session" \in moved
    /\ "workspace" \in moved => "trash" \in moved
    /\ "trash" \in moved => SessionDone
    /\ "session" \in moved => memoryIn = from
    /\ \A p \in Parts : held[p] \subseteq {from} /\ live[p] \subseteq {from}
    /\ \A p \in Parts : IF p \in moved THEN live[p] = {} ELSE held[p] = {}

\* With a journal: the days of the participants.
ActiveRoots ==
  Journaled =>
    /\ "session" \notin moved => session = from /\ memory = from
    /\ "workspace" \notin moved => workspace = from
    /\ "trash" \in moved => ~trash
    /\ "session" \in moved /\ ~WorkspaceDone => session = NoDay /\ memory = NoDay
    /\ "workspace" \in moved /\ ~WorkspaceDone => workspace = NoDay
    /\ WorkspaceDone => session \in {NoDay, to} /\ InOrder
    /\ InitDone => session = to /\ memory = to /\ workspace = to

\* Where the attempt is, and what it may rely on there.
Unjournaled == {"claim", "choose", "start", "journal"}
Resuming == {"session", "sessionSave", "trash", "workspace", "workspaceSave", "initSave",
             "record", "finalize"}
Initialising == {"initSession", "initMemory", "initWorkspace"}

Position ==
  /\ pc \in Unjournaled => pending = IF pc = "journal" THEN "bare" ELSE "none"
  /\ pc \in Resuming => Journaled
  /\ pc = "sessionSave" => "session" \in moved /\ ~SessionDone
  /\ pc = "trash" => SessionDone
  /\ pc = "workspace" =>
       SessionDone /\ "trash" \in moved /\ "workspace" \notin moved
  /\ pc = "workspaceSave" => "workspace" \in moved /\ ~WorkspaceDone
  /\ pc \in {"record", "finalize"} => InitDone
  /\ pc = "finalize" => catalog[from] = to

\* The day that is being initialised.
Goal ==
  /\ pc \in Initialising \cup {"initSave"} =>
       /\ goal \in Days /\ pending # "bare"
       /\ Journaled => WorkspaceDone /\ ~InitDone /\ goal = to
       /\ ~Journaled => goal <= target /\ session \in {NoDay, goal}
  /\ pc \in {"initMemory", "initWorkspace"} => session = goal
  /\ pc = "initWorkspace" => memory = goal
  /\ pc \in {"choose", "start", "journal", "initSave"} =>
       goal # NoDay /\ session = goal /\ memory = goal /\ workspace = goal
  /\ pc \in {"choose", "start", "journal"} => goal <= target
  /\ pc \in {"start", "journal"} => goal < target

\* Days only go forward.
Time ==
  /\ session <= today /\ to <= today
  /\ Running => target \in Days /\ target <= today /\ session <= target /\ to <= target

\* Only the Turn whose rollover has returned has the active day.
TurnOK ==
  /\ Running <=> turn = "preflight"
  /\ pc = "down" => turn = "none"
  /\ turn \in {"ready", "working"} =>
       /\ active # NoDay /\ session = active /\ memory = active /\ workspace = active
       /\ pending = "none"

\* Every archive leads from an earlier day to one not later than the current.
ArchivesOK ==
  /\ \A a \in archives :
       /\ a.day < a.name /\ a.name <= Current
       /\ catalog[a.day] = a.name
       /\ \A p \in Parts : a.facts[p] \subseteq {a.day}
  /\ \A a, b \in archives : a.name = b.name => a = b
  /\ \A d \in Days : catalog[d] # NoDay =>
       \/ \E a \in archives : a.day = d /\ a.name = catalog[d]
       \/ Journaled /\ d = from /\ catalog[d] = to

\* What is kept was written, and what was written is kept.
FactsOK ==
  /\ \A p \in Parts : \A d \in live[p] \cup held[p] : <<p, d>> \in written
  /\ \A p \in Parts, d \in Days : <<p, d>> \in written =>
       \/ d \in live[p] \cup held[p]
       \/ \E a \in archives : d \in a.facts[p]

TransitionInv ==
  /\ TypeOK /\ NoJournal /\ JournalOK /\ ActiveRoots /\ Position /\ Goal /\ Time
  /\ TurnOK /\ ArchivesOK /\ FactsOK

\* The empty disk and the idle process satisfy the inductive invariant.
LEMMA TransitionInit == Init => TransitionInv
  <1> SUFFICES ASSUME Init PROVE TransitionInv
    OBVIOUS
  <1> USE DayAssumption
      DEF Init, Days, MaybeDay, NoDay, Running, Journaled, SessionDone, WorkspaceDone, InitDone
  <1>1. TypeOK
    <2>1. live \in Contents /\ held \in Contents
      BY DEF Contents, Nothing
    <2>2. catalog \in [Days -> MaybeDay] /\ today \in Days
      OBVIOUS
    <2>3. /\ steps \subseteq Steps /\ moved \subseteq Parts /\ written \subseteq Parts \X Days
          /\ archives \subseteq [name : Days, day : Days, facts : Contents]
      OBVIOUS
    <2> HIDE DEF Days
    <2> QED
      BY <2>1, <2>2, <2>3 DEF TypeOK, PCs
  <1>2. NoJournal /\ JournalOK /\ ActiveRoots
    BY DEF NoJournal, JournalOK, ActiveRoots, InOrder, Nothing
  <1>3. Position /\ Goal /\ Time /\ TurnOK
    BY DEF Position, Goal, Time, TurnOK, Unjournaled, Resuming, Initialising
  <1>4. ArchivesOK /\ FactsOK
    BY DEF ArchivesOK, FactsOK, Nothing
  <1> QED
    BY <1>1, <1>2, <1>3, <1>4 DEF TransitionInv

\* Every step keeps the types.
LEMMA TransitionTypes == TransitionInv /\ [Next]_vars => TypeOK'
  <1> SUFFICES ASSUME TransitionInv, [Next]_vars PROVE TypeOK'
    OBVIOUS
  <1> USE DayAssumption
      DEF TransitionInv, diskVars, liveVars, pendingVars, archiveVars, procVars, worldVars,
          Days, MaybeDay, NoDay, Running, Journaled, SessionDone, WorkspaceDone, InitDone,
          TypeOK, Contents, PCs, Steps, Nothing, Parts, JournalOK, NoJournal, TurnOK,
          Position, Unjournaled, Resuming, Goal, Initialising
  <1>1. CASE Midnight
    BY <1>1 DEF Midnight
  <1>2. CASE Begin
    BY <1>2 DEF Begin, Goto
  <1>3. CASE Enter
    BY <1>3 DEF Enter
  <1>4. CASE Leave
    BY <1>4 DEF Leave
  <1>5. ASSUME Fail PROVE TypeOK'
    <2>1. faults' \in Nat /\ pending' \in {"none", "bare", "journaled"}
      BY <1>5 DEF Fail
    <2>2. pc' \in PCs /\ turn' \in {"none", "preflight", "ready", "working"}
      BY <1>5 DEF Fail
    <2>3. UNCHANGED <<from, to, steps, moved, memoryIn, held>>
      BY <1>5 DEF Fail
    <2>4. UNCHANGED <<liveVars, archiveVars, target, goal, active, crowded, today, written>>
      BY <1>5 DEF Fail
    <2> HIDE DEF Contents, MaybeDay, PCs, Parts, Days, Steps
    <2> QED
      BY <2>1, <2>2, <2>3, <2>4
  <1>6. CASE Crash
    BY <1>6 DEF Crash
  <1>7. CASE Restart
    BY <1>7 DEF Restart, Goto
  <1>8. CASE Look
    BY <1>8 DEF Look, StepUnchanged
  <1>9. CASE Claim
    BY <1>9 DEF Claim, Goto, StepUnchanged
  <1>10. CASE InitSession
    BY <1>10 DEF InitSession, Goto, StepUnchanged
  <1>11. CASE InitMemory
    BY <1>11 DEF InitMemory, Goto, StepUnchanged
  <1>12. CASE InitWorkspace
    BY <1>12 DEF InitWorkspace, StepUnchanged
  <1>13. CASE Choose
    BY <1>13 DEF Choose, Finish
  <1>14. CASE Start
    BY <1>14 DEF Start, Goto, StepUnchanged
  <1>15. CASE SaveJournal
    BY <1>15 DEF SaveJournal, Goto, StepUnchanged
  <1>16. ASSUME MoveSession PROVE TypeOK'
    <2>1. live' \in Contents /\ held' \in Contents
      BY <1>16 DEF MoveSession
    <2>2. /\ session' \in MaybeDay /\ memory' \in MaybeDay /\ memoryIn' \in MaybeDay
          /\ moved' \subseteq Parts
      <3>1. /\ session' \in {session, NoDay} /\ memory' \in {memory, NoDay}
            /\ memoryIn' \in {memoryIn, memory} /\ moved' \in {moved, moved \cup {"session"}}
        BY <1>16 DEF MoveSession
      <3> QED
        BY <3>1
    <2>3. pc' \in PCs
      BY <1>16 DEF MoveSession
    <2> HIDE DEF Contents, MaybeDay, PCs, Parts
    <2> QED
      BY <1>16, <2>1, <2>2, <2>3 DEF MoveSession, StepUnchanged
  <1>17. CASE SaveSession
    BY <1>17 DEF SaveSession, Journal, Goto, StepUnchanged
  <1>18. ASSUME MoveTrash PROVE TypeOK'
    <2>1. live' \in Contents /\ held' \in Contents
      BY <1>18 DEF MoveTrash
    <2>2. trash' \in BOOLEAN
      BY <1>18 DEF MoveTrash
    <2>3. pc' \in PCs /\ goal' \in MaybeDay /\ moved' \subseteq Parts
      <3>1. /\ pc' \in {"record", "initSession", "workspaceSave", "workspace"}
            /\ goal' \in {goal, to} /\ moved' \in {moved, moved \cup {"trash"}}
        BY <1>18 DEF MoveTrash
      <3> QED
        BY <3>1
    <2> HIDE DEF Contents, MaybeDay, PCs, Parts
    <2> QED
      BY <1>18, <2>1, <2>2, <2>3 DEF MoveTrash, StepUnchanged
  <1>19. CASE MoveWorkspace
    BY <1>19 DEF MoveWorkspace, Goto
  <1>20. CASE SaveWorkspace
    BY <1>20 DEF SaveWorkspace, Journal, Goto, StepUnchanged
  <1>21. CASE SaveInit
    BY <1>21 DEF SaveInit, Journal, Goto, StepUnchanged
  <1>22. CASE Record
    BY <1>22 DEF Record, Goto, StepUnchanged
  <1>23. CASE Finalize
    BY <1>23 DEF Finalize, Finish
  <1>24. ASSUME NEW p \in Parts, Work(p) PROVE TypeOK'
    <2>1. active \in Days
      BY <1>24 DEF Work
    <2> HIDE DEF Days, Parts
    <2>2. live' \in [Parts -> SUBSET Days]
      BY <1>24, <2>1 DEF Work
    <2>3. written' \subseteq Parts \X Days
      BY <1>24, <2>1 DEF Work
    <2>4. trash' \in BOOLEAN
      BY <1>24 DEF Work
    <2> QED
      BY <1>24, <2>2, <2>3, <2>4 DEF Work
  <1>26. CASE Crowd
    BY <1>26 DEF Crowd
  <1>27. ASSUME Tidy PROVE TypeOK'
    <2>1. crowded' \in BOOLEAN /\ UNCHANGED <<diskVars, pc, procVars, today, faults, written>>
      BY <1>27 DEF Tidy
    <2> HIDE DEF Contents, MaybeDay, PCs, Parts, Days, Steps
    <2> QED
      BY <2>1
  <1>28. CASE RefuseCrowded
    BY <1>28 DEF RefuseCrowded, Goto
  <1>25. CASE UNCHANGED vars
    BY <1>25 DEF vars
  <1> QED
    BY <1>1, <1>2, <1>3, <1>4, <1>5, <1>6, <1>7, <1>8, <1>9, <1>10, <1>11, <1>12, <1>13,
       <1>14, <1>15, <1>16, <1>17, <1>18, <1>19, <1>20, <1>21, <1>22, <1>23, <1>24, <1>25,
       <1>26, <1>27, <1>28 DEF Next, EnsureActiveDay

\* Without a journal nothing stays behind of an earlier archive.
LEMMA TransitionNoJournal == TransitionInv /\ [Next]_vars => NoJournal'
  <1> SUFFICES ASSUME TransitionInv, [Next]_vars PROVE NoJournal'
    OBVIOUS
  <1> USE DayAssumption
      DEF TransitionInv, diskVars, liveVars, pendingVars, archiveVars, procVars, worldVars,
          Days, MaybeDay, NoDay, Running, Journaled, SessionDone, WorkspaceDone, InitDone,
          NoJournal, InOrder, JournalOK, ActiveRoots, TypeOK, TurnOK, Contents, Nothing,
          Parts, Position, Unjournaled, Resuming, Goal, Initialising
  <1>1. CASE Midnight
    BY <1>1 DEF Midnight
  <1>2. CASE Begin
    BY <1>2 DEF Begin, Goto
  <1>3. CASE Enter
    BY <1>3 DEF Enter
  <1>4. CASE Leave
    BY <1>4 DEF Leave
  <1>5. CASE Fail
    BY <1>5 DEF Fail
  <1>6. CASE Crash
    BY <1>6 DEF Crash
  <1>7. CASE Restart
    BY <1>7 DEF Restart, Goto
  <1>8. CASE Look
    BY <1>8 DEF Look, StepUnchanged
  <1>9. CASE Claim
    BY <1>9 DEF Claim, Goto, StepUnchanged
  <1>10. CASE InitSession
    BY <1>10 DEF InitSession, Goto, StepUnchanged
  <1>11. CASE InitMemory
    BY <1>11 DEF InitMemory, Goto, StepUnchanged
  <1>12. CASE InitWorkspace
    BY <1>12 DEF InitWorkspace, StepUnchanged
  <1>13. CASE Choose
    BY <1>13 DEF Choose, Finish
  <1>14. CASE Start
    BY <1>14 DEF Start, Goto, StepUnchanged
  <1>15. CASE SaveJournal
    BY <1>15 DEF SaveJournal, Goto, StepUnchanged
  <1>16. CASE MoveSession
    BY <1>16 DEF MoveSession, StepUnchanged
  <1>17. CASE SaveSession
    BY <1>17 DEF SaveSession, Journal, Goto, StepUnchanged
  <1>18. CASE MoveTrash
    BY <1>18 DEF MoveTrash, StepUnchanged
  <1>19. CASE MoveWorkspace
    BY <1>19 DEF MoveWorkspace, Goto
  <1>20. CASE SaveWorkspace
    BY <1>20 DEF SaveWorkspace, Journal, Goto, StepUnchanged
  <1>21. CASE SaveInit
    BY <1>21 DEF SaveInit, Journal, Goto, StepUnchanged
  <1>22. CASE Record
    BY <1>22 DEF Record, Goto, StepUnchanged
  <1>23. CASE Finalize
    BY <1>23 DEF Finalize, Finish
  <1>24. ASSUME NEW p \in Parts, Work(p) PROVE NoJournal'
    BY <1>24 DEF Work
  <1>26. CASE Crowd
    BY <1>26 DEF Crowd
  <1>27. CASE Tidy
    BY <1>27 DEF Tidy
  <1>28. CASE RefuseCrowded
    BY <1>28 DEF RefuseCrowded, Goto
  <1>25. CASE UNCHANGED vars
    BY <1>25 DEF vars
  <1> QED
    BY <1>1, <1>2, <1>3, <1>4, <1>5, <1>6, <1>7, <1>8, <1>9, <1>10, <1>11, <1>12, <1>13,
       <1>14, <1>15, <1>16, <1>17, <1>18, <1>19, <1>20, <1>21, <1>22, <1>23, <1>24, <1>25,
       <1>26, <1>27, <1>28 DEF Next, EnsureActiveDay

\* The journal never runs ahead of the moves it records.
LEMMA TransitionJournal == TransitionInv /\ [Next]_vars => JournalOK'
  <1> SUFFICES ASSUME TransitionInv, [Next]_vars PROVE JournalOK'
    OBVIOUS
  <1> USE DayAssumption
      DEF TransitionInv, diskVars, liveVars, pendingVars, archiveVars, procVars, worldVars,
          Days, MaybeDay, NoDay, Running, Journaled, SessionDone, WorkspaceDone, InitDone,
          NoJournal, InOrder, JournalOK, ActiveRoots, TypeOK, TurnOK, Contents, Nothing,
          Parts, Position, Unjournaled, Resuming, Goal, Initialising
  <1>1. CASE Midnight
    BY <1>1 DEF Midnight
  <1>2. CASE Begin
    BY <1>2 DEF Begin, Goto
  <1>3. CASE Enter
    BY <1>3 DEF Enter
  <1>4. CASE Leave
    BY <1>4 DEF Leave
  <1>5. CASE Fail
    BY <1>5 DEF Fail
  <1>6. CASE Crash
    BY <1>6 DEF Crash
  <1>7. CASE Restart
    BY <1>7 DEF Restart, Goto
  <1>8. CASE Look
    BY <1>8 DEF Look, StepUnchanged
  <1>9. CASE Claim
    BY <1>9 DEF Claim, Goto, StepUnchanged
  <1>10. CASE InitSession
    BY <1>10 DEF InitSession, Goto, StepUnchanged
  <1>11. CASE InitMemory
    BY <1>11 DEF InitMemory, Goto, StepUnchanged
  <1>12. CASE InitWorkspace
    BY <1>12 DEF InitWorkspace, StepUnchanged
  <1>13. CASE Choose
    BY <1>13 DEF Choose, Finish
  <1>14. CASE Start
    BY <1>14 DEF Start, Goto, StepUnchanged
  <1>15. CASE SaveJournal
    BY <1>15 DEF SaveJournal, Goto, StepUnchanged
  <1>16. CASE MoveSession
    BY <1>16 DEF MoveSession, StepUnchanged
  <1>17. CASE SaveSession
    BY <1>17 DEF SaveSession, Journal, Goto, StepUnchanged
  <1>18. CASE MoveTrash
    BY <1>18 DEF MoveTrash, StepUnchanged
  <1>19. CASE MoveWorkspace
    BY <1>19 DEF MoveWorkspace, Goto
  <1>20. CASE SaveWorkspace
    BY <1>20 DEF SaveWorkspace, Journal, Goto, StepUnchanged
  <1>21. CASE SaveInit
    BY <1>21 DEF SaveInit, Journal, Goto, StepUnchanged
  <1>22. CASE Record
    BY <1>22 DEF Record, Goto, StepUnchanged
  <1>23. CASE Finalize
    BY <1>23 DEF Finalize, Finish
  <1>24. ASSUME NEW p \in Parts, Work(p) PROVE JournalOK'
    BY <1>24 DEF Work
  <1>26. CASE Crowd
    BY <1>26 DEF Crowd
  <1>27. CASE Tidy
    BY <1>27 DEF Tidy
  <1>28. CASE RefuseCrowded
    BY <1>28 DEF RefuseCrowded, Goto
  <1>25. CASE UNCHANGED vars
    BY <1>25 DEF vars
  <1> QED
    BY <1>1, <1>2, <1>3, <1>4, <1>5, <1>6, <1>7, <1>8, <1>9, <1>10, <1>11, <1>12, <1>13,
       <1>14, <1>15, <1>16, <1>17, <1>18, <1>19, <1>20, <1>21, <1>22, <1>23, <1>24, <1>25,
       <1>26, <1>27, <1>28 DEF Next, EnsureActiveDay

\* The active roots are on the day the journal says.
LEMMA TransitionRoots == TransitionInv /\ [Next]_vars => ActiveRoots'
  <1> SUFFICES ASSUME TransitionInv, [Next]_vars PROVE ActiveRoots'
    OBVIOUS
  <1> USE DayAssumption
      DEF TransitionInv, diskVars, liveVars, pendingVars, archiveVars, procVars, worldVars,
          Days, MaybeDay, NoDay, Running, Journaled, SessionDone, WorkspaceDone, InitDone,
          ActiveRoots, NoJournal, JournalOK, InOrder, TypeOK, TurnOK, Position, Unjournaled,
          Resuming, Goal, Initialising
  <1>1. CASE Midnight
    BY <1>1 DEF Midnight
  <1>2. CASE Begin
    BY <1>2 DEF Begin, Goto
  <1>3. CASE Enter
    BY <1>3 DEF Enter
  <1>4. CASE Leave
    BY <1>4 DEF Leave
  <1>5. CASE Fail
    BY <1>5 DEF Fail
  <1>6. CASE Crash
    BY <1>6 DEF Crash
  <1>7. CASE Restart
    BY <1>7 DEF Restart, Goto
  <1>8. CASE Look
    BY <1>8 DEF Look, StepUnchanged
  <1>9. CASE Claim
    BY <1>9 DEF Claim, Goto, StepUnchanged
  <1>10. CASE InitSession
    BY <1>10 DEF InitSession, Goto, StepUnchanged
  <1>11. CASE InitMemory
    BY <1>11 DEF InitMemory, Goto, StepUnchanged
  <1>12. CASE InitWorkspace
    BY <1>12 DEF InitWorkspace, StepUnchanged
  <1>13. CASE Choose
    BY <1>13 DEF Choose, Finish
  <1>14. CASE Start
    BY <1>14 DEF Start, Goto, StepUnchanged
  <1>15. CASE SaveJournal
    BY <1>15 DEF SaveJournal, Goto, StepUnchanged
  <1>16. CASE MoveSession
    BY <1>16 DEF MoveSession, StepUnchanged
  <1>17. CASE SaveSession
    BY <1>17 DEF SaveSession, Journal, Goto, StepUnchanged
  <1>18. CASE MoveTrash
    BY <1>18 DEF MoveTrash, StepUnchanged
  <1>19. CASE MoveWorkspace
    BY <1>19 DEF MoveWorkspace, Goto
  <1>20. CASE SaveWorkspace
    BY <1>20 DEF SaveWorkspace, Journal, Goto, StepUnchanged
  <1>21. CASE SaveInit
    BY <1>21 DEF SaveInit, Journal, Goto, StepUnchanged
  <1>22. CASE Record
    BY <1>22 DEF Record, Goto, StepUnchanged
  <1>23. CASE Finalize
    BY <1>23 DEF Finalize, Finish
  <1>24. ASSUME NEW p \in Parts, Work(p) PROVE ActiveRoots'
    BY <1>24 DEF Work
  <1>26. CASE Crowd
    BY <1>26 DEF Crowd
  <1>27. CASE Tidy
    BY <1>27 DEF Tidy
  <1>28. CASE RefuseCrowded
    BY <1>28 DEF RefuseCrowded, Goto
  <1>25. CASE UNCHANGED vars
    BY <1>25 DEF vars
  <1> QED
    BY <1>1, <1>2, <1>3, <1>4, <1>5, <1>6, <1>7, <1>8, <1>9, <1>10, <1>11, <1>12, <1>13,
       <1>14, <1>15, <1>16, <1>17, <1>18, <1>19, <1>20, <1>21, <1>22, <1>23, <1>24, <1>25,
       <1>26, <1>27, <1>28 DEF Next, EnsureActiveDay

\* Each step of the attempt is reached with the journal it needs.
LEMMA TransitionPosition == TransitionInv /\ [Next]_vars => Position'
  <1> SUFFICES ASSUME TransitionInv, [Next]_vars PROVE Position'
    OBVIOUS
  <1> USE DayAssumption
      DEF TransitionInv, diskVars, liveVars, pendingVars, archiveVars, procVars, worldVars,
          Days, MaybeDay, NoDay, Running, Journaled, SessionDone, WorkspaceDone, InitDone,
          ActiveRoots, NoJournal, JournalOK, TypeOK, Position, Unjournaled, Resuming, Goal,
          Initialising
  <1>1. CASE Midnight
    BY <1>1 DEF Midnight
  <1>2. CASE Begin
    BY <1>2 DEF Begin, Goto
  <1>3. CASE Enter
    BY <1>3 DEF Enter
  <1>4. CASE Leave
    BY <1>4 DEF Leave
  <1>5. CASE Fail
    BY <1>5 DEF Fail
  <1>6. CASE Crash
    BY <1>6 DEF Crash
  <1>7. CASE Restart
    BY <1>7 DEF Restart, Goto
  <1>8. CASE Look
    BY <1>8 DEF Look, StepUnchanged
  <1>9. CASE Claim
    BY <1>9 DEF Claim, Goto, StepUnchanged
  <1>10. CASE InitSession
    BY <1>10 DEF InitSession, Goto, StepUnchanged
  <1>11. CASE InitMemory
    BY <1>11 DEF InitMemory, Goto, StepUnchanged
  <1>12. CASE InitWorkspace
    BY <1>12 DEF InitWorkspace, StepUnchanged
  <1>13. CASE Choose
    BY <1>13 DEF Choose, Finish
  <1>14. CASE Start
    BY <1>14 DEF Start, Goto, StepUnchanged
  <1>15. CASE SaveJournal
    BY <1>15 DEF SaveJournal, Goto, StepUnchanged
  <1>16. CASE MoveSession
    BY <1>16 DEF MoveSession, StepUnchanged
  <1>17. CASE SaveSession
    BY <1>17 DEF SaveSession, Journal, Goto, StepUnchanged
  <1>18. CASE MoveTrash
    BY <1>18 DEF MoveTrash, StepUnchanged
  <1>19. CASE MoveWorkspace
    BY <1>19 DEF MoveWorkspace, Goto
  <1>20. CASE SaveWorkspace
    BY <1>20 DEF SaveWorkspace, Journal, Goto, StepUnchanged
  <1>21. CASE SaveInit
    BY <1>21 DEF SaveInit, Journal, Goto, StepUnchanged
  <1>22. CASE Record
    BY <1>22 DEF Record, Goto, StepUnchanged
  <1>23. CASE Finalize
    BY <1>23 DEF Finalize, Finish
  <1>24. ASSUME NEW p \in Parts, Work(p) PROVE Position'
    BY <1>24 DEF Work
  <1>26. CASE Crowd
    BY <1>26 DEF Crowd
  <1>27. CASE Tidy
    BY <1>27 DEF Tidy
  <1>28. CASE RefuseCrowded
    BY <1>28 DEF RefuseCrowded, Goto
  <1>25. CASE UNCHANGED vars
    BY <1>25 DEF vars
  <1> QED
    BY <1>1, <1>2, <1>3, <1>4, <1>5, <1>6, <1>7, <1>8, <1>9, <1>10, <1>11, <1>12, <1>13,
       <1>14, <1>15, <1>16, <1>17, <1>18, <1>19, <1>20, <1>21, <1>22, <1>23, <1>24, <1>25,
       <1>26, <1>27, <1>28 DEF Next, EnsureActiveDay

\* The participants are initialised to the day of the journal or the claimed one.
LEMMA TransitionGoal == TransitionInv /\ [Next]_vars => Goal'
  <1> SUFFICES ASSUME TransitionInv, [Next]_vars PROVE Goal'
    OBVIOUS
  <1> USE DayAssumption
      DEF TransitionInv, diskVars, liveVars, pendingVars, archiveVars, procVars, worldVars,
          Days, MaybeDay, NoDay, Running, Journaled, SessionDone, WorkspaceDone, InitDone,
          ActiveRoots, NoJournal, JournalOK, InOrder, TypeOK, Time, Position, Unjournaled,
          Resuming, Goal, Initialising
  <1>1. CASE Midnight
    BY <1>1 DEF Midnight
  <1>2. CASE Begin
    BY <1>2 DEF Begin, Goto
  <1>3. CASE Enter
    BY <1>3 DEF Enter
  <1>4. CASE Leave
    BY <1>4 DEF Leave
  <1>5. CASE Fail
    BY <1>5 DEF Fail
  <1>6. CASE Crash
    BY <1>6 DEF Crash
  <1>7. CASE Restart
    BY <1>7 DEF Restart, Goto
  <1>8. CASE Look
    BY <1>8 DEF Look, StepUnchanged
  <1>9. CASE Claim
    BY <1>9 DEF Claim, Goto, StepUnchanged
  <1>10. CASE InitSession
    BY <1>10 DEF InitSession, Goto, StepUnchanged
  <1>11. CASE InitMemory
    BY <1>11 DEF InitMemory, Goto, StepUnchanged
  <1>12. CASE InitWorkspace
    BY <1>12 DEF InitWorkspace, StepUnchanged
  <1>13. CASE Choose
    BY <1>13 DEF Choose, Finish
  <1>14. CASE Start
    BY <1>14 DEF Start, Goto, StepUnchanged
  <1>15. CASE SaveJournal
    BY <1>15 DEF SaveJournal, Goto, StepUnchanged
  <1>16. CASE MoveSession
    BY <1>16 DEF MoveSession, StepUnchanged
  <1>17. CASE SaveSession
    BY <1>17 DEF SaveSession, Journal, Goto, StepUnchanged
  <1>18. CASE MoveTrash
    BY <1>18 DEF MoveTrash, StepUnchanged
  <1>19. CASE MoveWorkspace
    BY <1>19 DEF MoveWorkspace, Goto
  <1>20. CASE SaveWorkspace
    BY <1>20 DEF SaveWorkspace, Journal, Goto, StepUnchanged
  <1>21. CASE SaveInit
    BY <1>21 DEF SaveInit, Journal, Goto, StepUnchanged
  <1>22. CASE Record
    BY <1>22 DEF Record, Goto, StepUnchanged
  <1>23. CASE Finalize
    BY <1>23 DEF Finalize, Finish
  <1>24. ASSUME NEW p \in Parts, Work(p) PROVE Goal'
    BY <1>24 DEF Work
  <1>26. CASE Crowd
    BY <1>26 DEF Crowd
  <1>27. CASE Tidy
    BY <1>27 DEF Tidy
  <1>28. CASE RefuseCrowded
    BY <1>28 DEF RefuseCrowded, Goto
  <1>25. CASE UNCHANGED vars
    BY <1>25 DEF vars
  <1> QED
    BY <1>1, <1>2, <1>3, <1>4, <1>5, <1>6, <1>7, <1>8, <1>9, <1>10, <1>11, <1>12, <1>13,
       <1>14, <1>15, <1>16, <1>17, <1>18, <1>19, <1>20, <1>21, <1>22, <1>23, <1>24, <1>25,
       <1>26, <1>27, <1>28 DEF Next, EnsureActiveDay

\* No step leads to a day after the target.
LEMMA TransitionTime == TransitionInv /\ [Next]_vars => Time'
  <1> SUFFICES ASSUME TransitionInv, [Next]_vars PROVE Time'
    OBVIOUS
  <1> USE DayAssumption
      DEF TransitionInv, diskVars, liveVars, pendingVars, archiveVars, procVars, worldVars,
          Days, MaybeDay, NoDay, Running, Journaled, SessionDone, WorkspaceDone, InitDone,
          JournalOK, NoJournal, ActiveRoots, InOrder, TypeOK, Time, Position, Unjournaled,
          Resuming, Goal, Initialising
  <1>1. CASE Midnight
    BY <1>1 DEF Midnight
  <1>2. CASE Begin
    BY <1>2 DEF Begin, Goto
  <1>3. CASE Enter
    BY <1>3 DEF Enter
  <1>4. CASE Leave
    BY <1>4 DEF Leave
  <1>5. CASE Fail
    BY <1>5 DEF Fail
  <1>6. CASE Crash
    BY <1>6 DEF Crash
  <1>7. CASE Restart
    BY <1>7 DEF Restart, Goto
  <1>8. CASE Look
    BY <1>8 DEF Look, StepUnchanged
  <1>9. CASE Claim
    BY <1>9 DEF Claim, Goto, StepUnchanged
  <1>10. CASE InitSession
    BY <1>10 DEF InitSession, Goto, StepUnchanged
  <1>11. CASE InitMemory
    BY <1>11 DEF InitMemory, Goto, StepUnchanged
  <1>12. CASE InitWorkspace
    BY <1>12 DEF InitWorkspace, StepUnchanged
  <1>13. CASE Choose
    BY <1>13 DEF Choose, Finish
  <1>14. CASE Start
    BY <1>14 DEF Start, Goto, StepUnchanged
  <1>15. CASE SaveJournal
    BY <1>15 DEF SaveJournal, Goto, StepUnchanged
  <1>16. CASE MoveSession
    BY <1>16 DEF MoveSession, StepUnchanged
  <1>17. CASE SaveSession
    BY <1>17 DEF SaveSession, Journal, Goto, StepUnchanged
  <1>18. CASE MoveTrash
    BY <1>18 DEF MoveTrash, StepUnchanged
  <1>19. CASE MoveWorkspace
    BY <1>19 DEF MoveWorkspace, Goto
  <1>20. CASE SaveWorkspace
    BY <1>20 DEF SaveWorkspace, Journal, Goto, StepUnchanged
  <1>21. CASE SaveInit
    BY <1>21 DEF SaveInit, Journal, Goto, StepUnchanged
  <1>22. CASE Record
    BY <1>22 DEF Record, Goto, StepUnchanged
  <1>23. CASE Finalize
    BY <1>23 DEF Finalize, Finish
  <1>24. ASSUME NEW p \in Parts, Work(p) PROVE Time'
    BY <1>24 DEF Work
  <1>26. CASE Crowd
    BY <1>26 DEF Crowd
  <1>27. CASE Tidy
    BY <1>27 DEF Tidy
  <1>28. CASE RefuseCrowded
    BY <1>28 DEF RefuseCrowded, Goto
  <1>25. CASE UNCHANGED vars
    BY <1>25 DEF vars
  <1> QED
    BY <1>1, <1>2, <1>3, <1>4, <1>5, <1>6, <1>7, <1>8, <1>9, <1>10, <1>11, <1>12, <1>13,
       <1>14, <1>15, <1>16, <1>17, <1>18, <1>19, <1>20, <1>21, <1>22, <1>23, <1>24, <1>25,
       <1>26, <1>27, <1>28 DEF Next, EnsureActiveDay

\* A Turn gets the active day only from a rollover that has returned.
LEMMA TransitionTurn == TransitionInv /\ [Next]_vars => TurnOK'
  <1> SUFFICES ASSUME TransitionInv, [Next]_vars PROVE TurnOK'
    OBVIOUS
  <1> USE DayAssumption
      DEF TransitionInv, diskVars, liveVars, pendingVars, archiveVars, procVars, worldVars,
          Days, MaybeDay, NoDay, Running, Journaled, SessionDone, WorkspaceDone, InitDone,
          TurnOK, ActiveRoots, InOrder, TypeOK, Time, Position, Unjournaled, Resuming, Goal,
          Initialising
  <1>1. CASE Midnight
    BY <1>1 DEF Midnight
  <1>2. CASE Begin
    BY <1>2 DEF Begin, Goto
  <1>3. CASE Enter
    BY <1>3 DEF Enter
  <1>4. CASE Leave
    BY <1>4 DEF Leave
  <1>5. CASE Fail
    BY <1>5 DEF Fail
  <1>6. CASE Crash
    BY <1>6 DEF Crash
  <1>7. CASE Restart
    BY <1>7 DEF Restart, Goto
  <1>8. CASE Look
    BY <1>8 DEF Look, StepUnchanged
  <1>9. CASE Claim
    BY <1>9 DEF Claim, Goto, StepUnchanged
  <1>10. CASE InitSession
    BY <1>10 DEF InitSession, Goto, StepUnchanged
  <1>11. CASE InitMemory
    BY <1>11 DEF InitMemory, Goto, StepUnchanged
  <1>12. CASE InitWorkspace
    BY <1>12 DEF InitWorkspace, StepUnchanged
  <1>13. CASE Choose
    BY <1>13 DEF Choose, Finish
  <1>14. CASE Start
    BY <1>14 DEF Start, Goto, StepUnchanged
  <1>15. CASE SaveJournal
    BY <1>15 DEF SaveJournal, Goto, StepUnchanged
  <1>16. CASE MoveSession
    BY <1>16 DEF MoveSession, StepUnchanged
  <1>17. CASE SaveSession
    BY <1>17 DEF SaveSession, Journal, Goto, StepUnchanged
  <1>18. CASE MoveTrash
    BY <1>18 DEF MoveTrash, StepUnchanged
  <1>19. CASE MoveWorkspace
    BY <1>19 DEF MoveWorkspace, Goto
  <1>20. CASE SaveWorkspace
    BY <1>20 DEF SaveWorkspace, Journal, Goto, StepUnchanged
  <1>21. CASE SaveInit
    BY <1>21 DEF SaveInit, Journal, Goto, StepUnchanged
  <1>22. CASE Record
    BY <1>22 DEF Record, Goto, StepUnchanged
  <1>23. CASE Finalize
    BY <1>23 DEF Finalize, Finish
  <1>24. ASSUME NEW p \in Parts, Work(p) PROVE TurnOK'
    BY <1>24 DEF Work
  <1>26. CASE Crowd
    BY <1>26 DEF Crowd
  <1>27. CASE Tidy
    BY <1>27 DEF Tidy
  <1>28. CASE RefuseCrowded
    BY <1>28 DEF RefuseCrowded, Goto
  <1>25. CASE UNCHANGED vars
    BY <1>25 DEF vars
  <1> QED
    BY <1>1, <1>2, <1>3, <1>4, <1>5, <1>6, <1>7, <1>8, <1>9, <1>10, <1>11, <1>12, <1>13,
       <1>14, <1>15, <1>16, <1>17, <1>18, <1>19, <1>20, <1>21, <1>22, <1>23, <1>24, <1>25,
       <1>26, <1>27, <1>28 DEF Next, EnsureActiveDay

\* The catalog and the finished archives agree.
LEMMA TransitionArchives == TransitionInv /\ [Next]_vars => ArchivesOK'
  <1> SUFFICES ASSUME TransitionInv, [Next]_vars PROVE ArchivesOK'
    OBVIOUS
  <1> USE DayAssumption
      DEF TransitionInv, diskVars, liveVars, pendingVars, archiveVars, procVars, worldVars,
          Days, MaybeDay, NoDay, Running, Journaled, SessionDone, WorkspaceDone, InitDone,
          ArchivesOK, ActiveRoots, NoJournal, JournalOK, InOrder, TypeOK, Time, TurnOK,
          Contents, Current, Position, Unjournaled, Resuming, Goal, Initialising
  <1>1. CASE Midnight
    BY <1>1 DEF Midnight
  <1>2. CASE Begin
    BY <1>2 DEF Begin, Goto
  <1>3. CASE Enter
    BY <1>3 DEF Enter
  <1>4. CASE Leave
    BY <1>4 DEF Leave
  <1>5. CASE Fail
    BY <1>5 DEF Fail
  <1>6. CASE Crash
    BY <1>6 DEF Crash
  <1>7. CASE Restart
    BY <1>7 DEF Restart, Goto
  <1>8. CASE Look
    BY <1>8 DEF Look, StepUnchanged
  <1>9. CASE Claim
    BY <1>9 DEF Claim, Goto, StepUnchanged
  <1>10. CASE InitSession
    BY <1>10 DEF InitSession, Goto, StepUnchanged
  <1>11. CASE InitMemory
    BY <1>11 DEF InitMemory, Goto, StepUnchanged
  <1>12. CASE InitWorkspace
    BY <1>12 DEF InitWorkspace, StepUnchanged
  <1>13. CASE Choose
    BY <1>13 DEF Choose, Finish
  <1>14. CASE Start
    BY <1>14 DEF Start, Goto, StepUnchanged
  <1>15. CASE SaveJournal
    BY <1>15 DEF SaveJournal, Goto, StepUnchanged
  <1>16. CASE MoveSession
    BY <1>16 DEF MoveSession, StepUnchanged
  <1>17. CASE SaveSession
    BY <1>17 DEF SaveSession, Journal, Goto, StepUnchanged
  <1>18. CASE MoveTrash
    BY <1>18 DEF MoveTrash, StepUnchanged
  <1>19. CASE MoveWorkspace
    BY <1>19 DEF MoveWorkspace, Goto
  <1>20. CASE SaveWorkspace
    BY <1>20 DEF SaveWorkspace, Journal, Goto, StepUnchanged
  <1>21. CASE SaveInit
    BY <1>21 DEF SaveInit, Journal, Goto, StepUnchanged
  <1>22. CASE Record
    BY <1>22 DEF Record, Goto, StepUnchanged
  <1>23. ASSUME Finalize PROVE ArchivesOK'
    <2> DEFINE new == [name |-> to, day |-> from, facts |-> held]
    <2>1. /\ archives' = archives \cup {new} /\ catalog' = catalog /\ Current' = to
          /\ Current = from /\ from < to /\ from \in Days /\ to \in Days
          /\ catalog[from] = to /\ ~Journaled'
      BY <1>23 DEF Finalize, Finish
    <2>2. new.name = to /\ new.day = from /\ new.facts = held
      OBVIOUS
    <2>3. \A p \in Parts : held[p] \subseteq {from}
      BY <1>23 DEF Finalize
    <2>4. \A a \in archives :
            a.name \in Days /\ a.day \in Days /\ a.day < a.name /\ a.name <= from
      BY <2>1
    <2> HIDE DEF new
    <2>5. ASSUME NEW a \in archives'
          PROVE /\ a.day < a.name /\ a.name <= Current' /\ catalog'[a.day] = a.name
                /\ \A p \in Parts : a.facts[p] \subseteq {a.day}
      <3>1. CASE a = new
        BY <3>1, <2>1, <2>2, <2>3
      <3>2. CASE a \in archives
        BY <3>2, <2>1, <2>4
      <3> QED
        BY <3>1, <3>2, <2>1
    <2>6. \A a, b \in archives' : a.name = b.name => a = b
      BY <2>1, <2>2, <2>4
    <2>7. ASSUME NEW d \in Days, catalog'[d] # NoDay
          PROVE \E a \in archives' : a.day = d /\ a.name = catalog'[d]
      <3>1. CASE d = from
        BY <3>1, <2>1, <2>2
      <3>2. CASE d # from
        BY <3>2, <2>1, <2>7
      <3> QED
        BY <3>1, <3>2
    <2> QED
      BY <2>5, <2>6, <2>7
  <1>24. ASSUME NEW p \in Parts, Work(p) PROVE ArchivesOK'
    BY <1>24 DEF Work
  <1>26. CASE Crowd
    BY <1>26 DEF Crowd
  <1>27. CASE Tidy
    BY <1>27 DEF Tidy
  <1>28. CASE RefuseCrowded
    BY <1>28 DEF RefuseCrowded, Goto
  <1>25. CASE UNCHANGED vars
    BY <1>25 DEF vars
  <1> QED
    BY <1>1, <1>2, <1>3, <1>4, <1>5, <1>6, <1>7, <1>8, <1>9, <1>10, <1>11, <1>12, <1>13,
       <1>14, <1>15, <1>16, <1>17, <1>18, <1>19, <1>20, <1>21, <1>22, <1>23, <1>24, <1>25,
       <1>26, <1>27, <1>28 DEF Next, EnsureActiveDay

\* No move loses or invents a fact.
LEMMA TransitionFacts == TransitionInv /\ [Next]_vars => FactsOK'
  <1> SUFFICES ASSUME TransitionInv, [Next]_vars PROVE FactsOK'
    OBVIOUS
  <1> USE DayAssumption
      DEF TransitionInv, diskVars, liveVars, pendingVars, archiveVars, procVars, worldVars,
          Days, MaybeDay, NoDay, Running, Journaled, SessionDone, WorkspaceDone, InitDone,
          FactsOK, NoJournal, JournalOK, TypeOK, TurnOK, Contents, Nothing, Parts, Position,
          Unjournaled, Resuming, Goal, Initialising
  <1>1. CASE Midnight
    BY <1>1 DEF Midnight
  <1>2. CASE Begin
    BY <1>2 DEF Begin, Goto
  <1>3. CASE Enter
    BY <1>3 DEF Enter
  <1>4. CASE Leave
    BY <1>4 DEF Leave
  <1>5. CASE Fail
    BY <1>5 DEF Fail
  <1>6. CASE Crash
    BY <1>6 DEF Crash
  <1>7. CASE Restart
    BY <1>7 DEF Restart, Goto
  <1>8. CASE Look
    BY <1>8 DEF Look, StepUnchanged
  <1>9. CASE Claim
    BY <1>9 DEF Claim, Goto, StepUnchanged
  <1>10. CASE InitSession
    BY <1>10 DEF InitSession, Goto, StepUnchanged
  <1>11. CASE InitMemory
    BY <1>11 DEF InitMemory, Goto, StepUnchanged
  <1>12. CASE InitWorkspace
    BY <1>12 DEF InitWorkspace, StepUnchanged
  <1>13. CASE Choose
    BY <1>13 DEF Choose, Finish
  <1>14. CASE Start
    BY <1>14 DEF Start, Goto, StepUnchanged
  <1>15. CASE SaveJournal
    BY <1>15 DEF SaveJournal, Goto, StepUnchanged
  <1>16. CASE MoveSession
    BY <1>16 DEF MoveSession, StepUnchanged
  <1>17. CASE SaveSession
    BY <1>17 DEF SaveSession, Journal, Goto, StepUnchanged
  <1>18. ASSUME MoveTrash PROVE FactsOK'
    <2>1. CASE UNCHANGED <<live, held>>
      BY <1>18, <2>1 DEF MoveTrash, StepUnchanged
    <2>2. CASE /\ held' = [held EXCEPT !["trash"] = @ \cup live["trash"]]
               /\ live' = [live EXCEPT !["trash"] = {}]
      <3>1. \A p \in Parts : live'[p] \cup held'[p] = live[p] \cup held[p]
        BY <2>2
      <3> QED
        BY <1>18, <3>1 DEF MoveTrash, StepUnchanged
    <2> QED
      BY <1>18, <2>1, <2>2 DEF MoveTrash
  <1>19. CASE MoveWorkspace
    BY <1>19 DEF MoveWorkspace, Goto
  <1>20. CASE SaveWorkspace
    BY <1>20 DEF SaveWorkspace, Journal, Goto, StepUnchanged
  <1>21. CASE SaveInit
    BY <1>21 DEF SaveInit, Journal, Goto, StepUnchanged
  <1>22. CASE Record
    BY <1>22 DEF Record, Goto, StepUnchanged
  <1>23. ASSUME Finalize PROVE FactsOK'
    <2> DEFINE new == [name |-> to, day |-> from, facts |-> held]
    <2>1. /\ archives' = archives \cup {new} /\ written' = written /\ live' = live
          /\ \A p \in Parts : held'[p] = {}
      BY <1>23 DEF Finalize, Finish
    <2>2. new.facts = held
      OBVIOUS
    <2> HIDE DEF new
    <2> QED
      BY <2>1, <2>2
  <1>24. ASSUME NEW p \in Parts, Work(p) PROVE FactsOK'
    BY <1>24 DEF Work
  <1>26. CASE Crowd
    BY <1>26 DEF Crowd
  <1>27. CASE Tidy
    BY <1>27 DEF Tidy
  <1>28. CASE RefuseCrowded
    BY <1>28 DEF RefuseCrowded, Goto
  <1>25. CASE UNCHANGED vars
    BY <1>25 DEF vars
  <1> QED
    BY <1>1, <1>2, <1>3, <1>4, <1>5, <1>6, <1>7, <1>8, <1>9, <1>10, <1>11, <1>12, <1>13,
       <1>14, <1>15, <1>16, <1>17, <1>18, <1>19, <1>20, <1>21, <1>22, <1>23, <1>24, <1>25,
       <1>26, <1>27, <1>28 DEF Next, EnsureActiveDay

\* Every state the rollover, failures, crashes and Turns reach is one of those
\* TransitionInv describes.
THEOREM TransitionInvariant == Spec => []TransitionInv
  <1>1. TransitionInv /\ [Next]_vars => TransitionInv'
    BY TransitionTypes, TransitionNoJournal, TransitionJournal, TransitionRoots,
       TransitionPosition, TransitionGoal, TransitionTime, TransitionTurn,
       TransitionArchives, TransitionFacts DEF TransitionInv
  <1> QED
    BY TransitionInit, <1>1, PTL DEF Spec

\* The type invariant, for any number of days, failures and crashes.
THEOREM TransitionTypeOK == Spec => []TypeOK
  <1>1. TransitionInv => TypeOK
    BY DEF TransitionInv
  <1> QED
    BY TransitionInvariant, <1>1, PTL

\* A Turn whose rollover has returned works on one whole day.
THEOREM TransitionOneDay == Spec => []TurnsWorkOnOneDay
  <1>1. TransitionInv => TurnsWorkOnOneDay
    BY DEF TransitionInv, TurnOK, TurnsWorkOnOneDay
  <1> QED
    BY TransitionInvariant, <1>1, PTL

\* Facts stay with their day, in one place, whatever fails on the way.
THEOREM TransitionFactsKept == Spec => []FactsKeptByDay
  <1>1. ASSUME TransitionInv PROVE FactsKeptByDay
    <2> USE <1>1, DayAssumption
        DEF TransitionInv, TypeOK, NoJournal, JournalOK, ArchivesOK, FactsOK, Journaled,
            Current, Contents, Nothing, Days, NoDay, MaybeDay
    <2> SUFFICES ASSUME NEW p \in Parts
        PROVE /\ \A d \in live[p] : d \notin held[p]
              /\ \A d \in held[p] : d = from
              /\ \A a \in archives : a.facts[p] \subseteq {a.day} \ (live[p] \cup held[p])
              /\ \A d \in Days : <<p, d>> \in written =>
                   d \in live[p] \cup held[p] \cup UNION {a.facts[p] : a \in archives}
      BY DEF FactsKeptByDay
    <2>1. \A d \in live[p] : d \notin held[p]
      OBVIOUS
    <2>2. \A d \in held[p] : d = from
      OBVIOUS
    <2>3. ASSUME NEW a \in archives PROVE a.facts[p] \subseteq {a.day} \ (live[p] \cup held[p])
      <3>1. \A d \in live[p] \cup held[p] : d = Current
        OBVIOUS
      <3>2. a.day < Current /\ a.facts[p] \subseteq {a.day}
        BY DEF InOrder
      <3> QED
        BY <3>1, <3>2
    <2>4. ASSUME NEW d \in Days, <<p, d>> \in written
          PROVE d \in live[p] \cup held[p] \cup UNION {a.facts[p] : a \in archives}
      BY <2>4
    <2> QED
      BY <2>1, <2>2, <2>3, <2>4
  <1> QED
    BY TransitionInvariant, <1>1, PTL

\* The catalog always leads to the archive of the day.
THEOREM TransitionCatalog == Spec => []CatalogFindsArchives
  <1>1. ASSUME TransitionInv PROVE CatalogFindsArchives
    <2>1. \A a \in archives : catalog[a.day] = a.name
      BY <1>1 DEF TransitionInv, ArchivesOK
    <2>2. \A a, b \in archives : a.day = b.day \/ a.name = b.name => a = b
      BY <1>1, <2>1 DEF TransitionInv, ArchivesOK
    <2> QED
      BY <1>1, <2>1, <2>2 DEF TransitionInv, ArchivesOK, CatalogFindsArchives, Journaled
  <1> QED
    BY TransitionInvariant, <1>1, PTL

\* Only the reconciliation of a crowded Workspace refuses to go on: every other
\* state left behind can be resumed, and this one too once it is tidied up.
THEOREM TransitionRecovers == Spec => []OnlyCrowdingRefuses
  <1>1. ASSUME TransitionInv PROVE OnlyCrowdingRefuses
    <2> USE <1>1, DayAssumption
        DEF TransitionInv, TypeOK, NoJournal, JournalOK, ActiveRoots, Position, Goal, Time,
            InOrder, Journaled, SessionDone, WorkspaceDone, InitDone, Unjournaled,
            Resuming, Initialising, Running, Days, NoDay, MaybeDay
    <2>1. /\ pc = "look" /\ pending = "bare" => moved = {}
          /\ pc = "claim" => session = NoDay \/ workspace = NoDay \/ session = workspace
      OBVIOUS
    <2>2. /\ pc = "initSession" => session \in {NoDay, goal}
          /\ pc = "initMemory" => memory \in {NoDay, goal}
          /\ pc = "initWorkspace" =>
               workspace \in {NoDay, goal} /\ session = goal /\ memory = goal
          /\ pc = "choose" => goal <= target
      OBVIOUS
    <2>3. pc = "start" => \A a \in archives : a.name # target
      BY DEF ArchivesOK, Current
    <2>4. pc = "session" =>
            IF SessionDone \/ ("session" \in moved /\ session = NoDay)
              THEN memoryIn = from
              ELSE memory = from /\ session = from /\ "session" \notin moved
      OBVIOUS
    <2>5. /\ pc = "trash" /\ ArchivesDay =>
               /\ workspace = from /\ ~("trash" \in moved /\ trash)
               /\ "workspace" \notin moved /\ memoryIn = from /\ SessionDone
          /\ pc = "workspace" => "workspace" \notin moved /\ workspace = from
      BY DEF ArchivesDay
    <2>6. pc = "record" => catalog[from] \in {NoDay, to} /\ \A a \in archives : a.name # to
      BY DEF ArchivesOK, Current
    <2>7. pc = "finalize" => {"session", "workspace"} \subseteq moved
      OBVIOUS
    <2>8. CASE pc = "trash" /\ ArchivesDay /\ crowded
      <3>1. steps = {"session_archived"}
        BY <2>5, <2>8 DEF ArchivesDay, Steps
      <3> QED
        BY <2>5, <2>8, <3>1 DEF OnlyCrowdingRefuses
    <2>9. CASE ~(pc = "trash" /\ ArchivesDay /\ crowded)
      <3>1. ChecksPass
        BY <2>1, <2>2, <2>3, <2>4, <2>5, <2>6, <2>7, <2>9 DEF ChecksPass
      <3> QED
        BY <3>1 DEF OnlyCrowdingRefuses
    <2> QED
      BY <2>8, <2>9
  <1> QED
    BY TransitionInvariant, <1>1, PTL

(***************************************************************************)
(* The refinement: every step is a step of DayRollover or changes nothing  *)
(* of what it shows.                                                       *)
(***************************************************************************)
\* What is found through the catalog changes only with it or the archives.
LEMMA SameArchives ==
  ASSUME UNCHANGED <<archives, catalog>> PROVE UNCHANGED <<Archived, Shelf>>
  BY DEF Archived, Shelf, Found

\* The rename is the atomic rollover: it shows the whole closed day at once.
LEMMA FinalizeIsRollover ==
  ASSUME TransitionInv, Finalize PROVE Abs!Rollover(to)
  <1> USE DayAssumption
      DEF TransitionInv, TypeOK, NoJournal, JournalOK, ActiveRoots, Position, ArchivesOK,
          Journaled, SessionDone, WorkspaceDone, InitDone, Resuming, Days, NoDay, MaybeDay
  <1> DEFINE new == [name |-> to, day |-> from, facts |-> held]
  <1>1. /\ archives' = archives \cup {new} /\ catalog' = catalog /\ written' = written
        /\ Current' = to /\ Current = from /\ from < to /\ from \in Days /\ to \in Days
        /\ catalog[from] = to
        /\ \A p \in Parts : live[p] = {}
    BY DEF Finalize, Finish, Current, Parts, liveVars, worldVars
  <1>2. new.name = to /\ new.day = from /\ new.facts = held
    OBVIOUS
  <1>3. \A a \in archives : a.day \in Days /\ a.day # from
    BY <1>1 DEF Current
  <1>4. /\ FactsOK /\ written \subseteq Parts \X Days
        /\ \A a \in archives : \A p \in Parts : a.facts[p] \subseteq {a.day}
    OBVIOUS
  <1> HIDE DEF new, TransitionInv, TypeOK, NoJournal, JournalOK, ActiveRoots, Position,
               ArchivesOK, Days, MaybeDay
  <1>5. \A d \in Days : d = from => Found(d) = {} /\ Found(d)' = {new}
    BY <1>1, <1>2, <1>3 DEF Found
  <1>6. \A d \in Days \ {from} : Found(d)' = Found(d)
    BY <1>1, <1>2 DEF Found
  <1>7. Archived' = Archived \cup {from}
    BY <1>1, <1>5, <1>6 DEF Archived
  <1>8. ASSUME NEW w \in Parts \X Days
        PROVE w \in Shelf' <=> w \in Shelf \/ (w \in written /\ w[2] = from)
    <2>1. PICK p \in Parts, d \in Days : w = <<p, d>>
      OBVIOUS
    <2>2. CASE d # from
      BY <2>1, <2>2, <1>6 DEF Shelf
    <2>3. CASE d = from
      <3>1. w \in Shelf' <=> from \in held[p]
        BY <2>1, <2>3, <1>2, <1>5 DEF Shelf
      <3>2. w \notin Shelf
        BY <2>1, <2>3, <1>5 DEF Shelf
      <3>3. from \in held[p] => <<p, from>> \in written
        BY <1>4 DEF FactsOK
      <3>4. ASSUME <<p, from>> \in written PROVE from \in held[p]
        <4>1. live[p] = {} /\ \A a \in archives : a.facts[p] \subseteq {a.day} /\ a.day # from
          BY <1>1, <1>3, <1>4
        <4>2. from \in live[p] \cup held[p] \/ \E a \in archives : from \in a.facts[p]
          BY <1>1, <1>4, <3>4 DEF FactsOK
        <4> QED
          BY <4>1, <4>2
      <3> QED
        BY <3>1, <3>2, <3>3, <3>4, <2>1, <2>3
    <2> QED
      BY <2>2, <2>3
  <1>9. Shelf' = Shelf \cup {w \in written : w[2] = from}
    BY <1>4, <1>8 DEF Shelf
  <1> QED
    BY <1>1, <1>7, <1>9 DEF Abs!Rollover, Days

\* With every crash, failure and recovery the disk implements the atomic rollover.
THEOREM TransitionRefines == Spec => RolloverIsAtomic
  <1>1. Init => Abs!Init
    BY DayAssumption DEF Init, Abs!Init, Current, Archived, Shelf, Found
  <1>2. ASSUME TransitionInv, [Next]_vars PROVE [Abs!Next]_(Abs!vars)
    <2> USE <1>2, DayAssumption
        DEF TransitionInv, TypeOK, NoJournal, JournalOK, ActiveRoots, Position, Goal, TurnOK,
            Unjournaled, Resuming, Initialising, Journaled, WorkspaceDone, InitDone,
            Running, Days, NoDay, MaybeDay, Current, diskVars, liveVars, pendingVars,
            archiveVars, procVars, worldVars, StepUnchanged
    <2>1. ASSUME UNCHANGED <<archives, catalog, written>>, Current' = Current
          PROVE UNCHANGED Abs!vars
      BY <2>1, SameArchives DEF Abs!vars
    <2>2. CASE Midnight
      BY <2>1, <2>2 DEF Midnight
    <2>3. CASE Begin
      BY <2>1, <2>3 DEF Begin, Goto
    <2>4. CASE Enter
      BY <2>1, <2>4 DEF Enter
    <2>5. CASE Leave
      BY <2>1, <2>5 DEF Leave
    <2>6. CASE Fail
      BY <2>1, <2>6 DEF Fail
    <2>7. CASE Crash
      BY <2>1, <2>7 DEF Crash
    <2>8. CASE Restart
      BY <2>1, <2>8 DEF Restart, Goto
    <2>9. CASE Look
      BY <2>1, <2>9 DEF Look
    <2>10. CASE Claim
      BY <2>1, <2>10 DEF Claim, Goto
    <2>11. CASE InitMemory
      BY <2>1, <2>11 DEF InitMemory, Goto
    <2>12. CASE InitWorkspace
      BY <2>1, <2>12 DEF InitWorkspace
    <2>13. CASE Choose
      BY <2>1, <2>13 DEF Choose, Finish
    <2>14. CASE Start
      BY <2>1, <2>14 DEF Start, Goto
    <2>15. CASE SaveJournal
      BY <2>1, <2>15 DEF SaveJournal, Goto
    <2>16. CASE MoveSession
      BY <2>1, <2>16 DEF MoveSession
    <2>17. CASE SaveSession
      BY <2>1, <2>17 DEF SaveSession, Journal, Goto
    <2>18. CASE MoveTrash
      BY <2>1, <2>18 DEF MoveTrash
    <2>19. CASE MoveWorkspace
      BY <2>1, <2>19 DEF MoveWorkspace, Goto
    <2>25. CASE SaveWorkspace
      BY <2>1, <2>25 DEF SaveWorkspace, Journal, Goto
    <2>26. CASE SaveInit
      BY <2>1, <2>26 DEF SaveInit, Journal, Goto
    <2>27. CASE Crowd
      BY <2>1, <2>27 DEF Crowd
    <2>28. CASE Tidy
      BY <2>1, <2>28 DEF Tidy
    <2>29. CASE RefuseCrowded
      BY <2>1, <2>29 DEF RefuseCrowded, Goto
    <2>20. CASE InitSession
      <3>1. CASE Journaled \/ session = goal
        BY <2>1, <2>20, <3>1 DEF InitSession, Goto
      <3>2. CASE ~Journaled /\ session # goal
        <4>1. goal \in Days /\ Abs!Open(goal)
          BY <2>20, <3>2, SameArchives DEF InitSession, Goto, Abs!Open
        <4> QED
          BY <4>1 DEF Abs!Next
      <3> QED
        BY <3>1, <3>2
    <2>21. CASE Record
      <3>1. \A a \in archives : a.day # from
        BY <2>21 DEF Record, Goto, ArchivesOK
      <3>2. \A d \in Days : Found(d)' = Found(d)
        BY <2>21, <3>1 DEF Record, Goto, Found
      <3>3. UNCHANGED <<Archived, Shelf>>
        BY <3>2 DEF Archived, Shelf
      <3> QED
        BY <2>21, <3>3 DEF Record, Goto, Abs!vars
    <2>22. CASE Finalize
      <3>1. to \in Days
        BY <2>22 DEF Finalize
      <3> QED
        BY <2>22, <3>1, FinalizeIsRollover DEF Abs!Next
    <2>23. ASSUME NEW p \in Parts, Work(p) PROVE Abs!Write(p)
      BY <2>23, SameArchives DEF Work, Abs!Write
    <2>24. CASE UNCHANGED vars
      BY <2>1, <2>24 DEF vars
    <2> QED
      BY <2>2, <2>3, <2>4, <2>5, <2>6, <2>7, <2>8, <2>9, <2>10, <2>11, <2>12, <2>13,
         <2>14, <2>15, <2>16, <2>17, <2>18, <2>19, <2>25, <2>26, <2>20, <2>21, <2>22,
         <2>23, <2>24, <2>27, <2>28, <2>29 DEF Next, EnsureActiveDay, Abs!Next
  <1> QED
    BY <1>1, <1>2, TransitionInvariant, PTL DEF Spec, RolloverIsAtomic, Abs!Spec

==============================================================================
