------------------------ MODULE RuntimeHandleProofs ------------------------
(***************************************************************************)
(* Proofs about the generation handle (RuntimeHandle), for any sets of     *)
(* root, service and configuration tasks and any number of activations.    *)
(***************************************************************************)
EXTENDS RuntimeHandle, TLAPS

\* The initial state satisfies the inductive invariant.
LEMMA HandleInit == Init => HandleInv
  <1> SUFFICES ASSUME Init PROVE HandleInv
    OBVIOUS
  <1> USE TaskAssumption DEF Init, Tasks
  <1>1. \A t \in Tasks : pc[t] = "idle"
    OBVIOUS
  <1>2. 0 \in Generations
    BY DEF Generations
  <1>3. TypeOK
    BY <1>1, <1>2 DEF TypeOK, Activities, TurnActivities, Idle, ConfigActivation,
      RootPCs, ServicePCs, ConfigPCs, CloserPCs
  <1>4. LockOrder /\ LeaseOwners /\ ParkedTasks /\ Closing /\ Numbering /\ SourceOwners
    BY <1>1 DEF LockOrder, LeaseOwners, ParkedTasks, Closing, Numbering, SourceOwners
  <1>5. ActivityOwners
    BY <1>1 DEF ActivityOwners, Activating, HoldsActivity, Idle, ConfigActivation
  <1> QED
    BY <1>3, <1>4, <1>5 DEF HandleInv

\* Every step of every task keeps the types.
LEMMA HandleTypes == HandleInv /\ [Next]_vars => TypeOK'
  <1> SUFFICES ASSUME HandleInv, [Next]_vars PROVE TypeOK'
    OBVIOUS
  <1> USE TaskAssumption
      DEF HandleInv, TypeOK, Tasks, Activities, TurnActivities, Idle, ConfigActivation, RootPCs,
          ServicePCs, ConfigPCs, CloserPCs, HoldsActivity, Goto, Wake, Park
  <1>1. ASSUME NEW r \in Roots, RootStart(r) PROVE TypeOK'
    BY <1>1 DEF RootStart, handleVars, genVars
  <1>2. ASSUME NEW r \in Roots, RootActivity(r) PROVE TypeOK'
    BY <1>2 DEF RootActivity, RootLeave, LeasesOf, handleVars, genVars
  <1>3. ASSUME NEW r \in Roots, RootOuter(r) PROVE TypeOK'
    BY <1>3 DEF RootOuter, RootRead, RootLeave, LeasesOf, CanRead, handleVars, genVars
  <1>4. ASSUME NEW r \in Roots, RootDay(r) PROVE TypeOK'
    BY <1>4 DEF RootDay, RootLeave, LeasesOf, handleVars, genVars
  <1>5. ASSUME NEW r \in Roots, RootNested(r) PROVE TypeOK'
    BY <1>5 DEF RootNested, RootRead, RootLeave, LeasesOf, CanRead, handleVars, genVars
  <1>6. ASSUME NEW r \in Roots, RootTurn(r) PROVE TypeOK'
    BY <1>6 DEF RootTurn, RootLeave, LeasesOf, genVars
  <1>7. ASSUME NEW r \in Roots, RootRaise(r) PROVE TypeOK'
    BY <1>7 DEF RootRaise, RootLeave, LeasesOf, genVars
  <1>8. ASSUME NEW s \in Services, ServiceResolve(s) PROVE TypeOK'
    BY <1>8 DEF ServiceResolve, ServiceUnchanged, lockVars, genVars
  <1>9. ASSUME NEW s \in Services, ServiceEnter(s) PROVE TypeOK'
    BY <1>9 DEF ServiceEnter, CanRead, ServiceUnchanged, lockVars, genVars
  <1>10. ASSUME NEW s \in Services, ServiceExit(s) PROVE TypeOK'
    BY <1>10 DEF ServiceExit, LeasesOf, ServiceUnchanged, lockVars, genVars
  <1>11. ASSUME NEW s \in Services, ServiceCancel(s) PROVE TypeOK'
    BY <1>11 DEF ServiceCancel, ServiceUnchanged, lockVars, genVars
  <1>12. ASSUME NEW c \in Configs, ConfigStart(c) PROVE TypeOK'
    BY <1>12 DEF ConfigStart, ConfigIdle, ConfigUnchanged, genVars
  <1>13. ASSUME NEW c \in Configs, ConfigBuildFails(c) PROVE TypeOK'
    BY <1>13 DEF ConfigBuildFails, ConfigUnchanged, genVars
  <1>14. ASSUME NEW c \in Configs, ConfigBuilt(c) PROVE TypeOK'
    <2>1. made' \in Generations
      BY <1>14 DEF ConfigBuilt, HandleInv, Numbering, Generations
    <2> QED
      BY <1>14, <2>1 DEF ConfigBuilt, ConfigUnchanged, handleVars
  <1>15. ASSUME NEW c \in Configs, ConfigPause(c) PROVE TypeOK'
    BY <1>15 DEF ConfigPause, ConfigUnchanged, handleVars
  <1>16. ASSUME NEW c \in Configs, ConfigWrite(c) PROVE TypeOK'
    <2>1. writersWaiting' \subseteq writersWaiting \cup {c}
      BY <1>16 DEF ConfigWrite
    <2>2. writersWaiting' \subseteq Configs
      BY <2>1
    <2>3. writer' \in BOOLEAN
      BY <1>16 DEF ConfigWrite
    <2>4. waiting' \subseteq Tasks
      BY <1>16 DEF ConfigWrite
    <2>5. pc' \in [Tasks -> RootPCs \cup ServicePCs \cup ConfigPCs \cup CloserPCs]
      BY <1>16 DEF ConfigWrite
    <2> QED
      BY <1>16, <2>2, <2>3, <2>4, <2>5 DEF ConfigWrite, CanWrite, ConfigUnchanged, genVars
  <1>17. ASSUME NEW c \in Configs, ConfigStartSources(c) PROVE TypeOK'
    BY <1>17 DEF ConfigStartSources, Candidate, ConfigUnchanged, handleVars
  <1>18. ASSUME NEW c \in Configs, ConfigActivate(c) PROVE TypeOK'
    BY <1>18 DEF ConfigActivate, Candidate, ConfigUnchanged
  <1>19. ASSUME NEW c \in Configs, ConfigRetired(c) PROVE TypeOK'
    BY <1>19 DEF ConfigRetired, ConfigUnchanged, handleVars, genVars
  <1>20. ASSUME NEW c \in Configs, ConfigCommitFails(c) PROVE TypeOK'
    <2>1. writersWaiting' \subseteq writersWaiting \cup {c}
      BY <1>20 DEF ConfigCommitFails
    <2>2. writersWaiting' \subseteq Configs
      BY <2>1
    <2>3. writer' \in BOOLEAN
      BY <1>20 DEF ConfigCommitFails
    <2>4. waiting' \subseteq Tasks
      BY <1>20 DEF ConfigCommitFails
    <2>5. pc' \in [Tasks -> RootPCs \cup ServicePCs \cup ConfigPCs \cup CloserPCs]
      BY <1>20 DEF ConfigCommitFails
    <2> QED
      BY <1>20, <2>2, <2>3, <2>4, <2>5 DEF ConfigCommitFails, Candidate, ConfigUnchanged
  <1>21. ASSUME NEW c \in Configs, ConfigAbort(c) PROVE TypeOK'
    BY <1>21 DEF ConfigAbort, ConfigUnchanged
  <1>22. ASSUME NEW c \in Configs, ConfigResumed(c) PROVE TypeOK'
    BY <1>22 DEF ConfigResumed, ConfigUnchanged, handleVars
  <1>23. ASSUME CloseStart PROVE TypeOK'
    BY <1>23 DEF CloseStart, StopSources, CloserUnchanged
  <1>24. ASSUME CloseConfig PROVE TypeOK'
    BY <1>24 DEF CloseConfig, CloserUnchanged
  <1>25. ASSUME CloseHandle PROVE TypeOK'
    BY <1>25 DEF CloseHandle, CanWrite, StopSources, CloserUnchanged
  <1>26. ASSUME CloseRetry PROVE TypeOK'
    BY <1>26 DEF CloseRetry, CanWrite, StopSources, CloserUnchanged
  <1>27. ASSUME CloseDone PROVE TypeOK'
    BY <1>27 DEF CloseDone, CloserUnchanged
  <1>28. CASE UNCHANGED vars
    BY <1>28 DEF vars, handleVars, lockVars, genVars
  <1> QED
    BY <1>1, <1>2, <1>3, <1>4, <1>5, <1>6, <1>7,
       <1>8, <1>9, <1>10, <1>11,
       <1>12, <1>13, <1>14, <1>15, <1>16, <1>17, <1>18, <1>19, <1>20, <1>21, <1>22,
       <1>23, <1>24, <1>25, <1>26, <1>27, <1>28
    DEF Next, RootNext, ServiceNext, ConfigNext, CloserNext

\* Every step of every task preserves the inductive invariant.
LEMMA HandleNext == HandleInv /\ TypeOK' /\ [Next]_vars => HandleInv'
  <1> SUFFICES ASSUME HandleInv /\ TypeOK', [Next]_vars PROVE HandleInv'
    OBVIOUS
  <1> USE TaskAssumption
      DEF HandleInv, TypeOK, LockOrder, LeaseOwners, ActivityOwners, ParkedTasks,
          Closing, Numbering, SourceOwners, Tasks, Generations, Activities, TurnActivities, Idle,
          ConfigActivation, RootPCs, ServicePCs, ConfigPCs, CloserPCs, Activating,
          HoldsActivity, Goto, Wake, Park
  <1>1. ASSUME NEW r \in Roots, RootStart(r) PROVE HandleInv'
    BY <1>1 DEF RootStart, handleVars, genVars
  <1>2. ASSUME NEW r \in Roots, RootActivity(r) PROVE HandleInv'
    BY <1>2 DEF RootActivity, RootLeave, LeasesOf, handleVars, genVars
  <1>3. ASSUME NEW r \in Roots, RootOuter(r) PROVE HandleInv'
    BY <1>3 DEF RootOuter, RootRead, RootLeave, LeasesOf, CanRead, handleVars, genVars
  <1>4. ASSUME NEW r \in Roots, RootDay(r) PROVE HandleInv'
    BY <1>4 DEF RootDay, RootLeave, LeasesOf, handleVars, genVars
  <1>5. ASSUME NEW r \in Roots, RootNested(r) PROVE HandleInv'
    BY <1>5 DEF RootNested, RootRead, RootLeave, LeasesOf, CanRead, handleVars, genVars
  <1>6. ASSUME NEW r \in Roots, RootTurn(r) PROVE HandleInv'
    BY <1>6 DEF RootTurn, RootLeave, LeasesOf, genVars
  <1>7. ASSUME NEW r \in Roots, RootRaise(r) PROVE HandleInv'
    BY <1>7 DEF RootRaise, RootLeave, LeasesOf, genVars
  <1>8. ASSUME NEW s \in Services, ServiceResolve(s) PROVE HandleInv'
    BY <1>8 DEF ServiceResolve, ServiceUnchanged, lockVars, genVars
  <1>9. ASSUME NEW s \in Services, ServiceEnter(s) PROVE HandleInv'
    BY <1>9 DEF ServiceEnter, CanRead, ServiceUnchanged, lockVars, genVars
  <1>10. ASSUME NEW s \in Services, ServiceExit(s) PROVE HandleInv'
    BY <1>10 DEF ServiceExit, LeasesOf, ServiceUnchanged, lockVars, genVars
  <1>11. ASSUME NEW s \in Services, ServiceCancel(s) PROVE HandleInv'
    BY <1>11 DEF ServiceCancel, ServiceUnchanged, lockVars, genVars
  <1>12. ASSUME NEW c \in Configs, ConfigStart(c) PROVE HandleInv'
    BY <1>12 DEF ConfigStart, ConfigIdle, ConfigUnchanged, genVars
  <1>13. ASSUME NEW c \in Configs, ConfigBuildFails(c) PROVE HandleInv'
    BY <1>13 DEF ConfigBuildFails, ConfigUnchanged, genVars
  <1>14. ASSUME NEW c \in Configs, ConfigBuilt(c) PROVE HandleInv'
    <2> USE <1>14 DEF ConfigBuilt, ConfigUnchanged, handleVars
    <2>1. LockOrder'
      OBVIOUS
    <2>2. LeaseOwners'
      OBVIOUS
    <2>3. ActivityOwners'
      OBVIOUS
    <2>4. ParkedTasks'
      OBVIOUS
    <2>5. Closing'
      OBVIOUS
    <2>6. Numbering'
      OBVIOUS
    <2>7. SourceOwners'
      OBVIOUS
    <2> QED
      BY <2>1, <2>2, <2>3, <2>4, <2>5, <2>6, <2>7
  <1>15. ASSUME NEW c \in Configs, ConfigPause(c) PROVE HandleInv'
    BY <1>15 DEF ConfigPause, ConfigUnchanged, handleVars
  <1>16. ASSUME NEW c \in Configs, ConfigWrite(c) PROVE HandleInv'
    <2> USE <1>16 DEF ConfigWrite, CanWrite, ConfigUnchanged, genVars
    <2>1. LockOrder'
      OBVIOUS
    <2>2. LeaseOwners'
      OBVIOUS
    <2>3. ActivityOwners'
      OBVIOUS
    <2>4. ParkedTasks'
      OBVIOUS
    <2>5. Closing'
      OBVIOUS
    <2>6. Numbering'
      OBVIOUS
    <2>7. SourceOwners'
      OBVIOUS
    <2> QED
      BY <2>1, <2>2, <2>3, <2>4, <2>5, <2>6, <2>7
  <1>17. ASSUME NEW c \in Configs, ConfigStartSources(c) PROVE HandleInv'
    <2> USE <1>17 DEF ConfigStartSources, Candidate, ConfigUnchanged, handleVars
    <2>1. LockOrder'
      OBVIOUS
    <2>2. LeaseOwners'
      OBVIOUS
    <2>3. ActivityOwners'
      OBVIOUS
    <2>4. ParkedTasks'
      OBVIOUS
    <2>5. Closing'
      OBVIOUS
    <2>6. Numbering'
      OBVIOUS
    <2>7. SourceOwners'
      OBVIOUS
    <2> QED
      BY <2>1, <2>2, <2>3, <2>4, <2>5, <2>6, <2>7
  <1>18. ASSUME NEW c \in Configs, ConfigActivate(c) PROVE HandleInv'
    <2> USE <1>18 DEF ConfigActivate, Candidate, ConfigUnchanged
    <2>1. LockOrder'
      OBVIOUS
    <2>2. LeaseOwners'
      OBVIOUS
    <2>3. ActivityOwners'
      OBVIOUS
    <2>4. ParkedTasks'
      OBVIOUS
    <2>5. Closing'
      OBVIOUS
    <2>6. Numbering'
      OBVIOUS
    <2>7. SourceOwners'
      OBVIOUS
    <2> QED
      BY <2>1, <2>2, <2>3, <2>4, <2>5, <2>6, <2>7
  <1>19. ASSUME NEW c \in Configs, ConfigRetired(c) PROVE HandleInv'
    BY <1>19 DEF ConfigRetired, ConfigUnchanged, handleVars, genVars
  <1>20. ASSUME NEW c \in Configs, ConfigCommitFails(c) PROVE HandleInv'
    <2> USE <1>20 DEF ConfigCommitFails, Candidate, ConfigUnchanged
    <2>1. LockOrder'
      OBVIOUS
    <2>2. LeaseOwners'
      OBVIOUS
    <2>3. ActivityOwners'
      OBVIOUS
    <2>4. ParkedTasks'
      OBVIOUS
    <2>5. Closing'
      OBVIOUS
    <2>6. Numbering'
      OBVIOUS
    <2>7. SourceOwners'
      OBVIOUS
    <2> QED
      BY <2>1, <2>2, <2>3, <2>4, <2>5, <2>6, <2>7
  <1>21. ASSUME NEW c \in Configs, ConfigAbort(c) PROVE HandleInv'
    BY <1>21 DEF ConfigAbort, ConfigUnchanged
  <1>22. ASSUME NEW c \in Configs, ConfigResumed(c) PROVE HandleInv'
    <2> USE <1>22 DEF ConfigResumed, ConfigUnchanged, handleVars
    <2>1. LockOrder'
      OBVIOUS
    <2>2. LeaseOwners'
      OBVIOUS
    <2>3. ActivityOwners'
      OBVIOUS
    <2>4. ParkedTasks'
      OBVIOUS
    <2>5. Closing'
      OBVIOUS
    <2>6. Numbering'
      OBVIOUS
    <2>7. SourceOwners'
      OBVIOUS
    <2> QED
      BY <2>1, <2>2, <2>3, <2>4, <2>5, <2>6, <2>7
  <1>23. ASSUME CloseStart PROVE HandleInv'
    <2> USE <1>23 DEF CloseStart, StopSources, CloserUnchanged
    <2>1. LockOrder'
      OBVIOUS
    <2>2. LeaseOwners'
      OBVIOUS
    <2>3. ActivityOwners'
      OBVIOUS
    <2>4. ParkedTasks'
      OBVIOUS
    <2>5. Closing'
      OBVIOUS
    <2>6. Numbering'
      OBVIOUS
    <2>7. SourceOwners'
      OBVIOUS
    <2> QED
      BY <2>1, <2>2, <2>3, <2>4, <2>5, <2>6, <2>7
  <1>24. ASSUME CloseConfig PROVE HandleInv'
    BY <1>24 DEF CloseConfig, CloserUnchanged
  <1>25. ASSUME CloseHandle PROVE HandleInv'
    <2> USE <1>25 DEF CloseHandle, CanWrite, StopSources, CloserUnchanged
    <2>1. LockOrder'
      OBVIOUS
    <2>2. LeaseOwners'
      OBVIOUS
    <2>3. ActivityOwners'
      OBVIOUS
    <2>4. ParkedTasks'
      OBVIOUS
    <2>5. Closing'
      OBVIOUS
    <2>6. Numbering'
      OBVIOUS
    <2>7. SourceOwners'
      OBVIOUS
    <2> QED
      BY <2>1, <2>2, <2>3, <2>4, <2>5, <2>6, <2>7
  <1>26. ASSUME CloseRetry PROVE HandleInv'
    <2> USE <1>26 DEF CloseRetry, CanWrite, StopSources, CloserUnchanged
    <2>1. LockOrder'
      OBVIOUS
    <2>2. LeaseOwners'
      OBVIOUS
    <2>3. ActivityOwners'
      OBVIOUS
    <2>4. ParkedTasks'
      OBVIOUS
    <2>5. Closing'
      OBVIOUS
    <2>6. Numbering'
      OBVIOUS
    <2>7. SourceOwners'
      OBVIOUS
    <2> QED
      BY <2>1, <2>2, <2>3, <2>4, <2>5, <2>6, <2>7
  <1>27. ASSUME CloseDone PROVE HandleInv'
    BY <1>27 DEF CloseDone, CloserUnchanged
  <1>28. CASE UNCHANGED vars
    BY <1>28 DEF vars, handleVars, lockVars, genVars
  <1> QED
    BY <1>1, <1>2, <1>3, <1>4, <1>5, <1>6, <1>7,
       <1>8, <1>9, <1>10, <1>11,
       <1>12, <1>13, <1>14, <1>15, <1>16, <1>17, <1>18, <1>19, <1>20, <1>21, <1>22,
       <1>23, <1>24, <1>25, <1>26, <1>27, <1>28
    DEF Next, RootNext, ServiceNext, ConfigNext, CloserNext

\* The inductive invariant holds in every reachable state, whatever the tasks
\* interleave to.
THEOREM HandleInvariant == Spec => []HandleInv
  <1>1. Init => HandleInv
    BY HandleInit
  <1>2. HandleInv /\ [Next]_vars => HandleInv'
    BY HandleTypes, HandleNext
  <1> QED
    BY <1>1, <1>2, PTL DEF Spec

\* The variables keep their types (RuntimeHandle's fields and the tasks' state).
THEOREM HandleTypeOK == Spec => []TypeOK
  <1>1. HandleInv => TypeOK
    BY DEF HandleInv
  <1> QED
    BY <1>1, HandleInvariant, PTL

\* _acquire_reader, _acquire_writer, activate and close never let a generation
\* be swapped or closed under a read lease.
THEOREM HandleLeasesLive == Spec => []LeasedGenerationIsLive
  <1>1. HandleInv => LeasedGenerationIsLive
    BY DEF HandleInv, LeasedGenerationIsLive, LeaseOwners, ActivityOwners, Closing, Numbering,
      Activating
  <1> QED
    BY <1>1, HandleInvariant, PTL

\* A task parked in _acquire_reader, _acquire_activity or _acquire_writer holds
\* no read lease, so the nested leases of the scheduler cannot deadlock.
THEOREM HandleWaiters == Spec => []WaitersHoldNoLease
  <1>1. HandleInv => WaitersHoldNoLease
    BY TaskAssumption
    DEF HandleInv, TypeOK, Tasks, WaitersHoldNoLease, LeasesOf, LeaseOwners, ParkedTasks
  <1> QED
    BY <1>1, HandleInvariant, PTL

\* set_activity and fail_activation only ever reset the caller's own activity.
THEOREM HandleActivity == Spec => []ActivityHasItsOwner
  <1>1. HandleInv => ActivityHasItsOwner
    BY DEF HandleInv, ActivityHasItsOwner, ActivityOwners, LockOrder, HoldsActivity, Activating
  <1> QED
    BY <1>1, HandleInvariant, PTL

\* Pausing, starting, resuming and closing sources in the order of commit(),
\* abort() and close() never lets two generations publish.
THEOREM HandleSources == Spec => []OneGenerationPublishes
  <1>1. HandleInv => OneGenerationPublishes
    BY DEF HandleInv, OneGenerationPublishes, SourceOwners, Numbering
  <1> QED
    BY <1>1, HandleInvariant, PTL

\* AgentRuntime.close returns in a state in which nothing uses or publishes for
\* a generation.
THEOREM HandleClosed == Spec => []ClosedIsQuiet
  <1>1. HandleInv => ClosedIsQuiet
    BY TaskAssumption DEF HandleInv, ClosedIsQuiet, Closing, SourceOwners, LeaseOwners, LockOrder
  <1> QED
    BY <1>1, HandleInvariant, PTL

\* activate() is the only step that publishes a generation, and it does so in
\* an exclusive write lease with no root Turn in progress.
THEOREM HandleGenerationPinned == Spec => GenerationPinned
  <1>1. HandleInv /\ [Next]_vars =>
          [generation' # generation =>
             /\ writer /\ leases = {}
             /\ \A r \in Roots : ~HoldsActivity(r)
             /\ generation' > generation /\ generation' \notin retired]_vars
    <2> SUFFICES ASSUME HandleInv, Next, generation' # generation
                 PROVE  /\ writer /\ leases = {}
                        /\ \A r \in Roots : ~HoldsActivity(r)
                        /\ generation' > generation /\ generation' \notin retired
      OBVIOUS
    <2>1. PICK c \in Configs : ConfigActivate(c)
      BY DEF Next, RootNext, ServiceNext, ConfigNext, CloserNext, RootStart, RootActivity,
        RootOuter, RootRead, RootDay, RootNested, RootTurn, RootRaise, RootLeave,
        ServiceResolve, ServiceEnter, ServiceExit, ServiceCancel, ServiceUnchanged,
        ConfigStart, ConfigBuildFails, ConfigBuilt, ConfigPause, ConfigWrite,
        ConfigStartSources, ConfigRetired, ConfigCommitFails, ConfigAbort, ConfigResumed,
        CloseStart, CloseConfig, CloseHandle, CloseRetry, CloseDone, CloserUnchanged,
        handleVars
    <2>2. activity = ConfigActivation /\ leases = {}
      BY <2>1 DEF ConfigActivate, HandleInv, ActivityOwners, Activating
    <2>3. \A r \in Roots : ~HoldsActivity(r)
      BY <2>2 DEF HandleInv, TypeOK, ActivityOwners, TurnActivities, ConfigActivation
    <2>4. writer
      BY <2>1 DEF ConfigActivate, HandleInv, LeaseOwners, Activating
    <2> QED
      BY <2>1, <2>2, <2>3, <2>4
      DEF ConfigActivate, Candidate, HandleInv, TypeOK, Numbering, Generations
  <1> QED
    BY <1>1, HandleInvariant, PTL DEF GenerationPinned, Spec

==============================================================================
