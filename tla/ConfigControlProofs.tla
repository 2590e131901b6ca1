------------------------- MODULE ConfigControlProofs -------------------------
(***************************************************************************)
(* Proofs about ConfigControl, for any documents, presets, calls, edits,   *)
(* failures and crashes.                                                   *)
(***************************************************************************)
EXTENDS ConfigControl, SequenceTheorems, TLAPS

(***************************************************************************)
(* The inductive invariant: who may be where.                              *)
(***************************************************************************)
\* An operation under way has a holder, and a preset to apply still exists.
Held ==
  /\ phase # "free" => up /\ holder \in Callers
  /\ phase \notin {"free", "reading"} => ~Missing

\* The handle is held exactly from the building of a generation to its fate.
Handle ==
  /\ activating => /\ Activates /\ ~root /\ phase \in
                        {"building", "staging", "writing", "undoing", "pausing",
                         "swapping", "aborting"}
  /\ phase \in {"building", "pausing", "swapping"} => activating
  /\ phase \in {"staging", "writing"} /\ Activates => activating

\* No root outlives the process.
Down == ~up => ~root

\* What is served, what is published, and whether its inputs run.
Served ==
  /\ sources = "paused" => phase \in {"swapping", "aborting"}
  /\ up /\ phase # "publishing" => active = serving
  /\ phase = "publishing" => serving = candidate
  /\ receipt => phase \in {"pausing", "swapping", "aborting", "undoing",
                           "publishing"}
  /\ phase = "undoing" /\ receipt => ~activating

ConfigInv == TypeOK /\ Held /\ Handle /\ Down /\ Served

----------------------------------------------------------------------------
(* The operators.                                                          *)

\* A request that is not missing its preset changes documents to values.
LEMMA WantedType ==
  ASSUME TypeOK, holder \in Callers, ~Missing
  PROVE  /\ DOMAIN Wanted(Mine) \subseteq Docs
         /\ \A d \in DOMAIN Wanted(Mine) : Wanted(Mine)[d] \in Values
  <1>0. Mine \in Requests
    BY DEF TypeOK, Mine
  <1>1. CASE Mine.kind \in {"patch", "apply"}
    <2>1. Wanted(Mine) = [d \in Mine.docs |-> Mine.value]
      BY <1>1 DEF Wanted
    <2>2. Mine.docs \subseteq Docs /\ Mine.value \in Values
      BY <1>0, <1>1, ConfigAssumption
    <2> QED
      BY <2>1, <2>2
  <1>2. CASE Mine.kind = "preset"
    <2>1. Wanted(Mine) = presets[Mine.id]
      BY <1>2 DEF Wanted
    <2>2. Mine.id \in Presets
      BY <1>0, <1>2, ConfigAssumption
    <2>3. presets[Mine.id] \in Definitions
      BY <1>2, <2>2 DEF TypeOK, Missing
    <2> QED
      BY <2>1, <2>3 DEF Definitions
  <1>3. CASE Mine.kind \notin {"patch", "apply", "preset"}
    <2>1. Wanted(Mine) = [d \in {} |-> First]
      BY <1>3 DEF Wanted
    <2> QED
      BY <2>1
  <1> QED
    BY <1>1, <1>2, <1>3

\* Laying values over an environment makes an environment.
LEMMA OverlaidType ==
  ASSUME NEW env \in Environments, NEW changes,
         \A d \in DOMAIN changes : changes[d] \in Values
  PROVE  Overlaid(env, changes) \in Environments
  <1> SUFFICES ASSUME NEW d \in Docs
               PROVE  Overlaid(env, changes)[d] \in Content
    BY DEF Overlaid, Environments
  <1>1. env[d] \in Content
    BY DEF Environments
  <1>2. CASE d \in DOMAIN changes
    <2>1. Overlaid(env, changes)[d] = [env[d] EXCEPT !.own = changes[d]]
      BY <1>2 DEF Overlaid
    <2>2. changes[d] \in Values
      BY <1>2
    <2> QED
      BY <1>1, <2>1, <2>2 DEF Content
  <1>3. CASE d \notin DOMAIN changes
    BY <1>1, <1>3 DEF Overlaid
  <1> QED
    BY <1>2, <1>3

\* The initial environment is one.
LEMMA StartType == Start \in Environments
  BY ConfigAssumption DEF Start, Environments, Content

\* A removed waiter leaves a queue of callers.
LEMMA WithoutType ==
  ASSUME NEW q \in Seq(Callers), NEW i \in DOMAIN q
  PROVE  SubSeq(q, 1, i - 1) \o SubSeq(q, i + 1, Len(q)) \in Seq(Callers)
  <1>1. i \in 1..Len(q)
    BY LenProperties
  <1>2. SubSeq(q, 1, i - 1) \in Seq(Callers)
    BY <1>1, SubSeqProperties
  <1>3. SubSeq(q, i + 1, Len(q)) \in Seq(Callers)
    BY <1>1, SubSeqProperties
  <1> QED
    BY <1>2, <1>3, ConcatProperties

----------------------------------------------------------------------------
(* Types.                                                                  *)

\* The controller starts in the inductive invariant.
LEMMA ConfigInit == Init => ConfigInv
  <1> SUFFICES ASSUME Init PROVE ConfigInv
    OBVIOUS
  <1>1. TypeOK
    <2>1. queue \in Seq(Callers) /\ replaced \in Seq(Docs)
      BY DEF Init
    <2>2. presets \in [Presets -> Definitions \cup {NoPreset}]
      BY DEF Init
    <2>3. disk \in Environments /\ environment \in Environments
          /\ active \in Environments /\ serving \in Environments
          /\ candidate \in Environments /\ backup \in Environments
          /\ expected \in Environments
      BY StartType DEF Init
    <2>4. call \in [Callers -> {"none", "waiting"} \cup Answers]
          /\ request \in [Callers -> Requests]
          /\ cancelled \in [Callers -> BOOLEAN]
      BY DEF Init
    <2>5. edits \in 0..MaxEdits /\ faults \in 0..MaxFaults
          /\ crashes \in 0..MaxCrashes
      BY ConfigAssumption DEF Init
    <2> QED
      BY <2>1, <2>2, <2>3, <2>4, <2>5 DEF Init, TypeOK, Phases
  <1>2. Held /\ Handle /\ Down /\ Served
    BY DEF Init, Held, Handle, Down, Served
  <1> QED
    BY <1>1, <1>2 DEF ConfigInv

\* A request that is forgotten leaves some request.
LEMMA ForgottenType ==
  ASSUME TypeOK, NEW c \in Callers
  PROVE  Forgotten \in Requests
  <1>1. request[c] \in Requests
    BY DEF TypeOK
  <1> QED
    BY <1>1 DEF Forgotten

\* An answer releases the lock and forgets the operation's locals.
LEMMA ReleaseTypes ==
  ASSUME TypeOK, holder \in Callers, NEW answer \in Answers, Release(answer)
  PROVE  /\ call' \in [Callers -> {"none", "waiting"} \cup Answers]
         /\ request' \in [Callers -> Requests]
         /\ cancelled' \in [Callers -> BOOLEAN]
         /\ queue' \in Seq(Callers) /\ holder' \in Callers \cup {Nobody}
         /\ phase' \in Phases /\ up' \in BOOLEAN
         /\ candidate' \in Environments /\ todo' \subseteq Docs
         /\ replaced' \in Seq(Docs) /\ backup' \in Environments
         /\ receipt' \in BOOLEAN
  <1>1. call' \in [Callers -> {"none", "waiting"} \cup Answers]
    BY DEF Release, TypeOK, Answers
  <1>2. candidate' \in Environments /\ backup' \in Environments
    BY StartType DEF Release, Forget
  <1>3. replaced' \in Seq(Docs) /\ todo' \subseteq Docs /\ receipt' \in BOOLEAN
    <2>1. replaced' = <<>> /\ todo' = {} /\ receipt' = FALSE
      BY DEF Release, Forget
    <2> QED
      BY <2>1, EmptySeq
  <1>4. /\ holder' = Nobody /\ phase' = "free"
        /\ UNCHANGED <<queue, up>>
    BY DEF Release
  <1>5. request' \in [Callers -> Requests] /\ cancelled' \in [Callers -> BOOLEAN]
        /\ queue' \in Seq(Callers) /\ up' \in BOOLEAN
    <2>1. Forgotten \in Requests
      BY ForgottenType
    <2> QED
      BY <1>4, <2>1 DEF Release, TypeOK
  <1> QED
    BY <1>1, <1>2, <1>3, <1>4, <1>5 DEF Phases

\* Every step of the lock keeps the types.
LEMMA LockTypes ==
  ASSUME ConfigInv, NEW c \in Callers, Ask(c) \/ Cancel(c) \/ Acquire
  PROVE  TypeOK'
  <1>0. TypeOK
    BY DEF ConfigInv
  <1>1. CASE Ask(c)
    <2>1. queue' \in Seq(Callers)
      BY <1>0, <1>1 DEF Ask, TypeOK
    <2>2. call' \in [Callers -> {"none", "waiting"} \cup Answers]
      BY <1>0, <1>1 DEF Ask, TypeOK
    <2> QED
      BY <1>0, <1>1, <2>1, <2>2 DEF Ask, TypeOK, files, runtime, transaction,
         ghosts, history, counters
  <1>2. CASE Cancel(c)
    <2>1. queue' \in Seq(Callers)
      <3>1. \/ queue' = queue
            \/ \E i \in DOMAIN queue :
                 queue' = SubSeq(queue, 1, i - 1) \o SubSeq(queue, i + 1, Len(queue))
        BY <1>2 DEF Cancel
      <3>2. queue \in Seq(Callers)
        BY <1>0 DEF TypeOK
      <3> QED
        BY <3>1, <3>2, WithoutType
    <2>2. call' \in [Callers -> {"none", "waiting"} \cup Answers]
      BY <1>0, <1>2 DEF Cancel, TypeOK, Answers
    <2>3. cancelled' \in [Callers -> BOOLEAN] /\ holder' \in Callers \cup {Nobody}
      BY <1>0, <1>2 DEF Cancel, TypeOK
    <2> QED
      BY <1>0, <1>2, <2>1, <2>2, <2>3 DEF Cancel, TypeOK, world, files, runtime,
         controller, transaction, ghosts, history, counters
  <1>3. CASE Acquire
    <2>1. queue' \in Seq(Callers) /\ holder' \in Callers \cup {Nobody}
      BY <1>0, <1>3, HeadTailProperties DEF Acquire, TypeOK
    <2> QED
      BY <1>0, <1>3, <2>1 DEF Acquire, TypeOK, world, files, runtime, controller,
         calls, transaction, ghosts, history, counters
  <1> QED
    BY <1>1, <1>2, <1>3

\* Every step before the transaction keeps the types.
LEMMA EntryTypes ==
  ASSUME ConfigInv, holder \in Callers,
         Refuse \/ Close \/ Begin \/ RecordPreset \/ RecordFails \/ Read \/ Reject
  PROVE  TypeOK'
  <1>0. TypeOK
    BY DEF ConfigInv
  <1> USE DEF TypeOK, world, files, runtime, controller, calls, lock, transaction,
              ghosts, history, counters
  <1>1. ASSUME NEW answer \in {"ok", "failed"}, Release(answer),
               UNCHANGED <<disk, runtime, controller, ghosts>>,
               presets' \in [Presets -> Definitions \cup {NoPreset}]
        PROVE  TypeOK'
    BY <1>0, <1>1, ReleaseTypes DEF Answers
  <1>2. CASE Refuse \/ Close \/ RecordFails \/ Reject
    BY <1>0, <1>1, <1>2 DEF Refuse, Close, RecordFails, Reject
  <1>3. CASE Begin
    BY <1>0, <1>3 DEF Begin, Phases
  <1>4. CASE RecordPreset
    <2>1. Mine \in Requests
      BY <1>0 DEF Mine
    <2>2. Mine.id \in Presets
      BY <1>4, <2>1, ConfigAssumption DEF RecordPreset
    <2>3. [d \in Docs |-> disk[d].own] \in Definitions
      BY <1>0 DEF Definitions, Environments, Content
    <2>4. presets' \in [Presets -> Definitions \cup {NoPreset}]
      BY <1>0, <1>4, <2>2, <2>3 DEF RecordPreset
    <2>5. Release("ok") /\ UNCHANGED <<disk, runtime, controller, ghosts>>
      BY <1>4 DEF RecordPreset
    <2> QED
      BY <1>1, <2>4, <2>5
  <1>5. CASE Read
    <2>1. DOMAIN Wanted(Mine) \subseteq Docs
          /\ \A d \in DOMAIN Wanted(Mine) : Wanted(Mine)[d] \in Values
      BY <1>0, <1>5, WantedType DEF Read
    <2>2. Overlaid(disk, Wanted(Mine)) \in Environments
      BY <1>0, <2>1, OverlaidType
    <2>3. candidate' \in Environments /\ todo' \subseteq Docs
      BY <1>5, <2>1, <2>2 DEF Read, Source
    <2>4. phase' \in Phases /\ activating' \in BOOLEAN
      BY <1>0, <1>5 DEF Read, Phases
    <2>5. replaced' \in Seq(Docs) /\ receipt' \in BOOLEAN
      BY <1>5, EmptySeq DEF Read
    <2> QED
      BY <1>0, <1>5, <2>3, <2>4, <2>5 DEF Read
  <1> QED
    BY <1>2, <1>3, <1>4, <1>5

\* Every step of the transaction keeps the types.
LEMMA TransactionTypes ==
  ASSUME ConfigInv, holder \in Callers, Transaction
  PROVE  TypeOK'
  <1>0. TypeOK
    BY DEF ConfigInv
  <1> USE DEF TypeOK, world, files, runtime, controller, calls, lock, transaction,
              ghosts, history, counters
  <1>1. CASE Stage
    BY <1>0, <1>1 DEF Stage, Phases
  <1>2. CASE Replace
    <2>1. PICK d \in todo : /\ disk' = [disk EXCEPT ![d] = candidate[d]]
                            /\ todo' = todo \ {d} /\ replaced' = Append(replaced, d)
      BY <1>2 DEF Replace
    <2>2. disk' \in Environments
      BY <1>0, <2>1 DEF Environments
    <2>3. replaced' \in Seq(Docs) /\ todo' \subseteq Docs
      BY <1>0, <2>1
    <2> QED
      BY <1>0, <1>2, <2>2, <2>3 DEF Replace
  <1>3. CASE ReplaceFails
    BY <1>0, <1>3, ConfigAssumption DEF ReplaceFails, Phases
  <1>4. CASE Committed
    <2>1. CASE Activates
      BY <1>0, <1>4, <2>1 DEF Committed, Phases
    <2>2. CASE ~Activates
      <3>1. DOMAIN Wanted(Mine) \subseteq Docs
            /\ \A d \in DOMAIN Wanted(Mine) : Wanted(Mine)[d] \in Values
        BY <1>0, <1>4, WantedType DEF Committed, ConfigInv, Held
      <3>2. expected' \in Environments
        BY <1>0, <1>4, <2>2, <3>1, OverlaidType DEF Committed
      <3>3. Release("ok") /\ environment' \in Environments
            /\ UNCHANGED <<files, runtime, active, closed, touched, counters>>
        BY <1>0, <1>4, <2>2 DEF Committed
      <3> QED
        BY <1>0, <3>2, <3>3, ReleaseTypes DEF Answers
    <2> QED
      BY <2>1, <2>2
  <1>5. CASE Undo
    <2>1. replaced # <<>> /\ replaced \in Seq(Docs)
      BY <1>0, <1>5 DEF Undo, Undone
    <2>2. Len(replaced) \in Nat \ {0} /\ replaced[Len(replaced)] \in Docs
      BY <2>1, EmptySeq, ElementOfSeq
    <2>3. SubSeq(replaced, 1, Len(replaced) - 1) \in Seq(Docs)
      BY <2>1, <2>2, SubSeqProperties, ElementOfSeq
    <2>4. disk' \in Environments
      BY <1>0, <1>5, <2>2 DEF Undo, Environments
    <2> QED
      BY <1>0, <1>5, <2>3, <2>4 DEF Undo
  <1>6. CASE UndoEnds
    <2>1. {replaced[i] : i \in DOMAIN replaced} \subseteq Docs
      BY <1>0, LenProperties, ElementOfSeq
    <2>2. faults' \in 0..MaxFaults /\ touched' \subseteq Docs
          /\ UNCHANGED <<world, expected, edits, crashes>>
      BY <1>0, <1>6, <2>1, ConfigAssumption DEF UndoEnds
    <2>3. CASE Activates /\ ~receipt
      BY <1>0, <1>6, <2>2, <2>3 DEF UndoEnds, Phases
    <2>4. CASE ~(Activates /\ ~receipt)
      <3>1. Release("failed")
        BY <1>6, <2>4 DEF UndoEnds
      <3> QED
        BY <1>0, <2>2, <3>1, ReleaseTypes DEF Answers
    <2> QED
      BY <2>3, <2>4
  <1> QED
    BY <1>1, <1>2, <1>3, <1>4, <1>5, <1>6 DEF Transaction

\* Every step of an activation keeps the types.
LEMMA ActivationTypes ==
  ASSUME ConfigInv, holder \in Callers, Activation
  PROVE  TypeOK'
  <1>0. TypeOK
    BY DEF ConfigInv
  <1> USE DEF TypeOK, world, files, runtime, controller, calls, lock, transaction,
              ghosts, history, counters
  <1>1. ASSUME NEW answer \in {"ok", "failed"}, Release(answer),
               UNCHANGED <<files, serving, root, controller, history, edits, crashes>>,
               activating' \in BOOLEAN, sources' \in {"running", "paused", "off"},
               faults' \in 0..MaxFaults
        PROVE  TypeOK'
    BY <1>0, <1>1, ReleaseTypes DEF Answers
  <1>2. CASE Build \/ Pause \/ SwapFails
    BY <1>0, <1>2 DEF Build, Pause, SwapFails, Phases
  <1>3. CASE BuildFails \/ Retire
    BY <1>0, <1>1, <1>3 DEF BuildFails, Retire
  <1>4. CASE Swap
    BY <1>0, <1>4 DEF Swap, Phases
  <1>5. CASE Abort
    <2>0. sources' \in {"running", "paused", "off"} /\ faults' \in 0..MaxFaults
      BY <1>0, <1>5, ConfigAssumption DEF Abort, Resume
    <2>1. CASE receipt
      BY <1>0, <1>5, <2>0, <2>1 DEF Abort, Phases
    <2>2. CASE ~receipt
      BY <1>0, <1>1, <1>5, <2>0, <2>2 DEF Abort
    <2> QED
      BY <2>1, <2>2
  <1>6. CASE Publish
    <2>1. \A d \in DOMAIN Wanted(Mine) : Wanted(Mine)[d] \in Values
      BY <1>0, <1>6, WantedType DEF Publish, ConfigInv, Held
    <2>2. expected' \in Environments
      BY <1>0, <1>6, <2>1, OverlaidType DEF Publish
    <2> QED
      BY <1>0, <1>6, <2>2 DEF Publish, Phases
  <1> QED
    BY <1>2, <1>3, <1>4, <1>5, <1>6 DEF Activation

\* Edits, roots, crashes and restarts keep the types.
LEMMA SurroundingTypes ==
  ASSUME ConfigInv, Surroundings
  PROVE  TypeOK'
  <1>0. TypeOK
    BY DEF ConfigInv
  <1> USE DEF TypeOK, world, files, runtime, controller, calls, lock, transaction,
              ghosts, history, counters
  <1>1. ASSUME NEW d \in Docs, NEW v \in Values, Edit(d, v)
        PROVE  TypeOK'
    <2>1. edits' \in 0..MaxEdits /\ edits + 1 \in 0..MaxEdits
      BY <1>0, <1>1, ConfigAssumption DEF Edit
    <2>2. [own |-> v, other |-> edits + 1] \in Content
      BY <2>1 DEF Content
    <2>3. disk' \in Environments
      BY <1>0, <1>1, <2>2 DEF Edit, Environments
    <2>4. expected' \in Environments
      BY <1>0, <1>1, <2>2 DEF Edit, Environments
    <2>5. touched' \subseteq Docs
      BY <1>0, <1>1 DEF Edit
    <2> QED
      BY <1>0, <1>1, <2>1, <2>3, <2>4, <2>5 DEF Edit
  <1>2. CASE RootStarts \/ RootEnds
    BY <1>0, <1>2 DEF RootStarts, RootEnds
  <1>3. CASE Crash
    <2>1. call' \in [Callers -> {"none", "waiting"} \cup Answers]
      BY <1>0, <1>3 DEF Crash, Answers
    <2>2. crashes' \in 0..MaxCrashes
      BY <1>0, <1>3, ConfigAssumption DEF Crash
    <2>3. queue' \in Seq(Callers) /\ replaced' \in Seq(Docs)
      BY <1>3, EmptySeq DEF Crash, Forget
    <2>4. candidate' \in Environments /\ backup' \in Environments
          /\ todo' \subseteq Docs /\ receipt' \in BOOLEAN
      BY <1>3, StartType DEF Crash, Forget
    <2>5. request' \in [Callers -> Requests] /\ cancelled' \in [Callers -> BOOLEAN]
      BY <1>0, <1>3, ForgottenType DEF Crash
    <2> QED
      BY <1>0, <1>3, <2>1, <2>2, <2>3, <2>4, <2>5 DEF Crash, Phases
  <1>4. CASE Restart
    BY <1>0, <1>4 DEF Restart
  <1>5. CASE DayChanges
    <2>1. sources' \in {"running", "off"} /\ faults' \in 0..MaxFaults
      BY <1>0, <1>5, ConfigAssumption DEF DayChanges, Resume
    <2> QED
      BY <1>0, <1>5, <2>1 DEF DayChanges
  <1> QED
    BY <1>1, <1>2, <1>3, <1>4, <1>5 DEF Surroundings

\* An operation is the holder's.
LEMMA OperationHeld == ConfigInv /\ Operation => up /\ holder \in Callers
  <1> SUFFICES ASSUME ConfigInv, Operation PROVE up /\ holder \in Callers
    OBVIOUS
  <1>1. CASE Entering
    BY <1>1 DEF Entering, ConfigInv, TypeOK
  <1>2. CASE phase # "free"
    BY <1>2 DEF ConfigInv, Held
  <1> QED
    BY <1>1, <1>2 DEF Operation, Transaction, Activation, Refuse, Close, Begin,
       RecordPreset, RecordFails, Read, Reject, Stage, Replace, ReplaceFails,
       Committed, Undo, UndoEnds, Build, BuildFails, Pause, Swap, SwapFails, Abort,
       Publish, Retire

\* Every step keeps the types.
LEMMA ConfigTypes == ConfigInv /\ [Next]_vars => TypeOK'
  <1> SUFFICES ASSUME ConfigInv, [Next]_vars PROVE TypeOK'
    OBVIOUS
  <1>1. CASE \E c \in Callers : Ask(c) \/ Cancel(c)
    BY <1>1, LockTypes
  <1>2. CASE Acquire
    <2>1. queue # <<>> /\ queue \in Seq(Callers)
      BY <1>2 DEF Acquire, ConfigInv, TypeOK
    <2>2. PICK c \in Callers : TRUE
      BY <2>1, HeadTailProperties
    <2> QED
      BY <1>2, <2>2, LockTypes
  <1>3. CASE Operation
    BY <1>3, OperationHeld, EntryTypes, TransactionTypes, ActivationTypes
       DEF Operation
  <1>4. CASE Surroundings
    BY <1>4, SurroundingTypes
  <1>5. CASE UNCHANGED vars
    BY <1>5 DEF vars, ConfigInv, TypeOK, world, files, runtime, controller, calls,
       lock, transaction, ghosts, history, counters
  <1> QED
    BY <1>1, <1>2, <1>3, <1>4, <1>5 DEF Next

----------------------------------------------------------------------------
(* The invariant is inductive.                                             *)

\* An operation's step keeps the request it works for, unless it ends it.
LEMMA SameRequest ==
  ASSUME ConfigInv, Operation, phase' # "free"
  PROVE  UNCHANGED <<up, holder, request, presets, root>>
  BY DEF Operation, Transaction, Activation, Refuse, Close, Begin, RecordPreset,
     RecordFails, Read, Reject, Stage, Replace, ReplaceFails, Committed, Undo,
     UndoEnds, Build, BuildFails, Pause, Swap, SwapFails, Abort, Publish, Retire,
     Release, lock, calls, world, files, runtime

\* An operation under way keeps its holder and its preset.
LEMMA HeldStep == ConfigInv /\ [Next]_vars => Held'
  <1> SUFFICES ASSUME ConfigInv, [Next]_vars PROVE Held'
    OBVIOUS
  <1> USE DEF Held
  <1>1. ASSUME NEW c \in Callers, Ask(c) \/ Cancel(c) PROVE Held'
    <2>1. phase' = phase /\ up' = up /\ request' = request /\ presets' = presets
          /\ (phase # "free" => holder' = holder)
      BY <1>1 DEF Ask, Cancel, world, files
    <2>2. phase # "free" => Missing' = Missing
      BY <2>1 DEF Missing, Mine
    <2> QED
      BY <2>1, <2>2 DEF ConfigInv
  <1>2. CASE Acquire
    BY <1>2, ConfigAssumption DEF ConfigInv, Acquire
  <1>3. CASE Operation
    <2>1. CASE phase' = "free"
      BY <2>1
    <2>2. CASE phase' # "free"
      <3>1. up /\ holder \in Callers /\ UNCHANGED <<up, holder, request, presets, root>>
        BY <1>3, <2>2, SameRequest, OperationHeld
      <3>2. Missing' = Missing
        BY <3>1 DEF Missing, Mine
      <3>3. phase \in {"free", "reading"} /\ phase' # "reading" => ~Missing
        BY <1>3, <2>2 DEF Operation, Transaction, Activation, Refuse, Close, Begin,
           RecordPreset, RecordFails, Read, Reject, Stage, Replace, ReplaceFails,
           Committed, Undo, UndoEnds, Build, BuildFails, Pause, Swap, SwapFails,
           Abort, Publish, Retire, Release
      <3> QED
        BY <3>1, <3>2, <3>3 DEF ConfigInv
    <2> QED
      BY <2>1, <2>2
  <1>4. CASE Surroundings
    BY <1>4 DEF ConfigInv, Surroundings, Edit, RootStarts, RootEnds, DayChanges,
       Crash, Restart, Missing, Mine, world, files, calls, lock
  <1>5. CASE UNCHANGED vars
    BY <1>5 DEF ConfigInv, vars, Missing, Mine, world, files, calls, lock
  <1> QED
    BY <1>1, <1>2, <1>3, <1>4, <1>5 DEF Next

\* The handle is held by the activation that took it, and given back.
LEMMA HandleStep == ConfigInv /\ [Next]_vars => Handle'
  <1> SUFFICES ASSUME ConfigInv, [Next]_vars PROVE Handle'
    OBVIOUS
  <1> USE DEF Handle
  <1>1. ASSUME NEW c \in Callers, Ask(c) \/ Cancel(c) PROVE Handle'
    <2>1. phase' = phase /\ activating' = activating /\ root' = root
          /\ request' = request /\ (phase # "free" => holder' = holder)
      BY <1>1 DEF Ask, Cancel, world, runtime
    <2>2. phase # "free" => Activates' = Activates
      BY <2>1 DEF Activates, Mine
    <2> QED
      BY <2>1, <2>2 DEF ConfigInv
  <1>2. CASE Acquire
    <2>1. phase = "free" /\ phase' = phase /\ activating' = activating
      BY <1>2, ConfigAssumption DEF ConfigInv, Held, Acquire, world, runtime
    <2> QED
      BY <2>1 DEF ConfigInv
  <1>3. CASE Operation
    <2>1. CASE phase' = "free"
      <3> USE DEF ConfigInv, Release, runtime, world
      <3>1. ~activating'
        <4>1. CASE phase \in {"free", "reading", "retiring"}
          BY <1>3, <2>1, <4>1 DEF Operation, Transaction, Activation, Refuse, Close,
             Begin, RecordPreset, RecordFails, Read, Reject, Stage, Replace,
             ReplaceFails, Committed, Undo, UndoEnds, Build, BuildFails, Pause,
             Swap, SwapFails, Abort, Publish, Retire
        <4>2. CASE Committed \/ UndoEnds
          BY <2>1, <4>2 DEF Committed, UndoEnds, Served
        <4>3. CASE BuildFails \/ Abort
          BY <4>3 DEF BuildFails, Abort
        <4> QED
          BY <1>3, <2>1, <4>1, <4>2, <4>3 DEF Operation, Transaction, Activation,
             Entering, Refuse, Close, Begin, RecordPreset, RecordFails, Read,
             Reject, Stage, Replace, ReplaceFails, Undo, Build, Pause, Swap,
             SwapFails, Publish, Retire
      <3> QED
        BY <2>1, <3>1
    <2>2. CASE phase' # "free"
      <3>1. Activates' = Activates /\ root' = root
        BY <1>3, <2>2, SameRequest DEF Activates, Mine
      <3>2. CASE Begin \/ Read
        BY <3>1, <3>2 DEF ConfigInv, Entering, Begin, Read, world, runtime
      <3>3. CASE Transaction
        BY <2>2, <3>1, <3>3 DEF ConfigInv, Transaction, Stage, Replace, ReplaceFails,
           Committed, Undo, UndoEnds, Release, world, runtime
      <3>4. CASE Activation
        BY <2>2, <3>1, <3>4 DEF ConfigInv, Activation, Build, BuildFails, Pause,
           Swap, SwapFails, Abort, Publish, Retire, Release, world, runtime
      <3> QED
        BY <1>3, <2>2, <3>2, <3>3, <3>4 DEF Operation, Refuse, Close, RecordPreset,
           RecordFails, Reject, Release
    <2> QED
      BY <2>1, <2>2
  <1>4. CASE Surroundings
    BY <1>4 DEF ConfigInv, Held, Surroundings, Edit, RootStarts, RootEnds,
       DayChanges, Crash, Restart, Activates, Mine, runtime, lock, calls
  <1>5. CASE UNCHANGED vars
    BY <1>5 DEF ConfigInv, vars, Activates, Mine, world, runtime, calls, lock
  <1> QED
    BY <1>1, <1>2, <1>3, <1>4, <1>5 DEF Next

\* A root lives in a living process.
LEMMA DownStep == ConfigInv /\ [Next]_vars => Down'
  <1> SUFFICES ASSUME ConfigInv, [Next]_vars PROVE Down'
    OBVIOUS
  <1>1. CASE Operation
    BY <1>1, OperationHeld DEF Operation, Transaction, Activation, Refuse, Close,
       Begin, RecordPreset, RecordFails, Read, Reject, Stage, Replace, ReplaceFails,
       Committed, Undo, UndoEnds, Build, BuildFails, Pause, Swap, SwapFails, Abort,
       Publish, Retire, Release, lock, Down
  <1>2. CASE Surroundings
    BY <1>2 DEF ConfigInv, Surroundings, Edit, RootStarts, RootEnds, DayChanges,
       Crash, Restart, runtime, lock, Down
  <1>3. CASE UNCHANGED vars \/ Acquire \/ \E c \in Callers : Ask(c) \/ Cancel(c)
    BY <1>3 DEF ConfigInv, vars, Acquire, Ask, Cancel, world, runtime, lock, Down
  <1> QED
    BY <1>1, <1>2, <1>3 DEF Next

\* What is published is what is served, from one operation to the next.
LEMMA ServedStep == ConfigInv /\ [Next]_vars => Served'
  <1> SUFFICES ASSUME ConfigInv, [Next]_vars PROVE Served'
    OBVIOUS
  <1> USE DEF Served, ConfigInv
  <1>1. ASSUME NEW c \in Callers, Ask(c) \/ Cancel(c) PROVE Served'
    BY <1>1 DEF Ask, Cancel, world, runtime, controller, transaction
  <1>2. CASE Acquire
    BY <1>2 DEF Acquire, world, runtime, controller, transaction
  <1>3. CASE Refuse \/ Close \/ Begin \/ RecordPreset \/ RecordFails \/ Reject
    BY <1>3 DEF Entering, Refuse, Close, Begin, RecordPreset, RecordFails, Reject,
       Release, Forget, world, runtime, controller, transaction, lock
  <1>4. CASE Read
    BY <1>4 DEF Read, controller, lock
  <1>5. CASE Transaction
    <2>1. CASE Stage \/ Replace \/ ReplaceFails
      BY <2>1 DEF Stage, Replace, ReplaceFails, world, runtime, controller,
         transaction, lock
    <2>2. CASE Committed
      BY <2>2 DEF Committed, Handle, Release, Forget, runtime, lock
    <2>3. CASE Undo \/ UndoEnds
      BY <2>3 DEF Undo, UndoEnds, Release, Forget, world, runtime, controller,
         transaction, lock
    <2> QED
      BY <1>5, <2>1, <2>2, <2>3 DEF Transaction
  <1>6. CASE Activation
    <2>1. CASE Build \/ BuildFails \/ Pause \/ SwapFails
      BY <2>1 DEF Build, BuildFails, Pause, SwapFails, Release, Forget, world,
         runtime, controller, transaction, lock
    <2>2. CASE Swap
      BY <2>2 DEF Swap, controller, transaction, lock
    <2>3. CASE Abort
      BY <2>3 DEF Abort, Resume, Release, Forget, controller, transaction, lock
    <2>4. CASE Publish \/ Retire
      BY <2>4 DEF Publish, Retire, Release, Forget, world, runtime, controller, lock
    <2> QED
      BY <1>6, <2>1, <2>2, <2>3, <2>4 DEF Activation
  <1>7. CASE Surroundings
    BY <1>7 DEF Held, Surroundings, Edit, RootStarts, RootEnds, DayChanges, Resume,
       Crash, Restart, Forget, runtime, controller, transaction, lock
  <1>8. CASE UNCHANGED vars
    BY <1>8 DEF vars, world, runtime, controller, transaction, lock
  <1> QED
    BY <1>1, <1>2, <1>3, <1>4, <1>5, <1>6, <1>7, <1>8 DEF Next, Operation

\* Every reachable state satisfies the inductive invariant.
THEOREM ConfigInvariant == Spec => []ConfigInv
  <1>1. ConfigInv /\ [Next]_vars => ConfigInv'
    BY ConfigTypes, HeldStep, HandleStep, DownStep, ServedStep DEF ConfigInv
  <1> QED
    BY <1>1, ConfigInit, PTL DEF Spec

----------------------------------------------------------------------------
(* The results.                                                            *)

\* Every variable has its type, for any instance.
THEOREM ConfigTypeCorrect == Spec => []TypeOK
  <1>1. ConfigInv => TypeOK
    BY DEF ConfigInv
  <1> QED
    BY <1>1, ConfigInvariant, PTL

\* Between operations the controller reports what the handle serves.
THEOREM ConfigActiveIsServed == Spec => []ActiveIsServed
  <1>1. ConfigInv => ActiveIsServed
    BY DEF ConfigInv, TypeOK, Handle, Served, ActiveIsServed
  <1> QED
    BY <1>1, ConfigInvariant, PTL

\* A generation is replaced only while no root runs.
THEOREM ConfigNoSwapUnderRoot == Spec => NoSwapUnderRoot
  <1>1. ConfigInv /\ [Next]_vars => [serving' # serving => ~root]_vars
    <2> SUFFICES ASSUME ConfigInv, [Next]_vars, serving' # serving PROVE ~root
      BY DEF vars
    <2>1. CASE Swap
      BY <2>1 DEF Swap, ConfigInv, Handle
    <2>2. CASE Restart
      BY <2>2 DEF Restart, ConfigInv, Down
    <2>3. CASE Operation /\ ~Swap
      BY <2>3 DEF Operation, Transaction, Activation, Refuse, Close, Begin,
         RecordPreset, RecordFails, Read, Reject, Stage, Replace, ReplaceFails,
         Committed, Undo, UndoEnds, Build, BuildFails, Pause, SwapFails, Abort,
         Publish, Retire, world, runtime
    <2>4. CASE Surroundings /\ ~Restart
      BY <2>4 DEF Surroundings, Edit, RootStarts, RootEnds, DayChanges, Crash, runtime
    <2>5. CASE UNCHANGED vars \/ Acquire \/ \E c \in Callers : Ask(c) \/ Cancel(c)
      BY <2>5 DEF vars, Acquire, Ask, Cancel, world, runtime
    <2> QED
      BY <2>1, <2>2, <2>3, <2>4, <2>5 DEF Next
  <1> QED
    BY <1>1, ConfigInvariant, PTL DEF Spec, NoSwapUnderRoot

----------------------------------------------------------------------------
(* The files.                                                              *)

W == DOMAIN Wanted(Mine)
Done == {replaced[i] : i \in DOMAIN replaced}

Settled == \A d \in Docs \ touched : disk[d] = expected[d]

\* What an operation in its window has left alone, and what it intends.
Aside == \A d \in Docs \ (W \cup touched) : disk[d] = expected[d]
Planned ==
  \A d \in W \ touched :
    candidate[d] = [expected[d] EXCEPT !.own = Wanted(Mine)[d]]

\* Each document holds the candidate's content or what was there before.
Kept ==
  \A d \in W \ touched :
    /\ backup[d] = expected[d]
    /\ disk[d] = IF d \in Done THEN candidate[d] ELSE backup[d]
Once ==
  /\ Done \subseteq W
  /\ \A i, j \in DOMAIN replaced : replaced[i] = replaced[j] => i = j

Replacing == {"writing", "undoing", "pausing", "swapping", "aborting", "publishing"}

FilesInv ==
  /\ phase \in {"free", "reading", "retiring"} => Settled
  /\ phase \in Window => W \subseteq Docs /\ Aside /\ Planned
  /\ phase \in {"building", "staging"} => todo = W /\ replaced = <<>> /\ Settled
  /\ phase \in Replacing => Kept /\ Once
  /\ phase = "writing" =>
       W \subseteq todo \cup Done /\ todo \cap Done = {} /\ todo \subseteq W
  /\ phase \in {"pausing", "swapping", "publishing"} => W \subseteq Done
  /\ phase \in {"pausing", "swapping"} => receipt
  /\ phase = "aborting" /\ ~receipt => Done \subseteq touched

\* An operation that goes on keeps the documents it works on.
LEMMA SameWork ==
  ASSUME ConfigInv, Operation, phase' # "free"
  PROVE  Wanted(Mine)' = Wanted(Mine) /\ W' = W
  BY SameRequest DEF W, Wanted, Mine

\* The lock, the root and the process do not disturb the files.
LEMMA FilesApart ==
  ASSUME ConfigInv, FilesInv,
         \/ Acquire \/ RootStarts \/ RootEnds \/ DayChanges \/ Crash \/ Restart
         \/ UNCHANGED vars
         \/ \E c \in Callers : Ask(c) \/ Cancel(c)
  PROVE  FilesInv'
  <1>1. CASE Crash
    BY <1>1 DEF Crash, FilesInv, Settled, Window, Replacing, files
  <1>2. CASE phase = "free" /\ ~Crash
    <2>1. phase' = "free" /\ UNCHANGED <<disk, expected, touched>>
      BY <1>2 DEF Acquire, RootStarts, RootEnds, DayChanges, Restart, vars, Ask,
         Cancel, world, files, ghosts, history
    <2> QED
      BY <1>2, <2>1 DEF FilesInv, Settled, Window, Replacing
  <1>3. CASE phase # "free" /\ ~Crash
    <2>0. up /\ holder \in Callers
      BY <1>3 DEF ConfigInv, Held
    <2>1. UNCHANGED <<disk, presets, expected, touched, phase, transaction, holder,
                      request>>
      BY <1>3, <2>0, ConfigAssumption DEF Acquire, RootStarts, RootEnds, DayChanges,
         Restart, vars, Ask, Cancel, world, files, ghosts, history, lock, calls
    <2>2. Wanted(Mine)' = Wanted(Mine) /\ W' = W
      BY <2>1 DEF W, Wanted, Mine
    <2>3. UNCHANGED <<Settled, Aside, Planned, Done, Kept, Once>>
      BY <2>1, <2>2 DEF Settled, Aside, Planned, Done, Kept, Once, transaction
    <2> QED
      BY <2>1, <2>2, <2>3 DEF FilesInv, transaction
  <1> QED
    BY <1>1, <1>2, <1>3

\* An edit is expected, and excuses the operation that overwrites it.
LEMMA FilesEdit ==
  ASSUME ConfigInv, FilesInv, NEW e \in Docs, NEW v \in Values, Edit(e, v)
  PROVE  FilesInv'
  <1>1. /\ disk' = [disk EXCEPT ![e] = [own |-> v, other |-> edits + 1]]
        /\ expected' = [expected EXCEPT ![e] = [own |-> v, other |-> edits + 1]]
        /\ UNCHANGED <<presets, phase, transaction, holder, request>>
    BY DEF Edit, lock, calls
  <1>2. \A d \in Docs : /\ d # e => disk'[d] = disk[d] /\ expected'[d] = expected[d]
                        /\ d = e => disk'[d] = expected'[d]
    BY <1>1 DEF ConfigInv, TypeOK, Environments
  <1>3. Wanted(Mine)' = Wanted(Mine) /\ W' = W
    BY <1>1 DEF W, Wanted, Mine
  <1>4. touched \subseteq touched' /\ (phase \in Window /\ e \in W => e \in touched')
    BY DEF Edit, W
  <1>5. Settled => Settled'
    BY <1>2, <1>4 DEF Settled
  <1>6. Aside => Aside'
    BY <1>2, <1>3, <1>4 DEF Aside
  <1>7. phase \in Window /\ W \subseteq Docs /\ Planned => Planned'
    <2> SUFFICES ASSUME phase \in Window, W \subseteq Docs, Planned,
                        NEW d \in W \ touched'
                 PROVE  candidate'[d] = [expected'[d] EXCEPT !.own = Wanted(Mine)[d]]
      BY <1>3 DEF Planned
    <2>1. d # e /\ d \in Docs /\ d \notin touched
      BY <1>4
    <2> QED
      BY <1>1, <1>2, <2>1 DEF Planned, transaction
  <1>8. Done' = Done /\ Once' = Once
    BY <1>1, <1>3 DEF Done, Once, transaction
  <1>9. phase \in Window /\ W \subseteq Docs /\ Kept => Kept'
    <2> SUFFICES ASSUME phase \in Window, W \subseteq Docs, Kept,
                        NEW d \in W \ touched'
                 PROVE  /\ backup'[d] = expected'[d]
                        /\ disk'[d] = IF d \in Done' THEN candidate'[d] ELSE backup'[d]
      BY <1>3 DEF Kept
    <2>1. d # e /\ d \in Docs /\ d \notin touched
      BY <1>4
    <2> QED
      BY <1>1, <1>2, <1>8, <2>1 DEF Kept, transaction
  <1>10. Replacing \subseteq Window
    BY DEF Replacing, Window, Phases
  <1> QED
    BY <1>1, <1>3, <1>4, <1>5, <1>6, <1>7, <1>8, <1>9, <1>10
       DEF FilesInv, transaction, Window, Phases

\* An operation that ends leaves settled files.
LEMMA FilesRelease ==
  ASSUME phase' = "free", Settled'
  PROVE  FilesInv'
  BY DEF FilesInv, Window, Replacing

\* Before the transaction the files are untouched.
LEMMA FilesEntry ==
  ASSUME ConfigInv, FilesInv,
         \/ Refuse \/ Close \/ Begin \/ RecordPreset \/ RecordFails \/ Read \/ Reject
  PROVE  FilesInv'
  <1>1. CASE Refuse \/ Close \/ RecordPreset \/ RecordFails \/ Reject
    <2>1. phase' = "free" /\ UNCHANGED <<disk, expected, touched>>
      BY <1>1 DEF Refuse, Close, RecordPreset, RecordFails, Reject, Release, world,
         files, ghosts, history
    <2>2. Settled
      BY <1>1 DEF Entering, Refuse, Close, RecordPreset, RecordFails, Reject, FilesInv
    <2>3. Settled'
      BY <2>1, <2>2 DEF Settled
    <2> QED
      BY <2>1, <2>3, FilesRelease
  <1>2. CASE Begin
    BY <1>2 DEF Begin, FilesInv, Settled, Window, Replacing, world, files
  <1>3. CASE Read
    <2>1. /\ phase' \in {"building", "staging"} /\ replaced' = <<>>
          /\ todo' = W /\ candidate' = Overlaid(disk, Wanted(Mine))
          /\ UNCHANGED <<disk, expected, touched>>
      BY <1>3 DEF Read, Source, W, files, ghosts, history
    <2>2. W' = W /\ Wanted(Mine)' = Wanted(Mine)
      BY <1>3, <2>1, SameWork DEF Operation
    <2>3. Settled /\ Settled'
      BY <1>3, <2>1 DEF Read, FilesInv, Settled
    <2>4. W \subseteq Docs
      BY <1>3, WantedType DEF Read, W, ConfigInv, Held
    <2>5. Aside'
      BY <2>1, <2>2, <2>3 DEF Aside, Settled
    <2>6. Planned'
      BY <2>1, <2>2, <2>3, <2>4 DEF Planned, Settled, Overlaid, W
    <2> QED
      BY <2>1, <2>2, <2>3, <2>4, <2>5, <2>6 DEF FilesInv, Window, Replacing
  <1> QED
    BY <1>1, <1>2, <1>3

\* A transaction replaces its documents one by one, or puts them all back.
LEMMA FilesTransaction ==
  ASSUME ConfigInv, FilesInv, Transaction
  PROVE  FilesInv'
  <1>0. phase \in Window /\ W \subseteq Docs /\ Aside /\ Planned
    BY DEF FilesInv, Window, Phases, Transaction, Stage, Replace, ReplaceFails,
       Committed, Undo, UndoEnds
  <1>1. CASE Stage
    <2>1. /\ backup' = disk /\ phase' = "writing" /\ replaced' = <<>> /\ todo' = W
          /\ UNCHANGED <<disk, expected, touched, candidate>>
      BY <1>1 DEF Stage, FilesInv, world, files, ghosts, history
    <2>2. W' = W /\ Wanted(Mine)' = Wanted(Mine)
      BY <1>1, <2>1, SameWork DEF Operation, Transaction
    <2>3. Settled
      BY <1>1 DEF Stage, FilesInv
    <2>4. Done' = {} /\ Once'
      BY <2>1 DEF Done, Once
    <2>5. Aside' /\ Planned'
      BY <1>0, <2>1, <2>2 DEF Aside, Planned
    <2>6. Kept'
      BY <1>0, <2>1, <2>2, <2>3, <2>4 DEF Kept, Settled
    <2> QED
      BY <1>0, <2>1, <2>2, <2>4, <2>5, <2>6 DEF FilesInv
  <1>2. CASE Replace
    <2>1. PICK d \in todo : /\ disk' = [disk EXCEPT ![d] = candidate[d]]
                            /\ todo' = todo \ {d} /\ replaced' = Append(replaced, d)
      BY <1>2 DEF Replace
    <2>2. /\ phase = "writing" /\ phase' = "writing"
          /\ UNCHANGED <<expected, touched, candidate, backup>>
      BY <1>2 DEF Replace, ghosts, history
    <2>3. W' = W /\ Wanted(Mine)' = Wanted(Mine)
      BY <1>2, <2>2, SameWork DEF Operation, Transaction
    <2>4. /\ Kept /\ Once /\ W \subseteq todo \cup Done
          /\ todo \cap Done = {} /\ todo \subseteq W
      BY <2>2 DEF FilesInv, Replacing
    <2>5. replaced \in Seq(Docs) /\ d \in Docs /\ disk \in Environments
      BY <1>0, <2>4 DEF ConfigInv, TypeOK
    <2>6. Done' = Done \cup {d}
      BY <2>1, <2>5 DEF Done
    <2>7. d \notin Done
      BY <2>4
    <2>8. Once'
      BY <2>1, <2>3, <2>4, <2>5, <2>6, <2>7 DEF Once, Done
    <2>9. \A o \in Docs : disk'[o] = IF o = d THEN candidate[o] ELSE disk[o]
      BY <2>1, <2>5 DEF Environments
    <2>10. Aside' /\ Planned'
      BY <1>0, <2>2, <2>3, <2>4, <2>9 DEF Aside, Planned
    <2>11. Kept'
      BY <1>0, <2>2, <2>3, <2>4, <2>6, <2>9 DEF Kept
    <2>12. /\ W \subseteq todo' \cup Done' /\ todo' \cap Done' = {}
           /\ todo' \subseteq W
      BY <2>1, <2>4, <2>6
    <2> QED
      BY <1>0, <2>2, <2>3, <2>8, <2>10, <2>11, <2>12 DEF FilesInv
  <1>3. CASE ReplaceFails
    <2>1. /\ phase = "writing" /\ phase' = "undoing"
          /\ UNCHANGED <<disk, expected, touched, transaction>>
      BY <1>3 DEF ReplaceFails, world, files, history
    <2>2. W' = W /\ Wanted(Mine)' = Wanted(Mine)
      BY <1>3, <2>1, SameWork DEF Operation, Transaction
    <2>3. Kept /\ Once
      BY <2>1 DEF FilesInv, Replacing
    <2>4. Aside' /\ Planned' /\ Kept' /\ Once'
      BY <1>0, <2>1, <2>2, <2>3
         DEF Aside, Planned, Kept, Once, Done, transaction
    <2> QED
      BY <1>0, <2>1, <2>2, <2>4 DEF FilesInv
  <1>4. CASE Committed
    <2>1. /\ phase = "writing" /\ todo = {}
          /\ UNCHANGED <<disk, presets, touched>>
      BY <1>4 DEF Committed, files
    <2>2. Kept /\ Once /\ W \subseteq Done
      BY <2>1 DEF FilesInv, Replacing
    <2>3. CASE Activates
      <3>1. /\ phase' = "pausing" /\ receipt' = TRUE
            /\ UNCHANGED <<expected, candidate, replaced, backup>>
        BY <1>4, <2>3 DEF Committed
      <3>2. W' = W /\ Wanted(Mine)' = Wanted(Mine)
        BY <1>4, <3>1, SameWork DEF Operation, Transaction
      <3>3. Aside' /\ Planned' /\ Kept' /\ Once' /\ W' \subseteq Done'
        BY <1>0, <2>1, <2>2, <3>1, <3>2 DEF Aside, Planned, Kept, Once, Done
      <3> QED
        BY <1>0, <3>1, <3>2, <3>3 DEF FilesInv
    <2>4. CASE ~Activates
      <3>1. phase' = "free" /\ expected' = Overlaid(expected, Wanted(Mine))
        BY <1>4, <2>4 DEF Committed, Release
      <3>2. ASSUME NEW d \in Docs \ touched PROVE disk[d] = expected'[d]
        <4>1. CASE d \in W
          BY <2>2, <3>1, <4>1, <1>0 DEF Kept, Planned, Overlaid, W
        <4>2. CASE d \notin W
          BY <3>1, <4>2, <1>0 DEF Aside, Overlaid, W
        <4> QED
          BY <4>1, <4>2
      <3>3. Settled'
        BY <2>1, <3>2 DEF Settled
      <3> QED
        BY <3>1, <3>3, FilesRelease
    <2> QED
      BY <2>3, <2>4
  <1>5. CASE Undo
    <2>1. /\ phase = "undoing" /\ phase' = "undoing" /\ replaced # <<>>
          /\ UNCHANGED <<expected, touched, candidate, backup, receipt>>
      BY <1>5 DEF Undo, Undone, ghosts, history
    <2>2. W' = W /\ Wanted(Mine)' = Wanted(Mine)
      BY <1>5, <2>1, SameWork DEF Operation, Transaction
    <2>3. Kept /\ Once
      BY <2>1 DEF FilesInv, Replacing
    <2> DEFINE n == Len(replaced)
    <2>4. /\ replaced \in Seq(Docs) /\ n \in Nat \ {0}
          /\ DOMAIN replaced = 1..n /\ \A i \in 1..n : replaced[i] \in Docs
      BY <2>1, EmptySeq, LenProperties, ElementOfSeq DEF ConfigInv, TypeOK
    <2>5. /\ disk' = [disk EXCEPT ![replaced[n]] = backup[replaced[n]]]
          /\ replaced' = SubSeq(replaced, 1, n - 1)
      BY <1>5 DEF Undo
    <2> HIDE DEF n
    <2>6. /\ replaced' \in Seq(Docs) /\ Len(replaced') = n - 1
          /\ \A i \in 1..(n - 1) : replaced'[i] = replaced[i]
      BY <2>4, <2>5, SubSeqProperties
    <2>7. DOMAIN replaced' = 1..(n - 1)
      BY <2>6, LenProperties
    <2>8. Once'
      <3>1. Done' \subseteq W'
        BY <2>2, <2>3, <2>4, <2>6, <2>7 DEF Once, Done
      <3> QED
        BY <3>1, <2>3, <2>4, <2>6, <2>7 DEF Once
    <2>9. Done' = Done \ {replaced[n]}
      <3>1. Done' \subseteq Done \ {replaced[n]}
        BY <2>3, <2>4, <2>6, <2>7 DEF Done, Once
      <3>2. Done \ {replaced[n]} \subseteq Done'
        BY <2>4, <2>6, <2>7 DEF Done
      <3> QED
        BY <3>1, <3>2
    <2>10. \A o \in Docs : disk'[o] = IF o = replaced[n] THEN backup[o] ELSE disk[o]
      BY <2>4, <2>5 DEF ConfigInv, TypeOK, Environments
    <2>11. replaced[n] \in Done
      BY <2>4 DEF Done
    <2>12. Aside' /\ Planned'
      BY <1>0, <2>1, <2>2, <2>3, <2>10, <2>11 DEF Aside, Planned, Once
    <2>13. Kept'
      BY <1>0, <2>1, <2>2, <2>3, <2>9, <2>10, <2>11 DEF Kept
    <2> QED
      BY <1>0, <2>1, <2>2, <2>8, <2>12, <2>13 DEF FilesInv
  <1>6. CASE UndoEnds
    <2>1. /\ phase = "undoing" /\ touched \subseteq touched'
          /\ Done \subseteq touched' /\ UNCHANGED <<disk, presets, expected>>
      BY <1>6 DEF UndoEnds, Undone, Done, world, files
    <2>2. Kept /\ Once
      BY <2>1 DEF FilesInv, Replacing
    <2>3. CASE Activates /\ ~receipt
      <3>1. phase' = "aborting" /\ UNCHANGED transaction
        BY <1>6, <2>3 DEF UndoEnds
      <3>2. W' = W /\ Wanted(Mine)' = Wanted(Mine)
        BY <1>6, <3>1, SameWork DEF Operation, Transaction
      <3>3. Done' = Done /\ Once'
        BY <2>2, <3>1, <3>2 DEF Done, Once, transaction
      <3>4. Aside' /\ Planned'
        BY <1>0, <2>1, <3>1, <3>2 DEF Aside, Planned, transaction
      <3>5. Kept'
        BY <2>1, <2>2, <3>1, <3>2, <3>3 DEF Kept, transaction
      <3> QED
        BY <1>0, <2>1, <3>1, <3>2, <3>3, <3>4, <3>5 DEF FilesInv
    <2>4. CASE ~(Activates /\ ~receipt)
      <3>1. phase' = "free"
        BY <1>6, <2>4 DEF UndoEnds, Release
      <3>2. ASSUME NEW d \in Docs \ touched' PROVE disk[d] = expected[d]
        BY <1>0, <2>1, <2>2, <3>2 DEF Kept, Aside
      <3>3. Settled'
        BY <2>1, <3>2 DEF Settled
      <3> QED
        BY <3>1, <3>3, FilesRelease
    <2> QED
      BY <2>3, <2>4
  <1> QED
    BY <1>1, <1>2, <1>3, <1>4, <1>5, <1>6 DEF Transaction

\* An activation publishes what it wrote, or gives the files back.
LEMMA FilesActivation ==
  ASSUME ConfigInv, FilesInv, Activation
  PROVE  FilesInv'
  <1>1. CASE Retire \/ BuildFails
    <2>1. phase' = "free" /\ UNCHANGED <<disk, expected, touched>>
      BY <1>1 DEF Retire, BuildFails, Release, world, files, ghosts, history
    <2>2. Settled
      BY <1>1 DEF Retire, BuildFails, FilesInv
    <2> QED
      BY <2>1, <2>2, FilesRelease DEF Settled
  <1>2. CASE Build \/ Pause \/ Swap \/ SwapFails \/ (Abort /\ receipt)
    <2>1. /\ UNCHANGED <<disk, expected, touched, transaction>>
          /\ phase \in Window /\ phase' # "free"
      BY <1>2 DEF Build, Pause, Swap, SwapFails, Abort, world, files, ghosts, history,
         Window, Phases
    <2>2. W' = W /\ Wanted(Mine)' = Wanted(Mine)
      BY <1>2, <2>1, SameWork DEF Operation, Activation
    <2>3. UNCHANGED <<Settled, Aside, Planned, Done, Kept, Once>>
      BY <2>1, <2>2 DEF Settled, Aside, Planned, Done, Kept, Once, transaction
    <2>4. \/ phase = "building" /\ phase' = "staging"
          \/ phase = "pausing" /\ phase' = "swapping"
          \/ phase = "swapping" /\ phase' \in {"publishing", "aborting"}
          \/ phase = "aborting" /\ receipt /\ phase' = "undoing"
      BY <1>2 DEF Build, Pause, Swap, SwapFails, Abort
    <2> QED
      BY <2>1, <2>2, <2>3, <2>4 DEF FilesInv, transaction, Window, Replacing, Phases
  <1>3. CASE Abort /\ ~receipt
    <2>1. /\ phase = "aborting" /\ phase' = "free"
          /\ UNCHANGED <<disk, expected, touched>>
      BY <1>3 DEF Abort, Release, files, ghosts, history
    <2>2. Kept /\ Aside /\ Done \subseteq touched
      BY <1>3, <2>1 DEF FilesInv, Replacing, Window, Phases
    <2>3. Settled
      BY <2>2 DEF Settled, Kept, Aside
    <2> QED
      BY <2>1, <2>3, FilesRelease DEF Settled
  <1>4. CASE Publish
    <2>1. /\ phase = "publishing" /\ phase' = "retiring"
          /\ expected' = Overlaid(expected, Wanted(Mine)) /\ UNCHANGED <<disk, touched>>
      BY <1>4 DEF Publish, world, files
    <2>2. Kept /\ Aside /\ Planned /\ W \subseteq Done
      BY <2>1 DEF FilesInv, Replacing, Window, Phases
    <2>3. ASSUME NEW d \in Docs \ touched PROVE disk[d] = expected'[d]
      <3>1. CASE d \in W
        BY <2>1, <2>2, <3>1 DEF Kept, Planned, Overlaid, W
      <3>2. CASE d \notin W
        BY <2>1, <2>2, <3>2 DEF Aside, Overlaid, W
      <3> QED
        BY <3>1, <3>2
    <2>4. Settled'
      BY <2>1, <2>3 DEF Settled
    <2> QED
      BY <2>1, <2>4 DEF FilesInv, Window, Replacing
  <1> QED
    BY <1>1, <1>2, <1>3, <1>4 DEF Activation

\* Between operations every document outside `touched` holds what the saves
\* that succeeded and the user put there.
THEOREM ConfigFilesAreWhole == Spec => []FilesAreWhole
  <1>1. Init => FilesInv
    BY DEF Init, FilesInv, Settled, Window, Replacing
  <1>2. ConfigInv /\ FilesInv /\ [Next]_vars => FilesInv'
    BY FilesApart, FilesEdit, FilesEntry, FilesTransaction, FilesActivation
       DEF Next, Operation, Surroundings
  <1>3. FilesInv => FilesAreWhole
    BY DEF FilesInv, Settled, FilesAreWhole
  <1> QED
    BY <1>1, <1>2, <1>3, ConfigInvariant, PTL DEF Spec
=============================================================================
