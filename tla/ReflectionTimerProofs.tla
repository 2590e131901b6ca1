------------------------ MODULE ReflectionTimerProofs ------------------------
(***************************************************************************)
(* Proofs about ReflectionTimer, for any number of serve tasks, preflights *)
(* and days, and any bounds.                                               *)
(***************************************************************************)
EXTENDS ReflectionTimer, TLAPS

(***************************************************************************)
(* The inductive invariant.                                                *)
(***************************************************************************)
Used(l) == loop[l].at # "none"
Busy(p) == pre[p].at \in {"pausing", "joining"}

\* Every serve task is the timer's own or is joined by one preflight.
Owned ==
    /\ \A p \in Preflights :
          IF pre[p].at = "joining"
          THEN pre[p].joins \in Loops /\ Used(pre[p].joins) /\ pre[p].joins # task
          ELSE pre[p].joins = NoLoop
    /\ \A p, q \in Preflights :
          pre[p].joins = pre[q].joins /\ pre[p].joins # NoLoop => p = q
    /\ task # NoLoop => Used(task)
    /\ \A l \in Loops : Used(l) =>
          l = task \/ \E p \in Preflights : pre[p].joins = l

\* Once the source is paused and nobody is about to stop the timer, it is stopped.
Paused ==
    ~running /\ ~belated /\ (\A p \in Preflights : pre[p].at # "pausing")
        => task = NoLoop

\* Without overlap at most one preflight stops the source, and only while it is
\* paused; a task is joined when the timer has no other.
Alone ==
    /\ \A p, q \in Preflights : Busy(p) /\ Busy(q) => p = q
    /\ \A p \in Preflights : Busy(p) => ~running
    /\ \A p \in Preflights : pre[p].at = "joining" => task = NoLoop
    /\ \A l \in Loops : Used(l) => publisher
    /\ \A l \in Loops : loop[l].at = "raised" => failed # {}

\* Only days up to the cursor were held or accepted, and a request that is
\* accepted anew had been evicted.
Counted ==
    /\ pending <= emitted /\ emitted <= day
    /\ \A d \in Days : accepted[d] > 0 => d <= emitted
    /\ \A d \in Days : d \in known => accepted[d] > 0
    /\ \A d \in Days : accepted[d] > 0 /\ d \notin known => evictions > 0
    /\ \A d \in Days : accepted[d] > 1 => evictions > 0

\* Without overlap and failures a day that is accepted and still held is being
\* published, and none is accepted twice.
Settled ==
    \A d \in Days : accepted[d] > 0 /\ d \notin failed =>
        /\ accepted[d] = 1
        /\ pending = d =>
             \E l \in Loops : loop[l].at = "publishing" /\ loop[l].event = d

Slots == [at    : LoopStages,
          event : 0 .. LastDay,
          wake  : 0 .. LastDay + 1]

TimerInv ==
    /\ TypeOK /\ Owned /\ Paused /\ Counted
    /\ ~overlapped => Alone /\ Settled

----------------------------------------------------------------------------
\* The source has just been started.
LEMMA TimerStart == Init => TimerInv
  <1> SUFFICES ASSUME Init PROVE TimerInv
    OBVIOUS
  <1>1. TypeOK
    <2>1. loop \in [Loops -> Slots]
      BY TimerAssumption DEF Init, Fresh, Slots, LoopStages
    <2>2. 1 \in Days /\ 0 \in 0 .. LastDay /\ 1 \in 0 .. LastDay
      BY TimerAssumption DEF Days
    <2>3. 0 \in 0 .. MaxFills /\ 0 \in 0 .. MaxFailures /\ 0 \in 0 .. MaxEvictions
      BY TimerAssumption
    <2> QED
      BY <2>1, <2>2, <2>3 DEF Init, Outside, TypeOK, PreStages, Slots
  <1>2. Owned /\ Paused
    BY TimerAssumption DEF Init, Outside, Owned, Paused, Used, Fresh
  <1>3. Counted /\ Settled
    BY DEF Init, Counted, Settled, Days
  <1>4. Alone
    BY DEF Init, Outside, Alone, Busy, Fresh
  <1> QED
    BY <1>1, <1>2, <1>3, <1>4 DEF TimerInv

----------------------------------------------------------------------------
(* Types.                                                                  *)

\* What a tick computes.
LEMMA TickType ==
  ASSUME TypeOK
  PROVE  /\ Held \in 0 .. LastDay /\ NextDue \in 0 .. LastDay + 1
         /\ Held # 0 => Held \in Days
         /\ Asleep \in LoopStages
         /\ 0 \in 0 .. LastDay /\ 0 \in 0 .. LastDay + 1
  BY TimerAssumption DEF TypeOK, Held, Due, NextDue, Asleep, LoopStages, Days

\* A slot keeps its type when a field is replaced by a value of its type.
LEMMA SlotType ==
  /\ Fresh \in Slots
  /\ \A a \in LoopStages : [Fresh EXCEPT !.at = a] \in Slots
  /\ \A a \in LoopStages, s \in Slots : [s EXCEPT !.at = a] \in Slots
  BY TimerAssumption DEF Fresh, Slots, LoopStages

\* Every step keeps the type of the tasks.
LEMMA SlotStep ==
  ASSUME TimerInv, Next PROVE loop' \in [Loops -> Slots]
  <1>0. loop \in [Loops -> Slots] /\ TypeOK
    BY DEF TimerInv, TypeOK, Slots
  <1>1. CASE UNCHANGED loop
    BY <1>0, <1>1
  <1>2. ASSUME NEW l \in Loops, NEW s \in Slots, loop' = [loop EXCEPT ![l] = s]
        PROVE  loop' \in [Loops -> Slots]
    BY <1>0, <1>2
  <1>3. ASSUME NEW l \in Loops, TickInactive(l) PROVE loop' \in [Loops -> Slots]
    <2>1. [Fresh EXCEPT !.at = "raised"] \in Slots
      BY SlotType DEF LoopStages
    <2> QED
      BY <1>2, <1>3, <2>1 DEF TickInactive
  <1>4. ASSUME NEW l \in Loops, TickKeeps(l) PROVE loop' \in [Loops -> Slots]
    <2>1. [at |-> Asleep, event |-> 0, wake |-> IF Held = 0 THEN NextDue ELSE 0]
             \in Slots
      BY <1>0, TickType DEF Slots
    <2> QED
      BY <1>2, <1>4, <2>1 DEF TickKeeps
  <1>5. ASSUME NEW l \in Loops, TickSubmits(l) PROVE loop' \in [Loops -> Slots]
    <2>1. [at |-> "publishing", event |-> Held, wake |-> NextDue] \in Slots
      BY <1>0, TickType DEF Slots, LoopStages
    <2> QED
      BY <1>2, <1>5, <2>1 DEF TickSubmits
  <1>6. ASSUME NEW l \in Loops, Published(l) PROVE loop' \in [Loops -> Slots]
    <2>1. [loop[l] EXCEPT !.at = Asleep, !.event = 0] \in Slots
      BY <1>0, TickType DEF Slots
    <2> QED
      BY <1>2, <1>6, <2>1 DEF Published
  <1>7. ASSUME NEW l \in Loops, PublishFails(l) PROVE loop' \in [Loops -> Slots]
    <2>1. [Fresh EXCEPT !.at = "raised"] \in Slots
      BY SlotType DEF LoopStages
    <2> QED
      BY <1>2, <1>7, <2>1 DEF PublishFails
  <1>8. ASSUME NEW l \in Loops, Timeout(l) PROVE loop' \in [Loops -> Slots]
    <2>1. [loop[l] EXCEPT !.at = "awake"] \in Slots
      BY <1>0, SlotType DEF LoopStages
    <2> QED
      BY <1>0, <1>8, <2>1 DEF Timeout
  <1>9. ASSUME NEW l \in Loops, LoopEnds(l) PROVE loop' \in [Loops -> Slots]
    <2>1. [Fresh EXCEPT !.at = "ended"] \in Slots
      BY SlotType DEF LoopStages
    <2> QED
      BY <1>2, <1>9, <2>1 DEF LoopEnds
  <1>10. ASSUME NEW p \in Preflights, StopTimer(p) PROVE loop' \in [Loops -> Slots]
    <2>1. \A l \in Loops : [loop[l] EXCEPT !.at = "awake"] \in Slots
      BY <1>0, SlotType DEF LoopStages
    <2> QED
      BY <1>0, <1>10, <2>1 DEF StopTimer
  <1>11. ASSUME NEW p \in Preflights, Joined(p) PROVE loop' \in [Loops -> Slots]
    <2>1. Fresh \in Slots
      BY SlotType
    <2> QED
      BY <1>0, <1>11, <2>1 DEF Joined
  <1>12. ASSUME NEW p \in Preflights, StartSource(p) PROVE loop' \in [Loops -> Slots]
    <2>1. CASE UNCHANGED loop
      BY <1>0, <2>1
    <2>2. ASSUME NEW l \in Loops, loop' = [loop EXCEPT ![l].at = "awake"]
          PROVE  loop' \in [Loops -> Slots]
      <3>1. [loop[l] EXCEPT !.at = "awake"] \in Slots
        BY <1>0, SlotType DEF LoopStages
      <3> QED
        BY <1>0, <2>2, <3>1
    <2> QED
      BY <1>12, <2>1, <2>2 DEF StartSource, StartTimer
  <1>13. ASSUME NEW p \in Preflights,
                Pause(p) \/ CancelPause(p) \/ Prepare(p) \/ Resume(p) \/ StartFails(p)
         PROVE  UNCHANGED loop
    BY <1>13 DEF Pause, CancelPause, Prepare, Resume, StartFails
  <1>14. ClockStep \/ QueueFills \/ QueueDrains \/ (\E d \in Days : Evict(d))
           => UNCHANGED loop
    BY DEF ClockStep, QueueFills, QueueDrains, Evict
  <1> QED
    BY <1>1, <1>3, <1>4, <1>5, <1>6, <1>7, <1>8, <1>9, <1>10, <1>11, <1>12,
       <1>13, <1>14 DEF Next, Serve, Tick, Publish, Preflight

Calls == [at : PreStages, joins : Loops \cup {NoLoop}, gone : BOOLEAN]

\* A preflight stays one, whatever it does next.
LEMMA CallType ==
  ASSUME TypeOK, NEW p \in Preflights
  PROVE  /\ Outside \in Calls /\ pre[p] \in Calls /\ pre \in [Preflights -> Calls]
         /\ Stopped(p) \in Calls /\ Joining(p) \in Calls
         /\ \A a \in PreStages : [pre[p] EXCEPT !.at = a] \in Calls
         /\ [pre[p] EXCEPT !.gone = TRUE] \in Calls
         /\ [Outside EXCEPT !.at = "pausing", !.gone = TRUE] \in Calls
  BY DEF TypeOK, Calls, Outside, Stopped, Joining, PreStages

\* Every step keeps the types.
LEMMA TypeStep ==
  ASSUME TimerInv, Next PROVE TypeOK'
  <1>0. TypeOK /\ loop' \in [Loops -> Slots]
    BY SlotStep DEF TimerInv
  <1> USE <1>0, TimerAssumption DEF TypeOK, Slots, PreStages
  <1>1. CASE ClockStep
    <2>1. day' \in Days
      BY <1>1 DEF ClockStep, Days
    <2>2. late' \in BOOLEAN
      BY <1>1 DEF ClockStep
    <2> QED
      BY <1>1, <2>1, <2>2 DEF ClockStep, days, queue, source, cursor, history
  <1>2. CASE QueueFills
    BY <1>2 DEF QueueFills, Days, days, queue, source, cursor, history, clock
  <1>3. CASE QueueDrains
    BY <1>3 DEF QueueDrains, Days, days, queue, source, cursor, history, clock
  <1>4. ASSUME NEW d \in Days, Evict(d) PROVE TypeOK'
    BY <1>4 DEF Evict, clock, days, source, cursor, history
  <1>5. ASSUME NEW l \in Loops, TickInactive(l) PROVE TypeOK'
    BY <1>5 DEF TickInactive, Days, clock, days, queue, source, cursor, history
  <1>6. ASSUME NEW l \in Loops, TickKeeps(l) PROVE TypeOK'
    <2>1. pending' \in 0 .. LastDay /\ emitted' \in 0 .. LastDay
      BY <1>6, TickType DEF TickKeeps, Days
    <2> QED
      BY <1>6, <2>1 DEF TickKeeps, clock, days, queue, source, history
  <1>7. ASSUME NEW l \in Loops, TickSubmits(l) PROVE TypeOK'
    <2>1. Held \in Days /\ Held \in 0 .. LastDay
      BY <1>7, TickType DEF TickSubmits
    <2>2. pending' \in 0 .. LastDay /\ emitted' \in 0 .. LastDay
      BY <1>7, <2>1 DEF TickSubmits, Days
    <2>3. accepted[Held] \in Nat /\ accepted[Held] + 1 \in Nat
      BY <2>1
    <2>4. accepted' \in [Days -> Nat] /\ known' \subseteq Days
      BY <1>7, <2>1, <2>3 DEF TickSubmits
    <2> QED
      BY <1>7, <2>2, <2>4 DEF TickSubmits, clock, days, source
  <1>8. ASSUME NEW l \in Loops, Published(l) PROVE TypeOK'
    BY <1>8 DEF Published, Days, clock, days, queue, source, cursor, history
  <1>9. ASSUME NEW l \in Loops, PublishFails(l) PROVE TypeOK'
    BY <1>9 DEF PublishFails, Days, clock, days, queue, source, cursor, history
  <1>10. ASSUME NEW l \in Loops, Timeout(l) PROVE TypeOK'
    BY <1>10 DEF Timeout, Days, clock, days, queue, source, cursor, history
  <1>11. ASSUME NEW l \in Loops, LoopEnds(l) PROVE TypeOK'
    BY <1>11 DEF LoopEnds, Days, clock, days, queue, source, cursor, history
  <1>12. ASSUME NEW p \in Preflights, Pause(p) PROVE TypeOK'
    <2>1. pre' \in [Preflights -> Calls]
      BY <1>12, CallType DEF Pause
    <2> QED
      BY <1>12, <2>1 DEF Pause, Calls, clock, days, queue, cursor, history
  <1>13. ASSUME NEW p \in Preflights, StopTimer(p) PROVE TypeOK'
    <2>1. pre' \in [Preflights -> Calls]
      BY <1>13, CallType DEF StopTimer
    <2>2. publisher' \in BOOLEAN /\ stop' \in BOOLEAN /\ task' \in Loops \cup {NoLoop}
      BY <1>13 DEF StopTimer
    <2> QED
      BY <1>13, <2>1, <2>2 DEF StopTimer, Calls, clock, days, queue, cursor, history
  <1>14. ASSUME NEW p \in Preflights, Joined(p) PROVE TypeOK'
    <2>1. pre' \in [Preflights -> Calls]
      BY <1>14, CallType DEF Joined
    <2> QED
      BY <1>14, <2>1 DEF Joined, Calls, clock, days, queue, source, cursor, history
  <1>15. ASSUME NEW p \in Preflights, Prepare(p) PROVE TypeOK'
    <2>1. pre' \in [Preflights -> Calls]
      BY <1>15, CallType DEF Prepare
    <2> QED
      BY <1>15, <2>1 DEF Prepare, Calls, clock, days, queue, source, cursor, history
  <1>16. ASSUME NEW p \in Preflights, Resume(p) PROVE TypeOK'
    <2>1. pre' \in [Preflights -> Calls]
      BY <1>16, CallType DEF Resume
    <2>2. overlapped' \in BOOLEAN
      BY <1>16 DEF Resume
    <2> QED
      BY <1>16, <2>1, <2>2 DEF Resume, Calls, clock, days, queue, cursor
  <1>17. ASSUME NEW p \in Preflights, StartSource(p) PROVE TypeOK'
    <2>1. pre' \in [Preflights -> Calls]
      BY <1>17, CallType DEF StartSource
    <2>2. overlapped' \in BOOLEAN /\ belated' \in BOOLEAN
      BY <1>17 DEF StartSource
    <2>3. stop' \in BOOLEAN /\ task' \in Loops \cup {NoLoop}
      BY <1>17 DEF StartSource, StartTimer
    <2> QED
      BY <1>17, <2>1, <2>2, <2>3 DEF StartSource, Calls, clock, days, queue, cursor
  <1>18. ASSUME NEW p \in Preflights, StartFails(p) PROVE TypeOK'
    <2>1. pre' \in [Preflights -> Calls]
      BY <1>18, CallType DEF StartFails
    <2>2. failures' \in 0 .. MaxFailures
      BY <1>18 DEF StartFails
    <2> QED
      BY <1>18, <2>1, <2>2 DEF StartFails, Calls, clock, queue, cursor, history
  <1>19. ASSUME NEW p \in Preflights, CancelPause(p) PROVE TypeOK'
    <2>1. pre' \in [Preflights -> Calls]
      BY <1>19, CallType DEF CancelPause
    <2>2. failures' \in 0 .. MaxFailures
      BY <1>19 DEF CancelPause
    <2> QED
      BY <1>19, <2>1, <2>2
         DEF CancelPause, Calls, clock, queue, source, cursor, history
  <1> QED
    BY <1>1, <1>2, <1>3, <1>4, <1>5, <1>6, <1>7, <1>8, <1>9, <1>10, <1>11,
       <1>12, <1>13, <1>14, <1>15, <1>16, <1>17, <1>18, <1>19
       DEF Next, Serve, Tick, Publish, Preflight

(* Who owns the tasks.                                                     *)

\* Every task stays the timer's own or a preflight's.
LEMMA OwnedStep ==
  ASSUME TimerInv, Next PROVE Owned'
  <1>1. CASE ClockStep
    BY <1>1
       DEF ClockStep, TimerInv, TypeOK, Owned, Used, Fresh, clock, days, queue,
           source, cursor, history
  <1>2. CASE QueueFills
    BY <1>2
       DEF QueueFills, TimerInv, TypeOK, Owned, Used, Fresh, clock, days,
           queue, source, cursor, history
  <1>3. CASE QueueDrains
    BY <1>3
       DEF QueueDrains, TimerInv, TypeOK, Owned, Used, Fresh, clock, days,
           queue, source, cursor, history
  <1>4. ASSUME NEW d \in Days, Evict(d) PROVE Owned'
    BY <1>4
       DEF Evict, TimerInv, TypeOK, Owned, Used, Fresh, clock, days, queue,
           source, cursor, history
  <1>5. ASSUME NEW l \in Loops, TickInactive(l) PROVE Owned'
    BY <1>5
       DEF TickInactive, TimerInv, TypeOK, Owned, Used, Fresh, clock, days,
           queue, source, cursor, history
  <1>6. ASSUME NEW l \in Loops, TickKeeps(l) PROVE Owned'
    BY <1>6
       DEF TickKeeps, Asleep, TimerInv, TypeOK, Owned, Used, Fresh, clock,
           days, queue, source, cursor, history
  <1>7. ASSUME NEW l \in Loops, TickSubmits(l) PROVE Owned'
    BY <1>7
       DEF TickSubmits, TimerInv, TypeOK, Owned, Used, Fresh, clock, days,
           queue, source, cursor, history
  <1>8. ASSUME NEW l \in Loops, Published(l) PROVE Owned'
    BY <1>8
       DEF Published, Asleep, TimerInv, TypeOK, Owned, Used, Fresh, clock,
           days, queue, source, cursor, history
  <1>9. ASSUME NEW l \in Loops, PublishFails(l) PROVE Owned'
    BY <1>9
       DEF PublishFails, TimerInv, TypeOK, Owned, Used, Fresh, clock, days,
           queue, source, cursor, history
  <1>10. ASSUME NEW l \in Loops, Timeout(l) PROVE Owned'
    BY <1>10
       DEF Timeout, TimerInv, TypeOK, Owned, Used, Fresh, clock, days, queue,
           source, cursor, history
  <1>11. ASSUME NEW l \in Loops, LoopEnds(l) PROVE Owned'
    BY <1>11
       DEF LoopEnds, TimerInv, TypeOK, Owned, Used, Fresh, clock, days, queue,
           source, cursor, history
  <1>12. ASSUME NEW p \in Preflights, Pause(p) PROVE Owned'
    BY <1>12
       DEF Pause, TimerInv, TypeOK, Owned, Used, Fresh, clock, days, queue,
           source, cursor, history
  <1>13. ASSUME NEW p \in Preflights, StopTimer(p) PROVE Owned'
    <2>1. \A l \in Loops : Used(l)' <=> Used(l)
      BY <1>13 DEF StopTimer, Used, TimerInv, TypeOK
    <2>2. pre[p].joins = NoLoop
      BY <1>13 DEF StopTimer, TimerInv, Owned
    <2>3. /\ pre'[p].joins = task /\ task' = NoLoop
          /\ pre'[p].at = "joining" <=> task # NoLoop
          /\ \A q \in Preflights : q # p => pre'[q] = pre[q]
      BY <1>13 DEF StopTimer, Joining, Stopped, Outside, TimerInv, TypeOK
    <2>4. task # NoLoop => task \in Loops /\ Used(task)
      BY DEF TimerInv, TypeOK, Owned
    <2>5. \A q \in Preflights : pre[q].joins # NoLoop =>
             /\ pre[q].at = "joining" /\ pre[q].joins \in Loops
             /\ Used(pre[q].joins) /\ pre[q].joins # task
      BY DEF TimerInv, Owned
    <2>6. \A q \in Preflights :
             IF pre'[q].at = "joining"
             THEN pre'[q].joins \in Loops /\ Used(pre'[q].joins)
                  /\ pre'[q].joins # NoLoop
             ELSE pre'[q].joins = NoLoop
      BY <2>3, <2>4, <2>5, TimerAssumption DEF TimerInv, Owned
    <2>7. \A q, r \in Preflights :
             pre'[q].joins = pre'[r].joins /\ pre'[q].joins # NoLoop => q = r
      BY <2>3, <2>5 DEF TimerInv, Owned
    <2>8. \A l \in Loops : Used(l) => \E q \in Preflights : pre'[q].joins = l
      BY <2>2, <2>3, TimerAssumption DEF TimerInv, Owned
    <2> QED
      BY <2>1, <2>3, <2>6, <2>7, <2>8 DEF Owned
  <1>14. ASSUME NEW p \in Preflights, Joined(p) PROVE Owned'
    <2> DEFINE m == pre[p].joins
    <2>1. m \in Loops /\ m # task /\ m # NoLoop
      BY <1>14, TimerAssumption DEF Joined, TimerInv, Owned
    <2>2. /\ task' = task /\ pre'[p] = Stopped(p)
          /\ \A q \in Preflights : q # p => pre'[q] = pre[q]
      BY <1>14 DEF Joined, TimerInv, TypeOK, source
    <2>3. \A l \in Loops : Used(l)' <=> Used(l) /\ l # m
      BY <1>14, <2>1 DEF Joined, Used, Fresh, TimerInv, TypeOK
    <2>4. \A q \in Preflights : q # p => pre[q].joins # m
      BY <2>1 DEF TimerInv, Owned
    <2>5. pre'[p].at \in {"idle", "preparing"} /\ pre'[p].joins = NoLoop
      BY <2>2 DEF Stopped, Outside
    <2>6. \A q \in Preflights :
             IF pre'[q].at = "joining"
             THEN /\ pre'[q].joins \in Loops /\ pre'[q].joins # task
                  /\ loop'[pre'[q].joins].at # "none"
             ELSE pre'[q].joins = NoLoop
      <3> SUFFICES ASSUME NEW q \in Preflights, q # p
                   PROVE  IF pre'[q].at = "joining"
                          THEN /\ pre'[q].joins \in Loops /\ pre'[q].joins # task
                               /\ loop'[pre'[q].joins].at # "none"
                          ELSE pre'[q].joins = NoLoop
        BY <2>5
      <3>1. pre'[q] = pre[q]
        BY <2>2
      <3>2. IF pre[q].at = "joining"
            THEN pre[q].joins \in Loops /\ Used(pre[q].joins) /\ pre[q].joins # task
            ELSE pre[q].joins = NoLoop
        BY DEF TimerInv, Owned
      <3>3. pre[q].joins # m
        BY <2>4
      <3> QED
        BY <3>1, <3>2, <3>3, <2>3 DEF Used
    <2>7. \A q, r \in Preflights :
             pre'[q].joins = pre'[r].joins /\ pre'[q].joins # NoLoop => q = r
      BY <2>2, <2>5 DEF TimerInv, Owned
    <2>8. task # NoLoop => loop'[task].at # "none"
      BY <2>1, <2>3 DEF TimerInv, TypeOK, Owned, Used
    <2>9. ASSUME NEW l \in Loops, Used(l), l # m
          PROVE  l = task \/ \E q \in Preflights : pre'[q].joins = l
      <3>1. l = task \/ \E q \in Preflights : pre[q].joins = l
        BY <2>9 DEF TimerInv, Owned
      <3>2. \A q \in Preflights : pre[q].joins = l => pre'[q].joins = l
        BY <2>2, <2>9
      <3> QED
        BY <3>1, <3>2
    <2> QED
      BY <2>2, <2>3, <2>6, <2>7, <2>8, <2>9 DEF Owned, Used
  <1>15. ASSUME NEW p \in Preflights, Prepare(p) PROVE Owned'
    BY <1>15
       DEF Prepare, TimerInv, TypeOK, Owned, Used, Fresh, clock, days, queue,
           source, cursor, history
  <1>16. ASSUME NEW p \in Preflights, Resume(p) PROVE Owned'
    BY <1>16
       DEF Resume, TimerInv, TypeOK, Owned, Used, clock, days, queue, cursor
  <1>17. ASSUME NEW p \in Preflights, StartSource(p) PROVE Owned'
    BY <1>17
       DEF StartSource, StartTimer, TimerInv, TypeOK, Owned, Used, Fresh, clock,
           days, queue, cursor
  <1>18. ASSUME NEW p \in Preflights, StartFails(p) PROVE Owned'
    BY <1>18
       DEF StartFails, Outside, TimerInv, TypeOK, Owned, Used, clock, queue, cursor,
           history
  <1>19. ASSUME NEW p \in Preflights, CancelPause(p) PROVE Owned'
    BY <1>19
       DEF CancelPause, TimerInv, TypeOK, Owned, Used, clock, queue, source, cursor,
           history
  <1> QED
    BY <1>1, <1>2, <1>3, <1>4, <1>5, <1>6, <1>7, <1>8, <1>9, <1>10, <1>11,
       <1>12, <1>13, <1>14, <1>15, <1>16, <1>17, <1>18, <1>19
       DEF Next, Serve, Tick, Publish, Preflight


\* A paused source stays without a timer.
LEMMA PausedStep ==
  ASSUME TimerInv, Next PROVE Paused'
  <1>1. CASE ClockStep
    BY <1>1
       DEF ClockStep, TimerInv, TypeOK, Paused, clock, days, queue, source,
           cursor, history
  <1>2. CASE QueueFills
    BY <1>2
       DEF QueueFills, TimerInv, TypeOK, Paused, clock, days, queue, source,
           cursor, history
  <1>3. CASE QueueDrains
    BY <1>3
       DEF QueueDrains, TimerInv, TypeOK, Paused, clock, days, queue, source,
           cursor, history
  <1>4. ASSUME NEW d \in Days, Evict(d) PROVE Paused'
    BY <1>4
       DEF Evict, TimerInv, TypeOK, Paused, clock, days, queue, source, cursor,
           history
  <1>5. ASSUME NEW l \in Loops, TickInactive(l) PROVE Paused'
    BY <1>5
       DEF TickInactive, TimerInv, TypeOK, Paused, clock, days, queue, source,
           cursor, history
  <1>6. ASSUME NEW l \in Loops, TickKeeps(l) PROVE Paused'
    BY <1>6
       DEF TickKeeps, TimerInv, TypeOK, Paused, clock, days, queue, source,
           cursor, history
  <1>7. ASSUME NEW l \in Loops, TickSubmits(l) PROVE Paused'
    BY <1>7
       DEF TickSubmits, TimerInv, TypeOK, Paused, clock, days, queue, source,
           cursor, history
  <1>8. ASSUME NEW l \in Loops, Published(l) PROVE Paused'
    BY <1>8
       DEF Published, TimerInv, TypeOK, Paused, clock, days, queue, source,
           cursor, history
  <1>9. ASSUME NEW l \in Loops, PublishFails(l) PROVE Paused'
    BY <1>9
       DEF PublishFails, TimerInv, TypeOK, Paused, clock, days, queue, source,
           cursor, history
  <1>10. ASSUME NEW l \in Loops, Timeout(l) PROVE Paused'
    BY <1>10
       DEF Timeout, TimerInv, TypeOK, Paused, clock, days, queue, source,
           cursor, history
  <1>11. ASSUME NEW l \in Loops, LoopEnds(l) PROVE Paused'
    BY <1>11
       DEF LoopEnds, TimerInv, TypeOK, Paused, clock, days, queue, source,
           cursor, history
  <1>12. ASSUME NEW p \in Preflights, Pause(p) PROVE Paused'
    BY <1>12
       DEF Pause, TimerInv, TypeOK, Paused, clock, days, queue, source, cursor,
           history
  <1>13. ASSUME NEW p \in Preflights, StopTimer(p) PROVE Paused'
    BY <1>13
       DEF StopTimer, Joining, Stopped, Outside, TimerInv, TypeOK, Paused, clock,
           days, queue, source, cursor, history
  <1>14. ASSUME NEW p \in Preflights, Joined(p) PROVE Paused'
    BY <1>14
       DEF Joined, Stopped, Outside, TimerInv, TypeOK, Paused, clock, days, queue,
           source, cursor, history
  <1>15. ASSUME NEW p \in Preflights, Prepare(p) PROVE Paused'
    BY <1>15
       DEF Prepare, TimerInv, TypeOK, Paused, clock, days, queue, source,
           cursor, history
  <1>16. ASSUME NEW p \in Preflights, Resume(p) PROVE Paused'
    BY <1>16 DEF Resume, Paused
  <1>17. ASSUME NEW p \in Preflights, StartSource(p) PROVE Paused'
    BY <1>17 DEF StartSource, TimerInv, TypeOK, Paused
  <1>18. ASSUME NEW p \in Preflights, StartFails(p) PROVE Paused'
    BY <1>18 DEF StartFails, Outside, TimerInv, TypeOK, Paused, history
  <1>19. ASSUME NEW p \in Preflights, CancelPause(p) PROVE Paused'
    BY <1>19 DEF CancelPause, TimerInv, TypeOK, Paused, source, history
  <1> QED
    BY <1>1, <1>2, <1>3, <1>4, <1>5, <1>6, <1>7, <1>8, <1>9, <1>10, <1>11,
       <1>12, <1>13, <1>14, <1>15, <1>16, <1>17, <1>18, <1>19
       DEF Next, Serve, Tick, Publish, Preflight

(* The counts.                                                             *)

\* The numbers that the counts compare.
LEMMA Numbers ==
  ASSUME TypeOK
  PROVE  /\ day \in Nat /\ emitted \in Nat /\ pending \in Nat /\ evictions \in Nat
         /\ \A d \in Days : d \in Nat /\ d # 0 /\ accepted[d] \in Nat
  BY TimerAssumption DEF TypeOK, Days

\* A day is counted when it is accepted, and the cursor is not behind it.
LEMMA CountedStep ==
  ASSUME TimerInv, Next PROVE Counted'
  <1>0. TypeOK /\ Counted
    BY DEF TimerInv
  <1>1. CASE ClockStep
    BY <1>0, <1>1, Numbers
       DEF ClockStep, Counted, clock, days, queue, source, cursor, history
  <1>2. CASE QueueFills
    BY <1>0, <1>2, Numbers
       DEF QueueFills, Counted, clock, days, queue, source, cursor, history
  <1>3. CASE QueueDrains
    BY <1>0, <1>3, Numbers
       DEF QueueDrains, Counted, clock, days, queue, source, cursor, history
  <1>4. ASSUME NEW d \in Days, Evict(d) PROVE Counted'
    BY <1>0, <1>4, Numbers
       DEF Evict, Counted, clock, days, source, cursor, history
  <1>5. ASSUME NEW l \in Loops, TickInactive(l) PROVE Counted'
    BY <1>0, <1>5, Numbers
       DEF TickInactive, Counted, clock, days, queue, source, cursor, history
  <1>6. ASSUME NEW l \in Loops, TickKeeps(l) PROVE Counted'
    BY <1>0, <1>6, Numbers
       DEF TickKeeps, Held, Due, Counted, clock, days, queue, source, cursor,
           history
  <1>7. ASSUME NEW l \in Loops, TickSubmits(l) PROVE Counted'
    <2>1. Held \in Days /\ Held # 0
      BY <1>0, <1>7, TickType DEF TickSubmits
    <2>2. Held <= emitted' /\ emitted <= emitted' /\ emitted' <= day
      BY <1>0, <1>7, Numbers DEF TickSubmits, Held, Due, Counted
    <2>3. accepted'[Held] = IF Held \in known THEN accepted[Held] ELSE accepted[Held] + 1
      BY <1>0, <1>7, <2>1 DEF TickSubmits, TypeOK
    <2>4. \A d \in Days : d # Held => accepted'[d] = accepted[d]
      BY <1>0, <1>7 DEF TickSubmits, TypeOK
    <2>5. \A d \in Days : accepted'[d] > 0 => d <= emitted'
      <3> SUFFICES ASSUME NEW d \in Days, d # Held, accepted'[d] > 0
                   PROVE  d <= emitted'
        BY <2>2
      <3>1. d <= emitted
        BY <1>0, <2>4 DEF Counted
      <3>2. emitted' \in Nat /\ emitted \in Nat /\ d \in Nat
        BY <1>0, <1>7, Numbers DEF TickSubmits
      <3> QED
        BY <2>2, <3>1, <3>2
    <2>6. \A d \in Days : d \in known' => accepted'[d] > 0
      BY <1>0, <1>7, <2>1, <2>3, <2>4, Numbers DEF TickSubmits, Counted
    <2>7. \A d \in Days : accepted'[d] > 0 /\ d \notin known' => evictions > 0
      BY <1>0, <1>7, <2>4 DEF TickSubmits, Counted
    <2>8. \A d \in Days : accepted'[d] > 1 => evictions > 0
      BY <1>0, <2>1, <2>3, <2>4, Numbers DEF Counted
    <2> QED
      BY <1>7, <2>2, <2>5, <2>6, <2>7, <2>8 DEF TickSubmits, Counted, clock
  <1>8. ASSUME NEW l \in Loops, Published(l) PROVE Counted'
    BY <1>0, <1>8, Numbers
       DEF Published, Counted, clock, days, queue, source, cursor, history
  <1>9. ASSUME NEW l \in Loops, PublishFails(l) PROVE Counted'
    BY <1>0, <1>9, Numbers
       DEF PublishFails, Counted, clock, days, queue, source, cursor, history
  <1>10. ASSUME NEW l \in Loops, Timeout(l) PROVE Counted'
    BY <1>0, <1>10, Numbers
       DEF Timeout, Counted, clock, days, queue, source, cursor, history
  <1>11. ASSUME NEW l \in Loops, LoopEnds(l) PROVE Counted'
    BY <1>0, <1>11, Numbers
       DEF LoopEnds, Counted, clock, days, queue, source, cursor, history
  <1>12. ASSUME NEW p \in Preflights, Pause(p) PROVE Counted'
    BY <1>0, <1>12
       DEF Pause, Counted, clock, days, queue, source, cursor, history
  <1>13. ASSUME NEW p \in Preflights, StopTimer(p) PROVE Counted'
    BY <1>0, <1>13
       DEF StopTimer, Counted, clock, days, queue, source, cursor, history
  <1>14. ASSUME NEW p \in Preflights, Joined(p) PROVE Counted'
    BY <1>0, <1>14
       DEF Joined, Counted, clock, days, queue, source, cursor, history
  <1>15. ASSUME NEW p \in Preflights, Prepare(p) PROVE Counted'
    BY <1>0, <1>15
       DEF Prepare, Counted, clock, days, queue, source, cursor, history
  <1>16. ASSUME NEW p \in Preflights, Resume(p) PROVE Counted'
    BY <1>0, <1>16 DEF Resume, Counted, clock, queue, cursor
  <1>17. ASSUME NEW p \in Preflights, StartSource(p) PROVE Counted'
    BY <1>0, <1>17 DEF StartSource, Counted, clock, queue, cursor
  <1>18. ASSUME NEW p \in Preflights, StartFails(p) PROVE Counted'
    BY <1>0, <1>18 DEF StartFails, Counted, clock, queue, cursor, history
  <1>19. ASSUME NEW p \in Preflights, CancelPause(p) PROVE Counted'
    BY <1>0, <1>19 DEF CancelPause, Counted, clock, queue, cursor, history
  <1> QED
    BY <1>1, <1>2, <1>3, <1>4, <1>5, <1>6, <1>7, <1>8, <1>9, <1>10, <1>11,
       <1>12, <1>13, <1>14, <1>15, <1>16, <1>17, <1>18, <1>19
       DEF Next, Serve, Tick, Publish, Preflight

(* Without overlap.                                                        *)

\* An overlap is remembered.
LEMMA OverlapStays ==
  ASSUME TimerInv, Next, ~overlapped' PROVE ~overlapped /\ Alone /\ Settled
  <1>1. ASSUME NEW p \in Preflights, Resume(p) \/ StartSource(p) PROVE ~overlapped
    BY <1>1 DEF Resume, StartSource, TimerInv, TypeOK
  <1>2. ~overlapped
    BY <1>1 DEF StartFails, CancelPause, Next, Serve, Tick, Publish, Preflight, ClockStep, QueueFills,
       QueueDrains, Evict, TickInactive, TickKeeps, TickSubmits, Published,
       PublishFails, Timeout, LoopEnds, Pause, StopTimer, Joined, Prepare, history
  <1> QED
    BY <1>2 DEF TimerInv

\* Without overlap the timer has one task, which has a sink to publish to.
LEMMA AloneStep ==
  ASSUME TimerInv, Next, ~overlapped' PROVE Alone'
  <1>0. TypeOK /\ Owned /\ Alone
    BY OverlapStays DEF TimerInv
  <1>1. CASE ClockStep
    BY <1>0, <1>1
       DEF ClockStep, Alone, Busy, Used, clock, days, queue, source, cursor,
           history
  <1>2. CASE QueueFills
    BY <1>0, <1>2
       DEF QueueFills, Alone, Busy, Used, clock, days, queue, source, cursor,
           history
  <1>3. CASE QueueDrains
    BY <1>0, <1>3
       DEF QueueDrains, Alone, Busy, Used, clock, days, queue, source, cursor,
           history
  <1>4. ASSUME NEW d \in Days, Evict(d) PROVE Alone'
    BY <1>0, <1>4
       DEF Evict, Alone, Busy, Used, clock, days, queue, source, cursor, history
  <1>5. ASSUME NEW l \in Loops, TickInactive(l) PROVE Alone'
    BY <1>0, <1>5
       DEF TypeOK, Fresh, TickInactive, Alone, Busy, Used, clock, days, queue,
           source, cursor, history
  <1>6. ASSUME NEW l \in Loops, TickKeeps(l) PROVE Alone'
    BY <1>0, <1>6
       DEF TypeOK, Fresh, TickKeeps, Asleep, Alone, Busy, Used, clock, days,
           queue, source, cursor, history
  <1>7. ASSUME NEW l \in Loops, TickSubmits(l) PROVE Alone'
    BY <1>0, <1>7
       DEF TypeOK, Fresh, TickSubmits, Alone, Busy, Used, clock, days, queue,
           source, cursor, history
  <1>8. ASSUME NEW l \in Loops, Published(l) PROVE Alone'
    BY <1>0, <1>8
       DEF TypeOK, Fresh, Published, Asleep, Alone, Busy, Used, clock, days,
           queue, source, cursor, history
  <1>9. ASSUME NEW l \in Loops, PublishFails(l) PROVE Alone'
    BY <1>0, <1>9
       DEF TypeOK, Fresh, PublishFails, Alone, Busy, Used, clock, days, queue,
           source, cursor, history
  <1>10. ASSUME NEW l \in Loops, Timeout(l) PROVE Alone'
    BY <1>0, <1>10
       DEF TypeOK, Fresh, Timeout, Alone, Busy, Used, clock, days, queue,
           source, cursor, history
  <1>11. ASSUME NEW l \in Loops, LoopEnds(l) PROVE Alone'
    BY <1>0, <1>11
       DEF TypeOK, Fresh, LoopEnds, Alone, Busy, Used, clock, days, queue,
           source, cursor, history
  <1>12. ASSUME NEW p \in Preflights, Pause(p) PROVE Alone'
    BY <1>0, <1>12
       DEF TypeOK, Pause, Alone, Busy, Used, clock, days, queue, source,
           cursor, history
  <1>13. ASSUME NEW p \in Preflights, StopTimer(p) PROVE Alone'
    <2>1. /\ pre[p].at = "pausing" /\ task' = NoLoop /\ running' = running
          /\ \A q \in Preflights : q # p => pre'[q] = pre[q]
          /\ publisher' = (publisher /\ task # NoLoop) /\ failed' = failed
      BY <1>0, <1>13 DEF StopTimer, TypeOK, source, history
    <2>2. \A q \in Preflights : Busy(q) => q = p
      BY <1>0, <2>1 DEF Alone, Busy
    <2>3. \A l \in Loops : /\ loop'[l].at = "raised" => loop[l].at = "raised"
                           /\ loop'[l].at # "none" => Used(l)
      BY <1>0, <1>13 DEF StopTimer, TypeOK, Used
    <2>4. \A q \in Preflights : pre[q].joins = NoLoop
      BY <1>0, <2>1, <2>2 DEF Owned, Busy
    <2>5. \A l \in Loops : Used(l) => l = task
      BY <1>0, <2>4, TimerAssumption DEF Owned
    <2>6. \A l \in Loops : loop'[l].at # "none" => publisher'
      BY <1>0, <2>1, <2>3, <2>5, TimerAssumption DEF Alone
    <2>7. ~running
      BY <1>0, <2>1 DEF Alone, Busy
    <2> QED
      BY <1>0, <2>1, <2>2, <2>3, <2>6, <2>7 DEF Alone, Busy, Used
  <1>14. ASSUME NEW p \in Preflights, Joined(p) PROVE Alone'
    <2> DEFINE m == pre[p].joins
    <2>1. /\ pre[p].at = "joining" /\ m \in Loops
          /\ pre'[p].at \in {"idle", "preparing"} /\ running' = running
          /\ failed' = failed /\ \A q \in Preflights : q # p => pre'[q] = pre[q]
      BY <1>0, <1>14 DEF Joined, Stopped, Outside, TypeOK, Owned, history
    <2>2. \A q \in Preflights : Busy(q) => q = p
      BY <1>0, <2>1 DEF Alone, Busy
    <2>3. task = NoLoop
      BY <1>0, <2>1 DEF Alone
    <2>4. \A l \in Loops : Used(l) => l = m
      <3> SUFFICES ASSUME NEW l \in Loops, Used(l) PROVE l = m
        OBVIOUS
      <3>1. PICK q \in Preflights : pre[q].joins = l
        BY <1>0, <2>3, TimerAssumption DEF Owned
      <3>2. Busy(q)
        BY <1>0, <3>1, TimerAssumption DEF Owned, Busy
      <3> QED
        BY <2>2, <3>1, <3>2
    <2>5. \A l \in Loops : loop'[l].at = "none"
      BY <1>0, <1>14, <2>1, <2>4 DEF Joined, TypeOK, Fresh, Used
    <2>6. \A q \in Preflights : pre'[q].at \notin {"pausing", "joining"}
      BY <2>1, <2>2 DEF Busy
    <2> QED
      BY <2>5, <2>6 DEF Alone, Busy, Used
  <1>15. ASSUME NEW p \in Preflights, Prepare(p) PROVE Alone'
    BY <1>0, <1>15
       DEF TypeOK, Prepare, Alone, Busy, Used, clock, days, queue, source,
           cursor, history
  <1>16. ASSUME NEW p \in Preflights, Resume(p) PROVE Alone'
    <2>1. /\ pre[p].at = "resuming" /\ pre'[p].at \in {"idle", "starting"} /\ running'
          /\ \A q \in Preflights : q # p => pre'[q] = pre[q]
          /\ UNCHANGED <<failed, publisher, task, loop>>
      BY <1>0, <1>16 DEF Resume, TypeOK
    <2>2. \A q \in Preflights : ~Busy(q)
      BY <1>0, <1>16, OverlapStays DEF Resume, BeingStopped, Alone, Busy, TypeOK
    <2>3. \A q \in Preflights : pre'[q].at \notin {"pausing", "joining"}
      BY <2>1, <2>2 DEF Busy
    <2> QED
      BY <1>0, <2>1, <2>3 DEF Alone, Busy, Used
  <1>17. ASSUME NEW p \in Preflights, StartSource(p) PROVE Alone'
    <2>1. /\ pre[p].at = "starting" /\ pre'[p].at = "idle" /\ running' = running
          /\ \A q \in Preflights : q # p => pre'[q] = pre[q]
          /\ failed' = failed /\ publisher'
      BY <1>0, <1>17 DEF StartSource, TypeOK
    <2>2. \A q \in Preflights : ~Busy(q)
      BY <1>0, <1>17, OverlapStays DEF StartSource, BeingStopped, Busy, TypeOK
    <2>3. \A q \in Preflights : pre'[q].at \notin {"pausing", "joining"}
      BY <2>1, <2>2 DEF Busy
    <2>4. \A l \in Loops : loop'[l].at = "raised" => loop[l].at = "raised"
      BY <1>0, <1>17 DEF StartSource, StartTimer, TypeOK
    <2> QED
      BY <1>0, <2>1, <2>3, <2>4 DEF Alone, Busy, Used
  <1>18. ASSUME NEW p \in Preflights, StartFails(p) PROVE Alone'
    <2>1. /\ pre[p].at = "starting" /\ ~running'
          /\ pre'[p].at = (IF running THEN "pausing" ELSE "idle")
          /\ \A q \in Preflights : q # p => pre'[q] = pre[q]
          /\ UNCHANGED <<failed, publisher, task, loop>>
      BY <1>0, <1>18 DEF StartFails, Outside, TypeOK, history
    <2>2. running => \A q \in Preflights : ~Busy(q)
      BY <1>0 DEF Alone
    <2> QED
      BY <1>0, <2>1, <2>2 DEF Alone, Busy, Used
  <1>19. ASSUME NEW p \in Preflights, CancelPause(p) PROVE Alone'
    <2>1. /\ \A q \in Preflights : pre'[q].at = pre[q].at
          /\ UNCHANGED <<failed, running, publisher, task, loop>>
      BY <1>0, <1>19 DEF CancelPause, TypeOK, source, history
    <2> QED
      BY <1>0, <2>1 DEF Alone, Busy, Used
  <1> QED
    BY <1>1, <1>2, <1>3, <1>4, <1>5, <1>6, <1>7, <1>8, <1>9, <1>10, <1>11,
       <1>12, <1>13, <1>14, <1>15, <1>16, <1>17, <1>18, <1>19
       DEF Next, Serve, Tick, Publish, Preflight

\* Without overlap and failures no day is accepted twice.
LEMMA SettledStep ==
  ASSUME TimerInv, Next, ~overlapped' PROVE Settled'
  <1>0. TypeOK /\ Owned /\ Counted /\ Alone /\ Settled
    BY OverlapStays DEF TimerInv
  <1>1. CASE ClockStep
    BY <1>0, <1>1
       DEF ClockStep, Settled, clock, days, queue, source, cursor, history
  <1>2. CASE QueueFills
    BY <1>0, <1>2
       DEF QueueFills, Settled, clock, days, queue, source, cursor, history
  <1>3. CASE QueueDrains
    BY <1>0, <1>3
       DEF QueueDrains, Settled, clock, days, queue, source, cursor, history
  <1>4. ASSUME NEW d \in Days, Evict(d) PROVE Settled'
    BY <1>0, <1>4
       DEF Evict, Settled, clock, days, queue, source, cursor, history
  <1>5. ASSUME NEW l \in Loops, TickInactive(l) PROVE Settled'
    <2>1. \A m \in Loops : loop[m].at = "publishing" => loop'[m] = loop[m]
      BY <1>0, <1>5 DEF TickInactive, TypeOK
    <2> QED
      BY <1>0, <1>5, <2>1
         DEF TickInactive, Settled, clock, days, queue, source, cursor, history
  <1>6. ASSUME NEW l \in Loops, TickKeeps(l) PROVE Settled'
    <2> SUFFICES ASSUME NEW d \in Days, accepted[d] > 0, d \notin failed
                 PROVE  /\ accepted[d] = 1
                        /\ pending' = d => \E m \in Loops :
                             loop'[m].at = "publishing" /\ loop'[m].event = d
      BY <1>6 DEF TickKeeps, Settled, history
    <2>1. d <= emitted /\ accepted[d] = 1
      BY <1>0 DEF Counted, Settled
    <2>2. pending' = d => pending = d
      BY <1>0, <1>6, <2>1, Numbers DEF TickKeeps, Held, Due
    <2>3. ASSUME NEW m \in Loops, loop[m].at = "publishing", loop[m].event = d
          PROVE  loop'[m].at = "publishing" /\ loop'[m].event = d
      BY <1>0, <1>6, <2>3 DEF TickKeeps, TypeOK
    <2> QED
      BY <1>0, <2>1, <2>2, <2>3 DEF Settled
  <1>7. ASSUME NEW l \in Loops, TickSubmits(l) PROVE Settled'
    <2>1. Held \in Days /\ loop'[l].at = "publishing" /\ loop'[l].event = Held
      BY <1>0, <1>7, TickType DEF TickSubmits, TypeOK
    <2>2. \A d \in Days : accepted'[d] =
             IF d = Held /\ d \notin known THEN accepted[d] + 1 ELSE accepted[d]
      BY <1>0, <1>7, <2>1 DEF TickSubmits, TypeOK
    <2>3. \A m \in Loops : Used(m) => m = l
      <3>1. Used(l)
        BY <1>7 DEF TickSubmits, Used
      <3> SUFFICES ASSUME NEW m \in Loops, Used(m) PROVE m = l
        OBVIOUS
      <3>2. \A p \in Preflights : pre[p].joins # NoLoop =>
               pre[p].at = "joining" /\ Busy(p) /\ task = NoLoop
        BY <1>0 DEF Owned, Alone, Busy
      <3>3. ASSUME NEW p \in Preflights, NEW q \in Preflights,
                   pre[p].joins = m, pre[q].joins = l
            PROVE  m = l
        BY <1>0, <3>2, <3>3, TimerAssumption DEF Alone
      <3> QED
        BY <1>0, <3>1, <3>2, <3>3, TimerAssumption DEF Owned
    <2>4. ASSUME Held \notin failed, accepted[Held] > 0 PROVE FALSE
      <3>1. CASE pending = Held
        <4>1. PICK m \in Loops : loop[m].at = "publishing"
          BY <1>0, <2>1, <2>4, <3>1 DEF Settled
        <4> QED
          BY <1>7, <2>3, <4>1 DEF TickSubmits, Used
      <3>2. CASE pending # Held
        BY <1>0, <1>7, <2>1, <2>4, <3>2, Numbers
           DEF TickSubmits, Held, Due, Counted
      <3> QED
        BY <3>1, <3>2
    <2>5. accepted[Held] \in Nat
      BY <1>0, <2>1, Numbers
    <2>6. Held \notin failed => accepted'[Held] \in {0, 1}
      BY <2>1, <2>2, <2>4, <2>5
    <2>7. \A d \in Days : accepted'[d] > 0 /\ d \notin failed => accepted'[d] = 1
      BY <1>0, <2>2, <2>6 DEF Settled
    <2>8. pending' = Held /\ failed' = failed
      BY <1>7 DEF TickSubmits
    <2> QED
      BY <2>1, <2>7, <2>8 DEF Settled
  <1>8. ASSUME NEW l \in Loops, Published(l) PROVE Settled'
    <2>1. \A d \in Days : pending' # d
      BY <1>8, <1>0, Numbers DEF Published
    <2> QED
      BY <1>0, <1>8, <2>1 DEF Published, Settled, history
  <1>9. ASSUME NEW l \in Loops, PublishFails(l) PROVE Settled'
    <2>1. \A m \in Loops : loop[m].event \notin failed' => loop'[m] = loop[m]
      BY <1>0, <1>9 DEF PublishFails, TypeOK
    <2>2. failed \subseteq failed' /\ pending' = pending /\ accepted' = accepted
      BY <1>9 DEF PublishFails, cursor
    <2> QED
      BY <1>0, <2>1, <2>2 DEF Settled
  <1>10. ASSUME NEW l \in Loops, Timeout(l) PROVE Settled'
    <2>1. \A m \in Loops : loop[m].at = "publishing" => loop'[m] = loop[m]
      BY <1>0, <1>10 DEF Timeout, TypeOK
    <2> QED
      BY <1>0, <1>10, <2>1
         DEF Timeout, Settled, clock, days, queue, source, cursor, history
  <1>11. ASSUME NEW l \in Loops, LoopEnds(l) PROVE Settled'
    <2>1. \A m \in Loops : loop[m].at = "publishing" => loop'[m] = loop[m]
      BY <1>0, <1>11 DEF LoopEnds, TypeOK
    <2> QED
      BY <1>0, <1>11, <2>1
         DEF LoopEnds, Settled, clock, days, queue, source, cursor, history
  <1>12. ASSUME NEW p \in Preflights, Pause(p) PROVE Settled'
    BY <1>0, <1>12
       DEF Pause, Settled, clock, days, queue, source, cursor, history
  <1>13. ASSUME NEW p \in Preflights, StopTimer(p) PROVE Settled'
    <2>1. \A m \in Loops : loop[m].at = "publishing" => loop'[m] = loop[m]
      BY <1>0, <1>13 DEF StopTimer, TypeOK
    <2> QED
      BY <1>0, <1>13, <2>1
         DEF StopTimer, Settled, clock, days, queue, source, cursor, history
  <1>14. ASSUME NEW p \in Preflights, Joined(p) PROVE Settled'
    <2>1. \A m \in Loops : loop[m].at = "publishing" => loop'[m] = loop[m]
      BY <1>0, <1>14 DEF Joined, TypeOK
    <2> QED
      BY <1>0, <1>14, <2>1
         DEF Joined, Settled, clock, days, queue, source, cursor, history
  <1>15. ASSUME NEW p \in Preflights, Prepare(p) PROVE Settled'
    BY <1>0, <1>15
       DEF Prepare, Settled, clock, days, queue, source, cursor, history
  <1>16. ASSUME NEW p \in Preflights, Resume(p) PROVE Settled'
    BY <1>0, <1>16 DEF Resume, Settled, cursor
  <1>17. ASSUME NEW p \in Preflights, StartSource(p) PROVE Settled'
    <2>1. \A m \in Loops : loop[m].at = "publishing" => loop'[m] = loop[m]
      BY <1>0, <1>17 DEF StartSource, StartTimer, TypeOK
    <2> QED
      BY <1>0, <1>17, <2>1 DEF StartSource, Settled, cursor
  <1>18. ASSUME NEW p \in Preflights, StartFails(p) PROVE Settled'
    BY <1>0, <1>18 DEF StartFails, Settled, cursor, history
  <1>19. ASSUME NEW p \in Preflights, CancelPause(p) PROVE Settled'
    BY <1>0, <1>19 DEF CancelPause, Settled, cursor, history
  <1> QED
    BY <1>1, <1>2, <1>3, <1>4, <1>5, <1>6, <1>7, <1>8, <1>9, <1>10, <1>11,
       <1>12, <1>13, <1>14, <1>15, <1>16, <1>17, <1>18, <1>19
       DEF Next, Serve, Tick, Publish, Preflight

----------------------------------------------------------------------------
(* The theorems.                                                           *)

\* Every behaviour stays in the inductive invariant.
THEOREM TimerInvariant == Spec => []TimerInv
  <1>1. Init => TimerInv
    BY TimerStart
  <1>2. TimerInv /\ [Next]_vars => TimerInv'
    <2>1. ASSUME TimerInv, Next PROVE TimerInv'
      <3>1. TypeOK' /\ Owned' /\ Paused' /\ Counted'
        BY <2>1, TypeStep, OwnedStep, PausedStep, CountedStep
      <3>2. ~overlapped' => Alone' /\ Settled'
        BY <2>1, AloneStep, SettledStep
      <3> QED
        BY <3>1, <3>2 DEF TimerInv
    <2>2. ASSUME TimerInv, UNCHANGED vars PROVE TimerInv'
      BY <2>2 DEF vars, clock, days, queue, source, cursor, history, TimerInv,
         TypeOK, Owned, Paused, Counted, Alone, Settled, Used, Busy
    <2> QED
      BY <2>1, <2>2
  <1> QED
    BY <1>1, <1>2, PTL DEF Spec

\* The variables keep their types.
THEOREM TimerTypeCorrect == Spec => []TypeOK
  <1>1. TimerInv => TypeOK
    BY DEF TimerInv
  <1> QED
    BY <1>1, TimerInvariant, PTL

\* AcceptedOnce: the daily work of a day enters the root queue once, unless its
\* event failed or the source was started while it was being stopped, and its
\* first requests were forgotten.
THEOREM TimerAcceptedOnce == Spec => []AcceptedOnce
  <1>1. TimerInv => AcceptedOnce
    <2> SUFFICES ASSUME TimerInv, NEW d \in Days, accepted[d] > 1
                 PROVE  evictions > 0 /\ (d \in failed \/ overlapped)
      BY DEF AcceptedOnce
    <2>1. evictions > 0
      BY DEF TimerInv, Counted
    <2>2. accepted[d] > 0 /\ accepted[d] # 1
      BY Numbers DEF TimerInv
    <2> QED
      BY <2>1, <2>2 DEF TimerInv, Settled
  <1> QED
    BY <1>1, TimerInvariant, PTL

\* JoinedWhenPaused: while the source is paused and nobody is stopping it, no
\* serve task is at work, unless the timer was started after the pause.
THEOREM TimerJoinedWhenPaused == Spec => []JoinedWhenPaused
  <1>1. TimerInv => JoinedWhenPaused
    <2> SUFFICES ASSUME TimerInv, ~running, ~belated, NEW l \in Loops, Live(l),
                        \A p \in Preflights :
                           pre[p].at \notin {"pausing", "joining"}
                 PROVE  FALSE
      BY DEF JoinedWhenPaused, BeingStopped
    <2>1. task = NoLoop
      BY DEF TimerInv, Paused
    <2>2. Used(l)
      BY DEF Live, Used
    <2>3. \A p \in Preflights : pre[p].joins = NoLoop
      BY DEF TimerInv, Owned
    <2> QED
      BY <2>1, <2>2, <2>3, TimerAssumption DEF TimerInv, Owned
  <1> QED
    BY <1>1, TimerInvariant, PTL

\* TimerRunsAlone: without overlap one serve task at most is at work, it can
\* publish, and nothing but a failed publication ends it with an exception.
THEOREM TimerIsAlone == Spec => []TimerRunsAlone
  <1>1. TimerInv => TimerRunsAlone
    <2> SUFFICES ASSUME TimerInv, ~overlapped PROVE
                   /\ \A l, m \in Loops : Live(l) /\ Live(m) => l = m
                   /\ (\E l \in Loops : Live(l)) => publisher
                   /\ (\E l \in Loops : loop[l].at = "raised") => failed # {}
      BY DEF TimerRunsAlone
    <2>0. Owned /\ Alone
      BY DEF TimerInv
    <2>1. \A l \in Loops : Live(l) => Used(l)
      BY DEF Live, Used
    <2>2. \A p \in Preflights : pre[p].joins # NoLoop =>
             Busy(p) /\ task = NoLoop
      BY <2>0 DEF Owned, Alone, Busy
    <2>3. ASSUME NEW l \in Loops, NEW m \in Loops, Used(l), Used(m)
          PROVE  l = m
      <3>1. ASSUME NEW p \in Preflights, NEW q \in Preflights,
                   pre[p].joins = l, pre[q].joins = m
            PROVE  l = m
        BY <2>0, <2>2, <3>1, TimerAssumption DEF Alone
      <3> QED
        BY <2>0, <2>2, <2>3, <3>1, TimerAssumption DEF Owned
    <2> QED
      BY <2>0, <2>1, <2>3 DEF Alone
  <1> QED
    BY <1>1, TimerInvariant, PTL

=============================================================================
