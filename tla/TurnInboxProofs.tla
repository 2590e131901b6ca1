-------------------------- MODULE TurnInboxProofs --------------------------
(***************************************************************************)
(* Proofs about the Turn inbox (TurnInbox), for any sets of identities,    *)
(* any limits and any number of facts and Cycles.                          *)
(***************************************************************************)
EXTENDS TurnInbox, TLAPS

\* Eviction never touches the receipt of an identity that is to be kept, and
\* changes a receipt only by dropping it.
LEMMA EvictSpares ==
  ASSUME NEW D, NEW rs \in [D -> Nat], NEW keep
  PROVE  /\ Evict(rs, keep) \in [D -> Nat]
         /\ \A i \in D \cap keep : Evict(rs, keep)[i] = rs[i]
         /\ \A i \in D : Evict(rs, keep)[i] \in {0, rs[i]}
  BY DEF Evict

\* _ready answers with a wake reason.
LEMMA ReadyType == Ready \in Wakes
  BY DEF Ready, Wakes

\* What is said about the facts and their numbers survives every step that
\* leaves them alone.
LEMMA DataStill ==
  ASSUME InboxInv, UNCHANGED <<sequence, facts, receipts, superseded, captured, top,
                               acknowledged, after, installed>>
  PROVE  ExactlyOnce' /\ Numbered' /\ CursorOK' /\ PendingHasReceipt' /\ TwoStateSlots'
  BY DEF InboxInv, ExactlyOnce, Numbered, CursorOK, PendingHasReceipt, TwoStateSlots, Of,
      Pending, Superseded, Seqs

\* Accepting a fact: it gets the next number, and may replace facts that are
\* not in the captured batch.
LEMMA Intake ==
  ASSUME InboxInv, NEW gone \in SUBSET facts, NEW n \in Facts, n.seq = sequence + 1,
         n.kind \in RecordKinds => n.id \in RecordIds,
         captured => \A f \in gone : f.seq > top,
         facts' = (facts \ gone) \cup {n}, sequence' = sequence + 1,
         superseded' = superseded \cup gone,
         unseen' = (unseen \ Seqs(gone)) \cup {s \in {sequence + 1} : n.kind # "state"},
         UNCHANGED <<batchVars, after, pc>>
  PROVE  /\ ExactlyOnce' /\ Numbered' /\ BatchOK' /\ CursorOK' /\ UnseenOK'
         /\ facts' \subseteq Facts /\ superseded' \subseteq Facts
         /\ unseen' \subseteq Numbers /\ sequence' \in Nat
  <1> USE DEF InboxInv, batchVars
  <1>1. /\ sequence \in Nat /\ facts \subseteq Facts /\ superseded \subseteq Facts
        /\ \A f \in Facts : f.seq \in Nat \ {0}
    BY DEF TypeOK, Facts, Numbers
  <1>2. Pending' = (Pending \ Seqs(gone)) \cup {sequence + 1}
    BY <1>1 DEF Pending, Seqs, Numbered
  <1>3. Superseded' = Superseded \cup Seqs(gone)
    BY DEF Superseded, Seqs
  <1>4. Seqs(gone) \subseteq Pending
    BY DEF Seqs, Pending
  <1>5. /\ Pending \cup installed \cup Superseded = 1 .. sequence
        /\ Pending \cap installed = {} /\ Pending \cap Superseded = {}
        /\ installed \cap Superseded = {}
    BY DEF ExactlyOnce
  <1>6. ExactlyOnce'
    BY <1>1, <1>2, <1>3, <1>4, <1>5 DEF ExactlyOnce
  <1>7. \A f \in facts : f.seq \in 1 .. sequence
    BY <1>5 DEF Pending, Seqs
  <1>8. Numbered'
    BY <1>1, <1>7 DEF Numbered
  <1>9. CursorOK'
    BY <1>1, <1>7 DEF CursorOK, TypeOK
  <1>10. BatchOK'
    <2>1. captured => batch \subseteq Pending'
      BY <1>1, <1>2 DEF BatchOK, Seqs, TypeOK
    <2>2. captured => \A f \in facts' : f.seq <= top => f.seq \in batch
      BY <1>1 DEF BatchOK, TypeOK
    <2> QED
      BY <1>1, <2>1, <2>2 DEF BatchOK, TypeOK
  <1>11. UnseenOK'
    <2>1. \A f \in facts' : f.seq \in unseen' <=> f.kind # "state"
      <3> SUFFICES ASSUME NEW f \in facts' PROVE f.seq \in unseen' <=> f.kind # "state"
        OBVIOUS
      <3>1. CASE f = n
        BY <1>1, <3>1 DEF UnseenOK
      <3>2. CASE f \in facts /\ f \notin gone
        <4>1. f.seq \notin Seqs(gone)
          BY <3>2 DEF Seqs, Numbered
        <4>2. f.seq # sequence + 1
          BY <1>1, <1>7, <3>2
        <4> QED
          BY <3>2, <4>1, <4>2 DEF UnseenOK
      <3> QED
        BY <3>1, <3>2
    <2>2. pc' \in Running => unseen' \subseteq Pending'
      BY <1>2 DEF UnseenOK
    <2>3. \A s \in unseen' : s <= sequence'
      BY <1>1 DEF UnseenOK, TypeOK, Numbers
    <2>4. unseen' \cap Superseded' = {}
      BY <1>1, <1>3, <1>4, <1>5 DEF UnseenOK
    <2> QED
      BY <2>1, <2>2, <2>3, <2>4 DEF UnseenOK
  <1>12. /\ facts' \subseteq Facts /\ superseded' \subseteq Facts
         /\ unseen' \subseteq Numbers /\ sequence' \in Nat
    BY <1>1 DEF TypeOK, Numbers
  <1> QED
    BY <1>6, <1>8, <1>9, <1>10, <1>11, <1>12

\* Installing and acknowledging a batch: what leaves the inbox is exactly what
\* was installed.
LEMMA Acked ==
  ASSUME InboxInv, Ack, pc \in Preparing
  PROVE  /\ ExactlyOnce' /\ Numbered' /\ PendingHasReceipt' /\ TwoStateSlots'
         /\ SlotsMatchJobs'
         /\ receipts' \in [RecordIds \cup Questions -> Nat]
         /\ \A f \in facts' : f.seq > acknowledged'
         /\ acknowledged' <= sequence' /\ acknowledged' \in Nat
         /\ acknowledged <= acknowledged'
         /\ Pending' = Pending \ batch
         /\ facts' = {f \in facts : f.seq > top}
         /\ captured /\ ~captured' /\ batch' = {} /\ top' = 0 /\ sequence' = sequence
  <1> USE DEF InboxInv
  <1>0. captured
    BY DEF BatchOK
  <1>1. /\ sequence \in Nat /\ facts \subseteq Facts /\ superseded \subseteq Facts
        /\ \A f \in Facts : f.seq \in Nat \ {0}
        /\ top \in Nat /\ acknowledged \in Nat
    BY DEF TypeOK, Facts, Numbers
  <1>2. Pending' = Pending \ batch
    <2>1. \A f \in facts : f.seq <= top <=> f.seq \in batch
      BY <1>0 DEF BatchOK
    <2> QED
      BY <2>1 DEF Pending, Seqs, Ack, Covers
  <1>3. ExactlyOnce'
    <2>1. batch \subseteq Pending
      BY <1>0 DEF BatchOK
    <2>2. /\ installed' = installed \cup batch /\ sequence' = sequence
          /\ superseded' = superseded
      BY DEF Ack
    <2> QED
      BY <1>2, <2>1, <2>2 DEF ExactlyOnce, Superseded
  <1>4. facts' = {f \in facts : f.seq > top}
    BY <1>1 DEF Ack, Covers
  <1>5. Numbered'
    BY <1>4 DEF Numbered
  <1>6. /\ receipts' \in [RecordIds \cup Questions -> Nat]
        /\ \A f \in facts' : f.kind \in RecordKinds => receipts'[f.id] = receipts[f.id]
    <2> DEFINE keep == {f.id : f \in {g \in facts' : g.kind \in RecordKinds \cup {"reply"}}}
    <2>1. receipts' = Evict(receipts, keep)
      BY DEF Ack
    <2>2. receipts \in [RecordIds \cup Questions -> Nat]
      BY DEF TypeOK
    <2>3. \A f \in facts' : f.kind \in RecordKinds =>
             f.id \in (RecordIds \cup Questions) \cap keep
      BY <1>4 DEF Numbered
    <2> QED
      BY <2>1, <2>2, <2>3, EvictSpares
  <1>7. PendingHasReceipt'
    BY <1>4, <1>6 DEF PendingHasReceipt, Of
  <1>8. TwoStateSlots'
    BY <1>0, <1>1, <1>4 DEF TwoStateSlots, Of
  <1>9. /\ \A f \in facts' : f.seq > acknowledged'
        /\ acknowledged' <= sequence' /\ acknowledged' \in Nat
        /\ acknowledged <= acknowledged'
    BY <1>1, <1>4 DEF Ack, CursorOK, BatchOK
  <1>10. SlotsMatchJobs'
    BY <1>1, <1>4 DEF Ack, SlotsOK, SlotsMatchJobs, Unfinished, HasInput, KeepsRequests, Covers, Of
  <1>11. ~captured' /\ batch' = {} /\ top' = 0 /\ sequence' = sequence
    BY DEF Ack
  <1> QED
    BY <1>0, <1>2, <1>3, <1>4, <1>5, <1>6, <1>7, <1>8, <1>9, <1>10, <1>11

\* A record enters: its receipt is there, and at most one state notification
\* that is not in the captured batch goes.
LEMMA Entered ==
  ASSUME InboxInv, NEW k \in RecordKinds, NEW i \in RecordIds, receipts[i] = 0, Enters(k, i),
         UNCHANGED <<batchVars, after, pc>>
  PROVE  /\ ExactlyOnce' /\ Numbered' /\ BatchOK' /\ CursorOK' /\ UnseenOK'
         /\ PendingHasReceipt' /\ TwoStateSlots'
         /\ facts' \subseteq Facts /\ superseded' \subseteq Facts
         /\ unseen' \subseteq Numbers /\ sequence' \in Nat
         /\ receipts' \in [RecordIds \cup Questions -> Nat]
         /\ \A f \in facts : f.kind \notin RecordKinds => f \in facts'
         /\ \A f \in facts' : f.kind \notin RecordKinds => f \in facts
  <1> USE DEF InboxInv
  <1> DEFINE n == Fact(k, i)
             gone == Replaced(k)
  <1>1. /\ gone \in SUBSET facts /\ n \in Facts /\ n.seq = sequence + 1
        /\ n.kind = k /\ n.id = i
        /\ captured => \A f \in gone : f.seq > top
    BY DEF Replaced, Of, Fact, Facts, Ids, Kinds, Numbers, TypeOK
  <1>2. \A f \in gone : f.kind = "state" /\ f.seq \notin unseen
    BY DEF Replaced, Of, UnseenOK
  <1>3. /\ facts' = (facts \ gone) \cup {n} /\ sequence' = sequence + 1
        /\ superseded' = superseded \cup gone
    BY DEF Enters
  <1>4. unseen' = (unseen \ Seqs(gone)) \cup {s \in {sequence + 1} : n.kind # "state"}
    BY <1>1, <1>2 DEF Enters, Seqs
  <1>5. /\ ExactlyOnce' /\ Numbered' /\ BatchOK' /\ CursorOK' /\ UnseenOK'
        /\ facts' \subseteq Facts /\ superseded' \subseteq Facts
        /\ unseen' \subseteq Numbers /\ sequence' \in Nat
    <2> HIDE DEF n, gone
    <2> QED
      BY <1>1, <1>3, <1>4, Intake
  <1>6. /\ receipts' \in [RecordIds \cup Questions -> Nat] /\ PendingHasReceipt'
    <2> DEFINE keep == {f.id : f \in {g \in facts' : g.kind \in RecordKinds}}
               rs == [receipts EXCEPT ![i] = sequence + 1]
    <2>1. receipts' = Evict(rs, keep)
      BY DEF Enters
    <2>2. rs \in [RecordIds \cup Questions -> Nat]
      BY DEF TypeOK
    <2>3. \A f \in facts' : f.kind \in RecordKinds =>
             /\ f.id \in (RecordIds \cup Questions) \cap keep
             /\ rs[f.id] = f.seq
      <3> SUFFICES ASSUME NEW f \in facts', f.kind \in RecordKinds
                   PROVE  /\ f.id \in (RecordIds \cup Questions) \cap keep
                          /\ rs[f.id] = f.seq
        OBVIOUS
      <3>1. CASE f = n
        BY <1>1, <3>1 DEF TypeOK
      <3>2. CASE f \in facts
        BY <3>2 DEF Numbered, PendingHasReceipt, Of, TypeOK, Facts, Numbers
      <3> QED
        BY <1>3, <3>1, <3>2
    <2> HIDE DEF rs, keep
    <2>4. receipts' \in [RecordIds \cup Questions -> Nat]
      BY <2>1, <2>2, EvictSpares
    <2>5. \A f \in facts' : f.kind \in RecordKinds => receipts'[f.id] = f.seq
      BY <2>1, <2>2, <2>3, EvictSpares
    <2> QED
      BY <2>4, <2>5 DEF PendingHasReceipt, Of
  <1>7. TwoStateSlots'
    <2>1. \A f \in facts : f.seq <= sequence /\ f.seq \in Nat
      BY DEF ExactlyOnce, Pending, Seqs, TypeOK, Facts, Numbers
    <2>2. top <= sequence /\ sequence \in Nat /\ top \in Nat
      BY DEF BatchOK, TypeOK
    <2> SUFFICES ASSUME NEW f \in facts', NEW g \in facts', f.kind = "state",
                        g.kind = "state", f.seq < g.seq
                 PROVE  captured /\ f.seq <= top /\ top < g.seq
      BY DEF TwoStateSlots, Of, batchVars
    <2>3. CASE f \in facts /\ g \in facts
      BY <2>3 DEF TwoStateSlots, Of
    <2>4. CASE g = n /\ f \in facts /\ f \notin gone
      <3>1. (captured /\ f.seq <= top) \/ \E h \in facts : h.kind = "state" /\ f.seq < h.seq
        BY <1>1, <2>1, <2>2, <2>4 DEF Replaced, Of
      <3>2. captured /\ f.seq <= top
        BY <3>1, <2>4 DEF TwoStateSlots, Of
      <3> QED
        BY <1>1, <2>2, <2>4, <3>2
    <2>5. CASE f = n
      BY <1>1, <1>3, <2>1, <2>2, <2>5
    <2> QED
      BY <1>3, <2>3, <2>4, <2>5
  <1>8. /\ \A f \in facts : f.kind \notin RecordKinds => f \in facts'
        /\ \A f \in facts' : f.kind \notin RecordKinds => f \in facts
    BY <1>1, <1>2, <1>3 DEF RecordKinds
  <1> QED
    BY <1>5, <1>6, <1>7, <1>8

\* A Job delivers its terminal fact.
LEMMA Delivered ==
  ASSUME InboxInv, NEW j \in Jobs, jobs[j] \in {"live", "closed"}, Delivers(j),
         UNCHANGED <<batchVars, after, pc, reserved>>
  PROVE  /\ ExactlyOnce' /\ Numbered' /\ BatchOK' /\ CursorOK' /\ UnseenOK'
         /\ PendingHasReceipt' /\ TwoStateSlots'
         /\ facts' \subseteq Facts /\ superseded' = superseded
         /\ unseen' \subseteq Numbers /\ sequence' \in Nat
         /\ receipts' = receipts
         /\ facts' = facts \cup {Fact("terminal", j)}
         /\ j \in reserved
         /\ \A f \in facts : f.kind = "terminal" => f.id # j
  <1> USE DEF InboxInv
  <1> DEFINE n == Fact("terminal", j)
  <1>1. /\ {} \in SUBSET facts /\ n \in Facts /\ n.seq = sequence + 1
        /\ n.kind = "terminal" /\ n.id = j /\ n.kind \notin RecordKinds
    BY DEF Fact, Facts, Ids, Kinds, RecordKinds, Numbers, TypeOK
  <1>2. /\ facts' = (facts \ {}) \cup {n} /\ sequence' = sequence + 1
        /\ superseded' = superseded \cup {} /\ receipts' = receipts
        /\ unseen' = (unseen \ Seqs({})) \cup {s \in {sequence + 1} : n.kind # "state"}
    BY <1>1 DEF Delivers, Seqs
  <1>3. /\ ExactlyOnce' /\ Numbered' /\ BatchOK' /\ CursorOK' /\ UnseenOK'
        /\ facts' \subseteq Facts /\ unseen' \subseteq Numbers /\ sequence' \in Nat
    <2> HIDE DEF n
    <2> QED
      BY <1>1, <1>2, Intake
  <1>4. PendingHasReceipt' /\ TwoStateSlots'
    BY <1>1, <1>2 DEF PendingHasReceipt, TwoStateSlots, Of, batchVars
  <1>5. j \in reserved /\ \A f \in facts : f.kind = "terminal" => f.id # j
    BY DEF SlotsOK, SlotsMatchJobs, Unfinished, Of
  <1> QED
    BY <1>2, <1>3, <1>4, <1>5

\* A wait that finds no reason to wake has nothing pending that it is for.
LEMMA ReadyNone ==
  Ready = "none" => \A f \in facts : f.seq > after => ~Matches(f)
  <1> DEFINE hits == {f \in facts : f.seq > after /\ Matches(f)}
             first == CHOOSE f \in hits : \A g \in hits : f.seq <= g.seq
  <1>1. ASSUME hits # {} PROVE Ready # "none"
    <2>1. Ready = IF first.kind \in {"input", "reply"} THEN first.kind
                  ELSE IF first.kind \in {"event", "state"} THEN "event" ELSE "job"
      BY <1>1 DEF Ready
    <2> QED
      BY <2>1
  <1> QED
    BY <1>1

\* Every step preserves the inductive invariant.
LEMMA InboxNext == InboxInv /\ [Next]_vars => InboxInv'
  <1> SUFFICES ASSUME InboxInv, [Next]_vars PROVE InboxInv'
    OBVIOUS
  <1>0. /\ TypeOK /\ ExactlyOnce /\ Numbered /\ BatchOK /\ CursorOK
        /\ PendingHasReceipt /\ TwoStateSlots /\ SleeperHasNothing
        /\ BudgetOK /\ QuestionOK /\ SlotsOK /\ UnseenOK /\ CompletedOK /\ EndOK
    BY DEF InboxInv
  <1> USE InboxAssumption, <1>0
  <1>1. ASSUME NEW i \in Inputs \cup Events \cup States, Accept(i) PROVE InboxInv'
    <2>a. /\ KindOf(i) \in RecordKinds /\ i \in RecordIds /\ receipts[i] = 0
          /\ Enters(KindOf(i), i) /\ UNCHANGED <<batchVars, after, pc>>
      BY <1>1 DEF Accept, KindOf, RecordKinds, RecordIds, waitVars
    <2>1. /\ ExactlyOnce' /\ Numbered' /\ BatchOK' /\ CursorOK' /\ UnseenOK'
          /\ PendingHasReceipt' /\ TwoStateSlots'
          /\ facts' \subseteq Facts /\ superseded' \subseteq Facts
          /\ unseen' \subseteq Numbers /\ sequence' \in Nat
          /\ receipts' \in [RecordIds \cup Questions -> Nat]
          /\ \A f \in facts : f.kind \notin RecordKinds => f \in facts'
          /\ \A f \in facts' : f.kind \notin RecordKinds => f \in facts
      BY <2>a, Entered
    <2>2. TypeOK'
      BY <1>1, <2>1, <2>a DEF Accept, Enters, Notify, jobVars, batchVars, budgetVars, waitVars, TypeOK
    <2>3. SleeperHasNothing'
      BY <2>a DEF Enters, Notify, SleeperHasNothing
    <2>4. BudgetOK'
      BY <1>1, <2>1 DEF Accept, Enters, Fact, Notify, KindOf, intakeVars, jobVars, batchVars,
          budgetVars, waitVars, BudgetOK, BudgetIsExact, Ending, TypeOK
    <2>5. QuestionOK'
      BY <1>1, <2>1 DEF Accept, waitVars, batchVars, QuestionOK, Of, Running, RecordKinds
    <2>6. SlotsOK'
      BY <1>1, <2>1 DEF Accept, jobVars, SlotsOK, SlotsMatchJobs, Unfinished, HasInput, Of, RecordKinds
    <2>7. CompletedOK'
      BY <1>1 DEF Accept, CompletedOK
    <2>8. EndOK'
      BY <1>1 DEF Accept, jobVars, batchVars, EndOK, EverythingInstalledAtEnd, CleanedUp, Ending
    <2> QED
      BY <2>1, <2>2, <2>3, <2>4, <2>5, <2>6, <2>7, <2>8 DEF InboxInv
  <1>2. ASSUME NEW q \in Questions, Reply(q) PROVE InboxInv'
    <2> DEFINE new == Fact("reply", q)
    <2>a. /\ Of({"reply"}) \in SUBSET facts /\ new \in Facts /\ new.seq = sequence + 1
          /\ new.kind = "reply" /\ new.kind \notin RecordKinds /\ ~captured
      BY <1>2 DEF Reply, Of, Fact, Facts, Ids, Kinds, RecordKinds, Numbers, TypeOK, QuestionOK
    <2>b. /\ facts' = (facts \ Of({"reply"})) \cup {new} /\ sequence' = sequence + 1
          /\ superseded' = superseded \cup Of({"reply"})
          /\ unseen' = (unseen \ Seqs(Of({"reply"})))
                          \cup {s \in {sequence + 1} : new.kind # "state"}
          /\ UNCHANGED <<batchVars, after, pc>>
      BY <1>2, <2>a DEF Reply, waitVars
    <2>c. /\ ExactlyOnce' /\ Numbered' /\ BatchOK' /\ CursorOK' /\ UnseenOK'
          /\ facts' \subseteq Facts /\ superseded' \subseteq Facts
          /\ unseen' \subseteq Numbers /\ sequence' \in Nat
      <3> HIDE DEF new
      <3> QED
        BY <2>a, <2>b, Intake
    <2>d. receipts' = [receipts EXCEPT ![q] = sequence + 1]
      BY <1>2 DEF Reply
    <2>e. PendingHasReceipt' /\ TwoStateSlots'
      <3>1. \A f \in Of(RecordKinds) : f.id # q
        BY <1>2 DEF Reply, PendingHasReceipt, Of, TypeOK, Facts, Numbers
      <3>2. \A f \in facts' : f.kind \in RecordKinds => f \in facts
        BY <2>a, <2>b
      <3>3. \A f \in facts : f.kind \in RecordKinds => f.id \in RecordIds
        BY DEF Numbered
      <3>4. PendingHasReceipt'
        BY <2>d, <3>1, <3>2, <3>3 DEF PendingHasReceipt, Of, TypeOK
      <3>5. TwoStateSlots'
        BY <2>b, <3>2 DEF TwoStateSlots, Of, RecordKinds, batchVars
      <3> QED
        BY <3>4, <3>5
    <2>1. /\ ExactlyOnce' /\ Numbered' /\ BatchOK' /\ CursorOK' /\ UnseenOK'
          /\ PendingHasReceipt' /\ TwoStateSlots'
      BY <2>c, <2>e
    <2>2. TypeOK'
      <3>1. receipts' \in [RecordIds \cup Questions -> Nat]
        BY <2>d DEF TypeOK
      <3> QED
        BY <1>2, <2>c, <3>1 DEF Reply, Notify, jobVars, batchVars, budgetVars, waitVars, TypeOK
    <2>3. SleeperHasNothing'
      BY <1>2, <2>1 DEF Reply, Fact, Notify, Seqs, Of, intakeVars, jobVars, batchVars, budgetVars,
          waitVars, SleeperHasNothing, Matches
    <2>4. BudgetOK'
      BY <1>2, <2>1 DEF Reply, Fact, Notify, Seqs, Of, intakeVars, jobVars, batchVars, budgetVars,
          waitVars, BudgetOK, BudgetIsExact, Ending, TypeOK
    <2>5. QuestionOK'
      <3>1. pc \notin Running \cup {"prepareCycle"}
        BY <1>2 DEF Reply, QuestionOK
      <3> QED
        BY <1>2, <3>1 DEF Reply, waitVars, batchVars, QuestionOK, Running
    <2>6. SlotsOK'
      BY <2>a, <2>b, <1>2 DEF Reply, jobVars, SlotsOK, SlotsMatchJobs, Unfinished, HasInput, Of
    <2>7. CompletedOK'
      BY <1>2, <2>1 DEF Reply, Fact, Notify, Seqs, Of, intakeVars, jobVars, batchVars, budgetVars,
          waitVars, CompletedOK, Unfinished, Ending, TypeOK
    <2>8. EndOK'
      BY <1>2, <2>1 DEF Reply, Fact, Notify, Seqs, Of, intakeVars, jobVars, batchVars, budgetVars,
          waitVars, EndOK, EverythingInstalledAtEnd, CleanedUp, Ending
    <2> QED
      BY <2>1, <2>2, <2>3, <2>4, <2>5, <2>6, <2>7, <2>8 DEF InboxInv
  <1>3. ASSUME NEW n \in 1 .. MaxCycles, GrantCycles(n) PROVE InboxInv'
    <2>1. ExactlyOnce' /\ Numbered' /\ CursorOK' /\ PendingHasReceipt' /\ TwoStateSlots'
      BY <1>3, DataStill DEF GrantCycles, Notify, intakeVars, batchVars, waitVars
    <2>2. TypeOK'
      BY <1>3 DEF GrantCycles, Notify, intakeVars, jobVars, batchVars, budgetVars, waitVars,
          TypeOK, Waits, Wakes, JobStates, PCs
    <2>3. BatchOK'
      BY <1>3 DEF GrantCycles, Notify, intakeVars, jobVars, batchVars, budgetVars, waitVars,
          BatchOK, Pending, Seqs, Preparing, Ending
    <2>4. SleeperHasNothing'
      BY <1>3 DEF GrantCycles, Notify, intakeVars, jobVars, batchVars, budgetVars, waitVars,
          SleeperHasNothing, Matches
    <2>5. BudgetOK'
      BY <1>3 DEF GrantCycles, Notify, intakeVars, jobVars, batchVars, budgetVars, waitVars,
          BudgetOK, BudgetIsExact, Ending, TypeOK
    <2>6. QuestionOK'
      BY <1>3 DEF GrantCycles, Notify, intakeVars, jobVars, batchVars, budgetVars, waitVars,
          QuestionOK, Of, Running, TypeOK
    <2>7. SlotsOK'
      BY <1>3 DEF GrantCycles, Notify, intakeVars, jobVars, batchVars, budgetVars, waitVars,
          SlotsOK, SlotsMatchJobs, Unfinished, HasInput, Of, TypeOK, JobStates
    <2>8. UnseenOK'
      BY <1>3 DEF GrantCycles, Notify, intakeVars, jobVars, batchVars, budgetVars, waitVars,
          UnseenOK, Superseded, Pending, Seqs, Running
    <2>9. CompletedOK'
      BY <1>3 DEF GrantCycles, Notify, intakeVars, jobVars, batchVars, budgetVars, waitVars,
          CompletedOK, Unfinished, Ending, TypeOK
    <2>10. EndOK'
      BY <1>3 DEF GrantCycles, Notify, intakeVars, jobVars, batchVars, budgetVars, waitVars,
          EndOK, EverythingInstalledAtEnd, CleanedUp, Ending
    <2> QED
      BY <2>1, <2>2, <2>3, <2>4, <2>5, <2>6, <2>7, <2>8, <2>9, <2>10 DEF InboxInv
  <1>4. ASSUME SourceFails PROVE InboxInv'
    <2>1. ExactlyOnce' /\ Numbered' /\ CursorOK' /\ PendingHasReceipt' /\ TwoStateSlots'
      BY <1>4, DataStill DEF SourceFails, intakeVars, batchVars, waitVars
    <2>2. TypeOK'
      BY <1>4 DEF SourceFails, intakeVars, jobVars, batchVars, budgetVars, waitVars, TypeOK,
          Waits, Wakes, JobStates, PCs
    <2>3. BatchOK'
      BY <1>4 DEF SourceFails, intakeVars, jobVars, batchVars, budgetVars, waitVars, BatchOK,
          Pending, Seqs, Preparing, Ending
    <2>4. SleeperHasNothing'
      BY <1>4 DEF SourceFails, intakeVars, jobVars, batchVars, budgetVars, waitVars,
          SleeperHasNothing, Matches
    <2>5. BudgetOK'
      BY <1>4 DEF SourceFails, intakeVars, jobVars, batchVars, budgetVars, waitVars, BudgetOK,
          BudgetIsExact, Ending, TypeOK
    <2>6. QuestionOK'
      BY <1>4 DEF SourceFails, intakeVars, jobVars, batchVars, budgetVars, waitVars, QuestionOK,
          Of, Running, TypeOK
    <2>7. SlotsOK'
      BY <1>4 DEF SourceFails, intakeVars, jobVars, batchVars, budgetVars, waitVars, SlotsOK,
          SlotsMatchJobs, Unfinished, HasInput, Of, TypeOK, JobStates
    <2>8. UnseenOK'
      BY <1>4 DEF SourceFails, intakeVars, jobVars, batchVars, budgetVars, waitVars, UnseenOK,
          Superseded, Pending, Seqs, Running
    <2>9. CompletedOK'
      BY <1>4 DEF SourceFails, intakeVars, jobVars, batchVars, budgetVars, waitVars, CompletedOK,
          Unfinished, Ending, TypeOK
    <2>10. EndOK'
      BY <1>4 DEF SourceFails, intakeVars, jobVars, batchVars, budgetVars, waitVars, EndOK,
          EverythingInstalledAtEnd, CleanedUp, Ending
    <2> QED
      BY <2>1, <2>2, <2>3, <2>4, <2>5, <2>6, <2>7, <2>8, <2>9, <2>10 DEF InboxInv
  <1>5. ASSUME SourceReports PROVE InboxInv'
    <2> DEFINE taken == /\ ~closed /\ pc = "waiting" /\ wait = "event" /\ receipts[StatusEvent] = 0
                        /\ Cardinality(Of({"input", "event"})) < Capacity
    <2>1. UNCHANGED <<jobVars, batchVars, budgetVars, waitVars, closed, pc, outcome>>
          /\ source' = "reported"
      BY <1>5 DEF SourceReports
    <2>2. CASE taken
      <3>1. Enters("event", StatusEvent) /\ pc = "waiting" /\ ~closed
            /\ receipts[StatusEvent] = 0
        BY <1>5, <2>2 DEF SourceReports
      <3>2. /\ ExactlyOnce' /\ Numbered' /\ BatchOK' /\ CursorOK' /\ UnseenOK'
            /\ PendingHasReceipt' /\ TwoStateSlots'
            /\ facts' \subseteq Facts /\ superseded' \subseteq Facts
            /\ unseen' \subseteq Numbers /\ sequence' \in Nat
            /\ receipts' \in [RecordIds \cup Questions -> Nat]
            /\ \A f \in facts : f.kind \notin RecordKinds => f \in facts'
            /\ \A f \in facts' : f.kind \notin RecordKinds => f \in facts
        BY <2>1, <3>1, Entered DEF RecordKinds, RecordIds, waitVars
      <3>3. TypeOK'
        BY <2>1, <3>1, <3>2 DEF Enters, Notify, jobVars, batchVars, budgetVars, waitVars, TypeOK
      <3>4. SleeperHasNothing'
        BY <3>1 DEF Enters, Notify, SleeperHasNothing
      <3>5. BudgetOK' /\ CompletedOK' /\ EndOK'
        BY <2>1, <3>1 DEF budgetVars, jobVars, batchVars, BudgetOK, BudgetIsExact, CompletedOK,
            EndOK, EverythingInstalledAtEnd, CleanedUp, Ending
      <3>6. QuestionOK'
        BY <2>1, <3>1 DEF waitVars, batchVars, QuestionOK, Running
      <3>7. SlotsOK'
        BY <2>1, <3>2 DEF jobVars, SlotsOK, SlotsMatchJobs, Unfinished, HasInput, Of, RecordKinds
      <3> QED
        BY <3>2, <3>3, <3>4, <3>5, <3>6, <3>7 DEF InboxInv
    <2>3. CASE ~taken
      <3>1. UNCHANGED <<intakeVars, notified>>
        BY <1>5, <2>3 DEF SourceReports
      <3>2. ExactlyOnce' /\ Numbered' /\ CursorOK' /\ PendingHasReceipt' /\ TwoStateSlots'
        BY <2>1, <3>1, DataStill DEF intakeVars, batchVars, waitVars
      <3>3. TypeOK' /\ SleeperHasNothing' /\ BudgetOK' /\ QuestionOK'
        BY <2>1, <3>1 DEF intakeVars, jobVars, batchVars, budgetVars, waitVars, TypeOK,
            SleeperHasNothing, Matches, BudgetOK, BudgetIsExact, QuestionOK, Of
      <3>4. SlotsOK' /\ BatchOK'
        BY <2>1, <3>1 DEF intakeVars, jobVars, batchVars, SlotsOK, SlotsMatchJobs, Unfinished,
            HasInput, Of, BatchOK, Pending, Seqs
      <3>5. UnseenOK' /\ CompletedOK' /\ EndOK'
        BY <2>1, <3>1 DEF intakeVars, jobVars, batchVars, UnseenOK, CompletedOK, Unfinished,
            Superseded, Pending, Seqs, EndOK, EverythingInstalledAtEnd, CleanedUp
      <3> QED
        BY <3>2, <3>3, <3>4, <3>5 DEF InboxInv
    <2> QED
      BY <2>2, <2>3
  <1>6. ASSUME DeadlinePasses PROVE InboxInv'
    <2>1. ExactlyOnce' /\ Numbered' /\ CursorOK' /\ PendingHasReceipt' /\ TwoStateSlots'
      BY <1>6, DataStill DEF DeadlinePasses, Notify, intakeVars, batchVars, waitVars
    <2>2. TypeOK'
      BY <1>6 DEF DeadlinePasses, Notify, intakeVars, jobVars, batchVars, budgetVars, waitVars,
          TypeOK, Waits, Wakes, JobStates, PCs
    <2>3. BatchOK'
      BY <1>6 DEF DeadlinePasses, Notify, intakeVars, jobVars, batchVars, budgetVars, waitVars,
          BatchOK, Pending, Seqs, Preparing, Ending
    <2>4. SleeperHasNothing'
      BY <1>6 DEF DeadlinePasses, Notify, intakeVars, jobVars, batchVars, budgetVars, waitVars,
          SleeperHasNothing, Matches
    <2>5. BudgetOK'
      BY <1>6 DEF DeadlinePasses, Notify, intakeVars, jobVars, batchVars, budgetVars, waitVars,
          BudgetOK, BudgetIsExact, Ending, TypeOK
    <2>6. QuestionOK'
      BY <1>6 DEF DeadlinePasses, Notify, intakeVars, jobVars, batchVars, budgetVars, waitVars,
          QuestionOK, Of, Running, TypeOK
    <2>7. SlotsOK'
      BY <1>6 DEF DeadlinePasses, Notify, intakeVars, jobVars, batchVars, budgetVars, waitVars,
          SlotsOK, SlotsMatchJobs, Unfinished, HasInput, Of, TypeOK, JobStates
    <2>8. UnseenOK'
      BY <1>6 DEF DeadlinePasses, Notify, intakeVars, jobVars, batchVars, budgetVars, waitVars,
          UnseenOK, Superseded, Pending, Seqs, Running
    <2>9. CompletedOK'
      BY <1>6 DEF DeadlinePasses, Notify, intakeVars, jobVars, batchVars, budgetVars, waitVars,
          CompletedOK, Unfinished, Ending, TypeOK
    <2>10. EndOK'
      BY <1>6 DEF DeadlinePasses, Notify, intakeVars, jobVars, batchVars, budgetVars, waitVars,
          EndOK, EverythingInstalledAtEnd, CleanedUp, Ending
    <2> QED
      BY <2>1, <2>2, <2>3, <2>4, <2>5, <2>6, <2>7, <2>8, <2>9, <2>10 DEF InboxInv
  <1>7. ASSUME NEW j \in Jobs, JobReserve(j) PROVE InboxInv'
    <2>1. ExactlyOnce' /\ Numbered' /\ CursorOK' /\ PendingHasReceipt' /\ TwoStateSlots'
      BY <1>7, DataStill DEF JobReserve, JobUnchanged, intakeVars, batchVars, waitVars
    <2>2. TypeOK'
      BY <1>7 DEF JobReserve, JobUnchanged, intakeVars, jobVars, batchVars, budgetVars, waitVars,
          TypeOK, Waits, Wakes, JobStates, PCs
    <2>3. BatchOK'
      BY <1>7 DEF JobReserve, JobUnchanged, intakeVars, jobVars, batchVars, budgetVars, waitVars,
          BatchOK, Pending, Seqs, Preparing, Ending
    <2>4. SleeperHasNothing'
      BY <1>7 DEF JobReserve, JobUnchanged, intakeVars, jobVars, batchVars, budgetVars, waitVars,
          SleeperHasNothing, Matches
    <2>5. BudgetOK'
      BY <1>7 DEF JobReserve, JobUnchanged, intakeVars, jobVars, batchVars, budgetVars, waitVars,
          BudgetOK, BudgetIsExact, Ending, TypeOK
    <2>6. QuestionOK'
      BY <1>7 DEF JobReserve, JobUnchanged, intakeVars, jobVars, batchVars, budgetVars, waitVars,
          QuestionOK, Of, Running, TypeOK
    <2>7. SlotsOK'
      BY <1>7 DEF JobReserve, JobUnchanged, intakeVars, jobVars, batchVars, budgetVars, waitVars,
          SlotsOK, SlotsMatchJobs, Unfinished, HasInput, Of, TypeOK, JobStates
    <2>8. UnseenOK'
      BY <1>7 DEF JobReserve, JobUnchanged, intakeVars, jobVars, batchVars, budgetVars, waitVars,
          UnseenOK, Superseded, Pending, Seqs, Running
    <2>9. CompletedOK'
      BY <1>7 DEF JobReserve, JobUnchanged, intakeVars, jobVars, batchVars, budgetVars, waitVars,
          CompletedOK, Unfinished, Ending, TypeOK
    <2>10. EndOK'
      BY <1>7 DEF JobReserve, JobUnchanged, intakeVars, jobVars, batchVars, budgetVars, waitVars,
          EndOK, EverythingInstalledAtEnd, CleanedUp, Ending
    <2> QED
      BY <2>1, <2>2, <2>3, <2>4, <2>5, <2>6, <2>7, <2>8, <2>9, <2>10 DEF InboxInv
  <1>8. ASSUME NEW j \in Jobs, JobStarted(j) PROVE InboxInv'
    <2>1. ExactlyOnce' /\ Numbered' /\ CursorOK' /\ PendingHasReceipt' /\ TwoStateSlots'
      BY <1>8, DataStill DEF JobStarted, JobUnchanged, intakeVars, batchVars, waitVars
    <2>2. TypeOK'
      BY <1>8 DEF JobStarted, JobUnchanged, intakeVars, jobVars, batchVars, budgetVars, waitVars,
          TypeOK, Waits, Wakes, JobStates, PCs
    <2>3. BatchOK'
      BY <1>8 DEF JobStarted, JobUnchanged, intakeVars, jobVars, batchVars, budgetVars, waitVars,
          BatchOK, Pending, Seqs, Preparing, Ending
    <2>4. SleeperHasNothing'
      BY <1>8 DEF JobStarted, JobUnchanged, intakeVars, jobVars, batchVars, budgetVars, waitVars,
          SleeperHasNothing, Matches
    <2>5. BudgetOK'
      BY <1>8 DEF JobStarted, JobUnchanged, intakeVars, jobVars, batchVars, budgetVars, waitVars,
          BudgetOK, BudgetIsExact, Ending, TypeOK
    <2>6. QuestionOK'
      BY <1>8 DEF JobStarted, JobUnchanged, intakeVars, jobVars, batchVars, budgetVars, waitVars,
          QuestionOK, Of, Running, TypeOK
    <2>7. SlotsOK'
      BY <1>8 DEF JobStarted, JobUnchanged, intakeVars, jobVars, batchVars, budgetVars, waitVars,
          SlotsOK, SlotsMatchJobs, Unfinished, HasInput, Of, TypeOK, JobStates
    <2>8. UnseenOK'
      BY <1>8 DEF JobStarted, JobUnchanged, intakeVars, jobVars, batchVars, budgetVars, waitVars,
          UnseenOK, Superseded, Pending, Seqs, Running
    <2>9. CompletedOK'
      BY <1>8 DEF JobStarted, JobUnchanged, intakeVars, jobVars, batchVars, budgetVars, waitVars,
          CompletedOK, Unfinished, Ending, TypeOK
    <2>10. EndOK'
      BY <1>8 DEF JobStarted, JobUnchanged, intakeVars, jobVars, batchVars, budgetVars, waitVars,
          EndOK, EverythingInstalledAtEnd, CleanedUp, Ending
    <2> QED
      BY <2>1, <2>2, <2>3, <2>4, <2>5, <2>6, <2>7, <2>8, <2>9, <2>10 DEF InboxInv
  <1>9. ASSUME NEW j \in Jobs, JobStartFails(j) PROVE InboxInv'
    <2>1. ExactlyOnce' /\ Numbered' /\ CursorOK' /\ PendingHasReceipt' /\ TwoStateSlots'
      BY <1>9, DataStill DEF JobStartFails, JobUnchanged, intakeVars, batchVars, waitVars
    <2>2. TypeOK'
      BY <1>9 DEF JobStartFails, JobUnchanged, intakeVars, jobVars, batchVars, budgetVars,
          waitVars, TypeOK, Waits, Wakes, JobStates, PCs
    <2>3. BatchOK'
      BY <1>9 DEF JobStartFails, JobUnchanged, intakeVars, jobVars, batchVars, budgetVars,
          waitVars, BatchOK, Pending, Seqs, Preparing, Ending
    <2>4. SleeperHasNothing'
      BY <1>9 DEF JobStartFails, JobUnchanged, intakeVars, jobVars, batchVars, budgetVars,
          waitVars, SleeperHasNothing, Matches
    <2>5. BudgetOK'
      BY <1>9 DEF JobStartFails, JobUnchanged, intakeVars, jobVars, batchVars, budgetVars,
          waitVars, BudgetOK, BudgetIsExact, Ending, TypeOK
    <2>6. QuestionOK'
      BY <1>9 DEF JobStartFails, JobUnchanged, intakeVars, jobVars, batchVars, budgetVars,
          waitVars, QuestionOK, Of, Running, TypeOK
    <2>7. SlotsOK'
      BY <1>9 DEF JobStartFails, JobUnchanged, intakeVars, jobVars, batchVars, budgetVars,
          waitVars, SlotsOK, SlotsMatchJobs, Unfinished, HasInput, Of, TypeOK, JobStates
    <2>8. UnseenOK'
      BY <1>9 DEF JobStartFails, JobUnchanged, intakeVars, jobVars, batchVars, budgetVars,
          waitVars, UnseenOK, Superseded, Pending, Seqs, Running
    <2>9. CompletedOK'
      BY <1>9 DEF JobStartFails, JobUnchanged, intakeVars, jobVars, batchVars, budgetVars,
          waitVars, CompletedOK, Unfinished, Ending, TypeOK
    <2>10. EndOK'
      BY <1>9 DEF JobStartFails, JobUnchanged, intakeVars, jobVars, batchVars, budgetVars,
          waitVars, EndOK, EverythingInstalledAtEnd, CleanedUp, Ending
    <2> QED
      BY <2>1, <2>2, <2>3, <2>4, <2>5, <2>6, <2>7, <2>8, <2>9, <2>10 DEF InboxInv
  <1>10. ASSUME NEW j \in Jobs, NEW S \in SUBSET Requests, JobAsks(j, S) PROVE InboxInv'
    <2> DEFINE fresh == {r \in S : <<j, r>> \notin requested}
    <2>1. /\ jobs[j] = "live" /\ \A r, t \in fresh : r = t
          /\ requested' = {k \in requested : k[1] = j => k[2] \in S \/ HasInput(k)}
                             \cup {<<j, r>> : r \in fresh}
          /\ facts' = facts \cup {Fact("jobInput", <<j, r>>) : r \in fresh}
          /\ sequence' = IF fresh = {} THEN sequence ELSE sequence + 1
          /\ unseen' = unseen \cup {sequence + 1 : r \in fresh}
          /\ notified' = (pc = "waiting")
          /\ UNCHANGED <<receipts, superseded, reserved, jobs, after>>
          /\ UNCHANGED <<batchVars, budgetVars, waitVars, closed, pc, outcome, source>>
      BY <1>10 DEF JobAsks, JobUnchanged, Notify, waitVars
    <2>2. j \in reserved /\ Unfinished' = Unfinished /\ j \in Unfinished
      BY <2>1 DEF SlotsOK, SlotsMatchJobs, Unfinished
    <2>3. /\ \A f \in facts : f \in facts'
          /\ \A f \in facts' : f \in facts \/ (f.kind = "jobInput" /\ f.id \in requested')
      <3>1. \A r \in fresh : <<j, r>> \in requested'
        BY <2>1
      <3>2. \A r \in fresh : /\ Fact("jobInput", <<j, r>>).kind = "jobInput"
                             /\ Fact("jobInput", <<j, r>>).id = <<j, r>>
        BY DEF Fact
      <3>3. \A f \in facts' : f \in facts \/ \E r \in fresh : f = Fact("jobInput", <<j, r>>)
        BY <2>1
      <3>4. \A f \in facts : f \in facts'
        BY <2>1
      <3> HIDE DEF fresh
      <3>5. ASSUME NEW f \in facts', f \notin facts
            PROVE  f.kind = "jobInput" /\ f.id \in requested'
        <4>1. PICK r \in fresh : f = Fact("jobInput", <<j, r>>)
          BY <3>3, <3>5
        <4>2. f.kind = "jobInput" /\ f.id = <<j, r>>
          BY <3>2, <4>1
        <4> QED
          BY <3>1, <4>2
      <3> QED
        BY <3>4, <3>5
    <2>4. /\ ExactlyOnce' /\ Numbered' /\ BatchOK' /\ CursorOK' /\ UnseenOK'
          /\ facts' \subseteq Facts /\ unseen' \subseteq Numbers /\ sequence' \in Nat
      <3>1. CASE fresh = {}
        <4>1. UNCHANGED <<facts, sequence, unseen>>
          BY <2>1, <3>1
        <4>2. ExactlyOnce' /\ Numbered' /\ CursorOK'
          BY <2>1, <4>1, DataStill DEF batchVars
        <4> QED
          BY <2>1, <4>1, <4>2 DEF batchVars, BatchOK, UnseenOK, Pending, Superseded, Seqs, TypeOK
      <3>2. CASE fresh # {}
        <4>1. PICK r \in fresh : fresh = {r}
          BY <2>1, <3>2
        <4> DEFINE n == Fact("jobInput", <<j, r>>)
        <4>2. /\ {} \in SUBSET facts /\ n \in Facts /\ n.seq = sequence + 1
              /\ n.kind = "jobInput" /\ n.kind \notin RecordKinds
          BY <4>1 DEF Fact, Facts, Ids, Kinds, RecordKinds, Numbers, TypeOK
        <4>3. /\ facts' = (facts \ {}) \cup {n} /\ sequence' = sequence + 1
              /\ superseded' = superseded \cup {}
          BY <2>1, <3>2, <4>1
        <4>4. unseen' = (unseen \ Seqs({})) \cup {s \in {sequence + 1} : n.kind # "state"}
          BY <2>1, <4>1, <4>2 DEF Seqs
        <4> HIDE DEF n
        <4> QED
          BY <2>1, <4>2, <4>3, <4>4, Intake
      <3> QED
        BY <3>1, <3>2
    <2>5. requested' \subseteq Jobs \X Requests
      <3>1. \A r \in fresh : <<j, r>> \in Jobs \X Requests
        OBVIOUS
      <3>2. \A k \in requested' : k \in requested \/ \E r \in fresh : k = <<j, r>>
        BY <2>1
      <3>3. requested \subseteq Jobs \X Requests
        BY DEF TypeOK
      <3> HIDE DEF fresh
      <3> QED
        BY <3>1, <3>2, <3>3
    <2>6. TypeOK'
      BY <2>1, <2>4, <2>5 DEF batchVars, budgetVars, waitVars, TypeOK
    <2>7. PendingHasReceipt' /\ TwoStateSlots'
      BY <2>1, <2>3 DEF batchVars, PendingHasReceipt, TwoStateSlots, Of, RecordKinds
    <2>8. SleeperHasNothing' /\ BudgetOK'
      BY <2>1 DEF budgetVars, SleeperHasNothing, BudgetOK, BudgetIsExact
    <2>9. QuestionOK'
      BY <2>1, <2>3 DEF batchVars, waitVars, QuestionOK, Of
    <2>10. SlotsOK'
      <3>1. \A k \in requested' : k \in requested \/ k[1] = j
        <4>1. \A k \in requested' : k \in requested \/ \E r \in fresh : k = <<j, r>>
          BY <2>1
        <4>2. \A r \in fresh : <<j, r>>[1] = j
          OBVIOUS
        <4> QED
          BY <4>1, <4>2
      <3>2. SlotsMatchJobs'
        <4>1. \A k \in requested' : k[1] \in reserved' \/ HasInput(k)'
          <5>1. \A k \in requested : k[1] \in reserved \/ HasInput(k)
            BY DEF SlotsOK, SlotsMatchJobs
          <5>2. reserved \subseteq reserved' /\ j \in reserved'
            BY <2>1, <2>2 DEF SlotsOK, SlotsMatchJobs
          <5>3. \A k : HasInput(k) => HasInput(k)'
            BY <2>1, <2>3 DEF HasInput
          <5> QED
            BY <3>1, <5>1, <5>2, <5>3
        <4>2. \A t \in reserved' : \/ jobs'[t] \in {"starting", "live", "closed", "stuck"}
                                   \/ \E f \in facts' : f.kind = "terminal" /\ f.id = t
          BY <2>1, <2>3 DEF SlotsOK, SlotsMatchJobs
        <4> QED
          BY <2>1, <2>2, <4>1, <4>2 DEF SlotsOK, SlotsMatchJobs
      <3>3. \A f \in Of({"jobInput"})' : f.id \in requested'
        BY <2>1, <2>3 DEF SlotsOK, Of, HasInput
      <3>4. \A k \in requested' : jobs'[k[1]] \notin {"none", "starting"}
        BY <2>1, <3>1 DEF SlotsOK
      <3>5. \A f \in Of({"terminal"})' : f \in Of({"terminal"})
        BY <2>3 DEF Of
      <3> QED
        BY <2>1, <3>2, <3>3, <3>4, <3>5 DEF SlotsOK
    <2>11. CompletedOK' /\ EndOK'
      BY <2>1, <2>2 DEF batchVars, CompletedOK, Unfinished, EndOK, EverythingInstalledAtEnd,
          CleanedUp, Ending
    <2> QED
      BY <2>4, <2>6, <2>7, <2>8, <2>9, <2>10, <2>11 DEF InboxInv
  <1>11. ASSUME NEW j \in Jobs, JobCloses(j) PROVE InboxInv'
    <2>1. ExactlyOnce' /\ Numbered' /\ CursorOK' /\ PendingHasReceipt' /\ TwoStateSlots'
      BY <1>11, DataStill DEF JobCloses, JobUnchanged, intakeVars, batchVars, waitVars
    <2>2. TypeOK'
      BY <1>11 DEF JobCloses, JobUnchanged, intakeVars, jobVars, batchVars, budgetVars, waitVars,
          TypeOK, Waits, Wakes, JobStates, PCs
    <2>3. BatchOK'
      BY <1>11 DEF JobCloses, JobUnchanged, intakeVars, jobVars, batchVars, budgetVars, waitVars,
          BatchOK, Pending, Seqs, Preparing, Ending
    <2>4. SleeperHasNothing'
      BY <1>11 DEF JobCloses, JobUnchanged, intakeVars, jobVars, batchVars, budgetVars, waitVars,
          SleeperHasNothing, Matches
    <2>5. BudgetOK'
      BY <1>11 DEF JobCloses, JobUnchanged, intakeVars, jobVars, batchVars, budgetVars, waitVars,
          BudgetOK, BudgetIsExact, Ending, TypeOK
    <2>6. QuestionOK'
      BY <1>11 DEF JobCloses, JobUnchanged, intakeVars, jobVars, batchVars, budgetVars, waitVars,
          QuestionOK, Of, Running, TypeOK
    <2>7. SlotsOK'
      BY <1>11 DEF JobCloses, JobUnchanged, intakeVars, jobVars, batchVars, budgetVars, waitVars,
          SlotsOK, SlotsMatchJobs, Unfinished, HasInput, Of, TypeOK, JobStates
    <2>8. UnseenOK'
      BY <1>11 DEF JobCloses, JobUnchanged, intakeVars, jobVars, batchVars, budgetVars, waitVars,
          UnseenOK, Superseded, Pending, Seqs, Running
    <2>9. CompletedOK'
      BY <1>11 DEF JobCloses, JobUnchanged, intakeVars, jobVars, batchVars, budgetVars, waitVars,
          CompletedOK, Unfinished, Ending, TypeOK
    <2>10. EndOK'
      BY <1>11 DEF JobCloses, JobUnchanged, intakeVars, jobVars, batchVars, budgetVars, waitVars,
          EndOK, EverythingInstalledAtEnd, CleanedUp, Ending
    <2> QED
      BY <2>1, <2>2, <2>3, <2>4, <2>5, <2>6, <2>7, <2>8, <2>9, <2>10 DEF InboxInv
  <1>12. ASSUME NEW j \in Jobs, JobTerminal(j) PROVE InboxInv'
    <2>a. /\ jobs[j] = "closed" /\ jobs' = [jobs EXCEPT ![j] = "delivered"] /\ Delivers(j)
          /\ UNCHANGED <<batchVars, budgetVars, waitVars, closed, pc, outcome, source, reserved,
                         requested, after>>
      BY <1>12 DEF JobTerminal, JobUnchanged, waitVars
    <2>1. /\ ExactlyOnce' /\ Numbered' /\ BatchOK' /\ CursorOK' /\ UnseenOK'
          /\ PendingHasReceipt' /\ TwoStateSlots'
          /\ facts' \subseteq Facts /\ superseded' = superseded
          /\ unseen' \subseteq Numbers /\ sequence' \in Nat /\ receipts' = receipts
          /\ facts' = facts \cup {Fact("terminal", j)} /\ j \in reserved
          /\ \A f \in facts : f.kind = "terminal" => f.id # j
      BY <2>a, Delivered
    <2>2. TypeOK'
      BY <2>a, <2>1 DEF Delivers, Notify, batchVars, budgetVars, waitVars, TypeOK, JobStates
    <2>3. SleeperHasNothing'
      BY <2>a, <2>1 DEF Delivers, Notify, SleeperHasNothing
    <2>4. BudgetOK'
      BY <2>a, <2>1 DEF budgetVars, BudgetOK, BudgetIsExact
    <2>5. QuestionOK'
      BY <2>a, <2>1 DEF batchVars, waitVars, QuestionOK, Of, Fact, Running
    <2>6. SlotsOK'
      <3>2. \A t \in Jobs : t # j => jobs'[t] = jobs[t]
        BY <2>a, <2>1 DEF TypeOK
      <3>1. SlotsMatchJobs'
        <4>1. Unfinished' \subseteq Unfinished
          BY <2>a, <3>2 DEF Unfinished, TypeOK
        <4>2. \E f \in facts' : f.kind = "terminal" /\ f.id = j
          <5>1. Fact("terminal", j).kind = "terminal" /\ Fact("terminal", j).id = j
            BY DEF Fact
          <5> QED
            BY <2>1, <5>1
        <4>3. \A t \in reserved' : \/ jobs'[t] \in {"starting", "live", "closed", "stuck"}
                                   \/ \E f \in facts' : f.kind = "terminal" /\ f.id = t
          BY <2>a, <2>1, <3>2, <4>2 DEF SlotsOK, SlotsMatchJobs, TypeOK
        <4>4. \A k \in requested' : k[1] \in reserved' \/ HasInput(k)'
          BY <2>a, <2>1 DEF SlotsOK, SlotsMatchJobs, HasInput
        <4> QED
          BY <2>a, <4>1, <4>3, <4>4 DEF SlotsOK, SlotsMatchJobs
      <3>3. \A h \in Of({"terminal"})' :
              /\ h.id \in reserved' /\ jobs'[h.id] \in {"delivered", "released"}
              /\ \A g \in Of({"terminal"})' : g.id = h.id => g = h
        BY <2>a, <2>1, <3>2 DEF SlotsOK, Of, Fact, TypeOK
      <3>4. /\ \A h \in Of({"jobInput"})' : h.id \in requested'
            /\ \A k \in requested' : jobs'[k[1]] \notin {"none", "starting"}
            /\ \A t \in Jobs : jobs'[t] = "starting" => pc' = "cycle"
        BY <2>a, <2>1, <3>2 DEF SlotsOK, Of, Fact, TypeOK, HasInput
      <3> QED
        BY <3>1, <3>3, <3>4 DEF SlotsOK
    <2>7. CompletedOK'
      BY <2>a, <2>1 DEF CompletedOK, Unfinished
    <2>8. EndOK'
      BY <2>a, <2>1 DEF batchVars, EndOK, EverythingInstalledAtEnd, CleanedUp, TypeOK
    <2> QED
      BY <2>1, <2>2, <2>3, <2>4, <2>5, <2>6, <2>7, <2>8 DEF InboxInv
  <1>13. ASSUME RequestBudget PROVE InboxInv'
    <2>1. ExactlyOnce' /\ Numbered' /\ CursorOK' /\ PendingHasReceipt' /\ TwoStateSlots'
      BY <1>13, DataStill DEF RequestBudget, Notify, intakeVars, batchVars, waitVars
    <2>2. TypeOK'
      BY <1>13 DEF RequestBudget, Notify, intakeVars, jobVars, batchVars, budgetVars, waitVars,
          TypeOK, Waits, Wakes, JobStates, PCs
    <2>3. BatchOK'
      BY <1>13 DEF RequestBudget, Notify, intakeVars, jobVars, batchVars, budgetVars, waitVars,
          BatchOK, Pending, Seqs, Preparing, Ending
    <2>4. SleeperHasNothing'
      BY <1>13 DEF RequestBudget, Notify, intakeVars, jobVars, batchVars, budgetVars, waitVars,
          SleeperHasNothing, Matches
    <2>5. BudgetOK'
      BY <1>13 DEF RequestBudget, Notify, intakeVars, jobVars, batchVars, budgetVars, waitVars,
          BudgetOK, BudgetIsExact, Ending, TypeOK
    <2>6. QuestionOK'
      BY <1>13 DEF RequestBudget, Notify, intakeVars, jobVars, batchVars, budgetVars, waitVars,
          QuestionOK, Of, Running, TypeOK
    <2>7. SlotsOK'
      BY <1>13 DEF RequestBudget, Notify, intakeVars, jobVars, batchVars, budgetVars, waitVars,
          SlotsOK, SlotsMatchJobs, Unfinished, HasInput, Of, TypeOK, JobStates
    <2>8. UnseenOK'
      BY <1>13 DEF RequestBudget, Notify, intakeVars, jobVars, batchVars, budgetVars, waitVars,
          UnseenOK, Superseded, Pending, Seqs, Running
    <2>9. CompletedOK'
      BY <1>13 DEF RequestBudget, Notify, intakeVars, jobVars, batchVars, budgetVars, waitVars,
          CompletedOK, Unfinished, Ending, TypeOK
    <2>10. EndOK'
      BY <1>13 DEF RequestBudget, Notify, intakeVars, jobVars, batchVars, budgetVars, waitVars,
          EndOK, EverythingInstalledAtEnd, CleanedUp, Ending
    <2> QED
      BY <2>1, <2>2, <2>3, <2>4, <2>5, <2>6, <2>7, <2>8, <2>9, <2>10 DEF InboxInv
  <1>14. ASSUME EnterWait PROVE InboxInv'
    <2>1. ExactlyOnce' /\ Numbered' /\ CursorOK' /\ PendingHasReceipt' /\ TwoStateSlots'
      BY <1>14, DataStill DEF EnterWait, intakeVars, batchVars, waitVars
    <2>2. TypeOK'
      BY <1>14 DEF EnterWait, intakeVars, jobVars, batchVars, budgetVars, waitVars, TypeOK, Waits,
          Wakes, JobStates, PCs
    <2>3. BatchOK'
      BY <1>14 DEF EnterWait, intakeVars, jobVars, batchVars, budgetVars, waitVars, BatchOK,
          Pending, Seqs, Preparing, Ending
    <2>4. SleeperHasNothing'
      BY <1>14 DEF EnterWait, intakeVars, jobVars, batchVars, budgetVars, waitVars,
          SleeperHasNothing, Matches
    <2>5. BudgetOK'
      BY <1>14 DEF EnterWait, intakeVars, jobVars, batchVars, budgetVars, waitVars, BudgetOK,
          BudgetIsExact, Ending, TypeOK
    <2>6. QuestionOK'
      BY <1>14 DEF EnterWait, intakeVars, jobVars, batchVars, budgetVars, waitVars, QuestionOK,
          Of, Running, TypeOK
    <2>7. SlotsOK'
      BY <1>14 DEF EnterWait, intakeVars, jobVars, batchVars, budgetVars, waitVars, SlotsOK,
          SlotsMatchJobs, Unfinished, HasInput, Of, TypeOK, JobStates
    <2>8. UnseenOK'
      BY <1>14 DEF EnterWait, intakeVars, jobVars, batchVars, budgetVars, waitVars, UnseenOK,
          Superseded, Pending, Seqs, Running
    <2>9. CompletedOK'
      BY <1>14 DEF EnterWait, intakeVars, jobVars, batchVars, budgetVars, waitVars, CompletedOK,
          Unfinished, Ending, TypeOK
    <2>10. EndOK'
      BY <1>14 DEF EnterWait, intakeVars, jobVars, batchVars, budgetVars, waitVars, EndOK,
          EverythingInstalledAtEnd, CleanedUp, Ending
    <2> QED
      BY <2>1, <2>2, <2>3, <2>4, <2>5, <2>6, <2>7, <2>8, <2>9, <2>10 DEF InboxInv
  <1>15. ASSUME WaitSleeps PROVE InboxInv'
    <2>1. ExactlyOnce' /\ Numbered' /\ CursorOK' /\ PendingHasReceipt' /\ TwoStateSlots'
      BY <1>15, DataStill DEF WaitSleeps, intakeVars, batchVars, waitVars
    <2>2. TypeOK'
      <3>1. wake' \in Wakes
        BY <1>15, ReadyType DEF WaitSleeps, Woken, TypeOK
      <3> QED
        BY <1>15, <3>1 DEF WaitSleeps, intakeVars, jobVars, batchVars, budgetVars, TypeOK
    <2>3. BatchOK'
      BY <1>15 DEF WaitSleeps, intakeVars, jobVars, batchVars, budgetVars, waitVars, BatchOK,
          Pending, Seqs, Preparing, Ending
    <2>4. SleeperHasNothing'
      <3> SUFFICES ASSUME wait' # "none", wake' = "none", NEW f \in facts' PROVE ~Matches(f)'
        BY DEF SleeperHasNothing
      <3>1. Ready = "none" /\ f \in facts /\ wait' = wait
        BY <1>15 DEF WaitSleeps, Woken, intakeVars
      <3>2. f.seq > after
        BY <3>1 DEF CursorOK, TypeOK, Facts, Numbers
      <3> QED
        BY <3>1, <3>2, ReadyNone DEF Matches
    <2>5. BudgetOK'
      BY <1>15 DEF WaitSleeps, intakeVars, jobVars, batchVars, budgetVars, waitVars, BudgetOK,
          BudgetIsExact, Ending, TypeOK
    <2>6. QuestionOK'
      BY <1>15 DEF WaitSleeps, intakeVars, jobVars, batchVars, budgetVars, waitVars, QuestionOK,
          Of, Running, TypeOK
    <2>7. SlotsOK'
      BY <1>15 DEF WaitSleeps, intakeVars, jobVars, batchVars, budgetVars, waitVars, SlotsOK,
          SlotsMatchJobs, Unfinished, HasInput, Of, TypeOK, JobStates
    <2>8. UnseenOK'
      BY <1>15 DEF WaitSleeps, intakeVars, jobVars, batchVars, budgetVars, waitVars, UnseenOK,
          Superseded, Pending, Seqs, Running
    <2>9. CompletedOK'
      BY <1>15 DEF WaitSleeps, intakeVars, jobVars, batchVars, budgetVars, waitVars, CompletedOK,
          Unfinished, Ending, TypeOK
    <2>10. EndOK'
      BY <1>15 DEF WaitSleeps, intakeVars, jobVars, batchVars, budgetVars, waitVars, EndOK,
          EverythingInstalledAtEnd, CleanedUp, Ending
    <2> QED
      BY <2>1, <2>2, <2>3, <2>4, <2>5, <2>6, <2>7, <2>8, <2>9, <2>10 DEF InboxInv
  <1>16. ASSUME WaitReturns PROVE InboxInv'
    <2>1. ExactlyOnce' /\ Numbered' /\ CursorOK' /\ PendingHasReceipt' /\ TwoStateSlots'
      BY <1>16, DataStill DEF WaitReturns, TakeGrant, EndQuestion, Returns, intakeVars, batchVars,
          waitVars
    <2>2. TypeOK'
      <3>1. pc' \in PCs /\ outcome' \in {"none", "completed", "awaiting_user", "stopped"}
        BY <1>16 DEF WaitReturns, PCs, TypeOK
      <3>2. limit' \in Nat /\ grant' \in Nat /\ budget' \in BOOLEAN
        <4>1. limit' = limit + grant /\ grant' = 0 /\ budget' = FALSE
          BY <1>16 DEF WaitReturns, TakeGrant
        <4>2. limit \in Nat /\ grant \in Nat
          BY DEF TypeOK
        <4>3. budget' \in BOOLEAN
          BY <4>1, Zenon
        <4>4. limit' \in Nat /\ grant' \in Nat
          BY <4>1, <4>2
        <4> QED
          BY <4>3, <4>4
      <3> QED
        BY <1>16, <3>1, <3>2 DEF WaitReturns, EndQuestion, intakeVars, jobVars, batchVars, TypeOK,
            Waits, Wakes
    <2>3. BatchOK'
      BY <1>16 DEF WaitReturns, TakeGrant, EndQuestion, Returns, intakeVars, jobVars, batchVars,
          budgetVars, waitVars, BatchOK, Pending, Seqs, Preparing, Ending
    <2>4. SleeperHasNothing'
      BY <1>16 DEF WaitReturns, TakeGrant, EndQuestion, Returns, intakeVars, jobVars, batchVars,
          budgetVars, waitVars, SleeperHasNothing, Matches
    <2>5. BudgetOK'
      BY <1>16 DEF WaitReturns, TakeGrant, EndQuestion, Returns, intakeVars, jobVars, batchVars,
          budgetVars, waitVars, BudgetOK, BudgetIsExact, Ending, TypeOK
    <2>6. QuestionOK'
      BY <1>16 DEF WaitReturns, TakeGrant, EndQuestion, Returns, intakeVars, jobVars, batchVars,
          budgetVars, waitVars, QuestionOK, Of, Running, TypeOK
    <2>7. SlotsOK'
      BY <1>16 DEF WaitReturns, TakeGrant, EndQuestion, Returns, intakeVars, jobVars, batchVars,
          budgetVars, waitVars, SlotsOK, SlotsMatchJobs, Unfinished, HasInput, Of, TypeOK,
          JobStates
    <2>8. UnseenOK'
      BY <1>16 DEF WaitReturns, TakeGrant, EndQuestion, Returns, intakeVars, jobVars, batchVars,
          budgetVars, waitVars, UnseenOK, Superseded, Pending, Seqs, Running
    <2>9. CompletedOK'
      BY <1>16 DEF WaitReturns, TakeGrant, EndQuestion, Returns, intakeVars, jobVars, batchVars,
          budgetVars, waitVars, CompletedOK, Unfinished, Ending, TypeOK
    <2>10. EndOK'
      BY <1>16 DEF WaitReturns, TakeGrant, EndQuestion, Returns, intakeVars, jobVars, batchVars,
          budgetVars, waitVars, EndOK, EverythingInstalledAtEnd, CleanedUp, Ending
    <2> QED
      BY <2>1, <2>2, <2>3, <2>4, <2>5, <2>6, <2>7, <2>8, <2>9, <2>10 DEF InboxInv
  <1>17. ASSUME Capture PROVE InboxInv'
    <2>1. ExactlyOnce' /\ Numbered' /\ CursorOK' /\ PendingHasReceipt'
      BY <1>17 DEF Capture, intakeVars, jobVars, budgetVars, waitVars, ExactlyOnce, Numbered,
          CursorOK, PendingHasReceipt, Of, Pending, Superseded, Seqs
    <2>2. /\ \A f \in facts : f.seq \in Nat \ {0} /\ f.seq <= sequence
          /\ captured => pc = "drain" /\ batch # {}
          /\ batch \subseteq Numbers /\ top \in Nat /\ sequence \in Nat
      BY <1>17 DEF Capture, ExactlyOnce, Pending, Seqs, TypeOK, Facts, Numbers, BatchOK, Preparing,
          Ending
    <2>3. /\ captured' /\ batch' \subseteq Pending /\ top' \in Nat /\ top' <= sequence
          /\ \A b \in batch' : b <= top'
          /\ \A f \in facts : f.seq <= top' => f.seq \in batch'
          /\ pc' = "prepareCycle" => \A f \in facts : f.seq <= top'
          /\ batch' = {} => facts = {}
          /\ TwoStateSlots'
      <3>1. CASE captured
        <4>1. captured' /\ batch' = batch /\ top' = top /\ pc' = "prepareDrain"
          BY <1>17, <2>2, <3>1 DEF Capture
        <4> QED
          BY <1>17, <2>2, <3>1, <4>1 DEF Capture, intakeVars, BatchOK, TwoStateSlots, Of
      <3>2. CASE ~captured
        <4>1. /\ captured' /\ batch' = Pending /\ top' \in Pending \cup {0}
              /\ \A f \in facts : f.seq <= top'
              /\ facts' = facts
          BY <1>17, <3>2 DEF Capture, Pending, intakeVars
        <4>2. \A f, g \in facts : f.kind = "state" /\ g.kind = "state" => ~(f.seq < g.seq)
          BY <3>2 DEF TwoStateSlots, Of
        <4>3. TwoStateSlots'
          BY <4>1, <4>2 DEF TwoStateSlots, Of
        <4> QED
          BY <2>2, <4>1, <4>3 DEF Pending, Seqs
      <3> QED
        BY <3>1, <3>2
    <2>4. TypeOK'
      <3>1. batch' \subseteq Numbers /\ captured' \in BOOLEAN
        BY <2>2, <2>3 DEF Pending, Seqs, Numbers
      <3>2. pc' \in PCs
        BY <1>17 DEF Capture, PCs
      <3> QED
        BY <1>17, <2>3, <3>1, <3>2 DEF Capture, intakeVars, jobVars, budgetVars, waitVars, TypeOK
    <2>5. BatchOK'
      BY <1>17, <2>3 DEF Capture, intakeVars, BatchOK, Pending, Seqs, Preparing
    <2>6. SleeperHasNothing' /\ BudgetOK'
      BY <1>17 DEF Capture, intakeVars, budgetVars, waitVars, SleeperHasNothing, BudgetOK,
          BudgetIsExact, Ending
    <2>7. QuestionOK'
      <3>1. question = NoQuestion \/ closed
        BY <1>17 DEF Capture, QuestionOK, Running, EndOK, Ending
      <3> QED
        BY <1>17, <2>3, <3>1 DEF Capture, intakeVars, waitVars, QuestionOK, Of, Running
    <2>8. SlotsOK'
      BY <1>17 DEF Capture, intakeVars, jobVars, SlotsOK, SlotsMatchJobs, Unfinished, HasInput, Of
    <2>9. UnseenOK' /\ CompletedOK'
      BY <1>17 DEF Capture, intakeVars, jobVars, UnseenOK, CompletedOK, Pending, Superseded, Seqs,
          Running, Ending, Unfinished
    <2>10. EndOK'
      BY <1>17, <2>3 DEF Capture, intakeVars, jobVars, EndOK, EverythingInstalledAtEnd, CleanedUp,
          Ending
    <2> QED
      BY <2>1, <2>3, <2>4, <2>5, <2>6, <2>7, <2>8, <2>9, <2>10 DEF InboxInv
  <1>18. ASSUME BeginCycle PROVE InboxInv'
    <2>1. Ack /\ pc \in Preparing
      BY <1>18 DEF BeginCycle, Preparing
    <2>a. /\ ExactlyOnce' /\ Numbered' /\ PendingHasReceipt' /\ TwoStateSlots'
          /\ SlotsMatchJobs'
          /\ receipts' \in [RecordIds \cup Questions -> Nat]
          /\ \A f \in facts' : f.seq > acknowledged'
          /\ acknowledged' <= sequence' /\ acknowledged' \in Nat
          /\ acknowledged <= acknowledged'
          /\ Pending' = Pending \ batch
          /\ facts' = {f \in facts : f.seq > top}
          /\ captured /\ ~captured' /\ batch' = {} /\ top' = 0 /\ sequence' = sequence
      BY <2>1, Acked
    <2>2. TypeOK'
      <3>1. /\ installed' = installed \cup batch /\ reserved' \subseteq reserved
            /\ requested' \subseteq requested /\ superseded' = superseded /\ jobs' = jobs
        BY <2>1 DEF Ack, KeepsRequests
      <3>2. pc' \in PCs /\ after' \in Nat /\ spent' \in Nat /\ unseen' \subseteq unseen
        BY <1>18, <2>a DEF BeginCycle, Cursor, budgetVars, waitVars, PCs, TypeOK
      <3>3. captured' \in BOOLEAN /\ facts' \subseteq Facts /\ installed' \subseteq Numbers
        BY <2>1, <2>a, <3>1 DEF Ack, TypeOK
      <3> QED
        BY <1>18, <2>a, <3>1, <3>2, <3>3 DEF BeginCycle, budgetVars, waitVars, TypeOK
    <2>3. BatchOK'
      BY <1>18, <2>a DEF BeginCycle, BatchOK, Preparing, TypeOK
    <2>4. CursorOK'
      BY <1>18, <2>a DEF BeginCycle, Cursor, CursorOK, TypeOK, waitVars
    <2>5. SleeperHasNothing'
      BY <1>18, <2>a DEF BeginCycle, Ack, Covers, Cursor, KeepsRequests, intakeVars, jobVars,
          batchVars, budgetVars, waitVars, SleeperHasNothing, Matches
    <2>6. BudgetOK'
      BY <1>18, <2>a DEF BeginCycle, Ack, Covers, Cursor, KeepsRequests, intakeVars, jobVars,
          batchVars, budgetVars, waitVars, BudgetOK, BudgetIsExact, Ending, TypeOK
    <2>7. QuestionOK'
      BY <1>18, <2>a DEF BeginCycle, Ack, Covers, Cursor, KeepsRequests, intakeVars, jobVars,
          batchVars, budgetVars, waitVars, QuestionOK, Of, Running, TypeOK
    <2>8. SlotsOK'
      BY <1>18, <2>a DEF BeginCycle, Ack, Covers, Cursor, KeepsRequests, intakeVars, jobVars,
          batchVars, budgetVars, waitVars, SlotsOK, SlotsMatchJobs, Unfinished, HasInput, Of,
          TypeOK, JobStates
    <2>9. UnseenOK'
      <3>1. installed' = installed \cup batch /\ unseen' = unseen \ installed'
        BY <1>18 DEF BeginCycle, Ack
      <3>2. unseen \subseteq 1 .. sequence
        BY DEF UnseenOK, TypeOK, Numbers
      <3>3. unseen' \subseteq Pending'
        BY <2>a, <3>1, <3>2 DEF ExactlyOnce, UnseenOK
      <3>4. \A f \in facts' : f.seq \notin installed'
        BY <2>a DEF ExactlyOnce, Pending, Seqs
      <3>5. Superseded' = Superseded
        BY <1>18 DEF BeginCycle, Ack, Superseded, Seqs
      <3>6. \A f \in facts' : f.seq \in unseen' <=> f.kind # "state"
        BY <2>a, <3>1, <3>4 DEF UnseenOK
      <3> QED
        BY <2>a, <3>1, <3>2, <3>3, <3>5, <3>6 DEF UnseenOK
    <2>10. CompletedOK'
      BY <1>18, <2>a DEF BeginCycle, Ack, Covers, Cursor, KeepsRequests, intakeVars, jobVars,
          batchVars, budgetVars, waitVars, CompletedOK, Unfinished, Ending, TypeOK
    <2>11. EndOK'
      BY <1>18, <2>a DEF BeginCycle, Ack, Covers, Cursor, KeepsRequests, intakeVars, jobVars,
          batchVars, budgetVars, waitVars, EndOK, EverythingInstalledAtEnd, CleanedUp, Ending
    <2> QED
      BY <2>a, <2>2, <2>3, <2>4, <2>5, <2>6, <2>7, <2>8, <2>9, <2>10, <2>11 DEF InboxInv
  <1>19. ASSUME Recheck PROVE InboxInv'
    <2>1. Ack /\ pc \in Preparing
      BY <1>19 DEF Recheck, Preparing
    <2>a. /\ ExactlyOnce' /\ Numbered' /\ PendingHasReceipt' /\ TwoStateSlots'
          /\ SlotsMatchJobs'
          /\ receipts' \in [RecordIds \cup Questions -> Nat]
          /\ \A f \in facts' : f.seq > acknowledged'
          /\ acknowledged' <= sequence' /\ acknowledged' \in Nat
          /\ acknowledged <= acknowledged'
          /\ Pending' = Pending \ batch
          /\ facts' = {f \in facts : f.seq > top}
          /\ captured /\ ~captured' /\ batch' = {} /\ top' = 0 /\ sequence' = sequence
      BY <2>1, Acked
    <2>2. TypeOK'
      <3>1. /\ installed' = installed \cup batch /\ reserved' \subseteq reserved
            /\ requested' \subseteq requested /\ superseded' = superseded /\ jobs' = jobs
        BY <2>1 DEF Ack, KeepsRequests
      <3>2. pc' \in PCs /\ after' \in Nat /\ spent' \in Nat /\ unseen' \subseteq unseen
        BY <1>19, <2>a DEF Recheck, Cursor, budgetVars, waitVars, PCs, TypeOK
      <3>3. captured' \in BOOLEAN /\ facts' \subseteq Facts /\ installed' \subseteq Numbers
        BY <2>1, <2>a, <3>1 DEF Ack, TypeOK
      <3> QED
        BY <1>19, <2>a, <3>1, <3>2, <3>3 DEF Recheck, budgetVars, waitVars, TypeOK
    <2>3. BatchOK'
      BY <1>19, <2>a DEF Recheck, BatchOK, Preparing, TypeOK
    <2>4. CursorOK'
      BY <1>19, <2>a DEF Recheck, Cursor, CursorOK, TypeOK, waitVars
    <2>5. SleeperHasNothing'
      BY <1>19, <2>a DEF Recheck, Ack, Covers, KeepsRequests, intakeVars, jobVars, batchVars,
          budgetVars, waitVars, SleeperHasNothing, Matches
    <2>6. BudgetOK'
      BY <1>19, <2>a DEF Recheck, Ack, Covers, KeepsRequests, intakeVars, jobVars, batchVars,
          budgetVars, waitVars, BudgetOK, BudgetIsExact, Ending, TypeOK
    <2>7. QuestionOK'
      BY <1>19, <2>a DEF Recheck, Ack, Covers, KeepsRequests, intakeVars, jobVars, batchVars,
          budgetVars, waitVars, QuestionOK, Of, Running, TypeOK
    <2>8. SlotsOK'
      BY <1>19, <2>a DEF Recheck, Ack, Covers, KeepsRequests, intakeVars, jobVars, batchVars,
          budgetVars, waitVars, SlotsOK, SlotsMatchJobs, Unfinished, HasInput, Of, TypeOK,
          JobStates
    <2>9. UnseenOK'
      BY <1>19, <2>a DEF Recheck, Ack, Covers, KeepsRequests, intakeVars, jobVars, batchVars,
          budgetVars, waitVars, UnseenOK, Superseded, Pending, Seqs, Running
    <2>10. CompletedOK'
      BY <1>19, <2>a DEF Recheck, Ack, Covers, KeepsRequests, intakeVars, jobVars, batchVars,
          budgetVars, waitVars, CompletedOK, Unfinished, Ending, TypeOK
    <2>11. EndOK'
      BY <1>19, <2>a DEF Recheck, Ack, Covers, KeepsRequests, intakeVars, jobVars, batchVars,
          budgetVars, waitVars, EndOK, EverythingInstalledAtEnd, CleanedUp, Ending
    <2> QED
      BY <2>a, <2>2, <2>3, <2>4, <2>5, <2>6, <2>7, <2>8, <2>9, <2>10, <2>11 DEF InboxInv
  <1>20. ASSUME TryClose PROVE InboxInv'
    <2>1. ExactlyOnce' /\ Numbered' /\ CursorOK' /\ PendingHasReceipt' /\ TwoStateSlots'
      BY <1>20, DataStill DEF TryClose, intakeVars, batchVars, waitVars
    <2>2. TypeOK'
      <3>1. /\ pc' \in PCs /\ outcome' \in {"none", "completed", "awaiting_user", "stopped"}
            /\ closed' \in BOOLEAN
        BY <1>20 DEF TryClose, PCs, TypeOK
      <3> QED
        BY <1>20, <3>1 DEF TryClose, intakeVars, jobVars, batchVars, budgetVars, waitVars, TypeOK
    <2>3. BatchOK'
      BY <1>20 DEF TryClose, intakeVars, jobVars, batchVars, budgetVars, waitVars, BatchOK,
          Pending, Seqs, Preparing, Ending
    <2>4. SleeperHasNothing'
      BY <1>20 DEF TryClose, intakeVars, jobVars, batchVars, budgetVars, waitVars,
          SleeperHasNothing, Matches
    <2>5. BudgetOK'
      BY <1>20 DEF TryClose, intakeVars, jobVars, batchVars, budgetVars, waitVars, BudgetOK,
          BudgetIsExact, Ending, TypeOK
    <2>6. QuestionOK'
      BY <1>20 DEF TryClose, intakeVars, jobVars, batchVars, budgetVars, waitVars, QuestionOK, Of,
          Running, TypeOK
    <2>7. SlotsOK'
      BY <1>20 DEF TryClose, intakeVars, jobVars, batchVars, budgetVars, waitVars, SlotsOK,
          SlotsMatchJobs, Unfinished, HasInput, Of, TypeOK, JobStates
    <2>8. UnseenOK'
      BY <1>20 DEF TryClose, intakeVars, jobVars, batchVars, budgetVars, waitVars, UnseenOK,
          Superseded, Pending, Seqs, Running
    <2>9. CompletedOK'
      <3>1. CASE Empty
        <4>1. \A f \in facts : f.kind = "state"
          BY <3>1 DEF Empty, Of, SlotsOK, TypeOK, Facts, Kinds, RecordKinds
        <4>2. unseen \subseteq Pending
          BY <1>20 DEF TryClose, UnseenOK, Running
        <4>3. unseen = {}
          BY <4>1, <4>2 DEF UnseenOK, Pending, Seqs
        <4>4. Unfinished = {}
          BY <3>1 DEF Empty, SlotsOK, SlotsMatchJobs
        <4> QED
          BY <1>20, <3>1, <4>3, <4>4 DEF TryClose, intakeVars, jobVars, CompletedOK, Unfinished, Ending
      <3>2. CASE ~Empty
        BY <1>20, <3>2 DEF TryClose, CompletedOK, Ending
      <3> QED
        BY <3>1, <3>2
    <2>10. EndOK'
      BY <1>20 DEF TryClose, intakeVars, jobVars, batchVars, budgetVars, waitVars, EndOK,
          EverythingInstalledAtEnd, CleanedUp, Ending
    <2> QED
      BY <2>1, <2>2, <2>3, <2>4, <2>5, <2>6, <2>7, <2>8, <2>9, <2>10 DEF InboxInv
  <1>21. ASSUME Drain PROVE InboxInv'
    <2>1. Ack /\ pc \in Preparing
      BY <1>21 DEF Drain, Drained, Preparing
    <2>a. /\ ExactlyOnce' /\ Numbered' /\ PendingHasReceipt' /\ TwoStateSlots'
          /\ SlotsMatchJobs'
          /\ receipts' \in [RecordIds \cup Questions -> Nat]
          /\ \A f \in facts' : f.seq > acknowledged'
          /\ acknowledged' <= sequence' /\ acknowledged' \in Nat
          /\ acknowledged <= acknowledged'
          /\ Pending' = Pending \ batch
          /\ facts' = {f \in facts : f.seq > top}
          /\ captured /\ ~captured' /\ batch' = {} /\ top' = 0 /\ sequence' = sequence
      BY <2>1, Acked
    <2>2. TypeOK'
      <3>1. /\ installed' = installed \cup batch /\ reserved' \subseteq reserved
            /\ requested' \subseteq requested /\ superseded' = superseded /\ jobs' = jobs
        BY <2>1 DEF Ack, KeepsRequests
      <3>2. pc' \in PCs /\ after' \in Nat /\ spent' \in Nat /\ unseen' \subseteq unseen
        BY <1>21, <2>a DEF Drain, Drained, Cursor, budgetVars, waitVars, PCs, TypeOK
      <3>3. captured' \in BOOLEAN /\ facts' \subseteq Facts /\ installed' \subseteq Numbers
        BY <2>1, <2>a, <3>1 DEF Ack, TypeOK
      <3> QED
        BY <1>21, <2>a, <3>1, <3>2, <3>3 DEF Drain, Drained, budgetVars, waitVars, TypeOK
    <2>3. BatchOK'
      BY <1>21, <2>a DEF Drain, Drained, BatchOK, Preparing, TypeOK
    <2>4. CursorOK'
      BY <1>21, <2>a DEF Drain, Drained, Cursor, CursorOK, TypeOK, waitVars
    <2>5. SleeperHasNothing'
      BY <1>21, <2>a DEF Drain, Drained, Ack, Covers, KeepsRequests, intakeVars, jobVars, batchVars,
          budgetVars, waitVars, SleeperHasNothing, Matches
    <2>6. BudgetOK'
      BY <1>21, <2>a DEF Drain, Drained, Ack, Covers, KeepsRequests, intakeVars, jobVars, batchVars,
          budgetVars, waitVars, BudgetOK, BudgetIsExact, Ending, TypeOK
    <2>7. QuestionOK'
      BY <1>21, <2>a DEF Drain, Drained, Ack, Covers, KeepsRequests, intakeVars, jobVars, batchVars,
          budgetVars, waitVars, QuestionOK, Of, Running, TypeOK
    <2>8. SlotsOK'
      BY <1>21, <2>a DEF Drain, Drained, Ack, Covers, KeepsRequests, intakeVars, jobVars, batchVars,
          budgetVars, waitVars, SlotsOK, SlotsMatchJobs, Unfinished, HasInput, Of, TypeOK,
          JobStates
    <2>9. UnseenOK'
      BY <1>21, <2>a DEF Drain, Drained, Ack, Covers, KeepsRequests, intakeVars, jobVars, batchVars,
          budgetVars, waitVars, UnseenOK, Superseded, Pending, Seqs, Running
    <2>10. CompletedOK'
      BY <1>21, <2>a DEF Drain, Drained, Ack, Covers, KeepsRequests, intakeVars, jobVars, batchVars,
          budgetVars, waitVars, CompletedOK, Unfinished, Ending, TypeOK
    <2>11. EndOK'
      BY <1>21, <2>a DEF Drain, Drained, Ack, Covers, KeepsRequests, intakeVars, jobVars, batchVars,
          budgetVars, waitVars, EndOK, EverythingInstalledAtEnd, CleanedUp, Ending
    <2> QED
      BY <2>a, <2>2, <2>3, <2>4, <2>5, <2>6, <2>7, <2>8, <2>9, <2>10, <2>11 DEF InboxInv
  <1>22. ASSUME NEW q \in Questions, CycleAsks(q) PROVE InboxInv'
    <2>1. ExactlyOnce' /\ Numbered' /\ CursorOK' /\ PendingHasReceipt' /\ TwoStateSlots'
      BY <1>22, DataStill DEF CycleAsks, CycleOver, CycleUnchanged, Notify, intakeVars, batchVars,
          waitVars
    <2>2. TypeOK'
      BY <1>22 DEF CycleAsks, CycleOver, CycleUnchanged, Notify, intakeVars, jobVars, batchVars,
          budgetVars, waitVars, TypeOK, Waits, Wakes, JobStates, PCs
    <2>3. BatchOK'
      BY <1>22 DEF CycleAsks, CycleOver, CycleUnchanged, Notify, intakeVars, jobVars, batchVars,
          budgetVars, waitVars, BatchOK, Pending, Seqs, Preparing, Ending
    <2>4. SleeperHasNothing'
      BY <1>22 DEF CycleAsks, CycleOver, CycleUnchanged, Notify, intakeVars, jobVars, batchVars,
          budgetVars, waitVars, SleeperHasNothing, Matches
    <2>5. BudgetOK'
      BY <1>22 DEF CycleAsks, CycleOver, CycleUnchanged, Notify, intakeVars, jobVars, batchVars,
          budgetVars, waitVars, BudgetOK, BudgetIsExact, Ending, TypeOK
    <2>6. QuestionOK'
      <3>1. ~captured /\ pc' = "boundary" /\ wait' = "question" /\ captured' = captured
        BY <1>22 DEF CycleAsks, CycleOver, CycleUnchanged, batchVars, BatchOK, Preparing, Ending
      <3> QED
        BY <3>1 DEF QuestionOK, Running
    <2>7. SlotsOK'
      BY <1>22 DEF CycleAsks, CycleOver, CycleUnchanged, Notify, intakeVars, jobVars, batchVars,
          budgetVars, waitVars, SlotsOK, SlotsMatchJobs, Unfinished, HasInput, Of, TypeOK,
          JobStates
    <2>8. UnseenOK'
      BY <1>22 DEF CycleAsks, CycleOver, CycleUnchanged, Notify, intakeVars, jobVars, batchVars,
          budgetVars, waitVars, UnseenOK, Superseded, Pending, Seqs, Running
    <2>9. CompletedOK'
      BY <1>22 DEF CycleAsks, CycleOver, CycleUnchanged, Notify, intakeVars, jobVars, batchVars,
          budgetVars, waitVars, CompletedOK, Unfinished, Ending, TypeOK
    <2>10. EndOK'
      BY <1>22 DEF CycleAsks, CycleOver, CycleUnchanged, Notify, intakeVars, jobVars, batchVars,
          budgetVars, waitVars, EndOK, EverythingInstalledAtEnd, CleanedUp, Ending
    <2> QED
      BY <2>1, <2>2, <2>3, <2>4, <2>5, <2>6, <2>7, <2>8, <2>9, <2>10 DEF InboxInv
  <1>23. ASSUME NEW w \in {"job", "event", "timer"}, CycleWaits(w) PROVE InboxInv'
    <2>1. ExactlyOnce' /\ Numbered' /\ CursorOK' /\ PendingHasReceipt' /\ TwoStateSlots'
      BY <1>23, DataStill DEF CycleWaits, CycleOver, CycleUnchanged, intakeVars, batchVars,
          waitVars
    <2>2. TypeOK'
      BY <1>23 DEF CycleWaits, CycleOver, CycleUnchanged, intakeVars, jobVars, batchVars,
          budgetVars, waitVars, TypeOK, Waits, Wakes, JobStates, PCs
    <2>3. BatchOK'
      BY <1>23 DEF CycleWaits, CycleOver, CycleUnchanged, intakeVars, jobVars, batchVars,
          budgetVars, waitVars, BatchOK, Pending, Seqs, Preparing, Ending
    <2>4. SleeperHasNothing'
      BY <1>23 DEF CycleWaits, CycleOver, CycleUnchanged, intakeVars, jobVars, batchVars,
          budgetVars, waitVars, SleeperHasNothing, Matches
    <2>5. BudgetOK'
      BY <1>23 DEF CycleWaits, CycleOver, CycleUnchanged, intakeVars, jobVars, batchVars,
          budgetVars, waitVars, BudgetOK, BudgetIsExact, Ending, TypeOK
    <2>6. QuestionOK'
      BY <1>23 DEF CycleWaits, CycleOver, CycleUnchanged, intakeVars, jobVars, batchVars,
          budgetVars, waitVars, QuestionOK, Of, Running, TypeOK
    <2>7. SlotsOK'
      BY <1>23 DEF CycleWaits, CycleOver, CycleUnchanged, intakeVars, jobVars, batchVars,
          budgetVars, waitVars, SlotsOK, SlotsMatchJobs, Unfinished, HasInput, Of, TypeOK,
          JobStates
    <2>8. UnseenOK'
      BY <1>23 DEF CycleWaits, CycleOver, CycleUnchanged, intakeVars, jobVars, batchVars,
          budgetVars, waitVars, UnseenOK, Superseded, Pending, Seqs, Running
    <2>9. CompletedOK'
      BY <1>23 DEF CycleWaits, CycleOver, CycleUnchanged, intakeVars, jobVars, batchVars,
          budgetVars, waitVars, CompletedOK, Unfinished, Ending, TypeOK
    <2>10. EndOK'
      BY <1>23 DEF CycleWaits, CycleOver, CycleUnchanged, intakeVars, jobVars, batchVars,
          budgetVars, waitVars, EndOK, EverythingInstalledAtEnd, CleanedUp, Ending
    <2> QED
      BY <2>1, <2>2, <2>3, <2>4, <2>5, <2>6, <2>7, <2>8, <2>9, <2>10 DEF InboxInv
  <1>24. ASSUME CycleContinues PROVE InboxInv'
    <2>1. ExactlyOnce' /\ Numbered' /\ CursorOK' /\ PendingHasReceipt' /\ TwoStateSlots'
      BY <1>24, DataStill DEF CycleContinues, CycleOver, CycleUnchanged, intakeVars, batchVars,
          waitVars
    <2>2. TypeOK'
      BY <1>24 DEF CycleContinues, CycleOver, CycleUnchanged, intakeVars, jobVars, batchVars,
          budgetVars, waitVars, TypeOK, Waits, Wakes, JobStates, PCs
    <2>3. BatchOK'
      BY <1>24 DEF CycleContinues, CycleOver, CycleUnchanged, intakeVars, jobVars, batchVars,
          budgetVars, waitVars, BatchOK, Pending, Seqs, Preparing, Ending
    <2>4. SleeperHasNothing'
      BY <1>24 DEF CycleContinues, CycleOver, CycleUnchanged, intakeVars, jobVars, batchVars,
          budgetVars, waitVars, SleeperHasNothing, Matches
    <2>5. BudgetOK'
      BY <1>24 DEF CycleContinues, CycleOver, CycleUnchanged, intakeVars, jobVars, batchVars,
          budgetVars, waitVars, BudgetOK, BudgetIsExact, Ending, TypeOK
    <2>6. QuestionOK'
      BY <1>24 DEF CycleContinues, CycleOver, CycleUnchanged, intakeVars, jobVars, batchVars,
          budgetVars, waitVars, QuestionOK, Of, Running, TypeOK
    <2>7. SlotsOK'
      BY <1>24 DEF CycleContinues, CycleOver, CycleUnchanged, intakeVars, jobVars, batchVars,
          budgetVars, waitVars, SlotsOK, SlotsMatchJobs, Unfinished, HasInput, Of, TypeOK,
          JobStates
    <2>8. UnseenOK'
      BY <1>24 DEF CycleContinues, CycleOver, CycleUnchanged, intakeVars, jobVars, batchVars,
          budgetVars, waitVars, UnseenOK, Superseded, Pending, Seqs, Running
    <2>9. CompletedOK'
      BY <1>24 DEF CycleContinues, CycleOver, CycleUnchanged, intakeVars, jobVars, batchVars,
          budgetVars, waitVars, CompletedOK, Unfinished, Ending, TypeOK
    <2>10. EndOK'
      BY <1>24 DEF CycleContinues, CycleOver, CycleUnchanged, intakeVars, jobVars, batchVars,
          budgetVars, waitVars, EndOK, EverythingInstalledAtEnd, CleanedUp, Ending
    <2> QED
      BY <2>1, <2>2, <2>3, <2>4, <2>5, <2>6, <2>7, <2>8, <2>9, <2>10 DEF InboxInv
  <1>25. ASSUME CycleAnswers PROVE InboxInv'
    <2>1. ExactlyOnce' /\ Numbered' /\ CursorOK' /\ PendingHasReceipt' /\ TwoStateSlots'
      BY <1>25, DataStill DEF CycleAnswers, CycleOver, CycleUnchanged, intakeVars, batchVars,
          waitVars
    <2>2. TypeOK'
      BY <1>25 DEF CycleAnswers, CycleOver, CycleUnchanged, intakeVars, jobVars, batchVars,
          budgetVars, waitVars, TypeOK, Waits, Wakes, JobStates, PCs
    <2>3. BatchOK'
      BY <1>25 DEF CycleAnswers, CycleOver, CycleUnchanged, intakeVars, jobVars, batchVars,
          budgetVars, waitVars, BatchOK, Pending, Seqs, Preparing, Ending
    <2>4. SleeperHasNothing'
      BY <1>25 DEF CycleAnswers, CycleOver, CycleUnchanged, intakeVars, jobVars, batchVars,
          budgetVars, waitVars, SleeperHasNothing, Matches
    <2>5. BudgetOK'
      BY <1>25 DEF CycleAnswers, CycleOver, CycleUnchanged, intakeVars, jobVars, batchVars,
          budgetVars, waitVars, BudgetOK, BudgetIsExact, Ending, TypeOK
    <2>6. QuestionOK'
      BY <1>25 DEF CycleAnswers, CycleOver, CycleUnchanged, intakeVars, jobVars, batchVars,
          budgetVars, waitVars, QuestionOK, Of, Running, TypeOK
    <2>7. SlotsOK'
      BY <1>25 DEF CycleAnswers, CycleOver, CycleUnchanged, intakeVars, jobVars, batchVars,
          budgetVars, waitVars, SlotsOK, SlotsMatchJobs, Unfinished, HasInput, Of, TypeOK,
          JobStates
    <2>8. UnseenOK'
      BY <1>25 DEF CycleAnswers, CycleOver, CycleUnchanged, intakeVars, jobVars, batchVars,
          budgetVars, waitVars, UnseenOK, Superseded, Pending, Seqs, Running
    <2>9. CompletedOK'
      BY <1>25 DEF CycleAnswers, CycleOver, CycleUnchanged, intakeVars, jobVars, batchVars,
          budgetVars, waitVars, CompletedOK, Unfinished, Ending, TypeOK
    <2>10. EndOK'
      BY <1>25 DEF CycleAnswers, CycleOver, CycleUnchanged, intakeVars, jobVars, batchVars,
          budgetVars, waitVars, EndOK, EverythingInstalledAtEnd, CleanedUp, Ending
    <2> QED
      BY <2>1, <2>2, <2>3, <2>4, <2>5, <2>6, <2>7, <2>8, <2>9, <2>10 DEF InboxInv
  <1>26. ASSUME Interrupted PROVE InboxInv'
    <2>1. ExactlyOnce' /\ Numbered' /\ CursorOK' /\ PendingHasReceipt' /\ TwoStateSlots'
      BY <1>26, DataStill DEF Interrupted, CycleOver, EndQuestion, intakeVars, batchVars, waitVars
    <2>2. TypeOK'
      BY <1>26 DEF Interrupted, CycleOver, EndQuestion, intakeVars, jobVars, batchVars,
          budgetVars, waitVars, TypeOK, Waits, Wakes, JobStates, PCs
    <2>3. BatchOK'
      BY <1>26 DEF Interrupted, CycleOver, EndQuestion, intakeVars, jobVars, batchVars,
          budgetVars, waitVars, BatchOK, Pending, Seqs, Preparing, Ending
    <2>4. SleeperHasNothing'
      BY <1>26 DEF Interrupted, CycleOver, EndQuestion, intakeVars, jobVars, batchVars,
          budgetVars, waitVars, SleeperHasNothing, Matches
    <2>5. BudgetOK'
      BY <1>26 DEF Interrupted, CycleOver, EndQuestion, intakeVars, jobVars, batchVars,
          budgetVars, waitVars, BudgetOK, BudgetIsExact, Ending, TypeOK
    <2>6. QuestionOK'
      BY <1>26 DEF Interrupted, CycleOver, EndQuestion, intakeVars, jobVars, batchVars,
          budgetVars, waitVars, QuestionOK, Of, Running, TypeOK
    <2>7. SlotsOK'
      BY <1>26 DEF Interrupted, CycleOver, EndQuestion, intakeVars, jobVars, batchVars,
          budgetVars, waitVars, SlotsOK, SlotsMatchJobs, Unfinished, HasInput, Of, TypeOK,
          JobStates
    <2>8. UnseenOK'
      BY <1>26 DEF Interrupted, CycleOver, EndQuestion, intakeVars, jobVars, batchVars,
          budgetVars, waitVars, UnseenOK, Superseded, Pending, Seqs, Running
    <2>9. CompletedOK'
      BY <1>26 DEF Interrupted, CycleOver, EndQuestion, intakeVars, jobVars, batchVars,
          budgetVars, waitVars, CompletedOK, Unfinished, Ending, TypeOK
    <2>10. EndOK'
      BY <1>26 DEF Interrupted, CycleOver, EndQuestion, intakeVars, jobVars, batchVars,
          budgetVars, waitVars, EndOK, EverythingInstalledAtEnd, CleanedUp, Ending
    <2> QED
      BY <2>1, <2>2, <2>3, <2>4, <2>5, <2>6, <2>7, <2>8, <2>9, <2>10 DEF InboxInv
  <1>27. ASSUME CloseIngress PROVE InboxInv'
    <2>1. ExactlyOnce' /\ Numbered' /\ CursorOK' /\ PendingHasReceipt' /\ TwoStateSlots'
      BY <1>27, DataStill DEF CloseIngress, Notify, intakeVars, batchVars, waitVars
    <2>2. TypeOK'
      BY <1>27 DEF CloseIngress, Notify, intakeVars, jobVars, batchVars, budgetVars, waitVars,
          TypeOK, Waits, Wakes, JobStates, PCs
    <2>3. BatchOK'
      BY <1>27 DEF CloseIngress, Notify, intakeVars, jobVars, batchVars, budgetVars, waitVars,
          BatchOK, Pending, Seqs, Preparing, Ending
    <2>4. SleeperHasNothing'
      BY <1>27 DEF CloseIngress, Notify, intakeVars, jobVars, batchVars, budgetVars, waitVars,
          SleeperHasNothing, Matches
    <2>5. BudgetOK'
      BY <1>27 DEF CloseIngress, Notify, intakeVars, jobVars, batchVars, budgetVars, waitVars,
          BudgetOK, BudgetIsExact, Ending, TypeOK
    <2>6. QuestionOK'
      BY <1>27 DEF CloseIngress, Notify, intakeVars, jobVars, batchVars, budgetVars, waitVars,
          QuestionOK, Of, Running, TypeOK
    <2>7. SlotsOK'
      BY <1>27 DEF CloseIngress, Notify, intakeVars, jobVars, batchVars, budgetVars, waitVars,
          SlotsOK, SlotsMatchJobs, Unfinished, HasInput, Of, TypeOK, JobStates
    <2>8. UnseenOK'
      BY <1>27 DEF CloseIngress, Notify, intakeVars, jobVars, batchVars, budgetVars, waitVars,
          UnseenOK, Superseded, Pending, Seqs, Running
    <2>9. CompletedOK'
      BY <1>27 DEF CloseIngress, Notify, intakeVars, jobVars, batchVars, budgetVars, waitVars,
          CompletedOK, Unfinished, Ending, TypeOK
    <2>10. EndOK'
      BY <1>27 DEF CloseIngress, Notify, intakeVars, jobVars, batchVars, budgetVars, waitVars,
          EndOK, EverythingInstalledAtEnd, CleanedUp, Ending
    <2> QED
      BY <2>1, <2>2, <2>3, <2>4, <2>5, <2>6, <2>7, <2>8, <2>9, <2>10 DEF InboxInv
  <1>28. ASSUME CleanupDone PROVE InboxInv'
    <2>1. ExactlyOnce' /\ Numbered' /\ CursorOK' /\ PendingHasReceipt' /\ TwoStateSlots'
      BY <1>28, DataStill DEF CleanupDone, CleanedUp, intakeVars, batchVars, waitVars
    <2>2. TypeOK'
      BY <1>28 DEF CleanupDone, CleanedUp, intakeVars, jobVars, batchVars, budgetVars, waitVars,
          TypeOK, Waits, Wakes, JobStates, PCs
    <2>3. BatchOK'
      BY <1>28 DEF CleanupDone, CleanedUp, intakeVars, jobVars, batchVars, budgetVars, waitVars,
          BatchOK, Pending, Seqs, Preparing, Ending
    <2>4. SleeperHasNothing'
      BY <1>28 DEF CleanupDone, CleanedUp, intakeVars, jobVars, batchVars, budgetVars, waitVars,
          SleeperHasNothing, Matches
    <2>5. BudgetOK'
      BY <1>28 DEF CleanupDone, CleanedUp, intakeVars, jobVars, batchVars, budgetVars, waitVars,
          BudgetOK, BudgetIsExact, Ending, TypeOK
    <2>6. QuestionOK'
      BY <1>28 DEF CleanupDone, CleanedUp, intakeVars, jobVars, batchVars, budgetVars, waitVars,
          QuestionOK, Of, Running, TypeOK
    <2>7. SlotsOK'
      BY <1>28 DEF CleanupDone, CleanedUp, intakeVars, jobVars, batchVars, budgetVars, waitVars,
          SlotsOK, SlotsMatchJobs, Unfinished, HasInput, Of, TypeOK, JobStates
    <2>8. UnseenOK'
      BY <1>28 DEF CleanupDone, CleanedUp, intakeVars, jobVars, batchVars, budgetVars, waitVars,
          UnseenOK, Superseded, Pending, Seqs, Running
    <2>9. CompletedOK'
      BY <1>28 DEF CleanupDone, CleanedUp, intakeVars, jobVars, batchVars, budgetVars, waitVars,
          CompletedOK, Unfinished, Ending, TypeOK
    <2>10. EndOK'
      BY <1>28 DEF CleanupDone, CleanedUp, intakeVars, jobVars, batchVars, budgetVars, waitVars,
          EndOK, EverythingInstalledAtEnd, Ending
    <2> QED
      BY <2>1, <2>2, <2>3, <2>4, <2>5, <2>6, <2>7, <2>8, <2>9, <2>10 DEF InboxInv
  <1>29. ASSUME DrainFails PROVE InboxInv'
    <2>1. ExactlyOnce' /\ Numbered' /\ CursorOK' /\ PendingHasReceipt' /\ TwoStateSlots'
      BY <1>29, DataStill DEF DrainFails, intakeVars, batchVars, waitVars
    <2>2. TypeOK'
      BY <1>29 DEF DrainFails, intakeVars, jobVars, batchVars, budgetVars, waitVars, TypeOK,
          Waits, Wakes, JobStates, PCs
    <2>3. BatchOK'
      BY <1>29 DEF DrainFails, intakeVars, jobVars, batchVars, budgetVars, waitVars, BatchOK,
          Pending, Seqs, Preparing, Ending
    <2>4. SleeperHasNothing'
      BY <1>29 DEF DrainFails, intakeVars, jobVars, batchVars, budgetVars, waitVars,
          SleeperHasNothing, Matches
    <2>5. BudgetOK'
      BY <1>29 DEF DrainFails, intakeVars, jobVars, batchVars, budgetVars, waitVars, BudgetOK,
          BudgetIsExact, Ending, TypeOK
    <2>6. QuestionOK'
      BY <1>29 DEF DrainFails, intakeVars, jobVars, batchVars, budgetVars, waitVars, QuestionOK,
          Of, Running, TypeOK
    <2>7. SlotsOK'
      BY <1>29 DEF DrainFails, intakeVars, jobVars, batchVars, budgetVars, waitVars, SlotsOK,
          SlotsMatchJobs, Unfinished, HasInput, Of, TypeOK, JobStates
    <2>8. UnseenOK'
      BY <1>29 DEF DrainFails, intakeVars, jobVars, batchVars, budgetVars, waitVars, UnseenOK,
          Superseded, Pending, Seqs, Running
    <2>9. CompletedOK'
      BY <1>29 DEF DrainFails, intakeVars, jobVars, batchVars, budgetVars, waitVars, CompletedOK,
          Unfinished, Ending, TypeOK
    <2>10. EndOK'
      BY <1>29 DEF DrainFails, intakeVars, jobVars, batchVars, budgetVars, waitVars, EndOK,
          EverythingInstalledAtEnd, CleanedUp, Ending
    <2> QED
      BY <2>1, <2>2, <2>3, <2>4, <2>5, <2>6, <2>7, <2>8, <2>9, <2>10 DEF InboxInv
  <1>30. ASSUME NEW j \in Jobs, CleanupJob(j) PROVE InboxInv'
    <2>1. /\ pc = "cleanup" /\ jobs' = [jobs EXCEPT ![j] = "released"]
          /\ jobs[j] \in {"live", "closed", "delivered"}
          /\ requested' = {k \in requested : k[1] = j => HasInput(k)}
          /\ UNCHANGED <<batchVars, budgetVars, waitVars, closed, pc, outcome, source, reserved,
                         after>>
      BY <1>30 DEF CleanupJob, JobUnchanged, waitVars
    <2>2. \A t \in Jobs : t # j => jobs'[t] = jobs[t]
      BY <2>1 DEF TypeOK
    <2>3. jobs' \in [Jobs -> JobStates] /\ requested' \subseteq Jobs \X Requests
      BY <2>1 DEF TypeOK, JobStates
    <2>4. BudgetOK' /\ EndOK'
      BY <2>1 DEF budgetVars, BudgetOK, BudgetIsExact, EndOK, EverythingInstalledAtEnd, Ending
    <2>5. CASE jobs[j] = "delivered"
      <3>1. UNCHANGED <<intakeVars, notified>>
        BY <1>30, <2>5 DEF CleanupJob
      <3>2. ExactlyOnce' /\ Numbered' /\ CursorOK' /\ PendingHasReceipt' /\ TwoStateSlots'
        BY <2>1, <3>1, DataStill DEF intakeVars, batchVars, waitVars
      <3>3. TypeOK'
        BY <2>1, <2>3, <3>1 DEF intakeVars, batchVars, budgetVars, waitVars, TypeOK
      <3>4. BatchOK' /\ SleeperHasNothing' /\ QuestionOK' /\ UnseenOK'
        BY <2>1, <3>1 DEF intakeVars, batchVars, waitVars, BatchOK, SleeperHasNothing, QuestionOK,
            UnseenOK, Of, Pending, Superseded, Seqs, Running
      <3>5. CompletedOK'
        BY <2>1, <2>2, <3>1 DEF intakeVars, CompletedOK, Unfinished, TypeOK
      <3>6. SlotsOK'
        <4>1. Unfinished' \subseteq Unfinished
          BY <2>1, <2>2 DEF Unfinished, TypeOK
        <4>2. SlotsMatchJobs'
          BY <2>1, <2>2, <2>5, <3>1, <4>1 DEF intakeVars, SlotsOK, SlotsMatchJobs, HasInput
        <4> QED
          BY <2>1, <2>2, <3>1, <4>2 DEF intakeVars, SlotsOK, Of, HasInput, TypeOK
      <3> QED
        BY <2>4, <3>2, <3>3, <3>4, <3>5, <3>6 DEF InboxInv
    <2>6. CASE jobs[j] # "delivered"
      <3>1. Delivers(j) /\ jobs[j] \in {"live", "closed"}
        BY <1>30, <2>1, <2>6 DEF CleanupJob
      <3>2. /\ ExactlyOnce' /\ Numbered' /\ BatchOK' /\ CursorOK' /\ UnseenOK'
            /\ PendingHasReceipt' /\ TwoStateSlots'
            /\ facts' \subseteq Facts /\ superseded' = superseded
            /\ unseen' \subseteq Numbers /\ sequence' \in Nat /\ receipts' = receipts
            /\ facts' = facts \cup {Fact("terminal", j)} /\ j \in reserved
            /\ \A f \in facts : f.kind = "terminal" => f.id # j
        BY <2>1, <3>1, Delivered
      <3>3. TypeOK'
        BY <2>1, <2>3, <3>1, <3>2 DEF Delivers, Notify, batchVars, budgetVars, waitVars, TypeOK
      <3>4. SleeperHasNothing' /\ QuestionOK'
        BY <2>1, <3>2 DEF batchVars, waitVars, SleeperHasNothing, QuestionOK, Running
      <3>5. CompletedOK'
        BY <2>1, <3>1 DEF CompletedOK, Unfinished
      <3>6. SlotsOK'
        <4>1. Unfinished' \subseteq Unfinished
          BY <2>1, <2>2 DEF Unfinished, TypeOK
        <4>2. SlotsMatchJobs'
          <5>1. \E f \in facts' : f.kind = "terminal" /\ f.id = j
            <6>1. Fact("terminal", j).kind = "terminal" /\ Fact("terminal", j).id = j
              BY DEF Fact
            <6> QED
              BY <3>2, <6>1
          <5>2. \A t \in reserved' : \/ jobs'[t] \in {"starting", "live", "closed", "stuck"}
                                     \/ \E f \in facts' : f.kind = "terminal" /\ f.id = t
            BY <2>1, <2>2, <3>2, <5>1 DEF SlotsOK, SlotsMatchJobs, TypeOK
          <5>3. \A k \in requested' : k[1] \in reserved' \/ HasInput(k)'
            BY <2>1, <3>2 DEF SlotsOK, SlotsMatchJobs, HasInput
          <5> QED
            BY <2>1, <4>1, <5>2, <5>3 DEF SlotsOK, SlotsMatchJobs
        <4>3. \A h \in Of({"terminal"})' :
                /\ h.id \in reserved' /\ jobs'[h.id] \in {"delivered", "released"}
                /\ \A g \in Of({"terminal"})' : g.id = h.id => g = h
          BY <2>1, <2>2, <3>2 DEF SlotsOK, Of, Fact, TypeOK
        <4> QED
          BY <2>1, <2>2, <3>2, <4>2, <4>3 DEF SlotsOK, Of, HasInput, Fact, TypeOK
      <3> QED
        BY <2>4, <3>2, <3>3, <3>4, <3>5, <3>6 DEF InboxInv
    <2> QED
      BY <2>5, <2>6
  <1>31. ASSUME NEW j \in Jobs, CleanupFails(j) PROVE InboxInv'
    <2>1. ExactlyOnce' /\ Numbered' /\ CursorOK' /\ PendingHasReceipt' /\ TwoStateSlots'
      BY <1>31, DataStill DEF CleanupFails, JobUnchanged, intakeVars, batchVars, waitVars
    <2>2. TypeOK'
      BY <1>31 DEF CleanupFails, JobUnchanged, intakeVars, jobVars, batchVars, budgetVars,
          waitVars, TypeOK, Waits, Wakes, JobStates, PCs
    <2>3. BatchOK'
      BY <1>31 DEF CleanupFails, JobUnchanged, intakeVars, jobVars, batchVars, budgetVars,
          waitVars, BatchOK, Pending, Seqs, Preparing, Ending
    <2>4. SleeperHasNothing'
      BY <1>31 DEF CleanupFails, JobUnchanged, intakeVars, jobVars, batchVars, budgetVars,
          waitVars, SleeperHasNothing, Matches
    <2>5. BudgetOK'
      BY <1>31 DEF CleanupFails, JobUnchanged, intakeVars, jobVars, batchVars, budgetVars,
          waitVars, BudgetOK, BudgetIsExact, Ending, TypeOK
    <2>6. QuestionOK'
      BY <1>31 DEF CleanupFails, JobUnchanged, intakeVars, jobVars, batchVars, budgetVars,
          waitVars, QuestionOK, Of, Running, TypeOK
    <2>7. SlotsOK'
      BY <1>31 DEF CleanupFails, JobUnchanged, intakeVars, jobVars, batchVars, budgetVars,
          waitVars, SlotsOK, SlotsMatchJobs, Unfinished, HasInput, Of, TypeOK, JobStates
    <2>8. UnseenOK'
      BY <1>31 DEF CleanupFails, JobUnchanged, intakeVars, jobVars, batchVars, budgetVars,
          waitVars, UnseenOK, Superseded, Pending, Seqs, Running
    <2>9. CompletedOK'
      BY <1>31 DEF CleanupFails, JobUnchanged, intakeVars, jobVars, batchVars, budgetVars,
          waitVars, CompletedOK, Unfinished, Ending, TypeOK
    <2>10. EndOK'
      BY <1>31 DEF CleanupFails, JobUnchanged, intakeVars, jobVars, batchVars, budgetVars,
          waitVars, EndOK, EverythingInstalledAtEnd, CleanedUp, Ending
    <2> QED
      BY <2>1, <2>2, <2>3, <2>4, <2>5, <2>6, <2>7, <2>8, <2>9, <2>10 DEF InboxInv
  <1>32. CASE UNCHANGED vars
    <2>1. ExactlyOnce' /\ Numbered' /\ CursorOK' /\ PendingHasReceipt' /\ TwoStateSlots'
      BY <1>32, DataStill DEF vars, intakeVars, batchVars, waitVars
    <2>2. TypeOK'
      BY <1>32 DEF vars, intakeVars, jobVars, batchVars, budgetVars, waitVars, TypeOK, Waits,
          Wakes, JobStates, PCs
    <2>3. BatchOK'
      BY <1>32 DEF vars, intakeVars, jobVars, batchVars, budgetVars, waitVars, BatchOK, Pending,
          Seqs, Preparing, Ending
    <2>4. SleeperHasNothing'
      BY <1>32 DEF vars, intakeVars, jobVars, batchVars, budgetVars, waitVars, SleeperHasNothing,
          Matches
    <2>5. BudgetOK'
      BY <1>32 DEF vars, intakeVars, jobVars, batchVars, budgetVars, waitVars, BudgetOK,
          BudgetIsExact, Ending, TypeOK
    <2>6. QuestionOK'
      BY <1>32 DEF vars, intakeVars, jobVars, batchVars, budgetVars, waitVars, QuestionOK, Of,
          Running, TypeOK
    <2>7. SlotsOK'
      BY <1>32 DEF vars, intakeVars, jobVars, batchVars, budgetVars, waitVars, SlotsOK,
          SlotsMatchJobs, Unfinished, HasInput, Of, TypeOK, JobStates
    <2>8. UnseenOK'
      BY <1>32 DEF vars, intakeVars, jobVars, batchVars, budgetVars, waitVars, UnseenOK,
          Superseded, Pending, Seqs, Running
    <2>9. CompletedOK'
      BY <1>32 DEF vars, intakeVars, jobVars, batchVars, budgetVars, waitVars, CompletedOK,
          Unfinished, Ending, TypeOK
    <2>10. EndOK'
      BY <1>32 DEF vars, intakeVars, jobVars, batchVars, budgetVars, waitVars, EndOK,
          EverythingInstalledAtEnd, CleanedUp, Ending
    <2> QED
      BY <2>1, <2>2, <2>3, <2>4, <2>5, <2>6, <2>7, <2>8, <2>9, <2>10 DEF InboxInv
  <1> QED
    BY <1>1, <1>2, <1>3, <1>4, <1>5, <1>6, <1>7, <1>8, <1>9, <1>10, <1>11, <1>12, <1>13, <1>14,
        <1>15, <1>16, <1>17, <1>18, <1>19, <1>20, <1>21, <1>22, <1>23, <1>24, <1>25, <1>26, <1>27,
        <1>28, <1>29, <1>30, <1>31, <1>32
    DEF Next, ProducerNext, JobNext, WaitNext, BatchNext, CycleNext, EndNext, Done

\* The initial state of a Turn satisfies the inductive invariant.
LEMMA InboxInit == Init => InboxInv
  <1> SUFFICES ASSUME Init PROVE InboxInv
    OBVIOUS
  <1> USE InboxAssumption DEF Init
  <1>1. TypeOK
    BY DEF TypeOK, Waits, Wakes, JobStates, PCs
  <1>2. ExactlyOnce
    BY DEF ExactlyOnce, Pending, Superseded, Seqs
  <1>3. /\ Numbered /\ CursorOK /\ PendingHasReceipt /\ TwoStateSlots /\ SleeperHasNothing
        /\ CompletedOK
    BY DEF Numbered, CursorOK, PendingHasReceipt, TwoStateSlots, SleeperHasNothing, Of,
        CompletedOK
  <1>4. BatchOK /\ EndOK
    BY DEF BatchOK, EndOK, EverythingInstalledAtEnd, Preparing, Ending
  <1>5. BudgetOK
    BY DEF BudgetOK, BudgetIsExact, Ending
  <1>6. QuestionOK
    BY DEF QuestionOK, Of, Running
  <1>7. SlotsOK
    BY DEF SlotsOK, SlotsMatchJobs, Unfinished, Of
  <1>8. UnseenOK
    BY DEF UnseenOK, Pending, Superseded, Seqs, Running
  <1> QED
    BY <1>1, <1>2, <1>3, <1>4, <1>5, <1>6, <1>7, <1>8 DEF InboxInv

\* The inductive invariant holds in every reachable state of a Turn.
THEOREM InboxInvariant == Spec => []InboxInv
  BY InboxInit, InboxNext, PTL DEF Spec

\* The inbox, the runner and the Job registry keep their types.
THEOREM InboxTypeOK == Spec => []TypeOK
  <1>1. InboxInv => TypeOK
    BY DEF InboxInv
  <1> QED
    BY <1>1, InboxInvariant, PTL

\* No fact the inbox accepted is lost or installed twice: each number handed out
\* is pending, installed or superseded, never two of them.
THEOREM InboxExactlyOnce == Spec => []ExactlyOnce
  <1>1. InboxInv => ExactlyOnce
    BY DEF InboxInv
  <1> QED
    BY <1>1, InboxInvariant, PTL

\* A completed Turn had every accepted fact that needs a decision in the
\* Context of some Cycle.
THEOREM InboxSawEverything == Spec => []CompletedSawEverything
  <1>1. InboxInv => CompletedSawEverything
    BY DEF InboxInv, CompletedOK, CompletedSawEverything
  <1> QED
    BY <1>1, InboxInvariant, PTL

\* A Turn whose final drain did not fail leaves nothing accepted behind.
THEOREM InboxDrained == Spec => []EverythingInstalledAtEnd
  <1>1. InboxInv => EverythingInstalledAtEnd
    BY DEF InboxInv, EndOK
  <1> QED
    BY <1>1, InboxInvariant, PTL

\* State notifications are coalesced to one per batch boundary.
THEOREM InboxTwoSlots == Spec => []TwoStateSlots
  <1>1. InboxInv => TwoStateSlots
    BY DEF InboxInv
  <1> QED
    BY <1>1, InboxInvariant, PTL

\* Eviction of old receipts never drops the receipt of a pending record.
THEOREM InboxReceipts == Spec => []PendingHasReceipt
  <1>1. InboxInv => PendingHasReceipt
    BY DEF InboxInv
  <1> QED
    BY <1>1, InboxInvariant, PTL

\* No wake-up of a waiting Turn is lost.
THEOREM InboxNoLostWakeup == Spec => []SleeperHasNothing
  <1>1. InboxInv => SleeperHasNothing
    BY DEF InboxInv
  <1> QED
    BY <1>1, InboxInvariant, PTL

\* No Cycle runs without budget, and a grant counts once.
THEOREM InboxBudget == Spec => []BudgetIsExact
  <1>1. InboxInv => BudgetIsExact
    BY DEF InboxInv, BudgetOK
  <1> QED
    BY <1>1, InboxInvariant, PTL

\* A Cycle starts with no question, no reply and no budget request left over, so
\* that open_question and request_budget do not raise.
THEOREM InboxCleanCycle == Spec => []CycleStartsClean
  <1>1. InboxInv => CycleStartsClean
    BY DEF InboxInv, BudgetOK, QuestionOK, CycleStartsClean, Running, Ending
  <1> QED
    BY <1>1, InboxInvariant, PTL

\* Terminal and request slots are held exactly for those who need them.
THEOREM InboxSlots == Spec => []SlotsMatchJobs
  <1>1. InboxInv => SlotsMatchJobs
    BY DEF InboxInv, SlotsOK
  <1> QED
    BY <1>1, InboxInvariant, PTL
==============================================================================
