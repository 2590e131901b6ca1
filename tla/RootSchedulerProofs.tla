------------------------ MODULE RootSchedulerProofs -------------------------
(***************************************************************************)
(* Theorems about RootScheduler, for any requests, callers, capacity and   *)
(* window.  SchedulerInv, the inductive invariant, says for every state of *)
(* a handle where its request is, for every task that waits what it waits  *)
(* for, and how the numbers of queued and executed requests compare.       *)
(***************************************************************************)
EXTENDS RootScheduler, FiniteSetTheorems, TLAPS

\* The mailbox holds queued requests, in the order of acceptance.
QueueOrder ==
  /\ \A i \in 1 .. Len(queue) : queue[i] # Exit => state[queue[i]] = "queued"
  /\ \A i, j \in 1 .. Len(queue) :
       i < j /\ queue[i] # Exit /\ queue[j] # Exit => number[queue[i]] < number[queue[j]]
  /\ \A r \in Requests : state[r] = "queued" => InQueue(r)

\* The worker has the active request, and no other one is executed.
WorkerOwns ==
  /\ worker = "run" <=> active # Nothing
  /\ \A r \in Requests : active = r =>
       /\ state[r] \in {"preparing", "finalizing"} /\ execution[r] # "none"
       /\ finishing[r] = "none"
       /\ execution[r] \in {"outcome", "cancelled_outcome"} => turn[r] # 0
       /\ state[r] = "finalizing" => turn[r] # 0
  /\ \A r \in Requests : execution[r] = "running" => active = r
  /\ worker = "starting" => \A r \in Requests : execution[r] = "none"

\* What the state of a handle says about the rest of it.
HandleOK(r) ==
  /\ number[r] = 0 => /\ state[r] = "absent" /\ result[r] = "none" /\ finishing[r] = "none"
                      /\ execution[r] = "none" /\ turn[r] = 0
  /\ state[r] = "absent" /\ number[r] # 0 => result[r] # "none"
  /\ state[r] = "queued" => execution[r] = "none" /\ finishing[r] = "none" /\ turn[r] = 0
  /\ state[r] \in {"queued", "preparing", "finalizing"} => result[r] = "none"
  /\ state[r] = "preparing" => active = r
  /\ state[r] = "finalizing" => active = r \/ finishing[r] = "publishing"
  /\ state[r] = "finished" => result[r] # "none"
  /\ finishing[r] = "publishing" => state[r] = "finalizing" /\ intended[r] # "none"
  /\ finishing[r] = "published" => result[r] # "none"
  /\ turn[r] # 0 => execution[r] # "none"
  /\ r \in todo => number[r] # 0
HandleStates == \A r \in Requests : HandleOK(r)

\* The window holds the finished handles, each once.
WindowHolds ==
  /\ Len(completed) <= Retained
  /\ \A i \in 1 .. Len(completed) : state[completed[i]] = "finished"
  /\ \A i, j \in 1 .. Len(completed) : completed[i] = completed[j] => i = j
  /\ \A r \in Requests : state[r] = "finished" => \E i \in 1 .. Len(completed) : completed[i] = r

\* A task waits for a publish task, or is woken by one that has ended; the
\* worker waits for that of what it executed.
Joins ==
  /\ \A t \in Tasks :
       /\ t \in woken => join[t] # Nothing
       /\ join[t] # Nothing =>
            IF t \in woken THEN result[join[t]] # "none" ELSE finishing[join[t]] = "publishing"
  /\ join[Worker] # Nothing => worker \in {"finish", "leave"} \cup Closes
  /\ \A r \in Requests : execution[r] # "none" /\ finishing[r] = "publishing" => join[Worker] = r

\* The last pass over the handles leaves none open behind.
Closing ==
  /\ worker \in {"shutdown_close", "failed_close"} =>
       /\ ~accepting /\ interrupt # "pending"
       /\ \A r \in Requests : Open(r) => r \in todo \/ join[Worker] = r
  /\ worker \in {"serve_close", "stopped"} => ~accepting
  /\ worker = "closed" => ~accepting /\ \A r \in Requests : ~Open(r)
  /\ worker = "starting" => interrupt = "no"
  /\ worker = "failed_close" => \A r \in Requests : execution[r] = "none"

\* Requests are numbered in the order of acceptance, executed in that order,
\* and given Turn identities in that order.
Numbering ==
  /\ \A r \in Requests : number[r] <= accepted /\ turn[r] <= sequence
  /\ \A r, q \in Requests : number[r] = number[q] /\ number[r] # 0 => r = q
  /\ \A r, q \in Requests :
       execution[r] # "none" /\ state[q] = "queued" => number[r] < number[q]
  /\ \A r \in Requests : execution[r] # "none" /\ active # Nothing => number[r] <= number[active]

\* What is published, or about to be, has a cause.
Cause(r, res) ==
  /\ res = "outcome" => execution[r] \in {"outcome", "cancelled_outcome"} /\ turn[r] # 0
  /\ res = "failed" => execution[r] = "failed" \/ (execution[r] = "none" /\ ~accepting)
  /\ res = "cancelled" /\ execution[r] = "none" => cancel[r] /\ turn[r] = 0
Causes ==
  \A r \in Requests :
    /\ Cause(r, result[r])
    /\ finishing[r] = "publishing" => Cause(r, intended[r])

SchedulerInv ==
  /\ TypeOK /\ QueueOrder /\ WorkerOwns /\ HandleStates /\ WindowHolds /\ Joins /\ Closing
  /\ Numbering /\ TurnsInOrder /\ Causes

(***************************************************************************)
(* The mailbox.                                                            *)
(***************************************************************************)
\* AsyncMailbox.discard of a queued request: what stays keeps its order, the
\* request is gone and nothing else is.
LEMMA DiscardKeeps ==
  ASSUME TypeOK, QueueOrder, NEW r \in Requests, NEW d, d = Discard(queue, r)
  PROVE  /\ d \in Seq(Requests \cup {Exit})
         /\ \A i \in 1 .. Len(d) : d[i] # r /\ \E k \in 1 .. Len(queue) : queue[k] = d[i]
         /\ \A i, j \in 1 .. Len(d) : i < j /\ d[i] # Exit /\ d[j] # Exit => number[d[i]] < number[d[j]]
         /\ \A k \in 1 .. Len(queue) : queue[k] # r => \E i \in 1 .. Len(d) : d[i] = queue[k]
  <1> USE SchedulerAssumption
  <1>0. queue \in Seq(Requests \cup {Exit}) /\ Len(queue) \in Nat /\ number \in [Requests -> Nat]
        /\ \A i \in 1 .. Len(queue) : queue[i] \in Requests \cup {Exit}
    BY DEF TypeOK
  <1>1. CASE ~\E i \in 1 .. Len(queue) : queue[i] = r
    <2>1. d = queue
      BY <1>1 DEF Discard
    <2> QED
      BY <1>0, <1>1, <2>1 DEF QueueOrder
  <1>2. CASE \E i \in 1 .. Len(queue) : queue[i] = r
    <2> DEFINE at == CHOOSE i \in 1 .. Len(queue) : queue[i] = r /\ \A j \in 1 .. (i - 1) : queue[j] # r
    <2>1. PICK k \in 1 .. Len(queue) : queue[k] = r
      BY <1>2
    <2>2. \A j \in 1 .. Len(queue) : queue[j] = r => j = k
      BY <1>0, <2>1 DEF QueueOrder
    <2>3. queue[k] = r /\ \A j \in 1 .. (k - 1) : queue[j] # r
      BY <1>0, <2>1, <2>2
    <2>4. at \in 1 .. Len(queue) /\ queue[at] = r
      BY <2>1, <2>3
    <2>5. at = k
      BY <2>2, <2>4
    <2> HIDE DEF at
    <2>6. d = [i \in 1 .. (Len(queue) - 1) |-> IF i < k THEN queue[i] ELSE queue[i + 1]]
      BY <1>2, <2>5 DEF Discard, at
    <2>7. d \in Seq(Requests \cup {Exit}) /\ Len(d) = Len(queue) - 1
      BY <1>0, <2>1, <2>6
    <2>8. \A i \in 1 .. Len(d) : d[i] = IF i < k THEN queue[i] ELSE queue[i + 1]
      BY <2>6, <2>7
    <2>9. \A i \in 1 .. Len(d) : d[i] # r /\ \E n \in 1 .. Len(queue) : queue[n] = d[i]
      <3> SUFFICES ASSUME NEW i \in 1 .. Len(d)
                   PROVE  d[i] # r /\ \E n \in 1 .. Len(queue) : queue[n] = d[i]
        OBVIOUS
      <3>1. CASE i < k
        <4>1. i \in 1 .. Len(queue) /\ i # k /\ d[i] = queue[i]
          BY <1>0, <2>1, <2>7, <2>8, <3>1
        <4> QED
          BY <4>1, <2>2
      <3>2. CASE ~(i < k)
        <4>1. i + 1 \in 1 .. Len(queue) /\ i + 1 # k /\ d[i] = queue[i + 1]
          BY <1>0, <2>1, <2>7, <2>8, <3>2
        <4> QED
          BY <4>1, <2>2
      <3> QED
        BY <3>1, <3>2
    <2>10. \A i, j \in 1 .. Len(d) : i < j /\ d[i] # Exit /\ d[j] # Exit => number[d[i]] < number[d[j]]
      <3> SUFFICES ASSUME NEW i \in 1 .. Len(d), NEW j \in 1 .. Len(d),
                          i < j, d[i] # Exit, d[j] # Exit
                   PROVE  number[d[i]] < number[d[j]]
        OBVIOUS
      <3> DEFINE old(n) == IF n < k THEN n ELSE n + 1
      <3>1. old(i) \in 1 .. Len(queue) /\ old(j) \in 1 .. Len(queue) /\ old(i) < old(j)
        BY <1>0, <2>1, <2>7
      <3>2. d[i] = queue[old(i)] /\ d[j] = queue[old(j)]
        BY <2>8
      <3> QED
        BY <3>1, <3>2 DEF QueueOrder
    <2>11. ASSUME NEW n \in 1 .. Len(queue), queue[n] # r PROVE \E i \in 1 .. Len(d) : d[i] = queue[n]
      <3>1. CASE n < k
        BY <1>0, <3>1, <2>1, <2>7, <2>8
      <3>2. CASE n > k
        <4>1. n - 1 \in 1 .. Len(d) /\ ~(n - 1 < k) /\ (n - 1) + 1 = n
          BY <1>0, <3>2, <2>1, <2>7
        <4> QED
          BY <4>1, <2>8
      <3> QED
        BY <1>0, <2>1, <2>11, <3>1, <3>2
    <2> QED
      BY <2>7, <2>9, <2>10, <2>11
  <1> QED
    BY <1>1, <1>2

(***************************************************************************)
(* What the larger steps do, as facts about the state after them.          *)
(***************************************************************************)
\* A batch is accepted: new requests, numbered on from the last.
Submitted(batch) ==
  /\ batch \in Seq(Requests) /\ Len(batch) \in 1 .. 2 /\ accepting
  /\ \A i, j \in 1 .. Len(batch) : batch[i] = batch[j] => i = j
  /\ \A i \in 1 .. Len(batch) :
       /\ number[batch[i]] = 0 /\ state[batch[i]] = "absent"
       /\ number'[batch[i]] = accepted + i /\ state'[batch[i]] = "queued"
       /\ cancel'[batch[i]] = FALSE
  /\ \A r \in Requests : (\A i \in 1 .. Len(batch) : batch[i] # r) =>
       number'[r] = number[r] /\ state'[r] = state[r] /\ cancel'[r] = cancel[r]
  /\ number' \in [Requests -> Nat] /\ state' \in [Requests -> States]
  /\ cancel' \in [Requests -> BOOLEAN]
  /\ execution' = execution /\ turn' = turn /\ result' = result
  /\ queue' = queue \o batch /\ accepted' = accepted + Len(batch)
  /\ UNCHANGED <<accepting, exiting, completed, finishing, active, intended, sequence, taskVars>>

\* What submit_batch does to the handles.
LEMMA SubmitEffect ==
  ASSUME TypeOK, HandleStates, NEW batch \in Batches, Submit(batch)
  PROVE  Submitted(batch)
  <1> USE SchedulerAssumption
  <1> DEFINE in(r) == \E i \in 1 .. Len(batch) : batch[i] = r
             at(r) == CHOOSE i \in 1 .. Len(batch) : batch[i] = r
  <1>1. /\ batch \in Seq(Requests) /\ Len(batch) \in 1 .. 2
        /\ \A i, j \in 1 .. Len(batch) : batch[i] = batch[j] => i = j
    <2>1. CASE \E r \in Requests : batch = <<r>>
      BY <2>1
    <2>2. CASE \E r, q \in Requests : r # q /\ batch = <<r, q>>
      BY <2>2
    <2> QED
      BY <2>1, <2>2 DEF Batches
  <1>2. \A r \in Requests : in(r) => at(r) \in 1 .. Len(batch) /\ batch[at(r)] = r
    OBVIOUS
  <1>3. \A i \in 1 .. Len(batch) : batch[i] \in Requests /\ in(batch[i]) /\ at(batch[i]) = i
    <2>1. \A i \in 1 .. Len(batch) : batch[i] \in Requests /\ in(batch[i])
      BY <1>1
    <2> QED
      BY <1>1, <1>2, <2>1
  <1>4. \A r \in Requests : in(r) =>
          number[r] = 0 /\ state[r] = "absent" /\ execution[r] = "none" /\ turn[r] = 0 /\ result[r] = "none"
    BY DEF Submit, Accepted, HandleStates, HandleOK
  <1>5. /\ state' = [r \in Requests |-> IF in(r) THEN "queued" ELSE state[r]]
        /\ cancel' = [r \in Requests |-> ~in(r) /\ cancel[r]]
        /\ execution' = [r \in Requests |-> IF in(r) THEN "none" ELSE execution[r]]
        /\ turn' = [r \in Requests |-> IF in(r) THEN 0 ELSE turn[r]]
        /\ result' = [r \in Requests |-> IF in(r) THEN "none" ELSE result[r]]
        /\ number' = [r \in Requests |-> IF in(r) THEN accepted + at(r) ELSE number[r]]
        /\ queue' = queue \o batch /\ accepted' = accepted + Len(batch) /\ accepting
        /\ UNCHANGED <<accepting, exiting, completed, finishing, active, intended, sequence, taskVars>>
    BY DEF Submit, Accepted
  <1> HIDE DEF in, at
  <1>6. execution' = execution /\ turn' = turn /\ result' = result
    BY <1>4, <1>5 DEF TypeOK
  <1>7. number' \in [Requests -> Nat] /\ state' \in [Requests -> States]
    BY <1>1, <1>2, <1>5 DEF TypeOK, States
  <1>8. cancel' \in [Requests -> BOOLEAN]
    BY <1>5, Zenon DEF TypeOK
  <1>9. \A i \in 1 .. Len(batch) :
          /\ number[batch[i]] = 0 /\ state[batch[i]] = "absent"
          /\ number'[batch[i]] = accepted + i /\ state'[batch[i]] = "queued"
          /\ cancel'[batch[i]] = FALSE
    BY <1>3, <1>4, <1>5
  <1>10. \A r \in Requests : (\A i \in 1 .. Len(batch) : batch[i] # r) =>
           number'[r] = number[r] /\ state'[r] = state[r] /\ cancel'[r] = cancel[r]
    <2>1. \A r \in Requests : (\A i \in 1 .. Len(batch) : batch[i] # r) => ~in(r)
      BY DEF in
    <2>2. \A r \in Requests : ~in(r) => cancel'[r] = cancel[r]
      BY <1>5 DEF TypeOK
    <2> QED
      BY <1>5, <2>1, <2>2
  <1> QED
    BY <1>1, <1>5, <1>6, <1>7, <1>8, <1>9, <1>10 DEF Submitted

\* A handle is settled: it enters the window, and what leaves it was finished.
Published(r) ==
  /\ state' \in [Requests -> States] /\ completed' \in Seq(Requests)
  /\ state[r] = "finalizing" /\ state'[r] = "finished"
  /\ \A q \in Requests : q # r =>
       state'[q] = state[q] \/ (state[q] = "finished" /\ state'[q] = "absent")
  /\ WindowHolds'
  /\ finishing[r] = "publishing" /\ finishing' = [finishing EXCEPT ![r] = "published"]
  /\ result[r] = "none" /\ result' = [result EXCEPT ![r] = intended[r]]
  /\ woken' = woken \cup {t \in Tasks : join[t] = r}
  /\ UNCHANGED <<accepting, exiting, queue, active, cancel, execution, turn, intended,
                 numberVars, worker, interrupt, join, todo>>

\* What the publish task does to the handles and the window.
LEMMA PublishEffect ==
  ASSUME TypeOK, HandleStates, WindowHolds, NEW r \in Requests, Publish(r)
  PROVE  Published(r)
  <1> USE SchedulerAssumption
  <1>0. /\ state \in [Requests -> States] /\ completed \in Seq(Requests) /\ Len(completed) \in Nat
        /\ state[r] = "finalizing"
        /\ \A i \in 1 .. Len(completed) : completed[i] \in Requests
    BY DEF TypeOK, HandleStates, HandleOK, Publish
  <1>1. CASE Len(completed) < Retained
    <2>1. completed' = Append(completed, r) /\ state' = [state EXCEPT ![r] = "finished"]
      BY <1>1 DEF Publish
    <2>2. /\ completed' \in Seq(Requests) /\ Len(completed') = Len(completed) + 1
          /\ completed'[Len(completed) + 1] = r
          /\ \A i \in 1 .. Len(completed) : completed'[i] = completed[i]
      BY <1>0, <2>1
    <2>3. WindowHolds'
      <3>1. Len(completed') <= Retained
        BY <1>0, <1>1, <2>2
      <3>2. \A i \in 1 .. Len(completed') : state'[completed'[i]] = "finished"
        BY <1>0, <2>1, <2>2 DEF WindowHolds
      <3>3. \A i \in 1 .. Len(completed) : completed[i] # r
        BY <1>0 DEF WindowHolds
      <3>4. \A i, j \in 1 .. Len(completed') : completed'[i] = completed'[j] => i = j
        BY <1>0, <2>2, <3>3 DEF WindowHolds
      <3>5. \A q \in Requests : state'[q] = "finished" => \E i \in 1 .. Len(completed') : completed'[i] = q
        BY <1>0, <2>1, <2>2 DEF WindowHolds
      <3> QED
        BY <3>1, <3>2, <3>4, <3>5 DEF WindowHolds
    <2> QED
      BY <1>0, <2>1, <2>2, <2>3 DEF States, Publish, Published
  <1>2. CASE ~(Len(completed) < Retained)
    <2> DEFINE n == Len(completed)
               h == Head(completed)
    <2>0. n = Retained /\ n \in Nat /\ n > 0 /\ completed # <<>>
      BY <1>0, <1>2 DEF WindowHolds
    <2>1. completed' = Append(Tail(completed), r)
          /\ state' = [state EXCEPT ![r] = "finished", ![h] = "absent"]
      BY <1>2 DEF Publish
    <2>2. /\ completed' \in Seq(Requests) /\ Len(completed') = n
          /\ completed'[n] = r
          /\ \A i \in 1 .. (n - 1) : completed'[i] = completed[i + 1]
      BY <1>0, <2>0, <2>1
    <2>3. h \in Requests /\ h = completed[1] /\ state[h] = "finished" /\ h # r
      BY <1>0, <2>0 DEF WindowHolds
    <2>4. WindowHolds'
      <3>1. Len(completed') <= Retained
        BY <2>0, <2>2
      <3>2. \A i \in 1 .. (n - 1) : completed'[i] # h /\ completed'[i] # r
                                    /\ completed'[i] \in Requests /\ state[completed'[i]] = "finished"
        <4> SUFFICES ASSUME NEW i \in 1 .. (n - 1)
                     PROVE  completed'[i] # h /\ completed'[i] # r
                            /\ completed'[i] \in Requests /\ state[completed'[i]] = "finished"
          OBVIOUS
        <4>1. i + 1 \in 1 .. n /\ i + 1 # 1 /\ 1 \in 1 .. n /\ completed'[i] = completed[i + 1]
          BY <2>0, <2>2
        <4> QED
          BY <1>0, <2>3, <4>1 DEF WindowHolds
      <3>3. \A i \in 1 .. Len(completed') : state'[completed'[i]] = "finished"
        <4>1. state'[r] = "finished"
          BY <1>0, <2>1, <2>3
        <4>2. \A i \in 1 .. (n - 1) : state'[completed'[i]] = "finished"
          BY <1>0, <2>1, <3>2
        <4> QED
          BY <2>0, <2>2, <4>1, <4>2
      <3>4. \A i, j \in 1 .. Len(completed') : completed'[i] = completed'[j] => i = j
        <4> SUFFICES ASSUME NEW i \in 1 .. n, NEW j \in 1 .. n, completed'[i] = completed'[j]
                     PROVE  i = j
          BY <2>2
        <4>1. CASE i = n \/ j = n
          BY <2>0, <2>2, <3>2, <4>1
        <4>2. CASE i # n /\ j # n
          <5>1. /\ i + 1 \in 1 .. n /\ j + 1 \in 1 .. n
                /\ completed'[i] = completed[i + 1] /\ completed'[j] = completed[j + 1]
            BY <2>0, <2>2, <4>2
          <5>2. i + 1 = j + 1
            BY <5>1 DEF WindowHolds
          <5> QED
            BY <5>2
        <4> QED
          BY <4>1, <4>2
      <3>5. \A q \in Requests : state'[q] = "finished" => \E i \in 1 .. Len(completed') : completed'[i] = q
        <4> SUFFICES ASSUME NEW q \in Requests, state'[q] = "finished", q # r
                     PROVE  \E i \in 1 .. n : completed'[i] = q
          BY <2>0, <2>2
        <4>1. q # h /\ state[q] = "finished"
          BY <1>0, <2>1, <2>3
        <4>2. PICK i \in 1 .. n : completed[i] = q
          BY <4>1 DEF WindowHolds
        <4>3. i - 1 \in 1 .. (n - 1) /\ (i - 1) + 1 = i
          BY <2>0, <2>3, <4>1, <4>2
        <4> QED
          BY <2>0, <2>2, <4>2, <4>3
      <3> QED
        BY <3>1, <3>3, <3>4, <3>5 DEF WindowHolds
    <2> QED
      BY <1>0, <2>1, <2>2, <2>3, <2>4 DEF States, Publish, Published
  <1> QED
    BY <1>1, <1>2

\* Settling a handle keeps the types of what it touches.
LEMMA FinishTypes ==
  ASSUME TypeOK, NEW t \in Tasks, NEW r \in Requests, NEW res \in Results, FinishHandle(t, r, res)
  PROVE  /\ state' \in [Requests -> States]
         /\ finishing' \in [Requests -> {"none", "publishing", "published"}]
         /\ intended' \in [Requests -> Results \cup {"none"}]
         /\ join' \in [Tasks -> Requests \cup {Nothing}]
  <1>1. state' \in [Requests -> States]
    BY DEF TypeOK, FinishHandle, States
  <1>2. finishing' \in [Requests -> {"none", "publishing", "published"}]
    BY DEF TypeOK, FinishHandle
  <1>3. intended' \in [Requests -> Results \cup {"none"}]
    BY DEF TypeOK, FinishHandle
  <1>4. join' \in [Tasks -> Requests \cup {Nothing}]
    BY DEF TypeOK, FinishHandle
  <1> QED
    BY <1>1, <1>2, <1>3, <1>4

\* Requests that were numbered before keep what they have.
LEMMA SubmitKeepsOthers ==
  ASSUME NEW batch, Submitted(batch)
  PROVE  \A r \in Requests : number[r] # 0 =>
           number'[r] = number[r] /\ state'[r] = state[r] /\ cancel'[r] = cancel[r]
  <1> SUFFICES ASSUME NEW r \in Requests, number[r] # 0
               PROVE  number'[r] = number[r] /\ state'[r] = state[r] /\ cancel'[r] = cancel[r]
    OBVIOUS
  <1>1. \A i \in 1 .. Len(batch) : number[batch[i]] = 0
    BY DEF Submitted
  <1>2. \A i \in 1 .. Len(batch) : batch[i] # r
    BY <1>1
  <1> QED
    BY <1>2 DEF Submitted

\* The elements of a concatenation.
LEMMA ConcatIs ==
  ASSUME NEW S, NEW s \in Seq(S), NEW t \in Seq(S)
  PROVE  /\ Len(s) \in Nat /\ Len(t) \in Nat /\ Len(s \o t) = Len(s) + Len(t)
         /\ \A i \in 1 .. Len(s) : i \in 1 .. Len(s \o t) /\ (s \o t)[i] = s[i] /\ s[i] \in S
         /\ \A i \in 1 .. Len(t) : /\ Len(s) + i \in 1 .. Len(s \o t) /\ i \in Nat
                                   /\ (s \o t)[Len(s) + i] = t[i]
  OBVIOUS

\* An open handle that close_requests finds without a publish task is queued.
LEMMA CloseFindsQueued ==
  ASSUME TypeOK, WorkerOwns, HandleStates, NEW r \in Requests, CloseNext(r),
         result[r] = "none", finishing[r] = "none"
  PROVE  state[r] = "queued" /\ execution[r] = "none" /\ turn[r] = 0
  <1>1. HandleOK(r) /\ state[r] \in States /\ r \in todo
    BY DEF TypeOK, HandleStates, CloseNext
  <1>2. r # active
    BY SchedulerAssumption DEF WorkerOwns, CloseNext, Closes
  <1> QED
    BY <1>1, <1>2 DEF HandleOK, States

\* It is cancelled too, unless the start failed.
LEMMA CloseCancels ==
  ASSUME TypeOK, NEW r \in Requests, CloseNext(r), Failure = "cancelled", Cancellable(r)
  PROVE  cancel'[r]
  <1>1. cancel' = [cancel EXCEPT ![r] = cancel[r] \/ (Failure = "cancelled" /\ Cancellable(r))]
    BY DEF CloseNext
  <1>2. cancel'[r] = (cancel[r] \/ (Failure = "cancelled" /\ Cancellable(r)))
    BY <1>1 DEF TypeOK
  <1> QED
    BY <1>2, Zenon

(***************************************************************************)
(* Steps keep the invariant: one lemma for each part of it, one case for   *)
(* each action.                                                            *)
(***************************************************************************)
\* Steps keep the types.
LEMMA SchedulerTypes ==
  ASSUME SchedulerInv, [Next]_vars
  PROVE  TypeOK'
  <1>0. TypeOK /\ WorkerOwns /\ Joins
    BY DEF SchedulerInv
  <1>s. \A batch \in Batches : Submit(batch) => Submitted(batch)
    BY SubmitEffect DEF SchedulerInv
  <1>p. \A r \in Requests : Publish(r) => Published(r)
    BY PublishEffect DEF SchedulerInv
  <1>d. \A r \in Requests : Discard(queue, r) \in Seq(Requests \cup {Exit})
    BY DiscardKeeps DEF SchedulerInv
  <1>f. \A t \in Tasks, r \in Requests, res \in Results : FinishHandle(t, r, res) =>
          /\ state' \in [Requests -> States] /\ join' \in [Tasks -> Requests \cup {Nothing}]
          /\ finishing' \in [Requests -> {"none", "publishing", "published"}]
          /\ intended' \in [Requests -> Results \cup {"none"}]
    BY FinishTypes DEF SchedulerInv
  <1> USE SchedulerAssumption DEF schedulerVars, handleVars, numberVars, taskVars, Tasks, Ended,
           Closes, States, Results, HandleOK, TypeOK, WorkerOwns, Joins
  <1>1. CASE UNCHANGED vars
    BY <1>0, <1>1 DEF vars
  <1>2. ASSUME NEW batch \in Batches, Submit(batch) PROVE TypeOK'
    <2>1. Submitted(batch)
      BY <1>s, <1>2
    <2>2. queue' \in Seq(Requests \cup {Exit})
      BY <1>0, <2>1 DEF Submitted
    <2> QED
      BY <1>0, <2>1, <2>2 DEF Submitted
  <1>3. CASE RequestExit
    <2>1. cancel' \in [Requests -> BOOLEAN]
      BY <1>0, <1>3, Zenon DEF RequestExit, Cancellable, Open
    <2>2. queue' \in Seq(Requests \cup {Exit})
      BY <1>0, <1>3 DEF RequestExit
    <2> QED
      BY <1>0, <1>3, <2>1, <2>2 DEF RequestExit
  <1>4. ASSUME NEW c \in Callers, CallerJoined(c) PROVE TypeOK'
    BY <1>0, <1>4 DEF CallerJoined, Joined
  <1>5. ASSUME NEW c \in Callers, NEW r \in Requests, CancelRequest(c, r) PROVE TypeOK'
    <2>1. cancel' \in [Requests -> BOOLEAN]
      BY <1>0, <1>5 DEF CancelRequest
    <2>2. queue' \in Seq(Requests \cup {Exit})
      BY <1>0, <1>d, <1>5 DEF CancelRequest
    <2>3. /\ state' \in [Requests -> States] /\ join' \in [Tasks -> Requests \cup {Nothing}]
          /\ finishing' \in [Requests -> {"none", "publishing", "published"}]
          /\ intended' \in [Requests -> Results \cup {"none"}]
      <3>1. CASE FinishHandle(c, r, "cancelled")
        BY <1>f, <3>1
      <3>2. CASE UNCHANGED <<queue, state, finishing, intended, join>>
        BY <1>0, <3>2
      <3> QED
        BY <1>5, <3>1, <3>2 DEF CancelRequest
    <2> QED
      BY <1>0, <1>5, <2>1, <2>2, <2>3 DEF CancelRequest
  <1>6. ASSUME NEW r \in Requests, Publish(r) PROVE TypeOK'
    <2>1. Published(r)
      BY <1>p, <1>6
    <2>2. /\ result' \in [Requests -> Results \cup {"none"}]
          /\ finishing' \in [Requests -> {"none", "publishing", "published"}]
          /\ woken' \subseteq Tasks
      BY <1>0, <2>1 DEF Published
    <2> QED
      BY <1>0, <2>1, <2>2 DEF Published
  <1>7. CASE AllocateTurn
    BY <1>0, <1>7 DEF AllocateTurn
  <1>8. CASE Finalizes
    BY <1>0, <1>8 DEF Finalizes
  <1>9. ASSUME NEW how \in Ended, ExecutionEnds(how) PROVE TypeOK'
    BY <1>0, <1>9 DEF ExecutionEnds, Signalled
  <1>10. CASE Start
    BY <1>0, <1>10 DEF Start
  <1>11. CASE Get
    <2>1. /\ Head(queue) \in Requests \cup {Exit} /\ queue' \in Seq(Requests \cup {Exit})
          /\ UNCHANGED <<exiting, completed, cancel, turn, result, numberVars, interrupt, woken>>
      BY <1>0, <1>11 DEF Get
    <2>2. CASE Head(queue) = Exit
      <3>1. /\ worker' = "serve_close" /\ accepting' = FALSE /\ todo' \subseteq Requests
            /\ UNCHANGED <<active, state, execution, intended, finishing, join>>
        BY <1>11, <2>2 DEF Get, EnterClose
      <3> QED
        BY <1>0, <2>1, <3>1
    <2>3. CASE Head(queue) # Exit /\ cancel[Head(queue)]
      <3>1. /\ FinishHandle(Worker, Head(queue), "cancelled") /\ worker' = "finish"
            /\ UNCHANGED <<accepting, todo, active, execution>>
        BY <1>11, <2>3 DEF Get
      <3>2. /\ state' \in [Requests -> States] /\ join' \in [Tasks -> Requests \cup {Nothing}]
            /\ finishing' \in [Requests -> {"none", "publishing", "published"}]
            /\ intended' \in [Requests -> Results \cup {"none"}]
        BY <1>f, <2>1, <2>3, <3>1
      <3> QED
        BY <1>0, <2>1, <3>1, <3>2
    <2>4. CASE Head(queue) # Exit /\ ~cancel[Head(queue)]
      <3>1. /\ active' = Head(queue) /\ worker' = "run"
            /\ state' = [state EXCEPT ![Head(queue)] = "preparing"]
            /\ execution' = [execution EXCEPT ![Head(queue)] = "running"]
            /\ UNCHANGED <<accepting, todo, intended, finishing, join>>
        BY <1>11, <2>4 DEF Get
      <3>2. state' \in [Requests -> States] /\ execution' \in [Requests -> Ended \cup {"none", "running"}]
        BY <1>0, <3>1
      <3> QED
        BY <1>0, <2>1, <2>4, <3>1, <3>2
    <2> QED
      BY <2>2, <2>3, <2>4
  <1>12. CASE Resumes
    <2>1. PICK v \in Verdict : FinishHandle(Worker, active, v[1]) /\ worker' = v[2]
      BY <1>12 DEF Resumes
    <2>2. v[1] \in Results /\ v[2] \in {"finish", "leave"}
      BY <2>1 DEF Verdict
    <2>3. active \in Requests
      BY <1>0, <1>12 DEF Resumes
    <2>4. /\ state' \in [Requests -> States] /\ join' \in [Tasks -> Requests \cup {Nothing}]
          /\ finishing' \in [Requests -> {"none", "publishing", "published"}]
          /\ intended' \in [Requests -> Results \cup {"none"}]
      BY <1>f, <2>1, <2>2, <2>3
    <2>5. /\ active' = Nothing /\ interrupt' \in {"no", "over"}
          /\ UNCHANGED <<accepting, exiting, queue, completed, cancel, execution, turn, result,
                         numberVars, woken, todo>>
      BY <1>12 DEF Resumes
    <2> QED
      BY <1>0, <2>1, <2>2, <2>4, <2>5
  <1>13. CASE FinishJoined
    <2>1. /\ finishing' \in [Requests -> {"none", "publishing", "published"}]
          /\ join' \in [Tasks -> Requests \cup {Nothing}] /\ woken' \subseteq Tasks
      BY <1>0, <1>13 DEF FinishJoined, Joined
    <2>2. worker' \in {"get", "serve_close"} /\ accepting' \in BOOLEAN /\ todo' \subseteq Requests
      <3>1. CASE worker = "leave" \/ interrupt = "pending"
        BY <1>13, <3>1 DEF FinishJoined, EnterClose
      <3>2. CASE ~(worker = "leave" \/ interrupt = "pending")
        BY <1>0, <1>13, <3>2 DEF FinishJoined
      <3> QED
        BY <3>1, <3>2
    <2>3. interrupt' \in {"no", "delivered", "pending", "over"}
      BY <1>0, <1>13 DEF FinishJoined
    <2>4. UNCHANGED <<exiting, queue, completed, active, handleVars, numberVars>>
      BY <1>13 DEF FinishJoined
    <2> QED
      BY <1>0, <2>1, <2>2, <2>3, <2>4
  <1>14. CASE StartFails
    BY <1>0, <1>14 DEF StartFails, EnterClose
  <1>15. ASSUME NEW r \in Requests, CloseNext(r) PROVE TypeOK'
    <2>1. cancel' \in [Requests -> BOOLEAN]
      BY <1>0, <1>15, Zenon DEF CloseNext
    <2>2. queue' \in Seq(Requests \cup {Exit})
      BY <1>0, <1>d, <1>15 DEF CloseNext
    <2>3. /\ state' \in [Requests -> States] /\ join' \in [Tasks -> Requests \cup {Nothing}]
          /\ finishing' \in [Requests -> {"none", "publishing", "published"}]
          /\ intended' \in [Requests -> Results \cup {"none"}]
      BY <1>0, <1>f, <1>15 DEF CloseNext, Failure
    <2> QED
      BY <1>0, <1>15, <2>1, <2>2, <2>3 DEF CloseNext
  <1>16. CASE CloseJoined
    BY <1>0, <1>16 DEF CloseJoined, Joined
  <1>17. CASE CloseDone
    BY <1>0, <1>17 DEF CloseDone
  <1>18. CASE StopAccepting
    BY <1>0, <1>18 DEF StopAccepting
  <1>19. CASE Interrupt
    BY <1>0, <1>19 DEF Interrupt, EnterClose
  <1>20. CASE ShutdownCloses
    BY <1>0, <1>20 DEF ShutdownCloses, EnterClose
  <1> QED
    BY <1>1, <1>2, <1>3, <1>4, <1>5, <1>6, <1>7, <1>8, <1>9, <1>10, <1>11, <1>12, <1>13, <1>14,
       <1>15, <1>16, <1>17, <1>18, <1>19, <1>20
       DEF Next, WorkerNext, ExecutionNext, CallerNext

\* Steps keep the active request with the worker: RootScheduler.run
\* executes one at a time.
LEMMA SchedulerWorker ==
  ASSUME SchedulerInv, [Next]_vars
  PROVE  WorkerOwns'
  <1>0. TypeOK /\ WorkerOwns /\ HandleStates /\ QueueOrder
    BY DEF SchedulerInv
  <1>s. \A batch \in Batches : Submit(batch) => Submitted(batch)
    BY SubmitEffect DEF SchedulerInv
  <1>p. \A r \in Requests : Publish(r) => Published(r)
    BY PublishEffect DEF SchedulerInv
  <1> USE SchedulerAssumption DEF schedulerVars, handleVars, numberVars, taskVars, Tasks, Ended,
           Closes, States, Results, HandleOK, TypeOK, WorkerOwns, HandleStates, QueueOrder
  <1>1. CASE UNCHANGED vars
    BY <1>0, <1>1 DEF vars
  <1>2. ASSUME NEW batch \in Batches, Submit(batch) PROVE WorkerOwns'
    <2>1. Submitted(batch)
      BY <1>s, <1>2
    <2>2. \A r \in Requests : state[r] # "absent" => state'[r] = state[r]
      BY <2>1 DEF Submitted
    <2>3. UNCHANGED <<worker, active, execution, finishing, turn>>
      BY <2>1 DEF Submitted
    <2> QED
      BY <1>0, <2>2, <2>3
  <1>3. CASE RequestExit
    BY <1>0, <1>3 DEF RequestExit, Cancellable, Open
  <1>4. ASSUME NEW c \in Callers, CallerJoined(c) PROVE WorkerOwns'
    BY <1>0, <1>4 DEF CallerJoined, Joined
  <1>5. ASSUME NEW c \in Callers, NEW r \in Requests, CancelRequest(c, r) PROVE WorkerOwns'
    BY <1>0, <1>5 DEF CancelRequest, Cancellable, Open, FinishHandle
  <1>6. ASSUME NEW r \in Requests, Publish(r) PROVE WorkerOwns'
    BY <1>0, <1>p, <1>6 DEF Published
  <1>7. CASE AllocateTurn
    BY <1>0, <1>7 DEF AllocateTurn
  <1>8. CASE Finalizes
    BY <1>0, <1>8 DEF Finalizes
  <1>9. ASSUME NEW how \in Ended, ExecutionEnds(how) PROVE WorkerOwns'
    BY <1>0, <1>9 DEF ExecutionEnds, Signalled
  <1>10. CASE Start
    BY <1>0, <1>10 DEF Start
  <1>11. CASE Get
    BY <1>0, <1>11 DEF Get, EnterClose, FinishHandle
  <1>12. CASE Resumes
    BY <1>0, <1>12 DEF Resumes, Verdict, FinishHandle
  <1>13. CASE FinishJoined
    BY <1>0, <1>13 DEF FinishJoined, Joined, EnterClose
  <1>14. CASE StartFails
    BY <1>0, <1>14 DEF StartFails, EnterClose
  <1>15. ASSUME NEW r \in Requests, CloseNext(r) PROVE WorkerOwns'
    BY <1>0, <1>15 DEF CloseNext, Failure, FinishHandle, Open, Cancellable
  <1>16. CASE CloseJoined
    BY <1>0, <1>16 DEF CloseJoined, Joined
  <1>17. CASE CloseDone
    BY <1>0, <1>17 DEF CloseDone
  <1>18. CASE StopAccepting
    BY <1>0, <1>18 DEF StopAccepting
  <1>19. CASE Interrupt
    BY <1>0, <1>19 DEF Interrupt, EnterClose
  <1>20. CASE ShutdownCloses
    BY <1>0, <1>20 DEF ShutdownCloses, EnterClose
  <1> QED
    BY <1>1, <1>2, <1>3, <1>4, <1>5, <1>6, <1>7, <1>8, <1>9, <1>10, <1>11, <1>12, <1>13, <1>14,
       <1>15, <1>16, <1>17, <1>18, <1>19, <1>20
       DEF Next, WorkerNext, ExecutionNext, CallerNext

\* Steps keep what TurnHandle.state says of a handle.
LEMMA SchedulerHandles ==
  ASSUME SchedulerInv, [Next]_vars
  PROVE  HandleStates'
  <1>0. TypeOK /\ WorkerOwns /\ HandleStates /\ QueueOrder /\ Joins
    BY DEF SchedulerInv
  <1>s. \A batch \in Batches : Submit(batch) => Submitted(batch)
    BY SubmitEffect DEF SchedulerInv
  <1>p. \A r \in Requests : Publish(r) => Published(r)
    BY PublishEffect DEF SchedulerInv
  <1> USE SchedulerAssumption DEF schedulerVars, handleVars, numberVars, taskVars, Tasks, Ended,
           Closes, States, Results, HandleOK, TypeOK, WorkerOwns, HandleStates, QueueOrder,
           Joins
  <1>1. CASE UNCHANGED vars
    BY <1>0, <1>1 DEF vars
  <1>2. ASSUME NEW batch \in Batches, Submit(batch) PROVE HandleStates'
    <2>1. Submitted(batch)
      BY <1>s, <1>2
    <2>2. UNCHANGED <<active, execution, finishing, turn, result, intended, todo>>
      BY <2>1 DEF Submitted
    <2>3. ASSUME NEW i \in 1 .. Len(batch) PROVE HandleOK(batch[i])'
      <3>0. i \in Nat \ {0} /\ batch[i] \in Requests
        BY <2>1 DEF Submitted
      <3>1. /\ number[batch[i]] = 0 /\ number'[batch[i]] = accepted + i
            /\ state'[batch[i]] = "queued"
        BY <2>1 DEF Submitted
      <3> QED
        BY <1>0, <2>2, <3>0, <3>1
    <2>4. ASSUME NEW r \in Requests, \A i \in 1 .. Len(batch) : batch[i] # r PROVE HandleOK(r)'
      BY <1>0, <2>1, <2>2, <2>4 DEF Submitted
    <2>5. \A r \in Requests : HandleOK(r)'
      <3> HIDE DEF HandleOK
      <3> QED
        BY <2>3, <2>4
    <2> QED
      BY <2>5
  <1>3. CASE RequestExit
    BY <1>0, <1>3 DEF RequestExit, Cancellable, Open
  <1>4. ASSUME NEW c \in Callers, CallerJoined(c) PROVE HandleStates'
    BY <1>0, <1>4 DEF CallerJoined, Joined
  <1>5. ASSUME NEW c \in Callers, NEW r \in Requests, CancelRequest(c, r) PROVE HandleStates'
    BY <1>0, <1>5 DEF CancelRequest, Cancellable, Open, FinishHandle
  <1>6. ASSUME NEW r \in Requests, Publish(r) PROVE HandleStates'
    <2>1. Published(r)
      BY <1>p, <1>6
    <2>2. UNCHANGED <<active, execution, turn, intended, todo, number>>
      BY <2>1 DEF Published
    <2>3. HandleOK(r)'
      <3>1. result'[r] = intended[r] /\ finishing'[r] = "published" /\ state'[r] = "finished"
        BY <1>0, <2>1 DEF Published
      <3> QED
        BY <1>0, <1>6, <2>1, <2>2, <3>1 DEF Published
    <2>4. ASSUME NEW q \in Requests, q # r PROVE HandleOK(q)'
      <3>1. /\ result'[q] = result[q] /\ finishing'[q] = finishing[q]
            /\ state'[q] = state[q] \/ (state[q] = "finished" /\ state'[q] = "absent")
        BY <1>0, <2>1, <2>4 DEF Published
      <3> QED
        BY <1>0, <2>2, <3>1
    <2>5. \A q \in Requests : HandleOK(q)'
      <3> HIDE DEF HandleOK
      <3> QED
        BY <2>3, <2>4
    <2> QED
      BY <2>5
  <1>7. CASE AllocateTurn
    BY <1>0, <1>7 DEF AllocateTurn
  <1>8. CASE Finalizes
    BY <1>0, <1>8 DEF Finalizes
  <1>9. ASSUME NEW how \in Ended, ExecutionEnds(how) PROVE HandleStates'
    BY <1>0, <1>9 DEF ExecutionEnds, Signalled
  <1>10. CASE Start
    BY <1>0, <1>10 DEF Start
  <1>11. CASE Get
    BY <1>0, <1>11 DEF Get, EnterClose, FinishHandle
  <1>12. CASE Resumes
    BY <1>0, <1>12 DEF Resumes, Verdict, FinishHandle
  <1>13. CASE FinishJoined
    BY <1>0, <1>13 DEF FinishJoined, Joined, EnterClose
  <1>14. CASE StartFails
    BY <1>0, <1>14 DEF StartFails, EnterClose
  <1>15. ASSUME NEW r \in Requests, CloseNext(r) PROVE HandleStates'
    BY <1>0, <1>15 DEF CloseNext, Failure, FinishHandle, Open, Cancellable
  <1>16. CASE CloseJoined
    BY <1>0, <1>16 DEF CloseJoined, Joined
  <1>17. CASE CloseDone
    BY <1>0, <1>17 DEF CloseDone
  <1>18. CASE StopAccepting
    BY <1>0, <1>18 DEF StopAccepting
  <1>19. CASE Interrupt
    BY <1>0, <1>19 DEF Interrupt, EnterClose
  <1>20. CASE ShutdownCloses
    BY <1>0, <1>20 DEF ShutdownCloses, EnterClose
  <1> QED
    BY <1>1, <1>2, <1>3, <1>4, <1>5, <1>6, <1>7, <1>8, <1>9, <1>10, <1>11, <1>12, <1>13, <1>14,
       <1>15, <1>16, <1>17, <1>18, <1>19, <1>20
       DEF Next, WorkerNext, ExecutionNext, CallerNext

\* Steps keep what the tasks in _finish_handle wait for.
LEMMA SchedulerJoins ==
  ASSUME SchedulerInv, [Next]_vars
  PROVE  Joins'
  <1>0. TypeOK /\ QueueOrder /\ WorkerOwns /\ HandleStates /\ Joins
    BY DEF SchedulerInv
  <1>i. Joins
    BY DEF SchedulerInv
  <1>s. \A batch \in Batches : Submit(batch) => Submitted(batch)
    BY SubmitEffect DEF SchedulerInv
  <1>p. \A r \in Requests : Publish(r) => Published(r)
    BY PublishEffect DEF SchedulerInv
  <1> USE SchedulerAssumption DEF schedulerVars, handleVars, numberVars, taskVars, Tasks, Ended,
           Closes, States, Results, HandleOK, TypeOK, QueueOrder, WorkerOwns, HandleStates,
           Joins
  <1>1. CASE UNCHANGED vars
    BY <1>0, <1>1 DEF vars
  <1>2. ASSUME NEW batch \in Batches, Submit(batch) PROVE Joins'
    BY <1>0, <1>s, <1>2 DEF Submitted
  <1>3. CASE RequestExit
    BY <1>0, <1>3 DEF RequestExit, Cancellable, Open
  <1>4. ASSUME NEW c \in Callers, CallerJoined(c) PROVE Joins'
    BY <1>0, <1>4 DEF CallerJoined, Joined
  <1>5. ASSUME NEW c \in Callers, NEW r \in Requests, CancelRequest(c, r) PROVE Joins'
    <2>1. UNCHANGED <<woken, worker, result, execution>> /\ join[c] = Nothing
      BY <1>5 DEF CancelRequest
    <2>2. CASE state[r] = "queued"
      <3>1. /\ finishing' = [finishing EXCEPT ![r] = "publishing"]
            /\ join' = [join EXCEPT ![c] = r]
        BY <1>0, <1>5, <2>2 DEF CancelRequest, FinishHandle
      <3>2. ASSUME NEW t \in Tasks, t # c PROVE join'[t] = join[t]
        BY <1>0, <3>1, <3>2
      <3>3. join'[c] = r /\ finishing'[r] = "publishing" /\ c \notin woken /\ c # Worker
        BY <1>0, <2>1, <3>1
      <3>4. \A q \in Requests : finishing[q] = "publishing" => finishing'[q] = "publishing"
        BY <1>0, <3>1
      <3>5. \A t \in Tasks : join[t] # Nothing => join[t] \in Requests
        BY <1>0
      <3>6. \A q \in Requests : execution'[q] # "none" /\ finishing'[q] = "publishing" =>
              execution[q] # "none" /\ finishing[q] = "publishing"
        BY <1>0, <2>1, <2>2, <3>1
      <3> QED
        BY <1>i, <2>1, <3>2, <3>3, <3>4, <3>5, <3>6
    <2>3. CASE state[r] # "queued"
      <3>1. UNCHANGED <<finishing, join>>
        BY <1>5, <2>3 DEF CancelRequest
      <3> QED
        BY <1>0, <2>1, <3>1
    <2> QED
      BY <2>2, <2>3
  <1>6. ASSUME NEW r \in Requests, Publish(r) PROVE Joins'
    BY <1>0, <1>p, <1>6 DEF Published
  <1>7. CASE AllocateTurn
    BY <1>0, <1>7 DEF AllocateTurn
  <1>8. CASE Finalizes
    BY <1>0, <1>8 DEF Finalizes
  <1>9. ASSUME NEW how \in Ended, ExecutionEnds(how) PROVE Joins'
    BY <1>0, <1>9 DEF ExecutionEnds, Signalled
  <1>10. CASE Start
    BY <1>0, <1>10 DEF Start
  <1>11. CASE Get
    <2> DEFINE h == Head(queue)
    <2>1. /\ h \in Requests \cup {Exit} /\ h = queue[1] /\ 1 \in 1 .. Len(queue)
          /\ UNCHANGED <<woken, result>> /\ join[Worker] = Nothing /\ Worker \notin woken
      BY <1>0, <1>11 DEF Get
    <2>2. CASE h = Exit
      <3>1. UNCHANGED <<execution, finishing, join>>
        BY <1>11, <2>2 DEF Get
      <3> QED
        BY <1>i, <2>1, <3>1
    <2>3. CASE h # Exit
      <3>1. h \in Requests /\ finishing[h] = "none" /\ execution[h] = "none" /\ result[h] = "none"
        BY <1>0, <2>1, <2>3
      <3> HIDE DEF h
      <3>2. CASE cancel[h]
        <4>1. /\ finishing' = [finishing EXCEPT ![h] = "publishing"]
              /\ join' = [join EXCEPT ![Worker] = h]
              /\ execution' = execution /\ worker' = "finish"
          BY <1>11, <2>3, <3>1, <3>2 DEF Get, FinishHandle, h
        <4>2. join'[Worker] = h /\ finishing'[h] = "publishing"
          BY <1>0, <3>1, <4>1
        <4>3. \A t \in Tasks : t # Worker => join'[t] = join[t]
          BY <1>0, <4>1
        <4>4. \A q \in Requests : q # h => finishing'[q] = finishing[q]
          BY <1>0, <4>1
        <4>5. \A t \in Tasks : join[t] # Nothing => join[t] \in Requests
          BY <1>0
        <4>6. \A t \in Tasks : t # Worker /\ join'[t] # Nothing =>
                IF t \in woken THEN result[join[t]] # "none" ELSE finishing'[join[t]] = "publishing"
          BY <1>i, <3>1, <4>3, <4>4, <4>5
        <4> QED
          BY <1>i, <2>1, <3>1, <4>1, <4>2, <4>3, <4>4, <4>6
      <3>3. CASE ~cancel[h]
        <4>1. /\ execution' = [execution EXCEPT ![h] = "running"]
              /\ UNCHANGED <<finishing, join>>
          BY <1>11, <2>3, <3>3 DEF Get, h
        <4>2. \A q \in Requests : q # h => execution'[q] = execution[q]
          BY <1>0, <4>1
        <4> QED
          BY <1>i, <2>1, <3>1, <4>1, <4>2
      <3> QED
        BY <3>2, <3>3
    <2> QED
      BY <2>2, <2>3
  <1>12. CASE Resumes
    BY <1>0, <1>12 DEF Resumes, Verdict, FinishHandle
  <1>13. CASE FinishJoined
    BY <1>0, <1>13 DEF FinishJoined, Joined, EnterClose
  <1>14. CASE StartFails
    BY <1>0, <1>14 DEF StartFails, EnterClose
  <1>15. ASSUME NEW r \in Requests, CloseNext(r) PROVE Joins'
    BY <1>0, <1>15 DEF CloseNext, Failure, FinishHandle, Open, Cancellable
  <1>16. CASE CloseJoined
    BY <1>0, <1>16 DEF CloseJoined, Joined
  <1>17. CASE CloseDone
    BY <1>0, <1>17 DEF CloseDone
  <1>18. CASE StopAccepting
    BY <1>0, <1>18 DEF StopAccepting
  <1>19. CASE Interrupt
    BY <1>0, <1>19 DEF Interrupt, EnterClose
  <1>20. CASE ShutdownCloses
    BY <1>0, <1>20 DEF ShutdownCloses, EnterClose
  <1> QED
    BY <1>1, <1>2, <1>3, <1>4, <1>5, <1>6, <1>7, <1>8, <1>9, <1>10, <1>11, <1>12, <1>13, <1>14,
       <1>15, <1>16, <1>17, <1>18, <1>19, <1>20
       DEF Next, WorkerNext, ExecutionNext, CallerNext

\* Steps keep what close_requests has left to visit.
LEMMA SchedulerClosing ==
  ASSUME SchedulerInv, [Next]_vars
  PROVE  Closing'
  <1>0. TypeOK /\ WorkerOwns /\ HandleStates /\ Joins /\ Closing
    BY DEF SchedulerInv
  <1>i. Closing
    BY DEF SchedulerInv
  <1>s. \A batch \in Batches : Submit(batch) => Submitted(batch)
    BY SubmitEffect DEF SchedulerInv
  <1>p. \A r \in Requests : Publish(r) => Published(r)
    BY PublishEffect DEF SchedulerInv
  <1> USE SchedulerAssumption DEF schedulerVars, handleVars, numberVars, taskVars, Tasks, Ended,
           Closes, States, Results, HandleOK, Open, TypeOK, WorkerOwns, HandleStates, Joins,
           Closing
  <1>1. CASE UNCHANGED vars
    BY <1>0, <1>1 DEF vars
  <1>2. ASSUME NEW batch \in Batches, Submit(batch) PROVE Closing'
    BY <1>0, <1>s, <1>2 DEF Submitted
  <1>3. CASE RequestExit
    BY <1>0, <1>3 DEF RequestExit, Cancellable, Open
  <1>4. ASSUME NEW c \in Callers, CallerJoined(c) PROVE Closing'
    BY <1>0, <1>4 DEF CallerJoined, Joined
  <1>5. ASSUME NEW c \in Callers, NEW r \in Requests, CancelRequest(c, r) PROVE Closing'
    <2>1. UNCHANGED <<worker, accepting, interrupt, todo, execution, result>>
      BY <1>5 DEF CancelRequest
    <2>2. /\ \A q \in Requests : state'[q] # "absent" => state[q] # "absent"
          /\ join'[Worker] = join[Worker]
      BY <1>0, <1>5 DEF CancelRequest, FinishHandle, Cancellable, Open
    <2> QED
      BY <1>i, <2>1, <2>2
  <1>6. ASSUME NEW r \in Requests, Publish(r) PROVE Closing'
    <2>1. Published(r)
      BY <1>p, <1>6
    <2>2. UNCHANGED <<worker, accepting, interrupt, todo, execution, join>>
      BY <2>1 DEF Published
    <2>3. \A q \in Requests : Open(q)' => Open(q)
      BY <1>0, <2>1 DEF Published
    <2> HIDE DEF Open
    <2> QED
      BY <1>i, <2>2, <2>3
  <1>7. CASE AllocateTurn
    BY <1>0, <1>7 DEF AllocateTurn
  <1>8. CASE Finalizes
    BY <1>0, <1>8 DEF Finalizes
  <1>9. ASSUME NEW how \in Ended, ExecutionEnds(how) PROVE Closing'
    BY <1>0, <1>9 DEF ExecutionEnds, Signalled
  <1>10. CASE Start
    BY <1>0, <1>10 DEF Start
  <1>11. CASE Get
    BY <1>0, <1>11 DEF Get, EnterClose, FinishHandle
  <1>12. CASE Resumes
    BY <1>0, <1>12 DEF Resumes, Verdict, FinishHandle
  <1>13. CASE FinishJoined
    BY <1>0, <1>13 DEF FinishJoined, Joined, EnterClose
  <1>14. CASE StartFails
    BY <1>0, <1>14 DEF StartFails, EnterClose
  <1>15. ASSUME NEW r \in Requests, CloseNext(r) PROVE Closing'
    BY <1>0, <1>15 DEF CloseNext, Failure, FinishHandle, Open, Cancellable
  <1>16. CASE CloseJoined
    BY <1>0, <1>16 DEF CloseJoined, Joined
  <1>17. CASE CloseDone
    BY <1>0, <1>17 DEF CloseDone
  <1>18. CASE StopAccepting
    BY <1>0, <1>18 DEF StopAccepting
  <1>19. CASE Interrupt
    BY <1>0, <1>19 DEF Interrupt, EnterClose
  <1>20. CASE ShutdownCloses
    BY <1>0, <1>20 DEF ShutdownCloses, EnterClose
  <1> QED
    BY <1>1, <1>2, <1>3, <1>4, <1>5, <1>6, <1>7, <1>8, <1>9, <1>10, <1>11, <1>12, <1>13, <1>14,
       <1>15, <1>16, <1>17, <1>18, <1>19, <1>20
       DEF Next, WorkerNext, ExecutionNext, CallerNext

\* Steps keep the numbering: the mailbox is first in, first out.
LEMMA SchedulerNumbers ==
  ASSUME SchedulerInv, [Next]_vars
  PROVE  Numbering'
  <1>0. TypeOK /\ WorkerOwns /\ HandleStates /\ QueueOrder /\ Numbering
    BY DEF SchedulerInv
  <1>i. Numbering
    BY DEF SchedulerInv
  <1>s. \A batch \in Batches : Submit(batch) => Submitted(batch)
    BY SubmitEffect DEF SchedulerInv
  <1>p. \A r \in Requests : Publish(r) => Published(r)
    BY PublishEffect DEF SchedulerInv
  <1> USE SchedulerAssumption DEF schedulerVars, handleVars, numberVars, taskVars, Tasks, Ended,
           Closes, States, Results, HandleOK, TypeOK, WorkerOwns, HandleStates, QueueOrder,
           Numbering
  <1>1. CASE UNCHANGED vars
    BY <1>0, <1>1 DEF vars
  <1>2. ASSUME NEW batch \in Batches, Submit(batch) PROVE Numbering'
    <2>1. Submitted(batch)
      BY <1>s, <1>2
    <2>2. /\ UNCHANGED <<active, execution, turn, sequence>>
          /\ accepted \in Nat /\ accepted' \in Nat /\ accepted <= accepted'
          /\ number \in [Requests -> Nat] /\ number' \in [Requests -> Nat]
      BY <1>0, <2>1 DEF Submitted
    <2>3. \A r \in Requests : number[r] # 0 => number'[r] = number[r] /\ state'[r] = state[r]
      BY <2>1, SubmitKeepsOthers
    <2>4. ASSUME NEW r \in Requests
          PROVE  \/ number'[r] = number[r] /\ state'[r] = state[r]
                 \/ \E i \in 1 .. Len(batch) : r = batch[i] /\ number[r] = 0 /\ number'[r] = accepted + i
      BY <2>1 DEF Submitted
    <2>5. \A i \in 1 .. Len(batch) : i \in Nat \ {0} /\ accepted + i <= accepted'
      BY <1>0, <2>1 DEF Submitted
    <2>6. \A r \in Requests : number'[r] # number[r] => number'[r] > accepted /\ number'[r] <= accepted'
      BY <2>2, <2>4, <2>5
    <2>7. \A r \in Requests : number'[r] <= accepted' /\ turn'[r] <= sequence'
      BY <1>0, <2>2, <2>6
    <2>8. ASSUME NEW r \in Requests, NEW q \in Requests, number'[r] = number'[q], number'[r] # 0
          PROVE  r = q
      <3>1. CASE number'[r] = number[r] /\ number'[q] = number[q]
        BY <1>i, <2>8, <3>1
      <3>2. CASE number'[r] # number[r] /\ number'[q] # number[q]
        <4>1. PICK i \in 1 .. Len(batch) : r = batch[i] /\ number'[r] = accepted + i
          BY <2>4, <3>2
        <4>2. PICK j \in 1 .. Len(batch) : q = batch[j] /\ number'[q] = accepted + j
          BY <2>4, <3>2
        <4>3. i = j
          BY <2>2, <2>5, <2>8, <4>1, <4>2
        <4> QED
          BY <4>1, <4>2, <4>3
      <3> QED
        BY <1>0, <2>2, <2>6, <2>8, <3>1, <3>2
    <2>9. ASSUME NEW r \in Requests, execution[r] # "none" PROVE number'[r] = number[r]
      BY <1>0, <2>3, <2>9
    <2>10. ASSUME NEW r \in Requests, NEW q \in Requests, execution'[r] # "none", state'[q] = "queued"
           PROVE  number'[r] < number'[q]
      <3>1. number'[r] = number[r] /\ number[r] <= accepted
        BY <1>0, <2>2, <2>9, <2>10
      <3>2. CASE number'[q] = number[q] /\ state'[q] = state[q]
        BY <1>0, <2>2, <2>10, <3>1, <3>2
      <3>3. CASE \E i \in 1 .. Len(batch) : q = batch[i] /\ number'[q] = accepted + i
        BY <2>2, <2>5, <3>1, <3>3
      <3> QED
        BY <2>4, <3>2, <3>3
    <2>11. ASSUME NEW r \in Requests, execution'[r] # "none", active' # Nothing
           PROVE  number'[r] <= number'[active']
      <3>1. active \in Requests /\ execution[active] # "none"
        BY <1>0, <2>2, <2>11
      <3> QED
        BY <1>0, <2>2, <2>9, <2>11, <3>1
    <2> QED
      BY <2>7, <2>8, <2>10, <2>11
  <1>3. CASE RequestExit
    BY <1>0, <1>3 DEF RequestExit, Cancellable, Open
  <1>4. ASSUME NEW c \in Callers, CallerJoined(c) PROVE Numbering'
    BY <1>0, <1>4 DEF CallerJoined, Joined
  <1>5. ASSUME NEW c \in Callers, NEW r \in Requests, CancelRequest(c, r) PROVE Numbering'
    BY <1>0, <1>5 DEF CancelRequest, Cancellable, Open, FinishHandle
  <1>6. ASSUME NEW r \in Requests, Publish(r) PROVE Numbering'
    <2>1. UNCHANGED <<active, execution, turn, sequence, number, accepted>>
      BY <1>p, <1>6 DEF Published
    <2>2. \A q \in Requests : state'[q] = "queued" => state[q] = "queued"
      BY <1>p, <1>6 DEF Published
    <2> QED
      BY <1>0, <2>1, <2>2
  <1>7. CASE AllocateTurn
    BY <1>0, <1>7 DEF AllocateTurn
  <1>8. CASE Finalizes
    BY <1>0, <1>8 DEF Finalizes
  <1>9. ASSUME NEW how \in Ended, ExecutionEnds(how) PROVE Numbering'
    BY <1>0, <1>9 DEF ExecutionEnds, Signalled
  <1>10. CASE Start
    BY <1>0, <1>10 DEF Start
  <1>11. CASE Get
    <2> DEFINE h == Head(queue)
    <2>1. /\ h \in Requests \cup {Exit} /\ h = queue[1] /\ 1 \in 1 .. Len(queue)
          /\ UNCHANGED <<turn, sequence, number, accepted>> /\ active = Nothing
      BY <1>0, <1>11 DEF Get
    <2>2. CASE h = Exit
      <3>1. UNCHANGED <<active, state, execution>>
        BY <1>11, <2>2 DEF Get
      <3> QED
        BY <1>0, <2>1, <3>1
    <2>3. CASE h # Exit /\ cancel[h]
      <3>1. FinishHandle(Worker, h, "cancelled") /\ UNCHANGED <<active, execution>>
        BY <1>11, <2>3 DEF Get
      <3>2. \A q \in Requests : state'[q] = "queued" => state[q] = "queued"
        BY <1>0, <2>1, <2>3, <3>1 DEF FinishHandle
      <3> QED
        BY <1>0, <2>1, <3>1, <3>2
    <2>4. CASE h # Exit /\ ~cancel[h]
      <3>1. /\ active' = h /\ state' = [state EXCEPT ![h] = "preparing"]
            /\ execution' = [execution EXCEPT ![h] = "running"]
        BY <1>11, <2>4 DEF Get
      <3>2. h \in Requests /\ state[h] = "queued"
        BY <1>0, <2>1, <2>4
      <3>3. ASSUME NEW q \in Requests, state[q] = "queued", q # h PROVE number[h] < number[q]
        <4>1. PICK j \in 1 .. Len(queue) : queue[j] = q
          BY <1>0, <3>3 DEF InQueue
        <4>2. 1 < j
          BY <2>1, <3>3, <4>1
        <4> QED
          BY <1>0, <2>1, <2>4, <4>1, <4>2
      <3>4. \A r \in Requests : execution[r] # "none" => number[r] < number[h]
        BY <1>0, <3>2
      <3>5. \A r \in Requests : execution'[r] # "none" => r = h \/ execution[r] # "none"
        BY <1>0, <3>1
      <3>6. \A q \in Requests : state'[q] = "queued" => q # h /\ state[q] = "queued"
        BY <1>0, <3>1, <3>2
      <3>7. \A r, q \in Requests : execution'[r] # "none" /\ state'[q] = "queued" => number[r] < number[q]
        BY <1>0, <3>3, <3>5, <3>6
      <3>8. \A r \in Requests : execution'[r] # "none" => number[r] <= number[h]
        <4>1. number \in [Requests -> Nat]
          BY <1>0
        <4> QED
          BY <3>2, <3>4, <3>5, <4>1
      <3> HIDE DEF h
      <3> QED
        BY <1>0, <2>1, <3>1, <3>7, <3>8
    <2> QED
      BY <2>2, <2>3, <2>4
  <1>12. CASE Resumes
    BY <1>0, <1>12 DEF Resumes, Verdict, FinishHandle
  <1>13. CASE FinishJoined
    BY <1>0, <1>13 DEF FinishJoined, Joined, EnterClose
  <1>14. CASE StartFails
    BY <1>0, <1>14 DEF StartFails, EnterClose
  <1>15. ASSUME NEW r \in Requests, CloseNext(r) PROVE Numbering'
    BY <1>0, <1>15 DEF CloseNext, Failure, FinishHandle, Open, Cancellable
  <1>16. CASE CloseJoined
    BY <1>0, <1>16 DEF CloseJoined, Joined
  <1>17. CASE CloseDone
    BY <1>0, <1>17 DEF CloseDone
  <1>18. CASE StopAccepting
    BY <1>0, <1>18 DEF StopAccepting
  <1>19. CASE Interrupt
    BY <1>0, <1>19 DEF Interrupt, EnterClose
  <1>20. CASE ShutdownCloses
    BY <1>0, <1>20 DEF ShutdownCloses, EnterClose
  <1> QED
    BY <1>1, <1>2, <1>3, <1>4, <1>5, <1>6, <1>7, <1>8, <1>9, <1>10, <1>11, <1>12, <1>13, <1>14,
       <1>15, <1>16, <1>17, <1>18, <1>19, <1>20
       DEF Next, WorkerNext, ExecutionNext, CallerNext

\* Steps keep the order of Turn identities: allocate_turn counts on.
LEMMA SchedulerTurns ==
  ASSUME SchedulerInv, [Next]_vars
  PROVE  TurnsInOrder'
  <1>0. TypeOK /\ WorkerOwns /\ HandleStates /\ Numbering /\ TurnsInOrder
    BY DEF SchedulerInv
  <1>s. \A batch \in Batches : Submit(batch) => Submitted(batch)
    BY SubmitEffect DEF SchedulerInv
  <1>p. \A r \in Requests : Publish(r) => Published(r)
    BY PublishEffect DEF SchedulerInv
  <1> USE SchedulerAssumption DEF schedulerVars, handleVars, numberVars, taskVars, Tasks, Ended,
           Closes, States, Results, HandleOK, TypeOK, WorkerOwns, HandleStates, Numbering,
           TurnsInOrder
  <1>1. CASE UNCHANGED vars
    BY <1>0, <1>1 DEF vars
  <1>2. ASSUME NEW batch \in Batches, Submit(batch) PROVE TurnsInOrder'
    <2>0. Submitted(batch)
      BY <1>s, <1>2
    <2>1. turn' = turn /\ \A r \in Requests : number[r] # 0 => number'[r] = number[r]
      BY <2>0 DEF Submitted
    <2>2. \A r \in Requests : turn[r] # 0 => number[r] # 0
      BY <1>0
    <2> QED
      BY <1>0, <2>1, <2>2
  <1>3. CASE RequestExit
    BY <1>0, <1>3 DEF RequestExit, Cancellable, Open
  <1>4. ASSUME NEW c \in Callers, CallerJoined(c) PROVE TurnsInOrder'
    BY <1>0, <1>4 DEF CallerJoined, Joined
  <1>5. ASSUME NEW c \in Callers, NEW r \in Requests, CancelRequest(c, r) PROVE TurnsInOrder'
    BY <1>0, <1>5 DEF CancelRequest, Cancellable, Open, FinishHandle
  <1>6. ASSUME NEW r \in Requests, Publish(r) PROVE TurnsInOrder'
    BY <1>0, <1>p, <1>6 DEF Published
  <1>7. CASE AllocateTurn
    BY <1>0, <1>7 DEF AllocateTurn
  <1>8. CASE Finalizes
    BY <1>0, <1>8 DEF Finalizes
  <1>9. ASSUME NEW how \in Ended, ExecutionEnds(how) PROVE TurnsInOrder'
    BY <1>0, <1>9 DEF ExecutionEnds, Signalled
  <1>10. CASE Start
    BY <1>0, <1>10 DEF Start
  <1>11. CASE Get
    BY <1>0, <1>11 DEF Get, EnterClose, FinishHandle
  <1>12. CASE Resumes
    BY <1>0, <1>12 DEF Resumes, Verdict, FinishHandle
  <1>13. CASE FinishJoined
    BY <1>0, <1>13 DEF FinishJoined, Joined, EnterClose
  <1>14. CASE StartFails
    BY <1>0, <1>14 DEF StartFails, EnterClose
  <1>15. ASSUME NEW r \in Requests, CloseNext(r) PROVE TurnsInOrder'
    BY <1>0, <1>15 DEF CloseNext, Failure, FinishHandle, Open, Cancellable
  <1>16. CASE CloseJoined
    BY <1>0, <1>16 DEF CloseJoined, Joined
  <1>17. CASE CloseDone
    BY <1>0, <1>17 DEF CloseDone
  <1>18. CASE StopAccepting
    BY <1>0, <1>18 DEF StopAccepting
  <1>19. CASE Interrupt
    BY <1>0, <1>19 DEF Interrupt, EnterClose
  <1>20. CASE ShutdownCloses
    BY <1>0, <1>20 DEF ShutdownCloses, EnterClose
  <1> QED
    BY <1>1, <1>2, <1>3, <1>4, <1>5, <1>6, <1>7, <1>8, <1>9, <1>10, <1>11, <1>12, <1>13, <1>14,
       <1>15, <1>16, <1>17, <1>18, <1>19, <1>20
       DEF Next, WorkerNext, ExecutionNext, CallerNext

\* Steps keep the causes of results.
LEMMA SchedulerCauses ==
  ASSUME SchedulerInv, [Next]_vars
  PROVE  Causes'
  <1>0. TypeOK /\ QueueOrder /\ WorkerOwns /\ HandleStates /\ Closing /\ Causes
    BY DEF SchedulerInv
  <1>s. \A batch \in Batches : Submit(batch) => Submitted(batch)
    BY SubmitEffect DEF SchedulerInv
  <1>p. \A r \in Requests : Publish(r) => Published(r)
    BY PublishEffect DEF SchedulerInv
  <1>c. ASSUME NEW r \in Requests, CloseNext(r), result[r] = "none", finishing[r] = "none"
        PROVE  state[r] = "queued" /\ execution[r] = "none" /\ turn[r] = 0
    BY <1>c, CloseFindsQueued DEF SchedulerInv
  <1>x. ASSUME NEW r \in Requests, CloseNext(r), Failure = "cancelled", Cancellable(r)
        PROVE  cancel'[r]
    BY <1>x, CloseCancels DEF SchedulerInv
  <1> USE SchedulerAssumption DEF schedulerVars, handleVars, numberVars, taskVars, Tasks, Ended,
           Closes, States, Results, HandleOK, Cause, TypeOK, QueueOrder, WorkerOwns,
           HandleStates, Closing, Causes
  <1>1. CASE UNCHANGED vars
    BY <1>0, <1>1 DEF vars
  <1>2. ASSUME NEW batch \in Batches, Submit(batch) PROVE Causes'
    <2>0. Submitted(batch)
      BY <1>s, <1>2
    <2>1. UNCHANGED <<execution, turn, result, intended, finishing, accepting>>
      BY <2>0 DEF Submitted
    <2>2. \A r \in Requests : number[r] # 0 => cancel'[r] = cancel[r]
      BY <2>0, SubmitKeepsOthers
    <2>3. \A r \in Requests : result[r] # "none" \/ finishing[r] = "publishing" => number[r] # 0
      BY <1>0
    <2> QED
      BY <1>0, <2>1, <2>2, <2>3
  <1>3. CASE RequestExit
    BY <1>0, <1>3 DEF RequestExit, Cancellable, Open
  <1>4. ASSUME NEW c \in Callers, CallerJoined(c) PROVE Causes'
    BY <1>0, <1>4 DEF CallerJoined, Joined
  <1>5. ASSUME NEW c \in Callers, NEW r \in Requests, CancelRequest(c, r) PROVE Causes'
    BY <1>0, <1>5 DEF CancelRequest, Cancellable, Open, FinishHandle
  <1>6. ASSUME NEW r \in Requests, Publish(r) PROVE Causes'
    BY <1>0, <1>p, <1>6 DEF Published
  <1>7. CASE AllocateTurn
    BY <1>0, <1>7 DEF AllocateTurn
  <1>8. CASE Finalizes
    BY <1>0, <1>8 DEF Finalizes
  <1>9. ASSUME NEW how \in Ended, ExecutionEnds(how) PROVE Causes'
    BY <1>0, <1>9 DEF ExecutionEnds, Signalled
  <1>10. CASE Start
    BY <1>0, <1>10 DEF Start
  <1>11. CASE Get
    <2> DEFINE h == Head(queue)
    <2>1. /\ h \in Requests \cup {Exit} /\ h = queue[1] /\ 1 \in 1 .. Len(queue)
          /\ UNCHANGED <<turn, result, cancel>>
      BY <1>0, <1>11 DEF Get
    <2>2. CASE h = Exit
      <3>1. UNCHANGED <<execution, finishing, intended>> /\ accepting' = FALSE
        BY <1>11, <2>2 DEF Get, EnterClose
      <3> QED
        BY <1>0, <2>1, <3>1
    <2>3. CASE h # Exit
      <3>1. h \in Requests /\ state[h] = "queued"
        BY <1>0, <2>1, <2>3
      <3> HIDE DEF h
      <3>2. execution[h] = "none" /\ turn[h] = 0 /\ finishing[h] = "none" /\ result[h] = "none"
        BY <1>0, <3>1
      <3>3. CASE cancel[h]
        <4>1. /\ finishing' = [finishing EXCEPT ![h] = "publishing"]
              /\ intended' = [intended EXCEPT ![h] = "cancelled"]
              /\ UNCHANGED <<execution, accepting>>
          BY <1>11, <2>3, <3>2, <3>3 DEF Get, FinishHandle, h
        <4> QED
          BY <1>0, <2>1, <3>1, <3>2, <3>3, <4>1
      <3>4. CASE ~cancel[h]
        <4>1. /\ execution' = [execution EXCEPT ![h] = "running"]
              /\ UNCHANGED <<finishing, intended, accepting>>
          BY <1>11, <2>3, <3>4 DEF Get, h
        <4> QED
          BY <1>0, <2>1, <3>1, <3>2, <4>1
      <3> QED
        BY <3>3, <3>4
    <2> QED
      BY <2>2, <2>3
  <1>12. CASE Resumes
    BY <1>0, <1>12 DEF Resumes, Verdict, FinishHandle
  <1>13. CASE FinishJoined
    BY <1>0, <1>13 DEF FinishJoined, Joined, EnterClose
  <1>14. CASE StartFails
    BY <1>0, <1>14 DEF StartFails, EnterClose
  <1>15. ASSUME NEW r \in Requests, CloseNext(r) PROVE Causes'
    <2>1. UNCHANGED <<execution, turn, result, accepting>> /\ ~accepting /\ active = Nothing
      BY <1>0, <1>15 DEF CloseNext
    <2>2. \A q \in Requests : cancel[q] => cancel'[q]
      BY <1>0, <1>15 DEF CloseNext
    <2>3. CASE result[r] = "none" /\ finishing[r] = "none"
      <3>1. state[r] = "queued" /\ execution[r] = "none" /\ turn[r] = 0
        BY <1>c, <1>15, <2>3
      <3>2. /\ finishing' = [finishing EXCEPT ![r] = "publishing"]
            /\ intended' = [intended EXCEPT ![r] = Failure]
        BY <1>15, <2>3 DEF CloseNext, FinishHandle
      <3>3. Failure = "cancelled" => cancel'[r]
        <4>1. Cancellable(r)
          BY <2>3, <3>1 DEF Cancellable, Open
        <4> QED
          BY <1>x, <1>15, <4>1
      <3>4. Failure \in {"failed", "cancelled"}
        BY DEF Failure
      <3> QED
        BY <1>0, <2>1, <2>2, <3>1, <3>2, <3>3, <3>4
    <2>4. CASE ~(result[r] = "none" /\ finishing[r] = "none")
      <3>1. intended' = intended /\ \A q \in Requests : finishing'[q] = "publishing" => finishing[q] = "publishing"
        BY <1>0, <1>15, <2>4 DEF CloseNext, FinishHandle
      <3> QED
        BY <1>0, <2>1, <2>2, <3>1
    <2> QED
      BY <2>3, <2>4
  <1>16. CASE CloseJoined
    BY <1>0, <1>16 DEF CloseJoined, Joined
  <1>17. CASE CloseDone
    BY <1>0, <1>17 DEF CloseDone
  <1>18. CASE StopAccepting
    BY <1>0, <1>18 DEF StopAccepting
  <1>19. CASE Interrupt
    BY <1>0, <1>19 DEF Interrupt, EnterClose
  <1>20. CASE ShutdownCloses
    BY <1>0, <1>20 DEF ShutdownCloses, EnterClose
  <1> QED
    BY <1>1, <1>2, <1>3, <1>4, <1>5, <1>6, <1>7, <1>8, <1>9, <1>10, <1>11, <1>12, <1>13, <1>14,
       <1>15, <1>16, <1>17, <1>18, <1>19, <1>20
       DEF Next, WorkerNext, ExecutionNext, CallerNext

\* Steps keep the retention window.
LEMMA SchedulerWindow ==
  ASSUME SchedulerInv, [Next]_vars
  PROVE  WindowHolds'
  <1>0. TypeOK /\ WorkerOwns /\ HandleStates /\ QueueOrder /\ WindowHolds
    BY DEF SchedulerInv
  <1>i. WindowHolds
    BY DEF SchedulerInv
  <1>s. \A batch \in Batches : Submit(batch) => Submitted(batch)
    BY SubmitEffect DEF SchedulerInv
  <1>p. \A r \in Requests : Publish(r) => Published(r)
    BY PublishEffect DEF SchedulerInv
  <1> USE SchedulerAssumption DEF schedulerVars, handleVars, numberVars, taskVars, Tasks, Ended,
           Closes, States, Results, HandleOK, TypeOK, WorkerOwns, HandleStates, QueueOrder,
           WindowHolds
  <1>1. CASE UNCHANGED vars
    <2>1. UNCHANGED <<completed, state>>
      BY <1>1 DEF vars
    <2> QED
      BY <1>i, <2>1
  <1>2. ASSUME NEW batch \in Batches, Submit(batch) PROVE WindowHolds'
    <2>1. completed' = completed
      BY <1>s, <1>2 DEF Submitted
    <2>2. \A r \in Requests : state[r] = "finished" => state'[r] = "finished"
      BY <1>s, <1>2 DEF Submitted
    <2>3. \A r \in Requests : state'[r] = "finished" => state[r] = "finished"
      BY <1>s, <1>2 DEF Submitted
    <2> QED
      BY <1>0, <2>1, <2>2, <2>3
  <1>3. CASE RequestExit
    <2>1. UNCHANGED <<completed, state>>
      BY <1>3 DEF RequestExit, Cancellable, Open
    <2> QED
      BY <1>i, <2>1
  <1>4. ASSUME NEW c \in Callers, CallerJoined(c) PROVE WindowHolds'
    <2>1. UNCHANGED <<completed, state>>
      BY <1>4 DEF CallerJoined, Joined
    <2> QED
      BY <1>i, <2>1
  <1>5. ASSUME NEW c \in Callers, NEW r \in Requests, CancelRequest(c, r) PROVE WindowHolds'
    BY <1>0, <1>5 DEF CancelRequest, Cancellable, Open, FinishHandle
  <1>6. ASSUME NEW r \in Requests, Publish(r) PROVE WindowHolds'
    <2>1. WindowHolds'
      BY <1>p, <1>6 DEF Published
    <2> QED
      BY <2>1
  <1>7. CASE AllocateTurn
    <2>1. UNCHANGED <<completed, state>>
      BY <1>7 DEF AllocateTurn
    <2> QED
      BY <1>i, <2>1
  <1>8. CASE Finalizes
    BY <1>0, <1>8 DEF Finalizes
  <1>9. ASSUME NEW how \in Ended, ExecutionEnds(how) PROVE WindowHolds'
    <2>1. UNCHANGED <<completed, state>>
      BY <1>9 DEF ExecutionEnds, Signalled
    <2> QED
      BY <1>i, <2>1
  <1>10. CASE Start
    <2>1. UNCHANGED <<completed, state>>
      BY <1>10 DEF Start
    <2> QED
      BY <1>i, <2>1
  <1>11. CASE Get
    <2>1. completed' = completed
      BY <1>11 DEF Get
    <2>2. \A q \in Requests : state'[q] = "finished" <=> state[q] = "finished"
      <3>1. Head(queue) # Exit => Head(queue) \in Requests /\ state[Head(queue)] = "queued"
        BY <1>0, <1>11 DEF Get
      <3> QED
        BY <1>0, <3>1, <1>11 DEF Get, FinishHandle
    <2> QED
      BY <1>0, <2>1, <2>2
  <1>12. CASE Resumes
    <2>1. completed' = completed
      BY <1>12 DEF Resumes
    <2>2. PICK v \in Verdict : FinishHandle(Worker, active, v[1])
      BY <1>12 DEF Resumes
    <2>3. active \in Requests /\ state[active] # "finished"
      BY <1>0, <1>12 DEF Resumes
    <2>4. \A q \in Requests : state'[q] = "finished" <=> state[q] = "finished"
      BY <1>0, <2>2, <2>3 DEF FinishHandle
    <2> QED
      BY <1>0, <2>1, <2>4
  <1>13. CASE FinishJoined
    <2>1. UNCHANGED <<completed, state>>
      BY <1>13 DEF FinishJoined, Joined, EnterClose
    <2> QED
      BY <1>i, <2>1
  <1>14. CASE StartFails
    <2>1. UNCHANGED <<completed, state>>
      BY <1>14 DEF StartFails, EnterClose
    <2> QED
      BY <1>i, <2>1
  <1>15. ASSUME NEW r \in Requests, CloseNext(r) PROVE WindowHolds'
    <2>1. completed' = completed
      BY <1>15 DEF CloseNext
    <2>2. \/ state' = state
          \/ state' = [state EXCEPT ![r] = "finalizing"] /\ result[r] = "none" /\ finishing[r] = "none"
      BY <1>15 DEF CloseNext, FinishHandle
    <2>3. state \in [Requests -> States] /\ (result[r] = "none" /\ finishing[r] = "none" => state[r] = "queued")
      BY <1>15, CloseFindsQueued DEF SchedulerInv, TypeOK
    <2>4. \A q \in Requests : state'[q] = "finished" <=> state[q] = "finished"
      BY <2>2, <2>3
    <2>5. \A i \in 1 .. Len(completed) : completed[i] \in Requests
      BY <1>0 DEF TypeOK
    <2> QED
      BY <1>i, <2>1, <2>4, <2>5
  <1>16. CASE CloseJoined
    <2>1. UNCHANGED <<completed, state>>
      BY <1>16 DEF CloseJoined, Joined
    <2> QED
      BY <1>i, <2>1
  <1>17. CASE CloseDone
    <2>1. UNCHANGED <<completed, state>>
      BY <1>17 DEF CloseDone
    <2> QED
      BY <1>i, <2>1
  <1>18. CASE StopAccepting
    <2>1. UNCHANGED <<completed, state>>
      BY <1>18 DEF StopAccepting
    <2> QED
      BY <1>i, <2>1
  <1>19. CASE Interrupt
    <2>1. UNCHANGED <<completed, state>>
      BY <1>19 DEF Interrupt, EnterClose
    <2> QED
      BY <1>i, <2>1
  <1>20. CASE ShutdownCloses
    <2>1. UNCHANGED <<completed, state>>
      BY <1>20 DEF ShutdownCloses, EnterClose
    <2> QED
      BY <1>i, <2>1
  <1> QED
    BY <1>1, <1>2, <1>3, <1>4, <1>5, <1>6, <1>7, <1>8, <1>9, <1>10, <1>11, <1>12, <1>13, <1>14,
       <1>15, <1>16, <1>17, <1>18, <1>19, <1>20
       DEF Next, WorkerNext, ExecutionNext, CallerNext

\* Steps keep the mailbox in the order of acceptance.
LEMMA SchedulerQueue ==
  ASSUME SchedulerInv, [Next]_vars
  PROVE  QueueOrder'
  <1>0. TypeOK /\ WorkerOwns /\ HandleStates /\ Numbering /\ QueueOrder
    BY DEF SchedulerInv
  <1>i. QueueOrder
    BY DEF SchedulerInv
  <1>s. \A batch \in Batches : Submit(batch) => Submitted(batch)
    BY SubmitEffect DEF SchedulerInv
  <1>p. \A r \in Requests : Publish(r) => Published(r)
    BY PublishEffect DEF SchedulerInv
  <1>d. ASSUME NEW r \in Requests, queue' = Discard(queue, r), number' = number,
               state' = [state EXCEPT ![r] = "finalizing"] \/ (state' = state /\ state[r] # "queued")
        PROVE  QueueOrder'
    <2>0. TypeOK /\ QueueOrder
      BY DEF SchedulerInv
    <2>1. \A q \in Requests : q # r => state'[q] = state[q]
      BY <1>d, <2>0 DEF TypeOK
    <2>2. state'[r] # "queued"
      BY <1>d, <2>0 DEF TypeOK
    <2>3. /\ queue' \in Seq(Requests \cup {Exit})
          /\ \A i \in 1 .. Len(queue') : queue'[i] # r /\ \E k \in 1 .. Len(queue) : queue[k] = queue'[i]
          /\ \A i, j \in 1 .. Len(queue') : i < j /\ queue'[i] # Exit /\ queue'[j] # Exit =>
               number[queue'[i]] < number[queue'[j]]
          /\ \A k \in 1 .. Len(queue) : queue[k] # r => \E i \in 1 .. Len(queue') : queue'[i] = queue[k]
      BY <1>d, <2>0, DiscardKeeps
    <2>4. \A i \in 1 .. Len(queue') : queue'[i] # Exit =>
            queue'[i] \in Requests /\ queue'[i] # r /\ state[queue'[i]] = "queued"
      BY <2>0, <2>3 DEF QueueOrder
    <2>5. \A q \in Requests : state'[q] = "queued" => \E i \in 1 .. Len(queue') : queue'[i] = q
      BY <2>0, <2>1, <2>2, <2>3 DEF QueueOrder, InQueue
    <2>6. number' = number
      BY <1>d
    <2>7. \A i \in 1 .. Len(queue') : queue'[i] # Exit => state'[queue'[i]] = "queued"
      BY <2>1, <2>4
    <2> QED
      BY <2>3, <2>5, <2>6, <2>7 DEF QueueOrder, InQueue
  <1>c. ASSUME NEW r \in Requests, CloseNext(r), result[r] = "none", finishing[r] = "none"
        PROVE  state[r] = "queued" /\ execution[r] = "none" /\ turn[r] = 0
    BY <1>c, CloseFindsQueued DEF SchedulerInv
  <1> USE SchedulerAssumption DEF schedulerVars, handleVars, numberVars, taskVars, Tasks, Ended,
           Closes, States, Results, HandleOK, InQueue, TypeOK, WorkerOwns, HandleStates,
           Numbering, QueueOrder
  <1>1. CASE UNCHANGED vars
    <2>1. UNCHANGED <<queue, state, number>>
      BY <1>1 DEF vars
    <2> QED
      BY <1>i, <2>1
  <1>2. ASSUME NEW batch \in Batches, Submit(batch) PROVE QueueOrder'
    <2>0. Submitted(batch)
      BY <1>s, <1>2
    <2> DEFINE n == Len(queue)
    <2>a. /\ queue \in Seq(Requests \cup {Exit}) /\ batch \in Seq(Requests \cup {Exit})
          /\ batch \in Seq(Requests) /\ queue' = queue \o batch
      BY <1>0, <2>0 DEF Submitted
    <2>b. accepted \in Nat /\ number \in [Requests -> Nat] /\ number' \in [Requests -> Nat]
      BY <1>0, <2>0 DEF Submitted
    <2>1. /\ n \in Nat /\ Len(batch) \in Nat /\ queue' = queue \o batch /\ Len(queue') = n + Len(batch)
          /\ \A i \in 1 .. Len(batch) : batch[i] \in Requests /\ i \in Nat
          /\ accepted \in Nat /\ number \in [Requests -> Nat] /\ number' \in [Requests -> Nat]
          /\ \A i \in 1 .. n : queue[i] \in Requests \cup {Exit}
      <3>1. \A i \in 1 .. Len(batch) : batch[i] \in Requests
        BY <2>a
      <3> QED
        BY <2>a, <2>b, <3>1, ConcatIs
    <2>2. \A i \in 1 .. n : i \in 1 .. Len(queue') /\ queue'[i] = queue[i]
      BY <2>a, ConcatIs
    <2>3. \A i \in 1 .. Len(batch) : n + i \in 1 .. Len(queue') /\ queue'[n + i] = batch[i]
      BY <2>a, ConcatIs
    <2>4. \A k \in 1 .. Len(queue') : k \in 1 .. n \/ \E i \in 1 .. Len(batch) : k = n + i
      <3> SUFFICES ASSUME NEW k \in 1 .. Len(queue'), ~(k \in 1 .. n)
                   PROVE  \E i \in 1 .. Len(batch) : k = n + i
        OBVIOUS
      <3>1. k - n \in 1 .. Len(batch) /\ k = n + (k - n)
        BY <2>1
      <3> QED
        BY <3>1
    <2>5. \A r \in Requests : state[r] = "queued" =>
            state'[r] = "queued" /\ number'[r] = number[r] /\ number[r] <= accepted
      <3>1. \A r \in Requests : state[r] # "absent" => state'[r] = state[r] /\ number'[r] = number[r]
        BY <2>0 DEF Submitted
      <3> QED
        BY <1>0, <3>1
    <2>6. \A i \in 1 .. Len(batch) : state'[batch[i]] = "queued" /\ number'[batch[i]] = accepted + i
      BY <2>0 DEF Submitted
    <2> HIDE DEF n
    <2>7. \A k \in 1 .. n : queue[k] # Exit =>
            /\ queue[k] \in Requests /\ state'[queue[k]] = "queued"
            /\ number'[queue[k]] = number[queue[k]] /\ number[queue[k]] <= accepted
      BY <1>i, <2>1, <2>5 DEF n
    <2>8. \A k \in 1 .. Len(queue') : queue'[k] # Exit => state'[queue'[k]] = "queued"
      BY <2>2, <2>3, <2>4, <2>6, <2>7
    <2>9. ASSUME NEW k \in 1 .. Len(queue'), NEW l \in 1 .. Len(queue'), k < l,
                 queue'[k] # Exit, queue'[l] # Exit
          PROVE  number'[queue'[k]] < number'[queue'[l]]
      <3>1. CASE k \in 1 .. n /\ l \in 1 .. n
        <4>1. queue[k] # Exit /\ queue[l] # Exit /\ k \in 1 .. Len(queue) /\ l \in 1 .. Len(queue)
          BY <2>2, <2>9, <3>1 DEF n
        <4>2. number[queue[k]] < number[queue[l]]
          BY <1>i, <2>9, <4>1
        <4>3. queue'[k] = queue[k] /\ queue'[l] = queue[l]
          BY <2>2, <3>1
        <4>4. number'[queue[k]] = number[queue[k]] /\ number'[queue[l]] = number[queue[l]]
          BY <2>7, <3>1, <4>1
        <4> QED
          BY <4>2, <4>3, <4>4
      <3>2. CASE k \in 1 .. n /\ \E i \in 1 .. Len(batch) : l = n + i
        <4>1. PICK i \in 1 .. Len(batch) : l = n + i
          BY <3>2
        <4>2. number'[queue'[l]] = accepted + i /\ i \in Nat \ {0}
          <5>1. queue'[l] = batch[i] /\ i \in Nat
            BY <2>1, <2>3, <4>1
          <5>2. number'[batch[i]] = accepted + i
            BY <2>6
          <5>3. i # 0
            BY <2>1
          <5> QED
            BY <5>1, <5>2, <5>3
        <4>3. number'[queue'[k]] <= accepted /\ number'[queue'[k]] \in Nat
          <5>1. k \in 1 .. n /\ queue'[k] = queue[k] /\ queue[k] # Exit
            BY <2>2, <2>9, <3>2
          <5>2. number'[queue[k]] = number[queue[k]] /\ number[queue[k]] <= accepted /\ queue[k] \in Requests
            BY <2>7, <5>1
          <5>3. number[queue[k]] \in Nat
            BY <2>1, <5>2
          <5> QED
            BY <5>1, <5>2, <5>3
        <4> QED
          BY <2>1, <4>2, <4>3
      <3>3. CASE \E i, j \in 1 .. Len(batch) : k = n + i /\ l = n + j
        <4>1. PICK i \in 1 .. Len(batch), j \in 1 .. Len(batch) : k = n + i /\ l = n + j
          BY <3>3
        <4>2. i < j /\ i \in Nat /\ j \in Nat
          BY <2>1, <2>9, <4>1
        <4>3. number'[queue'[k]] = accepted + i /\ number'[queue'[l]] = accepted + j
          BY <2>3, <2>6, <4>1
        <4> QED
          BY <2>1, <4>2, <4>3
      <3>4. CASE l \in 1 .. n /\ \E i \in 1 .. Len(batch) : k = n + i
        BY <2>1, <2>9, <3>4
      <3> QED
        BY <2>4, <3>1, <3>2, <3>3, <3>4
    <2>10. ASSUME NEW r \in Requests, state'[r] = "queued"
           PROVE  \E k \in 1 .. Len(queue') : queue'[k] = r
      <3>1. CASE state[r] = "queued"
        <4>1. PICK k \in 1 .. n : queue[k] = r
          BY <1>i, <3>1 DEF n
        <4> QED
          BY <2>2, <4>1
      <3>2. CASE \E i \in 1 .. Len(batch) : batch[i] = r
        BY <2>3, <3>2
      <3> QED
        BY <2>0, <2>10, <3>1, <3>2 DEF Submitted
    <2> QED
      BY <2>8, <2>9, <2>10
  <1>3. CASE RequestExit
    <2> DEFINE n == Len(queue)
    <2>1. /\ n \in Nat /\ Len(queue') = n + 1 /\ queue'[n + 1] = Exit
          /\ \A i \in 1 .. n : i \in 1 .. Len(queue') /\ queue'[i] = queue[i]
          /\ \A i \in 1 .. Len(queue') : i \in 1 .. n \/ i = n + 1
          /\ UNCHANGED <<state, number>>
      BY <1>0, <1>3 DEF RequestExit
    <2> QED
      BY <1>i, <2>1
  <1>4. ASSUME NEW c \in Callers, CallerJoined(c) PROVE QueueOrder'
    <2>1. UNCHANGED <<queue, state, number>>
      BY <1>4 DEF CallerJoined, Joined
    <2> QED
      BY <1>i, <2>1
  <1>5. ASSUME NEW c \in Callers, NEW r \in Requests, CancelRequest(c, r) PROVE QueueOrder'
    <2>1. CASE state[r] = "queued"
      <3>1. /\ queue' = Discard(queue, r) /\ number' = number
            /\ state' = [state EXCEPT ![r] = "finalizing"]
        BY <1>0, <1>5, <2>1 DEF CancelRequest, FinishHandle
      <3> QED
        BY <1>d, <3>1
    <2>2. CASE state[r] # "queued"
      <3>1. UNCHANGED <<queue, state, number>>
        BY <1>5, <2>2 DEF CancelRequest
      <3> QED
        BY <1>i, <3>1
    <2> QED
      BY <2>1, <2>2
  <1>6. ASSUME NEW r \in Requests, Publish(r) PROVE QueueOrder'
    <2>1. UNCHANGED <<queue, number>>
      BY <1>p, <1>6 DEF Published
    <2>2. \A q \in Requests : state'[q] = "queued" <=> state[q] = "queued"
      BY <1>p, <1>6 DEF Published
    <2>3. \A k \in 1 .. Len(queue) : queue[k] # Exit => queue[k] \in Requests
      BY <1>0
    <2> QED
      BY <1>i, <2>1, <2>2, <2>3
  <1>7. CASE AllocateTurn
    <2>1. UNCHANGED <<queue, state, number>>
      BY <1>7 DEF AllocateTurn
    <2> QED
      BY <1>i, <2>1
  <1>8. CASE Finalizes
    <2>1. UNCHANGED <<queue, number>>
      BY <1>8 DEF Finalizes
    <2>2. \A q \in Requests : state'[q] = "queued" <=> state[q] = "queued"
      BY <1>0, <1>8 DEF Finalizes
    <2>3. \A k \in 1 .. Len(queue) : queue[k] # Exit => queue[k] \in Requests
      BY <1>0
    <2> QED
      BY <1>i, <2>1, <2>2, <2>3
  <1>9. ASSUME NEW how \in Ended, ExecutionEnds(how) PROVE QueueOrder'
    <2>1. UNCHANGED <<queue, state, number>>
      BY <1>9 DEF ExecutionEnds, Signalled
    <2> QED
      BY <1>i, <2>1
  <1>10. CASE Start
    <2>1. UNCHANGED <<queue, state, number>>
      BY <1>10 DEF Start
    <2> QED
      BY <1>i, <2>1
  <1>11. CASE Get
    <2> DEFINE h == Head(queue)
               n == Len(queue)
    <2>1. /\ n \in Nat \ {0} /\ 1 \in 1 .. n /\ h = queue[1] /\ h \in Requests \cup {Exit}
          /\ queue' = Tail(queue) /\ Len(queue') = n - 1 /\ number' = number
          /\ number \in [Requests -> Nat] /\ state \in [Requests -> States]
          /\ \A k \in 1 .. n : queue[k] \in Requests \cup {Exit}
      BY <1>0, <1>11 DEF Get
    <2>2. \A k \in 1 .. Len(queue') : k + 1 \in 1 .. n /\ k + 1 > 1 /\ queue'[k] = queue[k + 1]
      BY <1>0, <2>1
    <2>3. \A k \in 1 .. n : k # 1 => k - 1 \in 1 .. Len(queue') /\ queue'[k - 1] = queue[k]
      BY <1>0, <2>1
    <2>4. /\ \A q \in Requests : q # h => state'[q] = state[q]
          /\ h # Exit => state'[h] # "queued"
      <3>1. h # Exit => h \in Requests /\ state[h] = "queued" /\ finishing[h] = "none" /\ result[h] = "none"
        BY <1>0, <2>1
      <3>2. CASE h = Exit
        BY <1>11, <3>2 DEF Get
      <3>3. CASE h # Exit /\ cancel[h]
        <4>1. FinishHandle(Worker, h, "cancelled")
          BY <1>11, <3>3 DEF Get
        <4>2. state' = [state EXCEPT ![h] = "finalizing"]
          BY <3>1, <3>3, <4>1 DEF FinishHandle
        <4> QED
          BY <2>1, <3>1, <3>3, <4>2
      <3>4. CASE h # Exit /\ ~cancel[h]
        <4>1. state' = [state EXCEPT ![h] = "preparing"]
          BY <1>11, <3>4 DEF Get
        <4> QED
          BY <2>1, <3>1, <3>4, <4>1
      <3> QED
        BY <3>2, <3>3, <3>4
    <2> HIDE DEF h
    <2>5. \A k \in 1 .. n : k # 1 /\ queue[k] # Exit => queue[k] # h
      <3> SUFFICES ASSUME NEW k \in 1 .. n, k # 1, queue[k] # Exit, queue[k] = h
                   PROVE  FALSE
        OBVIOUS
      <3>1. number[queue[1]] < number[queue[k]]
        BY <1>i, <2>1
      <3>2. number[h] \in Nat
        BY <2>1
      <3> QED
        BY <2>1, <3>1, <3>2
    <2>6. \A k \in 1 .. Len(queue') : queue'[k] # Exit => state'[queue'[k]] = "queued"
      <3> SUFFICES ASSUME NEW k \in 1 .. Len(queue'), queue'[k] # Exit
                   PROVE  state'[queue'[k]] = "queued"
        OBVIOUS
      <3>1. k + 1 \in 1 .. n /\ k + 1 # 1 /\ queue'[k] = queue[k + 1]
        BY <2>1, <2>2
      <3>2. queue[k + 1] # h /\ queue[k + 1] \in Requests /\ state[queue[k + 1]] = "queued"
        BY <1>i, <2>1, <2>5, <3>1
      <3> QED
        BY <2>4, <3>1, <3>2
    <2>7. ASSUME NEW k \in 1 .. Len(queue'), NEW l \in 1 .. Len(queue'), k < l,
                 queue'[k] # Exit, queue'[l] # Exit
          PROVE  number'[queue'[k]] < number'[queue'[l]]
      <3>1. k + 1 \in 1 .. n /\ l + 1 \in 1 .. n /\ k + 1 < l + 1
        BY <2>1, <2>2, <2>7
      <3> QED
        BY <1>i, <2>1, <2>2, <2>7, <3>1
    <2>8. ASSUME NEW q \in Requests, state'[q] = "queued"
          PROVE  \E k \in 1 .. Len(queue') : queue'[k] = q
      <3>1. q # h /\ state[q] = "queued"
        BY <2>1, <2>4, <2>8
      <3>2. PICK k \in 1 .. n : queue[k] = q
        BY <1>i, <3>1
      <3>3. k # 1
        BY <2>1, <3>1, <3>2
      <3> QED
        BY <2>3, <3>2, <3>3
    <2> QED
      BY <2>6, <2>7, <2>8
  <1>12. CASE Resumes
    <2>1. UNCHANGED <<queue, number>>
      BY <1>12 DEF Resumes
    <2>4. PICK v \in Verdict : FinishHandle(Worker, active, v[1])
      BY <1>12 DEF Resumes
    <2>5. active \in Requests /\ state[active] # "queued"
      BY <1>0, <1>12 DEF Resumes
    <2>2. \A q \in Requests : state'[q] = "queued" <=> state[q] = "queued"
      BY <1>0, <2>4, <2>5 DEF FinishHandle
    <2>3. \A k \in 1 .. Len(queue) : queue[k] # Exit => queue[k] \in Requests
      BY <1>0
    <2> QED
      BY <1>i, <2>1, <2>2, <2>3
  <1>13. CASE FinishJoined
    <2>1. UNCHANGED <<queue, state, number>>
      BY <1>13 DEF FinishJoined, Joined, EnterClose
    <2> QED
      BY <1>i, <2>1
  <1>14. CASE StartFails
    <2>1. UNCHANGED <<queue, state, number>>
      BY <1>14 DEF StartFails, EnterClose
    <2> QED
      BY <1>i, <2>1
  <1>15. ASSUME NEW r \in Requests, CloseNext(r) PROVE QueueOrder'
    <2>1. number' = number /\ active = Nothing
      BY <1>0, <1>15 DEF CloseNext
    <2>2. CASE result[r] = "none" /\ finishing[r] = "none"
      <3>1. state[r] = "queued"
        BY <1>c, <1>15, <2>2
      <3>2. queue' = Discard(queue, r) /\ state' = [state EXCEPT ![r] = "finalizing"]
        BY <1>15, <2>2, <3>1 DEF CloseNext, FinishHandle, Open
      <3> QED
        BY <1>d, <2>1, <3>2
    <2>3. CASE ~(result[r] = "none" /\ finishing[r] = "none")
      <3>1. state' = state /\ state[r] # "queued"
        BY <1>0, <1>15, <2>3 DEF CloseNext, FinishHandle
      <3>2. CASE ~Open(r)
        BY <1>i, <1>15, <2>1, <3>1, <3>2 DEF CloseNext
      <3>3. CASE Open(r)
        <4>1. queue' = Discard(queue, r)
          BY <1>15, <3>3 DEF CloseNext
        <4> QED
          BY <1>d, <2>1, <3>1, <4>1
      <3> QED
        BY <3>2, <3>3
    <2> QED
      BY <2>2, <2>3
  <1>16. CASE CloseJoined
    <2>1. UNCHANGED <<queue, state, number>>
      BY <1>16 DEF CloseJoined, Joined
    <2> QED
      BY <1>i, <2>1
  <1>17. CASE CloseDone
    <2>1. UNCHANGED <<queue, state, number>>
      BY <1>17 DEF CloseDone
    <2> QED
      BY <1>i, <2>1
  <1>18. CASE StopAccepting
    <2>1. UNCHANGED <<queue, state, number>>
      BY <1>18 DEF StopAccepting
    <2> QED
      BY <1>i, <2>1
  <1>19. CASE Interrupt
    <2>1. UNCHANGED <<queue, state, number>>
      BY <1>19 DEF Interrupt, EnterClose
    <2> QED
      BY <1>i, <2>1
  <1>20. CASE ShutdownCloses
    <2>1. UNCHANGED <<queue, state, number>>
      BY <1>20 DEF ShutdownCloses, EnterClose
    <2> QED
      BY <1>i, <2>1
  <1> QED
    BY <1>1, <1>2, <1>3, <1>4, <1>5, <1>6, <1>7, <1>8, <1>9, <1>10, <1>11, <1>12, <1>13, <1>14,
       <1>15, <1>16, <1>17, <1>18, <1>19, <1>20
       DEF Next, WorkerNext, ExecutionNext, CallerNext

(***************************************************************************)
(* The invariant, and the properties that follow from it.                  *)
(***************************************************************************)
\* The scheduler of a new Agent satisfies the invariant.
LEMMA SchedulerInit == Init => SchedulerInv
  <1> SUFFICES ASSUME Init PROVE SchedulerInv
    OBVIOUS
  <1> USE SchedulerAssumption DEF Init
  <1>1. TypeOK
    <2>1. queue \in Seq(Requests \cup {Exit}) /\ completed \in Seq(Requests)
      OBVIOUS
    <2>2. cancel \in [Requests -> BOOLEAN]
      OBVIOUS
    <2>3. /\ finishing \in [Requests -> {"none", "publishing", "published"}]
          /\ state \in [Requests -> States] /\ execution \in [Requests -> Ended \cup {"none", "running"}]
          /\ turn \in [Requests -> Nat] /\ number \in [Requests -> Nat]
          /\ intended \in [Requests -> Results \cup {"none"}]
          /\ result \in [Requests -> Results \cup {"none"}]
          /\ join \in [Tasks -> Requests \cup {Nothing}]
      BY DEF States
    <2> QED
      BY <2>1, <2>2, <2>3 DEF TypeOK
  <1>2. QueueOrder /\ WindowHolds
    BY DEF QueueOrder, WindowHolds
  <1>3. WorkerOwns /\ HandleStates /\ Joins /\ Numbering /\ TurnsInOrder
    BY DEF WorkerOwns, HandleStates, HandleOK, Joins, Numbering, TurnsInOrder, Tasks, Closes
  <1>4. Closing /\ Causes
    BY DEF Closing, Causes, Cause
  <1> QED
    BY <1>1, <1>2, <1>3, <1>4 DEF SchedulerInv

\* Every step keeps the invariant.
LEMMA SchedulerStep == SchedulerInv /\ [Next]_vars => SchedulerInv'
  BY SchedulerTypes, SchedulerWorker, SchedulerHandles, SchedulerJoins, SchedulerClosing,
     SchedulerNumbers, SchedulerTurns, SchedulerCauses, SchedulerWindow, SchedulerQueue
     DEF SchedulerInv

\* The inductive invariant holds for any number of requests and callers, any
\* capacity and any window.
THEOREM SchedulerInvariant == Spec => []SchedulerInv
  BY SchedulerInit, SchedulerStep, PTL DEF Spec

\* The type invariant.
THEOREM SchedulerTypeOK == Spec => []TypeOK
  <1>1. SchedulerInv => TypeOK
    BY DEF SchedulerInv
  <1> QED
    BY SchedulerInvariant, <1>1, PTL

\* An accepted request that is not settled is in exactly one place: mailbox,
\* worker or publish task, whoever cancels, exits or shuts down meanwhile.
THEOREM NoRequestIsLost == Spec => []NothingLost
  <1>1. SchedulerInv => NothingLost
    <2> SUFFICES ASSUME SchedulerInv, NEW r \in Requests, Open(r)
                 PROVE  /\ InQueue(r) \/ Running(r) \/ finishing[r] = "publishing"
                        /\ InQueue(r) => ~Running(r) /\ finishing[r] # "publishing"
                        /\ Running(r) => finishing[r] # "publishing"
                        /\ \A i, j \in 1 .. Len(queue) : queue[i] = r /\ queue[j] = r => i = j
      BY DEF NothingLost
    <2>0. TypeOK /\ QueueOrder /\ WorkerOwns /\ HandleOK(r) /\ r # Exit /\ r # Nothing
      BY SchedulerAssumption DEF SchedulerInv, HandleStates
    <2>1. state[r] \in {"queued", "preparing", "finalizing"} /\ result[r] = "none"
      BY <2>0 DEF Open, HandleOK, TypeOK, States
    <2>2. InQueue(r) \/ Running(r) \/ finishing[r] = "publishing"
      BY <2>0, <2>1 DEF QueueOrder, HandleOK, WorkerOwns, Running
    <2>3. InQueue(r) => state[r] = "queued"
      BY <2>0 DEF InQueue, QueueOrder
    <2>4. \A i, j \in 1 .. Len(queue) : queue[i] = r /\ queue[j] = r => i = j
      <3>1. number[r] \in Nat
        BY <2>0 DEF TypeOK
      <3>2. \A i, j \in 1 .. Len(queue) : i < j => ~(queue[i] = r /\ queue[j] = r)
        BY <2>0, <3>1 DEF QueueOrder
      <3>3. \A i, j \in 1 .. Len(queue) : i < j \/ j < i \/ i = j
        BY <2>0 DEF TypeOK
      <3> QED
        BY <3>2, <3>3
    <2> QED
      BY <2>0, <2>2, <2>3, <2>4 DEF HandleOK, WorkerOwns, Running
  <1> QED
    BY SchedulerInvariant, <1>1, PTL

\* The retention window of _finish_handle evicts settled requests only and
\* keeps to its limit.
THEOREM TheWindowIsSettled == Spec => []WindowIsSettled
  <1>1. SchedulerInv => WindowIsSettled
    <2> SUFFICES ASSUME SchedulerInv PROVE WindowIsSettled
      OBVIOUS
    <2>0. TypeOK /\ WindowHolds /\ HandleStates
      BY DEF SchedulerInv
    <2>1. \A r \in Requests : state[r] = "finished" <=> state[r] # "absent" /\ result[r] # "none"
      BY <2>0 DEF TypeOK, States, HandleStates, HandleOK
    <2> QED
      BY <2>0, <2>1 DEF WindowIsSettled, WindowHolds
  <1> QED
    BY SchedulerInvariant, <1>1, PTL

\* A result set by _finish_handle says how its request went.
THEOREM EveryResultHasACause == Spec => []ResultsHaveACause
  <1>1. SchedulerInv => ResultsHaveACause
    BY DEF SchedulerInv, Causes, Cause, ResultsHaveACause
  <1> QED
    BY SchedulerInvariant, <1>1, PTL

\* Turn identities follow the order in which submit_batch accepted.
THEOREM TurnsFollowAcceptance == Spec => []TurnsInOrder
  <1>1. SchedulerInv => TurnsInOrder
    BY DEF SchedulerInv
  <1> QED
    BY SchedulerInvariant, <1>1, PTL

\* After close_requests of the shutdown every accepted request is settled.
THEOREM ClosingSettlesAll == Spec => []ClosedIsSettled
  <1>1. SchedulerInv => ClosedIsSettled
    BY DEF SchedulerInv, Closing, HandleStates, HandleOK, Open, ClosedIsSettled
  <1> QED
    BY SchedulerInvariant, <1>1, PTL

(***************************************************************************)
(* The refinement.                                                         *)
(***************************************************************************)
\* The phases without the CASE.
PhaseOf(n, v, e, c, f) ==
  IF n = 0 THEN "new" ELSE
  IF v # "none" THEN "settled" ELSE
  IF e # "none" THEN "running" ELSE
  IF c \/ f # "none" THEN "withdrawn" ELSE "waiting"
phaseNow == [r \in Requests |-> PhaseOf(number[r], result[r], execution[r], cancel[r], finishing[r])]

\* The CASE of Phase is a chain of conditions.
LEMMA PhaseIsPhaseOf ==
  ASSUME NEW n, NEW v, NEW e, NEW c \in BOOLEAN, NEW f
  PROVE  (CASE n = 0 -> "new"
            [] n # 0 /\ v # "none" -> "settled"
            [] n # 0 /\ v = "none" /\ e # "none" -> "running"
            [] n # 0 /\ v = "none" /\ e = "none" /\ (c \/ f # "none") -> "withdrawn"
            [] OTHER -> "waiting") = PhaseOf(n, v, e, c, f)
  BY DEF PhaseOf

\* The refinement mapping, before and after a step.
LEMMA PhaseBarNow == SchedulerInv /\ SchedulerInv' => phaseBar = phaseNow /\ phaseBar' = phaseNow'
  <1> SUFFICES ASSUME SchedulerInv, SchedulerInv'
               PROVE  phaseBar = phaseNow /\ phaseBar' = phaseNow'
    OBVIOUS
  <1>1. \A r \in Requests : cancel[r] \in BOOLEAN /\ cancel'[r] \in BOOLEAN
    BY DEF SchedulerInv, TypeOK
  <1>2. \A r \in Requests : Phase(r) = PhaseOf(number[r], result[r], execution[r], cancel[r], finishing[r])
    BY <1>1, PhaseIsPhaseOf DEF Phase
  <1>3. \A r \in Requests :
          Phase(r)' = PhaseOf(number'[r], result'[r], execution'[r], cancel'[r], finishing'[r])
    BY <1>1, PhaseIsPhaseOf DEF Phase
  <1> QED
    BY <1>2, <1>3 DEF phaseBar, phaseNow

\* A step that starts and settles nothing: at most it withdraws requests.
OnlyWithdraws ==
  /\ UNCHANGED <<number, result>>
  /\ \A q \in Requests : number[q] # 0 /\ result[q] = "none" =>
       /\ execution'[q] = "none" <=> execution[q] = "none"
       /\ execution[q] = "none" /\ (cancel[q] \/ finishing[q] # "none") =>
            cancel'[q] \/ finishing'[q] # "none"

\* Such a step is a withdrawal of the abstract scheduler.
LEMMA WithdrawStep ==
  ASSUME SchedulerInv, SchedulerInv', OnlyWithdraws
  PROVE  Abs!Next
  <1> DEFINE gone == {q \in Requests : phaseNow'[q] # phaseNow[q]}
  <1>1. \A q \in Requests : phaseNow'[q] = phaseNow[q] \/ (phaseNow[q] = "waiting" /\ phaseNow'[q] = "withdrawn")
    BY DEF OnlyWithdraws, phaseNow, PhaseOf
  <1>2. phaseNow' = [q \in Requests |-> IF q \in gone THEN "withdrawn" ELSE phaseNow[q]]
    <2>1. phaseNow' = [q \in Requests |-> phaseNow'[q]]
      BY DEF phaseNow
    <2> HIDE DEF phaseNow
    <2> QED
      BY <1>1, <2>1
  <1>3. Abs!Withdraw(gone)
    BY <1>1, <1>2, PhaseBarNow DEF Abs!Withdraw, OnlyWithdraws
  <1> QED
    BY <1>3 DEF Abs!Next

\* submit_batch accepts.
LEMMA SubmitAccepts ==
  ASSUME SchedulerInv, SchedulerInv', NEW batch \in Batches, Submit(batch)
  PROVE  Abs!Next
  <1> DEFINE new == {r \in Requests : \E i \in 1 .. Len(batch) : batch[i] = r}
  <1>0. Submitted(batch) /\ HandleStates /\ Numbering /\ TypeOK
    BY SubmitEffect DEF SchedulerInv
  <1>1. UNCHANGED <<result, execution, finishing>> /\ accepted \in Nat
        /\ number' \in [Requests -> Nat] /\ number \in [Requests -> Nat]
    BY <1>0 DEF Submitted, TypeOK
  <1>2. ASSUME NEW r \in new
        PROVE  /\ phaseNow[r] = "new" /\ phaseNow'[r] = "waiting" /\ number'[r] > accepted
    <2>1. PICK i \in 1 .. Len(batch) : batch[i] = r
      OBVIOUS
    <2>2. i \in Nat \ {0} /\ number[r] = 0 /\ number'[r] = accepted + i /\ cancel'[r] = FALSE
      BY <1>0, <2>1 DEF Submitted
    <2>3. result[r] = "none" /\ execution[r] = "none" /\ finishing[r] = "none"
      BY <1>0, <2>2 DEF HandleStates, HandleOK
    <2>4. number'[r] # 0 /\ number'[r] > accepted
      BY <1>1, <2>2
    <2> QED
      BY <1>1, <2>2, <2>3, <2>4 DEF phaseNow, PhaseOf
  <1>3. ASSUME NEW r \in Requests \ new
        PROVE  phaseNow'[r] = phaseNow[r] /\ number'[r] = number[r] /\ number[r] <= accepted
    <2>1. number'[r] = number[r] /\ cancel'[r] = cancel[r]
      BY <1>0, <1>3 DEF Submitted
    <2> QED
      BY <1>0, <1>1, <2>1 DEF phaseNow, PhaseOf, Numbering
  <1>4. phaseNow' = [r \in Requests |-> IF r \in new THEN "waiting" ELSE phaseNow[r]]
    <2>1. phaseNow' = [r \in Requests |-> phaseNow'[r]]
      BY DEF phaseNow
    <2> HIDE DEF phaseNow
    <2> QED
      BY <1>2, <1>3, <2>1
  <1>5. \A r \in new, q \in Requests : q # r => number'[q] # number'[r] /\ (q \notin new => number'[q] < number'[r])
    <2>1. \A r, q \in Requests : number'[r] = number'[q] /\ number'[r] # 0 => r = q
      BY DEF SchedulerInv, Numbering
    <2>2. \A r \in new : number'[r] \in Nat /\ number'[r] # 0
      BY <1>1, <1>2
    <2>3. \A r \in new, q \in Requests : q \notin new => number'[q] < number'[r]
      BY <1>1, <1>2, <1>3
    <2> QED
      BY <2>1, <2>2, <2>3
  <1>6. Abs!Accept(new)
    <2> HIDE DEF new
    <2>1. new \subseteq Requests
      BY DEF new
    <2> QED
      BY <1>1, <1>2, <1>3, <1>4, <1>5, <2>1, PhaseBarNow DEF Abs!Accept
  <1> QED
    BY <1>6 DEF Abs!Next

\* The publish task settles.
LEMMA PublishSettles ==
  ASSUME SchedulerInv, SchedulerInv', NEW r \in Requests, Publish(r)
  PROVE  Abs!Next
  <1>0. TypeOK /\ HandleStates /\ Causes
    BY DEF SchedulerInv
  <1>1. /\ finishing[r] = "publishing" /\ result[r] = "none"
        /\ result' = [result EXCEPT ![r] = intended[r]]
        /\ finishing' = [finishing EXCEPT ![r] = "published"]
        /\ UNCHANGED <<number, execution, cancel>>
    BY DEF Publish, numberVars
  <1>2. number[r] # 0 /\ intended[r] \in {"outcome", "cancelled", "failed"}
    BY <1>0, <1>1 DEF HandleStates, HandleOK, TypeOK, Results
  <1>3. intended[r] = "outcome" => execution[r] # "none"
    BY <1>0, <1>1 DEF Causes, Cause
  <1>4. /\ phaseNow[r] \in {"withdrawn", "running"}
        /\ intended[r] = "outcome" => phaseNow[r] = "running"
    BY <1>1, <1>2, <1>3 DEF phaseNow, PhaseOf
  <1>5. phaseNow' = [phaseNow EXCEPT ![r] = "settled"]
    <2>1. result'[r] = intended[r] /\ \A q \in Requests : q # r => result'[q] = result[q] /\ finishing'[q] = finishing[q]
      BY <1>0, <1>1 DEF TypeOK
    <2>2. phaseNow'[r] = "settled" /\ \A q \in Requests : q # r => phaseNow'[q] = phaseNow[q]
      BY <1>1, <1>2, <2>1 DEF phaseNow, PhaseOf
    <2>3. phaseNow' = [q \in Requests |-> phaseNow'[q]] /\ phaseNow = [q \in Requests |-> phaseNow[q]]
      BY DEF phaseNow
    <2> HIDE DEF phaseNow
    <2> QED
      BY <2>2, <2>3
  <1>6. Abs!Settle(r, intended[r])
    BY <1>1, <1>4, <1>5, PhaseBarNow DEF Abs!Settle
  <1> QED
    BY <1>2, <1>6 DEF Abs!Next

\* The worker takes the request that waits longest, and no other one runs.
LEMMA GetRuns ==
  ASSUME SchedulerInv, SchedulerInv', Get, Head(queue) # Exit, ~cancel[Head(queue)]
  PROVE  Abs!Next
  <1> DEFINE h == Head(queue)
  <1>0. TypeOK /\ QueueOrder /\ WorkerOwns /\ HandleStates /\ Joins
    BY DEF SchedulerInv
  <1>1. h \in Requests /\ 1 \in 1 .. Len(queue) /\ h = queue[1] /\ state[h] = "queued"
        /\ number \in [Requests -> Nat]
    BY <1>0 DEF Get, TypeOK, QueueOrder
  <1>2. /\ execution' = [execution EXCEPT ![h] = "running"] /\ worker = "get"
        /\ UNCHANGED <<number, result, cancel, finishing>>
    BY DEF Get, numberVars
  <1>3. active = Nothing /\ join[Worker] = Nothing
    BY <1>0, <1>2 DEF WorkerOwns, Joins, Closes
  <1> HIDE DEF h
  <1>4. /\ number[h] # 0 /\ result[h] = "none" /\ execution[h] = "none" /\ finishing[h] = "none"
        /\ ~cancel[h]
    BY <1>0, <1>1 DEF HandleStates, HandleOK, h
  <1>5. phaseNow[h] = "waiting"
    BY <1>1, <1>4 DEF phaseNow, PhaseOf
  <1>6. ASSUME NEW q \in Requests PROVE phaseNow[q] # "running"
    <2> SUFFICES ASSUME number[q] # 0, result[q] = "none", execution[q] # "none"
                 PROVE  FALSE
      BY DEF phaseNow, PhaseOf
    <2>1. state[q] \in {"preparing", "finalizing"}
      BY <1>0 DEF TypeOK, States, HandleStates, HandleOK
    <2>2. finishing[q] = "publishing"
      BY <1>0, <1>3, <2>1, SchedulerAssumption DEF HandleStates, HandleOK
    <2> QED
      BY <1>0, <1>3, <2>2, SchedulerAssumption DEF Joins
  <1>7. ASSUME NEW q \in Requests, phaseNow[q] = "waiting" PROVE number[h] <= number[q]
    <2>1. number[q] # 0 /\ result[q] = "none" /\ execution[q] = "none" /\ finishing[q] = "none"
      BY <1>7 DEF phaseNow, PhaseOf
    <2>2. state[q] = "queued"
      <3>1. HandleOK(q) /\ state[q] \in States /\ q # active
        BY <1>0, <1>3, SchedulerAssumption DEF TypeOK, HandleStates
      <3> QED
        BY <2>1, <3>1 DEF States, HandleOK
    <2>3. PICK j \in 1 .. Len(queue) : queue[j] = q
      BY <1>0, <2>2 DEF QueueOrder, InQueue
    <2>4. CASE j = 1
      BY <1>1, <2>3, <2>4
    <2>5. CASE j # 1
      <3>1. 1 < j /\ q # Exit /\ h # Exit
        BY <1>1, <2>5, SchedulerAssumption
      <3>2. number[queue[1]] < number[queue[j]]
        BY <1>0, <1>1, <2>3, <3>1 DEF QueueOrder
      <3> QED
        BY <1>1, <2>3, <3>2
    <2> QED
      BY <2>4, <2>5
  <1>8. phaseNow' = [phaseNow EXCEPT ![h] = "running"]
    <2>1. execution'[h] = "running" /\ \A q \in Requests : q # h => execution'[q] = execution[q]
      BY <1>0, <1>1, <1>2 DEF TypeOK
    <2>2. phaseNow'[h] = "running" /\ \A q \in Requests : q # h => phaseNow'[q] = phaseNow[q]
      BY <1>1, <1>2, <1>4, <2>1 DEF phaseNow, PhaseOf
    <2>3. phaseNow' = [q \in Requests |-> phaseNow'[q]] /\ phaseNow = [q \in Requests |-> phaseNow[q]]
      BY DEF phaseNow
    <2> HIDE DEF phaseNow
    <2> QED
      BY <2>2, <2>3
  <1>9. Abs!Run(h)
    BY <1>2, <1>5, <1>6, <1>7, <1>8, PhaseBarNow DEF Abs!Run
  <1> QED
    BY <1>1, <1>9 DEF Abs!Next

\* Every other step starts and settles nothing.
LEMMA OtherSteps ==
  ASSUME SchedulerInv, [Next]_vars,
         \A batch \in Batches : ~Submit(batch), \A r \in Requests : ~Publish(r),
         ~(Get /\ Head(queue) # Exit /\ ~cancel[Head(queue)])
  PROVE  OnlyWithdraws
  <1>0. TypeOK /\ QueueOrder /\ WorkerOwns /\ HandleStates /\ Joins
    BY DEF SchedulerInv
  <1> USE SchedulerAssumption DEF schedulerVars, handleVars, numberVars, taskVars, Tasks, Ended,
           Closes, States, Results, HandleOK, TypeOK, WorkerOwns, HandleStates, Joins
  <1>1. CASE UNCHANGED vars
    BY <1>1 DEF vars, OnlyWithdraws
  <1>2. CASE RequestExit
    BY <1>0, <1>2 DEF RequestExit, OnlyWithdraws
  <1>3. ASSUME NEW c \in Callers, CallerJoined(c) PROVE OnlyWithdraws
    <2>1. UNCHANGED <<number, result, execution, cancel>> /\ finishing' = [finishing EXCEPT ![join[c]] = "none"]
      BY <1>3 DEF CallerJoined, Joined
    <2>2. join[c] \in Requests /\ result[join[c]] # "none"
      BY <1>0, <1>3 DEF CallerJoined, Joined
    <2>3. \A q \in Requests : result[q] = "none" => finishing'[q] = finishing[q]
      BY <1>0, <2>1, <2>2
    <2> QED
      BY <2>1, <2>3 DEF OnlyWithdraws
  <1>4. ASSUME NEW c \in Callers, NEW r \in Requests, CancelRequest(c, r) PROVE OnlyWithdraws
    <2>1. UNCHANGED <<number, result, execution>> /\ cancel' = [cancel EXCEPT ![r] = TRUE]
      BY <1>4 DEF CancelRequest
    <2>2. \A q \in Requests : cancel[q] => cancel'[q]
      BY <1>0, <2>1
    <2>3. \A q \in Requests : result[q] = "none" /\ finishing[q] # "none" => finishing'[q] # "none"
      BY <1>0, <1>4 DEF CancelRequest, FinishHandle
    <2> QED
      BY <2>1, <2>2, <2>3 DEF OnlyWithdraws
  <1>5. CASE AllocateTurn
    BY <1>5 DEF AllocateTurn, OnlyWithdraws
  <1>6. CASE Finalizes
    BY <1>6 DEF Finalizes, OnlyWithdraws
  <1>7. ASSUME NEW how \in Ended, ExecutionEnds(how) PROVE OnlyWithdraws
    <2>1. UNCHANGED <<number, result, cancel, finishing>> /\ execution' = [execution EXCEPT ![active] = how]
      BY <1>7 DEF ExecutionEnds
    <2>2. active \in Requests /\ execution[active] # "none" /\ how # "none"
      BY <1>0, <1>7 DEF ExecutionEnds
    <2>3. \A q \in Requests : execution'[q] = "none" <=> execution[q] = "none"
      BY <1>0, <2>1, <2>2
    <2> QED
      BY <2>1, <2>3 DEF OnlyWithdraws
  <1>8. CASE Start
    BY <1>8 DEF Start, OnlyWithdraws
  <1>9. CASE Get
    <2>1. UNCHANGED <<number, result, cancel, execution>>
      BY <1>0, <1>9 DEF Get
    <2>2. \A q \in Requests : result[q] = "none" /\ finishing[q] # "none" => finishing'[q] # "none"
      <3>1. CASE Head(queue) = Exit
        BY <1>9, <3>1 DEF Get
      <3>2. CASE FinishHandle(Worker, Head(queue), "cancelled")
        BY <1>0, <3>2 DEF FinishHandle
      <3> QED
        BY <1>9, <3>1, <3>2 DEF Get
    <2> QED
      BY <2>1, <2>2 DEF OnlyWithdraws
  <1>10. CASE Resumes
    <2>1. UNCHANGED <<number, result, execution, cancel>>
      BY <1>10 DEF Resumes
    <2>2. PICK v \in Verdict : FinishHandle(Worker, active, v[1])
      BY <1>10 DEF Resumes
    <2>3. \A q \in Requests : result[q] = "none" /\ finishing[q] # "none" => finishing'[q] # "none"
      BY <1>0, <2>2 DEF FinishHandle
    <2> QED
      BY <2>1, <2>3 DEF OnlyWithdraws
  <1>11. CASE FinishJoined
    <2>1. UNCHANGED <<number, result, execution, cancel>> /\ finishing' = [finishing EXCEPT ![join[Worker]] = "none"]
      BY <1>11 DEF FinishJoined, Joined
    <2>2. join[Worker] \in Requests /\ result[join[Worker]] # "none"
      BY <1>0, <1>11 DEF FinishJoined, Joined
    <2>3. \A q \in Requests : result[q] = "none" => finishing'[q] = finishing[q]
      BY <1>0, <2>1, <2>2
    <2> QED
      BY <2>1, <2>3 DEF OnlyWithdraws
  <1>12. CASE StartFails
    BY <1>12 DEF StartFails, EnterClose, OnlyWithdraws
  <1>13. ASSUME NEW r \in Requests, CloseNext(r) PROVE OnlyWithdraws
    <2>1. UNCHANGED <<number, result, execution>>
      BY <1>13 DEF CloseNext
    <2>2. \A q \in Requests : cancel[q] => cancel'[q]
      BY <1>0, <1>13 DEF CloseNext
    <2>3. \A q \in Requests : result[q] = "none" /\ finishing[q] # "none" => finishing'[q] # "none"
      BY <1>0, <1>13 DEF CloseNext, FinishHandle
    <2> QED
      BY <2>1, <2>2, <2>3 DEF OnlyWithdraws
  <1>14. CASE CloseJoined
    <2>1. UNCHANGED <<number, result, execution, cancel>> /\ finishing' = [finishing EXCEPT ![join[Worker]] = "none"]
      BY <1>14 DEF CloseJoined, Joined
    <2>2. join[Worker] \in Requests /\ result[join[Worker]] # "none"
      BY <1>0, <1>14 DEF CloseJoined, Joined
    <2>3. \A q \in Requests : result[q] = "none" => finishing'[q] = finishing[q]
      BY <1>0, <2>1, <2>2
    <2> QED
      BY <2>1, <2>3 DEF OnlyWithdraws
  <1>15. CASE CloseDone
    BY <1>15 DEF CloseDone, OnlyWithdraws
  <1>16. CASE StopAccepting
    BY <1>16 DEF StopAccepting, OnlyWithdraws
  <1>17. CASE Interrupt
    BY <1>17 DEF Interrupt, EnterClose, OnlyWithdraws
  <1>18. CASE ShutdownCloses
    BY <1>18 DEF ShutdownCloses, EnterClose, OnlyWithdraws
  <1> QED
    BY <1>1, <1>2, <1>3, <1>4, <1>5, <1>6, <1>7, <1>8, <1>9, <1>10, <1>11, <1>12, <1>13, <1>14,
       <1>15, <1>16, <1>17, <1>18
       DEF Next, WorkerNext, ExecutionNext, CallerNext

\* RootScheduler implements RootRequests: one at a time, in the order of
\* acceptance, settled once.
THEOREM SchedulerRefines == Spec => ServedInOrder
  <1>1. Init => Abs!Init
    BY DEF Init, Abs!Init, phaseBar, Phase
  <1>2. SchedulerInv /\ SchedulerInv' /\ [Next]_vars => [Abs!Next]_(Abs!vars)
    BY SubmitAccepts, PublishSettles, GetRuns, OtherSteps, WithdrawStep
  <1> QED
    BY <1>1, <1>2, SchedulerInvariant, PTL DEF Spec, ServedInOrder, Abs!Spec

\* Nothing but a submission queues a request.
LEMMA OnlySubmitQueues ==
  ASSUME SchedulerInv, [Next]_vars, \A batch \in Batches : ~Submit(batch)
  PROVE  Queued' \subseteq Queued
  <1> SUFFICES \A q \in Requests : state'[q] = "queued" => state[q] = "queued"
    BY DEF Queued
  <1>0. TypeOK /\ QueueOrder /\ WorkerOwns
    BY DEF SchedulerInv
  <1>p. \A r \in Requests : Publish(r) => Published(r)
    BY PublishEffect DEF SchedulerInv
  <1> USE SchedulerAssumption DEF schedulerVars, handleVars, numberVars, taskVars, Tasks, Ended,
           Closes, States, Results, TypeOK, WorkerOwns
  <1>1. CASE UNCHANGED vars
    BY <1>1 DEF vars
  <1>2. CASE RequestExit
    BY <1>2 DEF RequestExit, Cancellable, Open
  <1>3. ASSUME NEW c \in Callers, CallerJoined(c)
         PROVE \A q \in Requests : state'[q] = "queued" => state[q] = "queued"
    BY <1>3 DEF CallerJoined, Joined
  <1>4. ASSUME NEW c \in Callers, NEW r \in Requests, CancelRequest(c, r)
         PROVE \A q \in Requests : state'[q] = "queued" => state[q] = "queued"
    BY <1>0, <1>4 DEF CancelRequest, FinishHandle
  <1>5. ASSUME NEW r \in Requests, Publish(r)
         PROVE \A q \in Requests : state'[q] = "queued" => state[q] = "queued"
    BY <1>p, <1>5 DEF Published
  <1>6. CASE AllocateTurn
    BY <1>6 DEF AllocateTurn
  <1>7. CASE Finalizes
    BY <1>0, <1>7 DEF Finalizes
  <1>8. ASSUME NEW how \in Ended, ExecutionEnds(how)
         PROVE \A q \in Requests : state'[q] = "queued" => state[q] = "queued"
    BY <1>8 DEF ExecutionEnds, Signalled
  <1>9. CASE Start
    BY <1>9 DEF Start
  <1>10. CASE Get
    BY <1>0, <1>10 DEF Get, FinishHandle
  <1>11. CASE Resumes
    BY <1>0, <1>11 DEF Resumes, FinishHandle
  <1>12. CASE FinishJoined
    BY <1>12 DEF FinishJoined, Joined, EnterClose
  <1>13. CASE StartFails
    BY <1>13 DEF StartFails, EnterClose
  <1>14. ASSUME NEW r \in Requests, CloseNext(r)
         PROVE \A q \in Requests : state'[q] = "queued" => state[q] = "queued"
    BY <1>0, <1>14 DEF CloseNext, FinishHandle
  <1>15. CASE CloseJoined
    BY <1>15 DEF CloseJoined, Joined
  <1>16. CASE CloseDone
    BY <1>16 DEF CloseDone
  <1>17. CASE StopAccepting
    BY <1>17 DEF StopAccepting
  <1>18. CASE Interrupt
    BY <1>18 DEF Interrupt, EnterClose
  <1>19. CASE ShutdownCloses
    BY <1>19 DEF ShutdownCloses, EnterClose
  <1> QED
    BY <1>1, <1>2, <1>3, <1>4, <1>5, <1>6, <1>7, <1>8, <1>9, <1>10, <1>11, <1>12, <1>13, <1>14,
       <1>15, <1>16, <1>17, <1>18, <1>19
       DEF Next, WorkerNext, ExecutionNext, CallerNext

\* The queue is finite and within its capacity.
QueueFits == IsFiniteSet(Queued) /\ Cardinality(Queued) <= Capacity

\* One more element, at most one more in number.
LEMMA OneMore ==
  ASSUME NEW S, NEW x, IsFiniteSet(S)
  PROVE  /\ IsFiniteSet(S \cup {x}) /\ Cardinality(S \cup {x}) \in Nat
         /\ Cardinality(S \cup {x}) <= Cardinality(S) + 1
  <1>1. /\ IsFiniteSet(S \cup {x})
        /\ Cardinality(S \cup {x}) = IF x \in S THEN Cardinality(S) ELSE Cardinality(S) + 1
    BY FS_AddElement
  <1>2. Cardinality(S) \in Nat
    BY FS_CardinalityType
  <1> QED
    BY <1>1, <1>2

\* The capacity check of submit_batch makes room for the whole batch.
LEMMA SubmitFits ==
  ASSUME SchedulerInv, QueueFits, NEW batch \in Batches, Submit(batch)
  PROVE  QueueFits'
  <1>0. Submitted(batch) /\ Capacity \in Nat /\ Cardinality(Queued) + Len(batch) <= Capacity
    BY SubmitEffect, SchedulerAssumption DEF SchedulerInv, Submit, Accepted, Room
  <1>1. \A r \in Requests : state'[r] = "queued" =>
          state[r] = "queued" \/ \E i \in 1 .. Len(batch) : batch[i] = r
    BY <1>0 DEF Submitted
  <1>2. IsFiniteSet(Queued) /\ Cardinality(Queued) \in Nat
    BY FS_CardinalityType DEF QueueFits
  <1>3. CASE \E r \in Requests : batch = <<r>>
    <2>1. PICK r \in Requests : batch = <<r>>
      BY <1>3
    <2>2. Queued' \subseteq Queued \cup {r} /\ Len(batch) = 1
      BY <1>1, <2>1 DEF Queued
    <2>3. /\ IsFiniteSet(Queued \cup {r}) /\ Cardinality(Queued \cup {r}) \in Nat
          /\ Cardinality(Queued \cup {r}) <= Cardinality(Queued) + 1
      BY <1>2, OneMore
    <2>4. /\ IsFiniteSet(Queued') /\ Cardinality(Queued') \in Nat
          /\ Cardinality(Queued') <= Cardinality(Queued \cup {r})
      BY <2>2, <2>3, FS_Subset, FS_CardinalityType
    <2> QED
      BY <1>0, <1>2, <2>2, <2>3, <2>4 DEF QueueFits
  <1>4. CASE \E r, q \in Requests : batch = <<r, q>>
    <2>1. PICK r \in Requests, q \in Requests : batch = <<r, q>>
      BY <1>4
    <2> DEFINE one == Queued \cup {r}
    <2>2. Queued' \subseteq one \cup {q} /\ Len(batch) = 2
      BY <1>1, <2>1 DEF Queued
    <2>3. /\ IsFiniteSet(one) /\ Cardinality(one) \in Nat
          /\ Cardinality(one) <= Cardinality(Queued) + 1
      BY <1>2, OneMore
    <2> HIDE DEF one
    <2>4. /\ IsFiniteSet(one \cup {q}) /\ Cardinality(one \cup {q}) \in Nat
          /\ Cardinality(one \cup {q}) <= Cardinality(one) + 1
      BY <2>3, OneMore
    <2>5. /\ IsFiniteSet(Queued') /\ Cardinality(Queued') \in Nat
          /\ Cardinality(Queued') <= Cardinality(one \cup {q})
      BY <2>2, <2>4, FS_Subset, FS_CardinalityType
    <2> QED
      BY <1>0, <1>2, <2>2, <2>3, <2>4, <2>5 DEF QueueFits
  <1> QED
    BY <1>3, <1>4 DEF Batches

\* The mailbox holds open requests only, and no more than its capacity.
THEOREM TheQueueIsLive == Spec => []QueueIsLive
  <1>1. Init => QueueFits
    <2> SUFFICES ASSUME Init PROVE QueueFits
      OBVIOUS
    <2>1. Queued = {}
      BY DEF Init, Queued
    <2> QED
      BY <2>1, FS_EmptySet, SchedulerAssumption DEF QueueFits
  <1>2. SchedulerInv /\ QueueFits /\ [Next]_vars => QueueFits'
    <2> SUFFICES ASSUME SchedulerInv, QueueFits, [Next]_vars PROVE QueueFits'
      OBVIOUS
    <2>1. CASE \E batch \in Batches : Submit(batch)
      BY <2>1, SubmitFits
    <2>2. CASE \A batch \in Batches : ~Submit(batch)
      <3>1. Queued' \subseteq Queued
        BY <2>2, OnlySubmitQueues
      <3>2. /\ IsFiniteSet(Queued') /\ Cardinality(Queued') \in Nat /\ Cardinality(Queued) \in Nat
            /\ Cardinality(Queued') <= Cardinality(Queued)
        BY <3>1, FS_Subset, FS_CardinalityType DEF QueueFits
      <3> QED
        BY <3>2, SchedulerAssumption DEF QueueFits
    <2> QED
      BY <2>1, <2>2
  <1>3. SchedulerInv /\ QueueFits => QueueIsLive
    <2> SUFFICES ASSUME SchedulerInv, QueueFits PROVE QueueIsLive
      OBVIOUS
    <2>1. TypeOK /\ QueueOrder /\ HandleStates
      BY DEF SchedulerInv
    <2> QED
      BY <2>1 DEF TypeOK, QueueOrder, HandleStates, HandleOK, QueueFits, QueueIsLive
  <1> QED
    BY <1>1, <1>2, <1>3, SchedulerInvariant, PTL DEF Spec
=============================================================================
