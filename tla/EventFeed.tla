------------------------------- MODULE EventFeed -------------------------------
(***************************************************************************)
(* What the observation stream promises to a client that asks for page     *)
(* after page: a page comes with a gap, after which the client starts      *)
(* anew, or it continues the last one.  A page that continues is of events *)
(* that were all retained when the client asked, and leaves out only those *)
(* that were discarded before it had its answer.  EventStream implements   *)
(* it.                                                                     *)
(***************************************************************************)
EXTENDS Integers

CONSTANTS Clients, Events,
          Wanted            \* what the clients ask for

VARIABLES
  instance, \* the numbering
  log,      \* the events under it
  sequence, \* the last number
  retained, \* the numbers of those that can still be had
  cursor,   \* how far each client has come
  known,    \* the numbering its cursor belongs to, 0 before the first page
  got,      \* what it has since its last gap
  asked     \* what was retained when it asked, until it is answered

feed == <<instance, log, sequence>>
clients == <<cursor, known, got, asked>>
vars == <<feed, retained, clients>>

Init ==
  /\ instance = 1 /\ log = {} /\ sequence = 0 /\ retained = {}
  /\ cursor = [c \in Clients |-> 0] /\ known = [c \in Clients |-> 0]
  /\ got = [c \in Clients |-> {}] /\ asked = [c \in Clients |-> {}]

\* A new event can be had at once; older ones may have to go for it.
Publish(e) ==
  /\ e.seq = sequence + 1 /\ sequence' = e.seq /\ log' = log \cup {e}
  /\ retained' \subseteq retained \cup {e.seq} /\ e.seq \in retained'
  /\ UNCHANGED <<instance, clients>>

Discard ==
  /\ retained' \subseteq retained
  /\ UNCHANGED <<feed, clients>>

\* The process stops: nobody is answered.
Stop ==
  /\ retained' \subseteq retained
  /\ asked' = [c \in Clients |-> {}]
  /\ UNCHANGED <<feed, cursor, known, got>>

\* Another process has another numbering, and no event that is not in it.
Restart ==
  /\ asked = [c \in Clients |-> {}]
  /\ instance' = instance + 1
  /\ log' \subseteq Events /\ sequence' \in Nat
  /\ \A e \in log' : e.seq <= sequence'
  /\ \A d, e \in log' : d.seq = e.seq => d = e
  /\ retained' \subseteq {e.seq : e \in log'}
  /\ UNCHANGED clients

Ask(c) ==
  /\ asked[c] = {}
  /\ asked' = [asked EXCEPT ![c] = {retained}]
  /\ UNCHANGED <<feed, retained, cursor, known, got>>

\* The events of a page that goes on from the client's cursor to number n.
Between(c, n) == {e \in log : cursor[c] < e.seq /\ e.seq <= n}

Answer(c, n, new) ==
  /\ asked[c] # {} /\ n \in 0 .. sequence
  /\ asked' = [asked EXCEPT ![c] = {}]
  /\ cursor' = [cursor EXCEPT ![c] = n] /\ known' = [known EXCEPT ![c] = instance]
  /\ got' = [got EXCEPT ![c] = new]
  /\ UNCHANGED <<feed, retained>>

Gap(c, n) == Answer(c, n, {})

Page(c, n, new) ==
  /\ known[c] \in {0, instance} /\ cursor[c] <= n
  /\ \A kept \in asked[c], e \in Between(c, n) : e.seq \in kept
  /\ new \subseteq Between(c, n) \cap Wanted
  /\ \A e \in Between(c, n) \cap Wanted : e.seq \in retained => e \in new
  /\ Answer(c, n, got[c] \cup new)

Next ==
  \/ \E e \in Events : Publish(e)
  \/ Discard \/ Stop \/ Restart
  \/ \E c \in Clients :
       \/ Ask(c)
       \/ \E n \in 0 .. sequence :
            \/ Gap(c, n)
            \/ \E new \in SUBSET (Between(c, n) \cap Wanted) : Page(c, n, new)

Spec == Init /\ [][Next]_vars
===============================================================================
