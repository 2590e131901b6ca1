--------------------------- MODULE EventStreamProofs ---------------------------
(***************************************************************************)
(* Theorems of EventStream, for any number of clients, events, failures    *)
(* and restarts and any bounds of the memory, the journal and a page.      *)
(***************************************************************************)
EXTENDS EventStream, TLAPS, FiniteSetTheorems, WellFoundedInduction

(***************************************************************************)
(* The inductive invariant.                                                *)
(***************************************************************************)
\* Numbers are given once in a numbering, and not beyond the events written.
Numbering ==
  /\ instance = crashes + (IF up THEN 1 ELSE 0)
  /\ sequence <= written /\ \A e \in lines : e.seq <= written
  /\ \A e \in log : e.seq <= sequence
  /\ \A d, e \in log : d.seq = e.seq => d = e

\* The memory holds the newest events, also the one on its way to the journal.
Memory ==
  /\ ~up => memory = {} /\ pending = {}
  /\ memory \subseteq log /\ pending \subseteq memory
  /\ \A e \in pending : e.seq = sequence
  /\ \A d \in memory, e \in log : d.seq <= e.seq => e \in memory

\* The numbering has an event that no segment of the journal can hold.
Oversized == \E e \in log : ~(Size[e.kind] <= SegmentBytes)

\* What the disk holds at any moment can be opened again, unless it failed.
Disk ==
  /\ \A d, e \in lines : d.seq = e.seq => d = e
  /\ \A d, e \in lines : d.seq .. e.seq \subseteq Numbers(lines)
  /\ \A e \in lines : \E f \in names : f <= e.seq
  /\ torn # 0 => \A f \in names : f <= torn
  /\ faults = 0 => bad = {} /\ (degraded => Oversized)

\* A journal that works goes on where it stands.
Journal ==
  up /\ ~degraded =>
    /\ torn = 0 /\ latest = Handed /\ lines \subseteq log
    /\ latest > 0 => latest \in Numbers(lines)
    /\ \A e \in lines : e.seq <= latest
    /\ \A f \in names : /\ f <= latest
                        /\ \A e \in log : f <= e.seq /\ e.seq <= latest => e \in lines

\* Event e was there when the page of client c began, and is discarded.
Gone(c, e) ==
  /\ e.seq \in page[c].kept /\ e.seq < Oldest(page[c])
  /\ degraded \/ e.seq \notin Numbers(lines)

\* The page has what it shows of the events up to n, but those that are gone.
Covers(c, n) ==
  \A e \in log : Visible(e) /\ page[c].after < e.seq /\ e.seq <= n
                   => e \in page[c].events \/ Gone(c, e)

\* A page that is under way: its copy of the memory, what was retained when it
\* began, and that it goes on from the client's cursor.
Copy(c) ==
  LET p == page[c] IN
    /\ p.upper <= sequence /\ p.after <= p.upper /\ p.memory \subseteq log
    /\ \A e \in p.memory : e.seq <= p.upper /\ e.seq \in p.kept
    /\ \A e \in log : e.seq <= p.upper /\ Oldest(p) <= e.seq => e \in p.memory
    /\ \A e \in memory \cup pending : Oldest(p) <= e.seq
    /\ ~degraded => \A e \in lines : e.seq <= p.upper => e.seq \in p.kept
    /\ ~p.gap => known[c] \in {0, instance} /\ p.after = cursor[c]

\* Without a gap, everything the client asks for was retained.
Reaches(c) ==
  LET p == page[c] IN
    ~p.gap => \A e \in log : p.after < e.seq /\ e.seq <= p.upper => e.seq \in p.kept

\* How far a page that is under way has come.
Progress(c) ==
  LET p == page[c] IN
    /\ pc[c] # "finish" => p.events = {} /\ ~p.stopped /\ p.complete
    /\ pc[c] = "read" => p.reading /\ p.scanned = p.after /\ p.after < Oldest(p) - 1
    /\ pc[c] = "finish" => p.after <= p.scanned /\ p.scanned <= p.upper
    /\ pc[c] = "finish" /\ ~p.gap =>
         /\ \A e \in p.events : /\ e \in log /\ Visible(e)
                                /\ p.after < e.seq /\ e.seq <= p.scanned
         /\ Covers(c, p.scanned)
         /\ p.complete \/ p.reading
         /\ ~p.stopped /\ p.complete /\ ~(p.reading /\ degraded)
              => Covers(c, Oldest(p) - 1)

PageInv(c) ==
  pc[c] # "idle" =>
    /\ up /\ Copy(c) /\ Progress(c)
    /\ pc[c] # "look" => Reaches(c)

\* What the pages of this numbering have given the client.
Gave(c) ==
  /\ known[c] <= instance
  /\ known[c] = 0 => cursor[c] = 0 /\ delivered[c] = <<>>
  /\ known[c] = instance => cursor[c] <= sequence
  /\ known[c] \in {0, instance} =>
       /\ \A i \in DOMAIN delivered[c] : \A e \in delivered[c][i] :
            e \in log /\ e.seq <= cursor[c]
       /\ \A i, j \in DOMAIN delivered[c] : i < j =>
            \A d \in delivered[c][i], e \in delivered[c][j] : d.seq < e.seq
       /\ \A e \in Awaited(c) : e \in Received(c) \/ e.seq \in lost[c]

Server == TypeOK /\ Numbering /\ Memory /\ Disk /\ Journal

StreamInv == Server /\ \A c \in Clients : PageInv(c) /\ Gave(c)

(***************************************************************************)
(* The operators of the model.                                             *)
(***************************************************************************)
\* The least and the greatest of a set of numbers: what Min and Max return.
LEMMA LeastExists ==
  ASSUME NEW S, S \subseteq Nat, S # {}
  PROVE  \E m \in S : \A n \in S : m <= n
  <1>1. \E m \in S : \A n \in S : <<n, m>> \notin OpToRel(<, Nat)
    BY NatLessThanWellFounded, WFMin, Zenon
  <1>2. \A m, n \in Nat : <<n, m>> \notin OpToRel(<, Nat) => m <= n
    BY DEF OpToRel
  <1> QED
    BY <1>1, <1>2

LEMMA MinOf ==
  ASSUME NEW S, S \subseteq Nat, S # {}
  PROVE  Min(S) \in S /\ \A n \in S : Min(S) <= n
  BY LeastExists DEF Min

LEMMA GreatestExists ==
  ASSUME NEW S, NEW b \in Nat, S \subseteq 0 .. b, S # {}
  PROVE  \E m \in S : \A n \in S : n <= m
  <1> DEFINE T == {b - n : n \in S}
  <1>1. \A n \in S : b - n \in Nat
    OBVIOUS
  <1>2. T \subseteq Nat /\ T # {}
    BY <1>1
  <1>3. PICK t \in T : \A u \in T : t <= u
    BY <1>2, LeastExists, Zenon
  <1>4. PICK m \in S : t = b - m
    BY <1>3
  <1>5. \A n \in S : b - m <= b - n
    BY <1>3, <1>4
  <1> QED
    BY <1>4, <1>5

LEMMA MaxOf ==
  ASSUME NEW S, S \subseteq 0 .. MaxEvents, S # {}
  PROVE  Max(S) \in S /\ \A n \in S : n <= Max(S)
  <1>1. \E m \in S : \A n \in S : n <= m
    BY GreatestExists, StreamAssumption
  <1>2. \E m \in S : \A n \in S : m >= n
    BY <1>1
  <1> QED
    BY <1>2 DEF Max

\* The memory keeps the newest events from some number on, and the last one.
LEMMA EvictedIs ==
  ASSUME NEW es, es \subseteq Events, NEW last \in Numbers(es)
  PROVE  \E m \in Numbers(es) : Evicted(es, last) = From(es, m) /\ m <= last
  <1> DEFINE T == {n \in Numbers(es) : \/ n = last
                                       \/ /\ Cardinality(From(es, n)) <= Capacity
                                          /\ Bytes(From(es, n)) <= MaxBytes}
  <1>1. T \subseteq Nat /\ last \in T
    BY DEF Numbers, Events
  <1>2. Min(T) \in T /\ Min(T) <= last
    BY <1>1, MinOf
  <1>3. Evicted(es, last) = From(es, Min(T))
    BY DEF Evicted
  <1> QED
    BY <1>2, <1>3

\* Trimming keeps the segments from one of them on.
LEMMA StartIs ==
  ASSUME NEW ns, ns \subseteq 1 .. MaxEvents, ns # {}, NEW es
  PROVE  Start(ns, es) \in ns
  <1> DEFINE T == {f \in ns : (\A g \in ns : g <= f) \/ Bytes(From(es, f)) <= TotalBytes}
  <1>1. ns \subseteq 0 .. MaxEvents
    BY StreamAssumption
  <1>2. PICK g \in ns : \A f \in ns : f <= g
    BY <1>1, GreatestExists, StreamAssumption
  <1>3. T \subseteq Nat /\ g \in T
    <2>1. T \subseteq ns /\ g \in T
      BY <1>2, Zenon
    <2> HIDE DEF T
    <2> QED
      BY <1>1, <2>1
  <1>4. Min(T) \in T
    BY <1>3, MinOf
  <1> QED
    BY <1>4 DEF Start

\* The segments an append writes to: those there are and at most its own.
LEMMA RotatedIs ==
  ASSUME TypeOK, NEW e \in Events
  PROVE  /\ Rotated(e) \subseteq names \cup {e.seq} /\ Rotated(e) # {}
         /\ names \subseteq Rotated(e) /\ Rotated(e) \subseteq 1 .. MaxEvents
         /\ names = {} => e.seq \in Rotated(e)
         /\ Max(Rotated(e)) \in Rotated(e)
         /\ \A f \in Rotated(e) : f <= Max(Rotated(e))
  <1>1. /\ Rotated(e) \subseteq names \cup {e.seq} /\ Rotated(e) # {}
        /\ names \subseteq Rotated(e) /\ Rotated(e) \subseteq 1 .. MaxEvents
        /\ names = {} => e.seq \in Rotated(e)
    BY DEF Rotated, TypeOK, Events
  <1> QED
    BY <1>1, MaxOf

\* The last number on the disk.
LEMMA LastIs ==
  ASSUME TypeOK
  PROVE  /\ LastOnDisk \in 0 .. MaxEvents
         /\ \A e \in lines : e.seq <= LastOnDisk
         /\ LastOnDisk # 0 => LastOnDisk \in Numbers(lines)
         /\ UpTo(lines, LastOnDisk) = lines
  <1> DEFINE T == {0} \cup Numbers(lines)
  <1>1. T \subseteq 0 .. MaxEvents
    BY StreamAssumption DEF TypeOK, Numbers, Events
  <1>2. LastOnDisk \in T /\ \A n \in T : n <= LastOnDisk
    BY <1>1, MaxOf DEF LastOnDisk
  <1>3. \A e \in lines : e.seq <= LastOnDisk
    BY <1>2 DEF Numbers
  <1> QED
    BY <1>1, <1>2, <1>3 DEF UpTo

\* Where the memory of a page begins.
LEMMA OldestIs ==
  ASSUME NEW p \in Pages
  PROVE  /\ Oldest(p) \in 1 .. MaxEvents + 1
         /\ \A e \in p.memory : Oldest(p) <= e.seq
         /\ p.memory = {} => Oldest(p) = p.upper + 1
         /\ p.memory # {} => Oldest(p) \in Numbers(p.memory)
  <1>1. CASE p.memory = {}
    BY <1>1, StreamAssumption DEF Oldest, Pages
  <1>2. CASE p.memory # {}
    <2>1. Numbers(p.memory) \subseteq 1 .. MaxEvents /\ Numbers(p.memory) # {}
      BY <1>2 DEF Numbers, Pages, Events
    <2>2. /\ Min(Numbers(p.memory)) \in Numbers(p.memory)
          /\ \A n \in Numbers(p.memory) : Min(Numbers(p.memory)) <= n
      BY <2>1, MinOf
    <2>3. Oldest(p) = Min(Numbers(p.memory))
      BY <1>2 DEF Oldest
    <2>4. \A e \in p.memory : e.seq \in Numbers(p.memory)
      BY DEF Numbers
    <2>5. Oldest(p) \in 1 .. MaxEvents + 1
      BY <2>1, <2>2, <2>3, StreamAssumption
    <2> QED
      BY <1>2, <2>2, <2>3, <2>4, <2>5
  <1> QED
    BY <1>1, <1>2

\* A page goes on over events upwards: it has what it shows of them up to where
\* it has come, and has come to the end of them unless it stops.
LEMMA ExtendedIs ==
  ASSUME NEW got, NEW s \in 0 .. MaxEvents, NEW es, es \subseteq Events,
         \A e \in es : s < e.seq
  PROVE  LET x == Extended(got, s, es)
         IN /\ x.events \subseteq es /\ x.stopped \in BOOLEAN
            /\ x.scanned \in 0 .. MaxEvents /\ s <= x.scanned
            /\ x.scanned = s \/ x.scanned \in Numbers(es)
            /\ \A e \in x.events : Visible(e) /\ e.seq <= x.scanned
            /\ \A e \in es : Visible(e) /\ e.seq <= x.scanned => e \in x.events
            /\ ~x.stopped => \A e \in es : e.seq <= x.scanned
  <1> DEFINE taken == Taken(got, es)
             T == {s} \cup Numbers(taken)
             x == Extended(got, s, es)
  <1>1. /\ taken \subseteq es
        /\ \A d, e \in es : e \in taken /\ d.seq <= e.seq => d \in taken
    <2>1. taken \subseteq es
      BY DEF Taken
    <2>2. ASSUME NEW d \in es, NEW e \in taken, d.seq <= e.seq
          PROVE  d \in taken
      <3>1. \A b \in UpTo(es, d.seq) : b \in UpTo(es, e.seq)
        BY <2>1, <2>2 DEF UpTo, Events
      <3> QED
        BY <3>1, <2>2, Zenon DEF Taken
    <2> QED
      BY <2>1, <2>2
  <1>2. /\ x.events = Shown(taken) /\ x.scanned = Max(T)
        /\ x.stopped = (taken # es \/ Cardinality(got \cup Shown(taken)) >= Limit)
    BY DEF Extended
  <1> HIDE DEF x, taken
  <1>3. T \subseteq 0 .. MaxEvents /\ T # {}
    BY <1>1, StreamAssumption DEF Numbers, Events
  <1>4. x.scanned \in T /\ \A n \in T : n <= x.scanned
    BY <1>2, <1>3, MaxOf
  <1>5. \A e \in taken : e.seq <= x.scanned
    BY <1>4 DEF Numbers
  <1>6. \A e \in es : e.seq <= x.scanned => e \in taken
    <2> SUFFICES ASSUME NEW e \in es, e.seq <= x.scanned PROVE e \in taken
      OBVIOUS
    <2>1. x.scanned # s
      BY <1>3, <1>4 DEF Events
    <2>2. PICK d \in taken : d.seq = x.scanned
      BY <1>4, <2>1 DEF Numbers
    <2> QED
      BY <1>1, <2>2
  <1>7. x.scanned \in 0 .. MaxEvents /\ s <= x.scanned
    BY <1>3, <1>4
  <1>8. x.scanned = s \/ x.scanned \in Numbers(es)
    BY <1>1, <1>4 DEF Numbers
  <1>9. x.stopped \in BOOLEAN /\ (~x.stopped => taken = es)
    BY <1>2
  <1>10. x.events \subseteq taken /\ \A e \in taken : e \in x.events <=> Visible(e)
    BY <1>2 DEF Shown
  <1> QED
    BY <1>1, <1>5, <1>6, <1>7, <1>8, <1>9, <1>10 DEF x

\* What the journal gives a page: the events that it shows up to where it was
\* scanned; and it was scanned to the end unless it is full or broken.
LEMMA JournalPageIs ==
  ASSUME TypeOK, NEW after \in 0 .. MaxEvents, NEW through \in 0 .. MaxEvents,
         after < through
  PROVE  LET x == JournalPage(after, through)
         IN /\ x.full \in BOOLEAN /\ x.broken \in BOOLEAN
            /\ x.scanned \in after .. through
            /\ \A e : e \in x.events <=> /\ e \in lines /\ Visible(e)
                                         /\ after < e.seq /\ e.seq <= x.scanned
            /\ ~x.full /\ ~x.broken =>
                 \A e \in lines : e.seq <= through => e.seq <= x.scanned
            /\ x.broken => bad # {}
  <1> DEFINE damaged == Damaged(after)
             readable == {e \in lines : e.seq > after /\ \A f \in damaged : e.seq < f}
             shown == Shown(UpTo(readable, through))
             beyond == \E e \in readable : e.seq > through
             full == Cardinality(shown) >= Limit
             fills == {n \in Numbers(shown) : Cardinality(UpTo(shown, n)) >= Limit}
             x == JournalPage(after, through)
             n == x.scanned
  <1>1. /\ n = IF full THEN Min(fills) ELSE IF beyond THEN through
               ELSE Max({after} \cup Numbers(readable))
        /\ x.events = UpTo(shown, n) /\ x.full = full
        /\ x.broken = (~full /\ ~beyond /\ damaged # {})
    BY DEF JournalPage
  <1>2. /\ damaged \subseteq bad /\ damaged \subseteq Nat
        /\ readable \subseteq lines /\ \A e \in readable : e.seq \in after + 1 .. MaxEvents
        /\ \A e \in lines, d \in readable : after < e.seq /\ e.seq <= d.seq => e \in readable
    <2>1. damaged \subseteq bad
      BY DEF Damaged
    <2> HIDE DEF damaged
    <2>4. damaged \subseteq Nat
      BY <2>1, StreamAssumption DEF TypeOK
    <2>2. /\ readable \subseteq lines
          /\ \A e \in readable : e.seq \in after + 1 .. MaxEvents
      BY StreamAssumption DEF TypeOK, Events
    <2>3. \A e \in lines, d \in readable : after < e.seq /\ e.seq <= d.seq => e \in readable
      BY <2>4 DEF TypeOK, Events
    <2> QED
      BY <2>1, <2>2, <2>3, <2>4
  <1>3. damaged = {} => \A e \in lines : after < e.seq => e \in readable
    BY DEF TypeOK, Events
  <1> HIDE DEF damaged, readable, x
  <1>4. \A e : e \in shown <=> e \in readable /\ Visible(e) /\ e.seq <= through
    BY DEF Shown, UpTo
  <1>5. /\ n \in after .. through
        /\ \A e \in lines : after < e.seq /\ e.seq <= n => e \in readable
        /\ ~full /\ (beyond \/ damaged = {}) =>
             \A e \in lines : e.seq <= through => e.seq <= n
    <2>1. CASE full
      <3>1. shown # {}
        BY <2>1, FS_EmptySet, StreamAssumption
      <3>2. Numbers(shown) \subseteq 0 .. MaxEvents /\ Numbers(shown) # {}
        BY <1>2, <1>4, <3>1 DEF Numbers
      <3>3. PICK d \in shown : \A e \in shown : e.seq <= d.seq
        <4>1. PICK m \in Numbers(shown) : \A k \in Numbers(shown) : k <= m
          BY <3>2, GreatestExists, StreamAssumption
        <4> QED
          BY <4>1 DEF Numbers
      <3>4. UpTo(shown, d.seq) = shown
        BY <3>3 DEF UpTo
      <3>5. d.seq \in fills
        BY <2>1, <3>4 DEF Numbers
      <3>6. fills \subseteq Nat
        BY <3>2
      <3> HIDE DEF fills
      <3>7. n \in fills
        BY <1>1, <2>1, <3>5, <3>6, MinOf
      <3>8. PICK b \in shown : b.seq = n
        BY <3>7 DEF fills, Numbers
      <3>9. n \in after .. through /\ b \in readable
        BY <1>2, <1>4, <3>8
      <3> QED
        BY <1>2, <2>1, <3>8, <3>9
    <2>2. CASE ~full /\ beyond
      <3>1. n = through
        BY <1>1, <2>2
      <3> QED
        BY <1>2, <2>2, <3>1 DEF TypeOK, Events
    <2>3. CASE ~full /\ ~beyond
      <3> DEFINE T == {after} \cup Numbers(readable)
      <3>1. T \subseteq 0 .. MaxEvents /\ T # {}
        BY <1>2, StreamAssumption DEF Numbers
      <3>2. n \in T /\ \A k \in T : k <= n
        BY <1>1, <2>3, <3>1, MaxOf
      <3>3. \A e \in readable : e.seq <= n
        BY <3>2 DEF Numbers
      <3>4. n \in after .. through
        BY <1>2, <2>3, <3>2 DEF Numbers
      <3>5. \A e \in lines : after < e.seq /\ e.seq <= n => e \in readable
        BY <1>2, <3>2, <3>4 DEF Numbers, TypeOK, Events
      <3>6. damaged = {} => \A e \in lines : e.seq <= through => e.seq <= n
        BY <1>3, <3>3, <3>4 DEF TypeOK, Events
      <3> QED
        BY <2>3, <3>4, <3>5, <3>6
    <2> QED
      BY <2>1, <2>2, <2>3
  <1>6. \A e : e \in x.events <=> e \in readable /\ Visible(e) /\ e.seq <= n
    BY <1>1, <1>2, <1>4, <1>5 DEF UpTo
  <1>8. full \in BOOLEAN /\ beyond \in BOOLEAN
    OBVIOUS
  <1> HIDE DEF full, beyond, shown
  <1>7. \A e : e \in x.events <=> /\ e \in lines /\ Visible(e)
                                  /\ after < e.seq /\ e.seq <= n
    BY <1>2, <1>5, <1>6
  <1>9. ~x.full /\ ~x.broken => \A e \in lines : e.seq <= through => e.seq <= n
    BY <1>1, <1>5
  <1>10. x.broken => bad # {}
    BY <1>1, <1>2
  <1>11. x.full \in BOOLEAN /\ x.broken \in BOOLEAN
    BY <1>1, <1>8
  <1> QED
    BY <1>5, <1>7, <1>9, <1>10, <1>11 DEF x

\* What a page takes of the journal.
LEMMA OldIs ==
  ASSUME TypeOK, NEW p \in Pages, NEW through \in 0 .. MaxEvents, p.after < through
  PROVE  LET q == Old(p, JournalPage(p.after, through))
         IN /\ q \in Pages
            /\ q.after = p.after /\ q.gap = p.gap /\ q.memory = p.memory
            /\ q.upper = p.upper /\ q.reading = p.reading /\ q.kept = p.kept
            /\ q.scanned \in p.after .. through
            /\ \A e : e \in q.events <=> /\ e \in lines /\ Visible(e)
                                         /\ p.after < e.seq /\ e.seq <= q.scanned
            /\ ~q.stopped /\ q.complete =>
                 \A e \in lines : e.seq <= through => e.seq <= q.scanned
  <1> DEFINE found == JournalPage(p.after, through)
             x == Extended({}, p.after, found.events)
             m == Max({x.scanned, found.scanned})
             q == Old(p, found)
  <1>1. p.after \in 0 .. MaxEvents
    BY DEF Pages
  <1>2. /\ found.full \in BOOLEAN /\ found.broken \in BOOLEAN
        /\ found.scanned \in p.after .. through
        /\ \A e : e \in found.events <=> /\ e \in lines /\ Visible(e)
                                         /\ p.after < e.seq /\ e.seq <= found.scanned
        /\ ~found.full /\ ~found.broken =>
             \A e \in lines : e.seq <= through => e.seq <= found.scanned
    BY <1>1, JournalPageIs
  <1>3. /\ q.events = x.events /\ q.stopped = x.stopped
        /\ q.scanned = IF x.stopped THEN x.scanned ELSE m
        /\ q.complete = (~found.full /\ ~found.broken)
    BY DEF Old, Pages
  <1>4. /\ q.after = p.after /\ q.gap = p.gap /\ q.memory = p.memory
        /\ q.upper = p.upper /\ q.reading = p.reading /\ q.kept = p.kept
    BY DEF Old, Pages
  <1>5. q = [p EXCEPT !.events = x.events, !.stopped = x.stopped,
                      !.scanned = IF x.stopped THEN x.scanned ELSE m,
                      !.complete = ~found.full /\ ~found.broken]
    BY DEF Old
  <1> HIDE DEF found, q
  <1>6. found.events \subseteq Events /\ \A e \in found.events : p.after < e.seq
    BY <1>2 DEF TypeOK
  <1>7. /\ x.events \subseteq found.events /\ x.stopped \in BOOLEAN
        /\ x.scanned \in 0 .. MaxEvents /\ p.after <= x.scanned
        /\ x.scanned = p.after \/ x.scanned \in Numbers(found.events)
        /\ \A e \in x.events : e.seq <= x.scanned
        /\ \A e \in found.events : Visible(e) /\ e.seq <= x.scanned => e \in x.events
        /\ ~x.stopped => \A e \in found.events : e.seq <= x.scanned
    BY <1>1, <1>6, ExtendedIs
  <1> HIDE DEF x
  <1>8. x.scanned <= found.scanned
    BY <1>1, <1>2, <1>6, <1>7 DEF Numbers, Events
  <1>9. m = found.scanned
    <2>1. {x.scanned, found.scanned} \subseteq 0 .. MaxEvents
      BY <1>1, <1>2, <1>7, StreamAssumption
    <2>2. m \in {x.scanned, found.scanned} /\ \A n \in {x.scanned, found.scanned} : n <= m
      BY <2>1, MaxOf
    <2> QED
      BY <1>2, <1>7, <1>8, <2>2
  <1>10. q.scanned = IF x.stopped THEN x.scanned ELSE found.scanned
    BY <1>3, <1>9
  <1>11. q.scanned \in p.after .. through
    BY <1>1, <1>2, <1>7, <1>8, <1>10
  <1>12. \A e : e \in q.events <=> /\ e \in lines /\ Visible(e)
                                   /\ p.after < e.seq /\ e.seq <= q.scanned
    <2>1. ASSUME NEW e \in q.events
          PROVE  e \in lines /\ Visible(e) /\ p.after < e.seq /\ e.seq <= q.scanned
      BY <1>2, <1>3, <1>7, <1>8, <1>10, <2>1
    <2>2. ASSUME NEW e \in lines, Visible(e), p.after < e.seq, e.seq <= q.scanned
          PROVE  e \in q.events
      <3>1. e.seq \in Nat
        BY DEF TypeOK, Events
      <3>2. e \in found.events
        BY <1>1, <1>2, <1>7, <1>8, <1>10, <2>2, <3>1
      <3>3. e.seq <= x.scanned
        BY <1>7, <1>10, <2>2, <3>2
      <3> QED
        BY <1>3, <1>7, <2>2, <3>2, <3>3
    <2> QED
      BY <2>1, <2>2
  <1>13. ~q.stopped /\ q.complete => \A e \in lines : e.seq <= through => e.seq <= q.scanned
    BY <1>2, <1>3, <1>10
  <1>14. q \in Pages
    <2> DEFINE whole == ~found.full /\ ~found.broken
    <2>1. x.events \in SUBSET Events /\ whole \in BOOLEAN
      BY <1>6, <1>7
    <2>2. q.scanned \in 0 .. MaxEvents
      BY <1>1, <1>11, StreamAssumption
    <2>3. q = [p EXCEPT !.events = x.events, !.stopped = x.stopped,
                        !.scanned = q.scanned, !.complete = whole]
      BY <1>3, <1>5
    <2> HIDE DEF whole
    <2> QED
      BY <1>7, <2>1, <2>2, <2>3 DEF Pages
  <1> QED
    BY <1>4, <1>11, <1>12, <1>13, <1>14 DEF q, found

\* What replay returns: of the memory what it shows up to where the page ends,
\* and it goes beyond the journal's part only if that did not end the page.
LEMMA ResultIs ==
  ASSUME TypeOK, NEW p \in Pages, p.scanned <= p.upper
  PROVE  LET r == Result(p)
         IN /\ r.gap \in BOOLEAN /\ r.new \subseteq p.memory
            /\ r.scanned \in p.scanned .. p.upper
            /\ \A e \in r.new : Visible(e) /\ p.scanned < e.seq /\ e.seq <= r.scanned
            /\ \A e \in p.memory : Visible(e) /\ p.scanned < e.seq /\ e.seq <= r.scanned
                                     => e \in r.new
            /\ ~r.gap => ~p.gap
            /\ ~r.gap /\ p.scanned < r.scanned =>
                 ~p.stopped /\ (p.complete \/ degraded) /\ ~(p.reading /\ degraded)
  <1> DEFINE rest == {e \in p.memory : e.seq > p.scanned /\ e.seq <= p.upper}
             x == Extended(p.events, p.scanned, rest)
             m == Max({x.scanned, p.upper})
             r == Result(p)
  <1>1. /\ p.scanned \in 0 .. MaxEvents /\ p.upper \in 0 .. MaxEvents
        /\ p.gap \in BOOLEAN /\ p.reading \in BOOLEAN /\ degraded \in BOOLEAN
        /\ p.memory \subseteq Events
    BY DEF Pages, TypeOK
  <1>2. CASE p.stopped \/ (~p.complete /\ ~degraded)
    <2>1. r = [new |-> {}, scanned |-> p.scanned, gap |-> p.gap]
      BY <1>2 DEF Result
    <2> HIDE DEF r
    <2>2. r.new = {} /\ r.scanned = p.scanned /\ r.gap = p.gap
      BY <2>1
    <2>3. p.scanned \in p.scanned .. p.upper /\ ~(p.scanned < p.scanned)
      BY <1>1
    <2> QED
      BY <1>1, <2>2, <2>3 DEF r, Events
  <1>3. CASE ~(p.stopped \/ (~p.complete /\ ~degraded))
    <2>1. r = [new |-> x.events, scanned |-> IF x.stopped THEN x.scanned ELSE m,
               gap |-> p.gap \/ (p.reading /\ degraded)]
      BY <1>3 DEF Result
    <2>2. rest \subseteq Events /\ \A e \in rest : p.scanned < e.seq
      BY <1>1
    <2>3. rest \subseteq p.memory /\ \A e \in rest : e.seq <= p.upper
      OBVIOUS
    <2>4. \A e \in p.memory : p.scanned < e.seq /\ e.seq <= p.upper => e \in rest
      BY <1>1 DEF Events
    <2> HIDE DEF r, rest
    <2>5. /\ x.events \subseteq rest /\ x.stopped \in BOOLEAN
          /\ x.scanned \in 0 .. MaxEvents /\ p.scanned <= x.scanned
          /\ x.scanned = p.scanned \/ x.scanned \in Numbers(rest)
          /\ \A e \in x.events : Visible(e) /\ e.seq <= x.scanned
          /\ \A e \in rest : Visible(e) /\ e.seq <= x.scanned => e \in x.events
          /\ ~x.stopped => \A e \in rest : e.seq <= x.scanned
      BY <1>1, <2>2, ExtendedIs
    <2> HIDE DEF x
    <2>6. x.scanned <= p.upper
      BY <1>1, <2>3, <2>5 DEF Numbers
    <2>7. m = p.upper
      <3>1. {x.scanned, p.upper} \subseteq 0 .. MaxEvents
        BY <1>1, <2>5
      <3>2. m \in {x.scanned, p.upper} /\ p.upper <= m
        BY <3>1, MaxOf
      <3> QED
        BY <1>1, <2>5, <2>6, <3>2
    <2>8. /\ r.new = x.events /\ r.scanned = IF x.stopped THEN x.scanned ELSE p.upper
          /\ r.gap = (p.gap \/ (p.reading /\ degraded))
      BY <2>1, <2>7
    <2>9. r.gap \in BOOLEAN /\ (~r.gap => ~p.gap /\ ~(p.reading /\ degraded))
      BY <1>1, <2>8
    <2>10. r.new \subseteq p.memory /\ r.scanned \in p.scanned .. p.upper
      BY <1>1, <2>3, <2>5, <2>6, <2>8
    <2>11. \A e \in r.new : Visible(e) /\ p.scanned < e.seq /\ e.seq <= r.scanned
      BY <2>2, <2>3, <2>5, <2>8
    <2>12. \A e \in p.memory : Visible(e) /\ p.scanned < e.seq /\ e.seq <= r.scanned
                                 => e \in r.new
      <3> SUFFICES ASSUME NEW e \in p.memory, Visible(e), p.scanned < e.seq,
                          e.seq <= r.scanned
                   PROVE  e \in r.new
        OBVIOUS
      <3>1. e.seq \in Nat
        BY <1>1 DEF Events
      <3>2. e.seq <= p.upper
        BY <1>1, <2>5, <2>6, <2>8, <3>1
      <3>3. e \in rest
        BY <2>4, <3>2
      <3> QED
        BY <2>5, <2>8, <3>3
    <2> QED
      BY <1>3, <2>9, <2>10, <2>11, <2>12 DEF r
  <1> QED
    BY <1>2, <1>3

\* Every event on the disk lies in a segment that is not empty.
LEMMA HealedIs ==
  ASSUME TypeOK, Disk
  PROVE  /\ Healed \subseteq names
         /\ \A e \in lines : \E g \in Healed : g <= e.seq
         /\ \A g \in Healed : \E e \in lines : g <= e.seq
  <1>1. Healed \subseteq names /\ \A g \in Healed : \E e \in lines : g <= e.seq
    BY DEF Healed, Segment, TypeOK, Events
  <1>2. ASSUME NEW e \in lines PROVE \E g \in Healed : g <= e.seq
    <2> DEFINE T == {f \in names : f <= e.seq}
    <2>1. T \subseteq 0 .. MaxEvents /\ T # {}
      <3>1. T # {}
        BY DEF Disk
      <3>2. names \subseteq 0 .. MaxEvents
        BY StreamAssumption DEF TypeOK
      <3> QED
        BY <3>1, <3>2
    <2>2. PICK g \in T : \A f \in T : f <= g
      BY <2>1, GreatestExists, StreamAssumption
    <2>3. \A f \in names : f > g => e.seq < f
      BY <2>2 DEF TypeOK, Events
    <2>4. e \in Segment(g)
      BY <2>2, <2>3 DEF Segment, TypeOK, Events
    <2> QED
      BY <2>2, <2>4 DEF Healed
  <1> QED
    BY <1>1, <1>2

\* What the disk holds when the events are kept from some segment on.
LEMMA KeepIs ==
  ASSUME NEW ns, ns \subseteq 1 .. MaxEvents, NEW es, es \subseteq Events, NEW f,
         Keep(ns, es, f)
  PROVE  /\ names' \subseteq ns /\ lines' \subseteq es
         /\ bad' \subseteq bad /\ bad' \subseteq names'
         /\ \A e : e \in lines' <=> e \in es /\ e.seq >= f
         /\ \A g : g \in names' <=> g \in ns /\ g >= f
  BY DEF Keep, From

\* A journal that works, on its way through an append: it can be opened again.
LEMMA AppendingIs ==
  ASSUME Server, up, ~degraded, NEW e \in pending
  PROVE  /\ e \in Events /\ e \in log /\ e.seq = sequence /\ latest = sequence - 1
         /\ lines \cup {e} \subseteq log
         /\ \A d \in lines \cup {e} : d.seq <= e.seq
         /\ \A f \in Rotated(e) : f <= e.seq
         /\ \A f \in Rotated(e) : \A d \in log : f <= d.seq => d \in lines \cup {e}
         /\ \A d, b \in lines \cup {e} : d.seq .. b.seq \subseteq Numbers(lines \cup {e})
  <1>1. e \in Events /\ e \in log /\ e.seq = sequence /\ sequence \in 0 .. MaxEvents
    BY DEF Server, TypeOK, Memory
  <1>2. /\ latest = sequence - 1 /\ torn = 0 /\ lines \subseteq log
        /\ latest > 0 => latest \in Numbers(lines)
        /\ \A d \in lines : d.seq <= latest
        /\ \A f \in names : /\ f <= latest
                            /\ \A d \in log : f <= d.seq /\ d.seq <= latest => d \in lines
    BY DEF Server, Journal, Handed
  <1>3. /\ Rotated(e) \subseteq names \cup {e.seq} /\ Rotated(e) \subseteq 1 .. MaxEvents
    BY <1>1, RotatedIs DEF Server
  <1>4. \A d \in log : d \in Events /\ d.seq <= sequence /\ (d.seq = e.seq => d = e)
    BY <1>1 DEF Server, Numbering, TypeOK
  <1>5. \A d \in lines \cup {e} : d.seq <= e.seq
    BY <1>1, <1>2, <1>4 DEF Events
  <1>6. \A f \in Rotated(e) : f <= e.seq
    BY <1>1, <1>2, <1>3
  <1>7. ASSUME NEW f \in Rotated(e), NEW d \in log, f <= d.seq
        PROVE  d \in lines \cup {e}
    <2>1. CASE d.seq = e.seq
      BY <1>4, <2>1
    <2>2. CASE d.seq # e.seq
      <3>1. d.seq <= latest /\ d.seq \in Nat
        BY <1>1, <1>2, <1>4, <2>2 DEF Events
      <3>2. f \in names
        BY <1>1, <1>2, <1>3, <1>7, <3>1
      <3> QED
        BY <1>2, <1>7, <3>1, <3>2
    <2> QED
      BY <2>1, <2>2
  <1>8. ASSUME NEW d \in lines \cup {e}, NEW b \in lines \cup {e}, NEW n \in d.seq .. b.seq
        PROVE  n \in Numbers(lines \cup {e})
    <2>1. d \in Events /\ b \in Events /\ d.seq <= e.seq /\ b.seq <= e.seq
      BY <1>1, <1>5 DEF Server, TypeOK
    <2>2. d.seq \in Nat /\ b.seq \in Nat /\ e.seq \in Nat /\ d.seq >= 1
      BY <1>1, <2>1 DEF Events
    <2>3. CASE n = e.seq
      BY <2>3 DEF Numbers
    <2>4. CASE n # e.seq
      <3>1. n <= latest /\ n \in Nat /\ n >= 1
        BY <1>1, <1>2, <2>1, <2>2, <2>4
      <3>2. PICK a \in lines : a.seq = latest
        BY <1>1, <1>2, <3>1 DEF Numbers
      <3>3. d \in lines
        BY <1>1, <2>1, <2>2, <2>4
      <3>4. n \in d.seq .. a.seq
        BY <1>1, <1>2, <3>1, <3>2, <2>2
      <3>5. n \in Numbers(lines)
        BY <3>2, <3>3, <3>4 DEF Server, Disk
      <3> QED
        BY <3>5 DEF Numbers
    <2> QED
      BY <2>3, <2>4
  <1> QED
    BY <1>1, <1>2, <1>4, <1>5, <1>6, <1>7, <1>8

\* On its way through an append the disk can be opened at any moment.
LEMMA PartlyAppendedIs ==
  ASSUME Server, up, ~degraded, NEW e \in pending, PartlyAppended(e)
  PROVE  /\ names' \subseteq 1 .. MaxEvents /\ lines' \subseteq Events
         /\ bad' \subseteq names' /\ torn' \in 0 .. MaxEvents
         /\ lines' \subseteq lines \cup {e} /\ bad' \subseteq bad
         /\ \A d, b \in lines' : d.seq = b.seq => d = b
         /\ \A d, b \in lines' : d.seq .. b.seq \subseteq Numbers(lines')
         /\ \A d \in lines' : \E f \in names' : f <= d.seq
         /\ torn' # 0 => \A f \in names' : f <= torn'
  <1> DEFINE ns == Rotated(e)
             es == lines \cup {e}
  <1>1. /\ TypeOK /\ Disk /\ torn = 0
        /\ \A d, b \in log : d.seq = b.seq => d = b
    BY DEF Server, Journal, Numbering
  <1>2. /\ e \in Events /\ es \subseteq log /\ es \subseteq Events
        /\ \A d, b \in es : d.seq .. b.seq \subseteq Numbers(es)
    BY <1>1, AppendingIs DEF TypeOK
  <1>3. /\ ns \subseteq 1 .. MaxEvents /\ names \subseteq ns
        /\ Max(ns) \in ns /\ \A f \in ns : f <= Max(ns)
    BY <1>1, <1>2, RotatedIs
  <1>4. names \subseteq 1 .. MaxEvents /\ lines \subseteq Events /\ bad \subseteq names
    BY <1>1 DEF TypeOK
  <1>5. 0 \in 0 .. MaxEvents /\ 1 .. MaxEvents \subseteq 0 .. MaxEvents
    BY StreamAssumption
  <1>6. CASE UNCHANGED disk
    BY <1>1, <1>6, <1>4, <1>5 DEF disk, Disk, Numbers
  <1>7. CASE names' = ns /\ torn' \in {torn, Max(ns)} /\ UNCHANGED <<lines, bad>>
    <2>1. torn' \in 0 .. MaxEvents /\ (torn' # 0 => \A f \in names' : f <= torn')
      BY <1>1, <1>3, <1>5, <1>7
    <2>2. \A d \in lines' : \E f \in names' : f <= d.seq
      BY <1>1, <1>3, <1>7 DEF Disk
    <2>3. /\ \A d, b \in lines' : d.seq = b.seq => d = b
          /\ \A d, b \in lines' : d.seq .. b.seq \subseteq Numbers(lines')
      BY <1>1, <1>7 DEF Disk, Numbers
    <2> QED
      BY <1>3, <1>4, <1>7, <2>1, <2>2, <2>3
  <1>8. ASSUME NEW f \in ns, Keep(ns, es, f), UNCHANGED torn
        PROVE  /\ names' \subseteq 1 .. MaxEvents /\ lines' \subseteq es
               /\ bad' \subseteq names' /\ bad' \subseteq bad
               /\ \A d, b \in lines' : d.seq = b.seq => d = b
               /\ \A d, b \in lines' : d.seq .. b.seq \subseteq Numbers(lines')
               /\ \A d \in lines' : \E g \in names' : g <= d.seq
               /\ torn' = 0
    <2> HIDE DEF ns, es
    <2>1. /\ names' \subseteq ns /\ lines' \subseteq es
          /\ bad' \subseteq bad /\ bad' \subseteq names'
          /\ \A d : d \in lines' <=> d \in es /\ d.seq >= f
          /\ \A g : g \in names' <=> g \in ns /\ g >= f
      BY <1>2, <1>3, <1>8, KeepIs
    <2>2. f \in names' /\ \A d \in lines' : f <= d.seq
      BY <1>2, <1>3, <2>1 DEF Events
    <2>3. ASSUME NEW d \in lines', NEW b \in lines', NEW n \in d.seq .. b.seq
          PROVE  n \in Numbers(lines')
      <3>1. PICK a \in es : a.seq = n
        BY <1>2, <2>1, <2>3 DEF Numbers
      <3>2. d \in Events /\ d.seq >= f
        BY <1>2, <2>1
      <3>3. a.seq >= f
        BY <1>2, <1>3, <2>3, <3>1, <3>2 DEF Events
      <3> QED
        BY <2>1, <3>1, <3>3 DEF Numbers
    <2> QED
      BY <1>1, <1>2, <1>3, <1>8, <2>1, <2>2, <2>3
  <1> QED
    <2>1. CASE \E f \in ns : Keep(ns, es, f) /\ UNCHANGED torn
      BY <1>2, <1>5, <1>8, <2>1
    <2>2. UNCHANGED disk \/ (names' = ns /\ torn' \in {torn, Max(ns)} /\ UNCHANGED <<lines, bad>>)
            \/ \E f \in ns : Keep(ns, es, f) /\ UNCHANGED torn
      BY DEF PartlyAppended
    <2>3. CASE UNCHANGED disk
      BY <1>6, <2>3
    <2>4. CASE names' = ns /\ torn' \in {torn, Max(ns)} /\ UNCHANGED <<lines, bad>>
      BY <1>7, <2>4
    <2> QED
      BY <2>1, <2>2, <2>3, <2>4

\* The whole append: the journal goes on with the event.
LEMMA AppendedIs ==
  ASSUME Server, up, ~degraded, NEW e \in pending,
         Admits(e), Keep(Rotated(e), lines \cup {e}, Start(Rotated(e), lines \cup {e})),
         UNCHANGED torn
  PROVE  /\ PartlyAppended(e) /\ torn' = 0 /\ lines' \subseteq log
         /\ e \in lines' /\ \A d \in lines' : d.seq <= e.seq
         /\ \A f \in names' : f <= e.seq /\ \A d \in log : f <= d.seq => d \in lines'
  <1> DEFINE ns == Rotated(e)
             es == lines \cup {e}
             f == Start(ns, es)
  <1>1. TypeOK /\ torn = 0
    BY DEF Server, Journal
  <1>2. /\ e \in Events /\ es \subseteq log /\ log \subseteq Events
        /\ \A d \in es : d.seq <= e.seq
        /\ \A g \in ns : g <= e.seq
        /\ \A g \in ns : \A d \in log : g <= d.seq => d \in es
    BY <1>1, AppendingIs DEF TypeOK
  <1>3. ns \subseteq 1 .. MaxEvents /\ ns # {}
    BY <1>1, <1>2, RotatedIs
  <1>4. f \in ns
    BY <1>3, StartIs
  <1>5. PartlyAppended(e)
    <2>1. f <= f
      BY <1>3, <1>4
    <2> QED
      BY <1>4, <2>1 DEF PartlyAppended
  <1> HIDE DEF ns, es
  <1>6. /\ names' \subseteq ns /\ lines' \subseteq es
        /\ \A d : d \in lines' <=> d \in es /\ d.seq >= f
        /\ \A g : g \in names' <=> g \in ns /\ g >= f
    <2>1. Keep(ns, es, f)
      BY DEF ns, es
    <2>2. es \subseteq Events
      BY <1>2
    <2> HIDE DEF f
    <2> QED
      BY <1>3, <2>1, <2>2, KeepIs
  <1> HIDE DEF f
  <1>7. e \in lines'
    <2>1. e \in es
      BY DEF es
    <2>2. e.seq >= f
      BY <1>2, <1>3, <1>4 DEF Events
    <2> QED
      BY <1>6, <2>1, <2>2
  <1>8. ASSUME NEW g \in names', NEW d \in log, g <= d.seq
        PROVE  d \in lines'
    <2>1. g \in ns /\ g >= f /\ d \in es
      BY <1>2, <1>6, <1>8
    <2>2. d.seq >= f
      BY <1>2, <1>3, <1>4, <1>8, <2>1 DEF Events
    <2> QED
      BY <1>6, <2>1, <2>2
  <1> QED
    BY <1>1, <1>2, <1>5, <1>6, <1>7, <1>8

\* Nothing but a failure of the disk makes a journal unreadable.
LEMMA ReadableIs ==
  ASSUME Server, Unreadable
  PROVE  faults # 0
  <1>1. /\ TypeOK
        /\ \A d, e \in lines : d.seq .. e.seq \subseteq Numbers(lines)
        /\ torn # 0 => \A f \in names : f <= torn
        /\ faults = 0 => bad = {}
    BY DEF Server, Disk
  <1>2. names \subseteq Nat /\ torn \in Nat
    BY <1>1, StreamAssumption DEF TypeOK
  <1>3. ~(torn # 0 /\ \E f \in names : f > torn)
    BY <1>1, <1>2
  <1>4. bad # {}
    BY <1>1, <1>3, Zenon DEF Unreadable
  <1> QED
    BY <1>1, <1>4

\* What opening leaves on the disk; all of it, if it keeps from 0 on.
LEMMA OpeningIs ==
  ASSUME Server, NEW f, Healed # {} => f \in {0} \cup Healed, Keep(Healed, lines, f)
  PROVE  /\ names' \subseteq 1 .. MaxEvents /\ lines' \subseteq lines
         /\ bad' \subseteq names' /\ bad' \subseteq bad
         /\ \A d, b \in lines' : d.seq = b.seq => d = b
         /\ \A d, b \in lines' : d.seq .. b.seq \subseteq Numbers(lines')
         /\ \A d \in lines' : \E g \in names' : g <= d.seq
         /\ \A g \in names' : \E d \in lines : g <= d.seq
         /\ \A g \in names' : \A d \in lines : g <= d.seq => d \in lines'
         /\ \A d \in lines : (\A b \in lines : b.seq <= d.seq) => d \in lines'
  <1>1. /\ TypeOK /\ Disk /\ \A d, b \in lines : d.seq = b.seq => d = b
        /\ \A d, e \in lines : d.seq .. e.seq \subseteq Numbers(lines)
    BY DEF Server, Disk
  <1>2. /\ Healed \subseteq names /\ \A d \in lines : \E g \in Healed : g <= d.seq
        /\ \A g \in Healed : \E d \in lines : g <= d.seq
    BY <1>1, HealedIs
  <1>3. names \subseteq 1 .. MaxEvents /\ lines \subseteq Events
    BY <1>1 DEF TypeOK
  <1>4. Healed \subseteq 1 .. MaxEvents
    BY <1>2, <1>3
  <1>5. /\ names' \subseteq Healed /\ lines' \subseteq lines
        /\ bad' \subseteq bad /\ bad' \subseteq names'
        /\ \A d : d \in lines' <=> d \in lines /\ d.seq >= f
        /\ \A g : g \in names' <=> g \in Healed /\ g >= f
    BY <1>3, <1>4, KeepIs
  <1>6. CASE Healed = {}
    BY <1>2, <1>4, <1>5, <1>6
  <1>7. CASE Healed # {}
    <2>1. f \in Nat /\ (f = 0 \/ f \in Healed)
      <3>1. f = 0 \/ f \in Healed
        BY <1>7
      <3>2. CASE f \in Healed
        BY <1>4, <3>2
      <3>3. CASE f = 0
        BY <3>3
      <3> QED
        BY <3>1, <3>2, <3>3
    <2>2. ASSUME NEW d \in lines' PROVE \E g \in names' : g <= d.seq
      <3>1. PICK g \in Healed : g <= d.seq
        BY <1>2, <1>5, <2>2
      <3>2. CASE f = 0
        BY <1>4, <1>5, <3>1, <3>2
      <3>3. CASE f \in Healed
        BY <1>3, <1>5, <2>1, <2>2, <3>3 DEF Events
      <3> QED
        BY <2>1, <3>2, <3>3
    <2>3. ASSUME NEW g \in names', NEW d \in lines, g <= d.seq
          PROVE  d \in lines'
      BY <1>3, <1>4, <1>5, <2>1, <2>3 DEF Events
    <2>4. ASSUME NEW d \in lines, \A b \in lines : b.seq <= d.seq
          PROVE  d \in lines'
      BY <1>2, <1>3, <1>4, <1>5, <2>1, <2>4 DEF Events
    <2>5. ASSUME NEW d \in lines', NEW b \in lines', NEW n \in d.seq .. b.seq
          PROVE  n \in Numbers(lines')
      <3>1. PICK a \in lines : a.seq = n
        BY <1>1, <1>5, <2>5 DEF Numbers
      <3>2. d \in Events /\ d.seq >= f
        BY <1>3, <1>5
      <3>3. a.seq >= f
        BY <1>3, <2>1, <2>5, <3>1, <3>2 DEF Events
      <3> QED
        BY <1>5, <3>1, <3>3 DEF Numbers
    <2>6. \A d, b \in lines' : d.seq = b.seq => d = b
      BY <1>1, <1>5
    <2>7. \A g \in names' : \E d \in lines : g <= d.seq
      BY <1>2, <1>5
    <2> QED
      BY <1>4, <1>5, <2>2, <2>3, <2>4, <2>5, <2>6, <2>7
  <1> QED
    BY <1>6, <1>7

(***************************************************************************)
(* The server: every step keeps its part of the invariant.                 *)
(***************************************************************************)
ProcessTypes ==
  /\ up \in BOOLEAN /\ instance \in 1..MaxCrashes + 1
  /\ memory \subseteq Events /\ pending \subseteq Events /\ log \subseteq Events
  /\ sequence \in 0..MaxEvents /\ latest \in 0..MaxEvents /\ degraded \in BOOLEAN
  /\ written \in 0..MaxEvents /\ faults \in 0..MaxFaults /\ crashes \in 0..MaxCrashes

DiskTypes ==
  /\ names \subseteq 1..MaxEvents /\ lines \subseteq Events
  /\ bad \subseteq names /\ torn \in 0..MaxEvents

ClientTypes ==
  /\ pc \in [Clients -> {"idle", "look", "check", "read", "finish"}]
  /\ page \in [Clients -> Pages]
  /\ cursor \in [Clients -> 0..MaxEvents] /\ known \in [Clients -> 0..MaxCrashes + 1]
  /\ since \in [Clients -> 0..MaxEvents]
  /\ delivered \in [Clients -> Seq(SUBSET Events)]
  /\ lost \in [Clients -> SUBSET (1..MaxEvents)]

LEMMA Types == TypeOK <=> ProcessTypes /\ DiskTypes /\ ClientTypes
  BY Zenon DEF TypeOK, ProcessTypes, DiskTypes, ClientTypes

LEMMA TypesPrimed == TypeOK' <=> ProcessTypes' /\ DiskTypes' /\ ClientTypes'
  BY Zenon DEF TypeOK, ProcessTypes, DiskTypes, ClientTypes

LEMMA ClientTypesKept ==
  ASSUME ClientTypes, UNCHANGED clients
  PROVE  ClientTypes'
  BY DEF ClientTypes, clients

LEMMA ServerParts ==
  ASSUME Server
  PROVE  TypeOK /\ ProcessTypes /\ DiskTypes /\ ClientTypes
  BY Types DEF Server

LEMMA WriteServer ==
  ASSUME Server, NEW k \in Kinds, Write(k)
  PROVE  Server'
  <1> DEFINE e == [seq |-> sequence + 1, kind |-> k, id |-> written + 1]
             es == memory \cup {e}
  <1>1. ProcessTypes /\ DiskTypes /\ ClientTypes
    BY ServerParts
  <1>2. /\ up /\ pending = {} /\ written < MaxEvents
        /\ memory' = Evicted(es, e.seq) /\ pending' = {e} /\ log' = log \cup {e}
        /\ sequence' = sequence + 1 /\ written' = written + 1
        /\ UNCHANGED <<up, instance, latest, degraded, disk, clients, faults, crashes>>
    BY DEF Write
  <1>3. sequence <= written /\ sequence \in 0 .. MaxEvents /\ written \in 0 .. MaxEvents
    BY <1>1 DEF Server, Numbering, ProcessTypes
  <1>4. e \in Events /\ e.seq = sequence + 1
    BY <1>2, <1>3, StreamAssumption DEF Events
  <1>5. memory \subseteq Events /\ log \subseteq Events /\ memory \subseteq log
    BY <1>1 DEF ProcessTypes, Server, Memory
  <1> HIDE DEF e
  <1>6. PICK m \in Numbers(es) : Evicted(es, e.seq) = From(es, m) /\ m <= e.seq
    <2>1. es \subseteq Events /\ e.seq \in Numbers(es)
      BY <1>4, <1>5 DEF Numbers
    <2> HIDE DEF es
    <2> QED
      BY <2>1, EvictedIs
  <1>7. /\ memory' \subseteq es /\ e \in memory' /\ m \in Nat
        /\ \A d \in es : d.seq >= m => d \in memory'
        /\ \A d \in memory' : d.seq >= m
    <2>1. m \in Nat
      BY <1>4, <1>5 DEF Numbers, Events
    <2>2. \A d : d \in memory' <=> d \in es /\ d.seq >= m
      BY <1>2, <1>6 DEF From
    <2>3. e \in memory'
      BY <1>4, <1>6, <2>1, <2>2 DEF Events
    <2> QED
      BY <2>1, <2>2, <2>3
  <1>8. \A d \in log : d.seq <= sequence /\ d.seq \in Nat
    BY <1>5 DEF Server, Numbering, Events
  <1>9. ProcessTypes'
    <2>1. memory' \subseteq Events /\ log' \subseteq Events /\ pending' \subseteq Events
      BY <1>2, <1>4, <1>5, <1>7
    <2>2. sequence' \in 0 .. MaxEvents /\ written' \in 0 .. MaxEvents
      BY <1>2, <1>3, StreamAssumption
    <2> QED
      BY <1>1, <1>2, <2>1, <2>2 DEF ProcessTypes
  <1>10. DiskTypes' /\ ClientTypes'
    BY <1>1, <1>2, ClientTypesKept DEF DiskTypes, disk
  <1>11. Numbering'
    <2>1. /\ instance' = crashes' + (IF up' THEN 1 ELSE 0)
          /\ sequence' <= written' /\ \A d \in lines' : d.seq <= written'
      BY <1>1, <1>2, <1>3 DEF Server, Numbering, disk, DiskTypes, Events
    <2>2. \A d \in log' : d.seq <= sequence'
      BY <1>2, <1>3, <1>4, <1>8
    <2>3. \A d, b \in log' : d.seq = b.seq => d = b
      BY <1>2, <1>3, <1>4, <1>8 DEF Server, Numbering
    <2> QED
      BY <2>1, <2>2, <2>3 DEF Numbering
  <1>12. Memory'
    <2>1. memory' \subseteq log' /\ pending' \subseteq memory'
      BY <1>2, <1>5, <1>7
    <2>2. ASSUME NEW d \in memory', NEW b \in log', d.seq <= b.seq PROVE b \in memory'
      <3>1. CASE b = e
        BY <1>7, <3>1
      <3>2. CASE b # e
        <4>1. b \in log /\ d # e
          BY <1>2, <1>3, <1>4, <1>8, <2>2, <3>2
        <4>2. d \in memory /\ d.seq \in Nat
          BY <1>5, <1>7, <4>1 DEF Events
        <4>3. b \in memory
          BY <2>2, <4>1, <4>2 DEF Server, Memory
        <4> QED
          BY <1>7, <1>8, <2>2, <4>1, <4>2, <4>3
      <3> QED
        BY <3>1, <3>2
    <2>3. \A d \in pending' : d.seq = sequence'
      BY <1>2, <1>4
    <2> QED
      BY <1>2, <2>1, <2>2, <2>3 DEF Memory
  <1>13. Disk'
    BY <1>2 DEF Server, Disk, Oversized, disk, Numbers
  <1>14. Journal'
    <2> SUFFICES ASSUME ~degraded'
                 PROVE  /\ torn' = 0 /\ latest' = Handed' /\ lines' \subseteq log'
                        /\ latest' > 0 => latest' \in Numbers(lines')
                        /\ \A d \in lines' : d.seq <= latest'
                        /\ \A f \in names' : /\ f <= latest'
                                             /\ \A d \in log' : f <= d.seq /\ d.seq <= latest'
                                                                  => d \in lines'
      BY DEF Journal
    <2>1. /\ torn = 0 /\ latest = sequence /\ lines \subseteq log
          /\ latest > 0 => latest \in Numbers(lines)
          /\ \A d \in lines : d.seq <= latest
          /\ \A f \in names : /\ f <= latest
                              /\ \A d \in log : f <= d.seq /\ d.seq <= latest => d \in lines
      BY <1>2 DEF Server, Journal, Handed
    <2>2. Handed' = sequence
      BY <1>2, <1>3 DEF Handed
    <2>3. Numbers(lines') = Numbers(lines)
      BY <1>2 DEF disk, Numbers
    <2>4. /\ torn' = torn /\ latest' = latest /\ names' = names /\ lines' = lines
      BY <1>2 DEF disk
    <2>5. ~(e.seq <= latest)
      BY <1>3, <1>4, <2>1
    <2> QED
      BY <1>2, <2>1, <2>2, <2>3, <2>4, <2>5
  <1> QED
    BY <1>9, <1>10, <1>11, <1>12, <1>13, <1>14, TypesPrimed DEF Server

LEMMA JournalAppendServer ==
  ASSUME Server, JournalAppend
  PROVE  Server'
  <1>1. ProcessTypes /\ DiskTypes /\ ClientTypes
    BY ServerParts
  <1>2. PICK e \in pending :
          IF degraded
            THEN UNCHANGED <<disk, latest>>
            ELSE /\ Admits(e)
                 /\ Keep(Rotated(e), lines \cup {e}, Start(Rotated(e), lines \cup {e}))
                 /\ latest' = e.seq /\ UNCHANGED torn
    BY DEF JournalAppend
  <1>3. /\ up /\ pending' = {}
        /\ UNCHANGED <<up, instance, memory, sequence, degraded, log, clients, counters>>
    BY DEF JournalAppend
  <1>4. CASE degraded
    <2>1. UNCHANGED <<disk, latest>>
      BY <1>2, <1>4
    <2>2. ProcessTypes' /\ DiskTypes' /\ ClientTypes'
      BY <1>1, <1>3, <2>1, ClientTypesKept DEF ProcessTypes, DiskTypes, disk, counters
    <2>3. Numbering' /\ Memory'
      BY <1>3, <2>1 DEF Server, Numbering, Memory, disk, counters
    <2>4. Disk' /\ Journal'
      BY <1>3, <1>4, <2>1 DEF Server, Disk, Oversized, Journal, disk, counters, Numbers
    <2> QED
      BY <2>2, <2>3, <2>4, TypesPrimed DEF Server
  <1>5. CASE ~degraded
    <2>1. /\ Keep(Rotated(e), lines \cup {e}, Start(Rotated(e), lines \cup {e}))
          /\ latest' = e.seq /\ UNCHANGED torn
      BY <1>2, <1>5
    <2>2. /\ e.seq = sequence /\ e \in Events
      BY <1>3, <1>5, AppendingIs
    <2>3. /\ PartlyAppended(e) /\ torn' = 0 /\ lines' \subseteq log
          /\ e \in lines' /\ \A d \in lines' : d.seq <= e.seq
          /\ \A f \in names' : f <= e.seq /\ \A d \in log : f <= d.seq => d \in lines'
      BY <1>2, <1>3, <1>5, <2>1, AppendedIs
    <2>4. /\ names' \subseteq 1 .. MaxEvents /\ lines' \subseteq Events
          /\ bad' \subseteq names' /\ torn' \in 0 .. MaxEvents
          /\ lines' \subseteq lines \cup {e} /\ bad' \subseteq bad
          /\ \A d, b \in lines' : d.seq = b.seq => d = b
          /\ \A d, b \in lines' : d.seq .. b.seq \subseteq Numbers(lines')
          /\ \A d \in lines' : \E f \in names' : f <= d.seq
          /\ torn' # 0 => \A f \in names' : f <= torn'
      BY <1>3, <1>5, <2>3, PartlyAppendedIs
    <2>5. ProcessTypes' /\ DiskTypes' /\ ClientTypes'
      BY <1>1, <1>3, <2>1, <2>2, <2>4, ClientTypesKept DEF ProcessTypes, DiskTypes, counters
    <2>6. Numbering'
      <3>1. \A d \in lines' : d.seq <= written'
        BY <1>1, <1>3, <2>2, <2>4 DEF Server, Numbering, ProcessTypes, DiskTypes, Events, counters
      <3> QED
        BY <1>3, <3>1 DEF Server, Numbering, counters
    <2>7. Memory'
      BY <1>3 DEF Server, Memory
    <2>8. Disk'
      BY <1>3, <1>5, <2>4 DEF Server, Disk, counters
    <2>9. Journal'
      <3>1. Handed' = sequence /\ latest' = sequence
        BY <1>3, <2>1, <2>2 DEF Handed
      <3>2. latest' \in Numbers(lines')
        BY <2>1, <2>3 DEF Numbers
      <3>3. \A f \in names' : /\ f <= latest'
                              /\ \A d \in log' : f <= d.seq /\ d.seq <= latest' => d \in lines'
        BY <1>3, <2>1, <2>3
      <3> QED
        BY <1>3, <2>1, <2>3, <3>1, <3>2, <3>3 DEF Journal
    <2> QED
      BY <2>5, <2>6, <2>7, <2>8, <2>9, TypesPrimed DEF Server
  <1> QED
    BY <1>4, <1>5

LEMMA AppendFailsServer ==
  ASSUME Server, AppendFails
  PROVE  Server'
  <1>1. ProcessTypes /\ DiskTypes /\ ClientTypes
    BY ServerParts
  <1>2. /\ up /\ ~degraded /\ degraded' = TRUE /\ pending' = {}
        /\ UNCHANGED <<up, instance, memory, sequence, latest, log, clients, written, crashes>>
    BY DEF AppendFails
  <1>3. PICK e \in pending :
          IF Admits(e)
            THEN faults < MaxFaults /\ faults' = faults + 1 /\ PartlyAppended(e)
            ELSE UNCHANGED <<disk, faults>>
    BY DEF AppendFails
  <1>4. e.seq = sequence /\ e \in Events /\ latest = sequence - 1
    BY <1>2, AppendingIs
  <1>5. /\ PartlyAppended(e) /\ faults' \in 0 .. MaxFaults
        /\ faults' = 0 => faults = 0 /\ ~Admits(e)
    <2>1. faults \in 0 .. MaxFaults /\ MaxFaults \in Nat
      BY <1>1, StreamAssumption DEF ProcessTypes
    <2>2. CASE Admits(e)
      <3>1. faults < MaxFaults /\ faults' = faults + 1 /\ PartlyAppended(e)
        BY <1>3, <2>2
      <3> QED
        BY <2>1, <3>1
    <2>3. CASE ~Admits(e)
      <3>1. UNCHANGED disk /\ faults' = faults
        BY <1>3, <2>3
      <3> QED
        BY <2>1, <2>3, <3>1 DEF PartlyAppended
    <2> QED
      BY <2>2, <2>3
  <1>6. /\ names' \subseteq 1 .. MaxEvents /\ lines' \subseteq Events
        /\ bad' \subseteq names' /\ torn' \in 0 .. MaxEvents
        /\ lines' \subseteq lines \cup {e} /\ bad' \subseteq bad
        /\ \A d, b \in lines' : d.seq = b.seq => d = b
        /\ \A d, b \in lines' : d.seq .. b.seq \subseteq Numbers(lines')
        /\ \A d \in lines' : \E f \in names' : f <= d.seq
        /\ torn' # 0 => \A f \in names' : f <= torn'
    BY <1>2, <1>5, PartlyAppendedIs
  <1>7. faults' = 0 => bad' = {} /\ Oversized'
    <2>1. e \in log'
      BY <1>2 DEF Server, Memory
    <2>2. ~Admits(e) => ~(Size[e.kind] <= SegmentBytes)
      BY <1>1, <1>4 DEF Admits, ProcessTypes
    <2> QED
      BY <1>5, <1>6, <2>1, <2>2 DEF Server, Disk, Oversized
  <1>8. ProcessTypes' /\ DiskTypes' /\ ClientTypes'
    BY <1>1, <1>2, <1>5, <1>6, ClientTypesKept DEF ProcessTypes, DiskTypes
  <1>9. Numbering'
    <2>1. \A d \in lines' : d.seq <= written'
      BY <1>1, <1>2, <1>4, <1>6 DEF Server, Numbering, ProcessTypes, DiskTypes, Events
    <2> QED
      BY <1>2, <2>1 DEF Server, Numbering
  <1>10. Memory'
    BY <1>2 DEF Server, Memory
  <1>11. Disk'
    BY <1>6, <1>7 DEF Disk
  <1>12. Journal'
    BY <1>2 DEF Journal
  <1> QED
    BY <1>8, <1>9, <1>10, <1>11, <1>12, TypesPrimed DEF Server

LEMMA DamageServer ==
  ASSUME Server, Damage
  PROVE  Server'
  <1>1. ProcessTypes /\ DiskTypes /\ ClientTypes
    BY ServerParts
  <1>2. /\ faults < MaxFaults /\ faults' = faults + 1
        /\ UNCHANGED <<process, names, lines, torn, clients, written, crashes>>
    BY DEF Damage
  <1>3. PICK f \in names : bad' = bad \cup {f}
    BY DEF Damage
  <1>4. faults' \in 0 .. MaxFaults /\ faults' # 0
    BY <1>1, <1>2, StreamAssumption DEF ProcessTypes
  <1>5. ProcessTypes' /\ DiskTypes' /\ ClientTypes'
    <2>1. bad' \subseteq names'
      BY <1>1, <1>2, <1>3 DEF DiskTypes
    <2> QED
      BY <1>1, <1>2, <1>4, <2>1, ClientTypesKept DEF ProcessTypes, DiskTypes, process
  <1>6. Numbering' /\ Memory' /\ Journal'
    BY <1>2 DEF Server, Numbering, Memory, Journal, Handed, process, Numbers
  <1>7. Disk'
    BY <1>2, <1>4 DEF Server, Disk, process, Numbers
  <1> QED
    BY <1>5, <1>6, <1>7, TypesPrimed DEF Server

LEMMA CrashServer ==
  ASSUME Server, Crash
  PROVE  Server'
  <1>1. ProcessTypes /\ DiskTypes /\ ClientTypes
    BY ServerParts
  <1>2. /\ up /\ crashes < MaxCrashes /\ crashes' = crashes + 1
        /\ up' = FALSE /\ memory' = {} /\ pending' = {}
        /\ pc' = [c \in Clients |-> "idle"] /\ page' = [c \in Clients |-> NoPage]
        /\ UNCHANGED <<instance, sequence, latest, degraded, log, cursor, known, since,
                       delivered, lost, written, faults>>
    BY DEF Crash
  <1>3. UNCHANGED disk \/ (~degraded /\ \E e \in pending : PartlyAppended(e))
    BY DEF Crash
  <1>4. /\ names' \subseteq 1 .. MaxEvents /\ lines' \subseteq Events
        /\ bad' \subseteq names' /\ torn' \in 0 .. MaxEvents
        /\ bad' \subseteq bad
        /\ \A d, b \in lines' : d.seq = b.seq => d = b
        /\ \A d, b \in lines' : d.seq .. b.seq \subseteq Numbers(lines')
        /\ \A d \in lines' : \E f \in names' : f <= d.seq
        /\ torn' # 0 => \A f \in names' : f <= torn'
        /\ \A d \in lines' : d.seq <= written
    <2>1. CASE UNCHANGED disk
      BY <1>1, <2>1 DEF disk, DiskTypes, Server, Disk, Numbers, Numbering
    <2>2. ASSUME ~degraded, NEW e \in pending, PartlyAppended(e)
          PROVE  /\ names' \subseteq 1 .. MaxEvents /\ lines' \subseteq Events
                 /\ bad' \subseteq names' /\ torn' \in 0 .. MaxEvents
                 /\ lines' \subseteq lines \cup {e} /\ bad' \subseteq bad
                 /\ \A d, b \in lines' : d.seq = b.seq => d = b
                 /\ \A d, b \in lines' : d.seq .. b.seq \subseteq Numbers(lines')
                 /\ \A d \in lines' : \E f \in names' : f <= d.seq
                 /\ torn' # 0 => \A f \in names' : f <= torn'
                 /\ e.seq <= written
      <3>1. e.seq <= written
        BY DEF Server, Memory, Numbering
      <3> QED
        BY <1>2, <2>2, <3>1, PartlyAppendedIs
    <2>3. CASE ~degraded /\ \E e \in pending : PartlyAppended(e)
      <3>1. \A d \in lines : d.seq <= written
        BY DEF Server, Numbering
      <3> QED
        BY <2>2, <2>3, <3>1
    <2> QED
      BY <1>3, <2>1, <2>3
  <1>5. ProcessTypes' /\ DiskTypes' /\ ClientTypes'
    <2>1. ProcessTypes'
      <3>1. crashes' \in 0 .. MaxCrashes
        BY <1>1, <1>2, StreamAssumption DEF ProcessTypes
      <3> QED
        BY <1>1, <1>2, <3>1 DEF ProcessTypes
    <2>2. DiskTypes'
      BY <1>4 DEF DiskTypes
    <2>3. NoPage \in Pages
      BY StreamAssumption DEF NoPage, Pages
    <2>4. ClientTypes'
      BY <1>1, <1>2, <2>3 DEF ClientTypes
    <2> QED
      BY <2>1, <2>2, <2>4
  <1>6. Numbering'
    <2>1. instance' = crashes' + (IF up' THEN 1 ELSE 0)
      BY <1>1, <1>2 DEF Server, Numbering, ProcessTypes
    <2> QED
      BY <1>2, <1>4, <2>1 DEF Server, Numbering
  <1>7. Memory' /\ Journal'
    BY <1>2 DEF Memory, Journal
  <1>8. Disk'
    <2>1. faults' = 0 => bad' = {} /\ (degraded' => Oversized')
      BY <1>2, <1>4 DEF Server, Disk, Oversized
    <2> QED
      BY <1>4, <2>1 DEF Disk
  <1> QED
    BY <1>5, <1>6, <1>7, <1>8, TypesPrimed DEF Server

\* A new process on a journal that it could open: it numbers from the end.
LEMMA OpenedServer ==
  ASSUME Server, NEW failed \in BOOLEAN, Open(LastOnDisk, failed), torn' = 0, NEW f,
         Healed # {} => f \in {0} \cup Healed, Keep(Healed, lines, f),
         faults' \in 0 .. MaxFaults, faults <= faults', failed => faults' # 0
  PROVE  Server'
  <1>1. /\ ProcessTypes /\ DiskTypes /\ ClientTypes
        /\ \A d, b \in lines : d.seq = b.seq => d = b
        /\ faults = 0 => bad = {}
    BY ServerParts DEF Server, Disk
  <1>2. /\ ~up /\ up' = TRUE /\ instance' = instance + 1
        /\ sequence' = LastOnDisk /\ latest' = LastOnDisk /\ degraded' = failed
        /\ log' = UpTo(lines, LastOnDisk)
        /\ UNCHANGED <<memory, pending, clients, written, crashes>>
    BY DEF Open
  <1>3. /\ names' \subseteq 1 .. MaxEvents /\ lines' \subseteq lines
        /\ bad' \subseteq names' /\ bad' \subseteq bad
        /\ \A d, b \in lines' : d.seq = b.seq => d = b
        /\ \A d, b \in lines' : d.seq .. b.seq \subseteq Numbers(lines')
        /\ \A d \in lines' : \E g \in names' : g <= d.seq
        /\ \A g \in names' : \E d \in lines : g <= d.seq
        /\ \A g \in names' : \A d \in lines : g <= d.seq => d \in lines'
        /\ \A d \in lines : (\A b \in lines : b.seq <= d.seq) => d \in lines'
    BY OpeningIs
  <1>4. /\ LastOnDisk \in 0 .. MaxEvents
        /\ \A e \in lines : e.seq <= LastOnDisk
        /\ LastOnDisk # 0 => LastOnDisk \in Numbers(lines)
        /\ log' = lines
    BY <1>2, LastIs, ServerParts
  <1>5. memory' = {} /\ pending' = {}
    BY <1>2 DEF Server, Memory
  <1>6. /\ instance = crashes /\ \A e \in lines : e.seq <= written
        /\ written \in 0 .. MaxEvents
    BY <1>1, <1>2 DEF Server, Numbering, ProcessTypes
  <1>7. ProcessTypes'
    <2>1. instance' \in 1 .. MaxCrashes + 1
      BY <1>1, <1>2, <1>6, StreamAssumption DEF ProcessTypes
    <2>2. log' \subseteq Events
      BY <1>1, <1>4 DEF DiskTypes
    <2> QED
      BY <1>1, <1>2, <1>4, <1>5, <2>1, <2>2 DEF ProcessTypes
  <1>8. DiskTypes' /\ ClientTypes'
    <2>1. 0 \in 0 .. MaxEvents
      BY StreamAssumption
    <2> QED
      BY <1>1, <1>2, <1>3, <2>1, ClientTypesKept DEF DiskTypes
  <1>9. Numbering'
    <2>1. LastOnDisk <= written
      BY <1>4, <1>6 DEF Numbers
    <2>2. instance' = crashes' + (IF up' THEN 1 ELSE 0)
      BY <1>2, <1>6
    <2> QED
      BY <1>1, <1>2, <1>3, <1>4, <1>6, <2>1, <2>2 DEF Numbering
  <1>10. Memory'
    BY <1>5 DEF Memory
  <1>11. Disk'
    <2>1. faults' = 0 => bad' = {} /\ ~degraded'
      BY <1>1, <1>2, <1>3 DEF ProcessTypes
    <2>2. torn' # 0 => \A g \in names' : g <= torn'
      OBVIOUS
    <2> QED
      BY <1>3, <2>1, <2>2 DEF Disk
  <1>12. Journal'
    <2>1. latest' = Handed'
      BY <1>2, <1>5 DEF Handed
    <2>2. latest' > 0 => latest' \in Numbers(lines')
      BY <1>2, <1>3, <1>4 DEF Numbers
    <2>3. \A e \in lines' : e.seq <= latest'
      BY <1>2, <1>3, <1>4
    <2>4. ASSUME NEW g \in names' PROVE g <= latest'
      <3>1. PICK d \in lines : g <= d.seq
        BY <1>3
      <3>2. g \in Nat /\ d.seq \in Nat /\ d.seq <= LastOnDisk
        BY <1>1, <1>3, <1>4 DEF DiskTypes, Events
      <3> QED
        BY <1>2, <1>4, <3>1, <3>2
    <2> QED
      BY <1>3, <1>4, <2>1, <2>2, <2>3, <2>4 DEF Journal
  <1> QED
    BY <1>7, <1>8, <1>9, <1>10, <1>11, <1>12, TypesPrimed DEF Server

\* A new process that could not: its numbers begin at zero, its journal is idle.
LEMMA UnopenedServer ==
  ASSUME Server, Open(0, TRUE), UNCHANGED disk,
         faults' \in 1 .. MaxFaults, faults <= faults'
  PROVE  Server'
  <1>1. ProcessTypes /\ DiskTypes /\ ClientTypes
    BY ServerParts
  <1>2. /\ ~up /\ up' = TRUE /\ instance' = instance + 1
        /\ sequence' = 0 /\ latest' = 0 /\ degraded' = TRUE
        /\ log' = UpTo(lines, 0)
        /\ UNCHANGED <<memory, pending, clients, written, crashes>>
    BY DEF Open
  <1>3. log' = {}
    BY <1>1, <1>2 DEF UpTo, DiskTypes, Events
  <1>4. memory' = {} /\ pending' = {}
    BY <1>2 DEF Server, Memory
  <1>5. instance = crashes /\ written \in 0 .. MaxEvents
    BY <1>1, <1>2 DEF Server, Numbering, ProcessTypes
  <1>6. ProcessTypes'
    <2>1. instance' \in 1 .. MaxCrashes + 1 /\ faults' \in 0 .. MaxFaults
      BY <1>1, <1>2, <1>5, StreamAssumption DEF ProcessTypes
    <2>2. 0 \in 0 .. MaxEvents
      BY StreamAssumption
    <2> QED
      BY <1>1, <1>2, <1>3, <1>4, <2>1, <2>2 DEF ProcessTypes
  <1>7. DiskTypes' /\ ClientTypes'
    BY <1>1, <1>2, ClientTypesKept DEF DiskTypes, disk
  <1>8. Numbering' /\ Memory'
    BY <1>2, <1>3, <1>4, <1>5 DEF Server, Numbering, Memory, disk
  <1>9. Disk' /\ Journal'
    <2>1. faults' # 0
      BY StreamAssumption
    <2> QED
      BY <1>2, <2>1 DEF Server, Disk, Journal, disk, Numbers
  <1> QED
    BY <1>6, <1>7, <1>8, <1>9, TypesPrimed DEF Server

LEMMA OpensServer ==
  ASSUME Server, OpenJournal \/ OpenUnreadable \/ OpenFails
  PROVE  Server'
  <1>1. /\ faults \in 0 .. MaxFaults /\ names \subseteq 1 .. MaxEvents
        /\ Healed \subseteq names
    BY ServerParts, HealedIs DEF ProcessTypes, DiskTypes, Server
  <1>2. Healed # {} => Start(Healed, lines) \in {0} \cup Healed
    <2>1. Healed \subseteq 1 .. MaxEvents
      BY <1>1
    <2> QED
      BY <2>1, StartIs
  <1>3. CASE OpenJournal
    <2>1. /\ Open(LastOnDisk, FALSE) /\ torn' = 0 /\ UNCHANGED faults
          /\ Keep(Healed, lines, Start(Healed, lines))
      BY <1>3 DEF OpenJournal
    <2>2. faults' \in 0 .. MaxFaults /\ faults <= faults'
      BY <1>1, <2>1
    <2> QED
      BY <1>2, <2>1, <2>2, OpenedServer
  <1>4. CASE OpenUnreadable
    <2>1. Open(0, TRUE) /\ UNCHANGED disk /\ UNCHANGED faults /\ faults # 0
      BY <1>4, ReadableIs DEF OpenUnreadable
    <2>2. faults' \in 1 .. MaxFaults /\ faults <= faults'
      BY <1>1, <2>1, StreamAssumption
    <2> QED
      BY <2>1, <2>2, UnopenedServer
  <1>5. CASE OpenFails
    <2>1. faults' \in 1 .. MaxFaults /\ faults <= faults'
      BY <1>1, <1>5, StreamAssumption DEF OpenFails
    <2>2. CASE Open(0, TRUE) /\ UNCHANGED disk
      BY <2>1, <2>2, UnopenedServer
    <2>3. CASE /\ Open(LastOnDisk, TRUE) /\ torn' = 0
               /\ \E f \in {0} \cup {g \in Healed : g <= Start(Healed, lines)} :
                    Keep(Healed, lines, f)
      <3>1. PICK f \in {0} \cup {g \in Healed : g <= Start(Healed, lines)} :
              Keep(Healed, lines, f)
        BY <2>3
      <3>2. f \in {0} \cup Healed
        BY <3>1
      <3>3. faults' \in 0 .. MaxFaults /\ faults' # 0
        BY <2>1, StreamAssumption
      <3> QED
        BY <2>1, <2>3, <3>1, <3>2, <3>3, OpenedServer
    <2> QED
      BY <1>5, <2>2, <2>3 DEF OpenFails
  <1> QED
    BY <1>3, <1>4, <1>5

\* What a client does changes nothing of the server, but a broken segment that
\* its page meets degrades the journal.
LEMMA ReplayServer ==
  ASSUME Server, NEW c \in Clients, Replay(c), ClientTypes'
  PROVE  /\ Server' /\ up' = up /\ instance' = instance /\ memory' = memory
         /\ sequence' = sequence /\ pending' = pending /\ log' = log /\ lines' = lines
         /\ degraded => degraded'
  <1>1. ProcessTypes /\ DiskTypes /\ ClientTypes
    BY ServerParts
  <1>2. /\ UNCHANGED <<up, instance, memory, sequence, pending, latest, log, disk, counters>>
        /\ degraded' = degraded \/ (~degraded /\ degraded' \in BOOLEAN /\ (degraded' => bad # {}))
    <2>1. CASE Read(c)
      <3> DEFINE p == page[c]
                 through == Min({p.upper, Oldest(p) - 1})
                 found == JournalPage(p.after, through)
      <3>1. /\ UNCHANGED <<up, instance, memory, sequence, pending, latest, log, disk, counters>>
            /\ IF degraded THEN UNCHANGED degraded ELSE degraded' = found.broken
        BY <2>1 DEF Read
      <3>2. found.broken = (/\ ~found.full
                            /\ ~\E e \in {b \in lines : b.seq > p.after /\
                                  \A f \in Damaged(p.after) : b.seq < f} : e.seq > through
                            /\ Damaged(p.after) # {})
        BY DEF JournalPage
      <3>3. Damaged(p.after) \subseteq bad
        BY DEF Damaged
      <3> HIDE DEF found, through
      <3> QED
        BY <3>1, <3>2, <3>3
    <2>2. CASE Snapshot(c) \/ Look(c) \/ Check(c) \/ Finish(c)
      BY <2>2 DEF Snapshot, Look, Check, Finish, process
    <2> QED
      BY <2>1, <2>2 DEF Replay
  <1>3. ProcessTypes' /\ DiskTypes'
    BY <1>1, <1>2 DEF ProcessTypes, DiskTypes, disk, counters
  <1>4. Numbering' /\ Memory'
    BY <1>2 DEF Server, Numbering, Memory, disk, counters
  <1>5. Disk' /\ Journal'
    <2>1. /\ (faults = 0 => bad = {} /\ (degraded => Oversized))'
          /\ (~degraded' => ~degraded)
      BY <1>1, <1>2 DEF Server, Disk, Oversized, disk, counters, ProcessTypes
    <2>2. Disk'
      BY <1>2, <2>1 DEF Server, Disk, disk, Numbers
    <2>3. Journal'
      BY <1>2, <2>1 DEF Server, Journal, disk, Numbers, Handed
    <2> QED
      BY <2>2, <2>3
  <1> QED
    BY <1>2, <1>3, <1>4, <1>5, TypesPrimed DEF Server, disk

(***************************************************************************)
(* The clients: what the server does leaves their pages as they were.      *)
(***************************************************************************)
Onward ==
  /\ up' = up /\ instance' = instance /\ sequence <= sequence' /\ log \subseteq log'
  /\ \A e \in log' : e \in log \/ e.seq > sequence
  /\ \A e \in memory' \cup pending' : e \in memory \cup pending \/ e.seq > sequence
  /\ degraded => degraded'
  /\ ~degraded' => lines' \subseteq lines \cup pending

\* Client c has and is making the same page as before.
Same(c) ==
  /\ pc'[c] = pc[c] /\ page'[c] = page[c] /\ cursor'[c] = cursor[c]
  /\ known'[c] = known[c] /\ since'[c] = since[c] /\ delivered'[c] = delivered[c]
  /\ lost'[c] = lost[c]

LEMMA ServerPartsPrimed ==
  ASSUME Server'
  PROVE  TypeOK' /\ ProcessTypes' /\ DiskTypes' /\ ClientTypes'
  BY TypesPrimed DEF Server

LEMMA ClientIs ==
  ASSUME ClientTypes, NEW c \in Clients
  PROVE  /\ pc[c] \in {"idle", "look", "check", "read", "finish"} /\ page[c] \in Pages
         /\ cursor[c] \in 0..MaxEvents /\ known[c] \in 0..MaxCrashes + 1
         /\ since[c] \in 0..MaxEvents
         /\ delivered[c] \in Seq(SUBSET Events) /\ lost[c] \in SUBSET (1..MaxEvents)
  BY DEF ClientTypes

\* Without a new page a client keeps what it has.
LEMMA OnwardGave ==
  ASSUME Server, Server', Onward, NEW c \in Clients, Gave(c),
         cursor'[c] = cursor[c], known'[c] = known[c], since'[c] = since[c],
         delivered'[c] = delivered[c], lost'[c] = lost[c]
  PROVE  Gave(c)'
  <1>1. /\ ProcessTypes /\ ClientTypes
        /\ cursor[c] \in 0..MaxEvents /\ known[c] \in 0..MaxCrashes + 1
    BY ServerParts, ClientIs
  <1>2. /\ instance' = instance /\ sequence <= sequence' /\ log \subseteq log'
        /\ \A e \in log' : e \in log \/ e.seq > sequence
        /\ sequence \in 0..MaxEvents /\ sequence' \in 0..MaxEvents /\ log' \subseteq Events
    BY <1>1, ServerPartsPrimed DEF Onward, ProcessTypes
  <1>3. Received(c)' = Received(c)
    BY DEF Received
  <1>4. ASSUME known[c] \in {0, instance} PROVE cursor[c] <= sequence
    BY <1>1, <1>2, <1>4 DEF Gave
  <1>5. ASSUME known[c] \in {0, instance}, NEW e \in Awaited(c)' PROVE e \in Awaited(c)
    <2>1. /\ e \in log' /\ Visible(e) /\ e.seq > since[c] /\ e.seq <= cursor[c]
      BY <1>5 DEF Awaited, Visible
    <2>2. ~(e.seq > sequence)
      <3>1. cursor[c] <= sequence
        BY <1>4, <1>5
      <3>2. e.seq \in Nat
        BY <1>2, <2>1 DEF Events
      <3> QED
        BY <1>1, <1>2, <2>1, <3>1, <3>2
    <2>3. e \in log
      BY <1>2, <2>1, <2>2
    <2> QED
      BY <2>1, <2>3 DEF Awaited
  <1>6. /\ known'[c] <= instance'
        /\ known'[c] = 0 => cursor'[c] = 0 /\ delivered'[c] = <<>>
        /\ known'[c] = instance' => cursor'[c] <= sequence'
    BY <1>1, <1>2 DEF Gave
  <1>7. ASSUME known'[c] \in {0, instance'}
        PROVE  /\ \A i \in DOMAIN delivered'[c] : \A e \in delivered'[c][i] :
                    e \in log' /\ e.seq <= cursor'[c]
               /\ \A i, j \in DOMAIN delivered'[c] : i < j =>
                    \A d \in delivered'[c][i], e \in delivered'[c][j] : d.seq < e.seq
               /\ \A e \in Awaited(c)' : e \in Received(c)' \/ e.seq \in lost'[c]
    BY <1>2, <1>3, <1>5, <1>7 DEF Gave
  <1> QED
    BY <1>6, <1>7 DEF Gave

\* What is gone stays gone.
LEMMA OnwardGone ==
  ASSUME Server, Onward, NEW c \in Clients, page[c] \in Pages, Copy(c),
         page'[c] = page[c], NEW e \in log, Gone(c, e)
  PROVE  Gone(c, e)'
  <1>1. /\ e.seq \in page[c].kept /\ e.seq < Oldest(page[c])
        /\ degraded \/ e.seq \notin Numbers(lines)
    BY DEF Gone
  <1>2. \A d \in pending : Oldest(page[c]) <= d.seq /\ d.seq \in Nat
    BY ServerParts DEF Copy, ProcessTypes, Events
  <1>3. Oldest(page[c]) \in Nat /\ e.seq \in Nat
    BY OldestIs, ServerParts, StreamAssumption DEF ProcessTypes, Events
  <1>4. degraded' \/ e.seq \notin Numbers(lines')
    <2>1. CASE degraded
      BY <2>1 DEF Onward
    <2>2. CASE ~degraded /\ ~degraded'
      <3>1. e.seq \notin Numbers(lines) /\ lines' \subseteq lines \cup pending
        BY <1>1, <2>2 DEF Onward
      <3>2. \A d \in pending : d.seq # e.seq
        BY <1>1, <1>2, <1>3
      <3> QED
        BY <3>1, <3>2 DEF Numbers
    <2> QED
      BY <2>1, <2>2
  <1> QED
    BY <1>1, <1>4 DEF Gone

LEMMA OnwardCopy ==
  ASSUME Server, Server', Onward, NEW c \in Clients, page[c] \in Pages, Copy(c),
         page'[c] = page[c], known'[c] = known[c], cursor'[c] = cursor[c]
  PROVE  Copy(c)'
  <1> DEFINE p == page[c]
  <1>1. /\ sequence \in 0 .. MaxEvents /\ sequence' \in 0 .. MaxEvents
        /\ log \subseteq Events /\ log' \subseteq Events
        /\ pending \subseteq log /\ p.upper \in 0 .. MaxEvents
        /\ memory' \cup pending' \subseteq Events
    BY ServerParts, ServerPartsPrimed DEF ProcessTypes, Server, Memory, Pages
  <1>2. /\ Oldest(p) \in 1 .. MaxEvents + 1 /\ (p.memory = {} => Oldest(p) = p.upper + 1)
        /\ p.memory # {} => Oldest(p) \in Numbers(p.memory)
    BY OldestIs
  <1>3. /\ p.upper <= sequence /\ p.after <= p.upper /\ p.memory \subseteq log
        /\ \A e \in p.memory : e.seq <= p.upper /\ e.seq \in p.kept
        /\ \A e \in log : e.seq <= p.upper /\ Oldest(p) <= e.seq => e \in p.memory
        /\ \A e \in memory \cup pending : Oldest(p) <= e.seq
        /\ ~degraded => \A e \in lines : e.seq <= p.upper => e.seq \in p.kept
        /\ ~p.gap => known[c] \in {0, instance} /\ p.after = cursor[c]
    BY DEF Copy
  <1>4. Oldest(p) <= p.upper + 1
    BY <1>1, <1>2, <1>3 DEF Numbers
  <1>5. ASSUME NEW e \in log', e.seq <= p.upper PROVE e \in log
    BY <1>1, <1>3, <1>5 DEF Onward, Events
  <1>6. ASSUME NEW e \in memory' \cup pending' PROVE Oldest(p) <= e.seq
    <2>1. CASE e \in memory \cup pending
      BY <1>3, <2>1
    <2>2. CASE e.seq > sequence
      BY <1>1, <1>2, <1>3, <1>4, <2>2 DEF Events
    <2> QED
      BY <2>1, <2>2 DEF Onward
  <1>7. ASSUME ~degraded', NEW e \in lines', e.seq <= p.upper PROVE e.seq \in p.kept
    <2>1. ~degraded /\ e \in lines \cup pending
      BY <1>7 DEF Onward
    <2>2. CASE e \in lines
      BY <1>3, <1>7, <2>1, <2>2
    <2>3. CASE e \in pending
      BY <1>1, <1>3, <1>7, <2>3
    <2> QED
      BY <2>1, <2>2, <2>3
  <1>8. p.upper <= sequence' /\ p.memory \subseteq log' /\ instance' = instance
    BY <1>1, <1>3 DEF Onward
  <1>9. page'[c] = p
    OBVIOUS
  <1> HIDE DEF p
  <1> QED
    BY <1>3, <1>5, <1>6, <1>7, <1>8, <1>9 DEF Copy

LEMMA OnwardPage ==
  ASSUME Server, Server', Onward, NEW c \in Clients, PageInv(c), Same(c)
  PROVE  PageInv(c)'
  <1> DEFINE p == page[c]
  <1> SUFFICES ASSUME pc[c] # "idle"
               PROVE  up' /\ Copy(c)' /\ Progress(c)' /\ (pc[c] # "look" => Reaches(c)')
    BY DEF PageInv, Same
  <1>1. /\ up /\ Copy(c) /\ Progress(c) /\ (pc[c] # "look" => Reaches(c))
    BY DEF PageInv
  <1>2. /\ page[c] \in Pages /\ page'[c] = page[c] /\ pc'[c] = pc[c]
        /\ known'[c] = known[c] /\ cursor'[c] = cursor[c]
    BY ServerParts, ClientIs DEF Same
  <1>3. Copy(c)'
    BY <1>1, <1>2, OnwardCopy
  <1>4. /\ sequence \in 0 .. MaxEvents /\ p.upper \in 0 .. MaxEvents
        /\ p.scanned \in 0 .. MaxEvents
        /\ log' \subseteq Events /\ p.upper <= sequence
        /\ \A e \in p.memory : e.seq <= p.upper
    BY <1>1, <1>2, ServerParts, ServerPartsPrimed DEF ProcessTypes, Copy, Pages
  <1>5. ASSUME NEW e \in log', e.seq <= p.upper PROVE e \in log
    BY <1>4, <1>5 DEF Onward, Events
  <1>6. pc[c] # "look" => Reaches(c)'
    BY <1>1, <1>2, <1>5 DEF Reaches
  <1>7. Oldest(p) - 1 \in Int /\ Oldest(p) - 1 <= p.upper
    <2>1. /\ Oldest(p) \in 1 .. MaxEvents + 1 /\ (p.memory = {} => Oldest(p) = p.upper + 1)
          /\ p.memory # {} => Oldest(p) \in Numbers(p.memory)
      BY <1>2, OldestIs
    <2> QED
      BY <1>4, <2>1 DEF Numbers
  <1>8. ASSUME Covers(c, Oldest(p) - 1) PROVE Covers(c, Oldest(p) - 1)'
    <2> DEFINE n == Oldest(p) - 1
    <2>1. n \in Int /\ n <= p.upper /\ Covers(c, n)
      BY <1>7, <1>8
    <2>2. n' = n
      BY <1>2
    <2> HIDE DEF n
    <2>3. ASSUME NEW e \in log', e.seq <= n PROVE e \in log
      BY <1>4, <2>1, <2>3 DEF Onward, Events
    <2>4. \A e \in log' : Visible(e) /\ page'[c].after < e.seq /\ e.seq <= n
                            => e \in page'[c].events \/ Gone(c, e)'
      BY <1>1, <1>2, <2>1, <2>3, OnwardGone DEF Covers
    <2> QED
      BY <2>2, <2>4 DEF Covers, n
  <1>9. ASSUME pc[c] = "finish", ~p.gap
        PROVE  Covers(c, p.scanned)'
    <2>1. Covers(c, p.scanned) /\ p.scanned <= p.upper
      BY <1>1, <1>9 DEF Progress
    <2>3. ASSUME NEW e \in log', e.seq <= p.scanned PROVE e \in log
      BY <1>4, <1>5, <2>1, <2>3 DEF Events
    <2>4. \A e \in log' : Visible(e) /\ page'[c].after < e.seq /\ e.seq <= p.scanned
                            => e \in page'[c].events \/ Gone(c, e)'
      BY <1>1, <1>2, <2>1, <2>3, OnwardGone DEF Covers
    <2> QED
      BY <1>2, <2>4 DEF Covers
  <1>10. Progress(c)'
    <2>1. ASSUME pc[c] # "finish" PROVE p.events = {} /\ ~p.stopped /\ p.complete
      BY <1>1, <2>1 DEF Progress
    <2>2. ASSUME pc[c] = "read"
          PROVE  p.reading /\ p.scanned = p.after /\ p.after < Oldest(p) - 1
      BY <1>1, <2>2 DEF Progress
    <2>5. ASSUME pc[c] = "finish"
          PROVE  p.after <= p.scanned /\ p.scanned <= p.upper
      BY <1>1, <2>5 DEF Progress
    <2>3. ASSUME pc[c] = "finish", ~p.gap
          PROVE  /\ \A e \in p.events : /\ e \in log' /\ Visible(e)
                                        /\ p.after < e.seq /\ e.seq <= p.scanned
                 /\ p.complete \/ p.reading
      BY <1>1, <2>3 DEF Progress, Onward
    <2>4. ASSUME pc[c] = "finish", ~p.gap, ~p.stopped, p.complete, ~(p.reading /\ degraded')
          PROVE  Covers(c, Oldest(p) - 1)'
      BY <1>1, <1>8, <2>4 DEF Progress, Onward
    <2> QED
      BY <1>2, <1>9, <2>1, <2>2, <2>3, <2>4, <2>5 DEF Progress
  <1> QED
    BY <1>1, <1>3, <1>6, <1>10 DEF Onward

(***************************************************************************)
(* The clients: what they do themselves.                                   *)
(***************************************************************************)
LEMMA SnapshotPage ==
  ASSUME Server, NEW c \in Clients, Snapshot(c)
  PROVE  /\ page' \in [Clients -> Pages] /\ PageInv(c)'
         /\ \A d \in Clients \ {c} : page'[d] = page[d] /\ pc'[d] = pc[d]
  <1> DEFINE reset == known[c] \notin {0, instance}
             ahead == ~reset /\ cursor[c] > sequence
             q == [NoPage EXCEPT !.after = IF reset \/ ahead THEN 0 ELSE cursor[c],
                                 !.gap = reset \/ ahead,
                                 !.memory = memory, !.upper = sequence,
                                 !.kept = Retained]
  <1>1. /\ ProcessTypes /\ DiskTypes /\ ClientTypes
        /\ cursor[c] \in 0 .. MaxEvents
    BY ServerParts, ClientIs
  <1>2. /\ up /\ pc' = [pc EXCEPT ![c] = "look"] /\ page' = [page EXCEPT ![c] = q]
        /\ UNCHANGED <<process, disk, cursor, known, since, delivered, lost, counters>>
    BY DEF Snapshot
  <1>3. /\ pc'[c] = "look" /\ page'[c] = q
        /\ \A d \in Clients \ {c} : page'[d] = page[d] /\ pc'[d] = pc[d]
    BY <1>1, <1>2 DEF ClientTypes
  <1>4. /\ q.after = (IF reset \/ ahead THEN 0 ELSE cursor[c]) /\ q.gap = (reset \/ ahead)
        /\ q.memory = memory /\ q.upper = sequence /\ q.kept = Retained
        /\ q.events = {} /\ q.stopped = FALSE /\ q.complete = TRUE
    BY DEF NoPage
  <1>5. Retained \subseteq 1 .. MaxEvents
    BY <1>1 DEF Retained, Numbers, ProcessTypes, DiskTypes, Events
  <1>6. q \in Pages
    <2> DEFINE after == IF reset \/ ahead THEN 0 ELSE cursor[c]
               gap == reset \/ ahead
    <2>1. /\ after \in 0 .. MaxEvents /\ gap \in BOOLEAN /\ memory \in SUBSET Events
          /\ sequence \in 0 .. MaxEvents /\ Retained \in SUBSET (1 .. MaxEvents)
      BY <1>1, <1>5, StreamAssumption DEF ProcessTypes
    <2>2. q = [NoPage EXCEPT !.after = after, !.gap = gap, !.memory = memory,
                             !.upper = sequence, !.kept = Retained]
      OBVIOUS
    <2>3. NoPage \in Pages
      BY StreamAssumption DEF NoPage, Pages
    <2> HIDE DEF after, gap, q
    <2> QED
      BY <2>1, <2>2, <2>3 DEF Pages
  <1>7. q.after <= q.upper /\ (~q.gap => known[c] \in {0, instance} /\ q.after = cursor[c])
    <2>1. sequence \in Nat /\ cursor[c] \in Nat
      BY <1>1 DEF ProcessTypes
    <2> HIDE DEF q
    <2>2. CASE reset \/ ahead
      <3>1. q.after = 0 /\ q.gap /\ q.upper = sequence
        BY <1>4, <2>2
      <3> QED
        BY <2>1, <3>1
    <2>3. CASE ~reset /\ ~ahead
      BY <1>4, <2>1, <2>3
    <2> QED
      BY <2>2, <2>3
  <1> HIDE DEF q, reset, ahead
  <1>8. /\ Oldest(q) \in 1 .. MaxEvents + 1
        /\ \A e \in q.memory : Oldest(q) <= e.seq
        /\ q.memory = {} => Oldest(q) = q.upper + 1
        /\ q.memory # {} => Oldest(q) \in Numbers(q.memory)
    BY <1>6, OldestIs
  <1>9. /\ memory \subseteq log /\ pending \subseteq memory
        /\ \A e \in log : e.seq <= sequence /\ e \in Events
        /\ \A d \in memory, e \in log : d.seq <= e.seq => e \in memory
    BY <1>1 DEF Server, Memory, Numbering, ProcessTypes
  <1>10. \A e \in memory : e.seq <= sequence /\ e.seq \in Retained
    BY <1>9 DEF Retained, Numbers
  <1>11. ASSUME NEW e \in log, Oldest(q) <= e.seq PROVE e \in memory
    <2>1. CASE memory = {}
      BY <1>1, <1>4, <1>8, <1>9, <1>11, <2>1 DEF ProcessTypes, Events
    <2>2. CASE memory # {}
      BY <1>4, <1>8, <1>9, <1>11, <2>2 DEF Numbers
    <2> QED
      BY <2>1, <2>2
  <1>12. ~degraded => \A e \in lines : e.seq \in Retained
    BY DEF Retained, Numbers
  <1>13. Copy(c)'
    <2>1. sequence <= sequence
      BY <1>1 DEF ProcessTypes
    <2>2. \A e \in memory \cup pending : Oldest(q) <= e.seq
      BY <1>4, <1>8, <1>9
    <2>3. /\ sequence' = sequence /\ log' = log /\ memory' = memory /\ pending' = pending
          /\ degraded' = degraded /\ lines' = lines /\ known' = known
          /\ instance' = instance /\ cursor' = cursor
      BY <1>2 DEF process, disk
    <2> QED
      BY <1>3, <1>4, <1>7, <1>9, <1>10, <1>11, <1>12, <2>1, <2>2, <2>3 DEF Copy
  <1>14. Progress(c)'
    BY <1>3, <1>4 DEF Progress
  <1>15. page' \in [Clients -> Pages]
    BY <1>1, <1>2, <1>6 DEF ClientTypes
  <1> QED
    BY <1>2, <1>3, <1>13, <1>14, <1>15 DEF PageInv, process

\* What a page took with it does not change while it is made.
LEMMA CopyKept ==
  ASSUME NEW c \in Clients, Copy(c), page[c] \in Pages, page'[c] \in Pages,
         page'[c].after = page[c].after, page[c].gap => page'[c].gap,
         page'[c].memory = page[c].memory, page'[c].upper = page[c].upper,
         page'[c].kept = page[c].kept,
         sequence' = sequence, log' = log, memory' = memory, pending' = pending,
         degraded => degraded', lines' = lines, known' = known, instance' = instance,
         cursor' = cursor
  PROVE  Copy(c)' /\ Oldest(page'[c]) = Oldest(page[c])
  <1>1. Oldest(page'[c]) = Oldest(page[c])
    BY DEF Oldest
  <1> QED
    BY <1>1 DEF Copy

LEMMA LookPage ==
  ASSUME Server, NEW c \in Clients, PageInv(c), Look(c)
  PROVE  /\ page' \in [Clients -> Pages] /\ PageInv(c)'
         /\ \A d \in Clients \ {c} : page'[d] = page[d] /\ pc'[d] = pc[d]
  <1> DEFINE p == page[c]
             oldest == IF degraded \/ names = {} THEN Oldest(p) ELSE Min(names)
             gap == p.gap \/ p.after < oldest - 1
  <1>1. ProcessTypes /\ DiskTypes /\ ClientTypes /\ p \in Pages
    BY ServerParts, ClientIs
  <1>2. /\ up /\ pc[c] = "look" /\ pc' = [pc EXCEPT ![c] = "check"]
        /\ page' = [page EXCEPT ![c].gap = gap]
        /\ UNCHANGED <<process, disk, cursor, known, since, delivered, lost, counters>>
    BY DEF Look
  <1>3. /\ pc'[c] = "check" /\ page'[c] = [p EXCEPT !.gap = gap]
        /\ \A d \in Clients \ {c} : page'[d] = page[d] /\ pc'[d] = pc[d]
    BY <1>1, <1>2 DEF ClientTypes
  <1>4. /\ page'[c].after = p.after /\ page'[c].gap = gap /\ page'[c].memory = p.memory
        /\ page'[c].upper = p.upper /\ page'[c].kept = p.kept
        /\ page'[c].events = p.events /\ page'[c].stopped = p.stopped
        /\ page'[c].complete = p.complete
    BY <1>1, <1>3 DEF Pages
  <1>5. gap \in BOOLEAN
    BY <1>1 DEF Pages
  <1>6. page'[c] \in Pages /\ page' \in [Clients -> Pages]
    BY <1>1, <1>2, <1>3, <1>5 DEF ClientTypes, Pages
  <1>7. Copy(c) /\ Progress(c)
    BY <1>2 DEF PageInv
  <1>8. /\ sequence' = sequence /\ log' = log /\ memory' = memory /\ pending' = pending
        /\ degraded' = degraded /\ lines' = lines /\ known' = known
        /\ instance' = instance /\ cursor' = cursor /\ up' = up
    BY <1>2 DEF process, disk
  <1>9. Copy(c)'
    BY <1>1, <1>4, <1>6, <1>7, <1>8, CopyKept
  <1>10. Progress(c)'
    BY <1>2, <1>3, <1>4, <1>7 DEF Progress
  <1>11. ASSUME ~gap, NEW e \in log, p.after < e.seq, e.seq <= p.upper
         PROVE  e.seq \in p.kept
    <2>1. /\ e \in Events /\ e.seq \in Nat /\ p.after \in 0 .. MaxEvents
          /\ e.seq <= sequence /\ sequence \in 0 .. MaxEvents
      BY <1>1, <1>7 DEF ProcessTypes, Events, Pages, Server, Numbering
    <2>2. ASSUME Oldest(p) <= e.seq PROVE e.seq \in p.kept
      BY <1>7, <1>11, <2>2 DEF Copy
    <2>3. CASE degraded \/ names = {}
      <3>1. Oldest(p) \in 1 .. MaxEvents + 1
        BY <1>1, OldestIs
      <3>2. Oldest(p) <= e.seq
        BY <1>11, <2>1, <2>3, <3>1, StreamAssumption
      <3> QED
        BY <2>2, <3>2
    <2>4. CASE ~degraded /\ names # {}
      <3>1. names \subseteq Nat
        BY <1>1, StreamAssumption DEF DiskTypes
      <3>2. oldest \in names /\ oldest \in Nat
        BY <2>4, <3>1, MinOf
      <3>3. oldest <= e.seq
        BY <1>11, <2>1, <3>2
      <3>4. /\ latest = Handed
            /\ \A d \in log : oldest <= d.seq /\ d.seq <= latest => d \in lines
        BY <1>2, <2>4, <3>2 DEF Server, Journal
      <3>5. CASE e.seq <= latest
        BY <1>7, <1>11, <2>4, <3>3, <3>4, <3>5 DEF Copy
      <3>6. CASE ~(e.seq <= latest)
        <4>1. pending # {} /\ e.seq = sequence
          BY <2>1, <3>4, <3>6 DEF Handed
        <4>2. PICK x \in pending : x.seq = e.seq
          BY <4>1 DEF Server, Memory
        <4>3. x = e
          BY <4>2 DEF Server, Memory, Numbering
        <4>4. Oldest(p) <= e.seq
          BY <1>7, <4>2, <4>3 DEF Copy
        <4> QED
          BY <2>2, <4>4
      <3> QED
        BY <3>5, <3>6
    <2> QED
      BY <2>3, <2>4
  <1>12. Reaches(c)'
    BY <1>4, <1>8, <1>11 DEF Reaches
  <1> QED
    BY <1>2, <1>3, <1>6, <1>8, <1>9, <1>10, <1>12 DEF PageInv

LEMMA CheckPage ==
  ASSUME Server, NEW c \in Clients, PageInv(c), Check(c)
  PROVE  /\ page' \in [Clients -> Pages] /\ PageInv(c)'
         /\ \A d \in Clients \ {c} : page'[d] = page[d] /\ pc'[d] = pc[d]
  <1> DEFINE p == page[c]
             reading == ~degraded /\ p.after < Oldest(p) - 1
  <1>1. ProcessTypes /\ DiskTypes /\ ClientTypes /\ p \in Pages
    BY ServerParts, ClientIs
  <1>2. /\ up /\ pc[c] = "check"
        /\ pc' = [pc EXCEPT ![c] = IF reading THEN "read" ELSE "finish"]
        /\ page' = [page EXCEPT ![c].reading = reading, ![c].scanned = p.after]
        /\ UNCHANGED <<process, disk, cursor, known, since, delivered, lost, counters>>
    BY DEF Check
  <1>3. /\ pc'[c] = (IF reading THEN "read" ELSE "finish")
        /\ page'[c] = [p EXCEPT !.reading = reading, !.scanned = p.after]
        /\ \A d \in Clients \ {c} : page'[d] = page[d] /\ pc'[d] = pc[d]
    BY <1>1, <1>2 DEF ClientTypes
  <1>4. /\ page'[c].after = p.after /\ page'[c].gap = p.gap /\ page'[c].memory = p.memory
        /\ page'[c].upper = p.upper /\ page'[c].kept = p.kept
        /\ page'[c].events = p.events /\ page'[c].stopped = p.stopped
        /\ page'[c].complete = p.complete /\ page'[c].reading = reading
        /\ page'[c].scanned = p.after
    BY <1>1, <1>3 DEF Pages
  <1>5. reading \in BOOLEAN /\ p.after \in 0 .. MaxEvents /\ p.upper \in 0 .. MaxEvents
    BY <1>1 DEF Pages
  <1>6. page'[c] \in Pages /\ page' \in [Clients -> Pages]
    BY <1>1, <1>2, <1>3, <1>5 DEF ClientTypes, Pages
  <1>7. Copy(c) /\ Progress(c) /\ Reaches(c)
    BY <1>2 DEF PageInv
  <1>8. /\ sequence' = sequence /\ log' = log /\ memory' = memory /\ pending' = pending
        /\ degraded' = degraded /\ lines' = lines /\ known' = known
        /\ instance' = instance /\ cursor' = cursor /\ up' = up
    BY <1>2 DEF process, disk
  <1>9. Copy(c)' /\ Oldest(page'[c]) = Oldest(p)
    BY <1>1, <1>4, <1>6, <1>7, <1>8, CopyKept
  <1>10. Reaches(c)'
    BY <1>4, <1>7, <1>8 DEF Reaches
  <1>11. p.events = {} /\ ~p.stopped /\ p.complete
    BY <1>2, <1>7 DEF Progress
  <1>12. /\ Oldest(p) \in 1 .. MaxEvents + 1 /\ (p.memory = {} => Oldest(p) = p.upper + 1)
         /\ p.memory # {} => Oldest(p) \in Numbers(p.memory)
    BY <1>1, OldestIs
  <1>13. Oldest(p) - 1 <= p.upper /\ p.after <= p.upper
    BY <1>5, <1>7, <1>12 DEF Copy, Numbers
  <1>14. \A e \in log : e.seq \in Nat
    BY <1>1 DEF ProcessTypes, Events
  <1>15. ASSUME ~reading, ~p.gap, NEW e \in log, p.after < e.seq, e.seq <= Oldest(p) - 1
         PROVE  Gone(c, e)'
    <2>1. degraded
      BY <1>5, <1>12, <1>14, <1>15, StreamAssumption
    <2>2. e.seq < Oldest(p) /\ e.seq <= p.upper
      BY <1>5, <1>12, <1>13, <1>14, <1>15, StreamAssumption
    <2>3. e.seq \in p.kept
      BY <1>7, <1>15, <2>2 DEF Reaches
    <2> QED
      BY <1>4, <1>8, <1>9, <2>1, <2>2, <2>3 DEF Gone
  <1>16. Progress(c)'
    <2>1. ASSUME pc'[c] = "read" PROVE reading
      BY <1>3, <2>1
    <2>2. ASSUME pc'[c] = "finish", ~p.gap PROVE ~reading
      BY <1>3, <2>2
    <2>3. Covers(c, page[c].after)'
      BY <1>4, <1>5, <1>8, <1>14 DEF Covers
    <2>4. ASSUME pc'[c] = "finish", ~p.gap PROVE Covers(c, Oldest(page[c]) - 1)'
      <3>1. \A e \in log : p.after < e.seq /\ e.seq <= Oldest(p) - 1 => Gone(c, e)'
        BY <1>15, <2>2, <2>4
      <3> QED
        BY <1>4, <1>8, <1>9, <3>1 DEF Covers
    <2>5. Covers(c, page[c].scanned)'
      BY <1>4, <2>3 DEF Covers
    <2>6. p.after <= p.after
      BY <1>5
    <2> QED
      BY <1>4, <1>9, <1>11, <1>13, <2>1, <2>4, <2>5, <2>6 DEF Progress
  <1> QED
    BY <1>2, <1>3, <1>6, <1>8, <1>9, <1>10, <1>16 DEF PageInv

LEMMA ReadPage ==
  ASSUME Server, NEW c \in Clients, PageInv(c), Read(c)
  PROVE  /\ page' \in [Clients -> Pages] /\ PageInv(c)'
         /\ \A d \in Clients \ {c} : page'[d] = page[d] /\ pc'[d] = pc[d]
  <1> DEFINE p == page[c]
             through == Min({p.upper, Oldest(p) - 1})
             found == JournalPage(p.after, through)
             q == Old(p, found)
  <1>1. ProcessTypes /\ DiskTypes /\ ClientTypes /\ TypeOK /\ p \in Pages
    BY ServerParts, ClientIs
  <1>2. /\ up /\ pc[c] = "read" /\ pc' = [pc EXCEPT ![c] = "finish"]
        /\ UNCHANGED <<up, instance, memory, sequence, pending, latest, log, disk, cursor,
                       known, since, delivered, lost, counters>>
        /\ IF degraded THEN UNCHANGED <<page, degraded>>
                       ELSE page' = [page EXCEPT ![c] = q] /\ degraded' = found.broken
    BY DEF Read
  <1>3. /\ Copy(c) /\ Progress(c) /\ Reaches(c)
    BY <1>2 DEF PageInv
  <1>4. /\ p.events = {} /\ ~p.stopped /\ p.complete
        /\ p.reading /\ p.scanned = p.after /\ p.after < Oldest(p) - 1
    BY <1>2, <1>3 DEF Progress
  <1>5. /\ p.upper \in 0 .. MaxEvents /\ p.after \in 0 .. MaxEvents /\ p.after <= p.upper
        /\ Oldest(p) \in 1 .. MaxEvents + 1 /\ (p.memory = {} => Oldest(p) = p.upper + 1)
        /\ p.memory # {} => Oldest(p) \in Numbers(p.memory)
    BY <1>1, <1>3, OldestIs DEF Copy, Pages
  <1>6. Oldest(p) - 1 <= p.upper
    BY <1>3, <1>5 DEF Copy, Numbers
  <1>7. /\ sequence' = sequence /\ log' = log /\ memory' = memory /\ pending' = pending
        /\ (degraded => degraded') /\ lines' = lines /\ known' = known
        /\ instance' = instance /\ cursor' = cursor /\ up' = up
    BY <1>2 DEF disk
  <1>8. pc'[c] = "finish" /\ \A d \in Clients \ {c} : pc'[d] = pc[d]
    BY <1>1, <1>2 DEF ClientTypes
  <1>9. \A e \in log : e.seq \in Nat
    BY <1>1 DEF ProcessTypes, Events
  <1> HIDE DEF p, q, found, through
  <1>10. CASE degraded
    <2>1. page'[c] = p /\ page' = page
      BY <1>2, <1>10 DEF p
    <2>2. Copy(c)' /\ Oldest(page'[c]) = Oldest(p)
      BY <1>1, <1>3, <1>7, <2>1, CopyKept DEF p
    <2>3. Reaches(c)'
      BY <1>3, <1>7, <2>1 DEF Reaches, p
    <2>4. Covers(c, page[c].scanned)'
      BY <1>4, <1>5, <1>7, <1>9, <2>1 DEF Covers
    <2>5. Progress(c)'
      <3>1. p.after <= p.after /\ degraded'
        BY <1>5, <1>7, <1>10
      <3> QED
        BY <1>4, <1>5, <1>8, <2>1, <2>4, <3>1 DEF Progress
    <2> QED
      BY <1>1, <1>2, <1>7, <1>8, <2>1, <2>2, <2>3, <2>5 DEF PageInv, ClientTypes
  <1>11. CASE ~degraded
    <2>1. through = Oldest(p) - 1
      <3> DEFINE S == {p.upper, Oldest(p) - 1}
      <3>1. S \subseteq Nat /\ S # {}
        BY <1>4, <1>5
      <3>2. Min(S) \in S /\ \A n \in S : Min(S) <= n
        BY <3>1, MinOf
      <3>3. through = Min(S)
        BY DEF through
      <3> HIDE DEF through
      <3> QED
        BY <1>5, <1>6, <3>1, <3>2, <3>3
    <2>2. through \in 0 .. MaxEvents /\ p.after < through
      BY <1>4, <1>5, <2>1, StreamAssumption
    <2>3. /\ q \in Pages
          /\ q.after = p.after /\ q.gap = p.gap /\ q.memory = p.memory
          /\ q.upper = p.upper /\ q.reading = p.reading /\ q.kept = p.kept
          /\ q.scanned \in p.after .. through
          /\ \A e : e \in q.events <=> /\ e \in lines /\ Visible(e)
                                       /\ p.after < e.seq /\ e.seq <= q.scanned
          /\ ~q.stopped /\ q.complete =>
               \A e \in lines : e.seq <= through => e.seq <= q.scanned
      BY <1>1, <2>2, OldIs DEF q, found
    <2>4. /\ page'[c] = q /\ page' \in [Clients -> Pages]
          /\ \A d \in Clients \ {c} : page'[d] = page[d]
      BY <1>1, <1>2, <1>11, <2>3 DEF ClientTypes
    <2>5. Copy(c)' /\ Oldest(page'[c]) = Oldest(p)
      BY <1>1, <1>3, <1>7, <2>3, <2>4, CopyKept DEF p
    <2>6. Reaches(c)'
      BY <1>3, <1>7, <2>3, <2>4 DEF Reaches, p
    <2>7. lines \subseteq log /\ \A d, e \in log : d.seq = e.seq => d = e
      BY <1>2, <1>11 DEF Server, Journal, Numbering
    <2>8. ASSUME ~p.gap, NEW e \in log, e \notin lines, p.after < e.seq,
                 e.seq <= Oldest(p) - 1
          PROVE  Gone(c, e)'
      <3>1. e.seq <= p.upper /\ e.seq < Oldest(p)
        BY <1>5, <1>6, <1>9, <2>8, StreamAssumption
      <3>2. e.seq \in p.kept
        BY <1>3, <2>8, <3>1 DEF Reaches, p
      <3>3. e.seq \notin Numbers(lines)
        BY <2>7, <2>8 DEF Numbers
      <3> QED
        BY <1>7, <2>3, <2>4, <2>5, <3>1, <3>2, <3>3 DEF Gone
    <2>9. ASSUME ~p.gap PROVE Covers(c, page[c].scanned)'
      <3>1. ASSUME NEW e \in log, Visible(e), p.after < e.seq, e.seq <= q.scanned
            PROVE  e \in q.events \/ Gone(c, e)'
        <4>1. CASE e \in lines
          BY <2>3, <3>1, <4>1
        <4>2. CASE e \notin lines
          <5>1. e.seq <= Oldest(p) - 1
            BY <1>5, <1>9, <2>1, <2>2, <2>3, <3>1
          <5> QED
            BY <2>8, <2>9, <3>1, <4>2, <5>1
        <4> QED
          BY <4>1, <4>2
      <3> QED
        BY <1>7, <2>3, <2>4, <3>1 DEF Covers
    <2>10. ASSUME ~p.gap, ~q.stopped, q.complete PROVE Covers(c, Oldest(page[c]) - 1)'
      <3>1. ASSUME NEW e \in log, Visible(e), p.after < e.seq, e.seq <= Oldest(p) - 1
            PROVE  e \in q.events \/ Gone(c, e)'
        <4>1. CASE e \in lines
          BY <2>1, <2>3, <2>10, <3>1, <4>1
        <4>2. CASE e \notin lines
          BY <2>8, <2>10, <3>1, <4>2
        <4> QED
          BY <4>1, <4>2
      <3> QED
        BY <1>7, <2>3, <2>4, <2>5, <3>1 DEF Covers
    <2>11. Progress(c)'
      <3>1. q.after <= q.scanned /\ q.scanned <= q.upper /\ q.reading
        BY <1>4, <1>5, <1>6, <2>1, <2>2, <2>3
      <3>2. \A e \in q.events : e \in log /\ Visible(e) /\ q.after < e.seq /\ e.seq <= q.scanned
        BY <2>3, <2>7
      <3> QED
        BY <1>7, <1>8, <2>3, <2>4, <2>9, <2>10, <3>1, <3>2 DEF Progress
    <2> QED
      BY <1>2, <1>7, <1>8, <2>4, <2>5, <2>6, <2>11 DEF PageInv
  <1> QED
    BY <1>10, <1>11

\* A page without a gap goes on from the client's cursor, and was all retained
\* when it began; what it shows of that is in it or discarded by now.
LEMMA PageIs ==
  ASSUME Server, NEW c \in Clients, PageInv(c), pc[c] = "finish", ~Result(page[c]).gap
  PROVE  LET p == page[c]
             r == Result(p)
         IN /\ p.after = cursor[c] /\ known[c] \in {0, instance} /\ cursor[c] <= r.scanned
            /\ \A e \in p.events \cup r.new : /\ e \in log /\ Visible(e)
                                              /\ cursor[c] < e.seq /\ e.seq <= r.scanned
            /\ \A e \in log : cursor[c] < e.seq /\ e.seq <= r.scanned =>
                 /\ e.seq \in p.kept
                 /\ Visible(e) => e \in p.events \cup r.new \/ e.seq \notin Retained
  <1> DEFINE p == page[c]
             r == Result(p)
  <1>1. /\ ProcessTypes /\ TypeOK /\ p \in Pages /\ Copy(c) /\ Progress(c) /\ Reaches(c)
        /\ cursor[c] \in 0 .. MaxEvents
    BY ServerParts, ClientIs DEF PageInv
  <1>2. /\ p.after <= p.scanned /\ p.scanned <= p.upper /\ p.upper <= sequence
        /\ p.after \in 0 .. MaxEvents /\ p.upper \in 0 .. MaxEvents
        /\ p.scanned \in 0 .. MaxEvents
    BY <1>1 DEF Progress, Copy, Pages
  <1>3. /\ r.new \subseteq p.memory /\ r.scanned \in p.scanned .. p.upper
        /\ \A e \in r.new : Visible(e) /\ p.scanned < e.seq /\ e.seq <= r.scanned
        /\ \A e \in p.memory : Visible(e) /\ p.scanned < e.seq /\ e.seq <= r.scanned
                                 => e \in r.new
        /\ ~r.gap => ~p.gap
        /\ ~r.gap /\ p.scanned < r.scanned =>
             ~p.stopped /\ (p.complete \/ degraded) /\ ~(p.reading /\ degraded)
    BY <1>1, <1>2, ResultIs
  <1> HIDE DEF r
  <1>4. ~r.gap /\ ~p.gap
    BY <1>3 DEF r
  <1>5. /\ p.after = cursor[c] /\ known[c] \in {0, instance}
        /\ \A e \in p.events : /\ e \in log /\ Visible(e)
                               /\ p.after < e.seq /\ e.seq <= p.scanned
        /\ Covers(c, p.scanned) /\ (p.complete \/ p.reading)
        /\ ~p.stopped /\ p.complete /\ ~(p.reading /\ degraded) => Covers(c, Oldest(p) - 1)
        /\ \A e \in log : p.after < e.seq /\ e.seq <= p.upper => e.seq \in p.kept
    BY <1>1, <1>4 DEF Copy, Progress, Reaches
  <1>6. /\ p.memory \subseteq log
        /\ \A e \in log : e.seq <= p.upper /\ Oldest(p) <= e.seq => e \in p.memory
        /\ \A e \in memory : Oldest(p) <= e.seq
    BY <1>1 DEF Copy
  <1>7. Oldest(p) \in 1 .. MaxEvents + 1 /\ \A e \in log : e.seq \in Nat
    BY <1>1, OldestIs DEF ProcessTypes, Events
  <1> HIDE DEF p
  <1>8. ASSUME NEW e \in p.events \cup r.new
        PROVE  e \in log /\ Visible(e) /\ cursor[c] < e.seq /\ e.seq <= r.scanned
    BY <1>2, <1>3, <1>5, <1>6, <1>7
  <1>9. ASSUME NEW e \in log, cursor[c] < e.seq, e.seq <= r.scanned
        PROVE  e.seq \in p.kept
    BY <1>2, <1>3, <1>5, <1>7, <1>9
  <1>10. ASSUME NEW e \in log, Gone(c, e) PROVE e.seq \notin Retained
    <2>1. e.seq < Oldest(p) /\ (degraded \/ e.seq \notin Numbers(lines))
      BY <1>10 DEF Gone, p
    <2>2. e.seq \notin Numbers(memory)
      BY <1>6, <1>7, <2>1, ServerParts DEF Numbers, ProcessTypes, Events
    <2> QED
      BY <2>1, <2>2 DEF Retained
  <1>11. ASSUME NEW e \in log, Visible(e), cursor[c] < e.seq, e.seq <= r.scanned
         PROVE  e \in p.events \cup r.new \/ e.seq \notin Retained
    <2>1. CASE e.seq <= p.scanned
      <3>1. e \in p.events \/ Gone(c, e)
        BY <1>5, <1>11, <2>1 DEF Covers, p
      <3> QED
        BY <1>10, <3>1
    <2>2. CASE ~(e.seq <= p.scanned) /\ e.seq <= Oldest(p) - 1
      <3>1. Covers(c, Oldest(p) - 1)
        BY <1>2, <1>3, <1>4, <1>5, <1>7, <1>11, <2>2
      <3>2. e \in p.events \/ Gone(c, e)
        BY <1>5, <1>11, <2>2, <3>1 DEF Covers, p
      <3> QED
        BY <1>10, <3>2
    <2>3. CASE ~(e.seq <= p.scanned) /\ ~(e.seq <= Oldest(p) - 1)
      <3>1. Oldest(p) <= e.seq /\ e.seq <= p.upper /\ p.scanned < e.seq
        BY <1>2, <1>3, <1>7, <1>11, <2>3, StreamAssumption
      <3> QED
        BY <1>3, <1>6, <1>11, <3>1
    <2> QED
      BY <2>1, <2>2, <2>3
  <1>12. cursor[c] <= r.scanned
    BY <1>1, <1>2, <1>3, <1>5
  <1> QED
    BY <1>5, <1>8, <1>9, <1>11, <1>12 DEF p, r

\* Batches in the order of their numbers, up to n, and what is in them.
InOrder(b) ==
  \A i, j \in DOMAIN b : i < j => \A d \in b[i], e \in b[j] : d.seq < e.seq
Within(b, n) == \A i \in DOMAIN b : \A e \in b[i] : e.seq <= n
In(b) == UNION {b[i] : i \in DOMAIN b}

\* A batch that is not empty is one more, and its events come to the others.
LEMMA GivenHas ==
  ASSUME NEW b \in Seq(SUBSET Events), NEW es \in SUBSET Events
  PROVE  Given(b, es) \in Seq(SUBSET Events) /\ In(Given(b, es)) = In(b) \cup es
  <1>1. CASE es = {}
    BY <1>1 DEF Given
  <1>2. CASE es # {}
    <2> DEFINE g == Append(b, es)
    <2>1. Given(b, es) = g
      BY <1>2 DEF Given
    <2>2. /\ g \in Seq(SUBSET Events) /\ Len(b) \in Nat
          /\ DOMAIN b = 1 .. Len(b) /\ DOMAIN g = 1 .. Len(b) + 1
          /\ g[Len(b) + 1] = es /\ \A i \in DOMAIN b : i \in DOMAIN g /\ g[i] = b[i]
      OBVIOUS
    <2> HIDE DEF g
    <2>3. \A i \in DOMAIN g : i = Len(b) + 1 \/ i \in DOMAIN b
      BY <2>2
    <2>4. In(g) \subseteq In(b) \cup es
      BY <2>2, <2>3 DEF In
    <2>5. In(b) \cup es \subseteq In(g)
      BY <2>2 DEF In
    <2> QED
      BY <2>1, <2>2, <2>4, <2>5
  <1> QED
    BY <1>1, <1>2

\* One more batch, of later events, keeps the order.
LEMMA GivenIs ==
  ASSUME NEW b \in Seq(SUBSET Events), NEW es \in SUBSET Events, NEW m \in Nat, NEW n \in Nat,
         m <= n, Within(b, m), InOrder(b), \A e \in es : m < e.seq /\ e.seq <= n
  PROVE  /\ Given(b, es) \in Seq(SUBSET Events)
         /\ Within(Given(b, es), n) /\ InOrder(Given(b, es))
         /\ In(Given(b, es)) = In(b) \cup es
  <1>1. \A i \in DOMAIN b : \A e \in b[i] : e \in Events /\ e.seq \in Nat /\ e.seq <= m
    BY DEF Events, Within
  <1>2. \A e \in es : e.seq \in Nat
    BY DEF Events
  <1>3. CASE es = {}
    <2>1. Given(b, es) = b
      BY <1>3 DEF Given
    <2>2. Within(b, n)
      BY <1>1 DEF Within
    <2> QED
      BY <1>3, <2>1, <2>2
  <1>4. CASE es # {}
    <2> DEFINE g == Append(b, es)
    <2>1. Given(b, es) = g
      BY <1>4 DEF Given
    <2>2. /\ Len(b) \in Nat /\ DOMAIN b = 1 .. Len(b) /\ DOMAIN g = 1 .. Len(b) + 1
          /\ g[Len(b) + 1] = es /\ \A i \in DOMAIN b : i \in DOMAIN g /\ g[i] = b[i]
      OBVIOUS
    <2> HIDE DEF g
    <2>3. \A i \in DOMAIN g : i = Len(b) + 1 \/ i \in DOMAIN b
      BY <2>2
    <2>4. ASSUME NEW i \in DOMAIN g, NEW e \in g[i] PROVE e.seq <= n
      <3>1. CASE i = Len(b) + 1
        BY <2>2, <2>4, <3>1
      <3>2. CASE i \in DOMAIN b
        BY <1>1, <2>2, <2>4, <3>2
      <3> QED
        BY <2>3, <3>1, <3>2
    <2>5. ASSUME NEW i \in DOMAIN g, NEW j \in DOMAIN g, i < j, NEW d \in g[i], NEW e \in g[j]
          PROVE  d.seq < e.seq
      <3>1. i \in DOMAIN b
        BY <2>2, <2>5
      <3>2. d \in b[i]
        BY <2>2, <2>5, <3>1
      <3>3. CASE j \in DOMAIN b
        BY <2>2, <2>5, <3>1, <3>2, <3>3 DEF InOrder
      <3>4. CASE j = Len(b) + 1
        BY <1>1, <1>2, <2>2, <2>5, <3>1, <3>2, <3>4
      <3> QED
        BY <2>3, <3>3, <3>4
    <2>6. Within(g, n) /\ InOrder(g)
      BY <2>4, <2>5 DEF Within, InOrder
    <2> QED
      BY <2>1, <2>6, GivenHas
  <1> QED
    BY <1>3, <1>4

\* The client takes its page: what it has then is exact up to its new cursor.
LEMMA FinishGave ==
  ASSUME Server, NEW c \in Clients, PageInv(c), Gave(c), Finish(c)
  PROVE  /\ ClientTypes' /\ PageInv(c)' /\ Gave(c)'
         /\ \A d \in Clients \ {c} : Same(d)
  <1> DEFINE p == page[c]
             r == Result(p)
             first == Given(delivered[c], p.events)
             batches == Given(first, r.new)
  <1>1. /\ ProcessTypes /\ ClientTypes /\ TypeOK /\ p \in Pages
        /\ cursor[c] \in 0 .. MaxEvents /\ since[c] \in 0 .. MaxEvents
        /\ known[c] \in 0 .. MaxCrashes + 1
        /\ delivered[c] \in Seq(SUBSET Events) /\ lost[c] \in SUBSET (1 .. MaxEvents)
    BY ServerParts, ClientIs
  <1>2. /\ up /\ pc[c] = "finish"
        /\ cursor' = [cursor EXCEPT ![c] = r.scanned]
        /\ since' = [since EXCEPT ![c] = IF r.gap THEN r.scanned ELSE @]
        /\ delivered' = [delivered EXCEPT ![c] = IF r.gap THEN <<>> ELSE batches]
        /\ lost' = [lost EXCEPT ![c] = IF r.gap THEN {} ELSE @ \cup (p.kept \ Retained)]
        /\ known' = [known EXCEPT ![c] = instance]
        /\ pc' = [pc EXCEPT ![c] = "idle"] /\ page' = [page EXCEPT ![c] = NoPage]
        /\ UNCHANGED <<process, disk, counters>>
    BY DEF Finish
  <1>3. /\ cursor'[c] = r.scanned /\ since'[c] = (IF r.gap THEN r.scanned ELSE since[c])
        /\ delivered'[c] = (IF r.gap THEN <<>> ELSE batches)
        /\ lost'[c] = (IF r.gap THEN {} ELSE lost[c] \cup (p.kept \ Retained))
        /\ known'[c] = instance /\ pc'[c] = "idle"
    BY <1>1, <1>2 DEF ClientTypes
  <1>4. \A d \in Clients \ {c} : Same(d)
    BY <1>1, <1>2 DEF ClientTypes, Same
  <1>5. /\ Copy(c) /\ Progress(c)
        /\ p.after <= p.scanned /\ p.scanned <= p.upper /\ p.upper <= sequence
    BY <1>2 DEF PageInv, Progress, Copy
  <1>6. /\ p.after \in 0 .. MaxEvents /\ p.upper \in 0 .. MaxEvents
        /\ p.scanned \in 0 .. MaxEvents /\ sequence \in 0 .. MaxEvents
        /\ p.events \in SUBSET Events /\ p.memory \in SUBSET Events
        /\ p.kept \in SUBSET (1 .. MaxEvents)
    BY <1>1 DEF Pages, ProcessTypes
  <1>7. /\ r.gap \in BOOLEAN /\ r.new \subseteq p.memory
        /\ r.scanned \in p.scanned .. p.upper
        /\ \A e \in r.new : Visible(e) /\ p.scanned < e.seq /\ e.seq <= r.scanned
        /\ \A e \in p.memory : Visible(e) /\ p.scanned < e.seq /\ e.seq <= r.scanned
                                 => e \in r.new
        /\ ~r.gap => ~p.gap
        /\ ~r.gap /\ p.scanned < r.scanned =>
             ~p.stopped /\ (p.complete \/ degraded) /\ ~(p.reading /\ degraded)
    BY <1>1, <1>5, ResultIs
  <1>8. r.scanned \in 0 .. MaxEvents /\ r.scanned <= sequence
    BY <1>5, <1>6, <1>7, StreamAssumption
  <1>9. /\ log' = log /\ sequence' = sequence /\ instance' = instance /\ up' = up
        /\ instance \in 1 .. MaxCrashes + 1
    BY <1>1, <1>2 DEF process, ProcessTypes
  <1> HIDE DEF r, first, batches
  \* Without a gap the batches go on from the client's cursor.
  <1>10. ASSUME ~r.gap
         PROVE  /\ p.after = cursor[c] /\ known[c] \in {0, instance}
                /\ \A e \in p.events : e \in log /\ p.after < e.seq /\ e.seq <= p.scanned
                /\ batches \in Seq(SUBSET Events) /\ In(batches) \subseteq log
                /\ Within(batches, r.scanned) /\ InOrder(batches)
                /\ In(batches) = In(delivered[c]) \cup p.events \cup r.new
    <2>1. /\ p.after = cursor[c] /\ known[c] \in {0, instance}
          /\ \A e \in p.events : e \in log /\ p.after < e.seq /\ e.seq <= p.scanned
      BY <1>2, <1>5, <1>7, <1>10 DEF Copy, Progress
    <2>2. /\ Within(delivered[c], p.after) /\ InOrder(delivered[c])
          /\ In(delivered[c]) \subseteq log
      BY <2>1 DEF Gave, Within, InOrder, In
    <2>3. /\ p.after \in Nat /\ p.scanned \in Nat /\ r.scanned \in Nat
          /\ p.after <= p.scanned /\ p.scanned <= r.scanned
      BY <1>5, <1>6, <1>7, <1>8
    <2>4. p.events \in SUBSET Events /\ r.new \in SUBSET Events /\ r.new \subseteq log
      BY <1>5, <1>6, <1>7 DEF Copy
    <2> HIDE DEF p
    <2>5. /\ first \in Seq(SUBSET Events) /\ Within(first, p.scanned) /\ InOrder(first)
          /\ In(first) = In(delivered[c]) \cup p.events
      BY <1>1, <2>1, <2>2, <2>3, <2>4, GivenIs DEF first
    <2>6. /\ batches \in Seq(SUBSET Events) /\ Within(batches, r.scanned) /\ InOrder(batches)
          /\ In(batches) = In(first) \cup r.new
      BY <1>7, <2>3, <2>4, <2>5, GivenIs DEF batches
    <2> QED
      BY <2>1, <2>2, <2>4, <2>5, <2>6
  \* And what it waited for has come, or is discarded.
  <1>11. ASSUME ~r.gap, NEW e \in log, Visible(e), e.seq > since[c], e.seq <= r.scanned
         PROVE  \/ e \in In(delivered[c]) \cup p.events \cup r.new
                \/ e.seq \in lost[c] \cup (p.kept \ Retained)
    <2>1. e.seq \in Nat
      BY <1>1 DEF ProcessTypes, Events
    <2>3. CASE e.seq <= cursor[c]
      <3>1. e \in Awaited(c) /\ known[c] \in {0, instance}
        BY <1>10, <1>11, <2>3 DEF Awaited
      <3> QED
        BY <3>1 DEF Gave, Received, In
    <2>4. CASE ~(e.seq <= cursor[c])
      BY <1>1, <1>2, <1>11, <2>1, <2>4, PageIs DEF r
    <2> QED
      BY <2>3, <2>4
  <1>12. Gave(c)'
    <2>1. /\ known'[c] <= instance' /\ ~(known'[c] = 0) /\ cursor'[c] <= sequence'
      BY <1>3, <1>8, <1>9
    <2>2. CASE r.gap
      <3>1. delivered'[c] = <<>> /\ since'[c] = cursor'[c] /\ cursor'[c] \in Nat
        BY <1>3, <1>8, <2>2
      <3>2. Awaited(c)' = {}
        <4>1. \A e \in log : ~(e.seq > cursor'[c] /\ e.seq <= cursor'[c])
          BY <1>1, <3>1 DEF ProcessTypes, Events
        <4> QED
          BY <1>9, <3>1, <4>1 DEF Awaited
      <3> QED
        BY <2>1, <3>1, <3>2 DEF Gave
    <2>3. CASE ~r.gap
      <3>1. /\ delivered'[c] = batches /\ cursor'[c] = r.scanned /\ since'[c] = since[c]
            /\ lost'[c] = lost[c] \cup (p.kept \ Retained)
        BY <1>3, <2>3
      <3>2. /\ \A i \in DOMAIN batches : \A e \in batches[i] : e \in log /\ e.seq <= r.scanned
            /\ InOrder(batches)
        BY <1>10, <2>3 DEF Within, In
      <3>3. ASSUME NEW e \in Awaited(c)'
            PROVE  e \in Received(c)' \/ e.seq \in lost'[c]
        <4>1. e \in log /\ Visible(e) /\ e.seq > since[c] /\ e.seq <= r.scanned
          BY <1>9, <3>1, <3>3 DEF Awaited, Visible
        <4>2. e \in In(batches) \/ e.seq \in lost'[c]
          BY <1>10, <1>11, <2>3, <3>1, <4>1
        <4> QED
          BY <3>1, <4>2 DEF Received, In
      <3> QED
        BY <1>9, <2>1, <3>1, <3>2, <3>3 DEF Gave, InOrder
    <2> QED
      BY <1>7, <2>2, <2>3
  <1>13. PageInv(c)'
    BY <1>3 DEF PageInv
  <1>14. ClientTypes'
    <2>1. NoPage \in Pages
      BY StreamAssumption DEF NoPage, Pages
    <2>2. (IF r.gap THEN <<>> ELSE batches) \in Seq(SUBSET Events)
      BY <1>10
    <2>3. /\ (IF r.gap THEN r.scanned ELSE since[c]) \in 0 .. MaxEvents
          /\ (IF r.gap THEN {} ELSE lost[c] \cup (p.kept \ Retained)) \in SUBSET (1 .. MaxEvents)
          /\ instance \in 0 .. MaxCrashes + 1
      BY <1>1, <1>6, <1>8, <1>9, StreamAssumption
    <2> HIDE DEF p
    <2>4. /\ pc' \in [Clients -> {"idle", "look", "check", "read", "finish"}]
          /\ page' \in [Clients -> Pages]
      BY <1>1, <1>2, <2>1 DEF ClientTypes
    <2>5. /\ cursor' \in [Clients -> 0..MaxEvents] /\ known' \in [Clients -> 0..MaxCrashes + 1]
          /\ since' \in [Clients -> 0..MaxEvents]
      BY <1>1, <1>2, <1>8, <2>3 DEF ClientTypes
    <2>6. /\ delivered' \in [Clients -> Seq(SUBSET Events)]
          /\ lost' \in [Clients -> SUBSET (1..MaxEvents)]
      BY <1>1, <1>2, <2>2, <2>3 DEF ClientTypes
    <2> QED
      BY <2>4, <2>5, <2>6 DEF ClientTypes
  <1> QED
    BY <1>4, <1>12, <1>13, <1>14

(***************************************************************************)
(* The invariant, and what it says.                                        *)
(***************************************************************************)
LEMMA StreamInit == Init => StreamInv
  <1> SUFFICES ASSUME Init PROVE StreamInv
    OBVIOUS
  <1>1. /\ up = TRUE /\ instance = 1 /\ memory = {} /\ sequence = 0 /\ pending = {}
        /\ latest = 0 /\ degraded = FALSE /\ log = {}
        /\ names = {} /\ lines = {} /\ bad = {} /\ torn = 0
        /\ written = 0 /\ faults = 0 /\ crashes = 0
    BY DEF Init
  <1>2. \A c \in Clients : /\ pc[c] = "idle" /\ cursor[c] = 0 /\ known[c] = 0
                           /\ delivered[c] = <<>>
    BY DEF Init
  <1>3. /\ 0 \in 0 .. MaxEvents /\ 0 \in 0 .. MaxFaults /\ 0 \in 0 .. MaxCrashes
        /\ 0 \in 0 .. MaxCrashes + 1 /\ 1 \in 1 .. MaxCrashes + 1 /\ NoPage \in Pages
    BY StreamAssumption DEF NoPage, Pages
  <1>4. ProcessTypes /\ DiskTypes
    BY <1>1, <1>3 DEF ProcessTypes, DiskTypes
  <1>5. ClientTypes
    BY <1>3 DEF Init, ClientTypes
  <1>6. Server
    BY <1>1, <1>4, <1>5, Types DEF Server, Numbering, Memory, Disk, Journal, Handed
  <1>7. \A c \in Clients : PageInv(c) /\ Gave(c)
    BY <1>1, <1>2 DEF PageInv, Gave, Awaited
  <1> QED
    BY <1>6, <1>7 DEF StreamInv

\* What is not a step of a client leaves the clients and goes on.
LEMMA ServerOnward ==
  ASSUME Server, (\E k \in Kinds : Write(k)) \/ JournalAppend \/ AppendFails \/ Damage
  PROVE  Onward /\ \A c \in Clients : Same(c)
  <1>1. sequence \in 0 .. MaxEvents /\ sequence <= sequence /\ memory \subseteq log
    BY ServerParts DEF ProcessTypes, Server, Memory
  <1>2. CASE \E k \in Kinds : Write(k)
    <2>1. PICK k \in Kinds : Write(k)
      BY <1>2
    <2> DEFINE e == [seq |-> sequence + 1, kind |-> k, id |-> written + 1]
    <2>2. /\ memory' = Evicted(memory \cup {e}, e.seq)
          /\ pending' = {e} /\ log' = log \cup {e} /\ sequence' = sequence + 1
          /\ UNCHANGED <<up, instance, latest, degraded, disk, clients, faults, crashes>>
      BY <2>1 DEF Write
    <2>3. e.seq > sequence
      BY <1>1
    <2> HIDE DEF e
    <2>4. memory' \subseteq memory \cup {e}
      BY <2>2 DEF Evicted, From
    <2>5. sequence <= sequence'
      BY <1>1, <2>2
    <2> QED
      BY <2>2, <2>3, <2>4, <2>5 DEF Onward, Same, disk, clients
  <1>3. CASE JournalAppend
    <2>1. /\ pending' = {}
          /\ UNCHANGED <<up, instance, memory, sequence, degraded, log, clients, counters>>
      BY <1>3 DEF JournalAppend
    <2>2. ASSUME ~degraded PROVE lines' \subseteq lines \cup pending
      <3>1. PICK e \in pending :
              Keep(Rotated(e), lines \cup {e}, Start(Rotated(e), lines \cup {e}))
        BY <1>3, <2>2 DEF JournalAppend
      <3> QED
        BY <3>1 DEF Keep, From
    <2> QED
      BY <1>1, <2>1, <2>2 DEF Onward, Same, clients
  <1>4. CASE AppendFails
    BY <1>1, <1>4 DEF AppendFails, Onward, Same, clients
  <1>5. CASE Damage
    BY <1>1, <1>5 DEF Damage, Onward, Same, clients, process
  <1> QED
    BY <1>2, <1>3, <1>4, <1>5

LEMMA ReplayStep ==
  ASSUME StreamInv, NEW c \in Clients, Replay(c)
  PROVE  StreamInv'
  <1>1. Server /\ ClientTypes /\ \A d \in Clients : PageInv(d) /\ Gave(d)
    BY ServerParts DEF StreamInv
  <1>2. /\ ClientTypes' /\ PageInv(c)'
        /\ \A d \in Clients \ {c} : Same(d)
        /\ Finish(c) => Gave(c)'
        /\ ~Finish(c) => UNCHANGED <<cursor, known, since, delivered, lost>>
    <2>1. CASE Finish(c)
      BY <1>1, <2>1, FinishGave
    <2>2. CASE ~Finish(c)
      <3>1. /\ page' \in [Clients -> Pages] /\ PageInv(c)'
            /\ \A d \in Clients \ {c} : page'[d] = page[d] /\ pc'[d] = pc[d]
        BY <1>1, <2>2, SnapshotPage, LookPage, CheckPage, ReadPage DEF Replay
      <3>2. UNCHANGED <<cursor, known, since, delivered, lost>>
        BY <2>2 DEF Replay, Snapshot, Look, Check, Read
      <3>3. pc' \in [Clients -> {"idle", "look", "check", "read", "finish"}]
        BY <1>1, <2>2 DEF Replay, Snapshot, Look, Check, Read, ClientTypes
      <3>4. ClientTypes'
        BY <1>1, <3>1, <3>2, <3>3 DEF ClientTypes
      <3> QED
        BY <2>2, <3>1, <3>2, <3>4 DEF Same
    <2> QED
      BY <2>1, <2>2
  <1>3. /\ Server' /\ up' = up /\ instance' = instance /\ memory' = memory
        /\ sequence' = sequence /\ pending' = pending /\ log' = log /\ lines' = lines
        /\ degraded => degraded'
    BY <1>1, <1>2, ReplayServer
  <1>4. Onward
    <2>1. sequence <= sequence
      BY ServerParts, <1>1 DEF ProcessTypes
    <2> QED
      BY <1>3, <2>1 DEF Onward
  <1>5. Gave(c)'
    <2>1. CASE Finish(c)
      BY <1>2, <2>1
    <2>2. CASE ~Finish(c)
      BY <1>1, <1>2, <1>3, <1>4, <2>2, OnwardGave
    <2> QED
      BY <2>1, <2>2
  <1>6. \A d \in Clients \ {c} : PageInv(d)' /\ Gave(d)'
    BY <1>1, <1>2, <1>3, <1>4, OnwardGave, OnwardPage DEF Same
  <1> QED
    BY <1>2, <1>3, <1>5, <1>6 DEF StreamInv

LEMMA CrashStep ==
  ASSUME StreamInv, Crash
  PROVE  StreamInv'
  <1>1. Server' /\ \A c \in Clients : Gave(c)
    BY CrashServer DEF StreamInv
  <1>2. ASSUME NEW c \in Clients PROVE PageInv(c)' /\ Gave(c)'
    <2>1. /\ pc'[c] = "idle"
          /\ UNCHANGED <<instance, sequence, log, cursor, known, since, delivered, lost>>
      BY DEF Crash
    <2> QED
      BY <1>1, <2>1 DEF PageInv, Gave, Awaited, Received
  <1> QED
    BY <1>1, <1>2 DEF StreamInv

LEMMA OpenStep ==
  ASSUME StreamInv, OpenJournal \/ OpenUnreadable \/ OpenFails
  PROVE  StreamInv'
  <1>1. Server /\ Server' /\ \A c \in Clients : PageInv(c) /\ Gave(c)
    BY OpensServer DEF StreamInv
  <1>2. ~up /\ instance' = instance + 1 /\ UNCHANGED clients
    BY DEF OpenJournal, OpenUnreadable, OpenFails, Open
  <1>3. /\ log' \subseteq Events /\ instance \in 1 .. MaxCrashes + 1
        /\ sequence' \in 0 .. MaxEvents
    BY <1>1, ServerParts, ServerPartsPrimed DEF ProcessTypes
  <1>4. ASSUME NEW c \in Clients PROVE PageInv(c)' /\ Gave(c)'
    <2>1. PageInv(c)'
      BY <1>1, <1>2 DEF PageInv, clients
    <2>2. known[c] \in 0..MaxCrashes + 1 /\ known[c] <= instance /\ cursor[c] \in 0..MaxEvents
          /\ since[c] \in 0..MaxEvents
      BY <1>1, ServerParts, ClientIs DEF Gave
    <2>3. known'[c] # instance' /\ known'[c] <= instance'
      BY <1>2, <1>3, <2>2, StreamAssumption DEF clients
    <2>4. ASSUME known'[c] = 0
          PROVE  cursor'[c] = 0 /\ delivered'[c] = <<>> /\ Awaited(c)' = {}
      <3>1. cursor'[c] = 0 /\ delivered'[c] = <<>> /\ since'[c] = since[c]
        BY <1>1, <1>2, <2>4 DEF Gave, clients
      <3>2. \A e \in log' : ~(e.seq <= 0)
        BY <1>3 DEF Events
      <3> QED
        BY <3>1, <3>2 DEF Awaited
    <2> QED
      BY <2>1, <2>3, <2>4 DEF Gave
  <1> QED
    BY <1>1, <1>4 DEF StreamInv

LEMMA StreamStep == StreamInv /\ [Next]_vars => StreamInv'
  <1> SUFFICES ASSUME StreamInv, [Next]_vars PROVE StreamInv'
    OBVIOUS
  <1>1. Server /\ \A c \in Clients : PageInv(c) /\ Gave(c)
    BY DEF StreamInv
  <1>2. CASE (\E k \in Kinds : Write(k)) \/ JournalAppend \/ AppendFails \/ Damage
    <2>1. Server'
      BY <1>1, <1>2, WriteServer, JournalAppendServer, AppendFailsServer, DamageServer
    <2>2. Onward /\ \A c \in Clients : Same(c)
      BY <1>1, <1>2, ServerOnward
    <2>3. \A c \in Clients : PageInv(c)' /\ Gave(c)'
      BY <1>1, <2>1, <2>2, OnwardGave, OnwardPage DEF Same
    <2> QED
      BY <2>1, <2>3 DEF StreamInv
  <1>3. CASE Crash
    BY <1>3, CrashStep
  <1>4. CASE OpenJournal \/ OpenUnreadable \/ OpenFails
    BY <1>4, OpenStep
  <1>5. ASSUME NEW c \in Clients, Replay(c) PROVE StreamInv'
    BY <1>5, ReplayStep
  <1>6. CASE UNCHANGED vars
    <2>1. UNCHANGED <<process, disk, clients, counters>>
      BY <1>6 DEF vars
    <2>2. ProcessTypes' /\ DiskTypes' /\ ClientTypes'
      BY <1>1, <2>1, ServerParts, ClientTypesKept
         DEF ProcessTypes, DiskTypes, process, disk, counters
    <2>3. Numbering' /\ Memory'
      BY <1>1, <2>1 DEF Server, Numbering, Memory, process, disk, counters
    <2>4. Disk' /\ Journal'
      BY <1>1, <2>1 DEF Server, Disk, Oversized, Journal, Handed, Numbers, process, disk, counters
    <2>5. Server'
      BY <2>2, <2>3, <2>4, TypesPrimed DEF Server
    <2>6. sequence <= sequence
      BY <1>1, ServerParts DEF ProcessTypes
    <2>7. Onward /\ \A c \in Clients : Same(c)
      BY <2>1, <2>6 DEF Onward, Same, process, disk, clients
    <2>8. \A c \in Clients : PageInv(c)' /\ Gave(c)'
      BY <1>1, <2>5, <2>7, OnwardGave, OnwardPage DEF Same
    <2> QED
      BY <2>5, <2>8 DEF StreamInv
  <1> QED
    BY <1>2, <1>3, <1>4, <1>5, <1>6 DEF Next

\* The invariant itself: what the disk holds can be opened again, the journal
\* stands where write does, and every page is on its way to being exact.
THEOREM StreamInvariant == Spec => []StreamInv
  BY StreamInit, StreamStep, PTL DEF Spec

\* Every variable keeps its type.
THEOREM StreamTypeCorrect == Spec => []TypeOK
  <1>1. StreamInv => TypeOK
    BY DEF StreamInv, Server
  <1> QED
    BY <1>1, StreamInvariant, PTL

\* The journal has no hole and stands where write stands (journal.py:229-274),
\* with any number of crashes in the middle of an append.
THEOREM StreamJournalIsWhole == Spec => []JournalIsWhole
  <1>1. StreamInv => JournalIsWhole
    <2> SUFFICES ASSUME StreamInv, up PROVE JournalIsWhole
      BY DEF JournalIsWhole
    <2>1. ProcessTypes /\ DiskTypes
      BY ServerParts DEF StreamInv
    <2>2. faults = 0 /\ (\A e \in log : Size[e.kind] <= SegmentBytes) => ~degraded
      BY DEF StreamInv, Server, Disk, Oversized
    <2>3. ASSUME ~degraded
          PROVE  /\ latest = Handed /\ lines \subseteq log
                 /\ Handed > 0 => Handed \in Numbers(lines)
                 /\ \A e \in lines : e.seq <= Handed
      BY <2>3 DEF StreamInv, Server, Journal
    <2>4. ASSUME ~degraded, NEW e \in lines PROVE e.seq .. Handed \subseteq Numbers(lines)
      <3>1. e.seq \in Nat /\ e.seq >= 1 /\ e.seq <= Handed
        BY <2>1, <2>3, <2>4 DEF DiskTypes, Events
      <3>2. Handed \in Int
        BY <2>1 DEF ProcessTypes, Handed
      <3>3. PICK d \in lines : d.seq = Handed
        BY <2>3, <2>4, <3>1, <3>2 DEF Numbers
      <3> QED
        BY <3>3 DEF StreamInv, Server, Disk
    <2> QED
      BY <2>2, <2>3, <2>4 DEF JournalIsWhole
  <1> QED
    BY <1>1, StreamInvariant, PTL

\* A client has every event up to its cursor that it asked for, once and in
\* order (buffer.py:110-175), however its pages, the writes, the trimming, the
\* failures and the restarts fall.
THEOREM StreamPagesAreExact == Spec => []PagesAreExact
  <1>1. StreamInv => PagesAreExact
    <2> SUFFICES ASSUME StreamInv, NEW c \in Clients, known[c] = instance
                 PROVE  /\ Received(c) \subseteq log
                        /\ \A i, j \in DOMAIN delivered[c] : i < j =>
                             \A d \in delivered[c][i], e \in delivered[c][j] : d.seq < e.seq
                        /\ \A e \in Awaited(c) : e \in Received(c) \/ e.seq \in lost[c]
      BY DEF PagesAreExact
    <2>1. Gave(c)
      BY DEF StreamInv
    <2> QED
      BY <2>1 DEF Gave, Received
  <1> QED
    BY <1>1, StreamInvariant, PTL

(***************************************************************************)
(* The stream implements EventFeed.                                        *)
(***************************************************************************)
\* What the server does by itself publishes an event or discards some.
LEMMA WritePublishes ==
  ASSUME Server, NEW k \in Kinds, Write(k)
  PROVE  \E e \in Events : Feed!Publish(e)
  <1> DEFINE e == [seq |-> sequence + 1, kind |-> k, id |-> written + 1]
  <1>1. /\ written < MaxEvents /\ memory' = Evicted(memory \cup {e}, e.seq)
        /\ log' = log \cup {e} /\ sequence' = sequence + 1
        /\ UNCHANGED <<up, instance, latest, degraded, disk, clients, faults, crashes>>
    BY DEF Write
  <1>2. /\ sequence \in 0 .. MaxEvents /\ written \in 0 .. MaxEvents /\ sequence <= written
        /\ memory \subseteq Events
    BY ServerParts DEF ProcessTypes, Server, Numbering, TypeOK
  <1>3. e \in Events /\ e.seq = sequence + 1
    BY <1>1, <1>2, StreamAssumption DEF Events
  <1> HIDE DEF e
  <1>4. memory' \subseteq memory \cup {e} /\ e \in memory'
    <2>1. e.seq \in Numbers(memory \cup {e})
      BY DEF Numbers
    <2>2. PICK m \in Numbers(memory \cup {e}) :
            memory' = From(memory \cup {e}, m) /\ m <= e.seq
      BY <1>1, <1>2, <1>3, <2>1, EvictedIs
    <2>3. m \in Nat /\ e.seq \in Nat
      BY <1>2, <1>3 DEF Numbers, Events
    <2> QED
      BY <2>2, <2>3 DEF From
  <1>5. Retained' \subseteq Retained \cup {e.seq} /\ e.seq \in Retained'
    BY <1>1, <1>4 DEF Retained, Numbers, disk
  <1>6. UNCHANGED <<instance, cursor, known, Obtained, Asked>>
    BY <1>1 DEF clients, Obtained, Received, Asked
  <1> QED
    BY <1>1, <1>3, <1>5, <1>6 DEF Feed!Publish, Feed!clients

LEMMA ServerDiscards ==
  ASSUME Server, JournalAppend \/ AppendFails \/ Damage
  PROVE  Feed!Discard
  <1>1. Onward /\ memory \subseteq memory /\ pending \subseteq memory
    BY ServerOnward DEF Server, Memory
  <1>2. UNCHANGED <<instance, log, sequence, memory, clients>>
    BY DEF JournalAppend, AppendFails, Damage, process
  <1>3. Retained' \subseteq Retained
    BY <1>1, <1>2 DEF Retained, Numbers, Onward
  <1>4. UNCHANGED <<cursor, known, Obtained, Asked>>
    BY <1>2 DEF clients, Obtained, Received, Asked
  <1> QED
    BY <1>2, <1>3, <1>4 DEF Feed!Discard, Feed!feed, Feed!clients

LEMMA CrashStops ==
  ASSUME Server, Crash
  PROVE  Feed!Stop
  <1>1. /\ up /\ memory' = {} /\ degraded' = degraded
        /\ pc' = [c \in Clients |-> "idle"]
        /\ UNCHANGED <<instance, sequence, log, cursor, known, delivered>>
    BY DEF Crash
  <1>2. ASSUME ~degraded PROVE Numbers(lines') \subseteq Numbers(memory) \cup Numbers(lines)
    <2>1. CASE UNCHANGED disk
      BY <2>1 DEF disk, Numbers
    <2>2. ASSUME NEW e \in pending, PartlyAppended(e)
          PROVE  Numbers(lines') \subseteq Numbers(memory) \cup Numbers(lines)
      <3>1. lines' \subseteq lines \cup {e} /\ e \in memory
        BY <1>1, <1>2, <2>2, PartlyAppendedIs DEF Server, Memory
      <3> QED
        BY <3>1 DEF Numbers
    <2> QED
      BY <1>2, <2>1, <2>2 DEF Crash
  <1>3. Retained' \subseteq Retained
    BY <1>1, <1>2 DEF Retained, Numbers
  <1>4. Asked' = [c \in Clients |-> {}] /\ Obtained' = Obtained
    BY <1>1 DEF Asked, Obtained, Received
  <1> QED
    BY <1>1, <1>3, <1>4 DEF Feed!Stop, Feed!feed

\* A process that opens the journal has the numbering of what it found.
LEMMA OpenRestarts ==
  ASSUME StreamInv, OpenJournal \/ OpenUnreadable \/ OpenFails
  PROVE  Feed!Restart
  <1>1. Server /\ Server' /\ \A c \in Clients : PageInv(c)
    BY OpensServer DEF StreamInv
  <1>2. /\ ~up /\ instance' = instance + 1
        /\ UNCHANGED <<memory, cursor, known, pc, page, delivered>>
    BY DEF OpenJournal, OpenUnreadable, OpenFails, Open, clients
  <1>3. /\ log' \subseteq Events /\ sequence' \in Nat
        /\ \A e \in log' : e.seq <= sequence'
        /\ \A d, e \in log' : d.seq = e.seq => d = e
    BY <1>1, ServerPartsPrimed DEF ProcessTypes, Server, Numbering
  <1>4. memory' = {}
    BY <1>1, <1>2 DEF Server, Memory
  <1>5. ~degraded' => lines' \subseteq log'
    <2>1. CASE OpenJournal
      <3>1. log' = lines /\ lines' \subseteq lines
        BY <1>1, <2>1, ServerParts, LastIs DEF OpenJournal, Open, Keep, From
      <3> QED
        BY <3>1
    <2>2. CASE OpenUnreadable \/ OpenFails
      BY <2>2 DEF OpenUnreadable, OpenFails, Open
    <2> QED
      BY <2>1, <2>2
  <1>6. Retained' \subseteq {e.seq : e \in log'}
    BY <1>4, <1>5 DEF Retained, Numbers
  <1>7. Asked = [c \in Clients |-> {}] /\ Asked' = Asked /\ Obtained' = Obtained
    BY <1>1, <1>2 DEF PageInv, Asked, Obtained, Received
  <1> QED
    BY <1>2, <1>3, <1>6, <1>7 DEF Feed!Restart, Feed!clients

\* A page in the making is a question, and what Finish gives is its answer.
LEMMA SnapshotAsks ==
  ASSUME Server, NEW c \in Clients, Snapshot(c)
  PROVE  Feed!Ask(c)
  <1>1. ClientTypes
    BY ServerParts
  <1>2. /\ pc[c] = "idle" /\ pc' = [pc EXCEPT ![c] = "look"]
        /\ UNCHANGED <<process, disk, cursor, known, delivered>>
    BY DEF Snapshot
  <1>3. page'[c].kept = Retained /\ \A d \in Clients \ {c} : page'[d] = page[d]
    BY <1>1 DEF Snapshot, NoPage, ClientTypes
  <1>4. UNCHANGED <<instance, log, sequence, Retained, Obtained>>
    BY <1>2 DEF process, disk, Retained, Obtained, Received
  <1>5. Asked[c] = {} /\ Asked' = [Asked EXCEPT ![c] = {Retained}]
    BY <1>1, <1>2, <1>3 DEF Asked, ClientTypes
  <1> QED
    BY <1>2, <1>4, <1>5 DEF Feed!Ask, Feed!feed

LEMMA PageGoesOn ==
  ASSUME Server, NEW c \in Clients, Look(c) \/ Check(c) \/ Read(c)
  PROVE  Feed!Discard
  <1>1. ClientTypes /\ page[c] \in Pages
    BY ServerParts, ClientIs
  <1>2. pc[c] # "idle" /\ pc'[c] # "idle" /\ \A d \in Clients \ {c} : pc'[d] = pc[d]
    BY <1>1 DEF Look, Check, Read, ClientTypes
  <1>3. page'[c].kept = page[c].kept /\ \A d \in Clients \ {c} : page'[d] = page[d]
    <2>1. CASE Look(c) \/ Check(c)
      BY <1>1, <2>1 DEF Look, Check, Pages, ClientTypes
    <2>2. CASE Read(c)
      <3> DEFINE found == JournalPage(page[c].after, Min({page[c].upper, Oldest(page[c]) - 1}))
                 q == Old(page[c], found)
      <3>1. page' = page \/ page' = [page EXCEPT ![c] = q]
        BY <2>2 DEF Read
      <3> HIDE DEF found
      <3>2. q.kept = page[c].kept
        BY <1>1 DEF Old, Pages
      <3> HIDE DEF q
      <3> QED
        BY <1>1, <3>1, <3>2 DEF ClientTypes
    <2> QED
      BY <2>1, <2>2
  <1>4. UNCHANGED <<instance, log, sequence, memory, lines, cursor, known, delivered>>
    BY DEF Look, Check, Read, process, disk
  <1>5. degraded => degraded'
    BY DEF Look, Check, Read, process
  <1>6. Retained' \subseteq Retained
    BY <1>4, <1>5 DEF Retained
  <1>7. UNCHANGED <<Asked, Obtained>>
    BY <1>2, <1>3, <1>4 DEF Asked, Obtained, Received
  <1> QED
    BY <1>4, <1>6, <1>7 DEF Feed!Discard, Feed!feed, Feed!clients

LEMMA FinishAnswers ==
  ASSUME Server, NEW c \in Clients, PageInv(c), Gave(c), Finish(c)
  PROVE  \E n \in 0 .. sequence :
           \/ Feed!Gap(c, n)
           \/ \E new \in SUBSET (Feed!Between(c, n) \cap Shown(Events)) : Feed!Page(c, n, new)
  <1> DEFINE p == page[c]
             r == Result(p)
             n == r.scanned
             new == p.events \cup r.new
             batches == Given(Given(delivered[c], p.events), r.new)
  <1>1. /\ ProcessTypes /\ ClientTypes /\ TypeOK /\ p \in Pages
        /\ delivered[c] \in Seq(SUBSET Events)
    BY ServerParts, ClientIs
  <1>2. /\ pc[c] = "finish" /\ pc' = [pc EXCEPT ![c] = "idle"]
        /\ cursor' = [cursor EXCEPT ![c] = n] /\ known' = [known EXCEPT ![c] = instance]
        /\ delivered' = [delivered EXCEPT ![c] = IF r.gap THEN <<>> ELSE batches]
        /\ page' = [page EXCEPT ![c] = NoPage]
        /\ UNCHANGED <<process, disk>>
    BY DEF Finish
  <1>3. n \in 0 .. sequence /\ r.gap \in BOOLEAN
    <2>1. /\ p.scanned <= p.upper /\ p.upper <= sequence /\ p.upper \in 0 .. MaxEvents
          /\ p.scanned \in 0 .. MaxEvents /\ sequence \in 0 .. MaxEvents
      BY <1>1, <1>2 DEF PageInv, Progress, Copy, Pages, ProcessTypes
    <2>2. n \in p.scanned .. p.upper /\ r.gap \in BOOLEAN
      BY <1>1, <2>1, ResultIs
    <2> QED
      BY <2>1, <2>2
  <1>4. Asked[c] = {p.kept} /\ Asked' = [Asked EXCEPT ![c] = {}]
    BY <1>1, <1>2 DEF Asked, ClientTypes
  <1>5. UNCHANGED <<instance, log, sequence, Retained>>
    BY <1>2 DEF process, disk, Retained
  <1> HIDE DEF n, new, batches, r
  <1>6. /\ delivered'[c] = (IF r.gap THEN <<>> ELSE batches)
        /\ \A d \in Clients \ {c} : delivered'[d] = delivered[d]
    BY <1>1, <1>2 DEF ClientTypes
  <1>7. Obtained' = [Obtained EXCEPT ![c] = In(delivered'[c])]
    BY <1>6 DEF Obtained, Received, In
  <1>8. CASE r.gap
    <2>1. In(delivered'[c]) = {}
      BY <1>6, <1>8 DEF In
    <2>2. Feed!Gap(c, n)
      BY <1>2, <1>3, <1>4, <1>5, <1>7, <2>1 DEF Feed!Gap, Feed!Answer, Feed!feed
    <2> QED
      BY <1>3, <2>2
  <1>9. CASE ~r.gap
    <2>1. /\ p.after = cursor[c] /\ known[c] \in {0, instance} /\ cursor[c] <= n
          /\ \A e \in new : e \in log /\ Visible(e) /\ cursor[c] < e.seq /\ e.seq <= n
          /\ \A e \in log : cursor[c] < e.seq /\ e.seq <= n =>
               e.seq \in p.kept /\ (Visible(e) => e \in new \/ e.seq \notin Retained)
      BY <1>2, <1>9, PageIs DEF n, new, r
    <2>2. log \subseteq Events
      BY <1>1 DEF ProcessTypes
    <2>3. In(batches) = In(delivered[c]) \cup new
      <3> DEFINE first == Given(delivered[c], p.events)
      <3>1. p.events \in SUBSET Events /\ r.new \in SUBSET Events
        BY <2>1, <2>2 DEF new
      <3> HIDE DEF p
      <3>2. first \in Seq(SUBSET Events) /\ In(first) = In(delivered[c]) \cup p.events
        BY <1>1, <3>1, GivenHas
      <3> HIDE DEF first
      <3>3. In(Given(first, r.new)) = In(first) \cup r.new
        BY <3>1, <3>2, GivenHas
      <3> QED
        BY <3>2, <3>3 DEF batches, new, first
    <2>4. Obtained' = [Obtained EXCEPT ![c] = Obtained[c] \cup new]
      <3>1. Obtained[c] = In(delivered[c])
        BY DEF Obtained, Received, In
      <3> QED
        BY <1>6, <1>9, <1>7, <2>3, <3>1
    <2>5. /\ new \subseteq Feed!Between(c, n) \cap Shown(Events)
          /\ \A e \in Feed!Between(c, n) \cap Shown(Events) : e.seq \in Retained => e \in new
          /\ \A kept \in Asked[c], e \in Feed!Between(c, n) : e.seq \in kept
      BY <1>4, <2>1, <2>2 DEF Feed!Between, Shown
    <2>6. Feed!Answer(c, n, Obtained[c] \cup new)
      BY <1>2, <1>3, <1>4, <1>5, <2>4 DEF Feed!Answer, Feed!feed
    <2>7. Feed!Page(c, n, new)
      BY <2>1, <2>5, <2>6 DEF Feed!Page
    <2> QED
      BY <1>3, <2>5, <2>7
  <1> QED
    BY <1>3, <1>8, <1>9

\* Step by step the stream is an EventFeed (buffer.py:110-175): a page that is
\* put together from a copy of the memory, two looks at the journal and what
\* that still holds is one answer to the question the client asked, and it is a
\* gap or goes on without leaving out an event that is retained.
THEOREM StreamImplementsFeed == Spec => PagesAreAnswers
  <1>1. Init => Feed!Init
    <2> SUFFICES ASSUME Init PROVE Feed!Init
      OBVIOUS
    <2>1. Retained = {}
      BY DEF Init, Retained, Numbers
    <2>2. /\ Obtained = [c \in Clients |-> {}]
          /\ Asked = [c \in Clients |-> {}]
      BY DEF Init, Obtained, Received, Asked
    <2> QED
      BY <2>1, <2>2 DEF Init, Feed!Init
  <1>2. StreamInv /\ [Next]_vars => [Feed!Next]_(Feed!vars)
    <2> SUFFICES ASSUME StreamInv, [Next]_vars PROVE [Feed!Next]_(Feed!vars)
      OBVIOUS
    <2>1. Server /\ \A c \in Clients : PageInv(c) /\ Gave(c)
      BY DEF StreamInv
    <2>2. ASSUME NEW k \in Kinds, Write(k) PROVE Feed!Next
      BY <2>1, <2>2, WritePublishes DEF Feed!Next
    <2>3. CASE JournalAppend \/ AppendFails \/ Damage
      BY <2>1, <2>3, ServerDiscards DEF Feed!Next
    <2>4. CASE Crash
      BY <2>1, <2>4, CrashStops DEF Feed!Next
    <2>5. CASE OpenJournal \/ OpenUnreadable \/ OpenFails
      BY <2>5, OpenRestarts DEF Feed!Next
    <2>6. ASSUME NEW c \in Clients, Replay(c) PROVE Feed!Next
      <3>1. CASE Snapshot(c)
        BY <2>1, <3>1, SnapshotAsks DEF Feed!Next
      <3>2. CASE Look(c) \/ Check(c) \/ Read(c)
        BY <2>1, <3>2, PageGoesOn DEF Feed!Next
      <3>3. CASE Finish(c)
        BY <2>1, <3>3, FinishAnswers DEF Feed!Next
      <3> QED
        BY <2>6, <3>1, <3>2, <3>3 DEF Replay
    <2>7. CASE UNCHANGED vars
      BY <2>7 DEF vars, process, disk, clients, Feed!vars, Feed!feed, Feed!clients,
                  Retained, Obtained, Received, Asked
    <2> QED
      BY <2>2, <2>3, <2>4, <2>5, <2>6, <2>7 DEF Next
  <1> QED
    BY <1>1, <1>2, StreamInvariant, PTL DEF Spec, PagesAreAnswers, Feed!Spec
================================================================================
