------------------------------- MODULE EventStream -------------------------------
(***************************************************************************)
(* The Endpoint's observation stream (gateway/endpoint/events): a bounded  *)
(* buffer in memory, a segmented journal behind it, and clients that read  *)
(* both in pages while events are written, segments are trimmed, the disk  *)
(* fails and the process restarts.  Writers are serialized by the lock of  *)
(* ObservationRouter; a page is put together in a thread of its own.       *)
(* An event carries its number, so the memory, the segments and a page are *)
(* sets of events: whatever scans them does it upwards.                    *)
(***************************************************************************)
EXTENDS Integers, Sequences, FiniteSets, FiniteSetsExt

CONSTANTS Kinds,         \* kinds of event
          Hidden,        \* kinds above the level that the clients ask for
          Size,          \* bytes of an event of each kind
          Clients,
          Capacity, MaxBytes,         \* bounds of the memory
          SegmentBytes, TotalBytes,   \* bounds of the journal
          Limit, PageBytes,           \* bounds of a page
          MaxEvents,     \* events ever written
          MaxFaults,     \* failures of the disk and damaged files
          MaxCrashes     \* restarts of the process

ASSUME StreamAssumption ==
  /\ Hidden \subseteq Kinds /\ Size \in [Kinds -> Nat \ {0}]
  /\ Capacity \in Nat \ {0} /\ MaxBytes \in Nat \ {0}
  /\ Limit \in Nat \ {0} /\ PageBytes \in Nat \ {0}
  /\ SegmentBytes \in Nat \ {0} /\ TotalBytes \in Nat \ {0}
  /\ MaxEvents \in Nat /\ MaxFaults \in Nat /\ MaxCrashes \in Nat
  /\ \A k \in Kinds : Size[k] <= MaxBytes
  /\ SegmentBytes <= TotalBytes

VARIABLES up,        \* the process lives
          instance,  \* its identity
          memory,    \* _events
          sequence,  \* _sequence
          pending,   \* the event that write has yet to give to the journal
          latest,    \* _latest_sequence of the journal
          degraded,  \* _degraded
          names,     \* the segment files, each by its first number
          lines,     \* the events in them
          bad,       \* the files that cannot be read
          torn,      \* the file that ends with half a line, or 0
          pc,        \* where each client's page stands
          page,      \* what replay holds of it so far
          cursor,    \* next_sequence of the client's last page
          known,     \* the instance it came from, 0 before the first
          log,       \* history: the events under the present numbering
          since,     \* history: the cursor at the client's last gap
          delivered, \* history: what it got after that
          lost,      \* history: numbers discarded while one of its pages was made
          written, faults, crashes

process == <<up, instance, memory, sequence, pending, latest, degraded, log>>
disk == <<names, lines, bad, torn>>
clients == <<pc, page, cursor, known, since, delivered, lost>>
counters == <<written, faults, crashes>>
vars == <<process, disk, clients, counters>>

Events == [seq : 1..MaxEvents, kind : Kinds, id : 1..MaxEvents]

Pages == [after : 0..MaxEvents, gap : BOOLEAN, memory : SUBSET Events,
          upper : 0..MaxEvents, reading : BOOLEAN, events : SUBSET Events,
          scanned : 0..MaxEvents, stopped : BOOLEAN, complete : BOOLEAN,
          kept : SUBSET (1..MaxEvents)]

NoPage == [after |-> 0, gap |-> FALSE, memory |-> {}, upper |-> 0,
           reading |-> FALSE, events |-> {}, scanned |-> 0,
           stopped |-> FALSE, complete |-> TRUE, kept |-> {}]

Init ==
  /\ up = TRUE /\ instance = 1 /\ memory = {} /\ sequence = 0 /\ pending = {}
  /\ latest = 0 /\ degraded = FALSE /\ log = {}
  /\ names = {} /\ lines = {} /\ bad = {} /\ torn = 0
  /\ pc = [c \in Clients |-> "idle"] /\ page = [c \in Clients |-> NoPage]
  /\ cursor = [c \in Clients |-> 0] /\ known = [c \in Clients |-> 0]
  /\ since = [c \in Clients |-> 0] /\ delivered = [c \in Clients |-> <<>>]
  /\ lost = [c \in Clients |-> {}]
  /\ written = 0 /\ faults = 0 /\ crashes = 0

Bytes(es) == MapThenSumSet(LAMBDA e : Size[e.kind], es)
Visible(e) == e.kind \notin Hidden
Shown(es) == {e \in es : Visible(e)}
Numbers(es) == {e.seq : e \in es}
From(es, n) == {e \in es : e.seq >= n}
UpTo(es, n) == {e \in es : e.seq <= n}

Retained == Numbers(memory) \cup (IF degraded THEN {} ELSE Numbers(lines))

----------------------------------------------------------------------------
(* Writing.                                                                *)

\* The newest events that the memory has room for; the last one has it, for
\* write refuses an event larger than the memory.
Evicted(es, last) ==
  From(es, Min({n \in Numbers(es) : \/ n = last
                                    \/ /\ Cardinality(From(es, n)) <= Capacity
                                       /\ Bytes(From(es, n)) <= MaxBytes}))

Write(kind) ==
  /\ up /\ pending = {} /\ written < MaxEvents
  /\ LET e == [seq |-> sequence + 1, kind |-> kind, id |-> written + 1]
     IN /\ memory' = Evicted(memory \cup {e}, e.seq)
        /\ pending' = {e} /\ log' = log \cup {e}
  /\ sequence' = sequence + 1 /\ written' = written + 1
  /\ UNCHANGED <<up, instance, latest, degraded, disk, clients, faults, crashes>>

\* The events in the segment that begins with number f.
Segment(f) == {e \in lines : e.seq >= f /\ \A g \in names : g > f => e.seq < g}

Rotated(e) ==
  IF names = {} \/ Bytes(Segment(Max(names))) + Size[e.kind] > SegmentBytes
    THEN names \cup {e.seq} ELSE names

\* Where the segments begin that the journal's budget keeps; the last one stays.
Start(ns, es) ==
  Min({f \in ns : (\A g \in ns : g <= f) \/ Bytes(From(es, f)) <= TotalBytes})

\* Of the segments ns with the events es those from f on stay on the disk.
Keep(ns, es, f) ==
  /\ names' = {g \in ns : g >= f} /\ lines' = From(es, f)
  /\ bad' = {g \in bad : g \in ns /\ g >= f}

\* The journal takes the number that continues it, and no event that is larger
\* than a segment; write has no such bound.
Admits(e) == e.seq = latest + 1 /\ Size[e.kind] <= SegmentBytes

\* Everything the disk may hold on the way through _append_locked.
PartlyAppended(e) ==
  \/ UNCHANGED disk
  \/ /\ Admits(e)
     /\ names' = Rotated(e) /\ torn' \in {torn, Max(Rotated(e))}
     /\ UNCHANGED <<lines, bad>>
  \/ /\ Admits(e)
     /\ \E f \in Rotated(e) : /\ f <= Start(Rotated(e), lines \cup {e})
                              /\ Keep(Rotated(e), lines \cup {e}, f)
     /\ UNCHANGED torn

\* The journal's turn; a degraded one takes nothing.
JournalAppend ==
  /\ up
  /\ \E e \in pending :
       IF degraded
         THEN UNCHANGED <<disk, latest>>
         ELSE /\ Admits(e)
              /\ Keep(Rotated(e), lines \cup {e}, Start(Rotated(e), lines \cup {e}))
              /\ latest' = e.seq /\ UNCHANGED torn
  /\ pending' = {}
  /\ UNCHANGED <<up, instance, memory, sequence, degraded, log, clients, counters>>

\* Any failure on the way degrades the journal for the life of the process; so,
\* with a disk in order, does an event that it does not admit.
AppendFails ==
  /\ up /\ ~degraded
  /\ \E e \in pending :
       IF Admits(e)
         THEN faults < MaxFaults /\ faults' = faults + 1 /\ PartlyAppended(e)
         ELSE UNCHANGED <<disk, faults>>
  /\ degraded' = TRUE /\ pending' = {}
  /\ UNCHANGED <<up, instance, memory, sequence, latest, log, clients, written, crashes>>

----------------------------------------------------------------------------
(* The process and the disk.                                               *)

\* A segment becomes unreadable.
Damage ==
  /\ faults < MaxFaults /\ faults' = faults + 1
  /\ \E f \in names : bad' = bad \cup {f}
  /\ UNCHANGED <<process, names, lines, torn, clients, written, crashes>>

\* The process dies, possibly in the middle of an append; so do the pages that
\* were being made.
Crash ==
  /\ up /\ crashes < MaxCrashes /\ crashes' = crashes + 1
  /\ up' = FALSE /\ memory' = {} /\ pending' = {}
  /\ \/ /\ pending = {} \/ degraded
        /\ UNCHANGED disk
     \/ /\ ~degraded
        /\ \E e \in pending : PartlyAppended(e)
  /\ pc' = [c \in Clients |-> "idle"] /\ page' = [c \in Clients |-> NoPage]
  /\ UNCHANGED <<instance, sequence, latest, degraded, log, cursor, known, since,
                 delivered, lost, written, faults>>

\* _reconcile_parts: empty segments go, a torn last line is cut off.
Healed == {f \in names : Segment(f) # {}}

\* It refuses a segment that does not parse, half a line before the last
\* segment, and numbers with a hole.
Unreadable ==
  \/ bad # {}
  \/ torn # 0 /\ \E f \in names : f > torn
  \/ \E d, e \in lines : \E n \in d.seq .. e.seq : n \notin Numbers(lines)

\* The last number on the disk.
LastOnDisk == Max({0} \cup Numbers(lines))

\* A new process numbers from where its journal ends.
Open(number, failed) ==
  /\ ~up /\ up' = TRUE /\ instance' = instance + 1
  /\ sequence' = number /\ latest' = number /\ degraded' = failed
  /\ log' = UpTo(lines, number)
  /\ UNCHANGED <<memory, pending, clients, written, crashes>>

\* MUTANT of OpenJournal: the buffer starts to number at zero.
OpenAtZero ==
  /\ ~Unreadable
  /\ Open(0, FALSE) /\ torn' = 0
  /\ Keep(Healed, lines, Start(Healed, lines))
  /\ UNCHANGED faults

OpenJournal ==
  /\ ~Unreadable
  /\ Open(LastOnDisk, FALSE) /\ torn' = 0
  /\ Keep(Healed, lines, Start(Healed, lines))
  /\ UNCHANGED faults

\* A damaged segment fails the whole of it.
OpenUnreadable ==
  /\ Unreadable
  /\ Open(0, TRUE)
  /\ UNCHANGED <<disk, faults>>

\* The disk fails before the segments are known, or after, while it trims or
\* writes the manifest.
OpenFails ==
  /\ ~Unreadable /\ faults < MaxFaults /\ faults' = faults + 1
  /\ \/ Open(0, TRUE) /\ UNCHANGED disk
     \/ /\ Open(LastOnDisk, TRUE) /\ torn' = 0
        /\ \E f \in {0} \cup {g \in Healed : g <= Start(Healed, lines)} :
             Keep(Healed, lines, f)

----------------------------------------------------------------------------
(* A page.                                                                 *)

Oldest(p) == IF p.memory = {} THEN p.upper + 1 ELSE Min(Numbers(p.memory))

\* The client asks with its cursor and instance, at once or when wait_after
\* wakes; replay takes a copy of the memory.
Snapshot(c) ==
  /\ up /\ pc[c] = "idle"
  /\ LET reset == known[c] \notin {0, instance}
         ahead == ~reset /\ cursor[c] > sequence
     IN page' = [page EXCEPT ![c] =
          [NoPage EXCEPT !.after = IF reset \/ ahead THEN 0 ELSE cursor[c],
                         !.gap = reset \/ ahead,
                         !.memory = memory, !.upper = sequence,
                         !.kept = Retained]]
  /\ pc' = [pc EXCEPT ![c] = "look"]
  /\ UNCHANGED <<process, disk, cursor, known, since, delivered, lost, counters>>

\* How far back the journal goes, if it can be used.
Look(c) ==
  /\ up /\ pc[c] = "look"
  /\ LET p == page[c]
         oldest == IF degraded \/ names = {} THEN Oldest(p) ELSE Min(names)
     IN page' = [page EXCEPT ![c].gap = @ \/ p.after < oldest - 1]
  /\ pc' = [pc EXCEPT ![c] = "check"]
  /\ UNCHANGED <<process, disk, cursor, known, since, delivered, lost, counters>>

\* Whether the journal is read: it is asked again.
Check(c) ==
  /\ up /\ pc[c] = "check"
  /\ LET p == page[c]
         reading == ~degraded /\ p.after < Oldest(p) - 1
     IN /\ page' = [page EXCEPT ![c].reading = reading, ![c].scanned = p.after]
        /\ pc' = [pc EXCEPT ![c] = IF reading THEN "read" ELSE "finish"]
  /\ UNCHANGED <<process, disk, cursor, known, since, delivered, lost, counters>>

\* The unreadable segments that hold an event after the given one.
Damaged(after) == {f \in bad : \E e \in Segment(f) : e.seq > after}

\* read_after_page up to `through`: the events, how far they were scanned, and
\* whether a segment could not be read.
JournalPage(after, through) ==
  LET readable == {e \in lines : e.seq > after /\ \A f \in Damaged(after) : e.seq < f}
      shown == Shown(UpTo(readable, through))
      beyond == \E e \in readable : e.seq > through
      full == Cardinality(shown) >= Limit
      scanned == IF full THEN Min({n \in Numbers(shown) : Cardinality(UpTo(shown, n)) >= Limit})
                 ELSE IF beyond THEN through
                 ELSE Max({after} \cup Numbers(readable))
  IN [events |-> UpTo(shown, scanned), scanned |-> scanned, full |-> full,
      broken |-> ~full /\ ~beyond /\ Damaged(after) # {}]

\* MUTANT of Accepts: the first event of a page has to fit too.
AcceptsWithinBytes(got, e) ==
  /\ Cardinality(got) < Limit
  /\ ~Visible(e) \/ Bytes(got) + Size[e.kind] <= PageBytes

\* The page takes one more event.
Accepts(got, e) ==
  /\ Cardinality(got) < Limit
  /\ ~Visible(e) \/ got = {} \/ Bytes(got) + Size[e.kind] <= PageBytes

\* What it takes of the events es after those it has got: one after the other,
\* until it does not accept one.
Taken(got, es) ==
  {e \in es : \A d \in UpTo(es, e.seq) :
                Accepts(got \cup Shown(UpTo(es, d.seq - 1)), d)}

\* The page goes on over the events es: what it shows of them, how far it has
\* come, and whether it ends there.
Extended(got, scanned, es) ==
  LET taken == Taken(got, es)
  IN [events |-> Shown(taken), scanned |-> Max({scanned} \cup Numbers(taken)),
      stopped |-> taken # es \/ Cardinality(got \cup Shown(taken)) >= Limit]

\* What the page takes of the journal.
Old(p, found) ==
  LET old == Extended({}, p.after, found.events)
  IN [p EXCEPT !.events = old.events, !.stopped = old.stopped,
               !.scanned = IF old.stopped THEN old.scanned
                           ELSE Max({old.scanned, found.scanned}),
               !.complete = ~found.full /\ ~found.broken]

Read(c) ==
  /\ up /\ pc[c] = "read"
  /\ LET p == page[c]
         found == JournalPage(p.after, Min({p.upper, Oldest(p) - 1}))
     IN IF degraded
          THEN UNCHANGED <<page, degraded>>
          ELSE /\ page' = [page EXCEPT ![c] = Old(p, found)]
               /\ degraded' = found.broken
  /\ pc' = [pc EXCEPT ![c] = "finish"]
  /\ UNCHANGED <<up, instance, memory, sequence, pending, latest, log, disk, cursor,
                 known, since, delivered, lost, counters>>

\* MUTANT of Result: a page that was cut short claims to reach the end.
ResultToTheEnd(p) ==
  LET rest == {e \in p.memory : e.seq > p.scanned /\ e.seq <= p.upper}
      more == Extended(p.events, p.scanned, rest)
  IN [new |-> more.events, scanned |-> Max({more.scanned, p.upper}),
      gap |-> p.gap \/ (p.reading /\ degraded)]

\* What replay returns after the journal's events: those of the memory, how far
\* they go, and whether there is a gap.
Result(p) ==
  LET rest == {e \in p.memory : e.seq > p.scanned /\ e.seq <= p.upper}
      more == Extended(p.events, p.scanned, rest)
  IN IF p.stopped \/ (~p.complete /\ ~degraded)
       THEN [new |-> {}, scanned |-> p.scanned, gap |-> p.gap]
       ELSE [new |-> more.events,
             scanned |-> IF more.stopped THEN more.scanned
                         ELSE Max({more.scanned, p.upper}),
             gap |-> p.gap \/ (p.reading /\ degraded)]

Given(batches, es) == IF es = {} THEN batches ELSE Append(batches, es)

\* The client takes the page; after a gap it starts anew.
Finish(c) ==
  /\ up /\ pc[c] = "finish"
  /\ LET p == page[c]
         got == Result(p)
     IN /\ cursor' = [cursor EXCEPT ![c] = got.scanned]
        /\ since' = [since EXCEPT ![c] = IF got.gap THEN got.scanned ELSE @]
        /\ delivered' = [delivered EXCEPT ![c] =
                           IF got.gap THEN <<>> ELSE Given(Given(@, p.events), got.new)]
        /\ lost' = [lost EXCEPT ![c] = IF got.gap THEN {} ELSE @ \cup (p.kept \ Retained)]
  /\ known' = [known EXCEPT ![c] = instance]
  /\ pc' = [pc EXCEPT ![c] = "idle"] /\ page' = [page EXCEPT ![c] = NoPage]
  /\ UNCHANGED <<process, disk, counters>>

----------------------------------------------------------------------------
Replay(c) == Snapshot(c) \/ Look(c) \/ Check(c) \/ Read(c) \/ Finish(c)

Next ==
  \/ \E k \in Kinds : Write(k)
  \/ JournalAppend \/ AppendFails
  \/ Damage \/ Crash \/ OpenJournal \/ OpenUnreadable \/ OpenFails
  \/ \E c \in Clients : Replay(c)

Spec == Init /\ [][Next]_vars

\* A client goes on asking and its thread goes on; a write reaches the journal,
\* which takes the event or degrades.
FairSpec ==
  /\ Spec
  /\ WF_vars(JournalAppend \/ AppendFails)
  /\ \A c \in Clients : WF_vars(Replay(c))

----------------------------------------------------------------------------
(* Properties.                                                             *)

TypeOK ==
  /\ up \in BOOLEAN /\ instance \in 1..MaxCrashes + 1
  /\ memory \subseteq Events /\ pending \subseteq Events /\ log \subseteq Events
  /\ sequence \in 0..MaxEvents /\ latest \in 0..MaxEvents /\ degraded \in BOOLEAN
  /\ names \subseteq 1..MaxEvents /\ lines \subseteq Events
  /\ bad \subseteq names /\ torn \in 0..MaxEvents
  /\ pc \in [Clients -> {"idle", "look", "check", "read", "finish"}]
  /\ page \in [Clients -> Pages]
  /\ cursor \in [Clients -> 0..MaxEvents] /\ known \in [Clients -> 0..MaxCrashes + 1]
  /\ since \in [Clients -> 0..MaxEvents]
  /\ delivered \in [Clients -> Seq(SUBSET Events)]
  /\ lost \in [Clients -> SUBSET (1..MaxEvents)]
  /\ written \in 0..MaxEvents /\ faults \in 0..MaxFaults /\ crashes \in 0..MaxCrashes

Received(c) == UNION {delivered[c][i] : i \in DOMAIN delivered[c]}
Awaited(c) == {e \in log : Visible(e) /\ e.seq > since[c] /\ e.seq <= cursor[c]}

\* Page after page, a client whose pages came without a gap has every event up
\* to its cursor that its level shows, none of them twice and each batch after
\* the one before it, whatever was written or evicted meanwhile.  Excepted are
\* events that the journal gave up while one of its pages was being made.
PagesAreExact ==
  \A c \in Clients : known[c] = instance =>
    /\ Received(c) \subseteq log
    /\ \A i, j \in DOMAIN delivered[c] : i < j =>
         \A d \in delivered[c][i], e \in delivered[c][j] : d.seq < e.seq
    /\ \A e \in Awaited(c) : e \in Received(c) \/ e.seq \in lost[c]

\* docs/design/endpoint.md:74: an evicted interval is presented by a gap.
EvictionIsAnnounced ==
  \A c \in Clients : known[c] = instance => Awaited(c) \subseteq Received(c)

\* The last number that write has given to the journal.
Handed == IF pending = {} THEN sequence ELSE sequence - 1

\* The journal holds the last events of the present numbering without a hole,
\* up to the newest that write has given it, at every moment and after every
\* restart; nothing degrades it but a failing disk or an event of this
\* numbering that no segment can hold.
JournalIsWhole ==
  up => /\ faults = 0 /\ (\A e \in log : Size[e.kind] <= SegmentBytes) => ~degraded
        /\ ~degraded =>
             /\ latest = Handed /\ lines \subseteq log
             /\ Handed > 0 => Handed \in Numbers(lines)
             /\ \A e \in lines : /\ e.seq <= Handed
                                 /\ e.seq .. Handed \subseteq Numbers(lines)

\* What EventFeed knows of the clients.
Obtained == [c \in Clients |-> Received(c)]
Asked == [c \in Clients |-> IF pc[c] = "idle" THEN {} ELSE {page[c].kept}]

Feed == INSTANCE EventFeed WITH
  Wanted <- Shown(Events), retained <- Retained, got <- Obtained, asked <- Asked

\* The stream implements EventFeed: the steps that make a page, between which
\* anything may be written, trimmed or lost, come to one answer.
PagesAreAnswers == Feed!Spec

\* A client that goes on asking comes to the end of the stream again and again:
\* no page, however small, leaves its cursor where it was.
FollowersCatchUp ==
  \A c \in Clients : []<>(up => known[c] = instance /\ cursor[c] = sequence)
=============================================================================
