---------------------------- MODULE DayRollover ----------------------------
(***************************************************************************)
(* What the archive owner promises of the calendar day (docs/design/       *)
(* reflection.md, "日切与归档"): there is one current day, work is written *)
(* into it, and closing it is one atomic step that puts everything written *)
(* on it on the shelf of the archives and opens the next day.  Crashes,    *)
(* failures and recoveries do not show.                                    *)
(***************************************************************************)
EXTENDS Naturals

CONSTANTS Parts,   \* the participants that keep facts of a day
          Days,    \* calendar days, numbered from 1
          NoDay    \* no day was opened yet

VARIABLES current,   \* the open day
          written,   \* <<participant, day>>: facts that were written
          archived,  \* the closed days a reader finds through the catalog
          shelf      \* the facts found in their archives

vars == <<current, written, archived, shelf>>

Init == current = NoDay /\ written = {} /\ archived = {} /\ shelf = {}

Open(d) ==
  /\ current = NoDay /\ current' = d
  /\ UNCHANGED <<written, archived, shelf>>

Write(p) ==
  /\ current # NoDay
  /\ written' = written \cup {<<p, current>>}
  /\ UNCHANGED <<current, archived, shelf>>

Rollover(d) ==
  /\ current # NoDay /\ d > current /\ current' = d
  /\ archived' = archived \cup {current}
  /\ shelf' = shelf \cup {w \in written : w[2] = current}
  /\ UNCHANGED written

Next == \/ \E d \in Days : Open(d) \/ Rollover(d)
        \/ \E p \in Parts : Write(p)

Spec == Init /\ [][Next]_vars
==============================================================================
