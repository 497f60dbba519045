--------------------------------- MODULE Room ---------------------------------
(***************************************************************************)
(* What a race promises the lobby that routes connections to it: who is in *)
(* it, how many seats it has, whether it has started and whether it is     *)
(* over.  Slots, tokens, frames and ticks are inside (module RaceHost,     *)
(* which module RaceHostRoom shows to keep this promise).  Each operator   *)
(* gives the rooms that one may become.                                    *)
(***************************************************************************)
EXTENDS Integers, FiniteSets

NewRoom(seats) ==
  [drivers |-> {}, watchers |-> {}, seats |-> seats, started |-> FALSE, finished |-> FALSE]

Members(r) == r.drivers \union r.watchers

\* Hello.  The last seat starts the race, unless it has several and a host to wait for.
MayEnter(r) == ~r.started /\ Cardinality(r.drivers) < r.seats

Entered(r, c) ==
  LET drivers == r.drivers \union {c}
      full    == Cardinality(drivers) >= r.seats
  IN  {[r EXCEPT !.drivers = drivers, !.started = starts] :
         starts \in {b \in BOOLEAN : (b => full) /\ (full /\ r.seats = 1 => b)}}

\* StartRace: with empty seats the race is set up again for those who are there,
\* and if that fails they are sent away.
MayBegin(r) == ~r.started /\ r.drivers # {}

Begun(r) ==
  LET present == Cardinality(r.drivers)
  IN  {[r EXCEPT !.seats = present, !.started = TRUE]}
        \union {[r EXCEPT !.seats = s, !.drivers = {}] : s \in {present} \ {r.seats}}

\* Resume: the connection takes its slot back, from whoever still holds it.
Returned(r, c) ==
  LET Back(away) == (r.drivers \ away) \union {c}
  IN  {[r EXCEPT !.drivers = Back(away)] :
         away \in {a \in {{}} \union {{d} : d \in r.drivers} : Cardinality(Back(a)) <= r.seats}}

\* Spectate.
MayWatch(r, limit) == r.started /\ Cardinality(r.watchers) < limit
Watched(r, c) == [r EXCEPT !.watchers = r.watchers \union {c}]

\* A connection is lost, or the race closes it.
Parted(r, c) == [r EXCEPT !.drivers = r.drivers \ {c}, !.watchers = r.watchers \ {c}]

\* Time passes: a race under way may end; one whose host left sends the others away.
Passed(r) ==
  {r} \union {[r EXCEPT !.finished = TRUE] : s \in {TRUE} \intersect {r.started}}
      \union {[r EXCEPT !.drivers = {}] : s \in {FALSE} \intersect {r.started}}
=============================================================================
