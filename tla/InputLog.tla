------------------------------- MODULE InputLog -------------------------------
(***************************************************************************)
(* What the collection of inputs promises, without queues or retries: each *)
(* player owns one wish per tick of a window ahead of the race, the newest *)
(* wish for a tick stands, and when the tick is played the log grows by    *)
(* one entry that gives every player its wish, or what it had before.      *)
(* Nothing that was played is ever changed.                                *)
(***************************************************************************)
EXTENDS Naturals, Sequences

CONSTANTS MaxPlayers, Controls, NoControls, Window

VARIABLES
  wishes,   \* per player, a function from some ticks to control words
  log,      \* the control words played, per tick and player
  over      \* the race is over

vars == <<wishes, log, over>>

now == Len(log)
Players == DOMAIN wishes
NoWishes == [t \in {} |-> NoControls]

Init ==
  /\ wishes = <<>>
  /\ log = <<>>
  /\ over = FALSE

\* A race for n players is set up (or, with none, fails to be).
Open(n) ==
  /\ now = 0
  /\ wishes' = [p \in 1..n |-> NoWishes]
  /\ log' = <<>>
  /\ over' = FALSE

Wish(p, t, c) ==
  /\ ~over
  /\ t \in now..(now + Window)
  /\ wishes' = [wishes EXCEPT ![p] = [u \in DOMAIN @ \union {t} |-> IF u = t THEN c ELSE @[u]]]
  /\ UNCHANGED <<log, over>>

Before(p) == IF now = 0 THEN NoControls ELSE log[now][p]

Play ==
  /\ ~over
  /\ Players # {}
  /\ log' = Append(log, [p \in Players |-> IF now \in DOMAIN wishes[p]
                                           THEN wishes[p][now] ELSE Before(p)])
  /\ wishes' = [p \in Players |-> [t \in {u \in DOMAIN wishes[p] : u > now} |-> wishes[p][t]]]
  /\ over' \in BOOLEAN

Next ==
  \/ \E n \in 0..MaxPlayers : Open(n)
  \/ \E p \in Players, t \in now..(now + Window), c \in Controls : Wish(p, t, c)
  \/ Play

Spec == Init /\ [][Next]_vars
=============================================================================
