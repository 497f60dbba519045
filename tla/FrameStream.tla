------------------------------ MODULE FrameStream ------------------------------
(***************************************************************************)
(* What the two ends of a connection promise each other: each way, frames  *)
(* arrive in the order in which they were sent, none is missing between    *)
(* two others, none comes twice and none that was not sent.  They may stop *)
(* arriving.                                                               *)
(***************************************************************************)
EXTENDS Naturals, Sequences

CONSTANT Frames  \* what can be sent

VARIABLES
  sent,  \* by way, the frames sent
  got    \* by way, the frames that arrived

Ways == {"up", "down"}

Init == sent = [w \in Ways |-> <<>>] /\ got = [w \in Ways |-> <<>>]

Send(w) ==
  /\ \E frame \in Frames : sent' = [sent EXCEPT ![w] = Append(@, frame)]
  /\ UNCHANGED got

\* Some more of what was sent.
Arrive(w) ==
  /\ \E n \in Len(got[w]) + 1..Len(sent[w]) : got' = [got EXCEPT ![w] = SubSeq(sent[w], 1, n)]
  /\ UNCHANGED sent

Next == \E w \in Ways : Send(w) \/ Arrive(w)

Spec == Init /\ [][Next]_<<sent, got>>
=============================================================================
