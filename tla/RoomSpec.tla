------------------------------- MODULE RoomSpec -------------------------------
(***************************************************************************)
(* One room through its life: the abstract specification of a race behind  *)
(* its connections.                                                        *)
(***************************************************************************)
EXTENDS Room

CONSTANTS
  Conns,          \* the connections
  Seats,          \* the seats of the race
  MaxSpectators   \* HostConfig::maxSpectators

VARIABLE room

Init == room = NewRoom(Seats)

Enter(c) == c \notin Members(room) /\ MayEnter(room) /\ room' \in Entered(room, c)
Begin    == MayBegin(room) /\ room' \in Begun(room)
Return(c) == c \notin Members(room) /\ room.started /\ room' \in Returned(room, c)
Watch(c) == c \notin Members(room) /\ MayWatch(room, MaxSpectators) /\ room' = Watched(room, c)
Part(c)  == room' = Parted(room, c)
Pass     == room' \in Passed(room)

Next == Begin \/ Pass \/ \E c \in Conns : Enter(c) \/ Return(c) \/ Watch(c) \/ Part(c)

Spec == Init /\ [][Next]_room
=============================================================================
