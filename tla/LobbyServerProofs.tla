-------------------------- MODULE LobbyServerProofs --------------------------
(***************************************************************************)
(* The lobby and its races, for any number of connections and races: two   *)
(* lists of who is where that agree, races that end once, and a drain that *)
(* cuts none of them off.                                                  *)
(***************************************************************************)
EXTENDS LobbyServer, FiniteSetTheorems, TLAPS

\* A race that is over, and no other, counts the time since then and was saved;
\* one that never was is not saved.
EndsOnce ==
  /\ \A id \in Races : mRaces[id].room.finished <=> mRaces[id].finishedFor # Never
  /\ SavedOnce
  /\ \A id \in RaceIds : id >= mNextRace => mSaved[id] = 0

\* The lobby's invariant with what NobodyThrownOut and SavedOnce need besides.
ServerInv == LobbyInv /\ EndsOnce

-----------------------------------------------------------------------------
(***************************************************************************)
(* What a room may become.                                                 *)
(***************************************************************************)
\* A connection that exists has an entry.
LEMMA Known == ASSUME LobbyAssumption, TypeOK PROVE \A d \in 1..mNextConn - 1 : d \in Conns /\ d < mNextConn
<1>1. MaxConns \in Nat
  BY DEF LobbyAssumption
<1>2. mNextConn \in 1..MaxConns + 1
  BY DEF TypeOK
<1> QED
  BY <1>1, <1>2 DEF Conns

\* The drivers can be counted.
LEMMA Seated == ASSUME LobbyAssumption, NEW D \in SUBSET Conns PROVE Cardinality(D) \in Nat
<1>1. IsFiniteSet(Conns)
  BY FS_Interval DEF Conns, LobbyAssumption
<1> QED
  BY <1>1, FS_Subset, FS_CardinalityType

\* What a step may make of a room: at most one connection more, and no end.
Grows(r, room, c) ==
  /\ room \in RoomType
  /\ Members(room) \subseteq Members(r) \union {c}
  /\ room.finished = r.finished

\* A new race has nobody in it.
LEMMA NewRoomType ==
  ASSUME LobbyAssumption, NEW seats \in RaceSeats
  PROVE  NewRoom(seats) \in RoomType /\ Members(NewRoom(seats)) = {} /\ ~NewRoom(seats).finished
  BY DEF NewRoom, RoomType, Members, LobbyAssumption

\* Joining adds the one who joins.
LEMMA EnteredGrows ==
  ASSUME NEW r \in RoomType, NEW c \in Conns, NEW room \in Entered(r, c)
  PROVE  Grows(r, room, c)
<1>1. PICK starts \in BOOLEAN : room = [r EXCEPT !.drivers = r.drivers \union {c}, !.started = starts]
  BY DEF Entered
<1> QED
  BY <1>1 DEF Grows, RoomType, Members

\* The start changes nobody's place.
LEMMA BegunGrows ==
  ASSUME LobbyAssumption, NEW r \in RoomType, NEW c \in Conns, NEW room \in Begun(r)
  PROVE  Grows(r, room, c)
<1>1. Cardinality(r.drivers) \in Nat
  BY Seated DEF RoomType
<1>2. \/ room = [r EXCEPT !.seats = Cardinality(r.drivers), !.started = TRUE]
      \/ room = [r EXCEPT !.seats = Cardinality(r.drivers), !.drivers = {}]
  BY DEF Begun
<1> QED
  BY <1>1, <1>2 DEF Grows, RoomType, Members

\* Coming back adds the one who comes back.
LEMMA ReturnedGrows ==
  ASSUME NEW r \in RoomType, NEW c \in Conns, NEW room \in Returned(r, c)
  PROVE  Grows(r, room, c)
<1>1. PICK away : room = [r EXCEPT !.drivers = (r.drivers \ away) \union {c}]
  BY DEF Returned
<1> QED
  BY <1>1 DEF Grows, RoomType, Members

\* Watching adds the one who watches.
LEMMA WatchedGrows ==
  ASSUME NEW r \in RoomType, NEW c \in Conns
  PROVE  Grows(r, Watched(r, c), c)
  BY DEF Grows, Watched, RoomType, Members

\* Who parts is in the room no more.
LEMMA PartedShrinks ==
  ASSUME NEW r \in RoomType, NEW c \in Conns
  PROVE  Grows(r, Parted(r, c), c) /\ c \notin Members(Parted(r, c))
  BY DEF Grows, Parted, RoomType, Members

\* A room that passes keeps its people while it is under way or over.
LEMMA PassedKeeps ==
  ASSUME NEW r \in RoomType, NEW room \in Passed(r)
  PROVE  /\ room \in RoomType
         /\ Members(room) \subseteq Members(r)
         /\ room.started = r.started
         /\ r.started => Members(room) = Members(r)
         /\ r.finished => room.finished
<1>1. \/ room = r
      \/ r.started /\ room = [r EXCEPT !.finished = TRUE]
      \/ ~r.started /\ room = [r EXCEPT !.drivers = {}]
  BY DEF Passed
<1> QED
  BY <1>1 DEF RoomType, Members

-----------------------------------------------------------------------------
(***************************************************************************)
(* Steps that leave the races alone, or change one of them.                *)
(***************************************************************************)
StillClosed == \A c \in 1..mNextConn - 1 : IsClosed(c) => IsClosed(c)'

\* A server starts without connections and races.
LEMMA InitInv == ASSUME LobbyAssumption PROVE Init => ServerInv
<1> SUFFICES ASSUME Init PROVE ServerInv
  OBVIOUS
<1>1. Races = {}
  BY DEF Init, Races
<1>2. NoConn \in ConnType
  BY DEF NoConn, ClosedConn, ConnType, LobbyAssumption
<1>3. mRaces \in [Races -> EntryType]
  BY <1>1 DEF Init, Races
<1>4. TypeOK
  <2>1. mConns \in [Conns -> ConnType] /\ mSaved \in [RaceIds -> 0..2]
    <3>1. mConns = [c \in Conns |-> NoConn] /\ mSaved = [id \in RaceIds |-> 0]
      BY DEF Init
    <3> QED
      BY <1>2, <3>1
  <2>2. mNextConn \in 1..MaxConns + 1 /\ mNextRace \in 1..MaxRaceIds + 1
    BY DEF Init, LobbyAssumption
  <2>3. mDrainFor \in 0..DrainTimeout + 1 /\ mDrainedFor \in Never..DrainPause + 1
    BY DEF Init, LobbyAssumption, Never
  <2>4. {mDraining, mExited} \subseteq BOOLEAN
    BY DEF Init
  <2>5. mSignals \in 0..3
    BY DEF Init
  <2> QED
    BY <1>1, <1>3, <2>1, <2>2, <2>3, <2>4, <2>5 DEF TypeOK
<1>5. RoutesAgree
  BY <1>1 DEF RoutesAgree, Init, NoConn, ClosedConn
<1>6. EndsOnce
  BY <1>1 DEF EndsOnce, SavedOnce, Init, RaceIds
<1> QED
  BY <1>4, <1>5, <1>6 DEF ServerInv, LobbyInv

\* A connection changes that no race counts; the rooms do not.
LEMMA ConnStep ==
  ASSUME LobbyAssumption, ServerInv, NEW c \in Conns, NEW conn \in ConnType,
         mConns[c].raceId = 0, conn.raceId = 0, mConns[c].closed => conn.closed,
         mConns' = [mConns EXCEPT ![c] = conn],
         mRaces' \in [Races -> EntryType],
         \A i \in Races : /\ mRaces'[i].room = mRaces[i].room
                          /\ mRaces'[i].finishedFor = mRaces[i].finishedFor,
         mNextRace' \in mNextRace..MaxRaceIds + 1,
         UNCHANGED <<mNextConn, mSaved, drainVars>>
  PROVE  ServerInv' /\ StillClosed
<1>1. TypeOK /\ RoutesAgree /\ EndsOnce
  BY DEF ServerInv, LobbyInv
<1>2. Races' = Races
  BY DEF Races
<1>3. /\ mConns' \in [Conns -> ConnType]
      /\ mConns'[c] = conn
      /\ \A d \in Conns : d # c => mConns'[d] = mConns[d]
  BY <1>1 DEF TypeOK
<1>4. TypeOK'
  <2>1. mNextRace \in 1..MaxRaceIds + 1 /\ Races \subseteq 1..mNextRace - 1
    BY <1>1 DEF TypeOK
  <2>2. mNextRace' \in 1..MaxRaceIds + 1
    BY <2>1 DEF LobbyAssumption
  <2>3. Races' \subseteq 1..mNextRace' - 1
    <3> DEFINE m == mNextRace
               n == mNextRace'
    <3>1. m \in Nat /\ MaxRaceIds \in Nat /\ n \in m..MaxRaceIds + 1 /\ Races' \subseteq 1..m - 1
      BY <1>2, <2>1 DEF LobbyAssumption
    <3> HIDE DEF m, n
    <3>2. 1..m - 1 \subseteq 1..n - 1
      BY ONLY <3>1
    <3>3. Races' \subseteq 1..n - 1
      BY ONLY <3>1, <3>2, Zenon
    <3> QED
      BY <3>3 DEF n
  <2> QED
    BY <1>1, <1>2, <1>3, <2>2, <2>3 DEF TypeOK, drainVars
<1>5. RoutesAgree'
  <2>1. ASSUME NEW i \in Races, NEW d \in Members(mRaces[i].room)
        PROVE  d \in Conns /\ d # c
    BY <1>1 DEF TypeOK, EntryType, RoomType, Members, RoutesAgree
  <2> QED
    BY <1>1, <1>2, <1>3, <2>1 DEF RoutesAgree
<1>6. EndsOnce'
  <2>1. \A id \in RaceIds : id >= mNextRace' => id >= mNextRace
    BY <1>1 DEF RaceIds, TypeOK
  <2> QED
    BY <1>1, <1>2, <2>1 DEF EndsOnce, SavedOnce
<1>7. StillClosed
  <2> SUFFICES ASSUME NEW d \in 1..mNextConn - 1, IsClosed(d) PROVE IsClosed(d)'
    BY DEF StillClosed
  <2>1. d \in Conns
    BY <1>1, Known
  <2>2. CASE d = c
    BY <1>3, <2>2 DEF IsClosed
  <2>3. CASE d # c
    <3>1. mConns[d].raceId # 0 => mConns[d].raceId \in Races
      BY <1>1, <2>1 DEF RoutesAgree
    <3> QED
      BY <1>2, <1>3, <2>1, <2>3, <3>1 DEF IsClosed
  <2> QED
    BY <2>2, <2>3
<1> QED
  BY <1>4, <1>5, <1>6, <1>7 DEF ServerInv, LobbyInv

\* A race changes by one connection, which is in it and routed to it.
LEMMA RaceStep ==
  ASSUME LobbyAssumption, ServerInv, NEW c \in Conns, NEW id \in Races, NEW room,
         Grows(mRaces[id].room, room, c),
         \/ InLobby(c) /\ mConns' = Attached(c, id)
         \/ mConns[c].raceId = id /\ ~mConns[c].closed /\ c \in Members(mRaces[id].room)
            /\ mConns' = mConns,
         mRaces' = WithRoom(id, room),
         UNCHANGED <<mNextConn, mNextRace, mSaved, drainVars>>
  PROVE  ServerInv' /\ StillClosed
<1>1. TypeOK /\ RoutesAgree /\ EndsOnce
  BY DEF ServerInv, LobbyInv
<1>2. /\ id \in 1..MaxRaceIds
      /\ mRaces[id] \in EntryType
  BY <1>1 DEF TypeOK, LobbyAssumption
<1>3. /\ Races' = Races
      /\ mRaces'[id] \in EntryType
      /\ mRaces'[id].room = room
      /\ mRaces'[id].finishedFor = mRaces[id].finishedFor
      /\ \A i \in Races : i # id => mRaces'[i] = mRaces[i]
  <2>1. mRaces' = [mRaces EXCEPT ![id] = [mRaces[id] EXCEPT !.room = room]]
    BY DEF WithRoom
  <2>2. [mRaces[id] EXCEPT !.room = room] \in EntryType
    BY <1>2 DEF EntryType, Grows
  <2> QED
    BY <1>1, <1>2, <2>1, <2>2 DEF Races, EntryType, TypeOK
<1>4. mRaces' \in [Races -> EntryType]
  <2>1. mRaces' = [i \in Races |-> mRaces'[i]]
    BY <1>1 DEF WithRoom, TypeOK
  <2>2. \A i \in Races : mRaces'[i] \in EntryType
    BY <1>1, <1>3 DEF TypeOK
  <2> QED
    BY <1>3, <2>1, <2>2
<1>5. /\ mConns' \in [Conns -> ConnType]
      /\ mConns'[c].raceId = id /\ ~mConns'[c].closed
      /\ \A d \in Conns : d # c => mConns'[d] = mConns[d]
  <2> DEFINE conn == GreetedConn(id)
  <2>1. conn \in ConnType
    BY <1>2 DEF GreetedConn, ConnType, LobbyAssumption
  <2>2. Attached(c, id) = [mConns EXCEPT ![c] = conn]
    BY DEF Attached
  <2>3. mConns \in [Conns -> ConnType]
    BY <1>1 DEF TypeOK
  <2>4. conn.raceId = id /\ ~conn.closed
    BY DEF GreetedConn
  <2> HIDE DEF conn
  <2>5. CASE mConns' = [mConns EXCEPT ![c] = conn]
    BY <2>1, <2>3, <2>4, <2>5
  <2>6. CASE mConns[c].raceId = id /\ ~mConns[c].closed /\ mConns' = mConns
    BY <2>3, <2>6
  <2> QED
    BY <2>2, <2>5, <2>6
<1>6. TypeOK'
  BY <1>1, <1>3, <1>4, <1>5 DEF TypeOK, drainVars
<1>7. RoutesAgree'
  <2>1. ASSUME NEW i \in Races, NEW d \in Members(mRaces'[i].room)
        PROVE  mConns'[d].raceId = i /\ ~mConns'[d].closed
    <3>1. CASE i = id
      <4>1. d = c \/ d \in Members(mRaces[id].room)
        BY <1>3, <2>1, <3>1 DEF Grows
      <4>2. d \in Conns
        BY <1>2, <4>1 DEF EntryType, RoomType, Members
      <4> QED
        BY <1>1, <1>5, <3>1, <4>1, <4>2 DEF RoutesAgree
    <3>2. CASE i # id
      <4>1. d \in Members(mRaces[i].room) /\ d \in Conns
        BY <1>1, <1>3, <2>1, <3>2 DEF TypeOK, EntryType, RoomType, Members
      <4>2. mConns[d].raceId = i /\ ~mConns[d].closed
        BY <1>1, <4>1 DEF RoutesAgree
      <4>3. d # c
        BY <1>1, <3>2, <4>2 DEF InLobby, TypeOK
      <4> QED
        BY <1>5, <4>1, <4>2, <4>3
    <3> QED
      BY <3>1, <3>2
  <2>2. \A d \in Conns : mConns'[d].raceId # 0 => mConns'[d].raceId \in Races
    BY <1>1, <1>5 DEF RoutesAgree
  <2> QED
    BY <1>3, <2>1, <2>2 DEF RoutesAgree
<1>8. EndsOnce'
  BY <1>1, <1>3 DEF EndsOnce, SavedOnce, Grows
<1>9. StillClosed
  <2> SUFFICES ASSUME NEW d \in 1..mNextConn - 1, IsClosed(d) PROVE IsClosed(d)'
    BY DEF StillClosed
  <2>1. d \in Conns
    BY <1>1, Known
  <2>2. d # c
    BY <1>2, <2>1 DEF IsClosed, InLobby
  <2>3. mConns'[d] = mConns[d]
    BY <1>5, <2>1, <2>2
  <2>4. CASE mConns[d].raceId = 0
    BY <2>3, <2>4 DEF IsClosed
  <2>5. CASE mConns[d].raceId # 0
    <3>1. /\ mConns[d].raceId \in Races
          /\ d \notin Members(mRaces[mConns[d].raceId].room)
      BY <1>1, <2>1, <2>5 DEF IsClosed, RoutesAgree
    <3>2. d \notin Members(mRaces'[mConns[d].raceId].room)
      BY <1>3, <2>2, <3>1 DEF Grows
    <3> QED
      BY <2>3, <2>5, <3>2 DEF IsClosed
  <2> QED
    BY <2>4, <2>5
<1> QED
  BY <1>6, <1>7, <1>8, <1>9 DEF ServerInv, LobbyInv

\* A new race, with the connection that hosts it.
LEMMA HostRaceStep ==
  ASSUME LobbyAssumption, ServerInv, NEW c \in Conns, NEW seats \in RaceSeats,
         NEW private \in BOOLEAN, HostRace(c, seats, private)
  PROVE  ServerInv' /\ StillClosed
<1>1. TypeOK /\ RoutesAgree /\ EndsOnce
  BY DEF ServerInv, LobbyInv
<1>2. PICK room \in Entered(NewRoom(seats), c) :
        mRaces' = [i \in Races \union {mNextRace} |->
                     IF i = mNextRace THEN NewEntry(room, private) ELSE mRaces[i]]
  BY DEF HostRace
<1>3. room \in RoomType /\ Members(room) \subseteq {c} /\ ~room.finished
  BY NewRoomType, EnteredGrows DEF Grows
<1>4. /\ mNextRace \in 1..MaxRaceIds /\ mNextRace' = mNextRace + 1
      /\ mNextRace \notin Races
  BY <1>1 DEF HostRace, TypeOK
<1>5. /\ NewEntry(room, private) \in EntryType
      /\ NewEntry(room, private).room = room
      /\ NewEntry(room, private).finishedFor = Never
  BY <1>3 DEF NewEntry, EntryType, LobbyAssumption, Never
<1>6. /\ Races' = Races \union {mNextRace}
      /\ mRaces'[mNextRace] = NewEntry(room, private)
      /\ \A i \in Races : mRaces'[i] = mRaces[i]
  BY <1>2, <1>4 DEF Races
<1>7. mRaces' \in [Races' -> EntryType]
  <2>1. \A i \in Races : mRaces[i] \in EntryType
    BY <1>1 DEF TypeOK
  <2> QED
    BY <1>2, <1>5, <1>6, <2>1
<1>8. /\ mConns' \in [Conns -> ConnType]
      /\ mConns'[c].raceId = mNextRace /\ ~mConns'[c].closed
      /\ \A d \in Conns : d # c => mConns'[d] = mConns[d]
  <2> DEFINE conn == GreetedConn(mNextRace)
  <2>1. conn \in ConnType
    BY <1>4 DEF GreetedConn, ConnType, LobbyAssumption
  <2>2. mConns' = [mConns EXCEPT ![c] = conn]
    BY DEF HostRace, Attached
  <2>3. mConns \in [Conns -> ConnType]
    BY <1>1 DEF TypeOK
  <2>4. conn.raceId = mNextRace /\ ~conn.closed
    BY DEF GreetedConn
  <2> HIDE DEF conn
  <2> QED
    BY <2>1, <2>2, <2>3, <2>4
<1>9. TypeOK'
  <2>1. Races' \subseteq 1..mNextRace' - 1
    <3>1. Races \subseteq 1..mNextRace - 1
      BY <1>1 DEF TypeOK
    <3>2. 1..mNextRace - 1 \subseteq 1..mNextRace' - 1 /\ mNextRace \in 1..mNextRace' - 1
      BY <1>4
    <3>3. Races' = Races \union {mNextRace}
      BY <1>6
    <3> QED
      BY <3>1, <3>2, <3>3, Zenon
  <2>2. mNextRace' \in 1..MaxRaceIds + 1
    BY <1>4 DEF LobbyAssumption
  <2> QED
    BY <1>1, <1>7, <1>8, <2>1, <2>2 DEF TypeOK, HostRace, drainVars
<1>10. RoutesAgree'
  <2>1. ASSUME NEW i \in Races', NEW d \in Members(mRaces'[i].room)
        PROVE  mConns'[d].raceId = i /\ ~mConns'[d].closed
    <3>1. CASE i = mNextRace
      BY <1>3, <1>5, <1>6, <1>8, <2>1, <3>1
    <3>2. CASE i \in Races
      <4>1. d \in Members(mRaces[i].room) /\ d \in Conns
        BY <1>1, <1>6, <2>1, <3>2 DEF TypeOK, EntryType, RoomType, Members
      <4>2. mConns[d].raceId = i /\ ~mConns[d].closed /\ i # 0
        BY <1>1, <3>2, <4>1 DEF RoutesAgree, TypeOK
      <4>3. d # c
        BY <4>2 DEF HostRace, Greeted, InLobby
      <4> QED
        BY <1>8, <4>1, <4>2, <4>3
    <3> QED
      BY <1>6, <2>1, <3>1, <3>2
  <2>2. \A d \in Conns : mConns'[d].raceId # 0 => mConns'[d].raceId \in Races'
    BY <1>1, <1>6, <1>8 DEF RoutesAgree
  <2> QED
    BY <2>1, <2>2 DEF RoutesAgree
<1>11. EndsOnce'
  <2>1. UNCHANGED mSaved
    BY DEF HostRace
  <2>2. mNextRace \in RaceIds /\ mSaved[mNextRace] = 0
    BY <1>1, <1>4 DEF EndsOnce, RaceIds
  <2>3. \A id \in RaceIds : id >= mNextRace' => mSaved'[id] = 0
    <3>1. \A id \in RaceIds : id >= mNextRace + 1 => id >= mNextRace
      BY <1>4 DEF RaceIds
    <3> QED
      BY <1>1, <1>4, <2>1, <3>1 DEF EndsOnce
  <2>4. \A id \in Races' : /\ mRaces'[id].room.finished <=> mRaces'[id].finishedFor # Never
                           /\ mSaved'[id] = (IF mRaces'[id].room.finished THEN 1 ELSE 0)
    BY <1>1, <1>3, <1>5, <1>6, <2>1, <2>2 DEF EndsOnce, SavedOnce
  <2>5. \A id \in RaceIds : mSaved'[id] <= 1
    BY <1>1, <2>1 DEF EndsOnce, SavedOnce
  <2> QED
    BY <2>3, <2>4, <2>5 DEF EndsOnce, SavedOnce
<1>12. StillClosed
  <2> SUFFICES ASSUME NEW d \in 1..mNextConn - 1, IsClosed(d) PROVE IsClosed(d)'
    BY DEF StillClosed
  <2>1. d \in Conns
    BY <1>1, Known
  <2>2. d # c
    BY DEF HostRace, Greeted, InLobby, IsClosed
  <2>3. mConns'[d] = mConns[d]
    BY <1>8, <2>1, <2>2
  <2>4. mConns[d].raceId # 0 => mConns[d].raceId \in Races
    BY <1>1, <2>1 DEF RoutesAgree
  <2> QED
    BY <1>6, <2>3, <2>4 DEF IsClosed
<1> QED
  BY <1>9, <1>10, <1>11, <1>12 DEF ServerInv, LobbyInv

-----------------------------------------------------------------------------
(***************************************************************************)
(* Each step a peer may cause.                                             *)
(***************************************************************************)
\* A new connection is in no list and in no race, refused or not.
LEMMA ConnectStep ==
  ASSUME LobbyAssumption, ServerInv, Connect
  PROVE  ServerInv' /\ StillClosed
<1>1. TypeOK /\ RoutesAgree /\ EndsOnce
  BY DEF ServerInv, LobbyInv
<1>2. mNextConn \in Conns /\ mNextConn' \in mNextConn..MaxConns + 1
  <2>1. MaxConns \in Nat
    BY DEF LobbyAssumption
  <2>2. mNextConn \in 1..MaxConns + 1
    BY <1>1 DEF TypeOK
  <2> QED
    BY <2>1, <2>2 DEF Connect, Conns
<1>3. UNCHANGED <<mRaces, mNextRace, mSaved, drainVars>>
  BY DEF Connect
<1>4. /\ mConns' \in [Conns -> ConnType]
      /\ \A d \in Conns : mConns'[d].raceId = mConns[d].raceId /\ (~mConns[d].closed => ~mConns'[d].closed)
      /\ \A d \in Conns : d # mNextConn => mConns'[d] = mConns[d]
  <2>1. mConns \in [Conns -> ConnType]
    BY <1>1 DEF TypeOK
  <2>2. CASE mConns' = [mConns EXCEPT ![mNextConn] = [mConns[mNextConn] EXCEPT !.closed = FALSE]]
    BY <1>2, <2>1, <2>2 DEF ConnType
  <2>3. CASE mConns' = mConns
    BY <2>1, <2>3
  <2> QED
    BY <2>2, <2>3 DEF Connect
<1>5. TypeOK'
  BY <1>1, <1>2, <1>3, <1>4 DEF TypeOK, Races, drainVars
<1>6. RoutesAgree'
  <2>1. \A i \in Races : Members(mRaces[i].room) \subseteq Conns
    BY <1>1 DEF TypeOK, EntryType, RoomType, Members
  <2> QED
    BY <1>1, <1>3, <1>4, <2>1 DEF RoutesAgree, Races
<1>7. EndsOnce'
  BY <1>1, <1>3 DEF EndsOnce, SavedOnce, Races
<1>8. StillClosed
  <2> SUFFICES ASSUME NEW d \in 1..mNextConn - 1, IsClosed(d) PROVE IsClosed(d)'
    BY DEF StillClosed
  <2>1. d \in Conns /\ d < mNextConn
    BY <1>1, Known
  <2> QED
    BY <1>3, <1>4, <2>1 DEF IsClosed, Races
<1> QED
  BY <1>5, <1>6, <1>7, <1>8 DEF ServerInv, LobbyInv

\* A connection that goes, in the lobby or in a race, is in no race any more.
LEMMA DisconnectStep ==
  ASSUME LobbyAssumption, ServerInv, NEW c \in Conns, Disconnect(c)
  PROVE  ServerInv' /\ StillClosed
<1> DEFINE id == mConns[c].raceId
           conn == ClosedConn(id)
           room == Parted(mRaces[id].room, c)
<1>1. TypeOK /\ RoutesAgree /\ EndsOnce
  BY DEF ServerInv, LobbyInv
<1>2. mConns' = [mConns EXCEPT ![c] = conn]
  BY DEF Disconnect
<1>3. conn \in ConnType /\ conn.raceId = id /\ conn.closed
  <2>1. id \in 0..MaxRaceIds
    BY <1>1 DEF TypeOK, ConnType
  <2> QED
    BY <2>1 DEF ClosedConn, ConnType, LobbyAssumption
<1>4. UNCHANGED <<mNextConn, mNextRace, mSaved, drainVars>>
  BY DEF Disconnect
<1>5. CASE id = 0
  <2>1. UNCHANGED mRaces
    BY <1>1, <1>5 DEF Disconnect, HostTold, TypeOK
  <2>2. mNextRace' \in mNextRace..MaxRaceIds + 1
    BY <1>1, <1>4 DEF TypeOK, LobbyAssumption
  <2>3. mRaces \in [Races -> EntryType]
    BY <1>1 DEF TypeOK
  <2> HIDE DEF conn
  <2> QED
    BY <1>2, <1>3, <1>4, <1>5, <2>1, <2>2, <2>3, ConnStep
<1>6. CASE id # 0
  <2>1. id \in Races /\ mRaces[id] \in EntryType
    BY <1>1, <1>6 DEF RoutesAgree, TypeOK
  <2>2. mRaces' = [mRaces EXCEPT ![id] = [mRaces[id] EXCEPT !.room = room]]
    BY <2>1 DEF Disconnect, HostTold, WithRoom
  <2>3. Grows(mRaces[id].room, room, c) /\ c \notin Members(room)
    BY <2>1, PartedShrinks DEF EntryType
  <2> HIDE DEF conn, room, id
  <2>4. /\ Races' = Races
        /\ mRaces' \in [Races -> EntryType]
        /\ mRaces'[id].room = room
        /\ mRaces'[id].finishedFor = mRaces[id].finishedFor
        /\ \A i \in Races : i # id => mRaces'[i] = mRaces[i]
    <3>1. [mRaces[id] EXCEPT !.room = room] \in EntryType
      BY <2>1, <2>3 DEF EntryType, Grows
    <3>2. mRaces \in [Races -> EntryType]
      BY <1>1 DEF TypeOK
    <3> QED
      BY <2>1, <2>2, <3>1, <3>2 DEF Races, EntryType
  <2>5. /\ mConns' \in [Conns -> ConnType]
        /\ mConns'[c] = conn
        /\ \A d \in Conns : d # c => mConns'[d] = mConns[d]
    BY <1>1, <1>2, <1>3 DEF TypeOK
  <2>6. TypeOK'
    BY <1>1, <1>4, <2>4, <2>5 DEF TypeOK, drainVars
  <2>7. mConns[c].raceId = id
    BY DEF id
  <2>8. RoutesAgree'
    <3>1. ASSUME NEW i \in Races, NEW d \in Members(mRaces'[i].room)
          PROVE  mConns'[d].raceId = i /\ ~mConns'[d].closed
      <4>1. d \in Conns /\ mConns[d].raceId = i /\ ~mConns[d].closed
        <5>1. i = id => d = c \/ d \in Members(mRaces[id].room)
          BY <2>3, <2>4, <3>1 DEF Grows
        <5>2. d \in Members(mRaces[i].room)
          BY <2>3, <2>4, <3>1, <5>1
        <5> QED
          BY <1>1, <5>2 DEF TypeOK, EntryType, RoomType, Members, RoutesAgree
      <4>2. d # c
        BY <2>3, <2>4, <2>7, <3>1, <4>1
      <4> QED
        BY <2>5, <4>1, <4>2
    <3>2. \A d \in Conns : mConns'[d].raceId # 0 => mConns'[d].raceId \in Races
      BY <1>1, <1>3, <2>1, <2>5 DEF RoutesAgree
    <3> QED
      BY <2>4, <3>1, <3>2 DEF RoutesAgree
  <2>9. EndsOnce'
    BY <1>1, <1>4, <2>3, <2>4 DEF EndsOnce, SavedOnce, Grows
  <2>10. StillClosed
    <3> SUFFICES ASSUME NEW d \in 1..mNextConn - 1, IsClosed(d) PROVE IsClosed(d)'
      BY DEF StillClosed
    <3>1. d \in Conns
      BY <1>1, Known
    <3>2. CASE d = c
      BY <1>3, <1>6, <2>3, <2>4, <2>5, <3>2 DEF IsClosed
    <3>3. CASE d # c
      <4>1. mConns'[d] = mConns[d]
        BY <2>5, <3>1, <3>3
      <4>2. mConns[d].raceId # 0 =>
              mConns[d].raceId \in Races /\ d \notin Members(mRaces[mConns[d].raceId].room)
        BY <1>1, <3>1 DEF RoutesAgree, IsClosed
      <4>3. mConns[d].raceId # 0 => d \notin Members(mRaces'[mConns[d].raceId].room)
        BY <2>3, <2>4, <3>3, <4>2 DEF Grows
      <4> QED
        BY <4>1, <4>3 DEF IsClosed
    <3> QED
      BY <3>2, <3>3
  <2> QED
    BY <2>6, <2>8, <2>9, <2>10 DEF ServerInv, LobbyInv
<1> QED
  BY <1>5, <1>6

\* What a peer sends before it is in a race: Hello, Resume, a new race, a place
\* in one, as a driver or a spectator, with a code or without.
LEMMA ReceiveStep ==
  ASSUME LobbyAssumption, ServerInv, Receive
  PROVE  ServerInv' /\ StillClosed
<1>1. TypeOK /\ RoutesAgree
  BY DEF ServerInv, LobbyInv
<1>2. NoConn \in ConnType /\ NoConn.raceId = 0 /\ NoConn.closed
  BY DEF NoConn, ClosedConn, ConnType, LobbyAssumption
<1>3. /\ mConns \in [Conns -> ConnType] /\ mRaces \in [Races -> EntryType]
      /\ \A id \in Races : mRaces[id].room \in RoomType
      /\ mNextRace \in mNextRace..MaxRaceIds + 1
  BY <1>1 DEF TypeOK, EntryType, LobbyAssumption
<1>4. ASSUME NEW c \in Conns, Refused(c)
      PROVE  ServerInv' /\ StillClosed
  BY <1>2, <1>3, <1>4, ConnStep DEF Refused, InLobby
<1>5. ASSUME NEW c \in Conns, Hello(c)
      PROVE  ServerInv' /\ StillClosed
  <2>1. GreetedConn(0) \in ConnType /\ GreetedConn(0).raceId = 0
    BY DEF GreetedConn, ConnType, LobbyAssumption
  <2> QED
    BY <1>3, <1>5, <2>1, ConnStep DEF Hello, InLobby
<1>6. ASSUME NEW c \in Conns, HostRaceFails(c)
      PROVE  ServerInv' /\ StillClosed
  <2>1. mNextRace' \in mNextRace..MaxRaceIds + 1
    BY <1>1, <1>6 DEF HostRaceFails, TypeOK, LobbyAssumption
  <2> QED
    BY <1>2, <1>3, <1>6, <2>1, ConnStep DEF HostRaceFails, Greeted, InLobby
<1>7. ASSUME NEW c \in Conns, NEW id \in RaceIds, WrongCode(c, id)
      PROVE  ServerInv' /\ StillClosed
  <2>1. id \in Races /\ mRaces[id].badAttempts < MaxBadAttempts
    BY <1>7 DEF WrongCode, MayKnock
  <2>2. mRaces' = [mRaces EXCEPT ![id] = [mRaces[id] EXCEPT !.badAttempts = mRaces[id].badAttempts + 1]]
    BY <1>7 DEF WrongCode
  <2>3. [mRaces[id] EXCEPT !.badAttempts = mRaces[id].badAttempts + 1] \in EntryType
    BY <1>3, <2>1 DEF EntryType, LobbyAssumption
  <2>4. /\ mRaces' \in [Races -> EntryType]
        /\ \A i \in Races : /\ mRaces'[i].room = mRaces[i].room
                            /\ mRaces'[i].finishedFor = mRaces[i].finishedFor
    BY <1>3, <2>1, <2>2, <2>3 DEF EntryType
  <2> QED
    BY <1>2, <1>3, <1>7, <2>4, ConnStep DEF WrongCode, Greeted, InLobby
<1>8. ASSUME NEW c \in Conns, NEW id \in RaceIds, Resume(c, id)
      PROVE  ServerInv' /\ StillClosed
  <2>1. CASE mRaces[id].room.started
    BY <1>3, <1>8, <2>1, ReturnedGrows, RaceStep DEF Resume
  <2>2. CASE ~mRaces[id].room.started
    <3>1. Grows(mRaces[id].room, mRaces[id].room, c)
      BY <1>3, <1>8 DEF Resume, Grows
    <3>2. mRaces' = WithRoom(id, mRaces[id].room)
      BY <1>3, <1>8, <2>2 DEF Resume, WithRoom, EntryType
    <3> QED
      BY <1>8, <3>1, <3>2, RaceStep DEF Resume
  <2> QED
    BY <2>1, <2>2
<1>9. ASSUME NEW c \in Conns, NEW id \in RaceIds, JoinRace(c, id)
      PROVE  ServerInv' /\ StillClosed
  BY <1>3, <1>9, EnteredGrows, RaceStep DEF JoinRace, Greeted, MayKnock
<1>10. ASSUME NEW c \in Conns, NEW id \in RaceIds, SpectateRace(c, id)
       PROVE  ServerInv' /\ StillClosed
  <2>0. id \in Races
    BY <1>10 DEF SpectateRace, MayKnock
  <2>1. CASE MayWatch(mRaces[id].room, MaxSpectators)
    BY <1>3, <1>10, <2>0, <2>1, WatchedGrows, RaceStep DEF SpectateRace, Greeted
  <2>2. CASE ~MayWatch(mRaces[id].room, MaxSpectators)
    <3>1. Grows(mRaces[id].room, mRaces[id].room, c)
      BY <1>3, <2>0 DEF Grows
    <3>2. mRaces' = WithRoom(id, mRaces[id].room)
      BY <1>3, <1>10, <2>0, <2>2 DEF SpectateRace, WithRoom, EntryType
    <3> QED
      BY <1>10, <2>0, <3>1, <3>2, RaceStep DEF SpectateRace, Greeted
  <2> QED
    BY <2>1, <2>2
<1>11. ASSUME NEW c \in Conns, NEW id \in RaceIds, StartRace(c, id)
       PROVE  ServerInv' /\ StillClosed
  BY <1>3, <1>11, BegunGrows, RaceStep DEF StartRace, Members
<1>12. ASSUME NEW c \in Conns, NEW id \in RaceIds, ClosedByRace(c, id)
       PROVE  ServerInv' /\ StillClosed
  BY <1>3, <1>12, PartedShrinks, RaceStep DEF ClosedByRace
<1> QED
  BY <1>4, <1>5, <1>6, <1>7, <1>8, <1>9, <1>10, <1>11, <1>12, HostRaceStep DEF Receive

-----------------------------------------------------------------------------
(***************************************************************************)
(* A pass of the loop.                                                     *)
(***************************************************************************)
\* Where a time stands that runs on.
Runs(old, dt, limit) == IF old = Never THEN 0 ELSE Least(old + dt, limit + 1)

\* It passes its limit only when it has been running.
LEMMA RunsOn ==
  ASSUME NEW limit \in Nat, NEW old \in Never..limit + 1, NEW dt \in Nat
  PROVE  /\ Runs(old, dt, limit) \in 0..limit + 1
         /\ Runs(old, dt, limit) > limit => old # Never /\ old + dt > limit
<1>1. CASE old = Never
  BY <1>1 DEF Runs
<1>2. CASE old # Never
  <2>1. old \in 0..limit + 1
    BY <1>2 DEF Never
  <2>2. /\ Least(old + dt, limit + 1) \in 0..limit + 1
        /\ Least(old + dt, limit + 1) > limit => old + dt > limit
    BY <2>1 DEF Least
  <2> QED
    BY <1>2, <2>2 DEF Runs
<1> QED
  BY <1>1, <1>2

\* A race after its pass, and the races a pass removes.
After(dt, rooms, id) == Timed(mRaces[id], rooms[id], dt)
Gone(dt, rooms) == {id \in Races : Removable(After(dt, rooms, id))}

\* The pass of one race: its clocks, and why it may be removed.
LEMMA RacePasses ==
  ASSUME LobbyAssumption, ServerInv, NEW dt \in 0..MaxLag, NEW rooms \in RoomsAfter, NEW id \in Races
  PROVE  /\ After(dt, rooms, id).room = rooms[id]
         /\ Members(rooms[id]) \subseteq Members(mRaces[id].room)
         /\ mRaces[id].room.finished => rooms[id].finished
         /\ rooms[id].finished <=> After(dt, rooms, id).finishedFor # Never
         /\ ~Removable(After(dt, rooms, id)) => After(dt, rooms, id) \in EntryType
         /\ Removable(After(dt, rooms, id)) =>
              \/ ~mRaces[id].room.started \/ Members(mRaces[id].room) = {}
              \/ mRaces[id].room.finished /\ mRaces[id].finishedFor + MaxLag > Linger
<1> DEFINE r == mRaces[id].room
           e == After(dt, rooms, id)
           finishedFor == Since(rooms[id].finished, mRaces[id].finishedFor, dt, Linger)
           emptyFor == Since(Deserted(rooms[id]), mRaces[id].emptyFor, dt, Abandoned)
<1>1. TypeOK /\ EndsOnce
  BY DEF ServerInv, LobbyInv
<1>2. mRaces[id] \in EntryType /\ r \in RoomType
  BY <1>1 DEF TypeOK, EntryType
<1>3. rooms[id] \in Passed(r)
  BY DEF RoomsAfter
<1>4. /\ rooms[id] \in RoomType /\ Members(rooms[id]) \subseteq Members(r)
      /\ rooms[id].started = r.started
      /\ r.started => Members(rooms[id]) = Members(r)
      /\ r.finished => rooms[id].finished
  BY <1>2, <1>3, PassedKeeps
<1>5. dt \in Nat /\ dt <= MaxLag /\ Linger \in Nat /\ Abandoned \in Nat /\ MaxLag \in Nat
  BY DEF LobbyAssumption
<1>6. mRaces[id].finishedFor \in Never..Linger /\ mRaces[id].emptyFor \in Never..Abandoned
  BY <1>2 DEF EntryType
<1>7. /\ e.room = rooms[id] /\ e.finishedFor = finishedFor /\ e.emptyFor = emptyFor
      /\ rooms[id] \in RoomType /\ finishedFor \in Never..Linger /\ emptyFor \in Never..Abandoned
           => e \in EntryType
  BY <1>2 DEF After, Timed, EntryType
<1>8. /\ e.finishedFor \in Never..Linger + 1
      /\ rooms[id].finished <=> e.finishedFor # Never
      /\ e.finishedFor > Linger => /\ mRaces[id].finishedFor # Never
                                  /\ mRaces[id].finishedFor + dt > Linger
  <2>1. mRaces[id].finishedFor \in Never..Linger + 1
    BY <1>5, <1>6 DEF Never
  <2>2. e.finishedFor = IF rooms[id].finished THEN Runs(mRaces[id].finishedFor, dt, Linger) ELSE Never
    BY <1>7 DEF Since, Runs
  <2>3. /\ Runs(mRaces[id].finishedFor, dt, Linger) \in 0..Linger + 1
        /\ Runs(mRaces[id].finishedFor, dt, Linger) > Linger =>
              /\ mRaces[id].finishedFor # Never
              /\ mRaces[id].finishedFor + dt > Linger
    BY <1>5, <2>1, RunsOn
  <2> QED
    BY <1>5, <2>2, <2>3 DEF Never
<1>9. /\ e.emptyFor \in Never..Abandoned + 1
      /\ Deserted(rooms[id]) <=> e.emptyFor # Never
  <2>1. mRaces[id].emptyFor \in Never..Abandoned + 1
    BY <1>5, <1>6 DEF Never
  <2>2. e.emptyFor = IF Deserted(rooms[id]) THEN Runs(mRaces[id].emptyFor, dt, Abandoned) ELSE Never
    BY <1>7 DEF Since, Runs
  <2>3. Runs(mRaces[id].emptyFor, dt, Abandoned) \in 0..Abandoned + 1
    BY <1>5, <2>1, RunsOn
  <2> QED
    BY <1>5, <2>2, <2>3 DEF Never
<1> HIDE DEF e, finishedFor, emptyFor
<1>10. ASSUME ~Removable(e) PROVE e \in EntryType
  <2>1. e.finishedFor \in Never..Linger /\ e.emptyFor \in Never..Abandoned
    BY <1>5, <1>8, <1>9, <1>10 DEF Removable, Never
  <2> QED
    BY <1>4, <1>7, <2>1
<1>11. ASSUME Removable(e)
       PROVE  \/ ~r.started \/ Members(r) = {}
              \/ r.finished /\ mRaces[id].finishedFor + MaxLag > Linger
  <2>1. CASE e.emptyFor > Abandoned
    BY <1>4, <1>5, <1>9, <2>1 DEF Deserted, Never
  <2>2. CASE e.finishedFor > Linger
    BY <1>1, <1>5, <1>6, <1>8, <2>2 DEF EndsOnce, Never
  <2>3. CASE ~e.room.started /\ Members(e.room) = {}
    BY <1>4, <1>7, <2>3
  <2> QED
    BY <1>11, <2>1, <2>2, <2>3 DEF Removable
<1> QED
  <2>1. e.room = rooms[id] /\ (rooms[id].finished <=> e.finishedFor # Never)
    BY <1>7, <1>8
  <2>2. Members(rooms[id]) \subseteq Members(r) /\ (r.finished => rooms[id].finished)
    BY <1>4
  <2> QED
    BY <1>10, <1>11, <2>1, <2>2, Zenon DEF e

\* What a pass does to the connections.
LEMMA ConnsPass ==
  ASSUME LobbyAssumption, ServerInv, NEW dt \in 0..MaxLag, NEW rooms \in RoomsAfter,
         Pass(dt, rooms), NEW c \in Conns
  PROVE  /\ mConns'[c] \in ConnType
         /\ mConns[c].raceId \in Gone(dt, rooms) => mConns'[c] = NoConn
         /\ mConns[c].raceId \notin Gone(dt, rooms) =>
              /\ mConns'[c].raceId = mConns[c].raceId
              /\ mConns[c].closed => mConns'[c].closed
              /\ mConns[c].raceId # 0 => mConns'[c].closed = mConns[c].closed
<1>1. mConns[c] \in ConnType
  BY DEF ServerInv, LobbyInv, TypeOK
<1>2. dt \in Nat /\ HelloTimeout \in Nat
  BY DEF LobbyAssumption
<1>3. mConns'[c] = IF mConns[c].raceId \in Gone(dt, rooms) THEN Released(mConns[c])
                   ELSE IF HelloOverdue(mConns[c], dt) THEN NoConn ELSE Aged(mConns[c], dt)
  BY DEF Pass, Advance, Gone, After
<1>4. NoConn \in ConnType /\ NoConn.raceId = 0 /\ NoConn.closed
  BY DEF NoConn, ClosedConn, ConnType, LobbyAssumption
<1>5. /\ Aged(mConns[c], dt) \in ConnType
      /\ Aged(mConns[c], dt).raceId = mConns[c].raceId
      /\ Aged(mConns[c], dt).closed = mConns[c].closed
  <2>1. Least(mConns[c].age + dt, HelloTimeout) \in 0..HelloTimeout
    BY <1>1, <1>2 DEF ConnType, Least
  <2> QED
    BY <1>1, <2>1 DEF Aged, ConnType
<1>6. HelloOverdue(mConns[c], dt) => mConns[c].raceId = 0 /\ ~mConns[c].closed
  BY DEF HelloOverdue
<1> QED
  BY <1>3, <1>4, <1>5, <1>6 DEF Released

\* A pass of the loop: clocks, rooms that close connections or end, the removal
\* of races, and the drain.
LEMMA PassStep ==
  ASSUME LobbyAssumption, ServerInv, NEW dt \in 0..MaxLag, NEW rooms \in RoomsAfter, Pass(dt, rooms)
  PROVE  ServerInv' /\ StillClosed
<1> DEFINE gone == Gone(dt, rooms)
<1>1. TypeOK /\ RoutesAgree /\ EndsOnce
  BY DEF ServerInv, LobbyInv
<1>2. /\ Races' = Races \ gone
      /\ \A id \in Races' : mRaces'[id] = After(dt, rooms, id)
      /\ mRaces' = [id \in Races' |-> mRaces'[id]]
  BY DEF Pass, Advance, Gone, After, Restrict, Races
<1>3. gone \subseteq Races /\ 0 \notin Races /\ \A id \in Races' : ~Removable(After(dt, rooms, id))
  BY <1>1, <1>2 DEF Gone, TypeOK
<1>4. UNCHANGED <<mNextConn, mNextRace>>
  BY DEF Pass, Advance
<1>5. \A id \in Races' :
        /\ id \in Races
        /\ mRaces'[id] \in EntryType
        /\ mRaces'[id].room = rooms[id]
        /\ Members(rooms[id]) \subseteq Members(mRaces[id].room)
        /\ mRaces[id].room.finished => rooms[id].finished
        /\ rooms[id].finished <=> mRaces'[id].finishedFor # Never
  <2> SUFFICES ASSUME NEW id \in Races'
               PROVE  /\ id \in Races
                      /\ mRaces'[id] \in EntryType
                      /\ mRaces'[id].room = rooms[id]
                      /\ Members(rooms[id]) \subseteq Members(mRaces[id].room)
                      /\ mRaces[id].room.finished => rooms[id].finished
                      /\ rooms[id].finished <=> mRaces'[id].finishedFor # Never
    OBVIOUS
  <2>1. id \in Races /\ mRaces'[id] = After(dt, rooms, id) /\ ~Removable(After(dt, rooms, id))
    BY <1>2, <1>3
  <2>2. /\ After(dt, rooms, id).room = rooms[id]
        /\ Members(rooms[id]) \subseteq Members(mRaces[id].room)
        /\ mRaces[id].room.finished => rooms[id].finished
        /\ rooms[id].finished <=> After(dt, rooms, id).finishedFor # Never
        /\ After(dt, rooms, id) \in EntryType
    BY <2>1, RacePasses
  <2> QED
    BY <2>1, <2>2
<1>6. \A c \in Conns :
        /\ mConns'[c] \in ConnType
        /\ mConns[c].raceId \in gone => mConns'[c] = NoConn
        /\ mConns[c].raceId \notin gone =>
              /\ mConns'[c].raceId = mConns[c].raceId
              /\ mConns[c].closed => mConns'[c].closed
              /\ mConns[c].raceId # 0 => mConns'[c].closed = mConns[c].closed
  BY ConnsPass
<1>7. NoConn.raceId = 0 /\ NoConn.closed
  BY DEF NoConn, ClosedConn
<1>8. mConns' = [c \in Conns |-> mConns'[c]]
  BY DEF Pass, Advance
<1>9. /\ mSaved' = [id \in RaceIds |-> mSaved'[id]]
      /\ \A id \in RaceIds : mSaved'[id] = IF id \in Races /\ EndsNow(mRaces[id], rooms[id])
                                            THEN Least(mSaved[id] + 1, 2) ELSE mSaved[id]
  BY DEF Pass, Advance
<1> HIDE DEF gone
<1>10. EndsOnce'
  <2>1. \A id \in RaceIds : mSaved[id] \in 0..2
    BY <1>1 DEF TypeOK
  <2>2. ASSUME NEW id \in Races
        PROVE  id \in RaceIds /\ mSaved'[id] = (IF rooms[id].finished THEN 1 ELSE 0)
    <3>1. id \in RaceIds /\ id < mNextRace
      <4>1. /\ mNextRace \in 1..MaxRaceIds + 1 /\ MaxRaceIds \in Nat
            /\ id \in 1..mNextRace - 1
        BY <1>1 DEF TypeOK, LobbyAssumption
      <4> QED
        BY <4>1 DEF RaceIds
    <3>2. /\ mRaces[id].room.finished <=> mRaces[id].finishedFor # Never
          /\ mSaved[id] = (IF mRaces[id].room.finished THEN 1 ELSE 0)
      BY <1>1 DEF EndsOnce, SavedOnce
    <3>3. mRaces[id].room.finished => rooms[id].finished
      BY RacePasses
    <3>4. CASE mRaces[id].room.finished
      BY <1>9, <3>1, <3>2, <3>3, <3>4 DEF EndsNow
    <3>5. CASE ~mRaces[id].room.finished
      BY <1>9, <3>1, <3>2, <3>5 DEF EndsNow, Least
    <3> QED
      BY <3>1, <3>4, <3>5
  <2>3. \A id \in RaceIds : mSaved'[id] <= 1
    BY <1>1, <1>9, <2>2 DEF EndsOnce, SavedOnce
  <2>4. ASSUME NEW id \in RaceIds, id >= mNextRace'
        PROVE  mSaved'[id] = 0
    <3>1. id \notin Races
      <4>1. /\ mNextRace \in 1..MaxRaceIds + 1 /\ Races \subseteq 1..mNextRace - 1
            /\ mNextRace' = mNextRace
        BY <1>1, <1>4 DEF TypeOK
      <4> QED
        BY <2>4, <4>1 DEF RaceIds
    <3> QED
      BY <1>1, <1>4, <1>9, <2>4, <3>1 DEF EndsOnce
  <2>5. \A id \in Races' : mSaved'[id] = (IF mRaces'[id].room.finished THEN 1 ELSE 0)
    BY <1>5, <2>2
  <2> QED
    BY <1>5, <2>3, <2>4, <2>5 DEF EndsOnce, SavedOnce
<1>11. TypeOK'
  <2>1. mConns' \in [Conns -> ConnType]
    BY <1>6, <1>8
  <2>2. mRaces' \in [Races' -> EntryType]
    BY <1>2, <1>5
  <2>3. mSaved' \in [RaceIds -> 0..2]
    <3>1. \A id \in RaceIds : mSaved'[id] \in 0..2
      BY <1>1, <1>9 DEF TypeOK, Least
    <3> QED
      BY <1>9, <3>1
  <2>4. /\ mDraining' \in BOOLEAN /\ mExited' \in BOOLEAN /\ mSignals' \in 0..3
    BY <1>1 DEF Pass, DrainCheck, TypeOK
  <2>5. mDrainFor' \in 0..DrainTimeout + 1
    BY <1>1 DEF Pass, DrainCheck, TypeOK, Least, LobbyAssumption
  <2>6. mDrainedFor' \in Never..DrainPause + 1
    <3>1. mDrainedFor' \in {Never, Runs(mDrainedFor, dt, DrainPause)}
      BY DEF Pass, DrainCheck, Since, Runs
    <3>2. DrainPause \in Nat /\ dt \in Nat
      BY DEF LobbyAssumption
    <3>3. mDrainedFor \in Never..DrainPause + 1
      BY <1>1 DEF TypeOK
    <3>4. Runs(mDrainedFor, dt, DrainPause) \in 0..DrainPause + 1
      BY <3>2, <3>3, RunsOn
    <3> QED
      BY <3>1, <3>2, <3>4 DEF Never
  <2>7. Races' \subseteq 1..mNextRace' - 1
    BY <1>1, <1>2, <1>4 DEF TypeOK
  <2> QED
    BY <1>1, <1>4, <2>1, <2>2, <2>3, <2>4, <2>5, <2>6, <2>7 DEF TypeOK
<1>12. RoutesAgree'
  <2>1. ASSUME NEW id \in Races', NEW c \in Members(mRaces'[id].room)
        PROVE  mConns'[c].raceId = id /\ ~mConns'[c].closed
    <3>1. id \in Races /\ id \notin gone /\ id # 0 /\ c \in Members(mRaces[id].room)
      BY <1>2, <1>3, <1>5, <2>1
    <3>2. c \in Conns
      BY <1>1, <3>1 DEF TypeOK, EntryType, RoomType, Members
    <3>3. mConns[c].raceId = id /\ ~mConns[c].closed
      BY <1>1, <3>1 DEF RoutesAgree
    <3> QED
      BY <1>6, <3>1, <3>2, <3>3
  <2>2. \A c \in Conns : mConns'[c].raceId # 0 => mConns'[c].raceId \in Races'
    BY <1>1, <1>2, <1>6, <1>7 DEF RoutesAgree
  <2> QED
    BY <2>1, <2>2 DEF RoutesAgree
<1>13. StillClosed
  <2> SUFFICES ASSUME NEW c \in 1..mNextConn - 1, IsClosed(c) PROVE IsClosed(c)'
    BY DEF StillClosed
  <2>1. c \in Conns
    BY <1>1, Known
  <2>2. CASE mConns[c].raceId \in gone
    BY <1>6, <1>7, <2>1, <2>2 DEF IsClosed
  <2>3. CASE mConns[c].raceId \notin gone
    <3>1. CASE mConns[c].raceId = 0
      BY <1>6, <2>1, <2>3, <3>1 DEF IsClosed
    <3>2. CASE mConns[c].raceId # 0
      <4>1. mConns[c].raceId \in Races' /\ c \notin Members(mRaces[mConns[c].raceId].room)
        BY <1>1, <1>2, <2>1, <2>3, <3>2 DEF RoutesAgree, IsClosed
      <4>2. c \notin Members(mRaces'[mConns[c].raceId].room)
        BY <1>5, <4>1
      <4> QED
        BY <1>6, <2>1, <2>3, <3>2, <4>2 DEF IsClosed
    <3> QED
      BY <3>1, <3>2
  <2> QED
    BY <2>2, <2>3
<1> QED
  BY <1>10, <1>11, <1>12, <1>13 DEF ServerInv, LobbyInv

-----------------------------------------------------------------------------
(***************************************************************************)
(* Every step.                                                             *)
(***************************************************************************)
\* The signal touches the drain only.
LEMMA SignalStep ==
  ASSUME ServerInv, Signal
  PROVE  ServerInv' /\ StillClosed
<1>1. TypeOK'
  BY DEF ServerInv, LobbyInv, TypeOK, Signal, Races
<1>2. RoutesAgree' /\ EndsOnce'
  BY DEF ServerInv, LobbyInv, RoutesAgree, EndsOnce, SavedOnce, Signal, Races
<1>3. StillClosed
  BY DEF Signal, StillClosed, IsClosed, Races
<1> QED
  BY <1>1, <1>2, <1>3 DEF ServerInv, LobbyInv

\* Every step keeps the invariant, and closes for good what it closes.
LEMMA NextStep ==
  ASSUME LobbyAssumption, ServerInv, [Next]_vars
  PROVE  ServerInv' /\ StillClosed
<1>1. CASE UNCHANGED vars
  <2>1. ServerInv'
    BY <1>1 DEF vars, drainVars, ServerInv, LobbyInv, TypeOK, RoutesAgree, EndsOnce, SavedOnce, Races
  <2>2. StillClosed
    BY <1>1 DEF vars, StillClosed, IsClosed, Races
  <2> QED
    BY <2>1, <2>2
<1>2. ASSUME NEW dt \in 0..MaxLag, NEW rooms \in RoomsAfter, Pass(dt, rooms)
      PROVE  ServerInv' /\ StillClosed
  BY <1>2, PassStep
<1> QED
  BY <1>1, <1>2, ConnectStep, DisconnectStep, ReceiveStep, SignalStep DEF Next

-----------------------------------------------------------------------------
(***************************************************************************)
(* The drain.                                                              *)
(***************************************************************************)
\* A room does not go back to before its start, nor to before its end.
GoesOn(r, room) == (r.started => room.started) /\ (r.finished => room.finished)

\* The room of a race that goes on, changed alone.
LEMMA RoomGoesOn ==
  ASSUME TypeOK, NEW id \in Races, NEW room, GoesOn(mRaces[id].room, room),
         mRaces' = WithRoom(id, room)
  PROVE  /\ Races' = Races
         /\ \A i \in Races : GoesOn(mRaces[i].room, mRaces'[i].room)
<1>1. mRaces \in [Races -> EntryType]
  BY DEF TypeOK
<1>2. mRaces' = [mRaces EXCEPT ![id] = [mRaces[id] EXCEPT !.room = room]]
  BY DEF WithRoom
<1>3. Races' = Races /\ \A i \in Races : mRaces'[i] = IF i = id THEN [mRaces[id] EXCEPT !.room = room] ELSE mRaces[i]
  BY <1>1, <1>2 DEF Races
<1>4. [mRaces[id] EXCEPT !.room = room].room = room
  BY <1>1 DEF EntryType
<1>5. ASSUME NEW i \in Races PROVE GoesOn(mRaces[i].room, mRaces'[i].room)
  <2>1. CASE i = id
    BY <1>3, <1>4, <2>1
  <2>2. CASE i # id
    BY <1>3, <2>2 DEF GoesOn
  <2> QED
    BY <2>1, <2>2
<1> QED
  BY <1>3, <1>5

\* In the races there are after a step, those there were before it go on; the
\* others have a number of their own.
RacesGoOn ==
  /\ mNextRace' >= mNextRace
  /\ \A id \in Races' :
       id >= mNextRace \/ (id \in Races /\ GoesOn(mRaces[id].room, mRaces'[id].room))

\* A step that leaves the races alone.
LEMMA SameGoOn ==
  ASSUME TypeOK, mRaces' = mRaces, mNextRace' \in {mNextRace, mNextRace + 1}
  PROVE  RacesGoOn
<1>1. Races' = Races /\ mNextRace \in Int
  BY DEF Races, TypeOK
<1> QED
  BY <1>1 DEF RacesGoOn, GoesOn

\* A step that changes one of them.
LEMMA OneGoesOn ==
  ASSUME TypeOK, mNextRace' = mNextRace, NEW id \in Races, NEW room,
         GoesOn(mRaces[id].room, room), mRaces' = WithRoom(id, room)
  PROVE  RacesGoOn
<1>1. mNextRace \in Int
  BY DEF TypeOK
<1> QED
  BY <1>1, RoomGoesOn DEF RacesGoOn

\* What a peer sends lets every race go on.
LEMMA ReceiveGoesOn ==
  ASSUME TypeOK, Receive
  PROVE  RacesGoOn
<1>0. \A id \in Races : mRaces[id] \in EntryType /\ mRaces[id].room \in RoomType
  BY DEF TypeOK, EntryType
<1>1. ASSUME NEW c \in Conns, Refused(c) \/ Hello(c) \/ HostRaceFails(c)
      PROVE  RacesGoOn
  <2>1. mRaces' = mRaces /\ mNextRace' \in {mNextRace, mNextRace + 1}
    BY <1>1 DEF Refused, Hello, HostRaceFails
  <2> QED
    BY <2>1, SameGoOn
<1>2. ASSUME NEW c \in Conns, NEW seats \in RaceSeats, NEW private \in BOOLEAN,
             HostRace(c, seats, private)
      PROVE  RacesGoOn
  <2>1. /\ mNextRace' = mNextRace + 1 /\ mNextRace \in Int
        /\ Races' = Races \union {mNextRace}
        /\ \A id \in Races : id # mNextRace => mRaces'[id] = mRaces[id]
    BY <1>2 DEF HostRace, Races, TypeOK
  <2> QED
    BY <2>1 DEF RacesGoOn, GoesOn
<1>3. ASSUME NEW c \in Conns, NEW id \in RaceIds, WrongCode(c, id)
      PROVE  RacesGoOn
  <2>1. id \in Races /\ mNextRace' = mNextRace /\ mNextRace \in Int
    BY <1>3 DEF WrongCode, MayKnock, TypeOK
  <2>2. mRaces' = [mRaces EXCEPT ![id] = [mRaces[id] EXCEPT !.badAttempts = mRaces[id].badAttempts + 1]]
    BY <1>3 DEF WrongCode
  <2>3. Races' = Races /\ \A i \in Races : mRaces'[i].room = mRaces[i].room
    BY <1>0, <2>1, <2>2 DEF Races, EntryType, TypeOK
  <2> QED
    BY <2>1, <2>3 DEF RacesGoOn, GoesOn
<1>4. ASSUME NEW c \in Conns, NEW id \in RaceIds, Resume(c, id)
      PROVE  RacesGoOn
  <2>1. id \in Races /\ mNextRace' = mNextRace
    BY <1>4 DEF Resume
  <2>2. CASE ~mRaces[id].room.started
    BY <1>4, <2>1, <2>2, SameGoOn DEF Resume
  <2>3. CASE mRaces[id].room.started
    <3>1. PICK room \in Returned(mRaces[id].room, c) : mRaces' = WithRoom(id, room)
      BY <1>4, <2>3 DEF Resume
    <3>2. PICK drivers : room = [mRaces[id].room EXCEPT !.drivers = drivers]
      BY <3>1 DEF Returned
    <3>3. GoesOn(mRaces[id].room, room)
      BY <1>0, <2>1, <3>2 DEF GoesOn, RoomType
    <3> QED
      BY <2>1, <3>1, <3>3, OneGoesOn
  <2> QED
    BY <2>2, <2>3
<1>5. ASSUME NEW c \in Conns, NEW id \in RaceIds, JoinRace(c, id)
      PROVE  RacesGoOn
  <2>1. id \in Races /\ mNextRace' = mNextRace /\ ~mRaces[id].room.started
    BY <1>5 DEF JoinRace, MayKnock, MayEnter
  <2>2. PICK room \in Entered(mRaces[id].room, c) : mRaces' = WithRoom(id, room)
    BY <1>5 DEF JoinRace
  <2>3. PICK starts \in BOOLEAN :
          room = [mRaces[id].room EXCEPT !.drivers = mRaces[id].room.drivers \union {c}, !.started = starts]
    BY <2>2 DEF Entered
  <2>4. GoesOn(mRaces[id].room, room)
    BY <1>0, <2>1, <2>3 DEF GoesOn, RoomType
  <2> QED
    BY <2>1, <2>2, <2>4, OneGoesOn
<1>6. ASSUME NEW c \in Conns, NEW id \in RaceIds, SpectateRace(c, id)
      PROVE  RacesGoOn
  <2>1. id \in Races /\ mNextRace' = mNextRace
    BY <1>6 DEF SpectateRace, MayKnock
  <2>2. CASE MayWatch(mRaces[id].room, MaxSpectators)
    <3>1. GoesOn(mRaces[id].room, Watched(mRaces[id].room, c))
      BY <1>0, <2>1 DEF GoesOn, RoomType, Watched
    <3>2. mRaces' = WithRoom(id, Watched(mRaces[id].room, c))
      BY <1>6, <2>2 DEF SpectateRace
    <3> QED
      BY <2>1, <3>1, <3>2, OneGoesOn
  <2>3. CASE ~MayWatch(mRaces[id].room, MaxSpectators)
    BY <1>6, <2>1, <2>3, SameGoOn DEF SpectateRace
  <2> QED
    BY <2>2, <2>3
<1>7. ASSUME NEW c \in Conns, NEW id \in RaceIds, StartRace(c, id)
      PROVE  RacesGoOn
  <2>1. id \in Races /\ mNextRace' = mNextRace
    BY <1>7 DEF StartRace
  <2>2. PICK room \in Begun(mRaces[id].room) : mRaces' = WithRoom(id, room)
    BY <1>7 DEF StartRace
  <2>3. \/ \E seats : room = [mRaces[id].room EXCEPT !.seats = seats, !.started = TRUE]
        \/ \E seats : room = [mRaces[id].room EXCEPT !.seats = seats, !.drivers = {}]
    BY <2>2 DEF Begun
  <2>4. GoesOn(mRaces[id].room, room)
    BY <1>0, <2>1, <2>3 DEF GoesOn, RoomType
  <2> QED
    BY <2>1, <2>2, <2>4, OneGoesOn
<1>8. ASSUME NEW c \in Conns, NEW id \in RaceIds, ClosedByRace(c, id)
      PROVE  RacesGoOn
  <2>1. id \in Races /\ mNextRace' = mNextRace /\ mRaces' = WithRoom(id, Parted(mRaces[id].room, c))
    BY <1>8 DEF ClosedByRace
  <2>2. GoesOn(mRaces[id].room, Parted(mRaces[id].room, c))
    BY <1>0, <2>1 DEF GoesOn, RoomType, Parted
  <2> QED
    BY <2>1, <2>2, OneGoesOn
<1> QED
  BY <1>1, <1>2, <1>3, <1>4, <1>5, <1>6, <1>7, <1>8 DEF Receive

\* A pass lets every race go on that it does not remove.
LEMMA PassGoesOn ==
  ASSUME LobbyAssumption, ServerInv, NEW dt \in 0..MaxLag, NEW rooms \in RoomsAfter, Pass(dt, rooms)
  PROVE  RacesGoOn
<1>1. /\ Races' = Races \ Gone(dt, rooms)
      /\ \A id \in Races' : id \in Races /\ mRaces'[id] = After(dt, rooms, id)
      /\ mNextRace' = mNextRace /\ mNextRace \in Int
  BY DEF Pass, Advance, Gone, After, Restrict, Races, ServerInv, LobbyInv, TypeOK
<1>2. \A id \in Races : mRaces[id].room \in RoomType /\ rooms[id] \in Passed(mRaces[id].room)
  BY DEF ServerInv, LobbyInv, TypeOK, EntryType, RoomsAfter
<1>3. \A id \in Races' : GoesOn(mRaces[id].room, mRaces'[id].room)
  <2> SUFFICES ASSUME NEW id \in Races' PROVE GoesOn(mRaces[id].room, mRaces'[id].room)
    OBVIOUS
  <2>1. id \in Races /\ mRaces'[id].room = rooms[id]
    BY <1>1, RacePasses
  <2> QED
    BY <1>2, <2>1, PassedKeeps DEF GoesOn
<1> QED
  BY <1>1, <1>3 DEF RacesGoOn

\* Every step lets every race go on.
LEMMA NextGoesOn ==
  ASSUME LobbyAssumption, ServerInv, Next
  PROVE  RacesGoOn
<1>1. TypeOK
  BY DEF ServerInv, LobbyInv
<1>2. CASE Connect \/ Signal
  BY <1>1, <1>2, SameGoOn DEF Connect, Signal
<1>3. ASSUME NEW c \in Conns, Disconnect(c)
      PROVE  RacesGoOn
  <2>1. mNextRace' = mNextRace
    BY <1>3 DEF Disconnect
  <2> DEFINE id == mConns[c].raceId
  <2>2. CASE id \in Races
    <3>1. mRaces' = WithRoom(id, Parted(mRaces[id].room, c))
      BY <1>3, <2>2 DEF Disconnect, HostTold
    <3>2. GoesOn(mRaces[id].room, Parted(mRaces[id].room, c))
      BY <1>1, <2>2 DEF GoesOn, RoomType, EntryType, TypeOK, Parted
    <3> HIDE DEF id
    <3> QED
      BY <1>1, <2>1, <2>2, <3>1, <3>2, OneGoesOn
  <2>3. CASE id \notin Races
    BY <1>1, <1>3, <2>1, <2>3, SameGoOn DEF Disconnect, HostTold
  <2> QED
    BY <2>2, <2>3
<1> QED
  BY <1>1, <1>2, <1>3, ReceiveGoesOn, PassGoesOn DEF Next

\* The drain has no clock before the pass that starts it, and the loop is left for
\* one of its three reasons.
DrainInv ==
  /\ ~mDraining => mDrainedFor = Never /\ ~mExited
  /\ mExited => mSignals = 3 \/ DrainOver(mDrainFor, mDrainedFor)

\* A race that was under way when the signal came: as long as it runs, the pause
\* after the last race has not begun.
Spared(id) ==
  /\ mSignals # 0 /\ id < mNextRace
  /\ id \in Races => mRaces[id].room.started
  /\ id \in Running(mRaces) => mDrainedFor = Never

\* No race takes the number of one that was spared, and it runs only if it did.
LEMMA OldRaces ==
  ASSUME LobbyAssumption, ServerInv, ServerInv', RacesGoOn, NEW id \in RaceIds, Spared(id)
  PROVE  /\ id < mNextRace'
         /\ id \in Races' => id \in Races /\ GoesOn(mRaces[id].room, mRaces'[id].room)
         /\ id \in Running(mRaces') => id \in Running(mRaces)
<1>1. /\ MaxRaceIds \in Nat /\ id \in Nat
      /\ mNextRace \in 1..MaxRaceIds + 1 /\ mNextRace' \in 1..MaxRaceIds + 1
  BY DEF ServerInv, LobbyInv, TypeOK, LobbyAssumption, RaceIds
<1>2. id < mNextRace /\ mNextRace' >= mNextRace
  BY DEF Spared, RacesGoOn
<1>3. id < mNextRace' /\ ~(id >= mNextRace)
  BY <1>1, <1>2
<1>4. id \in Races' => id \in Races /\ GoesOn(mRaces[id].room, mRaces'[id].room)
  BY <1>3 DEF RacesGoOn
<1>5. id \in Running(mRaces') => id \in Running(mRaces)
  BY <1>4 DEF Running, Spared, GoesOn, Races
<1> QED
  BY <1>3, <1>4, <1>5

\* Every step keeps both.
LEMMA DrainStep ==
  ASSUME LobbyAssumption, ServerInv, DrainInv, [Next]_vars
  PROVE  DrainInv' /\ \A id \in RaceIds : Spared(id) => Spared(id)'
<1>0. ServerInv'
  BY NextStep
<1>1. CASE UNCHANGED vars
  BY <1>1 DEF vars, drainVars, DrainInv, DrainOver, Spared, Races
<1>2. CASE Next
  <2>1. RacesGoOn
    BY <1>2, NextGoesOn
  <2>2. CASE UNCHANGED drainVars
    <3>1. DrainInv'
      BY <2>2 DEF DrainInv, drainVars, DrainOver
    <3>2. ASSUME NEW id \in RaceIds, Spared(id) PROVE Spared(id)'
      <4>1. /\ id < mNextRace'
            /\ id \in Races' => id \in Races /\ GoesOn(mRaces[id].room, mRaces'[id].room)
            /\ id \in Running(mRaces') => id \in Running(mRaces)
        BY <1>0, <2>1, <3>2, OldRaces
      <4> QED
        BY <2>2, <3>2, <4>1 DEF Spared, drainVars, GoesOn, Races
    <3> QED
      BY <3>1, <3>2
  <2>3. CASE Signal /\ ~mExited
    <3>1. DrainInv'
      BY <2>3 DEF DrainInv, Signal
    <3>2. mSignals' # 0
      BY <2>3 DEF Signal
    <3> QED
      BY <2>3, <3>1, <3>2 DEF Spared, Signal, Races
  <2>4. ASSUME NEW dt \in 0..MaxLag, NEW rooms \in RoomsAfter, Pass(dt, rooms)
        PROVE  DrainInv' /\ \A id \in RaceIds : Spared(id) => Spared(id)'
    <3>1. DrainInv'
      BY <2>4 DEF DrainInv, Pass, DrainCheck, DrainOver, Since
    <3>2. ASSUME NEW id \in RaceIds, Spared(id) PROVE Spared(id)'
      <4>1. /\ id < mNextRace'
            /\ id \in Races' => id \in Races /\ GoesOn(mRaces[id].room, mRaces'[id].room)
            /\ id \in Running(mRaces') => id \in Running(mRaces)
        BY <1>0, <2>1, <3>2, OldRaces
      <4>3. id \in Running(mRaces') => mDrainedFor' = Never
        BY <2>4, <3>2, <4>1 DEF Spared, Pass, DrainCheck, Since
      <4>4. mSignals' # 0
        BY <2>4, <3>2 DEF Spared, Pass, DrainCheck
      <4> QED
        BY <3>2, <4>1, <4>3, <4>4 DEF Spared, GoesOn
    <3> QED
      BY <3>1, <3>2
  <2>5. ASSUME Receive PROVE UNCHANGED drainVars
    BY <2>5 DEF Receive, Refused, Hello, HostRace, HostRaceFails, Resume, JoinRace, SpectateRace,
                WrongCode, StartRace, ClosedByRace
  <2>6. Connect \/ (\E c \in Conns : Disconnect(c)) => UNCHANGED drainVars
    BY DEF Connect, Disconnect
  <2> QED
    BY <1>2, <2>2, <2>3, <2>4, <2>5, <2>6 DEF Next
<1> QED
  BY <1>1, <1>2

-----------------------------------------------------------------------------
(***************************************************************************)
(* The theorems.                                                           *)
(***************************************************************************)
\* The inductive invariant holds in every state, whatever the peers send and in
\* whatever order the server's loop finds it.
THEOREM ServerCorrect == ASSUME LobbyAssumption PROVE Spec => []ServerInv
<1>1. Init => ServerInv
  BY InitInv
<1>2. ServerInv /\ [Next]_vars => ServerInv'
  BY NextStep
<1> QED
  BY <1>1, <1>2, PTL DEF Spec

\* The lobby and its races always agree on who is where, however many connections
\* come, change to a race, are closed by it or removed with it.
THEOREM RoutesCorrect == ASSUME LobbyAssumption PROVE Spec => []LobbyInv
<1>1. ServerInv => LobbyInv
  BY DEF ServerInv
<1> QED
  BY <1>1, ServerCorrect, PTL

\* A race that is over was saved once, whatever pass saw it end and whenever it
\* is removed.
THEOREM SavedCorrect == ASSUME LobbyAssumption PROVE Spec => []SavedOnce
<1>1. ServerInv => SavedOnce
  BY DEF ServerInv, EndsOnce
<1> QED
  BY <1>1, ServerCorrect, PTL

\* What IsClosed once answered of a connection stays, whichever list it reads.
THEOREM ClosedCorrect == ASSUME LobbyAssumption PROVE Spec => ClosedForGood
<1> DEFINE A == \A c \in 1..mNextConn - 1 : IsClosed(c) => IsClosed(c)'
<1>1. ServerInv /\ [Next]_vars => [A]_vars
  BY NextStep DEF StillClosed
<1> QED
  BY <1>1, ServerCorrect, PTL DEF Spec, ClosedForGood

\* Only a race without anybody, or one that is over and has lingered, is removed.
THEOREM NobodyThrownOutCorrect == ASSUME LobbyAssumption PROVE Spec => NobodyThrownOut
<1> DEFINE Fair(id) == \/ ~mRaces[id].room.started \/ Members(mRaces[id].room) = {}
                       \/ mRaces[id].room.finished /\ mRaces[id].finishedFor + MaxLag > Linger
           A == \A id \in Races \ DOMAIN mRaces' : Fair(id)
<1>1. ASSUME ServerInv, [Next]_vars PROVE [A]_vars
  <2> SUFFICES ASSUME Next PROVE A
    BY <1>1
  <2>1. CASE \E dt \in 0..MaxLag, rooms \in RoomsAfter : Pass(dt, rooms)
    <3> SUFFICES ASSUME NEW id \in Races \ DOMAIN mRaces' PROVE Fair(id)
      OBVIOUS
    <3>1. PICK dt \in 0..MaxLag, rooms \in RoomsAfter : Pass(dt, rooms)
      BY <2>1
    <3>2. Removable(After(dt, rooms, id))
      BY <3>1 DEF Pass, Advance, Restrict, After
    <3> QED
      BY <1>1, <3>2, RacePasses
  <2>2. CASE Connect \/ (\E c \in Conns : Disconnect(c)) \/ Receive \/ Signal
    <3>1. Races \subseteq DOMAIN mRaces'
      <4>1. CASE mRaces' = mRaces
        BY <4>1 DEF Races
      <4>2. CASE \E c \in Conns : Disconnect(c)
        BY <4>2 DEF Disconnect, HostTold, WithRoom, Races
      <4>3. ASSUME NEW c \in Conns, NEW id \in RaceIds,
                   \/ Resume(c, id) \/ JoinRace(c, id) \/ SpectateRace(c, id)
                   \/ WrongCode(c, id) \/ StartRace(c, id) \/ ClosedByRace(c, id)
            PROVE  Races \subseteq DOMAIN mRaces'
        <5>1. CASE Resume(c, id)
          BY <5>1 DEF Resume, WithRoom, Races
        <5>2. CASE JoinRace(c, id) \/ SpectateRace(c, id)
          BY <5>2 DEF JoinRace, SpectateRace, WithRoom, Races
        <5>3. CASE WrongCode(c, id) \/ StartRace(c, id) \/ ClosedByRace(c, id)
          BY <5>3 DEF WrongCode, StartRace, ClosedByRace, HostTold, WithRoom, Races
        <5> QED
          BY <4>3, <5>1, <5>2, <5>3
      <4>4. ASSUME NEW c \in Conns, NEW seats \in RaceSeats, NEW private \in BOOLEAN,
                   HostRace(c, seats, private)
            PROVE  Races \subseteq DOMAIN mRaces'
        BY <4>4 DEF HostRace, Races
      <4>5. ASSUME NEW c \in Conns, Refused(c) \/ Hello(c) \/ HostRaceFails(c)
            PROVE  mRaces' = mRaces
        BY <4>5 DEF Refused, Hello, HostRaceFails
      <4>6. Connect \/ Signal => mRaces' = mRaces
        BY DEF Connect, Signal
      <4> QED
        BY <2>2, <4>1, <4>2, <4>3, <4>4, <4>5, <4>6 DEF Receive
    <3> QED
      BY <3>1
  <2> QED
    BY <2>1, <2>2 DEF Next
<1> QED
  BY <1>1, ServerCorrect, PTL DEF Spec, NobodyThrownOut

\* A race that is under way when the signal comes is never cut off, whatever
\* connections come and go during the drain: as long as it runs, the process leaves
\* only for a second signal or the timeout (the loop of main).
THEOREM DrainSparesCorrect == ASSUME LobbyAssumption PROVE Spec => DrainSparesRunning
<1> SUFFICES ASSUME NEW id \in RaceIds
             PROVE  Spec => [](mSignals # 0 /\ ~mDraining /\ id \in Running(mRaces)
                       => [](mExited /\ mSignals = 2 /\ mDrainFor <= DrainTimeout => id \notin Running(mRaces)))
  BY DEF DrainSparesRunning
<1> DEFINE Signalled == mSignals # 0 /\ ~mDraining /\ id \in Running(mRaces)
           Finished == mExited /\ mSignals = 2 /\ mDrainFor <= DrainTimeout => id \notin Running(mRaces)
<1>1. Init => DrainInv
  BY DEF Init, DrainInv
<1>2. ServerInv /\ DrainInv /\ [Next]_vars => DrainInv'
  BY DrainStep
<1>3. ServerInv /\ DrainInv /\ Spared(id) /\ [Next]_vars => Spared(id)'
  BY DrainStep
<1>4. ServerInv /\ DrainInv /\ Signalled => Spared(id)
  <2> SUFFICES ASSUME ServerInv, DrainInv, Signalled PROVE Spared(id)
    OBVIOUS
  <2>1. id \in Races /\ mRaces[id].room.started
    BY DEF Running, Races
  <2>2. id < mNextRace
    BY <2>1 DEF ServerInv, LobbyInv, TypeOK
  <2> QED
    BY <2>1, <2>2 DEF Spared, DrainInv
<1>5. ServerInv /\ DrainInv /\ Spared(id) => Finished
  <2> SUFFICES ASSUME ServerInv, DrainInv, Spared(id), mExited, mSignals = 2, mDrainFor <= DrainTimeout
               PROVE  id \notin Running(mRaces)
    OBVIOUS
  <2>1. mDrainFor \in Int /\ DrainTimeout \in Int /\ DrainPause \in Nat
    BY DEF ServerInv, LobbyInv, TypeOK, LobbyAssumption
  <2>2. mDrainedFor > DrainPause
    BY <2>1 DEF DrainInv, DrainOver
  <2>3. mDrainedFor # Never
    BY <2>1, <2>2 DEF Never
  <2> QED
    BY <2>3 DEF Spared
<1> HIDE DEF Signalled, Finished
<1>6. Spec => [](Signalled => []Finished)
  BY <1>1, <1>2, <1>3, <1>4, <1>5, ServerCorrect, PTL DEF Spec
<1> QED
  BY <1>6 DEF Signalled, Finished
=============================================================================
