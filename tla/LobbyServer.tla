----------------------------- MODULE LobbyServer ------------------------------
(***************************************************************************)
(* The lobby: connections that look at races, host, join, watch or come    *)
(* back to them; the races themselves, each behind the promise of module   *)
(* Room; the removal of races that are over, abandoned or empty; and the   *)
(* drain that ends the process.                                            *)
(*                                                                         *)
(* Abstractions.  Times are kept relative and stop at the largest value    *)
(* they are compared with; a time not set is Never.  What only reads       *)
(* (lists, replays, league) or talks (chat) is left out; so are the        *)
(* several limits and checks that close a connection, which are one step   *)
(* (Refused) that may always be taken.  A code is right or wrong.          *)
(***************************************************************************)
EXTENDS Room, Functions

CONSTANTS
  MaxConns,       \* bound: connections over the life of the server
  MaxRaceIds,     \* bound: races over the life of the server
  MaxOpen,        \* maxConnections
  MaxRaces,       \* maxRaces
  MaxSpectators,  \* raceTemplate.maxSpectators
  RaceSeats,      \* the numbers of players a race may be hosted for
  MaxBadAttempts, \* wrong codes before a race refuses everyone (30)
  HelloTimeout,   \* helloTimeoutMs
  Abandoned,      \* abandonedRaceMs
  Linger,         \* finishedRaceLingerMs
  DrainTimeout,   \* --drain-timeout
  DrainPause,     \* the pause after the last race
  MaxLag          \* bound: time between two passes of the server's loop

ASSUME LobbyAssumption ==
  /\ {MaxConns, MaxRaceIds, MaxOpen, MaxRaces, MaxSpectators, MaxBadAttempts} \subseteq Nat
  /\ {HelloTimeout, Abandoned, Linger, DrainTimeout, DrainPause, MaxLag} \subseteq Nat
  /\ RaceSeats \subseteq Nat \ {0}

VARIABLES
  mConns,       \* the connections by id
  mNextConn,    \* the id of the next connection
  mRaces,       \* the races by id
  mNextRace,    \* the id of the next race
  mSaved,       \* how often mOnFinished was called for a race
  mDraining,    \* SetDraining was called
  mSignals,     \* g_drainRequested: 0, 1 after a signal, 2 once noticed, 3 after another
  mDrainFor,    \* since drainStarted
  mDrainedFor,  \* since drainedAt
  mExited       \* the loop was left

drainVars == <<mDraining, mSignals, mDrainFor, mDrainedFor, mExited>>
vars == <<mConns, mNextConn, mRaces, mNextRace, mSaved, drainVars>>

Conns == 1..MaxConns
RaceIds == 1..MaxRaceIds
Never == -1

\* A connection that is closed, in a race or in the lobby (0); one that said Hello.
ClosedConn(id)  == [closed |-> TRUE, helloDone |-> FALSE, raceId |-> id, age |-> 0]
GreetedConn(id) == [closed |-> FALSE, helloDone |-> TRUE, raceId |-> id, age |-> 0]

\* A connection not accepted yet, or closed with nothing left to say.
NoConn == ClosedConn(0)

NewEntry(room, private) ==
  [room |-> room, private |-> private, badAttempts |-> 0, finishedFor |-> Never,
   emptyFor |-> Never]

Init ==
  /\ mConns = [c \in Conns |-> NoConn] /\ mNextConn = 1
  /\ mRaces = <<>> /\ mNextRace = 1
  /\ mSaved = [id \in RaceIds |-> 0]
  /\ mDraining = FALSE /\ mSignals = 0
  /\ mDrainFor = 0 /\ mDrainedFor = Never /\ mExited = FALSE

-----------------------------------------------------------------------------
Races == DOMAIN mRaces

\* A connection in a race is as open as the race says.
IsClosed(c) ==
  IF mConns[c].raceId = 0 THEN mConns[c].closed
  ELSE \/ mConns[c].raceId \notin Races
       \/ c \notin Members(mRaces[mConns[c].raceId].room)

OpenConnections == Cardinality({c \in Conns : ~IsClosed(c)})

InLobby(c) == ~mConns[c].closed /\ mConns[c].raceId = 0
Greeted(c) == InLobby(c) /\ mConns[c].helloDone

Running(races) == {id \in DOMAIN races : races[id].room.started /\ ~races[id].room.finished}

WithRoom(id, room) == [mRaces EXCEPT ![id].room = room]

\* The connection once it is routed to a race.
Attached(c, id) == [mConns EXCEPT ![c] = GreetedConn(id)]

-----------------------------------------------------------------------------
(***************************************************************************)
(* Connections come, say Hello, are refused, and go.                       *)
(***************************************************************************)
Connect ==
  /\ mNextConn <= MaxConns
  /\ mNextConn' = mNextConn + 1
  /\ mConns' = IF OpenConnections >= MaxOpen THEN mConns
               ELSE [mConns EXCEPT ![mNextConn].closed = FALSE]
  /\ UNCHANGED <<mRaces, mNextRace, mSaved, drainVars>>

\* Mutation: the race is not told.
HostNotTold(c) == mRaces

\* The race is told that the connection is gone.
HostTold(c) ==
  IF mConns[c].raceId \in Races
  THEN WithRoom(mConns[c].raceId, Parted(mRaces[mConns[c].raceId].room, c)) ELSE mRaces

Disconnect(c) ==
  /\ ~mConns[c].closed
  /\ mConns' = [mConns EXCEPT ![c] = ClosedConn(mConns[c].raceId)]
  /\ mRaces' = HostTold(c)
  /\ UNCHANGED <<mNextConn, mNextRace, mSaved, drainVars>>

\* Close: a malformed or forbidden message, too many of them, an unknown token,
\* a race that is not there, is full, cannot be hosted, or nobody may join now.
Refused(c) ==
  /\ InLobby(c)
  /\ mConns' = [mConns EXCEPT ![c] = NoConn]
  /\ UNCHANGED <<mNextConn, mRaces, mNextRace, mSaved, drainVars>>

Hello(c) ==
  /\ InLobby(c) /\ ~mConns[c].helloDone
  /\ mConns' = [mConns EXCEPT ![c] = GreetedConn(0)]
  /\ UNCHANGED <<mNextConn, mRaces, mNextRace, mSaved, drainVars>>

(***************************************************************************)
(* Resume, HostRace, JoinRace, SpectateRace: a way into a race.            *)
(***************************************************************************)
\* The token of a race that has not started is refused by the race itself.
Resume(c, id) ==
  /\ InLobby(c) /\ ~mConns[c].helloDone
  /\ id \in Races
  /\ mConns' = Attached(c, id)
  /\ IF mRaces[id].room.started
     THEN \E room \in Returned(mRaces[id].room, c) : mRaces' = WithRoom(id, room)
     ELSE mRaces' = mRaces
  /\ UNCHANGED <<mNextConn, mNextRace, mSaved, drainVars>>

MayHost == ~mDraining /\ Cardinality(Races) < MaxRaces

HostRace(c, seats, private) ==
  /\ Greeted(c)
  /\ MayHost
  /\ mNextRace <= MaxRaceIds
  /\ mNextRace' = mNextRace + 1
  /\ \E room \in Entered(NewRoom(seats), c) :
       mRaces' = [id \in Races \union {mNextRace} |->
                    IF id = mNextRace THEN NewEntry(room, private) ELSE mRaces[id]]
  /\ mConns' = Attached(c, mNextRace)
  /\ UNCHANGED <<mNextConn, mSaved, drainVars>>

\* The track cannot be loaded: the id is used up.
HostRaceFails(c) ==
  /\ Greeted(c)
  /\ MayHost
  /\ mNextRace <= MaxRaceIds
  /\ mNextRace' = mNextRace + 1
  /\ mConns' = [mConns EXCEPT ![c] = NoConn]
  /\ UNCHANGED <<mNextConn, mRaces, mSaved, drainVars>>

\* CodeAccepted: a public race, or the right code before too many wrong ones.
MayKnock(id) ==
  /\ id \in Races
  /\ mRaces[id].private => mRaces[id].badAttempts < MaxBadAttempts

JoinRace(c, id) ==
  /\ Greeted(c)
  /\ ~mDraining
  /\ MayKnock(id)
  /\ MayEnter(mRaces[id].room)
  /\ mConns' = Attached(c, id)
  /\ \E room \in Entered(mRaces[id].room, c) : mRaces' = WithRoom(id, room)
  /\ UNCHANGED <<mNextConn, mNextRace, mSaved, drainVars>>

\* Whether there is room for a spectator the race says, after the attachment.
SpectateRace(c, id) ==
  /\ Greeted(c)
  /\ MayKnock(id)
  /\ mConns' = Attached(c, id)
  /\ mRaces' = IF MayWatch(mRaces[id].room, MaxSpectators)
               THEN WithRoom(id, Watched(mRaces[id].room, c)) ELSE mRaces
  /\ UNCHANGED <<mNextConn, mNextRace, mSaved, drainVars>>

\* To join (not in a drain) or to watch.
WrongCode(c, id) ==
  /\ Greeted(c)
  /\ MayKnock(id) /\ mRaces[id].private
  /\ mConns' = [mConns EXCEPT ![c] = NoConn]
  /\ mRaces' = [mRaces EXCEPT ![id].badAttempts = mRaces[id].badAttempts + 1]
  /\ UNCHANGED <<mNextConn, mNextRace, mSaved, drainVars>>

(***************************************************************************)
(* A frame of a connection in a race goes on to the race, which may start  *)
(* by it, or close the connection for it.                                  *)
(***************************************************************************)
StartRace(c, id) ==
  /\ ~mConns[c].closed /\ mConns[c].raceId = id /\ id \in Races
  /\ c \in mRaces[id].room.drivers
  /\ MayBegin(mRaces[id].room)
  /\ \E room \in Begun(mRaces[id].room) : mRaces' = WithRoom(id, room)
  /\ UNCHANGED <<mConns, mNextConn, mNextRace, mSaved, drainVars>>

ClosedByRace(c, id) ==
  /\ ~mConns[c].closed /\ mConns[c].raceId = id /\ id \in Races
  /\ c \in Members(mRaces[id].room)
  /\ mRaces' = WithRoom(id, Parted(mRaces[id].room, c))
  /\ UNCHANGED <<mConns, mNextConn, mNextRace, mSaved, drainVars>>

Receive ==
  \E c \in Conns :
    \/ Refused(c) \/ Hello(c)
    \/ \E seats \in RaceSeats, private \in BOOLEAN : HostRace(c, seats, private)
    \/ HostRaceFails(c)
    \/ \E id \in RaceIds : \/ Resume(c, id) \/ JoinRace(c, id) \/ SpectateRace(c, id)
                           \/ WrongCode(c, id) \/ StartRace(c, id) \/ ClosedByRace(c, id)

-----------------------------------------------------------------------------
(***************************************************************************)
(* Advance, and what the server's loop does after it.                      *)
(***************************************************************************)
Least(a, b) == IF a <= b THEN a ELSE b

\* Mutation: taken again at every pass.
SinceThisPass(holds, old, dt, limit) == IF holds THEN 0 ELSE Never

\* A time that runs while a condition holds, counted from its first pass.
Since(holds, old, dt, limit) ==
  IF ~holds THEN Never ELSE IF old = Never THEN 0 ELSE Least(old + dt, limit + 1)

\* Mutation: spectators are not counted.
DesertedByDrivers(room) == room.started /\ ~room.finished /\ room.drivers = {}

\* Nobody is left to finish the race.
Deserted(room) == room.started /\ ~room.finished /\ Members(room) = {}

Timed(e, room, dt) ==
  [e EXCEPT !.room = room,
            !.finishedFor = Since(room.finished, e.finishedFor, dt, Linger),
            !.emptyFor = Since(Deserted(room), e.emptyFor, dt, Abandoned)]

Removable(e) ==
  \/ e.emptyFor > Abandoned
  \/ e.finishedFor > Linger
  \/ ~e.room.started /\ Members(e.room) = {}

\* Mutation: left open, in the lobby.
ReleasedOpen(conn) == [conn EXCEPT !.raceId = 0]

\* The connection after its race was removed.
Released(conn) == NoConn

\* Mutation: in every pass while it lingers.
EndsNowOrBefore(e, room) == room.finished

\* Whether the finished race is announced in this pass.
EndsNow(e, room) == room.finished /\ e.finishedFor = Never

HelloOverdue(conn, dt) ==
  ~conn.closed /\ ~conn.helloDone /\ conn.raceId = 0 /\ conn.age + dt > HelloTimeout

Aged(conn, dt) ==
  IF conn.closed \/ conn.helloDone THEN conn
  ELSE [conn EXCEPT !.age = Least(conn.age + dt, HelloTimeout)]

\* The rooms as they are, and as the races' own Advance may leave them.
RoomsNow == [id \in Races |-> mRaces[id].room]
RoomsAfter ==
  {rooms \in [Races -> UNION {Passed(mRaces[id].room) : id \in Races}] :
     \A id \in Races : rooms[id] \in Passed(mRaces[id].room)}

Advance(dt, rooms) ==
  /\ LET races == [id \in Races |-> Timed(mRaces[id], rooms[id], dt)]
         gone  == {id \in Races : Removable(races[id])}
     IN  /\ mRaces' = Restrict(races, Races \ gone)
         /\ mConns' = [c \in Conns |->
                         IF mConns[c].raceId \in gone THEN Released(mConns[c])
                         ELSE IF HelloOverdue(mConns[c], dt) THEN NoConn
                         ELSE Aged(mConns[c], dt)]
  /\ mSaved' = [id \in RaceIds |->
                  IF id \in Races /\ EndsNow(mRaces[id], rooms[id])
                  THEN Least(mSaved[id] + 1, 2) ELSE mSaved[id]]
  /\ UNCHANGED <<mNextConn, mNextRace>>

\* Mutation: only when no race is running.
DrainOverWhenEmpty(drainFor, drainedFor) == drainedFor > DrainPause

\* The drain's clocks, and whether it is over.
DrainOver(drainFor, drainedFor) == drainedFor > DrainPause \/ drainFor > DrainTimeout

\* Mutation: the pause starts with the drain, whatever is running.
DrainCheckAtOnce(dt) ==
  /\ mDraining' = (mSignals # 0)
  /\ mSignals' = IF mSignals # 0 /\ ~mDraining THEN 2 ELSE mSignals
  /\ mDrainFor' = IF mDraining THEN Least(mDrainFor + dt, DrainTimeout + 1) ELSE 0
  /\ mDrainedFor' = Since(mDraining', mDrainedFor, dt, DrainPause)
  /\ mExited' = (mDraining' /\ (mSignals' = 3 \/ DrainOver(mDrainFor', mDrainedFor')))

\* The pass that notices the first signal starts the drain.
DrainCheck(dt) ==
  /\ mDraining' = (mSignals # 0)
  /\ mSignals' = IF mSignals # 0 /\ ~mDraining THEN 2 ELSE mSignals
  /\ mDrainFor' = IF mDraining THEN Least(mDrainFor + dt, DrainTimeout + 1) ELSE 0
  /\ mDrainedFor' = Since(mDraining' /\ (mDrainedFor # Never \/ Running(mRaces') = {}),
                          mDrainedFor, dt, DrainPause)
  /\ mExited' = (mDraining' /\ (mSignals' = 3 \/ DrainOver(mDrainFor', mDrainedFor')))

Pass(dt, rooms) == ~mExited /\ Advance(dt, rooms) /\ DrainCheck(dt)

\* OnDrainSignal.
Signal ==
  /\ mSignals' = IF mSignals = 0 THEN 1 ELSE 3
  /\ UNCHANGED <<mConns, mNextConn, mRaces, mNextRace, mSaved, mDraining, mDrainFor,
                 mDrainedFor, mExited>>

Next ==
  \/ ~mExited /\ (Connect \/ (\E c \in Conns : Disconnect(c)) \/ Receive \/ Signal)
  \/ \E dt \in 0..MaxLag, rooms \in RoomsAfter : Pass(dt, rooms)

Spec == Init /\ [][Next]_vars

\* The loop goes on, and its clock moves; that a race ever ends is not assumed.
TimePasses == \E dt \in 1..MaxLag : Pass(dt, RoomsNow)
FairSpec == Spec /\ WF_vars(TimePasses)

-----------------------------------------------------------------------------
(***************************************************************************)
(* Properties.                                                             *)
(***************************************************************************)
RoomType ==
  [drivers : SUBSET Conns, watchers : SUBSET Conns, seats : Nat, started : BOOLEAN,
   finished : BOOLEAN]
ConnType ==
  [closed : BOOLEAN, helloDone : BOOLEAN, raceId : 0..MaxRaceIds, age : 0..HelloTimeout]
EntryType ==
  [room : RoomType, private : BOOLEAN, badAttempts : 0..MaxBadAttempts,
   finishedFor : Never..Linger, emptyFor : Never..Abandoned]

\* The type of the lobby's state (LobbyServer.h's members and the loop's times).
TypeOK ==
  /\ mConns \in [Conns -> ConnType]
  /\ mNextConn \in 1..MaxConns + 1 /\ mNextRace \in 1..MaxRaceIds + 1
  /\ Races \subseteq 1..mNextRace - 1 /\ mRaces \in [Races -> EntryType]
  /\ mSaved \in [RaceIds -> 0..2]
  /\ {mDraining, mExited} \subseteq BOOLEAN /\ mSignals \in 0..3
  /\ mDrainFor \in 0..DrainTimeout + 1 /\ mDrainedFor \in Never..DrainPause + 1

\* The lobby and its races agree on who is where: whoever a race counts is open
\* in the lobby and routed to that race, and nobody is routed to a race that is
\* gone (Attach, Disconnect and the removal in Advance, over two lists of
\* connections that are kept apart).
RoutesAgree ==
  /\ \A id \in Races : \A c \in Members(mRaces[id].room) :
       mConns[c].raceId = id /\ ~mConns[c].closed
  /\ \A c \in Conns : mConns[c].raceId # 0 => mConns[c].raceId \in Races

\* What every step of the lobby keeps: the types and the two lists.
LobbyInv == TypeOK /\ RoutesAgree

\* A connection that was closed, by the lobby, by its race or with its race, is
\* never open again: the socket loop closes the socket then and gives no notice
\* (IsClosed reads another state before and after a race takes or leaves it).
ClosedForGood == [][\A c \in 1..mNextConn - 1 : IsClosed(c) => IsClosed(c)']_vars

\* A race goes with nobody in it, or when it was over and has lingered: no
\* driver and no spectator is thrown out of a race that is under way.
NobodyThrownOut ==
  [][\A id \in Races \ DOMAIN mRaces' :
       \/ ~mRaces[id].room.started \/ Members(mRaces[id].room) = {}
       \/ mRaces[id].room.finished /\ mRaces[id].finishedFor + MaxLag > Linger]_vars

\* Every race that ends is saved, once, by the pass that sees it end, however
\* long it lingers, and also when the process leaves.
SavedOnce ==
  /\ \A id \in Races : mSaved[id] = (IF mRaces[id].room.finished THEN 1 ELSE 0)
  /\ \A id \in RaceIds : mSaved[id] <= 1

\* A race that nobody is in does not hold its place for ever.
EmptyRacesGo ==
  \A id \in RaceIds :
    id \in Races /\ Members(mRaces[id].room) = {}
    ~> mExited \/ id \notin Races \/ Members(mRaces[id].room) # {}

\* A race that is over goes, whoever stays connected to it.
FinishedRacesGo ==
  \A id \in RaceIds : id \in Races /\ mRaces[id].room.finished ~> mExited \/ id \notin Races

\* Every place for a race is given back in the end.
PlacesComeBack == EmptyRacesGo /\ FinishedRacesGo

\* A drain ends, whatever the races do.
DrainEnds == mSignals # 0 ~> mExited

\* A race that is under way when the signal comes runs to its end: the process
\* leaves no earlier, unless the drain times out or it is told twice. (The loop
\* notes once that nothing is running; a race started after that is not spared.)
DrainSparesRunning ==
  \A id \in RaceIds :
    [](mSignals # 0 /\ ~mDraining /\ id \in Running(mRaces)
       => [](mExited /\ mSignals = 2 /\ mDrainFor <= DrainTimeout => id \notin Running(mRaces)))
=============================================================================
