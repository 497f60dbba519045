------------------------------- MODULE RaceHost -------------------------------
(***************************************************************************)
(* One race behind its connections: who holds which player slot, the       *)
(* reconnect tokens, the start (when full, or when the host asks), drivers *)
(* that reconnect, spectators behind a delay, the ticks and the Result.    *)
(*                                                                         *)
(* Abstractions.  Time is counted in ticks of 16 ms and kept relative: how *)
(* old a silent connection is, and how far the clock is from the time of   *)
(* tick 0; both stop at the largest value anything is compared with.  A    *)
(* frame is one action; the frames sent to a connection are kept as what   *)
(* its peer knows by them, in the connection's last four fields.  A closed *)
(* connection is never looked at again, so it is forgotten.  Of the race   *)
(* only the tick and whether it is over are kept: its inside is module     *)
(* AuthoritativeRace.  Rosters, chat, pings, reports and metrics change    *)
(* none of this.                                                           *)
(***************************************************************************)
EXTENDS Integers, FiniteSets

CONSTANTS
  Seats,          \* HostConfig::race.players
  MaxConns,       \* bound: connections over the life of the host
  StartDelay,     \* startDelayMs, in ticks
  HelloTimeout,   \* helloTimeoutMs, in ticks
  SpecDelay,      \* spectatorDelayMs, in ticks
  MaxSpectators,  \* maxSpectators
  KeyframeTicks,  \* keyframeTicks
  RaceLimit,      \* bound: the tick at which every race is over
  MaxLag,         \* bound: ticks of time between two calls of Advance
  TrackMayFail    \* the track file may become unreadable while the host runs

ASSUME HostAssumption ==
  /\ Seats \in Nat \ {0}
  /\ MaxConns \in Nat
  /\ {StartDelay, HelloTimeout, SpecDelay, MaxSpectators, MaxLag} \subseteq Nat
  /\ RaceLimit \in Nat \ {0}
  /\ KeyframeTicks \in Nat
  /\ TrackMayFail \in BOOLEAN

VARIABLES
  mConnections,  \* the connections by id; one not accepted yet is closed
  mNextId,       \* the id of the next connection
  mPlayers,      \* mConfig.race.players, lowered by HostStart
  mTokens,       \* the reconnect token of each slot, 0 for none
  mTokenState,   \* the tokens issued so far: each is a new one
  mHostStarts,   \* the race waits for its host to start it
  mHostConn,     \* the host's connection, 0 for none
  mStarted,      \* Start was sent
  mSlotNames,    \* who held each slot when the race started
  mClock,        \* now - mStartMs, the time since tick 0 was due
  mTick,         \* mSimulated, which is the race's CurrentTick
  mFinished,     \* mRace.Finished()
  mLoaded,       \* the last mRace.Start succeeded
  mResultSent,   \* FinishRace was run
  mKeyframes     \* the ticks a snapshot is kept of

slotVars  == <<mPlayers, mTokens, mTokenState, mHostStarts, mHostConn, mSlotNames>>
raceVars  == <<mTick, mFinished, mLoaded, mResultSent, mKeyframes>>
vars == <<mConnections, mNextId, mStarted, mClock, slotVars, raceVars>>

Conns == 1..MaxConns
NoPlayer == -1
NoTick == -1
Slots == 0..mPlayers - 1
MaxClock == RaceLimit + SpecDelay
NoAck == [player |-> NoPlayer, players |-> 0, token |-> 0]

\* A connection as Connect makes it, but for being open.  What its peer was told:
\* ack, the newest HelloAck; start, whether Start was sent; next, the tick its
\* world stands at (NoTick while it has none); results, the Result frames.
NewConnection ==
  [closed |-> TRUE, helloDone |-> FALSE, player |-> NoPlayer, spectator |-> FALSE,
   name |-> 0, age |-> 0, specCursor |-> 0, specResultSent |-> FALSE,
   ack |-> NoAck, start |-> FALSE, next |-> NoTick, results |-> 0]

Init ==
  /\ mConnections = [c \in Conns |-> NewConnection]
  /\ mNextId = 1
  /\ mPlayers = Seats
  /\ mTokens = [s \in 0..Seats - 1 |-> 0]
  /\ mTokenState = 0
  /\ mHostStarts = FALSE /\ mHostConn = 0
  /\ mStarted = FALSE
  /\ mSlotNames = <<>>
  /\ mClock = 0
  /\ mTick = 0 /\ mFinished = FALSE /\ mLoaded = TRUE /\ mResultSent = FALSE
  /\ mKeyframes = {0}

-----------------------------------------------------------------------------
(***************************************************************************)
(* Helpers over the connections.                                           *)
(***************************************************************************)
Open(conns)    == {c \in Conns : ~conns[c].closed}
Drivers(conns) == {c \in Open(conns) : conns[c].player >= 0}
Watchers(conns) == {c \in Open(conns) : conns[c].spectator}

ConnectedPlayers == Cardinality(Drivers(mConnections))
Full == ConnectedPlayers >= mPlayers

\* Close and Disconnect.
Closed(conns, which) == [c \in Conns |-> IF c \in which THEN NewConnection ELSE conns[c]]

\* Mutation: the slot after the players there.
FreeSlotNext == ConnectedPlayers

\* The lowest slot no open connection holds.
FreeSlot ==
  CHOOSE s \in Slots :
    /\ \A c \in Drivers(mConnections) : mConnections[c].player # s
    /\ \A r \in Slots : r < s => \E c \in Drivers(mConnections) : mConnections[c].player = r

HelloAck(slot, token, players) == [player |-> slot, token |-> token, players |-> players]

\* Broadcast of Start.
ToldStart(conns) ==
  [c \in Conns |-> IF c \in Drivers(conns)
                   THEN [conns[c] EXCEPT !.start = TRUE, !.next = 0] ELSE conns[c]]

\* Mutation: by the slots before they were numbered again.
NameOfBefore(conns, s) ==
  LET holders == {c \in Drivers(mConnections) : mConnections[c].player = s}
  IN  IF holders = {} THEN 0 ELSE mConnections[CHOOSE c \in holders : TRUE].name

\* The name of the player in a slot, 0 if nobody holds it.
NameOf(conns, s) ==
  LET holders == {c \in Drivers(conns) : conns[c].player = s}
  IN  IF holders = {} THEN 0 ELSE conns[CHOOSE c \in holders : TRUE].name

\* StartNow, with the connections as they are when it is called.
StartNow(conns) ==
  /\ mStarted' = TRUE
  /\ mClock' = -StartDelay
  /\ mSlotNames' = [s \in 0..mPlayers' - 1 |-> NameOf(conns, s)]
  /\ mConnections' = ToldStart(conns)

-----------------------------------------------------------------------------
(***************************************************************************)
(* Connections come and go.                                                *)
(***************************************************************************)
Connect ==
  /\ mNextId <= MaxConns
  /\ mNextId' = mNextId + 1
  /\ mConnections' = [mConnections EXCEPT ![mNextId] = [NewConnection EXCEPT !.closed = FALSE]]
  /\ UNCHANGED <<mStarted, mClock, slotVars, raceVars>>

\* The transport loses it, or it is closed: by the window of invalid messages,
\* the limit on snapshot requests, a bad frame, a moderator, or a handshake that
\* is malformed, of another version, or not a handshake at all.
Drop(c) ==
  /\ c \in Open(mConnections)
  /\ mConnections' = Closed(mConnections, {c})
  /\ UNCHANGED <<mNextId, mStarted, mClock, slotVars, raceVars>>

Waiting(c) == c \in Open(mConnections) /\ ~mConnections[c].helloDone

\* Mutation: a race that runs takes newcomers.
JoinableWhileRunning == ~Full
Joinable == ~mStarted /\ ~Full

HelloRefused(c) ==
  /\ Waiting(c)
  /\ ~Joinable
  /\ mConnections' = Closed(mConnections, {c})
  /\ UNCHANGED <<mNextId, mStarted, mClock, slotVars, raceVars>>

\* The first player there, with kCapHostStart, becomes the host.
TakesHost(asksHost) == ConnectedPlayers = 0 /\ asksHost

\* BeginRaceIfFull: a race of several players with a host waits for the host.
BeginsFull(conns) ==
  /\ Cardinality(Drivers(conns)) >= mPlayers
  /\ ~(mHostStarts' /\ mPlayers > 1)

\* The connection when its Hello is answered.
Accepted(c, slot, token) ==
  [mConnections[c] EXCEPT !.helloDone = TRUE, !.name = c, !.player = slot,
                          !.ack = HelloAck(slot, token, mPlayers)]

HelloAccepted(c, asksHost) ==
  /\ Waiting(c)
  /\ Joinable
  /\ LET slot  == FreeSlot
         token == mTokenState + 1
         conns == [mConnections EXCEPT ![c] = Accepted(c, slot, token)]
     IN  /\ mTokenState' = token
         /\ mTokens' = [mTokens EXCEPT ![slot] = token]
         /\ mHostStarts' = (mHostStarts \/ TakesHost(asksHost))
         /\ mHostConn' = IF TakesHost(asksHost) THEN c ELSE mHostConn
         /\ mPlayers' = mPlayers
         /\ IF BeginsFull(conns)
            THEN StartNow(conns)
            ELSE mConnections' = conns /\ UNCHANGED <<mStarted, mClock, mSlotNames>>
  /\ UNCHANGED <<mNextId, raceVars>>

(***************************************************************************)
(* The host's StartRace.                                                   *)
(***************************************************************************)
MayHostStart(c) ==
  /\ c \in Open(mConnections)
  /\ mConnections[c].helloDone /\ ~mConnections[c].spectator
  /\ mHostStarts /\ ~mStarted
  /\ mConnections[c].player = 0

HostStartsFull(c) ==
  /\ MayHostStart(c)
  /\ ConnectedPlayers = mPlayers
  /\ mPlayers' = mPlayers
  /\ StartNow(mConnections)
  /\ UNCHANGED <<mNextId, mTokens, mTokenState, mHostStarts, mHostConn, raceVars>>

\* Mutation: the gaps stay.
NewSlotKept(c) == mConnections[c].player

\* With fewer players than seats the slots are numbered again, in order, and
\* everybody gets a new token and HelloAck before Start.
NewSlot(c) ==
  Cardinality({d \in Drivers(mConnections) : mConnections[d].player < mConnections[c].player})

NewToken(s) == mTokenState + s + 1

Renumbered(d) ==
  [mConnections[d] EXCEPT !.player = NewSlot(d),
                          !.ack = HelloAck(NewSlot(d), NewToken(NewSlot(d)), ConnectedPlayers)]

HostStartsFewer(c) ==
  /\ MayHostStart(c)
  /\ ConnectedPlayers # mPlayers
  /\ LET n     == ConnectedPlayers
         conns == [d \in Conns |-> IF d \in Drivers(mConnections) THEN Renumbered(d)
                                   ELSE mConnections[d]]
     IN  /\ mPlayers' = n
         /\ mTokens' = [s \in 0..n - 1 |-> NewToken(s)]
         /\ mTokenState' = mTokenState + n
         /\ mKeyframes' = {0}
         /\ mLoaded' = TRUE
         /\ StartNow(conns)
  /\ UNCHANGED <<mNextId, mHostStarts, mHostConn, mTick, mFinished, mResultSent>>

\* mRace.Start fails: the players are sent away, the lower seat count stays.
HostStartFails(c) ==
  /\ TrackMayFail
  /\ MayHostStart(c)
  /\ ConnectedPlayers # mPlayers
  /\ mPlayers' = ConnectedPlayers
  /\ mLoaded' = FALSE
  /\ mConnections' = Closed(mConnections, Drivers(mConnections))
  /\ UNCHANGED <<mNextId, mStarted, mClock, mTokens, mTokenState, mHostStarts, mHostConn,
                 mSlotNames, mTick, mFinished, mResultSent, mKeyframes>>

(***************************************************************************)
(* Resume.                                                                 *)
(***************************************************************************)
Owned(token) == {s \in DOMAIN mTokens : mTokens[s] = token}

ResumeRefused(c, token) ==
  /\ Waiting(c)
  /\ Owned(token) = {} \/ ~mStarted
  /\ mConnections' = Closed(mConnections, {c})
  /\ UNCHANGED <<mNextId, mStarted, mClock, slotVars, raceVars>>

\* Mutation: nobody is replaced.
ReplacedNone(c, slot) == {}

\* Another connection that still holds the slot is replaced.
Replaced(c, slot) == {d \in Open(mConnections) \ {c} : mConnections[d].player = slot}

Resumed(c, slot) ==
  [mConnections[c] EXCEPT !.helloDone = TRUE, !.player = slot,
                          !.ack = HelloAck(slot, mTokens[slot], mPlayers)]

Resume(c, token) ==
  /\ Waiting(c)
  /\ mStarted
  /\ \E slot \in Owned(token) :
       /\ \A s \in Owned(token) : s <= slot
       /\ mConnections' = [Closed(mConnections, Replaced(c, slot)) EXCEPT ![c] = Resumed(c, slot)]
  /\ UNCHANGED <<mNextId, mStarted, mClock, slotVars, raceVars>>

(***************************************************************************)
(* Snapshots and spectators.                                               *)
(***************************************************************************)
\* Mutation: without the delay.
NewestKeyframe == CHOOSE k \in mKeyframes : \A j \in mKeyframes : j <= k

\* The newest keyframe the delay allows; the oldest if it allows none.
SpectatorKeyframe ==
  LET allowed == {k \in mKeyframes : k <= mTick - SpecDelay}
      oldest  == CHOOSE k \in mKeyframes : \A j \in mKeyframes : k <= j
  IN  IF allowed = {} THEN oldest ELSE CHOOSE k \in allowed : \A j \in allowed : j <= k

SpectateRefused(c) ==
  /\ Waiting(c)
  /\ ~mStarted \/ Cardinality(Watchers(mConnections)) >= MaxSpectators
  /\ mConnections' = Closed(mConnections, {c})
  /\ UNCHANGED <<mNextId, mStarted, mClock, slotVars, raceVars>>

Spectate(c) ==
  /\ Waiting(c)
  /\ mStarted
  /\ Cardinality(Watchers(mConnections)) < MaxSpectators
  /\ mConnections' = [mConnections EXCEPT
                        ![c].helloDone = TRUE, ![c].name = c, ![c].spectator = TRUE,
                        ![c].specCursor = SpectatorKeyframe, ![c].next = SpectatorKeyframe]
  /\ UNCHANGED <<mNextId, mStarted, mClock, slotVars, raceVars>>

\* A spectator is sent its keyframe again and the ticks after it; a driver the
\* race as it is.
SnapshotRequest(c) ==
  /\ c \in Open(mConnections) /\ mConnections[c].helloDone
  /\ mStarted
  /\ mConnections' =
       IF mConnections[c].spectator
       THEN [mConnections EXCEPT ![c].specCursor = SpectatorKeyframe, ![c].specResultSent = FALSE,
                                 ![c].next = SpectatorKeyframe]
       ELSE [mConnections EXCEPT ![c].next = mTick]
  /\ UNCHANGED <<mNextId, mStarted, mClock, slotVars, raceVars>>

-----------------------------------------------------------------------------
(***************************************************************************)
(* Advance: time passes.                                                   *)
(***************************************************************************)
Least(a, b) == IF a <= b THEN a ELSE b

\* The host is gone and the race has not started.
HostLeft == /\ mHostStarts /\ ~mStarted
            /\ mHostConn # 0 /\ mConnections[mHostConn].closed

\* The silent connections Advance closes after dt.
Expired(conns, dt) ==
  {c \in Open(conns) : ~conns[c].helloDone /\ conns[c].age + dt > HelloTimeout}

Aged(conns, dt) ==
  [c \in Conns |-> IF conns[c].closed \/ conns[c].helloDone THEN [conns[c] EXCEPT !.age = 0]
                   ELSE [conns[c] EXCEPT !.age = Least(conns[c].age + dt, HelloTimeout)]]

\* Mutation: the others are not sent away.
AfterClosingSilent(dt) == Aged(Closed(mConnections, Expired(mConnections, dt)), dt)

AfterClosing(dt) ==
  LET sentAway == IF HostLeft THEN Drivers(mConnections) ELSE {}
      conns    == Closed(mConnections, sentAway)
  IN  Aged(Closed(conns, Expired(conns, dt)), dt)

\* The ticks due at a clock: tick n is due at n ticks past the start.
Due(clock) == IF clock < 0 THEN 0 ELSE clock + 1

Result(conn) == [conn EXCEPT !.results = Least(conn.results + 1, 2)]

\* Mutation: not to those who came back.
ToDriversUnlessResumed(conns, to, finishing) ==
  [c \in Conns |-> IF c \notin Drivers(conns) \/ ~conns[c].start THEN conns[c]
                   ELSE IF finishing THEN Result([conns[c] EXCEPT !.next = to])
                   ELSE [conns[c] EXCEPT !.next = to]]

\* Broadcast of the Tick frames mTick..to-1 and, when the race ends, of the Result.
ToDrivers(conns, to, finishing) ==
  LET Ticks(conn) == IF conn.next = mTick THEN [conn EXCEPT !.next = to] ELSE conn
  IN  [c \in Conns |-> IF c \notin Drivers(conns) THEN conns[c]
                       ELSE IF finishing THEN Result(Ticks(conns[c])) ELSE Ticks(conns[c])]

\* Mutation: counted from the last tick simulated, not from the clock.
AllowedByTicks(clock, tick) == IF tick <= SpecDelay THEN 0 ELSE tick - SpecDelay

\* The ticks a spectator may see.
Allowed(clock, tick) ==
  LET releasable == Due(clock) - SpecDelay
  IN  IF releasable <= 0 THEN 0 ELSE Least(releasable, tick)

\* Mutation: the Result does not wait for the last ticks.
ServedResultEarly(conn, clock, tick, resultOut) ==
  LET cursor == IF conn.specCursor < Allowed(clock, tick) THEN Allowed(clock, tick)
                ELSE conn.specCursor
      ticks  == [conn EXCEPT !.specCursor = cursor,
                             !.next = IF conn.next = conn.specCursor THEN cursor
                                     ELSE conn.next]
  IN  IF resultOut /\ ~conn.specResultSent
      THEN Result([ticks EXCEPT !.specResultSent = TRUE]) ELSE ticks

\* SendSpectatorFrames; resultOut: FinishRace had been run before.
Served(conn, clock, tick, resultOut) ==
  LET cursor == IF conn.specCursor < Allowed(clock, tick) THEN Allowed(clock, tick)
                ELSE conn.specCursor
      ticks  == [conn EXCEPT !.specCursor = cursor,
                             !.next = IF conn.next = conn.specCursor THEN cursor
                                     ELSE conn.next]
  IN  IF resultOut /\ cursor >= tick /\ ~conn.specResultSent
      THEN Result([ticks EXCEPT !.specResultSent = TRUE]) ELSE ticks

ToSpectators(conns, clock, tick, resultOut) ==
  [c \in Conns |-> IF c \in Watchers(conns) THEN Served(conns[c], clock, tick, resultOut)
                   ELSE conns[c]]

AdvanceWaiting(dt) ==
  /\ ~mStarted
  /\ mConnections' = AfterClosing(dt)
  /\ mHostConn' = IF HostLeft THEN 0 ELSE mHostConn
  /\ UNCHANGED <<mNextId, mStarted, mClock, mPlayers, mTokens, mTokenState, mHostStarts,
                 mSlotNames, raceVars>>

\* Every tick that is due is simulated, unless the race ends first.
AdvanceRunning(dt) ==
  LET clock == mClock + dt
      now   == Least(clock, MaxClock)
  IN
  /\ mStarted /\ ~mFinished
  /\ mLoaded          \* advancing a race that is not loaded is undefined: the run ends
  /\ mClock' = now
  /\ \E to \in mTick..RaceLimit, over \in BOOLEAN :
       /\ IF over THEN to > mTick /\ to <= Due(clock)
          ELSE to = (IF Due(clock) > mTick THEN Due(clock) ELSE mTick) /\ to < RaceLimit
       /\ mTick' = to
       /\ mFinished' = over
       /\ mResultSent' = (mResultSent \/ over)
       /\ mKeyframes' = mKeyframes \union
                          {k \in mTick + 1..to : KeyframeTicks > 0 /\ k % KeyframeTicks = 0}
       /\ mConnections' = ToSpectators(ToDrivers(AfterClosing(dt), to, over /\ ~mResultSent),
                                       now, to, mResultSent)
  /\ UNCHANGED <<mNextId, mStarted, mLoaded, slotVars>>

AdvanceFinished(dt) ==
  LET now == Least(mClock + dt, MaxClock)
  IN
  /\ mStarted /\ mFinished
  /\ mClock' = now
  /\ mResultSent' = TRUE
  /\ mConnections' = ToSpectators(ToDrivers(AfterClosing(dt), mTick, ~mResultSent),
                                  now, mTick, TRUE)
  /\ UNCHANGED <<mNextId, mStarted, slotVars, mTick, mFinished, mLoaded, mKeyframes>>

Advance == \E dt \in 0..MaxLag : AdvanceWaiting(dt) \/ AdvanceRunning(dt) \/ AdvanceFinished(dt)

-----------------------------------------------------------------------------
Receive ==
  \E c \in Conns :
    \/ HelloRefused(c)
    \/ \E asksHost \in BOOLEAN : HelloAccepted(c, asksHost)
    \/ HostStartsFull(c)
    \/ HostStartsFewer(c)
    \/ HostStartFails(c)
    \/ \E token \in 0..mTokenState : ResumeRefused(c, token) \/ Resume(c, token)
    \/ SpectateRefused(c)
    \/ Spectate(c)
    \/ SnapshotRequest(c)

Next == Connect \/ (\E c \in Conns : Drop(c)) \/ Receive \/ Advance

Spec == Init /\ [][Next]_vars

\* The server's loop calls Advance again and again with a clock that moves on.
TimePasses == \E dt \in 1..MaxLag :
                AdvanceWaiting(dt) \/ AdvanceRunning(dt) \/ AdvanceFinished(dt)
FairSpec == Spec /\ WF_vars(TimePasses)

-----------------------------------------------------------------------------
(***************************************************************************)
(* Properties.                                                             *)
(***************************************************************************)
Player == NoPlayer..Seats - 1
Token == 0..mTokenState
Connection ==
  [closed : BOOLEAN, helloDone : BOOLEAN, player : Player, spectator : BOOLEAN,
   name : 0..MaxConns, age : 0..HelloTimeout, specCursor : 0..RaceLimit,
   specResultSent : BOOLEAN,
   ack : [player : Player, players : 0..Seats, token : Token],
   start : BOOLEAN, next : NoTick..RaceLimit, results : 0..2]

\* The type of the host's state (RaceHost.h's members).
TypeOK ==
  /\ mConnections \in [Conns -> Connection]
  /\ mNextId \in 1..MaxConns + 1
  /\ mPlayers \in 1..Seats
  /\ mTokenState \in Nat
  /\ DOMAIN mTokens \subseteq 0..Seats - 1 /\ \A s \in DOMAIN mTokens : mTokens[s] \in Token
  /\ mHostStarts \in BOOLEAN /\ mHostConn \in {0} \union Conns
  /\ mStarted \in BOOLEAN
  /\ \A s \in DOMAIN mSlotNames : mSlotNames[s] \in 0..MaxConns
  /\ mClock \in -StartDelay..MaxClock
  /\ mTick \in 0..RaceLimit
  /\ {mFinished, mLoaded, mResultSent} \subseteq BOOLEAN
  /\ mKeyframes \subseteq 0..RaceLimit /\ 0 \in mKeyframes

\* No slot is driven by two connections, and what a driver was told by its
\* newest HelloAck is what the host holds: its slot, the number of players, and
\* the token that would give it this slot, and only this one, back (Hello,
\* HostStart and Resume, which hand out slots by three different rules).  After
\* a HostStart that failed the tokens no longer fit the players.
SlotsHeld ==
  /\ \A c, d \in Drivers(mConnections) :
       mConnections[c].player = mConnections[d].player => c = d
  /\ mLoaded => \A c \in Drivers(mConnections) :
       LET slot == mConnections[c].player
       IN  /\ slot \in Slots
           /\ mConnections[c].ack = HelloAck(slot, mTokens[slot], mPlayers)
           /\ mTokens[slot] # 0 /\ Owned(mTokens[slot]) = {slot}

\* What keeps SlotsHeld: nobody drives before its Hello, waiting players fit the
\* seats, there is a token for every slot, a token belongs to one slot, and in a
\* started race every slot has one.
SeatInv ==
  /\ TypeOK
  /\ \A c \in Conns : ~mConnections[c].helloDone => mConnections[c].player = NoPlayer
  /\ ~mStarted => \A c \in Drivers(mConnections) : mConnections[c].player \in Slots
  /\ Slots \subseteq DOMAIN mTokens /\ (mLoaded => DOMAIN mTokens = Slots)
  /\ \A s, r \in DOMAIN mTokens : mTokens[s] = mTokens[r] /\ mTokens[s] # 0 => s = r
  /\ mLoaded /\ mStarted => \A s \in Slots : mTokens[s] # 0
  /\ SlotsHeld

\* A race starts whole: the drivers then are exactly the slots 0 to players - 1,
\* and each of them is told Start (a race that begins full, and one the host
\* starts with fewer players than seats after others left gaps).
StartsWhole ==
  [][~mStarted /\ mStarted' =>
       /\ {mConnections'[c].player : c \in Drivers(mConnections)'} = 0..mPlayers' - 1
       /\ \A c \in Drivers(mConnections)' : mConnections'[c].start]_vars

\* Once started, who may drive what is settled: the players, their tokens and
\* their names stay, whoever leaves, returns, or knocks.
SeatsSettled ==
  [][mStarted => mStarted' /\ UNCHANGED <<mPlayers, mTokens, mSlotNames>>]_vars

\* A driver who was there at the start is listed, by name, in the slot it
\* drives (replays, results and the league go by mSlotNames).
NamesMatch ==
  \A c \in Drivers(mConnections) :
    mConnections[c].start => mSlotNames[mConnections[c].player] = mConnections[c].name

\* Every world the host feeds stands where its next Tick continues: a driver's,
\* from Start or from its snapshot, at the race's tick; a spectator's at the
\* tick its cursor says.  No Tick is skipped, none is sent twice.
WorldsInStep ==
  /\ \A c \in Drivers(mConnections) :
       mConnections[c].next \in {mTick} \union (IF mConnections[c].start THEN {} ELSE {NoTick})
  /\ \A c \in Watchers(mConnections) :
       mConnections[c].next = mConnections[c].specCursor /\ mConnections[c].next <= mTick

\* A spectator is never shown a tick less than the delay old, whenever it joins
\* and however often it asks for a snapshot.
SpectatorsBehind ==
  \A c \in Watchers(mConnections) :
    mConnections[c].next > 0 => mConnections[c].next <= Due(mClock) - SpecDelay

\* The Result is the last a peer hears of a race: a driver who was there from
\* the start gets it once, when the race is over; a spectator after the last
\* Tick and the delay.
ResultLast ==
  /\ mResultSent => mFinished
  /\ \A c \in Drivers(mConnections) :
       mConnections[c].start => mConnections[c].results = (IF mResultSent THEN 1 ELSE 0)
  /\ \A c \in Watchers(mConnections) :
       mConnections[c].specResultSent =>
         mResultSent /\ mConnections[c].next = mTick /\ Due(mClock) - SpecDelay >= mTick

\* A connection that says nothing does not stay (helloTimeoutMs).
SilentLeave == \A c \in Conns : Waiting(c) ~> ~Waiting(c)

\* The others of a waiting room whose host left do not wait for ever: they are
\* sent away, or the race starts after all.
HostlessLeave ==
  \A c \in Conns : HostLeft /\ c \in Drivers(mConnections)
                   ~> c \notin Drivers(mConnections) \/ mStarted

\* Nobody is kept waiting for ever, neither by its own silence nor by a host that
\* has gone.
NobodyWaitsForEver == SilentLeave /\ HostlessLeave

\* A spectator who stays gets the Result, although nothing is simulated any
\* more while the delay still runs.
SpectatorsGetResult ==
  \A c \in Conns : c \in Watchers(mConnections)
                   ~> c \notin Watchers(mConnections) \/ mConnections[c].results > 0

-----------------------------------------------------------------------------
(***************************************************************************)
(* What a comment says, and the code does otherwise.                       *)
(***************************************************************************)
\* The race that starts is one that was loaded.
StartedIsLoaded == mStarted => mLoaded
=============================================================================
