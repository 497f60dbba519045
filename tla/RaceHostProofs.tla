---------------------------- MODULE RaceHostProofs ----------------------------
(***************************************************************************)
(* The seats of a race, for any number of seats, connections and ticks:    *)
(* who drives which slot, and with which token.                            *)
(***************************************************************************)
EXTENDS RaceHost, FiniteSetTheorems, TLAPS

-----------------------------------------------------------------------------
(***************************************************************************)
(* Counting seats.                                                         *)
(***************************************************************************)
\* At most n sit on n seats; with fewer than n one is free, else none is.
LEMMA Seating ==
  ASSUME NEW D, NEW n \in Nat, NEW f \in [D -> 0..n - 1],
         \A c, d \in D : f[c] = f[d] => c = d
  PROVE  /\ IsFiniteSet(D) /\ Cardinality(D) \in Nat /\ Cardinality(D) <= n
         /\ Cardinality(D) >= n => \A s \in 0..n - 1 : \E c \in D : f[c] = s
         /\ Cardinality(D) < n => \E s \in 0..n - 1 : \A c \in D : f[c] # s
<1>1. IsFiniteSet(0..n - 1) /\ Cardinality(0..n - 1) = n
  BY FS_Interval
<1>2. f \in Injection(D, 0..n - 1)
  BY DEF Injection, IsInjective
<1>3. /\ IsFiniteSet(D) /\ Cardinality(D) <= n
      /\ Cardinality(D) = n <=> f \in Surjection(D, 0..n - 1)
  BY <1>1, <1>2, FS_Injection
<1>4. Cardinality(D) \in Nat
  BY <1>3, FS_CardinalityType
<1>5. f \in Surjection(D, 0..n - 1) <=> \A s \in 0..n - 1 : \E c \in D : f[c] = s
  BY DEF Surjection
<1> QED
  BY <1>3, <1>4, <1>5

\* A bounded set of naturals has a least and a greatest element: the sets of
\* the smaller, and of the greater ones, cannot shrink for ever.
LEMMA LeastAndGreatest ==
  ASSUME NEW n \in Nat, NEW S, S \subseteq 0..n, S # {}
  PROVE  /\ \E x \in S : \A y \in S : x <= y
         /\ \E x \in S : \A y \in S : y <= x
<1> DEFINE below(x) == {z \in S : z < x}
           above(x) == {z \in S : z > x}
           R == StrictSubsetOrdering(S)
<1>0. S \in SUBSET (0..n) /\ S \subseteq Int
  OBVIOUS
<1>1. IsFiniteSet(S)
  <2>1. IsFiniteSet(0..n)
    BY FS_Interval
  <2> QED
    BY <1>0, <2>1, FS_Subset
<1>2. IsWellFoundedOn(R, SUBSET S)
  BY <1>1, FS_StrictSubsetOrderingWellFounded, FS_FiniteSubsetsOfFinite
<1>3. \E x \in S : \A y \in S : x <= y
  <2>1. {below(x) : x \in S} \subseteq SUBSET S /\ {below(x) : x \in S} # {}
    OBVIOUS
  <2> HIDE DEF below, R
  <2>2. PICK B \in {below(x) : x \in S} : \A A \in {below(x) : x \in S} : ~ (<<A, B>> \in R)
    BY <1>2, <2>1, WFMin
  <2>3. PICK x \in S : B = below(x)
    BY <2>2
  <2>4. ASSUME NEW y \in S, y < x PROVE FALSE
    <3>0. x \in Int /\ y \in Int
      BY <1>0
    <3>1. below(y) \subseteq below(x) /\ y \in below(x) /\ y \notin below(y)
      <4>1. \A z \in S : z < y => z < x
        BY <1>0, <2>4, <3>0
      <4>2. ~ y < y
        BY <3>0
      <4> QED
        BY <2>4, <4>1, <4>2 DEF below
    <3>2. <<below(y), below(x)>> \in R
      BY <3>1, <2>1 DEF R, StrictSubsetOrdering
    <3> QED
      BY <3>2, <2>2, <2>3
  <2> QED
    BY <1>0, <2>4
<1>4. \E x \in S : \A y \in S : y <= x
  <2>1. {above(x) : x \in S} \subseteq SUBSET S /\ {above(x) : x \in S} # {}
    OBVIOUS
  <2> HIDE DEF above, R
  <2>2. PICK B \in {above(x) : x \in S} : \A A \in {above(x) : x \in S} : ~ (<<A, B>> \in R)
    BY <1>2, <2>1, WFMin
  <2>3. PICK x \in S : B = above(x)
    BY <2>2
  <2>4. ASSUME NEW y \in S, y > x PROVE FALSE
    <3>0. x \in Int /\ y \in Int
      BY <1>0
    <3>1. above(y) \subseteq above(x) /\ y \in above(x) /\ y \notin above(y)
      <4>1. \A z \in S : z > y => z > x
        BY <1>0, <2>4, <3>0
      <4>2. ~ y > y
        BY <3>0
      <4> QED
        BY <2>4, <4>1, <4>2 DEF above
    <3>2. <<above(y), above(x)>> \in R
      BY <3>1, <2>1 DEF R, StrictSubsetOrdering
    <3> QED
      BY <3>2, <2>2, <2>3
  <2> QED
    BY <1>0, <2>4
<1> QED
  BY <1>3, <1>4

\* Seats numbered again: the number of those on lower seats is below the number
\* of those there, and different for each.
LEMMA Renumbering ==
  ASSUME NEW D, IsFiniteSet(D), NEW f \in [D -> Nat],
         \A c, d \in D : f[c] = f[d] => c = d
  PROVE  LET g == [c \in D |-> Cardinality({d \in D : f[d] < f[c]})]
         IN  /\ Cardinality(D) \in Nat
             /\ g \in [D -> 0..Cardinality(D) - 1]
             /\ \A c, d \in D : g[c] = g[d] => c = d
<1> DEFINE lower(c) == {d \in D : f[d] < f[c]}
           n == Cardinality(D)
<1>1. n \in Nat
  BY FS_CardinalityType
<1>2. \A c \in D : IsFiniteSet(lower(c)) /\ Cardinality(lower(c)) \in Nat
  BY FS_Subset, FS_CardinalityType
<1>3. ASSUME NEW c \in D PROVE Cardinality(lower(c)) <= n - 1
  <2>1. IsFiniteSet(D \ {c}) /\ Cardinality(D \ {c}) = n - 1
    BY FS_RemoveElement
  <2>2. lower(c) \subseteq D \ {c}
    OBVIOUS
  <2> QED
    BY <2>1, <2>2, FS_Subset
<1>4. ASSUME NEW c \in D, NEW d \in D, f[c] < f[d]
      PROVE  Cardinality(lower(c)) < Cardinality(lower(d))
  <2>1. lower(c) \subseteq lower(d) /\ c \in lower(d) /\ c \notin lower(c)
    BY <1>4
  <2>2. Cardinality(lower(c)) <= Cardinality(lower(d))
        /\ Cardinality(lower(c)) # Cardinality(lower(d))
    BY <1>2, <2>1, FS_Subset
  <2> QED
    BY <1>2, <2>2
<1> HIDE DEF lower, n
<1>5. \A c \in D : Cardinality(lower(c)) \in 0..n - 1
  BY <1>1, <1>2, <1>3
<1>6. ASSUME NEW c \in D, NEW d \in D, Cardinality(lower(c)) = Cardinality(lower(d))
      PROVE  c = d
  <2>1. f[c] \in Nat /\ f[d] \in Nat
    OBVIOUS
  <2>2. ~ f[c] < f[d] /\ ~ f[d] < f[c]
    BY <1>2, <1>4, <1>6
  <2> QED
    BY <2>1, <2>2
<1> QED
  BY <1>1, <1>5, <1>6 DEF lower, n

-----------------------------------------------------------------------------
(***************************************************************************)
(* What the handlers do to the connections.                                *)
(***************************************************************************)
\* After it every connection drives nothing, or sits where it sat before.
Kept(before, after) ==
  \A c \in Conns :
    \/ after[c].player = NoPlayer
    \/ /\ after[c].closed = before[c].closed /\ after[c].helloDone = before[c].helloDone
       /\ after[c].player = before[c].player /\ after[c].ack = before[c].ack

ConnectionMap == [Conns -> Connection]

\* A connection is well formed from the start (Connect), and drives nothing.
LEMMA NewConnectionType ==
  ASSUME HostAssumption, mTokenState \in Nat
  PROVE  /\ NewConnection \in Connection
         /\ [NewConnection EXCEPT !.closed = FALSE] \in Connection
         /\ NewConnection.player = NoPlayer
         /\ [NewConnection EXCEPT !.closed = FALSE].player = NoPlayer
         /\ ~[NewConnection EXCEPT !.closed = FALSE].helloDone
<1>1. NoAck \in [player : Player, players : 0..Seats, token : Token]
  BY DEF NoAck, Player, NoPlayer, Token, HostAssumption
<1>2. 0 \in 0..MaxConns /\ 0 \in 0..HelloTimeout /\ 0 \in 0..RaceLimit /\ NoTick \in NoTick..RaceLimit
  BY DEF HostAssumption, NoTick
<1>3. NoPlayer \in Player
  BY DEF NoPlayer, Player, HostAssumption
<1>4. NewConnection \in Connection
  <2>1. 0 \in 0..2 /\ TRUE \in BOOLEAN /\ FALSE \in BOOLEAN
    OBVIOUS
  <2> HIDE DEF NoPlayer, NoTick, NoAck, Player, Token
  <2> QED
    BY ONLY <1>1, <1>2, <1>3, <2>1 DEF NewConnection, Connection
<1>5. /\ [NewConnection EXCEPT !.closed = FALSE] \in Connection
      /\ [NewConnection EXCEPT !.closed = FALSE].player = NewConnection.player
      /\ [NewConnection EXCEPT !.closed = FALSE].helloDone = NewConnection.helloDone
  BY <1>4 DEF Connection
<1>6. NewConnection.player = NoPlayer /\ ~NewConnection.helloDone
  BY DEF NewConnection
<1> QED
  BY <1>4, <1>5, <1>6

\* Closing connections takes seats away and moves nobody.
LEMMA ClosedKept ==
  ASSUME HostAssumption, mTokenState \in Nat, NEW conns \in ConnectionMap, NEW which
  PROVE  Closed(conns, which) \in ConnectionMap /\ Kept(conns, Closed(conns, which))
BY NewConnectionType DEF Closed, Kept, ConnectionMap

\* Counting how long a connection has been silent moves nobody.
LEMMA AgedKept ==
  ASSUME HostAssumption, NEW conns \in ConnectionMap, NEW dt \in Nat
  PROVE  Aged(conns, dt) \in ConnectionMap /\ Kept(conns, Aged(conns, dt))
<1> DEFINE a(c) == Aged(conns, dt)[c]
<1>1. ASSUME NEW c \in Conns
      PROVE  /\ a(c) \in Connection
             /\ a(c).closed = conns[c].closed /\ a(c).helloDone = conns[c].helloDone
             /\ a(c).player = conns[c].player /\ a(c).ack = conns[c].ack
  <2>1. conns[c] \in Connection
    BY DEF ConnectionMap
  <2>2. 0 \in 0..HelloTimeout /\ Least(conns[c].age + dt, HelloTimeout) \in 0..HelloTimeout
    BY <2>1 DEF Connection, Least, HostAssumption
  <2>3. a(c) = [conns[c] EXCEPT !.age = 0]
        \/ a(c) = [conns[c] EXCEPT !.age = Least(conns[c].age + dt, HelloTimeout)]
    BY DEF Aged
  <2> QED
    BY <2>1, <2>2, <2>3 DEF Connection
<1>2. Aged(conns, dt) = [c \in Conns |-> a(c)]
  BY DEF Aged
<1> QED
  BY <1>1, <1>2 DEF Kept, ConnectionMap

\* Same seat: the fields SlotsHeld and SeatInv look at are equal.
SameSeat(r, s) ==
  s.closed = r.closed /\ s.helloDone = r.helloDone /\ s.player = r.player /\ s.ack = r.ack

\* Sending the Result moves nobody.
LEMMA ResultKept ==
  ASSUME NEW r \in Connection
  PROVE  Result(r) \in Connection /\ SameSeat(r, Result(r))
<1>1. Least(r.results + 1, 2) \in 0..2
  BY DEF Least, Connection
<1> QED
  BY <1>1 DEF Result, Connection, SameSeat

\* Broadcasting Ticks and the Result moves nobody.
LEMMA ToDriversKept ==
  ASSUME HostAssumption, NEW conns \in ConnectionMap, NEW to \in 0..RaceLimit,
         NEW finishing \in BOOLEAN
  PROVE  ToDrivers(conns, to, finishing) \in ConnectionMap
         /\ Kept(conns, ToDrivers(conns, to, finishing))
<1> DEFINE Ticks(conn) == IF conn.next = mTick THEN [conn EXCEPT !.next = to] ELSE conn
           a(c) == IF c \notin Drivers(conns) THEN conns[c]
                   ELSE IF finishing THEN Result(Ticks(conns[c])) ELSE Ticks(conns[c])
<1>1. \A r \in Connection : Result(r) \in Connection /\ SameSeat(r, Result(r))
  BY ResultKept
<1>2. \A r \in Connection : Ticks(r) \in Connection /\ SameSeat(r, Ticks(r))
  BY DEF SameSeat, Connection, HostAssumption, NoTick
<1> HIDE DEF Ticks
<1>3. \A c \in Conns : a(c) \in Connection /\ SameSeat(conns[c], a(c))
  BY <1>1, <1>2 DEF ConnectionMap, SameSeat
<1>4. ToDrivers(conns, to, finishing) = [c \in Conns |-> a(c)]
  BY DEF ToDrivers, Ticks
<1> HIDE DEF a
<1> QED
  BY <1>3, <1>4 DEF Kept, ConnectionMap, SameSeat

\* Serving one spectator leaves its seat fields alone.
LEMMA ServedKept ==
  ASSUME HostAssumption, NEW r \in Connection, NEW clock \in Int, NEW tick \in 0..RaceLimit,
         NEW resultOut \in BOOLEAN
  PROVE  Served(r, clock, tick, resultOut) \in Connection
         /\ SameSeat(r, Served(r, clock, tick, resultOut))
<1> DEFINE allowed == Allowed(clock, tick)
           cursor == IF r.specCursor < allowed THEN allowed ELSE r.specCursor
           ticks  == [r EXCEPT !.specCursor = cursor,
                               !.next = IF r.next = r.specCursor THEN cursor ELSE r.next]
           s == [ticks EXCEPT !.specResultSent = TRUE]
<1>1. allowed \in 0..RaceLimit
  BY DEF Allowed, Due, Least, HostAssumption
<1>2. cursor \in 0..RaceLimit
  BY <1>1 DEF Connection
<1>3. ticks \in Connection /\ SameSeat(r, ticks)
  <2> HIDE DEF cursor
  <2>1. (IF r.next = r.specCursor THEN cursor ELSE r.next) \in NoTick..RaceLimit
    BY <1>2 DEF Connection, NoTick
  <2> QED
    BY <1>2, <2>1 DEF Connection, SameSeat
<1> HIDE DEF ticks
<1>4. s \in Connection /\ SameSeat(ticks, s)
  BY <1>3 DEF Connection, SameSeat
<1> HIDE DEF s
<1>5. Result(s) \in Connection /\ SameSeat(s, Result(s))
  BY <1>4, ResultKept
<1>6. Served(r, clock, tick, resultOut) = ticks \/ Served(r, clock, tick, resultOut) = Result(s)
  BY DEF Served, ticks, s
<1> QED
  BY <1>3, <1>4, <1>5, <1>6 DEF SameSeat

\* Serving the spectators moves nobody.
LEMMA ToSpectatorsKept ==
  ASSUME HostAssumption, NEW conns \in ConnectionMap, NEW clock \in Int,
         NEW tick \in 0..RaceLimit, NEW resultOut \in BOOLEAN
  PROVE  ToSpectators(conns, clock, tick, resultOut) \in ConnectionMap
         /\ Kept(conns, ToSpectators(conns, clock, tick, resultOut))
<1>1. \A c \in Conns : Served(conns[c], clock, tick, resultOut) \in Connection
                       /\ SameSeat(conns[c], Served(conns[c], clock, tick, resultOut))
  BY ServedKept DEF ConnectionMap
<1> QED
  BY <1>1 DEF ToSpectators, Kept, ConnectionMap, SameSeat

\* Handlers that move nobody can be run one after the other.
LEMMA KeptTransitive ==
  ASSUME NEW a, NEW b, NEW d, Kept(a, b), Kept(b, d)
  PROVE  Kept(a, d)
BY DEF Kept

\* What Advance does before the ticks moves nobody.
LEMMA AfterClosingKept ==
  ASSUME HostAssumption, TypeOK, NEW dt \in Nat
  PROVE  AfterClosing(dt) \in ConnectionMap /\ Kept(mConnections, AfterClosing(dt))
<1> DEFINE sentAway == IF HostLeft THEN Drivers(mConnections) ELSE {}
           one == Closed(mConnections, sentAway)
           two == Closed(one, Expired(one, dt))
<1>1. mConnections \in ConnectionMap /\ mTokenState \in Nat
  BY DEF TypeOK, ConnectionMap
<1>2. one \in ConnectionMap /\ Kept(mConnections, one)
  BY <1>1, ClosedKept
<1>3. two \in ConnectionMap /\ Kept(one, two)
  BY <1>1, <1>2, ClosedKept
<1>4. Aged(two, dt) \in ConnectionMap /\ Kept(two, Aged(two, dt))
  BY <1>3, AgedKept
<1>5. AfterClosing(dt) = Aged(two, dt)
  BY DEF AfterClosing
<1> HIDE DEF two, one
<1> QED
  BY <1>2, <1>3, <1>4, <1>5, KeptTransitive

-----------------------------------------------------------------------------
(***************************************************************************)
(* The invariant of the seats.                                             *)
(***************************************************************************)
\* SeatInv but for the types, of any connections, tokens and number of players.
Seated(conns, tokens, loaded, started, n) ==
  /\ \A c \in Conns : ~conns[c].helloDone => conns[c].player = NoPlayer
  /\ ~started => \A c \in Drivers(conns) : conns[c].player \in 0..n - 1
  /\ 0..n - 1 \subseteq DOMAIN tokens /\ (loaded => DOMAIN tokens = 0..n - 1)
  /\ \A s, r \in DOMAIN tokens : tokens[s] = tokens[r] /\ tokens[s] # 0 => s = r
  /\ loaded /\ started => \A s \in 0..n - 1 : tokens[s] # 0
  /\ \A c, d \in Drivers(conns) : conns[c].player = conns[d].player => c = d
  /\ loaded => \A c \in Drivers(conns) :
       /\ conns[c].player \in 0..n - 1
       /\ conns[c].ack = HelloAck(conns[c].player, tokens[conns[c].player], n)
       /\ tokens[conns[c].player] # 0

\* SeatInv, split into the types and the seats.
LEMMA SeatInvSeated ==
  SeatInv <=> TypeOK /\ Seated(mConnections, mTokens, mLoaded, mStarted, mPlayers)
<1>1. ASSUME NEW slot \in DOMAIN mTokens, mTokens[slot] # 0,
             \A s, r \in DOMAIN mTokens : mTokens[s] = mTokens[r] /\ mTokens[s] # 0 => s = r
      PROVE  Owned(mTokens[slot]) = {slot}
  BY <1>1 DEF Owned
<1> QED
  BY <1>1 DEF SeatInv, SlotsHeld, Seated, Slots

\* Connections that keep their seats keep the invariant.
LEMMA SeatedKept ==
  ASSUME NEW before, NEW after, NEW tokens, NEW loaded, NEW started, NEW n,
         Seated(before, tokens, loaded, started, n), Kept(before, after)
  PROVE  Seated(after, tokens, loaded, started, n)
<1>1. ASSUME NEW c \in Drivers(after)
      PROVE  c \in Drivers(before) /\ after[c].player = before[c].player
             /\ after[c].ack = before[c].ack
  BY DEF Drivers, Open, Kept, NoPlayer
<1>2. \A c \in Conns : ~after[c].helloDone => after[c].player = NoPlayer
  BY DEF Seated, Kept
<1> QED
  BY <1>1, <1>2 DEF Seated

\* The drivers before the start: at most as many as seats, and when they are as
\* many, all of them are taken and the race may start.
LEMMA DriversCounted ==
  ASSUME NEW conns, NEW tokens, NEW loaded, NEW n \in Nat,
         Seated(conns, tokens, loaded, FALSE, n)
  PROVE  /\ IsFiniteSet(Drivers(conns)) /\ Cardinality(Drivers(conns)) \in Nat
         /\ Cardinality(Drivers(conns)) <= n
         /\ Cardinality(Drivers(conns)) >= n =>
              /\ {conns[c].player : c \in Drivers(conns)} = 0..n - 1
              /\ Seated(conns, tokens, loaded, TRUE, n)
         /\ Cardinality(Drivers(conns)) < n =>
              \E s \in 0..n - 1 : \A c \in Drivers(conns) : conns[c].player # s
<1> DEFINE D == Drivers(conns)
           f == [c \in D |-> conns[c].player]
<1>1. \A c \in D : conns[c].player \in 0..n - 1
  BY DEF Seated
<1>2. /\ f \in [D -> 0..n - 1]
      /\ \A c, d \in D : f[c] = f[d] => c = d
      /\ \A c \in D : f[c] = conns[c].player
  BY <1>1 DEF Seated
<1> HIDE DEF D, f
<1>3. /\ IsFiniteSet(D) /\ Cardinality(D) \in Nat /\ Cardinality(D) <= n
      /\ Cardinality(D) >= n => \A s \in 0..n - 1 : \E c \in D : f[c] = s
      /\ Cardinality(D) < n => \E s \in 0..n - 1 : \A c \in D : f[c] # s
  <2>1. f \in [D -> 0..n - 1]
    BY <1>2
  <2>2. \A c, d \in D : f[c] = f[d] => c = d
    BY <1>2
  <2> QED
    BY ONLY <2>1, <2>2, Seating, n \in Nat, ZenonT(90)
<1>4. ASSUME Cardinality(D) >= n
      PROVE  /\ {conns[c].player : c \in D} = 0..n - 1
             /\ Seated(conns, tokens, loaded, TRUE, n)
  <2>1. \A s \in 0..n - 1 : \E c \in D : conns[c].player = s
    BY <1>2, <1>3, <1>4
  <2>2. loaded => \A s \in 0..n - 1 : tokens[s] # 0
    BY <2>1 DEF Seated, D
  <2>3. {conns[c].player : c \in D} = 0..n - 1
    BY <1>1, <2>1
  <2>4. Seated(conns, tokens, loaded, TRUE, n)
    BY <2>2 DEF Seated
  <2> QED
    BY <2>3, <2>4
<1>5. Cardinality(D) < n => \E s \in 0..n - 1 : \A c \in D : conns[c].player # s
  BY <1>2, <1>3
<1> QED
  BY <1>3, <1>4, <1>5 DEF D

\* What the steps below need of SeatInv, in the form the provers take.
LEMMA SeatInvFacts ==
  ASSUME HostAssumption, SeatInv
  PROVE  /\ TypeOK /\ Seated(mConnections, mTokens, mLoaded, mStarted, mPlayers)
         /\ mConnections \in ConnectionMap /\ mTokenState \in Nat
         /\ mPlayers \in Nat /\ mPlayers \in 1..Seats
         /\ mStarted = TRUE \/ mStarted = FALSE
<1>1. TypeOK /\ Seated(mConnections, mTokens, mLoaded, mStarted, mPlayers)
  BY SeatInvSeated
<1>2. /\ mConnections \in ConnectionMap /\ mTokenState \in Nat /\ mPlayers \in 1..Seats
      /\ mStarted \in BOOLEAN
  BY <1>1 DEF TypeOK, ConnectionMap
<1> QED
  BY <1>1, <1>2 DEF HostAssumption

\* While a race is joinable FreeSlot finds a slot nobody drives.
LEMMA FreeSlotFacts ==
  ASSUME HostAssumption, SeatInv, Joinable
  PROVE  FreeSlot \in Slots /\ \A c \in Drivers(mConnections) : mConnections[c].player # FreeSlot
<1> DEFINE D == Drivers(mConnections)
           Free == {s \in Slots : \A c \in D : mConnections[c].player # s}
<1>1. mPlayers \in Nat /\ Seated(mConnections, mTokens, mLoaded, FALSE, mPlayers)
  BY SeatInvFacts DEF Joinable
<1>2. /\ Cardinality(D) \in Nat
      /\ Cardinality(D) < mPlayers =>
           \E s \in 0..mPlayers - 1 : \A c \in D : mConnections[c].player # s
  BY ONLY <1>1, DriversCounted, ZenonT(30)
<1>3. ~ Cardinality(D) >= mPlayers
  BY DEF Joinable, Full, ConnectedPlayers
<1>4. Free # {} /\ Free \subseteq 0..mPlayers /\ Slots \subseteq Nat
  BY <1>1, <1>2, <1>3 DEF Slots
<1> HIDE DEF Free, D
<1>5. PICK s \in Free : \A r \in Free : s <= r
  BY <1>1, <1>4, LeastAndGreatest
<1>6. s \in Slots /\ \A c \in D : mConnections[c].player # s
  BY <1>5 DEF Free
<1>7. \A r \in Slots : r < s => \E c \in D : mConnections[c].player = r
  <2>1. \A r \in Slots : r < s => r \notin Free
    BY <1>4, <1>5, <1>6
  <2> QED
    BY <2>1 DEF Free
<1> QED
  BY <1>6, <1>7 DEF FreeSlot, D

-----------------------------------------------------------------------------
(***************************************************************************)
(* The steps that leave the seats alone.                                   *)
(***************************************************************************)
Sitting == Seated(mConnections, mTokens, mLoaded, mStarted, mPlayers)

\* The rest of TypeOK, which the seats have nothing to do with.
Others ==
  /\ mNextId \in 1..MaxConns + 1
  /\ mHostStarts \in BOOLEAN /\ mHostConn \in {0} \union Conns
  /\ \A s \in DOMAIN mSlotNames : mSlotNames[s] \in 0..MaxConns
  /\ mClock \in -StartDelay..MaxClock
  /\ mTick \in 0..RaceLimit
  /\ {mFinished, mResultSent} \subseteq BOOLEAN
  /\ mKeyframes \subseteq 0..RaceLimit /\ 0 \in mKeyframes

\* A step that moves nobody and keeps players and tokens keeps the invariant.
LEMMA SameSeats ==
  ASSUME HostAssumption, TypeOK, Sitting,
         mConnections' \in ConnectionMap, Kept(mConnections, mConnections'), Others',
         UNCHANGED <<mPlayers, mTokens, mTokenState, mLoaded, mStarted>>
  PROVE  TypeOK' /\ Sitting'
<1>1. ConnectionMap' = ConnectionMap /\ Token' = Token
  BY DEF ConnectionMap, Connection, Token
<1>2. TypeOK'
  BY <1>1 DEF TypeOK, Others, ConnectionMap
<1>3. Seated(mConnections', mTokens, mLoaded, mStarted, mPlayers)
  BY SeatedKept DEF Sitting
<1> QED
  BY <1>2, <1>3 DEF Sitting

\* The rest of the state is typed when it is left alone.
LEMMA OthersKept ==
  ASSUME TypeOK, mNextId' \in 1..MaxConns + 1,
         UNCHANGED <<mStarted, mClock, slotVars, raceVars>>
  PROVE  Others' /\ UNCHANGED <<mPlayers, mTokens, mTokenState, mLoaded, mStarted>>
BY DEF TypeOK, Others, slotVars, raceVars, MaxClock, Conns

\* Connect keeps the invariant.
LEMMA ConnectStep ==
  ASSUME HostAssumption, TypeOK, Sitting, Connect
  PROVE  TypeOK' /\ Sitting'
<1>1. mConnections \in ConnectionMap /\ mTokenState \in Nat /\ mNextId \in Conns
      /\ mNextId' \in 1..MaxConns + 1
  <2>1. mNextId \in 1..MaxConns + 1 /\ mConnections \in ConnectionMap /\ mTokenState \in Nat
    BY DEF TypeOK, ConnectionMap
  <2>2. mNextId <= MaxConns /\ mNextId' = mNextId + 1 /\ MaxConns \in Nat
    BY DEF Connect, HostAssumption
  <2> QED
    BY ONLY <2>1, <2>2 DEF Conns
<1>2. mConnections' \in ConnectionMap /\ Kept(mConnections, mConnections')
  BY <1>1, NewConnectionType DEF Connect, ConnectionMap, Kept
<1> QED
  BY <1>1, <1>2, OthersKept, SameSeats DEF Connect

\* Drop and the three refusals.
LEMMA CloseStep ==
  ASSUME HostAssumption, TypeOK, Sitting, NEW which,
         mConnections' = Closed(mConnections, which),
         UNCHANGED <<mNextId, mStarted, mClock, slotVars, raceVars>>
  PROVE  TypeOK' /\ Sitting'
<1>1. mConnections \in ConnectionMap /\ mTokenState \in Nat /\ mNextId' \in 1..MaxConns + 1
  BY DEF TypeOK, ConnectionMap
<1>2. mConnections' \in ConnectionMap /\ Kept(mConnections, mConnections')
  BY <1>1, ClosedKept
<1> QED
  BY <1>1, <1>2, OthersKept, SameSeats

\* StartSpectator finds a keyframe.
LEMMA SpectatorKeyframeType ==
  ASSUME HostAssumption, TypeOK
  PROVE  SpectatorKeyframe \in 0..RaceLimit
<1> DEFINE allowed == {k \in mKeyframes : k <= mTick - SpecDelay}
<1>1. RaceLimit \in Nat /\ mKeyframes \subseteq 0..RaceLimit /\ mKeyframes # {}
  BY DEF TypeOK, HostAssumption
<1>2. \E k \in mKeyframes : \A j \in mKeyframes : k <= j
  BY <1>1, LeastAndGreatest
<1>3. allowed # {} => \E k \in allowed : \A j \in allowed : j <= k
  <2>1. allowed \subseteq 0..RaceLimit
    BY <1>1
  <2> HIDE DEF allowed
  <2> QED
    BY <1>1, <2>1, LeastAndGreatest
<1> QED
  BY <1>1, <1>2, <1>3 DEF SpectatorKeyframe

\* Spectate keeps the invariant.
LEMMA SpectateStep ==
  ASSUME HostAssumption, TypeOK, Sitting, NEW c \in Conns, Spectate(c)
  PROVE  TypeOK' /\ Sitting'
<1> DEFINE r == mConnections[c]
           k == SpectatorKeyframe
           s == [r EXCEPT !.helloDone = TRUE, !.name = c, !.spectator = TRUE,
                          !.specCursor = k, !.next = k]
<1>1. mConnections \in ConnectionMap /\ r \in Connection /\ mNextId' \in 1..MaxConns + 1
  BY DEF TypeOK, ConnectionMap, Spectate
<1>2. k \in 0..RaceLimit /\ k \in NoTick..RaceLimit /\ c \in 0..MaxConns
  <2>1. k \in 0..RaceLimit
    BY SpectatorKeyframeType
  <2> HIDE DEF k
  <2> QED
    BY <2>1 DEF NoTick, Conns, HostAssumption
<1>3. s \in Connection /\ s.player = r.player
  <2> HIDE DEF k, r
  <2> QED
    BY <1>1, <1>2 DEF Connection
<1>4. r.player = NoPlayer
  BY DEF Sitting, Seated, Spectate, Waiting, Open
<1>5. mConnections' = [mConnections EXCEPT ![c] = s]
  BY <1>1 DEF Spectate, ConnectionMap
<1> HIDE DEF s
<1>6. mConnections' \in ConnectionMap /\ Kept(mConnections, mConnections')
  BY <1>1, <1>3, <1>4, <1>5 DEF ConnectionMap, Kept
<1> QED
  BY <1>1, <1>6, OthersKept, SameSeats DEF Spectate

\* SnapshotRequest keeps the invariant.
LEMMA SnapshotRequestStep ==
  ASSUME HostAssumption, TypeOK, Sitting, NEW c \in Conns, SnapshotRequest(c)
  PROVE  TypeOK' /\ Sitting'
<1> DEFINE r == mConnections[c]
           k == SpectatorKeyframe
           s == [r EXCEPT !.specCursor = k, !.specResultSent = FALSE, !.next = k]
           t == [r EXCEPT !.next = mTick]
<1>1. mConnections \in ConnectionMap /\ r \in Connection /\ mNextId' \in 1..MaxConns + 1
  BY DEF TypeOK, ConnectionMap, SnapshotRequest
<1>2. k \in 0..RaceLimit /\ k \in NoTick..RaceLimit /\ mTick \in NoTick..RaceLimit
  <2>1. k \in 0..RaceLimit
    BY SpectatorKeyframeType
  <2> HIDE DEF k
  <2> QED
    BY <2>1 DEF NoTick, TypeOK, HostAssumption
<1>3. s \in Connection /\ SameSeat(r, s) /\ t \in Connection /\ SameSeat(r, t)
  <2> HIDE DEF k, r
  <2> QED
    BY <1>1, <1>2 DEF Connection, SameSeat
<1>4. mConnections' = [mConnections EXCEPT ![c] = s] \/ mConnections' = [mConnections EXCEPT ![c] = t]
  BY <1>1 DEF SnapshotRequest, ConnectionMap
<1> HIDE DEF s, t
<1>5. mConnections' \in ConnectionMap /\ Kept(mConnections, mConnections')
  BY <1>1, <1>3, <1>4 DEF ConnectionMap, Kept, SameSeat
<1> QED
  BY <1>1, <1>5, OthersKept, SameSeats DEF SnapshotRequest

-----------------------------------------------------------------------------
(***************************************************************************)
(* Advance.                                                                *)
(***************************************************************************)
LEMMA ClockType ==
  ASSUME HostAssumption, TypeOK, NEW dt \in 0..MaxLag
  PROVE  /\ dt \in Nat /\ mClock + dt \in Int
         /\ Least(mClock + dt, MaxClock) \in -StartDelay..MaxClock
<1>1. /\ dt \in Nat /\ StartDelay \in Nat /\ MaxClock \in Nat
      /\ mClock \in -StartDelay..MaxClock
  BY DEF TypeOK, HostAssumption, MaxClock
<1> QED
  BY ONLY <1>1 DEF Least

\* Advance before the start keeps the invariant.
LEMMA AdvanceWaitingStep ==
  ASSUME HostAssumption, TypeOK, Sitting, NEW dt \in 0..MaxLag, AdvanceWaiting(dt)
  PROVE  TypeOK' /\ Sitting'
<1>1. mConnections' \in ConnectionMap /\ Kept(mConnections, mConnections')
  BY ClockType, AfterClosingKept DEF AdvanceWaiting
<1>2. mHostConn' \in {0} \union Conns
  BY DEF AdvanceWaiting, TypeOK
<1>3. Others' /\ UNCHANGED <<mPlayers, mTokens, mTokenState, mLoaded, mStarted>>
  BY <1>2 DEF AdvanceWaiting, TypeOK, Others, MaxClock, Conns, raceVars
<1> QED
  BY <1>1, <1>3, SameSeats

\* Advance during the race keeps the invariant.
LEMMA AdvanceRunningStep ==
  ASSUME HostAssumption, TypeOK, Sitting, NEW dt \in 0..MaxLag, AdvanceRunning(dt)
  PROVE  TypeOK' /\ Sitting'
<1> DEFINE now == Least(mClock + dt, MaxClock)
           keys(to) == {k \in mTick + 1..to : KeyframeTicks > 0 /\ k % KeyframeTicks = 0}
           one == AfterClosing(dt)
<1>1. now \in -StartDelay..MaxClock /\ now \in Int
  <2>1. now \in -StartDelay..MaxClock
    BY ClockType
  <2> QED
    BY <2>1 DEF MaxClock, HostAssumption
<1>2. PICK to \in mTick..RaceLimit, over \in BOOLEAN :
        /\ mTick' = to /\ mFinished' = over /\ mResultSent' = (mResultSent \/ over)
        /\ mKeyframes' = mKeyframes \union keys(to)
        /\ mConnections' = ToSpectators(ToDrivers(one, to, over /\ ~mResultSent),
                                        now, to, mResultSent)
  BY DEF AdvanceRunning
<1>3. mTick \in 0..RaceLimit /\ to \in 0..RaceLimit /\ RaceLimit \in Nat
      /\ mResultSent \in BOOLEAN
  BY DEF TypeOK, HostAssumption
<1>4. keys(to) \subseteq 0..RaceLimit
  BY <1>3
<1> DEFINE two == ToDrivers(one, to, over /\ ~mResultSent)
<1>5. one \in ConnectionMap /\ Kept(mConnections, one)
  BY ClockType, AfterClosingKept
<1> HIDE DEF one, now, keys
<1>6. two \in ConnectionMap /\ Kept(one, two)
  BY <1>3, <1>5, ToDriversKept
<1>7. mConnections' = ToSpectators(two, now, to, mResultSent)
  BY <1>2
<1> HIDE DEF two
<1>8. mConnections' \in ConnectionMap /\ Kept(two, mConnections')
  BY <1>1, <1>3, <1>6, <1>7, ToSpectatorsKept
<1>9. Kept(mConnections, mConnections')
  BY <1>5, <1>6, <1>8, KeptTransitive
<1>10. mClock' = now /\ mNextId' = mNextId /\ UNCHANGED slotVars
       /\ UNCHANGED <<mPlayers, mTokens, mTokenState, mLoaded, mStarted>>
  BY DEF AdvanceRunning, slotVars, now
<1>11. Others'
  <2>1. mKeyframes' \subseteq 0..RaceLimit /\ 0 \in mKeyframes'
    BY <1>2, <1>4 DEF TypeOK
  <2>2. mTick' \in 0..RaceLimit /\ mFinished' \in BOOLEAN /\ mResultSent' \in BOOLEAN
    BY <1>2, <1>3
  <2> QED
    BY <1>1, <1>10, <2>1, <2>2 DEF TypeOK, Others, MaxClock, Conns, slotVars
<1> QED
  BY <1>8, <1>9, <1>10, <1>11, SameSeats

\* Advance after the race keeps the invariant.
LEMMA AdvanceFinishedStep ==
  ASSUME HostAssumption, TypeOK, Sitting, NEW dt \in 0..MaxLag, AdvanceFinished(dt)
  PROVE  TypeOK' /\ Sitting'
<1> DEFINE now == Least(mClock + dt, MaxClock)
           one == AfterClosing(dt)
           two == ToDrivers(one, mTick, ~mResultSent)
<1>1. now \in -StartDelay..MaxClock /\ now \in Int
  <2>1. now \in -StartDelay..MaxClock
    BY ClockType
  <2> QED
    BY <2>1 DEF MaxClock, HostAssumption
<1>2. one \in ConnectionMap /\ Kept(mConnections, one)
  BY ClockType, AfterClosingKept
<1>3. mTick \in 0..RaceLimit /\ mResultSent \in BOOLEAN
  BY DEF TypeOK
<1> HIDE DEF one, now
<1>4. two \in ConnectionMap /\ Kept(one, two)
  BY <1>2, <1>3, ToDriversKept
<1>5. mConnections' = ToSpectators(two, now, mTick, TRUE)
  BY DEF AdvanceFinished, two, one, now
<1> HIDE DEF two
<1>6. mConnections' \in ConnectionMap /\ Kept(two, mConnections')
  BY <1>1, <1>3, <1>4, <1>5, ToSpectatorsKept
<1>7. Kept(mConnections, mConnections')
  BY <1>2, <1>4, <1>6, KeptTransitive
<1>8. /\ mClock' = now /\ mResultSent' = TRUE
      /\ UNCHANGED <<mNextId, slotVars, mTick, mFinished, mKeyframes>>
      /\ UNCHANGED <<mPlayers, mTokens, mTokenState, mLoaded, mStarted>>
  BY DEF AdvanceFinished, slotVars, now
<1>9. Others'
  BY <1>1, <1>8 DEF TypeOK, Others, MaxClock, Conns, slotVars
<1> QED
  BY <1>6, <1>7, <1>8, <1>9, SameSeats

-----------------------------------------------------------------------------
(***************************************************************************)
(* The steps that deal out seats.                                          *)
(***************************************************************************)
\* StartNow from connections that are seated: they stay so.
LEMMA ToldStartKept ==
  ASSUME HostAssumption, NEW conns \in ConnectionMap'
  PROVE  /\ ToldStart(conns) \in ConnectionMap' /\ Kept(conns, ToldStart(conns))
         /\ \A c \in Conns : SameSeat(conns[c], ToldStart(conns)[c])
         /\ Drivers(ToldStart(conns)) = Drivers(conns)
         /\ \A c \in Drivers(conns) : ToldStart(conns)[c].start
<1> DEFINE told(r) == [r EXCEPT !.start = TRUE, !.next = 0]
           t(c) == told(conns[c])
           a(c) == IF c \in Drivers(conns) THEN t(c) ELSE conns[c]
<1>1. 0 \in NoTick..RaceLimit
  BY DEF NoTick, HostAssumption
<1>2. \A c \in Conns : t(c) \in Connection' /\ SameSeat(conns[c], t(c)) /\ t(c).start
  <2>1. ASSUME NEW r \in Connection'
        PROVE  told(r) \in Connection' /\ SameSeat(r, told(r)) /\ told(r).start
    BY <1>1 DEF Connection, SameSeat, NoTick
  <2>2. \A c \in Conns : conns[c] \in Connection'
    BY DEF ConnectionMap, Conns
  <2> HIDE DEF told
  <2> QED
    BY <2>1, <2>2
<1>3. \A c \in Conns : SameSeat(conns[c], conns[c])
  BY DEF SameSeat
<1>4. ToldStart(conns) = [c \in Conns |-> a(c)]
  BY DEF ToldStart, t, told
<1> HIDE DEF t, told
<1>5. \A c \in Conns : /\ ToldStart(conns)[c] \in Connection'
                       /\ SameSeat(conns[c], ToldStart(conns)[c])
                       /\ c \in Drivers(conns) => ToldStart(conns)[c].start
  BY <1>2, <1>3, <1>4 DEF ConnectionMap
<1>6. ToldStart(conns) \in ConnectionMap'
  BY <1>4, <1>5 DEF ConnectionMap
<1> QED
  BY <1>5, <1>6 DEF Kept, SameSeat, Drivers, Open

\* A connection of before is one of after: only tokens are issued.
LEMMA MoreTokens ==
  ASSUME mTokenState \in Nat, mTokenState' \in Nat, mTokenState <= mTokenState'
  PROVE  /\ Token \subseteq Token' /\ Connection \subseteq Connection'
         /\ ConnectionMap \subseteq ConnectionMap'
<1>1. Token \subseteq Token' /\ Player' = Player
  BY DEF Token, Player
<1>2. Connection \subseteq Connection'
  BY <1>1 DEF Connection
<1> QED
  BY <1>1, <1>2 DEF ConnectionMap

\* A name in a slot is that of a connection, or none.
LEMMA NameType ==
  ASSUME NEW conns \in ConnectionMap', NEW s, MaxConns \in Nat
  PROVE  NameOf(conns, s) \in 0..MaxConns
<1> DEFINE holders == {c \in Drivers(conns) : conns[c].player = s}
<1>1. holders = {} \/ (CHOOSE c \in holders : TRUE) \in holders
  OBVIOUS
<1>2. \A c \in holders : conns[c].name \in 0..MaxConns
  BY DEF Drivers, Open, ConnectionMap, Connection
<1>3. NameOf(conns, s) = IF holders = {} THEN 0 ELSE conns[CHOOSE c \in holders : TRUE].name
  BY DEF NameOf
<1> HIDE DEF holders
<1> QED
  BY <1>1, <1>2, <1>3

\* A race that starts from full seats.
LEMMA StartNowSits ==
  ASSUME HostAssumption, TypeOK, NEW conns \in ConnectionMap', StartNow(conns),
         mPlayers' \in Nat, Seated(conns, mTokens', mLoaded', FALSE, mPlayers'),
         Cardinality(Drivers(conns)) >= mPlayers'
  PROVE  /\ mConnections' \in ConnectionMap' /\ Sitting'
         /\ mStarted' \in BOOLEAN /\ mClock' \in -StartDelay..MaxClock'
         /\ \A s \in DOMAIN mSlotNames' : mSlotNames'[s] \in 0..MaxConns
         /\ {mConnections'[c].player : c \in Drivers(mConnections)'} = 0..mPlayers' - 1
         /\ \A c \in Drivers(mConnections)' : mConnections'[c].start
<1>1. /\ mConnections' \in ConnectionMap' /\ Kept(conns, mConnections')
      /\ \A c \in Conns : SameSeat(conns[c], mConnections'[c])
      /\ Drivers(mConnections)' = Drivers(conns)
      /\ \A c \in Drivers(conns) : mConnections'[c].start
  BY ToldStartKept DEF StartNow, Drivers, Open
<1>2. /\ {conns[c].player : c \in Drivers(conns)} = 0..mPlayers' - 1
      /\ Seated(conns, mTokens', mLoaded', TRUE, mPlayers')
  BY DriversCounted
<1>3. Seated(mConnections', mTokens', mLoaded', mStarted', mPlayers')
  BY <1>1, <1>2, SeatedKept DEF StartNow
<1>4. mClock' \in -StartDelay..MaxClock'
  BY DEF StartNow, MaxClock, HostAssumption
<1>5. \A s \in DOMAIN mSlotNames' : mSlotNames'[s] \in 0..MaxConns
  BY NameType DEF StartNow, HostAssumption
<1>6. \A c \in Drivers(conns) : mConnections'[c].player = conns[c].player
  BY <1>1 DEF SameSeat, Drivers, Open
<1> QED
  BY <1>1, <1>2, <1>3, <1>4, <1>5, <1>6 DEF Sitting, StartNow

\* A Hello on the free slot: seated as before, with one more driver.
LEMMA HelloSits ==
  ASSUME HostAssumption, TypeOK, Sitting, Joinable,
         NEW c \in Conns, ~mConnections[c].closed,
         mTokenState' = mTokenState + 1, mTokens' = [mTokens EXCEPT ![FreeSlot] = mTokenState + 1],
         NEW conns,
         conns = [mConnections EXCEPT ![c] = Accepted(c, FreeSlot, mTokenState + 1)]
  PROVE  conns \in ConnectionMap' /\ Seated(conns, mTokens', mLoaded, FALSE, mPlayers)
<1> DEFINE slot == FreeSlot
           token == mTokenState + 1
           r == mConnections[c]
           s == Accepted(c, slot, token)
<1>1. SeatInv /\ mConnections \in ConnectionMap /\ mTokenState \in Nat
      /\ mPlayers \in 1..Seats /\ Seats \in Nat
      /\ Seated(mConnections, mTokens, mLoaded, FALSE, mPlayers)
  BY SeatInvSeated, SeatInvFacts DEF Sitting, Joinable, HostAssumption
<1>2. slot \in 0..mPlayers - 1 /\ \A d \in Drivers(mConnections) : mConnections[d].player # slot
  BY <1>1, FreeSlotFacts DEF Slots
<1>3. slot \in Player' /\ token \in Token' /\ mPlayers \in 0..Seats /\ c \in 0..MaxConns
  BY <1>1, <1>2 DEF Player, Token, NoPlayer, Conns
<1> HIDE DEF slot, token
<1>4. mConnections \in ConnectionMap'
  BY <1>1, MoreTokens
<1>5. HelloAck(slot, token, mPlayers) \in [player : Player', players : 0..Seats, token : Token']
  BY <1>3 DEF HelloAck
<1>6. /\ s \in Connection' /\ s.player = slot /\ s.helloDone /\ s.closed = r.closed
      /\ s.ack = HelloAck(slot, token, mPlayers)
  <2>1. r \in Connection'
    BY <1>4 DEF ConnectionMap, Conns
  <2> HIDE DEF r
  <2> QED
    BY <1>3, <1>5, <2>1 DEF Connection, Accepted, r
<1>7. conns = [mConnections EXCEPT ![c] = s]
  BY DEF slot, token
<1> HIDE DEF s
<1>8. conns \in ConnectionMap'
  BY <1>4, <1>6, <1>7 DEF ConnectionMap, Conns
<1>9. /\ conns[c] = s /\ DOMAIN mConnections = Conns
      /\ \A d \in Conns : d # c => conns[d] = mConnections[d]
  BY <1>1, <1>7 DEF ConnectionMap
<1>10. Drivers(conns) = Drivers(mConnections) \union {c}
  <2>1. ~conns[c].closed /\ conns[c].player >= 0
    BY ONLY <1>1, <1>2, <1>6, <1>9, ~mConnections[c].closed
  <2> QED
    BY ONLY <1>9, <2>1, c \in Conns DEF Drivers, Open
<1>11. \A d \in Drivers(conns) : \/ d = c /\ conns[d].player = slot
                                 \/ /\ d # c /\ d \in Drivers(mConnections)
                                    /\ conns[d] = mConnections[d]
                                    /\ mConnections[d].player # slot
  BY <1>2, <1>6, <1>9, <1>10 DEF Drivers, Open
<1>12. /\ DOMAIN mTokens' = DOMAIN mTokens /\ slot \in DOMAIN mTokens
       /\ mTokens'[slot] = token
       /\ \A t \in DOMAIN mTokens : t # slot => mTokens'[t] = mTokens[t] /\ mTokens[t] # token
  <2>1. slot \in DOMAIN mTokens
    BY <1>1, <1>2 DEF Seated
  <2>2. \A t \in DOMAIN mTokens : mTokens[t] # token
    BY DEF TypeOK, Token, token
  <2> QED
    BY <2>1, <2>2 DEF slot, token
<1>13. \A d \in Conns : ~conns[d].helloDone => conns[d].player = NoPlayer
  BY <1>1, <1>6, <1>9 DEF Seated
<1>14. \A d \in Drivers(conns) : conns[d].player \in 0..mPlayers - 1
  BY <1>1, <1>2, <1>11 DEF Seated
<1>15. 0..mPlayers - 1 \subseteq DOMAIN mTokens' /\ (mLoaded => DOMAIN mTokens' = 0..mPlayers - 1)
  BY <1>1, <1>12 DEF Seated
<1>16. \A t, u \in DOMAIN mTokens' : mTokens'[t] = mTokens'[u] /\ mTokens'[t] # 0 => t = u
  BY <1>1, <1>12 DEF Seated
<1>17. \A d, e \in Drivers(conns) : conns[d].player = conns[e].player => d = e
  BY <1>1, <1>11 DEF Seated
<1>18. ASSUME mLoaded, NEW d \in Drivers(conns)
       PROVE  /\ conns[d].ack = HelloAck(conns[d].player, mTokens'[conns[d].player], mPlayers)
              /\ mTokens'[conns[d].player] # 0
  <2>1. CASE d = c
    <3>1. token # 0
      BY <1>1 DEF token
    <3> QED
      BY ONLY <1>6, <1>9, <1>12, <2>1, <3>1
  <2>2. CASE d # c
    <3>1. /\ d \in Drivers(mConnections) /\ conns[d] = mConnections[d]
          /\ mConnections[d].player # slot
      BY <1>11, <2>2
    <3>2. /\ mConnections[d].player \in DOMAIN mTokens
          /\ mConnections[d].ack = HelloAck(mConnections[d].player,
                                            mTokens[mConnections[d].player], mPlayers)
          /\ mTokens[mConnections[d].player] # 0
      BY <1>1, <1>18, <3>1 DEF Seated
    <3> QED
      BY <1>12, <3>1, <3>2
  <2> QED
    BY <2>1, <2>2
<1>19. Seated(conns, mTokens', mLoaded, FALSE, mPlayers)
  BY <1>13, <1>14, <1>15, <1>16, <1>17, <1>18 DEF Seated
<1> QED
  BY <1>8, <1>19

\* Hello keeps the invariant, and a race it starts is whole.
LEMMA HelloAcceptedStep ==
  ASSUME HostAssumption, TypeOK, Sitting, NEW c \in Conns, NEW asksHost \in BOOLEAN,
         HelloAccepted(c, asksHost)
  PROVE  /\ TypeOK' /\ Sitting'
         /\ mStarted' => /\ {mConnections'[d].player : d \in Drivers(mConnections)'}
                              = 0..mPlayers' - 1
                         /\ \A d \in Drivers(mConnections)' : mConnections'[d].start
<1> DEFINE slot  == FreeSlot
           token == mTokenState + 1
           conns == [mConnections EXCEPT ![c] = Accepted(c, slot, token)]
<1>1. /\ Joinable /\ ~mConnections[c].closed /\ mStarted = FALSE
      /\ mTokenState' = token /\ mTokens' = [mTokens EXCEPT ![slot] = token]
      /\ mPlayers' = mPlayers /\ mNextId' = mNextId /\ UNCHANGED raceVars
      /\ mHostStarts' = (mHostStarts \/ TakesHost(asksHost))
      /\ mHostConn' = IF TakesHost(asksHost) THEN c ELSE mHostConn
  BY DEF HelloAccepted, Waiting, Open, Joinable, TypeOK
<1>2. \/ Cardinality(Drivers(conns)) >= mPlayers /\ StartNow(conns)
      \/ mConnections' = conns /\ UNCHANGED <<mStarted, mClock, mSlotNames>>
  BY ONLY HelloAccepted(c, asksHost), <1>1 DEF HelloAccepted, BeginsFull
<1>3. conns \in ConnectionMap' /\ Seated(conns, mTokens', mLoaded, FALSE, mPlayers)
  BY <1>1, HelloSits
<1> HIDE DEF conns
<1>4. mLoaded' = mLoaded /\ mPlayers' \in Nat
  BY <1>1 DEF raceVars, TypeOK, HostAssumption
<1>5. /\ mConnections' \in ConnectionMap' /\ Sitting'
      /\ mStarted' \in BOOLEAN /\ mClock' \in -StartDelay..MaxClock'
      /\ \A s \in DOMAIN mSlotNames' : mSlotNames'[s] \in 0..MaxConns
      /\ mStarted' => /\ {mConnections'[d].player : d \in Drivers(mConnections)'}
                           = 0..mPlayers' - 1
                      /\ \A d \in Drivers(mConnections)' : mConnections'[d].start
  <2>1. CASE Cardinality(Drivers(conns)) >= mPlayers /\ StartNow(conns)
    BY <1>1, <1>3, <1>4, <2>1, StartNowSits
  <2>2. CASE mConnections' = conns /\ UNCHANGED <<mStarted, mClock, mSlotNames>>
    <3>1. Sitting'
      BY <1>1, <1>3, <1>4, <2>2 DEF Sitting
    <3> QED
      BY <1>1, <1>3, <2>2, <3>1 DEF TypeOK, MaxClock
  <2> QED
    BY <1>2, <2>1, <2>2
<1>6. DOMAIN mTokens' \subseteq 0..Seats - 1 /\ \A s \in DOMAIN mTokens' : mTokens'[s] \in Token'
  <2>1. token \in Token' /\ Token \subseteq Token'
    BY <1>1 DEF TypeOK, Token
  <2> HIDE DEF token, slot
  <2> QED
    BY <1>1, <2>1 DEF TypeOK
<1>7. mHostStarts' \in BOOLEAN /\ mHostConn' \in {0} \union Conns
  BY <1>1 DEF TypeOK, TakesHost
<1>8. mTokenState' \in Nat
  BY <1>1 DEF TypeOK
<1> QED
  BY <1>1, <1>4, <1>5, <1>6, <1>7, <1>8 DEF TypeOK, raceVars, ConnectionMap, Conns, MaxClock

\* HostStart of a full race keeps the invariant, and the race is whole.
LEMMA HostStartsFullStep ==
  ASSUME HostAssumption, TypeOK, Sitting, NEW c \in Conns, HostStartsFull(c)
  PROVE  /\ TypeOK' /\ Sitting'
         /\ {mConnections'[d].player : d \in Drivers(mConnections)'} = 0..mPlayers' - 1
         /\ \A d \in Drivers(mConnections)' : mConnections'[d].start
<1>1. /\ StartNow(mConnections) /\ ConnectedPlayers = mPlayers /\ mStarted = FALSE
      /\ UNCHANGED <<mPlayers, mNextId, mTokens, mTokenState, mHostStarts, mHostConn>>
      /\ UNCHANGED raceVars /\ mLoaded' = mLoaded
  BY DEF HostStartsFull, MayHostStart, TypeOK, raceVars
<1>2. mConnections \in ConnectionMap' /\ mPlayers' \in Nat
      /\ Cardinality(Drivers(mConnections)) >= mPlayers'
      /\ Seated(mConnections, mTokens', mLoaded', FALSE, mPlayers')
  <2>1. mConnections \in ConnectionMap'
    BY <1>1, MoreTokens DEF TypeOK, ConnectionMap
  <2>2. mPlayers \in Nat
    BY DEF TypeOK, HostAssumption
  <2>3. Cardinality(Drivers(mConnections)) >= mPlayers
    BY <1>1, <2>2 DEF ConnectedPlayers
  <2>4. mPlayers' = mPlayers /\ mTokens' = mTokens
    BY <1>1
  <2>5. Seated(mConnections, mTokens', mLoaded', FALSE, mPlayers')
    BY ONLY <1>1, <2>4, Sitting, Zenon DEF Sitting
  <2> QED
    BY <2>1, <2>2, <2>3, <2>4, <2>5
<1>3. /\ mConnections' \in ConnectionMap' /\ Sitting'
      /\ mStarted' \in BOOLEAN /\ mClock' \in -StartDelay..MaxClock'
      /\ \A s \in DOMAIN mSlotNames' : mSlotNames'[s] \in 0..MaxConns
      /\ {mConnections'[d].player : d \in Drivers(mConnections)'} = 0..mPlayers' - 1
      /\ \A d \in Drivers(mConnections)' : mConnections'[d].start
  BY <1>1, <1>2, StartNowSits
<1> QED
  BY <1>1, <1>3 DEF TypeOK, raceVars, ConnectionMap, Conns, MaxClock, Token

\* So does HostStart with fewer players than seats, which deals new slots and tokens.
LEMMA HostStartsFewerStep ==
  ASSUME HostAssumption, TypeOK, Sitting, NEW c \in Conns, HostStartsFewer(c)
  PROVE  /\ TypeOK' /\ Sitting'
         /\ {mConnections'[d].player : d \in Drivers(mConnections)'} = 0..mPlayers' - 1
         /\ \A d \in Drivers(mConnections)' : mConnections'[d].start
         /\ \A d \in Drivers(mConnections) : Renumbered(d) \in Connection'
<1> DEFINE here == Drivers(mConnections)
           n == ConnectedPlayers
           conns == [d \in Conns |-> IF d \in here THEN Renumbered(d) ELSE mConnections[d]]
<1>1. /\ mStarted = FALSE /\ c \in here
      /\ mPlayers' = n /\ mTokens' = [s \in 0..n - 1 |-> NewToken(s)]
      /\ mTokenState' = mTokenState + n /\ mKeyframes' = {0} /\ mLoaded' = TRUE
      /\ UNCHANGED <<mNextId, mHostStarts, mHostConn, mTick, mFinished, mResultSent>>
  <2>1. mStarted = FALSE /\ c \in here
    BY DEF HostStartsFewer, MayHostStart, Drivers, TypeOK
  <2> QED
    BY <2>1 DEF HostStartsFewer
<1>2. StartNow(conns)
  BY DEF HostStartsFewer
<1>3. /\ Seated(mConnections, mTokens, mLoaded, FALSE, mPlayers)
      /\ mPlayers \in Nat /\ mPlayers \in 1..Seats /\ mTokenState \in Nat /\ Seats \in Nat
      /\ mConnections \in ConnectionMap
  BY <1>1, SeatInvSeated, SeatInvFacts DEF Sitting, HostAssumption
<1>4. n \in Nat /\ n <= mPlayers /\ IsFiniteSet(here) /\ n = Cardinality(here)
  BY <1>3, DriversCounted DEF ConnectedPlayers
<1>5. n \in 1..Seats
  <2>1. n # 0
    BY <1>1, <1>4, FS_EmptySet
  <2> QED
    BY ONLY <1>3, <1>4, <2>1
<1>6. /\ \A d \in here : NewSlot(d) \in 0..n - 1
      /\ \A d, e \in here : NewSlot(d) = NewSlot(e) => d = e
  <2> DEFINE f == [d \in here |-> mConnections[d].player]
             g == [d \in here |-> Cardinality({e \in here : f[e] < f[d]})]
  <2>1. /\ f \in [here -> Nat]
        /\ \A d, e \in here : f[d] = f[e] => d = e
    BY <1>3 DEF Seated
  <2>2. g \in [here -> 0..n - 1] /\ \A d, e \in here : g[d] = g[e] => d = e
    <3> HIDE DEF f, here
    <3>1. f \in [here -> Nat]
      BY <2>1
    <3>2. \A d, e \in here : f[d] = f[e] => d = e
      BY <2>1
    <3> QED
      BY ONLY <1>4, <3>1, <3>2, Renumbering
  <2>3. \A d \in here : g[d] = NewSlot(d)
    BY DEF NewSlot
  <2> HIDE DEF g, here
  <2> QED
    BY <2>2, <2>3
<1> HIDE DEF here, n
<1>7. mConnections \in ConnectionMap'
  <2>1. mTokenState' = mTokenState + n /\ mTokenState \in Nat /\ n \in Nat
    BY ONLY <1>1, <1>3, <1>4
  <2>2. mTokenState' \in Nat /\ mTokenState <= mTokenState'
    BY ONLY <2>1
  <2> QED
    BY ONLY <1>3, <2>1, <2>2, MoreTokens
<1>8. ASSUME NEW d \in here
      PROVE  /\ Renumbered(d) \in Connection' /\ Renumbered(d).player = NewSlot(d)
             /\ Renumbered(d).closed = mConnections[d].closed
             /\ Renumbered(d).helloDone = mConnections[d].helloDone
             /\ Renumbered(d).ack = HelloAck(NewSlot(d), NewToken(NewSlot(d)), n)
  <2> DEFINE r == mConnections[d]
             k == NewSlot(d)
             t == NewToken(NewSlot(d))
  <2>1. r \in Connection'
    BY <1>7 DEF ConnectionMap, Conns, here, Drivers, Open
  <2>2. k \in 0..n - 1 /\ t = mTokenState + k + 1
    BY <1>6 DEF NewToken
  <2> HIDE DEF k, t
  <2>3. k \in Player' /\ n \in 0..Seats
    BY ONLY <1>3, <1>4, <1>5, <2>2 DEF Player, NoPlayer
  <2>4. t \in Token'
    <3>1. mTokenState' = mTokenState + n /\ mTokenState \in Nat /\ n \in Nat
      BY ONLY <1>1, <1>3, <1>4
    <3>2. t \in 0..mTokenState'
      BY ONLY <2>2, <3>1
    <3> QED
      BY ONLY <3>2 DEF Token
  <2>5. HelloAck(k, t, n) \in [player : Player', players : 0..Seats, token : Token']
    BY <2>3, <2>4 DEF HelloAck
  <2>6. Renumbered(d) = [r EXCEPT !.player = k, !.ack = HelloAck(k, t, n)]
    BY DEF Renumbered, k, t, n
  <2> HIDE DEF r
  <2>7. /\ Renumbered(d) \in Connection' /\ Renumbered(d).player = k
        /\ Renumbered(d).closed = r.closed /\ Renumbered(d).helloDone = r.helloDone
        /\ Renumbered(d).ack = HelloAck(k, t, n)
    BY <2>1, <2>3, <2>5, <2>6 DEF Connection
  <2> QED
    BY <2>7 DEF r, k, t
<1>9. /\ conns \in ConnectionMap'
      /\ \A d \in here : conns[d] = Renumbered(d)
      /\ \A d \in Conns \ here : conns[d] = mConnections[d]
      /\ here \subseteq Conns
  <2>1. here \subseteq Conns
    BY DEF here, Drivers, Open
  <2>2. \A d \in Conns : conns[d] \in Connection'
    BY <1>6, <1>7, <1>8 DEF ConnectionMap, Conns
  <2> QED
    BY <2>1, <2>2 DEF ConnectionMap, Conns
<1> HIDE DEF conns
<1>10. Drivers(conns) = here
  <2>1. \A d \in here : ~conns[d].closed /\ conns[d].player >= 0
    BY <1>4, <1>6, <1>8, <1>9 DEF here, Drivers, Open
  <2>2. \A d \in Conns \ here : ~(~conns[d].closed /\ conns[d].player >= 0)
    BY <1>9 DEF here, Drivers, Open
  <2> QED
    BY <1>9, <2>1, <2>2 DEF Drivers, Open
<1>11. \A d \in here : /\ conns[d].player \in 0..n - 1
                       /\ conns[d].player = NewSlot(d)
                       /\ conns[d].ack = HelloAck(NewSlot(d), NewToken(NewSlot(d)), n)
                       /\ conns[d].helloDone = mConnections[d].helloDone
  BY <1>6, <1>8, <1>9
<1>12. \A d \in Conns : ~conns[d].helloDone => conns[d].player = NoPlayer
  <2>1. \A d \in here : conns[d].helloDone
    BY <1>3, <1>11 DEF Seated, here, Drivers, Open, NoPlayer
  <2> QED
    BY <1>3, <1>9, <2>1 DEF Seated
<1>13. /\ DOMAIN mTokens' = 0..n - 1
       /\ \A s, r \in 0..n - 1 : mTokens'[s] = mTokens'[r] => s = r
       /\ \A s \in 0..n - 1 : mTokens'[s] # 0 /\ mTokens'[s] = NewToken(s)
  <2>1. \A s \in 0..n - 1 : mTokens'[s] = mTokenState + s + 1
    BY <1>1 DEF NewToken
  <2> QED
    BY ONLY <1>1, <1>3, <1>4, <2>1 DEF NewToken
<1>14. \A d, e \in here : conns[d].player = conns[e].player => d = e
  BY <1>6, <1>11
<1>15. Seated(conns, mTokens', mLoaded', FALSE, mPlayers')
  <2>1. \A d \in Drivers(conns) :
          /\ conns[d].player \in 0..n - 1
          /\ conns[d].ack = HelloAck(conns[d].player, mTokens'[conns[d].player], n)
          /\ mTokens'[conns[d].player] # 0
    BY <1>6, <1>10, <1>11, <1>13
  <2> QED
    BY <1>1, <1>10, <1>12, <1>13, <1>14, <2>1 DEF Seated
<1>16. mPlayers' \in Nat /\ Cardinality(Drivers(conns)) >= mPlayers'
  BY <1>1, <1>4, <1>10
<1>17. /\ mConnections' \in ConnectionMap' /\ Sitting'
       /\ mStarted' \in BOOLEAN /\ mClock' \in -StartDelay..MaxClock'
       /\ \A s \in DOMAIN mSlotNames' : mSlotNames'[s] \in 0..MaxConns
       /\ {mConnections'[d].player : d \in Drivers(mConnections)'} = 0..mPlayers' - 1
       /\ \A d \in Drivers(mConnections)' : mConnections'[d].start
  BY <1>2, <1>9, <1>15, <1>16, StartNowSits
<1>18. /\ mTokenState' \in Nat /\ mPlayers' \in 1..Seats
       /\ DOMAIN mTokens' \subseteq 0..Seats - 1
       /\ \A s \in DOMAIN mTokens' : mTokens'[s] \in Token'
  <2>1. \A s \in 0..n - 1 : mTokens'[s] = mTokenState + s + 1
    BY <1>13 DEF NewToken
  <2> QED
    BY ONLY <1>1, <1>3, <1>4, <1>5, <1>13, <2>1 DEF Token
<1>19. mKeyframes' \subseteq 0..RaceLimit /\ 0 \in mKeyframes'
  BY <1>1 DEF HostAssumption
<1>20. \A d \in Drivers(mConnections) : Renumbered(d) \in Connection'
  BY <1>8 DEF here
<1> QED
  BY <1>1, <1>17, <1>18, <1>19, <1>20 DEF TypeOK, ConnectionMap, Conns, MaxClock

\* HostStart that cannot load the track keeps the invariant.
LEMMA HostStartFailsStep ==
  ASSUME HostAssumption, TypeOK, Sitting, NEW c \in Conns, HostStartFails(c)
  PROVE  TypeOK' /\ Sitting'
<1> DEFINE here == Drivers(mConnections)
<1>1. /\ mStarted = FALSE /\ c \in here
      /\ mConnections' = Closed(mConnections, here)
      /\ mPlayers' = Cardinality(here) /\ mLoaded' = FALSE
      /\ UNCHANGED <<mNextId, mStarted, mClock, mTokens, mTokenState, mHostStarts, mHostConn,
                     mSlotNames, mTick, mFinished, mResultSent, mKeyframes>>
  BY DEF HostStartFails, MayHostStart, Drivers, TypeOK, ConnectedPlayers
<1>2. /\ Seated(mConnections, mTokens, mLoaded, FALSE, mPlayers)
      /\ mPlayers \in Nat /\ mPlayers \in 1..Seats /\ mTokenState \in Nat /\ Seats \in Nat
      /\ mConnections \in ConnectionMap
  BY <1>1, SeatInvSeated, SeatInvFacts DEF Sitting, HostAssumption
<1>3. Cardinality(here) \in Nat /\ Cardinality(here) <= mPlayers /\ IsFiniteSet(here)
  BY <1>2, DriversCounted
<1>4. Cardinality(here) \in 1..Seats
  <2>1. Cardinality(here) # 0
    BY <1>1, <1>3, FS_EmptySet
  <2> QED
    BY ONLY <1>2, <1>3, <2>1
<1>5. mConnections' \in ConnectionMap /\ Kept(mConnections, mConnections')
  BY <1>1, <1>2, ClosedKept
<1>6. Drivers(mConnections') = {}
  BY <1>1, <1>2, NewConnectionType DEF Closed, Drivers, Open, NewConnection
<1>7. Seated(mConnections', mTokens, mLoaded, FALSE, mPlayers)
  BY <1>2, <1>5, SeatedKept
<1>8. 0..Cardinality(here) - 1 \subseteq DOMAIN mTokens
  BY <1>2, <1>3 DEF Seated
<1>9. Seated(mConnections', mTokens, FALSE, FALSE, Cardinality(here))
  BY <1>6, <1>7, <1>8 DEF Seated
<1>10. Sitting'
  BY <1>1, <1>9 DEF Sitting
<1>11. ConnectionMap' = ConnectionMap /\ Token' = Token
  BY <1>1 DEF ConnectionMap, Connection, Token
<1>12. mPlayers' \in 1..Seats /\ mLoaded' \in BOOLEAN
  BY <1>1, <1>4
<1> QED
  BY <1>1, <1>5, <1>10, <1>11, <1>12 DEF TypeOK, ConnectionMap, Conns, MaxClock

\* Resume keeps the invariant: whoever still held the slot is closed.
LEMMA ResumeStep ==
  ASSUME HostAssumption, TypeOK, Sitting, NEW c \in Conns, NEW token, Resume(c, token)
  PROVE  TypeOK' /\ Sitting'
<1>1. PICK slot \in DOMAIN mTokens :
        mConnections' = [Closed(mConnections, Replaced(c, slot)) EXCEPT ![c] = Resumed(c, slot)]
  BY DEF Resume, Owned
<1>2. /\ mStarted = TRUE /\ ~mConnections[c].closed /\ ~mConnections[c].helloDone
      /\ UNCHANGED <<mNextId, mStarted, mClock, slotVars, raceVars>>
  BY DEF Resume, Waiting, Open, TypeOK
<1>3. /\ mConnections \in ConnectionMap /\ mTokenState \in Nat /\ mNextId \in 1..MaxConns + 1
      /\ mPlayers \in 1..Seats /\ slot \in 0..Seats - 1 /\ mTokens[slot] \in Token
      /\ Seats \in Nat
  BY DEF TypeOK, ConnectionMap, HostAssumption
<1> DEFINE s == Resumed(c, slot)
           conns == Closed(mConnections, Replaced(c, slot))
<1>4. conns \in ConnectionMap /\ Kept(mConnections, conns)
  BY <1>3, ClosedKept
<1>5. Seated(conns, mTokens, mLoaded, mStarted, mPlayers)
  BY <1>4, SeatedKept DEF Sitting
<1>6. /\ s \in Connection /\ s.player = slot /\ s.helloDone
      /\ s.ack = HelloAck(slot, mTokens[slot], mPlayers)
  <2> DEFINE r == mConnections[c]
  <2>1. r \in Connection
    BY <1>3 DEF ConnectionMap
  <2>2. slot \in Player /\ mPlayers \in 0..Seats
    BY <1>3 DEF Player, NoPlayer
  <2>3. HelloAck(slot, mTokens[slot], mPlayers) \in
          [player : Player, players : 0..Seats, token : Token]
    BY <1>3, <2>2 DEF HelloAck
  <2>4. s = [r EXCEPT !.helloDone = TRUE, !.player = slot,
                      !.ack = HelloAck(slot, mTokens[slot], mPlayers)]
    BY DEF Resumed
  <2> HIDE DEF r, s
  <2> QED
    BY <2>1, <2>2, <2>3, <2>4 DEF Connection
<1>7. \A d \in Drivers(conns) : conns[d].player # slot
  <2>1. c \notin Drivers(mConnections)
    BY <1>2 DEF Sitting, Seated, Drivers, NoPlayer, Open
  <2>2. ASSUME NEW d \in Drivers(conns) PROVE d \in Drivers(mConnections) /\ conns[d] = mConnections[d]
                                              /\ d \notin Replaced(c, slot)
    BY <2>2, NewConnectionType DEF Drivers, Open, Closed, NewConnection
  <2> QED
    BY <2>1, <2>2 DEF Replaced, Drivers, Open
<1> HIDE DEF s, conns
<1>8. /\ mConnections'[c] = s /\ \A d \in Conns : d # c => mConnections'[d] = conns[d]
      /\ mConnections' \in ConnectionMap
  BY <1>1, <1>4, <1>6 DEF ConnectionMap, s, conns
<1>9. \A d \in Drivers(mConnections') :
        \/ d = c /\ mConnections'[d].player = slot
           /\ mConnections'[d].ack = HelloAck(slot, mTokens[slot], mPlayers)
        \/ /\ d # c /\ d \in Drivers(conns) /\ mConnections'[d] = conns[d]
           /\ conns[d].player # slot
  BY <1>6, <1>7, <1>8 DEF Drivers, Open
<1>10. mLoaded => slot \in 0..mPlayers - 1 /\ mTokens[slot] # 0
  BY <1>2, <1>5 DEF Seated
<1>11. \A d \in Conns : ~mConnections'[d].helloDone => mConnections'[d].player = NoPlayer
  BY <1>5, <1>6, <1>8 DEF Seated
<1>12. \A d, e \in Drivers(mConnections') :
         mConnections'[d].player = mConnections'[e].player => d = e
  BY <1>5, <1>9 DEF Seated
<1>13. mLoaded => \A d \in Drivers(mConnections') :
         /\ mConnections'[d].player \in 0..mPlayers - 1
         /\ mConnections'[d].ack =
              HelloAck(mConnections'[d].player, mTokens[mConnections'[d].player], mPlayers)
         /\ mTokens[mConnections'[d].player] # 0
  BY <1>5, <1>9, <1>10 DEF Seated
<1>14. Seated(mConnections', mTokens, mLoaded, mStarted, mPlayers)
  BY <1>2, <1>5, <1>11, <1>12, <1>13 DEF Seated
<1>15. Others' /\ UNCHANGED <<mPlayers, mTokens, mTokenState, mLoaded, mStarted>>
  <2>1. mNextId' \in 1..MaxConns + 1
    BY <1>2, <1>3
  <2> QED
    BY <1>2, <2>1, OthersKept
<1>16. ConnectionMap' = ConnectionMap /\ Token' = Token
  BY <1>15 DEF ConnectionMap, Connection, Token
<1>17. Sitting'
  BY <1>14, <1>15 DEF Sitting
<1> QED
  BY <1>8, <1>15, <1>16, <1>17 DEF TypeOK, Others, ConnectionMap

-----------------------------------------------------------------------------
(***************************************************************************)
(* The theorems.                                                           *)
(***************************************************************************)
LEMMA InitSits ==
  ASSUME HostAssumption, Init
  PROVE  TypeOK /\ Sitting
<1>1. mConnections \in ConnectionMap /\ \A c \in Conns : mConnections[c] = NewConnection
  BY NewConnectionType DEF Init, ConnectionMap
<1>2. TypeOK
  <2>1. /\ mNextId \in 1..MaxConns + 1 /\ mPlayers \in 1..Seats /\ mTick \in 0..RaceLimit
        /\ mKeyframes \subseteq 0..RaceLimit /\ 0 \in mKeyframes
    BY DEF Init, HostAssumption
  <2>2. mClock \in -StartDelay..MaxClock
    BY DEF Init, HostAssumption, MaxClock
  <2>3. DOMAIN mTokens \subseteq 0..Seats - 1 /\ \A s \in DOMAIN mTokens : mTokens[s] \in Token
    BY DEF Init, Token
  <2>4. \A s \in DOMAIN mSlotNames : mSlotNames[s] \in 0..MaxConns
    BY DEF Init
  <2> QED
    BY <1>1, <2>1, <2>2, <2>3, <2>4 DEF Init, TypeOK, ConnectionMap
<1>3. Drivers(mConnections) = {}
  BY <1>1 DEF Drivers, Open, NewConnection
<1>4. \A c \in Conns : mConnections[c].player = NoPlayer
  BY <1>1 DEF NewConnection
<1>5. /\ DOMAIN mTokens = 0..mPlayers - 1 /\ \A s \in DOMAIN mTokens : mTokens[s] = 0
      /\ mStarted = FALSE
  BY DEF Init
<1>6. Sitting
  BY <1>3, <1>4, <1>5 DEF Sitting, Seated
<1> QED
  BY <1>2, <1>6

\* Every step keeps the invariant.
LEMMA StepSits ==
  ASSUME HostAssumption, TypeOK, Sitting, [Next]_vars
  PROVE  TypeOK' /\ Sitting'
<1>1. CASE Connect
  BY <1>1, ConnectStep
<1>2. ASSUME NEW c \in Conns, Drop(c) PROVE TypeOK' /\ Sitting'
  BY <1>2, CloseStep DEF Drop
<1>3. ASSUME NEW c \in Conns, HelloRefused(c) PROVE TypeOK' /\ Sitting'
  BY <1>3, CloseStep DEF HelloRefused
<1>4. ASSUME NEW c \in Conns, NEW asksHost \in BOOLEAN, HelloAccepted(c, asksHost)
      PROVE  TypeOK' /\ Sitting'
  BY <1>4, HelloAcceptedStep
<1>5. ASSUME NEW c \in Conns, HostStartsFull(c) PROVE TypeOK' /\ Sitting'
  BY <1>5, HostStartsFullStep
<1>6. ASSUME NEW c \in Conns, HostStartsFewer(c) PROVE TypeOK' /\ Sitting'
  BY <1>6, HostStartsFewerStep
<1>7. ASSUME NEW c \in Conns, HostStartFails(c) PROVE TypeOK' /\ Sitting'
  BY <1>7, HostStartFailsStep
<1>8. ASSUME NEW c \in Conns, NEW token, ResumeRefused(c, token) PROVE TypeOK' /\ Sitting'
  BY <1>8, CloseStep DEF ResumeRefused
<1>9. ASSUME NEW c \in Conns, NEW token, Resume(c, token) PROVE TypeOK' /\ Sitting'
  BY <1>9, ResumeStep
<1>10. ASSUME NEW c \in Conns, SpectateRefused(c) PROVE TypeOK' /\ Sitting'
  BY <1>10, CloseStep DEF SpectateRefused
<1>11. ASSUME NEW c \in Conns, Spectate(c) PROVE TypeOK' /\ Sitting'
  BY <1>11, SpectateStep
<1>12. ASSUME NEW c \in Conns, SnapshotRequest(c) PROVE TypeOK' /\ Sitting'
  BY <1>12, SnapshotRequestStep
<1>13. ASSUME NEW dt \in 0..MaxLag, AdvanceWaiting(dt) PROVE TypeOK' /\ Sitting'
  BY <1>13, AdvanceWaitingStep
<1>14. ASSUME NEW dt \in 0..MaxLag, AdvanceRunning(dt) PROVE TypeOK' /\ Sitting'
  BY <1>14, AdvanceRunningStep
<1>15. ASSUME NEW dt \in 0..MaxLag, AdvanceFinished(dt) PROVE TypeOK' /\ Sitting'
  BY <1>15, AdvanceFinishedStep
<1>16. CASE UNCHANGED vars
  <2>1. ConnectionMap' = ConnectionMap /\ Token' = Token
    BY <1>16 DEF vars, slotVars, ConnectionMap, Connection, Token
  <2> QED
    BY <1>16, <2>1 DEF vars, slotVars, raceVars, TypeOK, ConnectionMap, Conns, MaxClock, Sitting
<1>17. CASE Receive
  BY <1>3, <1>4, <1>5, <1>6, <1>7, <1>8, <1>9, <1>10, <1>11, <1>12, <1>17 DEF Receive
<1>18. CASE Advance
  BY <1>13, <1>14, <1>15, <1>18 DEF Advance
<1> QED
  BY <1>1, <1>2, <1>16, <1>17, <1>18 DEF Next

\* SeatInv, the inductive strengthening of SlotsHeld, always holds.
THEOREM SeatsCorrect == ASSUME HostAssumption PROVE Spec => []SeatInv
<1>1. Init => TypeOK /\ Sitting
  BY InitSits
<1>2. TypeOK /\ Sitting /\ [Next]_vars => (TypeOK /\ Sitting)'
  BY StepSits
<1>3. TypeOK /\ Sitting => SeatInv
  BY SeatInvSeated DEF Sitting
<1> QED
  BY <1>1, <1>2, <1>3, PTL DEF Spec

\* The members of a host keep their types (RaceHost.h:90-137).
THEOREM HostTypeCorrect == ASSUME HostAssumption PROVE Spec => []TypeOK
<1>1. SeatInv => TypeOK
  BY DEF SeatInv
<1> QED
  BY <1>1, SeatsCorrect, PTL

\* No two connections drive one slot, and the slot, the number of players and
\* the token a driver was told are those the host holds.
THEOREM SlotsCorrect == ASSUME HostAssumption PROVE Spec => []SlotsHeld
<1>1. SeatInv => SlotsHeld
  BY DEF SeatInv
<1> QED
  BY <1>1, SeatsCorrect, PTL

\* A race starts with a driver, told Start, in every slot and in no other.
THEOREM StartsWholeCorrect == ASSUME HostAssumption PROVE Spec => StartsWhole
<1> DEFINE Whole == /\ {mConnections'[c].player : c \in Drivers(mConnections)'} = 0..mPlayers' - 1
                    /\ \A c \in Drivers(mConnections)' : mConnections'[c].start
           A == ~mStarted /\ mStarted' => Whole
<1>1. ASSUME SeatInv, [Next]_vars
      PROVE  [A]_vars
  <2>1. TypeOK /\ Sitting
    BY <1>1, SeatInvSeated DEF Sitting
  <2>2. ASSUME NEW c \in Conns, NEW asksHost \in BOOLEAN, HelloAccepted(c, asksHost)
        PROVE  mStarted' => Whole
    BY <2>1, <2>2, HelloAcceptedStep
  <2>3. ASSUME NEW c \in Conns, HostStartsFull(c)
        PROVE  Whole
    BY <2>1, <2>3, HostStartsFullStep
  <2>4. ASSUME NEW c \in Conns, HostStartsFewer(c)
        PROVE  Whole
    BY <2>1, <2>4, HostStartsFewerStep
  <2> HIDE DEF Whole
  <2>5. CASE Receive
    BY <2>2, <2>3, <2>4, <2>5 DEF Receive, HelloRefused, HostStartFails, ResumeRefused, Resume,
         SpectateRefused, Spectate, SnapshotRequest
  <2>6. CASE Connect \/ (\E c \in Conns : Drop(c)) \/ Advance
    BY <2>6 DEF Connect, Drop, Advance, AdvanceWaiting, AdvanceRunning, AdvanceFinished
  <2> QED
    BY <1>1, <2>5, <2>6 DEF Next
<1> QED
  BY <1>1, SeatsCorrect, PTL DEF Spec, StartsWhole

\* Once a race has started its players, their tokens and their names stay.
THEOREM SeatsSettledCorrect == ASSUME HostAssumption PROVE Spec => SeatsSettled
<1> DEFINE Settled == mStarted => mStarted' /\ UNCHANGED <<mPlayers, mTokens, mSlotNames>>
<1>1. ASSUME [Next]_vars
      PROVE  [Settled]_vars
  <2>1. ASSUME NEW c \in Conns, \/ \E asksHost \in BOOLEAN : HelloAccepted(c, asksHost)
                                \/ HostStartsFull(c) \/ HostStartsFewer(c) \/ HostStartFails(c)
        PROVE  ~mStarted
    BY <2>1 DEF HelloAccepted, Joinable, HostStartsFull, HostStartsFewer, HostStartFails,
                MayHostStart
  <2>2. CASE Receive
    BY <2>1, <2>2 DEF Receive, HelloRefused, ResumeRefused, Resume, SpectateRefused, Spectate,
         SnapshotRequest, slotVars
  <2>3. CASE Connect \/ (\E c \in Conns : Drop(c)) \/ Advance
    BY <2>3 DEF Connect, Drop, Advance, AdvanceWaiting, AdvanceRunning, AdvanceFinished, slotVars
  <2> QED
    BY <1>1, <2>2, <2>3 DEF Next
<1> QED
  BY <1>1, PTL DEF Spec, SeatsSettled
=============================================================================
