------------------------- MODULE RaceHostFramesProofs -------------------------
(***************************************************************************)
(* What the others see of a race, for any number of seats, connections and *)
(* ticks.  Its peers: no Tick twice or never, nothing too early to a       *)
(* spectator, the Result once and last, the names of those who drive.  The *)
(* lobby: the host implements the room the lobby relies on.                *)
(***************************************************************************)
EXTENDS RaceHostRoom, RaceHostProofs

-----------------------------------------------------------------------------
(***************************************************************************)
(* The invariant of what was sent.                                         *)
(***************************************************************************)
\* Nothing is sent to who has not said who he is.
Silent(r) ==
  r.player = NoPlayer /\ ~r.spectator /\ ~r.start /\ r.next = NoTick /\ r.results = 0
  /\ ~r.specResultSent

\* A spectator: WorldsInStep, SpectatorsBehind and ResultLast of one connection.
Behind(r, tick, clock, sent) ==
  /\ r.player = NoPlayer
  /\ r.next = r.specCursor /\ r.next <= tick
  /\ r.next > 0 => r.next <= Due(clock) - SpecDelay
  /\ r.specResultSent => sent /\ r.next = tick /\ Due(clock) - SpecDelay >= tick

\* A driver, before the start and after it.
Driven(r, tick, started, sent) ==
  /\ started => r.next = tick \/ (~r.start /\ r.next = NoTick)
  /\ started /\ r.start => r.results = IF sent THEN 1 ELSE 0
  /\ ~started => ~r.start /\ r.next = NoTick /\ r.results = 0

Fits(r, tick, clock, started, sent) ==
  /\ ~r.helloDone => Silent(r)
  /\ r.spectator => started /\ Behind(r, tick, clock, sent)
  /\ r.player >= 0 => Driven(r, tick, started, sent)

\* The ticks of the race against its clock, and when it ends.
World ==
  /\ mTick <= Due(mClock)
  /\ mResultSent = mFinished
  /\ mFinished => mStarted /\ mTick > 0
  /\ ~mStarted => mTick = 0

AllFit == \A c \in Conns :
            mConnections[c].closed \/ Fits(mConnections[c], mTick, mClock, mStarted, mResultSent)

FramesInv == World /\ AllFit

-----------------------------------------------------------------------------
(***************************************************************************)
(* One connection at a time.                                               *)
(***************************************************************************)
\* Nothing FramesInv or NamesMatch looks at differs.
SameFrames(r, s) ==
  /\ s.closed = r.closed /\ s.helloDone = r.helloDone /\ s.player = r.player
  /\ s.spectator = r.spectator /\ s.specCursor = r.specCursor /\ s.start = r.start
  /\ s.specResultSent = r.specResultSent /\ s.next = r.next /\ s.results = r.results
  /\ s.name = r.name

\* An open connection that is as it was, but for what it was sent.
SamePeer(r, s) ==
  /\ ~r.closed /\ s.closed = r.closed /\ s.helloDone = r.helloDone /\ s.player = r.player
  /\ s.spectator = r.spectator /\ s.start = r.start /\ s.name = r.name

\* Fits looks at nothing else.
LEMMA SameFits ==
  ASSUME NEW r, NEW s, SameFrames(r, s), NEW tick, NEW clock, NEW started, NEW sent,
         Fits(r, tick, clock, started, sent)
  PROVE  Fits(s, tick, clock, started, sent)
BY DEF SameFrames, Fits, Silent, Behind, Driven

\* What Advance closes before the ticks it closes; the others it lets be.
LEMMA AfterClosingFrames ==
  ASSUME HostAssumption, TypeOK, NEW dt \in Nat, NEW c \in Conns
  PROVE  AfterClosing(dt)[c].closed
         \/ (~mConnections[c].closed /\ SameFrames(mConnections[c], AfterClosing(dt)[c]))
<1> DEFINE sentAway == IF HostLeft THEN Drivers(mConnections) ELSE {}
           one == Closed(mConnections, sentAway)
           two == Closed(one, Expired(one, dt))
           a == Aged(two, dt)[c]
<1>1. mConnections \in ConnectionMap /\ mTokenState \in Nat
  BY DEF TypeOK, ConnectionMap
<1>2. two[c] = NewConnection \/ two[c] = mConnections[c]
  BY DEF Closed
<1>3. two[c] \in Connection
  BY <1>1, <1>2, NewConnectionType DEF ConnectionMap
<1>4. AfterClosing(dt)[c] = a
  BY DEF AfterClosing
<1>5. a = [two[c] EXCEPT !.age = 0]
      \/ a = [two[c] EXCEPT !.age = Least(two[c].age + dt, HelloTimeout)]
  BY DEF Aged
<1> HIDE DEF two, a
<1>6. SameFrames(two[c], a)
  BY <1>3, <1>5 DEF SameFrames, Connection
<1>7. NewConnection.closed
  BY DEF NewConnection
<1>8. mConnections[c].closed \in BOOLEAN
  BY <1>1 DEF ConnectionMap, Connection
<1> QED
  BY <1>2, <1>4, <1>6, <1>7, <1>8 DEF SameFrames

\* A driver is fed the Ticks and, at the end, the Result.
Fed(r, to, finishing) ==
  IF finishing
  THEN Result(IF r.next = mTick THEN [r EXCEPT !.next = to] ELSE r)
  ELSE IF r.next = mTick THEN [r EXCEPT !.next = to] ELSE r

\* What feeding must do to every driver, and serving to every spectator, for the
\* invariant to hold after it.
FeedsWell(to, finishing, sent, over) ==
  \A r \in Connection : Driven(r, mTick, TRUE, sent) =>
    /\ Driven(Fed(r, to, finishing), to, TRUE, over)
    /\ Fed(r, to, finishing).closed = r.closed
    /\ Fed(r, to, finishing).helloDone = r.helloDone
    /\ Fed(r, to, finishing).player = r.player
    /\ Fed(r, to, finishing).spectator = r.spectator
    /\ Fed(r, to, finishing).start = r.start
    /\ Fed(r, to, finishing).name = r.name

ServesWell(to, now, sent, over) ==
  \A r \in Connection : Behind(r, mTick, mClock, sent) =>
    /\ Behind(Served(r, now, to, sent), to, now, over)
    /\ Served(r, now, to, sent).closed = r.closed
    /\ Served(r, now, to, sent).helloDone = r.helloDone
    /\ Served(r, now, to, sent).player = r.player
    /\ Served(r, now, to, sent).spectator = r.spectator
    /\ Served(r, now, to, sent).start = r.start
    /\ Served(r, now, to, sent).name = r.name

\* Feeding the drivers is well done, at the end of the race and before.
LEMMA FedFits ==
  ASSUME NEW to \in Nat, mTick \in Nat
  PROVE  FeedsWell(to, FALSE, FALSE, FALSE) /\ FeedsWell(to, FALSE, TRUE, TRUE)
         /\ FeedsWell(to, TRUE, FALSE, TRUE)
<1> SUFFICES ASSUME NEW r \in Connection
             PROVE  LET t == Fed(r, to, FALSE)
                        s == Fed(r, to, TRUE)
                    IN  /\ Driven(r, mTick, TRUE, FALSE) => Driven(t, to, TRUE, FALSE)
                        /\ Driven(r, mTick, TRUE, TRUE) => Driven(t, to, TRUE, TRUE)
                        /\ Driven(r, mTick, TRUE, FALSE) => Driven(s, to, TRUE, TRUE)
                        /\ t.closed = r.closed /\ t.helloDone = r.helloDone
                        /\ t.player = r.player /\ t.spectator = r.spectator
                        /\ s.closed = r.closed /\ s.helloDone = r.helloDone
                        /\ s.player = r.player /\ s.spectator = r.spectator
                        /\ t.start = r.start /\ t.name = r.name
                        /\ s.start = r.start /\ s.name = r.name
  BY DEF FeedsWell
<1> DEFINE t == IF r.next = mTick THEN [r EXCEPT !.next = to] ELSE r
           s == [t EXCEPT !.results = Least(t.results + 1, 2)]
<1>1. /\ t.closed = r.closed /\ t.helloDone = r.helloDone /\ t.player = r.player
      /\ t.spectator = r.spectator /\ t.start = r.start /\ t.results = r.results
      /\ t.next = (IF r.next = mTick THEN to ELSE r.next) /\ t.name = r.name
  BY DEF Connection
<1>2. DOMAIN t = DOMAIN r /\ r.results \in 0..2
  BY DEF Connection
<1> HIDE DEF t
<1>3. /\ s.closed = t.closed /\ s.helloDone = t.helloDone /\ s.player = t.player
      /\ s.spectator = t.spectator /\ s.start = t.start /\ s.next = t.next
      /\ s.name = t.name
      /\ s.results = Least(t.results + 1, 2)
  BY <1>2 DEF Connection
<1>4. Fed(r, to, FALSE) = t /\ Fed(r, to, TRUE) = s
  BY DEF Fed, Result, t
<1> HIDE DEF s
<1>5. ASSUME Driven(r, mTick, TRUE, FALSE)
      PROVE  Driven(t, to, TRUE, FALSE) /\ Driven(s, to, TRUE, TRUE)
  <2>1. t.next = to \/ (~t.start /\ t.next = NoTick)
    BY <1>1, <1>5 DEF Driven
  <2>2. t.start => t.results = 0
    BY <1>1, <1>5 DEF Driven
  <2>3. s.start => s.results = 1
    BY <1>3, <2>2 DEF Least
  <2> QED
    BY <1>3, <2>1, <2>2, <2>3 DEF Driven
<1>6. ASSUME Driven(r, mTick, TRUE, TRUE)
      PROVE  Driven(t, to, TRUE, TRUE)
  <2>1. t.next = to \/ (~t.start /\ t.next = NoTick)
    BY <1>1, <1>6 DEF Driven
  <2>2. t.start => t.results = 1
    BY <1>1, <1>6 DEF Driven
  <2> QED
    BY <2>1, <2>2 DEF Driven
<1> QED
  BY <1>1, <1>3, <1>4, <1>5, <1>6

\* A spectator is served: the ticks old enough, then the Result.
LEMMA ServedFits ==
  ASSUME HostAssumption, NEW to \in Nat, mTick \in Nat, mTick <= to,
         NEW now \in Int, mClock \in Int, mClock <= now
  PROVE  /\ ServesWell(to, now, FALSE, FALSE) /\ ServesWell(to, now, FALSE, TRUE)
         /\ to = mTick /\ to > 0 => ServesWell(to, now, TRUE, TRUE)
<1> SUFFICES ASSUME NEW r \in Connection, NEW out, Behind(r, mTick, mClock, out)
             PROVE  LET s == Served(r, now, to, out)
                    IN  /\ s.closed = r.closed /\ s.helloDone = r.helloDone
                        /\ s.player = r.player /\ s.spectator = r.spectator
                        /\ s.start = r.start /\ s.name = r.name
                        /\ out = FALSE => Behind(s, to, now, FALSE) /\ Behind(s, to, now, TRUE)
                        /\ out = TRUE /\ to = mTick /\ to > 0 => Behind(s, to, now, TRUE)
  BY ZenonT(60) DEF ServesWell
<1> DEFINE allowed == Allowed(now, to)
           cursor == IF r.specCursor < allowed THEN allowed ELSE r.specCursor
           t == [r EXCEPT !.specCursor = cursor,
                          !.next = IF r.next = r.specCursor THEN cursor ELSE r.next]
           u == [t EXCEPT !.specResultSent = TRUE]
<1>1. /\ SpecDelay \in Nat /\ r.specCursor \in Nat /\ r.next = r.specCursor
      /\ r.specCursor <= mTick /\ r.specResultSent \in BOOLEAN
  BY DEF HostAssumption, Connection, Behind
<1>2. Due(mClock) <= Due(now) /\ Due(now) \in Nat /\ Due(mClock) \in Nat
  BY DEF Due
<1>3. /\ allowed \in Nat /\ allowed <= to
      /\ allowed > 0 => allowed <= Due(now) - SpecDelay
  BY <1>1, <1>2 DEF Allowed, Least
<1>4. /\ cursor \in Nat /\ cursor <= to
      /\ cursor > 0 => cursor <= Due(now) - SpecDelay
  <2>1. r.specCursor > 0 => r.specCursor <= Due(mClock) - SpecDelay
    BY <1>1 DEF Behind
  <2> HIDE DEF allowed
  <2> QED
    BY <1>1, <1>2, <1>3, <2>1
<1> HIDE DEF cursor
<1>5. /\ t.closed = r.closed /\ t.helloDone = r.helloDone /\ t.player = r.player
      /\ t.start = r.start /\ t.name = r.name
      /\ t.spectator = r.spectator /\ t.specCursor = cursor /\ t.next = cursor
      /\ t.specResultSent = r.specResultSent /\ DOMAIN t = DOMAIN r
  BY <1>1 DEF Connection
<1> HIDE DEF t
<1>6. /\ u.closed = t.closed /\ u.helloDone = t.helloDone /\ u.player = t.player
      /\ u.start = t.start /\ u.name = t.name
      /\ u.spectator = t.spectator /\ u.specCursor = t.specCursor /\ u.next = t.next
      /\ u.specResultSent = TRUE /\ DOMAIN u = DOMAIN t
  BY <1>5 DEF Connection
<1> HIDE DEF u
<1> DEFINE v == [u EXCEPT !.results = Least(u.results + 1, 2)]
<1>7. /\ v.closed = u.closed /\ v.helloDone = u.helloDone /\ v.player = u.player
      /\ v.start = u.start /\ v.name = u.name
      /\ v.spectator = u.spectator /\ v.specCursor = u.specCursor /\ v.next = u.next
      /\ v.specResultSent = u.specResultSent
  BY <1>5, <1>6 DEF Connection
<1> HIDE DEF v
<1>8. Served(r, now, to, out) =
        IF out /\ cursor >= to /\ ~r.specResultSent THEN v ELSE t
  BY <1>5 DEF Served, v, u, t, cursor, Result
<1>9. r.player = NoPlayer /\ v.player = NoPlayer /\ t.player = NoPlayer
  BY <1>5, <1>6, <1>7 DEF Behind
<1>10. cursor >= r.specCursor
  BY <1>1, <1>3 DEF cursor
<1>11. ASSUME out = FALSE PROVE Behind(t, to, now, FALSE) /\ Behind(t, to, now, TRUE)
  <2>1. ~r.specResultSent
    BY <1>1, <1>11 DEF Behind
  <2> QED
    BY <1>4, <1>5, <1>9, <2>1 DEF Behind
<1>12. ASSUME out = TRUE, to = mTick, to > 0
       PROVE  /\ cursor >= to => Behind(v, to, now, TRUE)
              /\ r.specResultSent \/ ~(cursor >= to) => Behind(t, to, now, TRUE)
  <2>1. cursor >= to => Due(now) - SpecDelay >= to /\ cursor = to
    BY <1>1, <1>2, <1>4, <1>12
  <2>2. cursor >= to => Behind(v, to, now, TRUE)
    BY <1>4, <1>5, <1>6, <1>7, <1>9, <2>1 DEF Behind
  <2>3. ASSUME ~r.specResultSent PROVE Behind(t, to, now, TRUE)
    BY <1>4, <1>5, <1>9, <2>3 DEF Behind
  <2>4. ASSUME r.specResultSent PROVE Behind(t, to, now, TRUE)
    <3>1. r.specCursor = to
      BY <1>1, <1>12, <2>4 DEF Behind
    <3>2. cursor >= to
      BY <1>10, <3>1
    <3> QED
      BY <1>4, <1>5, <1>9, <2>1, <3>2 DEF Behind
  <2> QED
    BY <2>2, <2>3, <2>4
<1>13. CASE out = FALSE
  BY <1>5, <1>8, <1>11, <1>13
<1>14. CASE out = TRUE
  <2>1. CASE cursor >= to /\ ~r.specResultSent
    BY <1>5, <1>6, <1>7, <1>8, <1>12, <1>14, <2>1
  <2>2. CASE ~(cursor >= to /\ ~r.specResultSent)
    BY <1>5, <1>8, <1>12, <1>14, <2>2
  <2> QED
    BY <2>1, <2>2
<1>15. CASE out # TRUE /\ out # FALSE
  BY <1>5, <1>6, <1>7, <1>8, <1>15
<1> QED
  BY <1>13, <1>14, <1>15

-----------------------------------------------------------------------------
(***************************************************************************)
(* Every handler.                                                          *)
(***************************************************************************)
\* A step that lets the race and its clock stand still closes a connection, leaves
\* it as it was, or leaves it as it may be.
StillFits(c) ==
  \/ mConnections'[c].closed
  \/ mConnections'[c] = mConnections[c]
  \/ ~mConnections[c].closed /\ SameFrames(mConnections[c], mConnections'[c])
  \/ Fits(mConnections'[c], mTick, mClock, mStarted, mResultSent)

LEMMA SameWorld ==
  ASSUME FramesInv,
         mStarted' = mStarted, mClock' = mClock, mTick' = mTick, mFinished' = mFinished,
         mResultSent' = mResultSent, \A c \in Conns : StillFits(c)
  PROVE  FramesInv'
<1>1. World'
  BY DEF FramesInv, World
<1>2. ASSUME NEW c \in Conns
      PROVE  mConnections'[c].closed
             \/ Fits(mConnections'[c], mTick, mClock, mStarted, mResultSent)
  <2>1. mConnections[c].closed \/ Fits(mConnections[c], mTick, mClock, mStarted, mResultSent)
    BY DEF FramesInv, AllFit
  <2> QED
    BY <2>1, SameFits DEF StillFits
<1> QED
  BY <1>1, <1>2 DEF FramesInv, AllFit

\* A new connection was sent nothing.
LEMMA ConnectFrames ==
  ASSUME HostAssumption, TypeOK, FramesInv, Connect
  PROVE  FramesInv'
<1> DEFINE n == [NewConnection EXCEPT !.closed = FALSE]
<1>1. /\ ~n.helloDone /\ n.player = NoPlayer /\ ~n.spectator /\ ~n.start /\ n.next = NoTick
      /\ n.results = 0 /\ ~n.specResultSent
  BY DEF NewConnection
<1>2. Fits(n, mTick, mClock, mStarted, mResultSent)
  BY <1>1 DEF Fits, Silent, NoPlayer
<1>3. \A c \in Conns : mConnections'[c] = mConnections[c] \/ mConnections'[c] = n
  BY DEF Connect, TypeOK
<1> HIDE DEF n
<1>4. \A c \in Conns : StillFits(c)
  BY <1>2, <1>3 DEF StillFits
<1>5. UNCHANGED <<mStarted, mClock, mTick, mFinished, mResultSent>>
  BY DEF Connect, raceVars
<1> QED
  BY <1>4, <1>5, SameWorld

\* Closing changes nothing for the others.
LEMMA CloseFrames ==
  ASSUME FramesInv, NEW which, mConnections' = Closed(mConnections, which),
         UNCHANGED <<mStarted, mClock, mTick, mFinished, mResultSent>>
  PROVE  FramesInv'
<1>1. \A c \in Conns : StillFits(c)
  BY DEF Closed, NewConnection, StillFits
<1> QED
  BY <1>1, SameWorld

\* Who was given a slot before the start was sent nothing but the HelloAck.
LEMMA AcceptedFits ==
  ASSUME HostAssumption, TypeOK, FramesInv, NEW c \in Conns, Waiting(c), mStarted = FALSE,
         NEW slot, NEW token
  PROVE  Fits(Accepted(c, slot, token), mTick, mClock, mStarted, mResultSent)
<1> DEFINE r == mConnections[c]
           s == Accepted(c, slot, token)
<1>1. r \in Connection /\ ~r.closed /\ ~r.helloDone
  BY DEF TypeOK, Waiting, Open
<1>2. Silent(r)
  BY <1>1 DEF FramesInv, AllFit, Fits
<1>3. /\ s.helloDone /\ s.spectator = r.spectator /\ s.start = r.start /\ s.next = r.next
      /\ s.results = r.results
  BY <1>1 DEF Accepted, Connection
<1> HIDE DEF r, s
<1>4. Fits(s, mTick, mClock, mStarted, mResultSent)
  BY <1>2, <1>3 DEF Fits, Silent, Driven
<1> QED
  BY <1>4 DEF s

\* Start: the drivers' worlds stand at tick 0, and so does the race.
LEMMA StartNowFrames ==
  ASSUME HostAssumption, TypeOK, FramesInv, mStarted = FALSE,
         NEW conns, \A c \in Conns : conns[c] \in Connection',
         \A c \in Conns : conns[c].closed
                         \/ Fits(conns[c], mTick, mClock, mStarted, mResultSent),
         StartNow(conns), UNCHANGED <<mTick, mFinished, mResultSent>>
  PROVE  FramesInv'
<1>1. mTick = 0 /\ mFinished = FALSE /\ mResultSent = FALSE
  BY DEF FramesInv, World, TypeOK
<1>2. mStarted' = TRUE /\ mClock' = -StartDelay /\ StartDelay \in Nat
  BY DEF StartNow, HostAssumption
<1>3. World'
  <2>1. mTick' <= Due(mClock)'
    <3>1. Due(mClock)' >= 0
      BY <1>2 DEF Due
    <3> QED
      BY <1>1, <3>1 DEF Due
  <2>2. mTick' = 0 /\ mFinished' = FALSE /\ mResultSent' = FALSE
    BY <1>1
  <2> QED
    BY <1>2, <2>1, <2>2 DEF World
<1>4. ASSUME NEW c \in Conns
      PROVE  mConnections'[c].closed \/ Fits(mConnections'[c], 0, mClock', TRUE, FALSE)
  <2> DEFINE r == conns[c]
             s == [r EXCEPT !.start = TRUE, !.next = 0]
  <2>1. mConnections'[c] = IF c \in Drivers(conns) THEN s ELSE r
    BY DEF StartNow, ToldStart
  <2>2. r \in Connection' /\ (r.closed \/ Fits(r, 0, mClock, FALSE, FALSE))
    BY <1>1
  <2>3. /\ s.closed = r.closed /\ s.helloDone = r.helloDone /\ s.player = r.player
        /\ s.spectator = r.spectator /\ s.start = TRUE /\ s.next = 0 /\ s.results = r.results
    BY <2>2 DEF Connection
  <2>4. r.player \in Player /\ NoPlayer \in Int /\ ~(NoPlayer >= 0)
    BY <2>2 DEF Connection, Player, NoPlayer
  <2>5. c \in Drivers(conns) <=> ~r.closed /\ r.player >= 0
    BY DEF Drivers, Open
  <2> HIDE DEF r, s
  <2>6. CASE r.closed
    BY <2>1, <2>3, <2>6
  <2>7. CASE ~r.closed /\ r.player >= 0
    <3>1. r.helloDone /\ ~r.spectator /\ r.results = 0
      BY <2>2, <2>4, <2>7 DEF Fits, Silent, Driven
    <3>2. Fits(s, 0, mClock', TRUE, FALSE)
      BY <2>3, <3>1 DEF Fits, Driven
    <3> QED
      BY <2>1, <2>5, <2>7, <3>2
  <2>8. CASE ~r.closed /\ ~(r.player >= 0)
    <3>1. ~r.spectator
      BY <2>2, <2>8 DEF Fits
    <3>2. Fits(r, 0, mClock', TRUE, FALSE)
      BY <2>2, <2>8, <3>1 DEF Fits
    <3> QED
      BY <2>1, <2>5, <2>8, <3>2
  <2> QED
    BY <2>6, <2>7, <2>8
<1> QED
  BY <1>1, <1>2, <1>3, <1>4 DEF FramesInv, AllFit

\* A Hello, whether the race begins with it or not.
LEMMA HelloAcceptedFrames ==
  ASSUME HostAssumption, SeatInv, SeatInv', FramesInv, NEW c \in Conns,
         NEW asksHost \in BOOLEAN, HelloAccepted(c, asksHost)
  PROVE  FramesInv'
<1> DEFINE slot  == FreeSlot
           token == mTokenState + 1
           conns == [mConnections EXCEPT ![c] = Accepted(c, slot, token)]
<1>1. /\ TypeOK /\ Waiting(c) /\ mStarted = FALSE
      /\ UNCHANGED <<mTick, mFinished, mResultSent>>
      /\ StartNow(conns) \/ (mConnections' = conns /\ UNCHANGED <<mStarted, mClock>>)
  BY DEF HelloAccepted, Joinable, SeatInv, TypeOK, raceVars
<1>2. /\ TypeOK /\ Sitting /\ Joinable /\ ~mConnections[c].closed
      /\ mTokenState' = token /\ mTokens' = [mTokens EXCEPT ![slot] = token]
  BY SeatInvSeated DEF HelloAccepted, Waiting, Open, Sitting
<1>3. conns \in ConnectionMap'
  BY <1>2, HelloSits
<1>4. \A d \in Conns : conns[d] \in Connection'
  BY <1>3 DEF ConnectionMap
<1>5. Fits(Accepted(c, slot, token), mTick, mClock, mStarted, mResultSent)
  BY <1>1, AcceptedFits
<1>6. \A d \in Conns : conns[d] = IF d = c THEN Accepted(c, slot, token) ELSE mConnections[d]
  BY <1>1 DEF TypeOK
<1>7. \A d \in Conns : conns[d].closed \/ Fits(conns[d], mTick, mClock, mStarted, mResultSent)
  BY <1>5, <1>6 DEF FramesInv, AllFit
<1> HIDE DEF conns, slot, token
<1>8. CASE StartNow(conns)
  BY <1>1, <1>4, <1>7, <1>8, StartNowFrames
<1>9. CASE mConnections' = conns /\ UNCHANGED <<mStarted, mClock>>
  <2>1. \A d \in Conns : StillFits(d)
    BY <1>5, <1>6, <1>9 DEF StillFits
  <2> QED
    BY <1>1, <1>9, <2>1, SameWorld
<1> QED
  BY <1>1, <1>8, <1>9

\* The host starts a full race.
LEMMA HostStartsFullFrames ==
  ASSUME HostAssumption, TypeOK, FramesInv, NEW c \in Conns, HostStartsFull(c)
  PROVE  FramesInv'
<1>1. /\ mStarted = FALSE /\ StartNow(mConnections) /\ mTokenState' = mTokenState
      /\ UNCHANGED <<mTick, mFinished, mResultSent>>
  BY DEF HostStartsFull, MayHostStart, TypeOK, raceVars
<1>2. \A d \in Conns : mConnections[d] \in Connection'
  BY <1>1 DEF TypeOK, Connection, Token
<1>3. \A d \in Conns : mConnections[d].closed
                      \/ Fits(mConnections[d], mTick, mClock, mStarted, mResultSent)
  BY DEF FramesInv, AllFit
<1> QED
  BY <1>1, <1>2, <1>3, StartNowFrames

\* The old connections are well typed for the tokens HostStart adds.
LEMMA TokensGrow ==
  ASSUME HostAssumption, TypeOK, Sitting, NEW c \in Conns, HostStartsFewer(c)
  PROVE  \A d \in Conns : mConnections[d] \in Connection'
<1>1. mStarted = FALSE /\ mTokenState' = mTokenState + ConnectedPlayers
  BY DEF HostStartsFewer, MayHostStart, TypeOK
<1>2. SeatInv
  BY SeatInvSeated DEF Sitting
<1>3. /\ Seated(mConnections, mTokens, mLoaded, FALSE, mPlayers)
      /\ mPlayers \in Nat /\ mTokenState \in Nat /\ mConnections \in ConnectionMap
  BY <1>1, <1>2, SeatInvFacts
<1>4. ConnectedPlayers \in Nat
  BY <1>3, DriversCounted DEF ConnectedPlayers
<1>5. mTokenState' \in Nat /\ mTokenState <= mTokenState'
  BY <1>1, <1>3, <1>4
<1>6. mConnections \in ConnectionMap'
  BY ONLY <1>3, <1>5, MoreTokens
<1> QED
  BY <1>6 DEF ConnectionMap

\* Numbering the drivers again leaves what they were sent.
LEMMA RenumberedFits ==
  ASSUME TypeOK, FramesInv, mStarted = FALSE, NEW d \in Drivers(mConnections)
  PROVE  Fits(Renumbered(d), mTick, mClock, mStarted, mResultSent)
<1> DEFINE r == mConnections[d]
           s == Renumbered(d)
<1>1. r \in Connection /\ ~r.closed /\ r.player >= 0 /\ r.player \in Int
  BY DEF Drivers, Open, TypeOK, Connection, Player, NoPlayer
<1>2. Fits(r, mTick, mClock, mStarted, mResultSent)
  BY <1>1 DEF FramesInv, AllFit, Drivers, Open
<1>3. r.helloDone /\ ~r.spectator /\ ~r.start /\ r.next = NoTick /\ r.results = 0
  BY <1>1, <1>2 DEF Fits, Silent, Driven, NoPlayer
<1>4. /\ s.helloDone = r.helloDone /\ s.spectator = r.spectator /\ s.start = r.start
      /\ s.next = r.next /\ s.results = r.results
  BY <1>1 DEF Renumbered, Connection
<1> HIDE DEF r, s
<1>5. Fits(s, mTick, mClock, mStarted, mResultSent)
  BY <1>3, <1>4 DEF Fits, Driven
<1> QED
  BY <1>5 DEF s

\* The host starts with fewer players than seats.
LEMMA HostStartsFewerFrames ==
  ASSUME HostAssumption, TypeOK, Sitting, FramesInv, NEW c \in Conns, HostStartsFewer(c)
  PROVE  FramesInv'
<1> DEFINE conns == [d \in Conns |-> IF d \in Drivers(mConnections) THEN Renumbered(d)
                                   ELSE mConnections[d]]
<1>1. /\ mStarted = FALSE /\ StartNow(conns) /\ UNCHANGED <<mTick, mFinished, mResultSent>>
      /\ mTokenState' = mTokenState + ConnectedPlayers
  BY DEF HostStartsFewer, MayHostStart, TypeOK
<1>2. \A d \in Drivers(mConnections) : Renumbered(d) \in Connection'
  BY HostStartsFewerStep
<1>3. \A d \in Conns : mConnections[d] \in Connection'
  BY TokensGrow
<1>4. \A d \in Conns : conns[d] = mConnections[d] \/ (d \in Drivers(mConnections) /\ conns[d] = Renumbered(d))
  OBVIOUS
<1> HIDE DEF conns
<1>5. \A d \in Conns : conns[d] \in Connection'
  BY <1>2, <1>3, <1>4
<1>6. \A d \in Conns : conns[d].closed \/ Fits(conns[d], mTick, mClock, mStarted, mResultSent)
  <2>1. \A d \in Conns : mConnections[d].closed
                        \/ Fits(mConnections[d], mTick, mClock, mStarted, mResultSent)
    BY DEF FramesInv, AllFit
  <2>2. \A d \in Drivers(mConnections) :
          Fits(Renumbered(d), mTick, mClock, mStarted, mResultSent)
    BY <1>1, RenumberedFits
  <2> QED
    BY <1>4, <2>1, <2>2
<1> QED
  BY <1>1, <1>5, <1>6, StartNowFrames

\* A driver that comes back has no world yet.
LEMMA ResumeFrames ==
  ASSUME HostAssumption, TypeOK, FramesInv, NEW c \in Conns, NEW token, Resume(c, token)
  PROVE  FramesInv'
<1>1. PICK slot \in DOMAIN mTokens :
        mConnections' = [Closed(mConnections, Replaced(c, slot)) EXCEPT ![c] = Resumed(c, slot)]
  BY DEF Resume, Owned
<1> DEFINE r == mConnections[c]
           s == Resumed(c, slot)
<1>2. r \in Connection /\ ~r.closed /\ ~r.helloDone /\ mStarted = TRUE
  BY DEF TypeOK, Resume, Waiting, Open
<1>3. Silent(r)
  BY <1>2 DEF FramesInv, AllFit, Fits
<1>4. /\ s.helloDone /\ s.spectator = r.spectator /\ s.start = r.start /\ s.next = r.next
      /\ s.results = r.results
  BY <1>2 DEF Resumed, Connection
<1>5. \A d \in Conns : mConnections'[d] = s \/ mConnections'[d].closed
                      \/ mConnections'[d] = mConnections[d]
  BY <1>1 DEF Closed, NewConnection
<1> HIDE DEF r, s
<1>6. Fits(s, mTick, mClock, mStarted, mResultSent)
  BY <1>2, <1>3, <1>4 DEF Fits, Silent, Driven
<1>7. \A d \in Conns : StillFits(d)
  BY <1>5, <1>6 DEF StillFits
<1>8. UNCHANGED <<mStarted, mClock, mTick, mFinished, mResultSent>>
  BY DEF Resume, raceVars
<1> QED
  BY <1>7, <1>8, SameWorld

\* The keyframe a spectator starts from is as old as the delay asks, or tick 0.
LEMMA SpectatorKeyframeOld ==
  ASSUME HostAssumption, TypeOK, World
  PROVE  /\ SpectatorKeyframe \in 0..RaceLimit /\ SpectatorKeyframe <= mTick
         /\ SpectatorKeyframe > 0 => SpectatorKeyframe <= Due(mClock) - SpecDelay
<1> DEFINE k == SpectatorKeyframe
           allowed == {x \in mKeyframes : x <= mTick - SpecDelay}
           oldest == CHOOSE x \in mKeyframes : \A j \in mKeyframes : x <= j
<1>1. /\ SpecDelay \in Nat /\ mTick \in 0..RaceLimit /\ RaceLimit \in Nat
      /\ mKeyframes \subseteq 0..RaceLimit /\ 0 \in mKeyframes
      /\ mTick <= Due(mClock)
  BY DEF HostAssumption, TypeOK, World
<1>2. Due(mClock) \in Int
  BY DEF TypeOK, MaxClock, HostAssumption, Due
<1>3. oldest = 0
  <2>1. oldest \in mKeyframes /\ \A j \in mKeyframes : oldest <= j
    BY <1>1, LeastAndGreatest
  <2> HIDE DEF oldest
  <2>2. oldest \in Nat
    BY <1>1, <2>1
  <2> QED
    BY <1>1, <2>1, <2>2
<1>4. allowed # {} => (CHOOSE x \in allowed : \A j \in allowed : j <= x) \in allowed
  <2>1. allowed \subseteq 0..RaceLimit
    BY <1>1
  <2> HIDE DEF allowed
  <2> QED
    BY <1>1, <2>1, LeastAndGreatest
<1>5. k = 0 \/ k \in allowed
  BY <1>3, <1>4 DEF SpectatorKeyframe
<1>6. k \in 0..RaceLimit
  BY SpectatorKeyframeType
<1> HIDE DEF k
<1> QED
  BY <1>1, <1>2, <1>5, <1>6 DEF k

\* A spectator, and what its snapshot shows.
LEMMA SpectateFrames ==
  ASSUME HostAssumption, SeatInv, FramesInv, NEW c \in Conns, Spectate(c)
  PROVE  FramesInv'
<1> DEFINE r == mConnections[c]
           k == SpectatorKeyframe
           s == [r EXCEPT !.helloDone = TRUE, !.name = c, !.spectator = TRUE,
                          !.specCursor = k, !.next = k]
<1>1. TypeOK /\ r \in Connection /\ ~r.closed /\ ~r.helloDone /\ mStarted = TRUE
  BY DEF SeatInv, TypeOK, Spectate, Waiting, Open
<1>2. Silent(r)
  BY <1>1 DEF FramesInv, AllFit, Fits
<1>3. k <= mTick /\ (k > 0 => k <= Due(mClock) - SpecDelay)
  BY <1>1, SpectatorKeyframeOld DEF FramesInv
<1>4. \A d \in Conns : mConnections'[d] = s \/ mConnections'[d] = mConnections[d]
  BY <1>1 DEF Spectate, TypeOK
<1> HIDE DEF r, k
<1>5. /\ s.helloDone /\ s.spectator /\ s.specCursor = k /\ s.next = k /\ s.player = r.player
      /\ s.specResultSent = r.specResultSent
  BY <1>1 DEF Connection
<1> HIDE DEF s
<1>6. Fits(s, mTick, mClock, mStarted, mResultSent)
  BY <1>1, <1>2, <1>3, <1>5 DEF Fits, Silent, Behind, NoPlayer
<1>7. \A d \in Conns : StillFits(d)
  BY <1>4, <1>6 DEF StillFits
<1>8. UNCHANGED <<mStarted, mClock, mTick, mFinished, mResultSent>>
  BY DEF Spectate, raceVars
<1> QED
  BY <1>7, <1>8, SameWorld

\* A snapshot on request: a driver's world stands at the race's tick after it, a
\* spectator's at the keyframe.
LEMMA SnapshotRequestFrames ==
  ASSUME HostAssumption, SeatInv, FramesInv, NEW c \in Conns, SnapshotRequest(c)
  PROVE  FramesInv'
<1> DEFINE r == mConnections[c]
           k == SpectatorKeyframe
           s == [r EXCEPT !.specCursor = k, !.specResultSent = FALSE, !.next = k]
           t == [r EXCEPT !.next = mTick]
<1>1. TypeOK /\ r \in Connection /\ ~r.closed /\ r.helloDone /\ mStarted = TRUE
  BY DEF SeatInv, TypeOK, SnapshotRequest, Open
<1>2. Fits(r, mTick, mClock, mStarted, mResultSent)
  BY <1>1 DEF FramesInv, AllFit
<1>3. k <= mTick /\ (k > 0 => k <= Due(mClock) - SpecDelay)
  BY <1>1, SpectatorKeyframeOld DEF FramesInv
<1>4. \A d \in Conns : \/ mConnections'[d] = mConnections[d]
                       \/ r.spectator /\ mConnections'[d] = s
                       \/ ~r.spectator /\ mConnections'[d] = t
  <2>0. DOMAIN mConnections = Conns
    BY <1>1 DEF TypeOK
  <2>1. CASE r.spectator
    <3>1. mConnections' = [mConnections EXCEPT ![c] = s]
      BY <1>1, <2>0, <2>1 DEF SnapshotRequest
    <3>2. \A d \in Conns : mConnections'[d] = mConnections[d] \/ mConnections'[d] = s
      <4> HIDE DEF s
      <4> QED
        BY <2>0, <3>1
    <3> HIDE DEF r, s, t
    <3> QED
      BY <2>1, <3>2, Zenon
  <2>2. CASE ~r.spectator
    <3>1. mConnections' = [mConnections EXCEPT ![c] = t]
      BY <1>1, <2>0, <2>2 DEF SnapshotRequest
    <3>2. \A d \in Conns : mConnections'[d] = mConnections[d] \/ mConnections'[d] = t
      <4> HIDE DEF t
      <4> QED
        BY <2>0, <3>1
    <3> HIDE DEF r, s, t
    <3> QED
      BY <2>2, <3>2, Zenon
  <2> QED
    BY <2>1, <2>2
<1> HIDE DEF r, k
<1>5. /\ s.helloDone /\ s.spectator = r.spectator /\ s.specCursor = k /\ s.next = k
      /\ s.player = r.player /\ s.specResultSent = FALSE
  BY <1>1 DEF Connection
<1>6. /\ t.helloDone /\ t.spectator = r.spectator /\ t.next = mTick /\ t.player = r.player
      /\ t.start = r.start /\ t.results = r.results
  BY <1>1 DEF Connection
<1> HIDE DEF s, t
<1>7. ASSUME r.spectator PROVE Fits(s, mTick, mClock, mStarted, mResultSent)
  <2>1. r.player = NoPlayer
    BY <1>2, <1>7 DEF Fits, Behind
  <2>2. Behind(s, mTick, mClock, mResultSent)
    BY <1>3, <1>5, <2>1 DEF Behind
  <2>3. ~(s.player >= 0)
    BY <1>5, <2>1 DEF NoPlayer
  <2> QED
    BY <1>1, <1>5, <2>2, <2>3 DEF Fits
<1>8. ~r.spectator => Fits(t, mTick, mClock, mStarted, mResultSent)
  BY <1>1, <1>2, <1>6 DEF Fits, Driven
<1>9. \A d \in Conns : StillFits(d)
  BY <1>4, <1>7, <1>8 DEF StillFits
<1>10. UNCHANGED <<mStarted, mClock, mTick, mFinished, mResultSent>>
  BY DEF SnapshotRequest, raceVars
<1> QED
  BY <1>9, <1>10, SameWorld

\* Before the start, time only closes connections.
LEMMA AdvanceWaitingFrames ==
  ASSUME HostAssumption, TypeOK, FramesInv, NEW dt \in 0..MaxLag, AdvanceWaiting(dt)
  PROVE  FramesInv'
<1>1. dt \in Nat
  BY ClockType
<1>2. \A c \in Conns : StillFits(c)
  BY <1>1, AfterClosingFrames DEF AdvanceWaiting, StillFits
<1>3. UNCHANGED <<mStarted, mClock, mTick, mFinished, mResultSent>>
  BY DEF AdvanceWaiting, raceVars
<1> QED
  BY <1>2, <1>3, SameWorld

\* What the ticks of one call leave of a connection: the drivers fed, then the
\* spectators served.
LEMMA TicksFit ==
  ASSUME HostAssumption, TypeOK, AllFit, mStarted = TRUE, NEW dt \in Nat, NEW c \in Conns,
         NEW to \in Nat, mTick <= to, NEW now \in Int, mClock <= now,
         NEW finishing, NEW over, FeedsWell(to, finishing, mResultSent, over),
         ServesWell(to, now, mResultSent, over),
         NEW s, s = ToSpectators(ToDrivers(AfterClosing(dt), to, finishing), now, to, mResultSent)[c]
  PROVE  s.closed \/ (Fits(s, to, now, TRUE, over) /\ SamePeer(mConnections[c], s))
<1> DEFINE one == AfterClosing(dt)
           two == ToDrivers(one, to, finishing)
           r == one[c]
           t == two[c]
<1>1. r \in Connection
  BY AfterClosingKept DEF ConnectionMap
<1>2. r.closed \/ (Fits(r, mTick, mClock, TRUE, mResultSent)
                   /\ SamePeer(mConnections[c], r))
  <2>1. r.closed \/ (~mConnections[c].closed /\ SameFrames(mConnections[c], r))
    BY AfterClosingFrames
  <2>2. mConnections[c].closed \/ Fits(mConnections[c], mTick, mClock, TRUE, mResultSent)
    BY DEF AllFit
  <2> HIDE DEF r
  <2> QED
    BY <2>1, <2>2, SameFits DEF SameFrames, SamePeer
<1>3. t = IF c \in Drivers(one) THEN Fed(r, to, finishing) ELSE r
  BY DEF ToDrivers, Fed
<1>4. s = IF c \in Watchers(two) THEN Served(t, now, to, mResultSent) ELSE t
  BY DEF ToSpectators
<1>5. /\ c \in Drivers(one) <=> ~r.closed /\ r.player >= 0
      /\ c \in Watchers(two) <=> ~t.closed /\ t.spectator
  BY DEF Drivers, Watchers, Open
<1> HIDE DEF one, two, r, t
<1>6. /\ r.player \in Player /\ r.spectator \in BOOLEAN /\ r.closed \in BOOLEAN
      /\ r.helloDone \in BOOLEAN
  BY <1>1 DEF Connection
<1>7. CASE r.closed
  BY <1>3, <1>4, <1>5, <1>7
<1>8. CASE ~r.closed /\ r.player >= 0
  <2>0. r.player # NoPlayer
    BY <1>8 DEF NoPlayer
  <2>1. /\ r.helloDone /\ ~r.spectator /\ Driven(r, mTick, TRUE, mResultSent)
    BY <1>2, <1>8, <2>0 DEF Fits, Silent, Behind
  <2>2. t = Fed(r, to, finishing)
    BY <1>3, <1>5, <1>8
  <2>3. /\ Driven(t, to, TRUE, over)
        /\ t.closed = r.closed /\ t.helloDone = r.helloDone /\ t.player = r.player
        /\ t.spectator = r.spectator /\ t.start = r.start /\ t.name = r.name
    <3> DEFINE f == Fed(r, to, finishing)
    <3>1. /\ Driven(f, to, TRUE, over)
          /\ f.closed = r.closed /\ f.helloDone = r.helloDone /\ f.player = r.player
          /\ f.spectator = r.spectator /\ f.start = r.start /\ f.name = r.name
      BY <1>1, <2>1 DEF FeedsWell
    <3> QED
      BY <2>2, <3>1
  <2>4. s = t
    BY <1>4, <1>5, <2>1, <2>3
  <2> QED
    BY <1>2, <1>8, <2>1, <2>3, <2>4 DEF Fits, SamePeer
<1>9. CASE ~r.closed /\ ~(r.player >= 0) /\ r.spectator
  <2>1. /\ r.helloDone /\ Behind(r, mTick, mClock, mResultSent)
    BY <1>2, <1>9 DEF Fits, Silent
  <2>2. t = r
    BY <1>3, <1>5, <1>9
  <2>3. s = Served(r, now, to, mResultSent)
    BY <1>4, <1>5, <1>9, <2>2
  <2>5. /\ Behind(s, to, now, over)
        /\ s.closed = r.closed /\ s.helloDone = r.helloDone /\ s.player = r.player
        /\ s.spectator = r.spectator /\ s.start = r.start /\ s.name = r.name
    <3> DEFINE f == Served(r, now, to, mResultSent)
    <3>1. /\ Behind(f, to, now, over)
          /\ f.closed = r.closed /\ f.helloDone = r.helloDone /\ f.player = r.player
          /\ f.spectator = r.spectator /\ f.start = r.start /\ f.name = r.name
      BY <1>1, <2>1 DEF ServesWell
    <3> QED
      BY <2>3, <3>1
  <2> QED
    BY <1>2, <1>9, <2>1, <2>5 DEF Fits, SamePeer
<1>10. CASE ~r.closed /\ ~(r.player >= 0) /\ ~r.spectator
  <2>1. s = r
    BY <1>3, <1>4, <1>5, <1>10
  <2>2. ~r.helloDone => Silent(r)
    BY <1>2, <1>10 DEF Fits
  <2> QED
    BY <1>2, <1>10, <2>1, <2>2 DEF Fits
<1> QED
  BY <1>6, <1>7, <1>8, <1>9, <1>10

\* The clock goes on, up to its bound.
LEMMA ClockGoesOn ==
  ASSUME HostAssumption, TypeOK, NEW dt \in 0..MaxLag
  PROVE  /\ Least(mClock + dt, MaxClock) \in Int /\ mClock <= Least(mClock + dt, MaxClock)
         /\ Due(mClock) <= Due(Least(mClock + dt, MaxClock))
         /\ \A to \in 0..RaceLimit : to <= Due(mClock + dt) => to <= Due(Least(mClock + dt, MaxClock))
<1>1. /\ dt \in Nat /\ StartDelay \in Nat /\ MaxClock \in Nat /\ mClock \in Int
      /\ mClock <= MaxClock
  BY DEF TypeOK, HostAssumption, MaxClock
<1>2. RaceLimit \in Nat /\ RaceLimit <= MaxClock
  BY DEF HostAssumption, MaxClock
<1>3. Least(mClock + dt, MaxClock) \in Int /\ mClock <= Least(mClock + dt, MaxClock)
  BY ONLY <1>1 DEF Least
<1>4. Due(mClock) <= Due(Least(mClock + dt, MaxClock))
  BY ONLY <1>1, <1>3 DEF Due
<1>5. ASSUME NEW to \in 0..RaceLimit, to <= Due(mClock + dt)
      PROVE  to <= Due(Least(mClock + dt, MaxClock))
  BY ONLY <1>1, <1>2, <1>5 DEF Due, Least
<1> QED
  BY <1>3, <1>4, <1>5

\* The ticks that are due, and the end of the race.
LEMMA AdvanceRunningFrames ==
  ASSUME HostAssumption, TypeOK, FramesInv, NEW dt \in 0..MaxLag, AdvanceRunning(dt)
  PROVE  /\ FramesInv'
         /\ \A c \in Conns : mConnections'[c].closed \/ SamePeer(mConnections[c], mConnections'[c])
<1> DEFINE now == Least(mClock + dt, MaxClock)
           due == Due(mClock + dt)
<1>1. /\ mStarted = TRUE /\ mFinished = FALSE /\ mResultSent = FALSE /\ mTick \in 0..RaceLimit
      /\ RaceLimit \in Nat /\ mTick <= Due(mClock)
  BY DEF AdvanceRunning, TypeOK, FramesInv, World, HostAssumption
<1>2. PICK to \in mTick..RaceLimit, over \in BOOLEAN :
        /\ IF over THEN to > mTick /\ to <= due
           ELSE to = (IF due > mTick THEN due ELSE mTick) /\ to < RaceLimit
        /\ mTick' = to /\ mFinished' = over /\ mResultSent' = (mResultSent \/ over)
        /\ mConnections' = ToSpectators(ToDrivers(AfterClosing(dt), to, over /\ ~mResultSent),
                                        now, to, mResultSent)
  BY DEF AdvanceRunning
<1>3. mClock' = now /\ mStarted' = TRUE
  BY <1>1 DEF AdvanceRunning
<1>4. /\ now \in Int /\ mClock <= now /\ Due(mClock) <= Due(now)
      /\ \A k \in 0..RaceLimit : k <= due => k <= Due(now)
  BY ClockGoesOn
<1>5. due \in Int /\ Due(mClock) \in Int /\ Due(now) \in Int /\ to \in Nat /\ mTick <= to
      /\ to \in 0..RaceLimit
  <2>1. mClock \in Int /\ dt \in Int
    BY ClockType DEF TypeOK, MaxClock, HostAssumption
  <2> HIDE DEF now
  <2> QED
    BY <1>1, <1>4, <2>1 DEF Due
<1> HIDE DEF now, due
<1>6. to <= Due(now) /\ (over => to > 0)
  <2>1. to <= due \/ to = mTick
    BY <1>1, <1>2, <1>5
  <2> QED
    BY <1>1, <1>2, <1>4, <1>5, <2>1
<1>7. mResultSent' = over /\ (over /\ ~mResultSent) = over
  BY <1>1, <1>2
<1>8. World'
  <2>1. Due(mClock)' = Due(now)
    BY <1>3 DEF Due
  <2> QED
    BY <1>2, <1>3, <1>6, <1>7, <2>1 DEF World
<1>9. ASSUME NEW c \in Conns
      PROVE  mConnections'[c].closed
             \/ (Fits(mConnections'[c], to, now, TRUE, over)
                 /\ SamePeer(mConnections[c], mConnections'[c]))
  <2>1. dt \in Nat /\ AllFit
    BY ClockType DEF FramesInv
  <2>2. mConnections' = ToSpectators(ToDrivers(AfterClosing(dt), to, over), now, to, mResultSent)
    BY <1>2, <1>7
  <2>3. mTick \in Nat /\ mClock \in Int
    BY <1>1 DEF TypeOK, MaxClock, HostAssumption
  <2>4. FeedsWell(to, over, mResultSent, over) /\ ServesWell(to, now, mResultSent, over)
    <3>1. over = TRUE \/ over = FALSE
      OBVIOUS
    <3>2. /\ FeedsWell(to, FALSE, FALSE, FALSE) /\ FeedsWell(to, TRUE, FALSE, TRUE)
          /\ ServesWell(to, now, FALSE, FALSE) /\ ServesWell(to, now, FALSE, TRUE)
      BY <1>4, <1>5, <2>3, FedFits, ServedFits
    <3>3. mResultSent = FALSE
      BY <1>1
    <3> QED
      BY ONLY <3>1, <3>2, <3>3, Zenon
  <2> QED
    BY <1>1, <1>4, <1>5, <2>1, <2>2, <2>4, TicksFit
<1> QED
  BY <1>2, <1>3, <1>7, <1>8, <1>9 DEF FramesInv, AllFit

\* After the race nothing is left but what the spectators still wait for.
LEMMA AdvanceFinishedFrames ==
  ASSUME HostAssumption, TypeOK, FramesInv, NEW dt \in 0..MaxLag, AdvanceFinished(dt)
  PROVE  /\ FramesInv'
         /\ \A c \in Conns : mConnections'[c].closed \/ SamePeer(mConnections[c], mConnections'[c])
<1> DEFINE now == Least(mClock + dt, MaxClock)
<1>1. /\ mStarted = TRUE /\ mFinished = TRUE /\ mResultSent = TRUE /\ mTick \in Nat
      /\ mTick > 0 /\ mTick <= Due(mClock)
  BY DEF AdvanceFinished, TypeOK, FramesInv, World, HostAssumption
<1>2. /\ mClock' = now /\ mResultSent' = TRUE /\ mStarted' = TRUE /\ mTick' = mTick
      /\ mFinished' = TRUE
      /\ mConnections' = ToSpectators(ToDrivers(AfterClosing(dt), mTick, ~mResultSent),
                                      now, mTick, TRUE)
  BY <1>1 DEF AdvanceFinished
<1>3. now \in Int /\ mClock <= now /\ Due(mClock) <= Due(now)
  BY ClockGoesOn
<1>4. Due(mClock) \in Int /\ Due(now) \in Int
  <2>1. mClock \in Int
    BY DEF TypeOK, MaxClock, HostAssumption
  <2> HIDE DEF now
  <2> QED
    BY <1>3, <2>1 DEF Due
<1> HIDE DEF now
<1>5. World'
  <2>1. Due(mClock)' = Due(now)
    BY <1>2 DEF Due
  <2> QED
    BY <1>1, <1>2, <1>3, <1>4, <2>1 DEF World
<1>6. ASSUME NEW c \in Conns
      PROVE  mConnections'[c].closed
             \/ (Fits(mConnections'[c], mTick, now, TRUE, TRUE)
                 /\ SamePeer(mConnections[c], mConnections'[c]))
  <2>1. dt \in Nat /\ AllFit
    BY ClockType DEF FramesInv
  <2>2. mConnections' = ToSpectators(ToDrivers(AfterClosing(dt), mTick, FALSE), now, mTick, mResultSent)
    BY <1>1, <1>2
  <2>3. mClock \in Int /\ mTick <= mTick
    BY <1>1 DEF TypeOK, MaxClock, HostAssumption
  <2>4. FeedsWell(mTick, FALSE, mResultSent, TRUE) /\ ServesWell(mTick, now, mResultSent, TRUE)
    <3>1. FeedsWell(mTick, FALSE, TRUE, TRUE) /\ ServesWell(mTick, now, TRUE, TRUE)
      BY <1>1, <1>3, <2>3, FedFits, ServedFits
    <3>2. mResultSent = TRUE
      BY <1>1
    <3> QED
      BY ONLY <3>1, <3>2, Zenon
  <2> QED
    BY <1>1, <1>3, <2>1, <2>2, <2>3, <2>4, TicksFit
<1> QED
  BY <1>2, <1>5, <1>6 DEF FramesInv, AllFit

-----------------------------------------------------------------------------
(***************************************************************************)
(* The theorems.                                                           *)
(***************************************************************************)
\* A host starts with a race at tick 0 and nobody there.
LEMMA InitFrames ==
  ASSUME HostAssumption, Init
  PROVE  FramesInv
<1>1. World
  <2>1. mTick <= Due(mClock)
    BY DEF Init, Due
  <2>2. mTick = 0 /\ mFinished = FALSE /\ mResultSent = FALSE
    BY DEF Init
  <2> QED
    BY <2>1, <2>2 DEF World
<1>2. AllFit
  BY DEF Init, AllFit, NewConnection
<1> QED
  BY <1>1, <1>2 DEF FramesInv

\* Every step keeps the invariant.
LEMMA StepFrames ==
  ASSUME HostAssumption, SeatInv, SeatInv', FramesInv, [Next]_vars
  PROVE  FramesInv'
<1>0. TypeOK /\ Sitting
  BY SeatInvSeated DEF Sitting
<1>1. CASE Connect
  BY <1>0, <1>1, ConnectFrames
<1>2. ASSUME NEW c \in Conns, Drop(c) PROVE FramesInv'
  BY <1>2, CloseFrames DEF Drop, raceVars
<1>3. ASSUME NEW c \in Conns, HelloRefused(c) PROVE FramesInv'
  BY <1>3, CloseFrames DEF HelloRefused, raceVars
<1>4. ASSUME NEW c \in Conns, NEW asksHost \in BOOLEAN, HelloAccepted(c, asksHost) PROVE FramesInv'
  BY <1>4, HelloAcceptedFrames
<1>5. ASSUME NEW c \in Conns, HostStartsFull(c) PROVE FramesInv'
  BY <1>0, <1>5, HostStartsFullFrames
<1>6. ASSUME NEW c \in Conns, HostStartsFewer(c) PROVE FramesInv'
  BY <1>0, <1>6, HostStartsFewerFrames
<1>7. ASSUME NEW c \in Conns, HostStartFails(c) PROVE FramesInv'
  BY <1>7, CloseFrames DEF HostStartFails
<1>8. ASSUME NEW c \in Conns, NEW token, ResumeRefused(c, token) PROVE FramesInv'
  BY <1>8, CloseFrames DEF ResumeRefused, raceVars
<1>9. ASSUME NEW c \in Conns, NEW token, Resume(c, token) PROVE FramesInv'
  BY <1>0, <1>9, ResumeFrames
<1>10. ASSUME NEW c \in Conns, SpectateRefused(c) PROVE FramesInv'
  BY <1>10, CloseFrames DEF SpectateRefused, raceVars
<1>11. ASSUME NEW c \in Conns, Spectate(c) PROVE FramesInv'
  BY <1>11, SpectateFrames
<1>12. ASSUME NEW c \in Conns, SnapshotRequest(c) PROVE FramesInv'
  BY <1>12, SnapshotRequestFrames
<1>13. ASSUME NEW dt \in 0..MaxLag, AdvanceWaiting(dt) PROVE FramesInv'
  BY <1>0, <1>13, AdvanceWaitingFrames
<1>14. ASSUME NEW dt \in 0..MaxLag, AdvanceRunning(dt) PROVE FramesInv'
  BY <1>0, <1>14, AdvanceRunningFrames
<1>15. ASSUME NEW dt \in 0..MaxLag, AdvanceFinished(dt) PROVE FramesInv'
  BY <1>0, <1>15, AdvanceFinishedFrames
<1>16. CASE UNCHANGED vars
  <2>1. UNCHANGED <<mStarted, mClock, mTick, mFinished, mResultSent, mConnections>>
    BY <1>16 DEF vars, raceVars
  <2>2. \A c \in Conns : StillFits(c)
    BY <2>1 DEF StillFits
  <2> QED
    BY <2>1, <2>2, SameWorld
<1>17. CASE Receive
  BY <1>3, <1>4, <1>5, <1>6, <1>7, <1>8, <1>9, <1>10, <1>11, <1>12, <1>17 DEF Receive
<1>18. CASE Advance
  BY <1>13, <1>14, <1>15, <1>18 DEF Advance
<1> QED
  BY <1>1, <1>2, <1>16, <1>17, <1>18 DEF Next

\* The inductive invariant of what was sent always holds.
THEOREM FramesCorrect == ASSUME HostAssumption PROVE Spec => []FramesInv
<1>1. Init => FramesInv
  BY InitFrames
<1>2. SeatInv /\ SeatInv' /\ FramesInv /\ [Next]_vars => FramesInv'
  BY StepFrames
<1> QED
  BY <1>1, <1>2, SeatsCorrect, PTL DEF Spec

\* No Tick is skipped and none is sent twice, to a driver who was there from the
\* start, one who came back with a snapshot, or a spectator.
THEOREM WorldsCorrect == ASSUME HostAssumption PROVE Spec => []WorldsInStep
<1>1. SeatInv /\ FramesInv => WorldsInStep
  <2>1. ASSUME SeatInv, FramesInv, NEW c \in Drivers(mConnections)
        PROVE  mConnections[c].next \in
                 {mTick} \union (IF mConnections[c].start THEN {} ELSE {NoTick})
    <3>1. ~mConnections[c].closed /\ mConnections[c].player >= 0 /\ c \in Conns
      BY DEF Drivers, Open
    <3>2. Driven(mConnections[c], mTick, mStarted, mResultSent)
      BY <2>1, <3>1 DEF FramesInv, AllFit, Fits
    <3>3. ~mStarted => mConnections[c].next = NoTick /\ ~mConnections[c].start
      BY <3>2 DEF Driven
    <3>4. mStarted => mConnections[c].next = mTick
                      \/ (~mConnections[c].start /\ mConnections[c].next = NoTick)
      BY <3>2 DEF Driven
    <3> QED
      BY <3>3, <3>4
  <2>2. ASSUME FramesInv, NEW c \in Watchers(mConnections)
        PROVE  mConnections[c].next = mConnections[c].specCursor /\ mConnections[c].next <= mTick
    BY <2>2 DEF Watchers, Open, FramesInv, AllFit, Fits, Behind
  <2> QED
    BY <2>1, <2>2 DEF WorldsInStep
<1> QED
  BY <1>1, SeatsCorrect, FramesCorrect, PTL

\* A spectator sees nothing younger than the delay, whenever it comes and
\* whatever it asks for.
THEOREM BehindCorrect == ASSUME HostAssumption PROVE Spec => []SpectatorsBehind
<1>1. FramesInv => SpectatorsBehind
  BY DEF FramesInv, AllFit, Fits, Behind, SpectatorsBehind, Watchers, Open
<1> QED
  BY <1>1, FramesCorrect, PTL

\* The Result is sent once, after everything else.
THEOREM ResultCorrect == ASSUME HostAssumption PROVE Spec => []ResultLast
<1>1. FramesInv => ResultLast
  <2>1. ASSUME FramesInv, NEW c \in Drivers(mConnections), mConnections[c].start
        PROVE  mConnections[c].results = (IF mResultSent THEN 1 ELSE 0)
    BY <2>1 DEF Drivers, Open, FramesInv, AllFit, Fits, Driven
  <2>2. ASSUME FramesInv, NEW c \in Watchers(mConnections), mConnections[c].specResultSent
        PROVE  mResultSent /\ mConnections[c].next = mTick /\ Due(mClock) - SpecDelay >= mTick
    BY <2>2 DEF Watchers, Open, FramesInv, AllFit, Fits, Behind
  <2>3. FramesInv => (mResultSent => mFinished)
    BY DEF FramesInv, World
  <2> QED
    BY <2>1, <2>2, <2>3 DEF ResultLast
<1> QED
  BY <1>1, FramesCorrect, PTL

-----------------------------------------------------------------------------
(***************************************************************************)
(* The names of those who drive.                                           *)
(***************************************************************************)
\* With one driver per slot, NameOf finds the one there.
LEMMA NameFound ==
  ASSUME NEW conns, NEW c \in Drivers(conns),
         \A d, e \in Drivers(conns) : conns[d].player = conns[e].player => d = e
  PROVE  NameOf(conns, conns[c].player) = conns[c].name
<1> DEFINE holders == {d \in Drivers(conns) : conns[d].player = conns[c].player}
<1>1. holders = {c}
  OBVIOUS
<1>2. (CHOOSE d \in holders : TRUE) = c /\ holders # {}
  BY <1>1
<1> HIDE DEF holders
<1>3. NameOf(conns, conns[c].player) = conns[CHOOSE d \in holders : TRUE].name
  BY <1>2 DEF NameOf, holders
<1> QED
  BY <1>2, <1>3

\* When the race starts the drivers are listed by the slots they drive.
LEMMA StartNowNames ==
  ASSUME SlotsHeld', NEW conns, \A c \in Conns : conns[c] \in Connection', StartNow(conns),
         {mConnections'[c].player : c \in Drivers(mConnections)'} = 0..mPlayers' - 1
  PROVE  NamesMatch'
<1>1. ASSUME NEW c \in Conns
      PROVE  /\ mConnections'[c].closed = conns[c].closed
             /\ mConnections'[c].player = conns[c].player
             /\ mConnections'[c].name = conns[c].name
  <2>1. mConnections'[c] = conns[c] \/ mConnections'[c] = [conns[c] EXCEPT !.start = TRUE, !.next = 0]
    BY DEF StartNow, ToldStart
  <2>2. conns[c] \in Connection'
    OBVIOUS
  <2> QED
    BY <2>1, <2>2 DEF Connection
<1>2. Drivers(mConnections)' = Drivers(conns)
  BY <1>1 DEF Drivers, Open
<1>3. \A c, d \in Drivers(conns) : conns[c].player = conns[d].player => c = d
  <2>1. \A c, d \in Drivers(mConnections)' : mConnections'[c].player = mConnections'[d].player => c = d
    BY DEF SlotsHeld
  <2>2. Drivers(conns) \subseteq Conns
    BY DEF Drivers, Open
  <2> QED
    BY <1>1, <1>2, <2>1, <2>2
<1>4. ASSUME NEW c \in Drivers(mConnections)'
      PROVE  mSlotNames'[mConnections'[c].player] = mConnections'[c].name
  <2>1. c \in Conns /\ c \in Drivers(conns)
    BY <1>2, <1>4 DEF Drivers, Open
  <2>2. mConnections'[c].player \in 0..mPlayers' - 1
    BY <1>4
  <2>3. mSlotNames'[mConnections'[c].player] = NameOf(conns, mConnections'[c].player)
    BY <2>2 DEF StartNow
  <2>4. NameOf(conns, conns[c].player) = conns[c].name
    BY <1>3, <2>1, NameFound
  <2> QED
    BY <1>1, <2>1, <2>3, <2>4
<1> QED
  BY <1>4 DEF NamesMatch

\* A step that leaves the list, and those who were there from the start.
LEMMA SameNames ==
  ASSUME NamesMatch, mSlotNames' = mSlotNames,
         \A c \in Conns : \/ mConnections'[c].closed \/ ~mConnections'[c].start
                          \/ mConnections'[c] = mConnections[c]
                          \/ SamePeer(mConnections[c], mConnections'[c])
  PROVE  NamesMatch'
<1>1. ASSUME NEW c \in Drivers(mConnections)', mConnections'[c].start
      PROVE  mSlotNames[mConnections'[c].player] = mConnections'[c].name
  <2>1. c \in Conns /\ ~mConnections'[c].closed /\ mConnections'[c].player >= 0
    BY <1>1 DEF Drivers, Open
  <2>2. /\ ~mConnections[c].closed /\ mConnections[c].player = mConnections'[c].player
        /\ mConnections[c].start /\ mConnections[c].name = mConnections'[c].name
    BY <1>1, <2>1 DEF SamePeer
  <2>3. c \in Drivers(mConnections)
    BY <2>1, <2>2 DEF Drivers, Open
  <2> QED
    BY <2>2, <2>3 DEF NamesMatch
<1> QED
  BY <1>1 DEF NamesMatch

\* Who watches, returns or asks for a snapshot is not told Start, and keeps its name
\* if it was.
LEMMA NamesOfOthers ==
  ASSUME TypeOK, FramesInv, NamesMatch, NEW c \in Conns,
         Spectate(c) \/ SnapshotRequest(c) \/ \E token \in 0..mTokenState : Resume(c, token)
  PROVE  NamesMatch'
<1> DEFINE r == mConnections[c]
<1>1. r \in Connection /\ ~r.closed /\ DOMAIN mConnections = Conns
  BY DEF TypeOK, Spectate, SnapshotRequest, Resume, Waiting, Open
<1>2. ~r.helloDone => ~r.start
  BY <1>1 DEF FramesInv, AllFit, Fits, Silent
<1>3. mSlotNames' = mSlotNames
  BY DEF Spectate, SnapshotRequest, Resume, slotVars
<1>4. CASE Spectate(c)
  <2> DEFINE s == [r EXCEPT !.helloDone = TRUE, !.name = c, !.spectator = TRUE,
                            !.specCursor = SpectatorKeyframe, !.next = SpectatorKeyframe]
  <2>1. \A d \in Conns : mConnections'[d] = s \/ mConnections'[d] = mConnections[d]
    BY <1>1, <1>4 DEF Spectate
  <2>2. ~r.helloDone
    BY <1>4 DEF Spectate, Waiting
  <2>3. s.start = r.start
    BY <1>1 DEF Connection
  <2> HIDE DEF s
  <2> QED
    BY <1>2, <1>3, <2>1, <2>2, <2>3, SameNames
<1>5. ASSUME NEW token \in 0..mTokenState, Resume(c, token) PROVE NamesMatch'
  <2>1. PICK slot \in DOMAIN mTokens :
          mConnections' = [Closed(mConnections, Replaced(c, slot)) EXCEPT ![c] = Resumed(c, slot)]
    BY <1>5 DEF Resume, Owned
  <2> DEFINE s == Resumed(c, slot)
  <2>2. \A d \in Conns : mConnections'[d] = s \/ mConnections'[d].closed
                        \/ mConnections'[d] = mConnections[d]
    BY <2>1 DEF Closed, NewConnection
  <2>3. ~r.helloDone
    BY <1>5 DEF Resume, Waiting
  <2>4. s.start = r.start
    BY <1>1 DEF Resumed, Connection
  <2> HIDE DEF s
  <2> QED
    BY <1>2, <1>3, <2>2, <2>3, <2>4, SameNames
<1>6. CASE SnapshotRequest(c)
  <2> DEFINE s == [r EXCEPT !.specCursor = SpectatorKeyframe, !.specResultSent = FALSE,
                            !.next = SpectatorKeyframe]
             t == [r EXCEPT !.next = mTick]
  <2>1. mConnections' = [mConnections EXCEPT ![c] = s] \/ mConnections' = [mConnections EXCEPT ![c] = t]
    BY <1>1, <1>6 DEF SnapshotRequest
  <2>2. SamePeer(r, s) /\ SamePeer(r, t)
    BY <1>1 DEF Connection, SamePeer
  <2> HIDE DEF s, t
  <2>3. \A d \in Conns : \/ mConnections'[d] = mConnections[d]
                         \/ d = c /\ mConnections'[d] = s
                         \/ d = c /\ mConnections'[d] = t
    BY <1>1, <2>1
  <2>4. \A d \in Conns : \/ mConnections'[d] = mConnections[d]
                         \/ SamePeer(mConnections[d], mConnections'[d])
    BY <2>2, <2>3
  <2> QED
    BY <1>3, <2>4, SameNames
<1> QED
  BY <1>4, <1>5, <1>6

\* The names stay right: until the start nobody was told Start.
LEMMA StepNames ==
  ASSUME HostAssumption, SeatInv, SeatInv', FramesInv, FramesInv', NamesMatch, [Next]_vars
  PROVE  NamesMatch'
<1>0. /\ TypeOK /\ Sitting /\ TypeOK' /\ SlotsHeld'
      /\ mStarted \in BOOLEAN /\ mStarted' \in BOOLEAN
  BY SeatInvSeated DEF Sitting, SeatInv, TypeOK
<1>1. CASE mStarted' = FALSE
  <2>1. \A c \in Drivers(mConnections)' : ~mConnections'[c].start
    BY <1>1 DEF FramesInv, AllFit, Fits, Driven, Drivers, Open
  <2> QED
    BY <2>1 DEF NamesMatch
<1>2. ASSUME NEW c \in Conns, NEW asksHost \in BOOLEAN, HelloAccepted(c, asksHost), mStarted'
      PROVE  NamesMatch'
  <2> DEFINE conns == [mConnections EXCEPT ![c] = Accepted(c, FreeSlot, mTokenState + 1)]
  <2>1. StartNow(conns)
    BY <1>2 DEF HelloAccepted, Joinable
  <2>2. conns \in ConnectionMap'
    <3>1. /\ Joinable /\ ~mConnections[c].closed /\ mTokenState' = mTokenState + 1
          /\ mTokens' = [mTokens EXCEPT ![FreeSlot] = mTokenState + 1]
      BY <1>2 DEF HelloAccepted, Waiting, Open
    <3> QED
      BY <1>0, <3>1, HelloSits
  <2>3. {mConnections'[d].player : d \in Drivers(mConnections)'} = 0..mPlayers' - 1
    BY <1>0, <1>2, HelloAcceptedStep
  <2> HIDE DEF conns
  <2>4. \A d \in Conns : conns[d] \in Connection'
    BY <2>2 DEF ConnectionMap
  <2> QED
    BY <1>0, <2>1, <2>3, <2>4, StartNowNames
<1>3. ASSUME NEW c \in Conns, HostStartsFull(c) PROVE NamesMatch'
  <2>1. StartNow(mConnections) /\ mTokenState' = mTokenState
    BY <1>3 DEF HostStartsFull
  <2>2. \A d \in Conns : mConnections[d] \in Connection'
    BY <1>0, <2>1 DEF TypeOK, Connection, Token
  <2>3. {mConnections'[d].player : d \in Drivers(mConnections)'} = 0..mPlayers' - 1
    BY <1>0, <1>3, HostStartsFullStep
  <2> QED
    BY <1>0, <2>1, <2>2, <2>3, StartNowNames
<1>4. ASSUME NEW c \in Conns, HostStartsFewer(c) PROVE NamesMatch'
  <2> DEFINE conns == [d \in Conns |-> IF d \in Drivers(mConnections) THEN Renumbered(d)
                                      ELSE mConnections[d]]
  <2>1. StartNow(conns)
    BY <1>4 DEF HostStartsFewer
  <2>2. /\ {mConnections'[d].player : d \in Drivers(mConnections)'} = 0..mPlayers' - 1
        /\ \A d \in Drivers(mConnections) : Renumbered(d) \in Connection'
    BY <1>0, <1>4, HostStartsFewerStep
  <2>3. \A d \in Conns : mConnections[d] \in Connection'
    BY <1>0, <1>4, TokensGrow
  <2>4. \A d \in Conns : conns[d] \in Connection'
    BY <2>2, <2>3
  <2> HIDE DEF conns
  <2> QED
    BY <1>0, <2>1, <2>2, <2>4, StartNowNames
<1>5. ASSUME NEW which, mConnections' = Closed(mConnections, which), mSlotNames' = mSlotNames
      PROVE  NamesMatch'
  <2>1. \A c \in Conns : mConnections'[c].closed \/ mConnections'[c] = mConnections[c]
    BY <1>5 DEF Closed, NewConnection
  <2> QED
    BY <1>5, <2>1, SameNames
<1>6. ASSUME NEW c \in Conns,
             Drop(c) \/ HelloRefused(c) \/ SpectateRefused(c) \/ HostStartFails(c)
             \/ \E token \in 0..mTokenState : ResumeRefused(c, token)
      PROVE  NamesMatch'
  BY <1>5, <1>6 DEF Drop, HelloRefused, SpectateRefused, HostStartFails, ResumeRefused, slotVars
<1>7. CASE Connect
  <2>1. \A c \in Conns : ~mConnections'[c].start \/ mConnections'[c] = mConnections[c]
    BY <1>0, <1>7 DEF Connect, NewConnection, TypeOK
  <2>2. mSlotNames' = mSlotNames
    BY <1>7 DEF Connect, slotVars
  <2> QED
    BY <2>1, <2>2, SameNames
<1>8. ASSUME NEW c \in Conns,
             Spectate(c) \/ SnapshotRequest(c) \/ \E token \in 0..mTokenState : Resume(c, token)
      PROVE  NamesMatch'
  BY <1>0, <1>8, NamesOfOthers
<1>9. ASSUME NEW dt \in 0..MaxLag, AdvanceWaiting(dt) PROVE NamesMatch'
  <2>1. \A c \in Conns : mConnections'[c].closed \/ SamePeer(mConnections[c], mConnections'[c])
    BY <1>0, <1>9, ClockType, AfterClosingFrames DEF AdvanceWaiting, SameFrames, SamePeer
  <2>2. mSlotNames' = mSlotNames
    BY <1>9 DEF AdvanceWaiting
  <2> QED
    BY <2>1, <2>2, SameNames
<1>10. ASSUME NEW dt \in 0..MaxLag, AdvanceRunning(dt) PROVE NamesMatch'
  <2>1. \A c \in Conns : mConnections'[c].closed \/ SamePeer(mConnections[c], mConnections'[c])
    BY <1>0, <1>10, AdvanceRunningFrames
  <2>2. mSlotNames' = mSlotNames
    BY <1>10 DEF AdvanceRunning, slotVars
  <2> QED
    BY <2>1, <2>2, SameNames
<1>11. ASSUME NEW dt \in 0..MaxLag, AdvanceFinished(dt) PROVE NamesMatch'
  <2>1. \A c \in Conns : mConnections'[c].closed \/ SamePeer(mConnections[c], mConnections'[c])
    BY <1>0, <1>11, AdvanceFinishedFrames
  <2>2. mSlotNames' = mSlotNames
    BY <1>11 DEF AdvanceFinished, slotVars
  <2> QED
    BY <2>1, <2>2, SameNames
<1>12. CASE UNCHANGED vars
  BY <1>12, SameNames DEF vars, slotVars
<1>13. CASE Receive /\ mStarted' = TRUE
  BY <1>2, <1>3, <1>4, <1>6, <1>8, <1>13 DEF Receive
<1>14. CASE Advance
  BY <1>9, <1>10, <1>11, <1>14 DEF Advance
<1> QED
  BY <1>0, <1>1, <1>6, <1>7, <1>12, <1>13, <1>14 DEF Next

\* A driver who was there at the start is listed, by name, in the slot it drives:
\* what the replay, the result and the league go by.
THEOREM NamesCorrect == ASSUME HostAssumption PROVE Spec => []NamesMatch
<1>1. Init => NamesMatch
  BY DEF Init, NamesMatch, Drivers, Open, NewConnection
<1>2. SeatInv /\ SeatInv' /\ FramesInv /\ FramesInv' /\ NamesMatch /\ [Next]_vars => NamesMatch'
  BY StepNames
<1> QED
  BY <1>1, <1>2, SeatsCorrect, FramesCorrect, PTL DEF Spec

-----------------------------------------------------------------------------
(***************************************************************************)
(* Rooms.                                                                  *)
(***************************************************************************)
RoomType ==
  [drivers : SUBSET Conns, watchers : SUBSET Conns, seats : Nat,
   started : BOOLEAN, finished : BOOLEAN]

\* A room with other drivers.
LEMMA OtherDrivers ==
  ASSUME NEW r \in RoomType, NEW s \in RoomType,
         s.watchers = r.watchers,
         s.seats = r.seats,
         s.started = r.started,
         s.finished = r.finished
  PROVE  s = [r EXCEPT !.drivers = s.drivers]
BY DEF RoomType

\* A room with other watchers.
LEMMA OtherWatchers ==
  ASSUME NEW r \in RoomType, NEW s \in RoomType,
         s.drivers = r.drivers,
         s.seats = r.seats,
         s.started = r.started,
         s.finished = r.finished
  PROVE  s = [r EXCEPT !.watchers = s.watchers]
BY DEF RoomType

\* A room whose race is over.
LEMMA OtherFinished ==
  ASSUME NEW r \in RoomType, NEW s \in RoomType,
         s.drivers = r.drivers,
         s.watchers = r.watchers,
         s.seats = r.seats,
         s.started = r.started
  PROVE  s = [r EXCEPT !.finished = s.finished]
BY DEF RoomType

\* A room with other drivers that may have started.
LEMMA OtherStart ==
  ASSUME NEW r \in RoomType, NEW s \in RoomType,
         s.watchers = r.watchers,
         s.seats = r.seats,
         s.finished = r.finished
  PROVE  s = [r EXCEPT !.drivers = s.drivers, !.started = s.started]
BY DEF RoomType

\* A room with other drivers and watchers.
LEMMA OtherMembers ==
  ASSUME NEW r \in RoomType, NEW s \in RoomType,
         s.seats = r.seats,
         s.started = r.started,
         s.finished = r.finished
  PROVE  s = [r EXCEPT !.drivers = s.drivers, !.watchers = s.watchers]
BY DEF RoomType

\* A room with other seats that may have started.
LEMMA OtherSeats ==
  ASSUME NEW r \in RoomType, NEW s \in RoomType,
         s.drivers = r.drivers,
         s.watchers = r.watchers,
         s.finished = r.finished
  PROVE  s = [r EXCEPT !.seats = s.seats, !.started = s.started]
BY DEF RoomType

\* A room with other seats and drivers.
LEMMA OtherSent ==
  ASSUME NEW r \in RoomType, NEW s \in RoomType,
         s.watchers = r.watchers,
         s.started = r.started,
         s.finished = r.finished
  PROVE  s = [r EXCEPT !.seats = s.seats, !.drivers = s.drivers]
BY DEF RoomType

\* A room counts its drivers as the host does.
LEMMA RoomCounts ==
  ASSUME NEW S
  PROVE  Abstract!Cardinality(S) = Cardinality(S)
BY Zenon DEF Abstract!Cardinality, Cardinality

\* A room in which nothing differs.
LEMMA SameRoom ==
  ASSUME NEW r \in RoomType, NEW s \in RoomType,
         s.drivers = r.drivers, s.watchers = r.watchers, s.seats = r.seats,
         s.started = r.started, s.finished = r.finished
  PROVE  s = r
BY DEF RoomType

\* What the lobby sees of a race, as a room.
LEMMA Seen ==
  ASSUME HostAssumption, TypeOK
  PROVE  /\ SeenRoom \in RoomType
         /\ SeenRoom.drivers = Drivers(mConnections) /\ SeenRoom.watchers = Watchers(mConnections)
         /\ SeenRoom.seats = mPlayers /\ SeenRoom.started = mStarted
         /\ SeenRoom.finished = mFinished
<1>1. Drivers(mConnections) \subseteq Conns /\ Watchers(mConnections) \subseteq Conns
  BY DEF Drivers, Watchers, Open
<1>2. mPlayers \in Nat /\ mStarted \in BOOLEAN /\ mFinished \in BOOLEAN
  BY DEF TypeOK, HostAssumption
<1> QED
  BY <1>1, <1>2 DEF SeenRoom, RoomType

\* The same after a step.
LEMMA SeenNext ==
  ASSUME HostAssumption, TypeOK'
  PROVE  /\ SeenRoom' \in RoomType
         /\ SeenRoom'.drivers = Drivers(mConnections') /\ SeenRoom'.watchers = Watchers(mConnections')
         /\ SeenRoom'.seats = mPlayers' /\ SeenRoom'.started = mStarted'
         /\ SeenRoom'.finished = mFinished'
<1>1. Drivers(mConnections') \subseteq Conns /\ Watchers(mConnections') \subseteq Conns
  BY DEF Drivers, Watchers, Open
<1>2. mPlayers' \in Nat /\ mStarted' \in BOOLEAN /\ mFinished' \in BOOLEAN
  BY DEF TypeOK, HostAssumption
<1> QED
  BY <1>1, <1>2 DEF SeenRoom, RoomType

-----------------------------------------------------------------------------
(***************************************************************************)
(* Who is in the room.                                                     *)
(***************************************************************************)
\* A connection counts as it did.
SamePlace(r, s) == s.closed = r.closed /\ s.player = r.player /\ s.spectator = r.spectator

LEMMA SamePlaces ==
  ASSUME NEW a, NEW b, \A c \in Conns : SamePlace(a[c], b[c])
  PROVE  Drivers(b) = Drivers(a) /\ Watchers(b) = Watchers(a)
BY DEF SamePlace, Drivers, Watchers, Open

\* Closing connections takes them, and nobody else, out of the room.
LEMMA ClosedMembers ==
  ASSUME NEW conns, NEW which
  PROVE  /\ Drivers(Closed(conns, which)) = Drivers(conns) \ which
         /\ Watchers(Closed(conns, which)) = Watchers(conns) \ which
BY DEF Closed, Drivers, Watchers, Open, NewConnection

\* Nobody both drives and watches, and who has not said Hello does neither.
LEMMA Apart ==
  ASSUME SeatInv, FramesInv
  PROVE  /\ Drivers(mConnections) \intersect Watchers(mConnections) = {}
         /\ \A c \in Conns : Waiting(c) =>
              c \notin Drivers(mConnections) /\ c \notin Watchers(mConnections)
<1>1. \A c \in Open(mConnections) :
        Fits(mConnections[c], mTick, mClock, mStarted, mResultSent)
  BY DEF FramesInv, AllFit, Open
<1>2. \A c \in Open(mConnections) : mConnections[c].spectator => ~(mConnections[c].player >= 0)
  BY <1>1 DEF Fits, Behind, NoPlayer
<1>3. \A c \in Open(mConnections) : ~mConnections[c].helloDone =>
        ~mConnections[c].spectator /\ ~(mConnections[c].player >= 0)
  BY <1>1 DEF Fits, Silent, NoPlayer
<1> QED
  BY <1>2, <1>3 DEF Drivers, Watchers, Waiting

\* What Advance closes: the drivers of a room whose host left, and the silent.
LEMMA AfterClosingMembers ==
  ASSUME HostAssumption, SeatInv, FramesInv, NEW dt \in Nat
  PROVE  /\ Watchers(AfterClosing(dt)) = Watchers(mConnections)
         /\ Drivers(AfterClosing(dt)) = IF HostLeft THEN {} ELSE Drivers(mConnections)
<1> DEFINE sentAway == IF HostLeft THEN Drivers(mConnections) ELSE {}
           one == Closed(mConnections, sentAway)
           two == Closed(one, Expired(one, dt))
<1>1. mConnections \in ConnectionMap /\ mTokenState \in Nat
  BY SeatInvFacts
<1>2. Drivers(one) = Drivers(mConnections) \ sentAway /\ Watchers(one) = Watchers(mConnections)
  <2>1. /\ Drivers(one) = Drivers(mConnections) \ sentAway
        /\ Watchers(one) = Watchers(mConnections) \ sentAway
    BY ClosedMembers
  <2>2. sentAway \intersect Watchers(mConnections) = {}
    BY Apart
  <2> HIDE DEF sentAway, one
  <2> QED
    BY <2>1, <2>2
<1>3. one \in ConnectionMap /\ \A c \in Conns : one[c] = mConnections[c] \/ one[c].closed
  BY <1>1, ClosedKept DEF Closed, NewConnection
<1> HIDE DEF one
<1>4. \A c \in Expired(one, dt) : c \notin Drivers(one) /\ c \notin Watchers(one)
  <2> SUFFICES ASSUME NEW c \in Expired(one, dt)
               PROVE  c \notin Drivers(one) /\ c \notin Watchers(one)
    OBVIOUS
  <2>1. c \in Conns /\ ~one[c].closed /\ ~one[c].helloDone
    BY DEF Expired, Open
  <2>2. one[c] = mConnections[c] /\ Waiting(c)
    BY <1>3, <2>1 DEF Waiting, Open
  <2>3. c \notin Drivers(mConnections) /\ c \notin Watchers(mConnections)
    BY <2>1, <2>2, Apart
  <2> QED
    BY <1>2, <2>3
<1>5. Drivers(two) = Drivers(one) /\ Watchers(two) = Watchers(one)
  <2>1. /\ Drivers(two) = Drivers(one) \ Expired(one, dt)
        /\ Watchers(two) = Watchers(one) \ Expired(one, dt)
    BY ClosedMembers
  <2> HIDE DEF two
  <2> QED
    BY <1>4, <2>1
<1>6. two \in ConnectionMap
  BY <1>1, <1>3, ClosedKept
<1> HIDE DEF two
<1>7. \A c \in Conns : SamePlace(two[c], Aged(two, dt)[c])
  <2> SUFFICES ASSUME NEW c \in Conns PROVE SamePlace(two[c], Aged(two, dt)[c])
    OBVIOUS
  <2>1. two[c] \in Connection
    BY <1>6 DEF ConnectionMap
  <2>2. \/ Aged(two, dt)[c] = [two[c] EXCEPT !.age = 0]
        \/ Aged(two, dt)[c] = [two[c] EXCEPT !.age = Least(two[c].age + dt, HelloTimeout)]
    BY DEF Aged
  <2> QED
    BY <2>1, <2>2 DEF SamePlace, Connection
<1>8. AfterClosing(dt) = Aged(two, dt)
  BY DEF AfterClosing, two, one
<1>9. Drivers(AfterClosing(dt)) = Drivers(two) /\ Watchers(AfterClosing(dt)) = Watchers(two)
  BY <1>7, <1>8, SamePlaces
<1> QED
  BY <1>2, <1>5, <1>9

\* Serving a spectator leaves it one.
LEMMA ServedPlace ==
  ASSUME HostAssumption, NEW r \in Connection, NEW clock \in Int, NEW tick \in 0..RaceLimit,
         NEW sent \in BOOLEAN
  PROVE  SamePlace(r, Served(r, clock, tick, sent))
<1> DEFINE allowed == Allowed(clock, tick)
           cursor == IF r.specCursor < allowed THEN allowed ELSE r.specCursor
           ticks  == [r EXCEPT !.specCursor = cursor,
                               !.next = IF r.next = r.specCursor THEN cursor ELSE r.next]
           s == [ticks EXCEPT !.specResultSent = TRUE]
<1>1. SamePlace(r, ticks) /\ SamePlace(ticks, s) /\ SamePlace(s, Result(s))
  BY DEF SamePlace, Connection, Result
<1>2. Served(r, clock, tick, sent) = ticks \/ Served(r, clock, tick, sent) = Result(s)
  BY DEF Served
<1> HIDE DEF ticks, s
<1> QED
  BY <1>1, <1>2 DEF SamePlace

\* Ticks and the Result take nobody in or out.
LEMMA SentPlaces ==
  ASSUME HostAssumption, NEW conns \in ConnectionMap, NEW to \in 0..RaceLimit,
         NEW finishing \in BOOLEAN, NEW clock \in Int, NEW sent \in BOOLEAN,
         NEW after, after = ToSpectators(ToDrivers(conns, to, finishing), clock, to, sent)
  PROVE  Drivers(after) = Drivers(conns) /\ Watchers(after) = Watchers(conns)
<1> DEFINE fed == ToDrivers(conns, to, finishing)
<1>0. after = ToSpectators(fed, clock, to, sent)
  OBVIOUS
<1>1. ASSUME NEW r \in Connection
      PROVE  /\ SamePlace(r, Result(r))
             /\ SamePlace(r, [r EXCEPT !.next = to])
             /\ \A k, n : SamePlace(r, [r EXCEPT !.specCursor = k, !.next = n])
             /\ SamePlace(r, [r EXCEPT !.specResultSent = TRUE])
  BY DEF SamePlace, Connection, Result
<1>2. \A c \in Conns : conns[c] \in Connection
  BY DEF ConnectionMap
<1>3. fed \in ConnectionMap
  BY ToDriversKept
<1>4. \A c \in Conns : SamePlace(conns[c], fed[c])
  <2> SUFFICES ASSUME NEW c \in Conns PROVE SamePlace(conns[c], fed[c])
    OBVIOUS
  <2> DEFINE r == conns[c]
             t == IF r.next = mTick THEN [r EXCEPT !.next = to] ELSE r
  <2>1. r \in Connection
    BY <1>2
  <2>2. to \in NoTick..RaceLimit
    BY DEF NoTick, HostAssumption
  <2>3. t \in Connection /\ SamePlace(r, t)
    <3> HIDE DEF r
    <3> QED
      BY <2>1, <2>2 DEF SamePlace, Connection
  <2>4. fed[c] = r \/ fed[c] = t \/ fed[c] = Result(t)
    BY DEF ToDrivers
  <2> HIDE DEF t, fed
  <2>5. SamePlace(t, Result(t))
    BY <1>1, <2>3
  <2> QED
    BY <2>3, <2>4, <2>5 DEF SamePlace
<1> HIDE DEF fed
<1>5. \A c \in Conns : SamePlace(fed[c], after[c])
  <2> SUFFICES ASSUME NEW c \in Conns PROVE SamePlace(fed[c], after[c])
    OBVIOUS
  <2>1. fed[c] \in Connection
    BY <1>3 DEF ConnectionMap
  <2>2. after[c] = fed[c] \/ after[c] = Served(fed[c], clock, to, sent)
    BY <1>0 DEF ToSpectators
  <2> DEFINE s == Served(fed[c], clock, to, sent)
  <2>3. SamePlace(fed[c], s)
    BY <2>1, ServedPlace
  <2> QED
    BY <2>2, <2>3 DEF SamePlace
<1>6. \A c \in Conns : SamePlace(conns[c], after[c])
  BY <1>4, <1>5 DEF SamePlace
<1> QED
  BY <1>6, SamePlaces

\* Start takes nobody in or out.
LEMMA ToldStartPlaces ==
  ASSUME NEW conns, \A c \in Conns : conns[c] \in Connection'
  PROVE  /\ Drivers(ToldStart(conns)) = Drivers(conns)
         /\ Watchers(ToldStart(conns)) = Watchers(conns)
<1>1. \A c \in Conns : SamePlace(conns[c], ToldStart(conns)[c])
  BY DEF ToldStart, SamePlace, Connection
<1> QED
  BY <1>1, SamePlaces

-----------------------------------------------------------------------------
(***************************************************************************)
(* The steps of the host that are steps of a room.                         *)
(***************************************************************************)
RoomStep == Abstract!Next \/ SeenRoom' = SeenRoom

\* Nobody came or went, and nothing else shows.
LEMMA StaysStep ==
  ASSUME HostAssumption, TypeOK, TypeOK',
         Drivers(mConnections') = Drivers(mConnections),
         Watchers(mConnections') = Watchers(mConnections),
         UNCHANGED <<mPlayers, mStarted, mFinished>>
  PROVE  RoomStep
<1>1. SeenRoom' = SeenRoom
  BY Seen, SeenNext, SameRoom
<1> QED
  BY <1>1 DEF RoomStep

\* One connection is out of the room.
LEMMA PartsStep ==
  ASSUME HostAssumption, TypeOK, TypeOK', NEW c \in Conns,
         Drivers(mConnections') = Drivers(mConnections) \ {c},
         Watchers(mConnections') = Watchers(mConnections) \ {c},
         UNCHANGED <<mPlayers, mStarted, mFinished>>
  PROVE  RoomStep
<1> DEFINE r == SeenRoom
           t == SeenRoom'
<1>1. r \in RoomType /\ t \in RoomType /\ t.seats = r.seats
  BY Seen, SeenNext
<1>2. t.started = r.started /\ t.finished = r.finished
  BY Seen, SeenNext
<1>3. t.drivers = r.drivers \ {c} /\ t.watchers = r.watchers \ {c}
  BY Seen, SeenNext
<1> HIDE DEF r, t
<1>4. t = [r EXCEPT !.drivers = t.drivers, !.watchers = t.watchers]
  BY ONLY <1>1, <1>2, OtherMembers
<1>5. t = Abstract!Parted(r, c)
  BY <1>3, <1>4 DEF Abstract!Parted
<1> QED
  BY <1>5 DEF r, t, RoomStep, Abstract!Next, Abstract!Part

\* Connect: the new connection has no place yet.
LEMMA ConnectRoom ==
  ASSUME HostAssumption, TypeOK, TypeOK', Connect
  PROVE  RoomStep
<1> DEFINE new == [NewConnection EXCEPT !.closed = FALSE]
<1>1. mNextId \in Conns /\ mConnections \in [Conns -> Connection]
  BY DEF TypeOK, Connect, Conns, HostAssumption
<1>2. ~(new.player >= 0) /\ ~new.spectator
  BY DEF NewConnection, NoPlayer
<1>3. mConnections' = [mConnections EXCEPT ![mNextId] = new]
  BY DEF Connect
<1> HIDE DEF new
<1>4. /\ Drivers(mConnections') = Drivers(mConnections) \ {mNextId}
      /\ Watchers(mConnections') = Watchers(mConnections) \ {mNextId}
  BY <1>1, <1>2, <1>3 DEF Drivers, Watchers, Open
<1>5. UNCHANGED <<mPlayers, mStarted, mFinished>>
  BY DEF Connect, slotVars, raceVars
<1> QED
  BY <1>1, <1>4, <1>5, PartsStep

\* A lost connection, and the three refusals.
LEMMA CloseRoom ==
  ASSUME HostAssumption, TypeOK, TypeOK', NEW c \in Conns,
         mConnections' = Closed(mConnections, {c}),
         UNCHANGED <<mPlayers, mStarted, mFinished>>
  PROVE  RoomStep
BY ClosedMembers, PartsStep

\* Hello: a new driver, and the start if it fills the race and nobody is waited for.
LEMMA HelloRoom ==
  ASSUME HostAssumption, SeatInv, SeatInv', FramesInv, NEW c \in Conns,
         NEW asksHost \in BOOLEAN, HelloAccepted(c, asksHost)
  PROVE  RoomStep
<1> DEFINE slot  == FreeSlot
           token == mTokenState + 1
           s     == Accepted(c, slot, token)
           conns == [mConnections EXCEPT ![c] = s]
<1>1. /\ TypeOK /\ TypeOK' /\ Sitting /\ Joinable /\ Waiting(c) /\ mStarted = FALSE
      /\ ~mConnections[c].closed /\ mPlayers' = mPlayers /\ mFinished' = mFinished
      /\ mTokenState' = token /\ mTokens' = [mTokens EXCEPT ![slot] = token]
  BY SeatInvSeated DEF HelloAccepted, Joinable, Waiting, Open, Sitting, SeatInv, TypeOK, raceVars
<1>2. \/ StartNow(conns) /\ BeginsFull(conns)
      \/ mConnections' = conns /\ mStarted' = mStarted /\ ~BeginsFull(conns)
  BY DEF HelloAccepted
<1>3. conns \in ConnectionMap'
  BY <1>1, HelloSits
<1>4. slot >= 0
  BY <1>1, FreeSlotFacts, SeatInvFacts DEF Slots
<1>5. c \notin Drivers(mConnections) /\ c \notin Watchers(mConnections)
  BY <1>1, Apart
<1>6. mConnections[c] \in Connection /\ mConnections \in [Conns -> Connection]
  BY <1>1 DEF TypeOK
<1> HIDE DEF slot, token
<1>7. ~s.closed /\ s.player = slot /\ s.spectator = mConnections[c].spectator
  BY <1>1, <1>6 DEF Accepted, Connection
<1> HIDE DEF s
<1>8. \A d \in Conns : conns[d] = IF d = c THEN s ELSE mConnections[d]
  BY <1>6
<1> HIDE DEF conns
<1>9. /\ Drivers(conns) = Drivers(mConnections) \union {c}
      /\ Watchers(conns) = Watchers(mConnections)
  BY <1>1, <1>4, <1>5, <1>7, <1>8 DEF Drivers, Watchers, Open
<1>10. \A d \in Conns : conns[d] \in Connection'
  BY <1>3 DEF ConnectionMap
<1>11. /\ Drivers(mConnections') = Drivers(mConnections) \union {c}
       /\ Watchers(mConnections') = Watchers(mConnections)
  BY <1>2, <1>9, <1>10, ToldStartPlaces DEF StartNow
<1>12. /\ mStarted' = TRUE \/ mStarted' = FALSE
       /\ mStarted' => Cardinality(Drivers(mConnections')) >= mPlayers
       /\ Cardinality(Drivers(mConnections')) >= mPlayers /\ mPlayers = 1 => mStarted'
  BY <1>1, <1>2, <1>9, <1>11 DEF BeginsFull, StartNow
<1>13. Cardinality(Drivers(mConnections)) < mPlayers
  <2>1. Cardinality(Drivers(mConnections)) \in Nat
    BY <1>1, SeatInvFacts, DriversCounted DEF Sitting
  <2> QED
    BY <1>1, <2>1, SeatInvFacts DEF Joinable, Full, ConnectedPlayers
<1> DEFINE r == SeenRoom
           t == SeenRoom'
<1>14. /\ r \in RoomType /\ r.drivers = Drivers(mConnections)
       /\ r.watchers = Watchers(mConnections) /\ r.seats = mPlayers
       /\ r.started = mStarted /\ r.finished = mFinished
  BY <1>1, Seen
<1>15. /\ t \in RoomType /\ t.drivers = Drivers(mConnections')
       /\ t.watchers = Watchers(mConnections') /\ t.seats = mPlayers'
       /\ t.started = mStarted' /\ t.finished = mFinished'
  BY <1>1, SeenNext
<1> HIDE DEF r, t
<1>16. t = [r EXCEPT !.drivers = t.drivers, !.started = t.started]
  <2>1. t.watchers = r.watchers /\ t.seats = r.seats
    BY <1>1, <1>11, <1>14, <1>15
  <2>2. t.finished = r.finished
    BY ONLY <1>1, <1>14, <1>15, Zenon
  <2>3. r \in RoomType /\ t \in RoomType
    BY <1>14, <1>15
  <2> QED
    BY ONLY <2>1, <2>2, <2>3, OtherStart
<1>17. t \in Abstract!Entered(r, c)
  <2>1. t.drivers = r.drivers \union {c} /\ t.started \in BOOLEAN
    BY <1>11, <1>12, <1>14, <1>15
  <2>2. /\ t.started => Cardinality(t.drivers) >= r.seats
        /\ Cardinality(t.drivers) >= r.seats /\ r.seats = 1 => t.started
    BY <1>12, <1>14, <1>15
  <2> QED
    BY <1>16, <2>1, <2>2, RoomCounts DEF Abstract!Entered
<1>18. Abstract!MayEnter(r) /\ c \notin Abstract!Members(r)
  BY <1>1, <1>5, <1>13, <1>14, RoomCounts DEF Abstract!MayEnter, Abstract!Members
<1> QED
  BY <1>17, <1>18 DEF RoomStep, Abstract!Next, Abstract!Enter, r, t

\* Both ways of StartRace to start: the seats are as many as those there.
LEMMA BeginsStep ==
  ASSUME HostAssumption, TypeOK, TypeOK', mStarted = FALSE, Drivers(mConnections) # {},
         Drivers(mConnections') = Drivers(mConnections),
         Watchers(mConnections') = Watchers(mConnections),
         mPlayers' = Cardinality(Drivers(mConnections)), mStarted' = TRUE,
         UNCHANGED mFinished
  PROVE  RoomStep
<1> DEFINE r == SeenRoom
           t == SeenRoom'
<1>1. r \in RoomType /\ t \in RoomType
  BY Seen, SeenNext
<1>2. t.drivers = r.drivers /\ t.watchers = r.watchers
  BY Seen, SeenNext
<1>3. t.finished = r.finished /\ t.started = TRUE /\ r.started = FALSE
  BY Seen, SeenNext
<1>4. t.seats = Abstract!Cardinality(r.drivers) /\ r.drivers # {}
  BY Seen, SeenNext, RoomCounts
<1> HIDE DEF r, t
<1>5. t = [r EXCEPT !.seats = t.seats, !.started = t.started]
  BY ONLY <1>1, <1>2, <1>3, OtherSeats
<1>6. t \in Abstract!Begun(r)
  BY <1>3, <1>4, <1>5 DEF Abstract!Begun
<1>7. Abstract!MayBegin(r)
  BY <1>3, <1>4 DEF Abstract!MayBegin
<1> QED
  BY <1>6, <1>7 DEF RoomStep, Abstract!Next, Abstract!Begin, r, t

\* StartRace with every seat taken.
LEMMA HostStartsFullRoom ==
  ASSUME HostAssumption, SeatInv, SeatInv', NEW c \in Conns, HostStartsFull(c)
  PROVE  RoomStep
<1>1. TypeOK /\ TypeOK' /\ mStarted = FALSE /\ c \in Drivers(mConnections)
  BY DEF HostStartsFull, MayHostStart, SeatInv, TypeOK, Drivers
<1>2. /\ StartNow(mConnections) /\ mPlayers' = Cardinality(Drivers(mConnections))
      /\ mFinished' = mFinished /\ mTokenState' = mTokenState
  BY DEF HostStartsFull, ConnectedPlayers, raceVars
<1>3. \A d \in Conns : mConnections[d] \in Connection'
  BY <1>1, <1>2 DEF TypeOK, Connection, Token
<1>4. /\ Drivers(mConnections') = Drivers(mConnections)
      /\ Watchers(mConnections') = Watchers(mConnections)
  BY <1>2, <1>3, ToldStartPlaces DEF StartNow
<1> QED
  BY <1>1, <1>2, <1>4, BeginsStep DEF StartNow

\* StartRace with empty seats: the slots are numbered again, nobody comes or goes.
LEMMA HostStartsFewerRoom ==
  ASSUME HostAssumption, SeatInv, SeatInv', NEW c \in Conns, HostStartsFewer(c)
  PROVE  RoomStep
<1> DEFINE here == Drivers(mConnections)
           conns == [d \in Conns |-> IF d \in here THEN Renumbered(d) ELSE mConnections[d]]
<1>1. TypeOK /\ TypeOK' /\ Sitting /\ mStarted = FALSE /\ c \in here
  <2>1. TypeOK /\ TypeOK' /\ Sitting
    BY SeatInvSeated DEF SeatInv, Sitting
  <2>2. mStarted = FALSE
    BY <2>1, Zenon DEF HostStartsFewer, MayHostStart, TypeOK
  <2>3. c \in here
    BY DEF HostStartsFewer, MayHostStart, Drivers
  <2> QED
    BY <2>1, <2>2, <2>3
<1>2. /\ StartNow(conns) /\ mPlayers' = Cardinality(here) /\ mFinished' = mFinished
      /\ mTokenState' = mTokenState + ConnectedPlayers
  BY DEF HostStartsFewer, ConnectedPlayers
<1>3. \A d \in here : Renumbered(d) \in Connection'
  BY <1>1, HostStartsFewerStep
<1>4. \A d \in Conns : mConnections[d] \in Connection'
  BY <1>1, <1>2, TokensGrow
<1>5. IsFiniteSet(here)
  BY <1>1, SeatInvFacts, DriversCounted DEF Sitting
<1>6. ASSUME NEW d \in here
      PROVE  /\ ~Renumbered(d).closed /\ Renumbered(d).player >= 0
             /\ Renumbered(d).spectator = mConnections[d].spectator
  <2>1. NewSlot(d) \in Nat
    <3> DEFINE lower == {e \in here : mConnections[e].player < mConnections[d].player}
    <3>1. IsFiniteSet(lower) /\ Cardinality(lower) \in Nat
      BY <1>5, FS_Subset, FS_CardinalityType
    <3> QED
      BY <3>1 DEF NewSlot
  <2>2. mConnections[d] \in Connection' /\ ~mConnections[d].closed
    BY <1>4 DEF Drivers, Open
  <2>3. /\ Renumbered(d).player = NewSlot(d) /\ Renumbered(d).closed = mConnections[d].closed
        /\ Renumbered(d).spectator = mConnections[d].spectator
    BY <2>2 DEF Renumbered, Connection
  <2> QED
    BY <2>1, <2>2, <2>3
<1>7. \A d \in Conns : conns[d] = IF d \in here THEN Renumbered(d) ELSE mConnections[d]
  OBVIOUS
<1> HIDE DEF conns
<1>8. Drivers(conns) = here /\ Watchers(conns) = Watchers(mConnections)
  BY <1>6, <1>7 DEF Drivers, Watchers, Open
<1>9. \A d \in Conns : conns[d] \in Connection'
  BY <1>3, <1>4, <1>7
<1>10. Drivers(mConnections') = here /\ Watchers(mConnections') = Watchers(mConnections)
  BY <1>2, <1>8, <1>9, ToldStartPlaces DEF StartNow
<1> QED
  BY <1>1, <1>2, <1>10, BeginsStep DEF StartNow

\* StartRace when the track cannot be read again: the drivers are sent away.
LEMMA HostStartFailsRoom ==
  ASSUME HostAssumption, SeatInv, SeatInv', FramesInv, NEW c \in Conns, HostStartFails(c)
  PROVE  RoomStep
<1> DEFINE r == SeenRoom
           t == SeenRoom'
<1>1. TypeOK /\ TypeOK' /\ mStarted = FALSE /\ c \in Drivers(mConnections)
  BY DEF HostStartFails, MayHostStart, SeatInv, TypeOK, Drivers
<1>2. /\ mPlayers' = Cardinality(Drivers(mConnections)) /\ mPlayers' # mPlayers
      /\ mFinished' = mFinished /\ mStarted' = mStarted
      /\ mConnections' = Closed(mConnections, Drivers(mConnections))
  BY DEF HostStartFails, ConnectedPlayers
<1>3. Drivers(mConnections') = {} /\ Watchers(mConnections') = Watchers(mConnections)
  <2>1. /\ Drivers(mConnections') = Drivers(mConnections) \ Drivers(mConnections)
        /\ Watchers(mConnections') = Watchers(mConnections) \ Drivers(mConnections)
    BY <1>2, ClosedMembers
  <2> QED
    BY <2>1, Apart
<1>4. r \in RoomType /\ t \in RoomType
  BY <1>1, Seen, SeenNext
<1>5. t.drivers = {} /\ t.watchers = r.watchers /\ r.drivers # {}
  BY <1>1, <1>3, Seen, SeenNext
<1>6. t.finished = r.finished /\ t.started = r.started /\ r.started = FALSE
  BY <1>1, <1>2, Seen, SeenNext
<1>7. t.seats = Abstract!Cardinality(r.drivers) /\ t.seats # r.seats
  BY <1>1, <1>2, Seen, SeenNext, RoomCounts
<1> HIDE DEF r, t
<1>8. t = [r EXCEPT !.seats = t.seats, !.drivers = t.drivers]
  BY ONLY <1>4, <1>5, <1>6, OtherSent
<1>9. t \in Abstract!Begun(r)
  BY <1>5, <1>7, <1>8 DEF Abstract!Begun
<1>10. Abstract!MayBegin(r)
  BY <1>5, <1>6 DEF Abstract!MayBegin
<1> QED
  BY <1>9, <1>10 DEF RoomStep, Abstract!Next, Abstract!Begin, r, t

\* Spectate: a new watcher of a race that has started.
LEMMA SpectateRoom ==
  ASSUME HostAssumption, SeatInv, SeatInv', FramesInv, NEW c \in Conns, Spectate(c)
  PROVE  RoomStep
<1> DEFINE r == SeenRoom
           t == SeenRoom'
           k == SpectatorKeyframe
           s == [mConnections[c] EXCEPT !.helloDone = TRUE, !.name = c, !.spectator = TRUE,
                                        !.specCursor = k, !.next = k]
<1>1. /\ TypeOK /\ TypeOK' /\ Waiting(c) /\ mStarted = TRUE
      /\ UNCHANGED <<mPlayers, mStarted, mFinished>>
      /\ Cardinality(Watchers(mConnections)) < MaxSpectators
  BY DEF Spectate, SeatInv, TypeOK, slotVars, raceVars
<1>2. c \notin Drivers(mConnections) /\ c \notin Watchers(mConnections)
  BY <1>1, Apart
<1>3. mConnections[c] \in Connection /\ ~mConnections[c].closed
      /\ mConnections \in [Conns -> Connection]
  BY <1>1 DEF TypeOK, Waiting, Open
<1>4. mConnections' = [mConnections EXCEPT ![c] = s]
  BY <1>3 DEF Spectate
<1>5. ~s.closed /\ s.spectator /\ s.player = mConnections[c].player
  <2> HIDE DEF k
  <2> QED
    BY <1>3 DEF Connection
<1> HIDE DEF s
<1>6. \A d \in Conns : mConnections'[d] = IF d = c THEN s ELSE mConnections[d]
  BY <1>3, <1>4
<1>7. /\ Drivers(mConnections') = Drivers(mConnections)
      /\ Watchers(mConnections') = Watchers(mConnections) \union {c}
  BY <1>2, <1>3, <1>5, <1>6 DEF Drivers, Watchers, Open
<1>8. r \in RoomType /\ t \in RoomType /\ t.seats = r.seats
  BY <1>1, Seen, SeenNext
<1>9. t.started = r.started /\ t.finished = r.finished /\ r.started = TRUE
  BY <1>1, Seen, SeenNext
<1>10. t.drivers = r.drivers /\ t.watchers = r.watchers \union {c}
  BY <1>1, <1>7, Seen, SeenNext
<1>11. c \notin r.drivers /\ c \notin r.watchers
       /\ Abstract!Cardinality(r.watchers) < MaxSpectators
  BY <1>1, <1>2, Seen, RoomCounts
<1> HIDE DEF r, t
<1>12. t = [r EXCEPT !.watchers = t.watchers]
  BY ONLY <1>8, <1>9, <1>10, OtherWatchers
<1>13. t = Abstract!Watched(r, c)
  BY <1>10, <1>12 DEF Abstract!Watched
<1>14. c \notin Abstract!Members(r) /\ Abstract!MayWatch(r, MaxSpectators)
  BY <1>9, <1>11 DEF Abstract!Members, Abstract!MayWatch
<1> QED
  BY <1>13, <1>14 DEF RoomStep, Abstract!Next, Abstract!Watch, r, t

\* A snapshot moves nobody.
LEMMA SnapshotRequestRoom ==
  ASSUME HostAssumption, SeatInv, SeatInv', NEW c \in Conns, SnapshotRequest(c)
  PROVE  RoomStep
<1> DEFINE k == SpectatorKeyframe
           s == [mConnections[c] EXCEPT !.specCursor = k, !.specResultSent = FALSE, !.next = k]
           t == [mConnections[c] EXCEPT !.next = mTick]
<1>1. TypeOK /\ TypeOK' /\ UNCHANGED <<mPlayers, mStarted, mFinished>>
  BY DEF SnapshotRequest, SeatInv, slotVars, raceVars
<1>2. mConnections[c] \in Connection /\ mConnections \in [Conns -> Connection]
  BY <1>1 DEF TypeOK
<1>3. SamePlace(mConnections[c], s) /\ SamePlace(mConnections[c], t)
  <2> HIDE DEF k
  <2> QED
    BY <1>2 DEF SamePlace, Connection
<1>4. mConnections' = [mConnections EXCEPT ![c] = s] \/ mConnections' = [mConnections EXCEPT ![c] = t]
  BY <1>2 DEF SnapshotRequest
<1> HIDE DEF s, t
<1>5. \A d \in Conns : SamePlace(mConnections[d], mConnections'[d])
  BY <1>2, <1>3, <1>4 DEF SamePlace
<1> QED
  BY <1>1, <1>5, SamePlaces, StaysStep

\* Resume: a driver takes its slot back, in place of at most one.
LEMMA ResumeRoom ==
  ASSUME HostAssumption, SeatInv, SeatInv', FramesInv, mLoaded = TRUE,
         NEW c \in Conns, NEW token, Resume(c, token)
  PROVE  RoomStep
<1>1. /\ TypeOK /\ TypeOK' /\ Waiting(c) /\ mStarted = TRUE
      /\ UNCHANGED <<mPlayers, mTokens, mStarted, mFinished, mLoaded>>
  BY DEF Resume, SeatInv, TypeOK, slotVars, raceVars
<1>2. PICK slot \in DOMAIN mTokens :
        mConnections' = [Closed(mConnections, Replaced(c, slot)) EXCEPT ![c] = Resumed(c, slot)]
  BY DEF Resume, Owned
<1> DEFINE s == Resumed(c, slot)
           gone == Replaced(c, slot)
           away == {d \in Drivers(mConnections) : mConnections[d].player = slot}
           r == SeenRoom
           t == SeenRoom'
<1>3. mConnections[c] \in Connection /\ ~mConnections[c].closed
      /\ mConnections \in [Conns -> Connection]
  BY <1>1 DEF TypeOK, Waiting, Open
<1>4. ~s.closed /\ s.player = slot /\ s.spectator = mConnections[c].spectator
  BY <1>3 DEF Resumed, Connection
<1>5. slot \in Nat
  BY <1>1 DEF TypeOK, HostAssumption
<1>6. c \notin Drivers(mConnections) /\ c \notin Watchers(mConnections)
  BY <1>1, Apart
<1>7. gone = away
  BY <1>5, <1>6 DEF Replaced, Drivers, Open
<1> HIDE DEF s
<1>8. \A d \in Conns : mConnections'[d] = IF d = c THEN s
                                          ELSE IF d \in gone THEN NewConnection ELSE mConnections[d]
  BY <1>2 DEF Closed, s
<1>9. NewConnection.closed
  BY DEF NewConnection
<1> HIDE DEF gone, away
<1>10. Drivers(mConnections') = (Drivers(mConnections) \ away) \union {c}
  BY <1>4, <1>5, <1>7, <1>8, <1>9 DEF Drivers, Open
<1>11. Watchers(mConnections') = Watchers(mConnections)
  <2>1. \A d \in Watchers(mConnections) : d \notin away
    BY Apart DEF away
  <2> QED
    BY <1>3, <1>4, <1>6, <1>7, <1>8, <1>9, <2>1 DEF Watchers, Open
<1>12. away \in {{}} \union {{d} : d \in Drivers(mConnections)}
  <2>1. \A d, e \in away : d = e
    BY DEF away, SeatInv, SlotsHeld
  <2> QED
    BY <2>1 DEF away
<1>13. Cardinality(Drivers(mConnections')) <= mPlayers
  <2> DEFINE D == Drivers(mConnections')
             f == [d \in D |-> mConnections'[d].player]
  <2>1. \A d \in D : mConnections'[d].player \in 0..mPlayers - 1
    BY <1>1 DEF SeatInv, SlotsHeld, Slots
  <2>2. \A d, e \in D : mConnections'[d].player = mConnections'[e].player => d = e
    BY DEF SeatInv, SlotsHeld
  <2>3. f \in [D -> 0..mPlayers - 1] /\ \A d, e \in D : f[d] = f[e] => d = e
    BY <2>1, <2>2
  <2>4. mPlayers \in Nat
    BY SeatInvFacts
  <2> HIDE DEF D, f
  <2>5. Cardinality(D) <= mPlayers
    BY ONLY <2>3, <2>4, Seating, ZenonT(30)
  <2> QED
    BY <2>5 DEF D
<1>14. r \in RoomType /\ t \in RoomType /\ t.seats = r.seats
  BY <1>1, Seen, SeenNext
<1>15. t.started = r.started /\ t.finished = r.finished /\ r.started = TRUE
  BY <1>1, Seen, SeenNext
<1>16. t.drivers = (r.drivers \ away) \union {c} /\ t.watchers = r.watchers
       /\ away \in {{}} \union {{d} : d \in r.drivers}
  BY <1>1, <1>10, <1>11, <1>12, Seen, SeenNext
<1>17. c \notin r.drivers /\ c \notin r.watchers
       /\ Abstract!Cardinality(t.drivers) <= r.seats
  BY <1>1, <1>6, <1>13, Seen, SeenNext, RoomCounts
<1> HIDE DEF r, t
<1>18. t = [r EXCEPT !.drivers = t.drivers]
  BY ONLY <1>14, <1>15, <1>16, OtherDrivers
<1>19. t \in Abstract!Returned(r, c)
  BY <1>16, <1>17, <1>18 DEF Abstract!Returned
<1>20. c \notin Abstract!Members(r)
  BY <1>17 DEF Abstract!Members
<1> QED
  BY <1>15, <1>19, <1>20 DEF RoomStep, Abstract!Next, Abstract!Return, r, t

-----------------------------------------------------------------------------
(***************************************************************************)
(* Advance.                                                                *)
(***************************************************************************)
\* Before the start: the drivers are sent away if the host left.
LEMMA AdvanceWaitingRoom ==
  ASSUME HostAssumption, SeatInv, SeatInv', FramesInv, NEW dt \in 0..MaxLag, AdvanceWaiting(dt)
  PROVE  RoomStep
<1> DEFINE r == SeenRoom
           t == SeenRoom'
<1>1. /\ TypeOK /\ TypeOK' /\ ~mStarted /\ dt \in Nat
      /\ UNCHANGED <<mPlayers, mStarted, mFinished>> /\ mConnections' = AfterClosing(dt)
  BY ClockType DEF AdvanceWaiting, SeatInv, raceVars
<1>2. /\ Watchers(mConnections') = Watchers(mConnections)
      /\ Drivers(mConnections') = IF HostLeft THEN {} ELSE Drivers(mConnections)
  BY <1>1, AfterClosingMembers
<1>3. CASE ~HostLeft
  BY <1>1, <1>2, <1>3, StaysStep
<1>4. CASE HostLeft
  <2>1. r \in RoomType /\ t \in RoomType /\ t.seats = r.seats
    BY <1>1, Seen, SeenNext
  <2>2. t.started = r.started /\ t.finished = r.finished /\ r.started = FALSE
    BY <1>1, Seen, SeenNext DEF TypeOK
  <2>3. t.drivers = {} /\ t.watchers = r.watchers
    BY <1>1, <1>2, <1>4, Seen, SeenNext
  <2> HIDE DEF r, t
  <2>4. t = [r EXCEPT !.drivers = t.drivers]
    BY ONLY <2>1, <2>2, <2>3, OtherDrivers
  <2>5. t \in Abstract!Passed(r)
    BY <2>2, <2>3, <2>4 DEF Abstract!Passed
  <2> QED
    BY <2>5 DEF RoomStep, Abstract!Next, Abstract!Pass, r, t
<1> QED
  BY <1>3, <1>4

\* Once started, time sends nobody away: ticks and the Result go out.
LEMMA AfterTicks ==
  ASSUME HostAssumption, SeatInv, FramesInv, mStarted, NEW dt \in Nat, NEW to \in 0..RaceLimit,
         NEW finishing \in BOOLEAN, NEW clock \in Int, NEW sent \in BOOLEAN,
         mConnections' = ToSpectators(ToDrivers(AfterClosing(dt), to, finishing), clock, to, sent)
  PROVE  /\ Drivers(mConnections') = Drivers(mConnections)
         /\ Watchers(mConnections') = Watchers(mConnections)
<1>1. TypeOK
  BY DEF SeatInv
<1>2. /\ Drivers(AfterClosing(dt)) = Drivers(mConnections)
      /\ Watchers(AfterClosing(dt)) = Watchers(mConnections)
  BY AfterClosingMembers DEF HostLeft
<1>3. AfterClosing(dt) \in ConnectionMap
  BY <1>1, AfterClosingKept
<1>4. /\ Drivers(mConnections') = Drivers(AfterClosing(dt))
      /\ Watchers(mConnections') = Watchers(AfterClosing(dt))
  <2> DEFINE conns == AfterClosing(dt)
             after == mConnections'
  <2>1. conns \in ConnectionMap /\ after = ToSpectators(ToDrivers(conns, to, finishing), clock, to, sent)
    BY <1>3
  <2> HIDE DEF conns, after
  <2>2. Drivers(after) = Drivers(conns) /\ Watchers(after) = Watchers(conns)
    BY <2>1, SentPlaces
  <2> QED
    BY <2>2 DEF conns, after
<1> QED
  BY <1>2, <1>4

\* A race under way goes on, or it is over.
LEMMA AdvanceRunningRoom ==
  ASSUME HostAssumption, SeatInv, SeatInv', FramesInv, NEW dt \in 0..MaxLag, AdvanceRunning(dt)
  PROVE  RoomStep
<1> DEFINE r == SeenRoom
           t == SeenRoom'
           now == Least(mClock + dt, MaxClock)
<1>1. TypeOK /\ TypeOK' /\ dt \in Nat /\ now \in Int
  BY ClockType, ClockGoesOn DEF SeatInv
<1>2. /\ mStarted /\ mStarted' = mStarted /\ mPlayers' = mPlayers /\ ~mFinished
      /\ mResultSent \in BOOLEAN /\ mStarted \in BOOLEAN /\ mFinished \in BOOLEAN
  BY <1>1 DEF AdvanceRunning, slotVars, TypeOK
<1>3. PICK to \in mTick..RaceLimit, over \in BOOLEAN :
        /\ mFinished' = over
        /\ mConnections' = ToSpectators(ToDrivers(AfterClosing(dt), to, over /\ ~mResultSent),
                                        now, to, mResultSent)
  BY DEF AdvanceRunning
<1>4. to \in 0..RaceLimit /\ (over /\ ~mResultSent) \in BOOLEAN
  BY <1>1 DEF TypeOK, HostAssumption
<1> HIDE DEF now
<1>5. /\ Drivers(mConnections') = Drivers(mConnections)
      /\ Watchers(mConnections') = Watchers(mConnections)
  BY <1>1, <1>2, <1>3, <1>4, AfterTicks
<1>6. r \in RoomType /\ t \in RoomType /\ t.seats = r.seats
  BY <1>1, <1>2, Seen, SeenNext
<1>7. t.drivers = r.drivers /\ t.watchers = r.watchers
  BY <1>1, <1>5, Seen, SeenNext
<1>8. t.started = r.started /\ r.started = TRUE
  BY <1>1, <1>2, Seen, SeenNext
<1>9. t.finished = over /\ r.finished = FALSE
  BY <1>1, <1>2, <1>3, Seen, SeenNext
<1> HIDE DEF r, t
<1>10. CASE ~over
  <2>1. t.finished = r.finished
    BY <1>9, <1>10
  <2>2. t = r
    BY ONLY <1>6, <1>7, <1>8, <2>1, SameRoom
  <2> QED
    BY <2>2 DEF RoomStep, r, t
<1>11. CASE over
  <2>1. t = [r EXCEPT !.finished = t.finished]
    BY ONLY <1>6, <1>7, <1>8, OtherFinished
  <2>2. t \in Abstract!Passed(r)
    BY <1>8, <1>9, <1>11, <2>1 DEF Abstract!Passed
  <2> QED
    BY <2>2 DEF RoomStep, Abstract!Next, Abstract!Pass, r, t
<1> QED
  BY <1>10, <1>11

\* A race that is over stays so.
LEMMA AdvanceFinishedRoom ==
  ASSUME HostAssumption, SeatInv, SeatInv', FramesInv, NEW dt \in 0..MaxLag, AdvanceFinished(dt)
  PROVE  RoomStep
<1> DEFINE now == Least(mClock + dt, MaxClock)
<1>1. TypeOK /\ TypeOK' /\ dt \in Nat /\ now \in Int
  BY ClockType, ClockGoesOn DEF SeatInv
<1>2. /\ mStarted /\ UNCHANGED <<mPlayers, mStarted, mFinished>>
      /\ mTick \in 0..RaceLimit /\ (~mResultSent) \in BOOLEAN
  BY <1>1 DEF AdvanceFinished, slotVars, TypeOK
<1>3. mConnections' = ToSpectators(ToDrivers(AfterClosing(dt), mTick, ~mResultSent),
                                   now, mTick, TRUE)
  BY DEF AdvanceFinished
<1> HIDE DEF now
<1>4. /\ Drivers(mConnections') = Drivers(mConnections)
      /\ Watchers(mConnections') = Watchers(mConnections)
  BY <1>1, <1>2, <1>3, AfterTicks
<1> QED
  BY <1>1, <1>2, <1>4, StaysStep

-----------------------------------------------------------------------------
(***************************************************************************)
(* The refinement.                                                         *)
(***************************************************************************)
\* An empty race is a new room.
LEMMA InitRoom ==
  ASSUME HostAssumption, Init
  PROVE  Abstract!Init
<1>1. Drivers(mConnections) = {} /\ Watchers(mConnections) = {}
  BY DEF Init, Drivers, Watchers, Open, NewConnection
<1>2. mPlayers = Seats /\ mStarted = FALSE /\ mFinished = FALSE
  BY DEF Init
<1> QED
  BY <1>1, <1>2 DEF SeenRoom, Abstract!Init, Abstract!NewRoom

\* Whatever the host does, while its race is loaded.
LEMMA StepRoom ==
  ASSUME HostAssumption, SeatInv, SeatInv', FramesInv, mLoaded, [Next]_vars
  PROVE  [Abstract!Next]_SeenRoom
<1>1. TypeOK /\ TypeOK' /\ mLoaded = TRUE
  BY DEF SeatInv, TypeOK
<1> SUFFICES RoomStep
  BY DEF RoomStep
<1>2. ASSUME Connect PROVE RoomStep
  BY <1>1, <1>2, ConnectRoom
<1>3. ASSUME NEW c \in Conns, Drop(c) \/ HelloRefused(c) \/ SpectateRefused(c)
                             \/ \E token \in 0..mTokenState : ResumeRefused(c, token)
      PROVE  RoomStep
  <2>1. /\ mConnections' = Closed(mConnections, {c})
        /\ UNCHANGED <<mPlayers, mStarted, mFinished>>
    BY <1>3 DEF Drop, HelloRefused, SpectateRefused, ResumeRefused, slotVars, raceVars
  <2> QED
    BY <1>1, <2>1, CloseRoom
<1>4. ASSUME NEW c \in Conns, NEW asksHost \in BOOLEAN, HelloAccepted(c, asksHost)
      PROVE  RoomStep
  BY <1>4, HelloRoom
<1>5. ASSUME NEW c \in Conns, HostStartsFull(c) PROVE RoomStep
  BY <1>5, HostStartsFullRoom
<1>6. ASSUME NEW c \in Conns, HostStartsFewer(c) PROVE RoomStep
  BY <1>6, HostStartsFewerRoom
<1>7. ASSUME NEW c \in Conns, HostStartFails(c) PROVE RoomStep
  BY <1>7, HostStartFailsRoom
<1>8. ASSUME NEW c \in Conns, NEW token \in 0..mTokenState, Resume(c, token) PROVE RoomStep
  BY <1>1, <1>8, ResumeRoom
<1>9. ASSUME NEW c \in Conns, Spectate(c) PROVE RoomStep
  BY <1>9, SpectateRoom
<1>10. ASSUME NEW c \in Conns, SnapshotRequest(c) PROVE RoomStep
  BY <1>10, SnapshotRequestRoom
<1>11. ASSUME Advance PROVE RoomStep
  BY <1>11, AdvanceWaitingRoom, AdvanceRunningRoom, AdvanceFinishedRoom DEF Advance
<1>12. ASSUME UNCHANGED vars PROVE RoomStep
  BY <1>12 DEF vars, slotVars, raceVars, SeenRoom, RoomStep
<1> QED
  BY <1>2, <1>3, <1>4, <1>5, <1>6, <1>7, <1>8, <1>9, <1>10, <1>11, <1>12 DEF Next, Receive

\* Whatever a race host does is, to the lobby, a step of a room with its promises
\* (RaceHost's public functions, for every number of seats and connections).
THEOREM RoomRefinement == ASSUME HostAssumption PROVE Spec => ImplementsRoom
<1> DEFINE A == mLoaded => [Abstract!Next]_SeenRoom
<1>1. Init => Abstract!Init
  BY InitRoom
<1>2. ASSUME SeatInv, SeatInv', FramesInv, [Next]_vars
      PROVE  A
  BY <1>2, StepRoom
<1>3. ASSUME SeatInv, SeatInv', FramesInv, [Next]_vars
      PROVE  [A]_vars
  BY <1>2, <1>3
<1> HIDE DEF A
<1>4. Spec => Abstract!Init /\ [][A]_vars
  BY <1>1, <1>3, SeatsCorrect, FramesCorrect, PTL DEF Spec
<1> QED
  BY <1>4 DEF ImplementsRoom, A
===============================================================================
