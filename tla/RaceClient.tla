------------------------------ MODULE RaceClient -------------------------------
(***************************************************************************)
(* A client in a race: the confirmed world it steps with the host's Ticks, *)
(* the snapshots that put it right, the connection it loses and takes back *)
(* with its token, the recording it makes; and the host it follows.        *)
(*                                                                         *)
(* Abstractions.  A world is its tick and whether it is the host's world   *)
(* of that tick (`same'); whether a step of the client's simulation comes  *)
(* out as the host's, and what becomes of a snapshot that is read, is      *)
(* decided when it is sent.  A pass of the client reads any number of the  *)
(* frames that are there.  Of the host only what it sends this client is   *)
(* kept; module RaceHost has the rest.  A pair of times is kept as the     *)
(* time since, up to what it is compared with.                             *)
(***************************************************************************)
EXTENDS Integers, Sequences, FiniteSets

CONSTANTS
  Roles,         \* whether this client only watches: one of these
  RaceTicks,     \* bound: the ticks of the race
  KeyframeTicks, \* keyframeTicks
  Chunks,        \* bound: the chunks of a snapshot
  SnapshotsPerMinute,
  SnapshotWait,  \* 2000 ms between two requests
  ReconnectWait, \* 1000 ms between two attempts
  MaxAttempts,   \* attempts to reconnect (15)
  MaxFaults,     \* bound: broken connections, diverging steps and failing snapshots
  MaxUnread      \* bound: requests on their way, and chunks when a snapshot is sent

ASSUME ClientAssumption ==
  /\ Roles \subseteq BOOLEAN
  /\ {RaceTicks, KeyframeTicks, Chunks, MaxAttempts} \subseteq Nat \ {0}
  /\ {SnapshotsPerMinute, SnapshotWait, ReconnectWait, MaxFaults, MaxUnread} \subseteq Nat

VARIABLES
  spectator, \* auth.spectator
  client,  \* the client's race (struct auth, PredictingClient, ReplayRecorder); and,
           \* read by properties only, whether a snapshot has `failed' since the last
           \* snapshot or Tick that was accepted
  host,    \* the race as the host sends it to this client
  link,    \* the connection is "open", or not: "closed"
  up, down,\* the frames on their way to the host and to the client
  faults   \* how many faults there have been

vars == <<spectator, client, host, link, up, down, faults>>

\* What the bytes of a snapshot hold: the host's world of a tick, or bytes that are
\* refused, untouched or when a part of the level has been overwritten.
Refused == -1
Halfway == -2
Contents(simulated) == {Refused, Halfway} \union 0..simulated

TickFrame(t, same)  == [type |-> "Tick", tick |-> t, same |-> same]
Chunk(t, i, holds)  == [type |-> "SnapshotChunk", tick |-> t, index |-> i, holds |-> holds]
ResultFrame         == [type |-> "Result"]

SnapshotFrames(t, holds) == [i \in 1..Chunks |-> Chunk(t, i - 1, holds)]

\* A snapshot that is not the host's world of its tick is a fault.
WithSnapshot(t, holds, n) == IF holds = t THEN n ELSE n + 1

\* The newest keyframe there is at tick t.
Keyframe(t) == t - (t % KeyframeTicks)

NewRecording == [next |-> 0, whole |-> TRUE]

\* The spectator's first keyframe was sent with the HelloAck.
Init ==
  /\ spectator \in Roles
  /\ client = [world |-> [tick |-> 0, same |-> TRUE],
               cache |-> [tick |-> 0, same |-> TRUE], valid |-> FALSE,
               need |-> spectator, chunks |-> <<>>,
               recorder |-> NewRecording, result |-> FALSE, saved |-> 0,
               lost |-> FALSE, attempts |-> 0,
               sinceRequest |-> SnapshotWait + 1, sinceReconnect |-> ReconnectWait,
               reconnected |-> FALSE, failed |-> FALSE]
  /\ IF spectator
     THEN \E now \in 0..RaceTicks : \E holds \in Contents(now) :
            /\ host = [simulated |-> now, cursor |-> Keyframe(now), resultSent |-> FALSE,
                       attached |-> TRUE, snapshots |-> 0, gone |-> FALSE]
            /\ down = SnapshotFrames(Keyframe(now), holds)
            /\ faults = WithSnapshot(Keyframe(now), holds, 0)
     ELSE /\ host = [simulated |-> 0, cursor |-> 0, resultSent |-> FALSE, attached |-> TRUE,
                     snapshots |-> 0, gone |-> FALSE]
          /\ down = <<>> /\ faults = 0
  /\ link = "open" /\ up = <<>> /\ faults <= MaxFaults

-----------------------------------------------------------------------------
(***************************************************************************)
(* The host.                                                               *)
(***************************************************************************)
Over(h) == h.simulated = RaceTicks

\* The frames a call of Advance sends: the Ticks from the cursor on, and the Result.
Owed(h, bad) ==
  [i \in 1..h.simulated - h.cursor |-> TickFrame(h.cursor + i - 1, h.cursor + i - 1 # bad)]
  \o (IF Over(h) /\ ~h.resultSent THEN <<ResultFrame>> ELSE <<>>)

\* Ticks simulated (for a spectator: that are old enough) go to whoever is there.
\* The client's step of the Tick `bad' comes out differently.
HostAdvances(ticks, bad) ==
  /\ host.simulated + ticks <= RaceTicks
  /\ LET h == [host EXCEPT !.simulated = @ + ticks]
     IN  /\ bad \in {-1} \union h.cursor..h.simulated - 1
         /\ down' = IF host.attached THEN down \o Owed(h, bad) ELSE down
         /\ host' = [h EXCEPT !.cursor = h.simulated, !.resultSent = Over(h)]
  /\ faults' = IF bad = -1 THEN faults ELSE faults + 1
  /\ faults' <= MaxFaults
  /\ UNCHANGED <<spectator, client, link, up>>

\* Mutation: a driver gets a keyframe as well.
SentKeyframe(h) == [h EXCEPT !.cursor = Keyframe(h.simulated)]

\* SnapshotRequest: a driver gets the world as it is, a spectator a keyframe again,
\* from which it follows once more, to the Result.
SentSnapshot(h) ==
  IF spectator
  THEN [h EXCEPT !.cursor = Keyframe(h.simulated), !.resultSent = FALSE]
  ELSE h

\* Of the snapshots sent, `recent' are less than a minute old.
HostServes(recent, holds) ==
  /\ up # <<>> /\ Head(up) = "SnapshotRequest" /\ host.attached
  /\ Cardinality({i \in 1..Len(down) : down[i].type = "SnapshotChunk"}) < MaxUnread
  /\ recent \in 0..host.snapshots
  /\ IF recent >= SnapshotsPerMinute
     THEN /\ link' = "closed" /\ up' = <<>> /\ host' = [host EXCEPT !.attached = FALSE]
          /\ UNCHANGED <<down, faults>>
     ELSE /\ up' = Tail(up)
          /\ host' = [SentSnapshot(host) EXCEPT !.snapshots = recent + 1]
          /\ holds \in Contents(host.simulated)
          /\ down' = down \o SnapshotFrames(host'.cursor, holds)
          /\ faults' = WithSnapshot(host'.cursor, holds, faults) /\ faults' <= MaxFaults
          /\ UNCHANGED link
  /\ UNCHANGED <<spectator, client>>

\* Resume: the token is good as long as the race is there.
HostResumes ==
  /\ up # <<>> /\ Head(up) = "Resume"
  /\ up' = IF host.gone THEN <<>> ELSE Tail(up)
  /\ link' = IF host.gone THEN "closed" ELSE link
  /\ host' = [host EXCEPT !.attached = ~host.gone]
  /\ UNCHANGED <<spectator, client, down, faults>>

\* A race that is over is removed, with its connections.
RaceRemoved ==
  /\ Over(host) /\ host.resultSent /\ ~host.gone
  /\ host' = [host EXCEPT !.gone = TRUE, !.attached = FALSE]
  /\ link' = IF host.attached THEN "closed" ELSE link
  /\ up' = IF host.attached THEN <<>> ELSE up
  /\ UNCHANGED <<spectator, client, down, faults>>

\* The connection breaks: the last frames may be lost, both ways.
Break(kept) ==
  /\ link = "open" /\ faults < MaxFaults
  /\ kept \in 0..Len(down)
  /\ down' = SubSeq(down, 1, kept)
  /\ link' = "closed" /\ up' = <<>>
  /\ host' = [host EXCEPT !.attached = FALSE]
  /\ faults' = faults + 1
  /\ UNCHANGED <<spectator, client>>

-----------------------------------------------------------------------------
(***************************************************************************)
(* The client's frames.                                                    *)
(***************************************************************************)
\* Mutation: the copy of the confirmed world is not dropped with it.
AppliedTickCached(c, f) == [c EXCEPT !.world = [tick |-> c.world.tick + 1, same |-> c.world.same /\ f.same]]

\* PredictingClient::OnTick: the world is stepped, and only then compared.
AppliedTick(c, f) ==
  [c EXCEPT !.world = [tick |-> c.world.tick + 1, same |-> c.world.same /\ f.same],
            !.valid = FALSE]

\* Mutation: a divergence leaves the recording whole.
ResyncKeepsRecording(c) == [c EXCEPT !.need = TRUE]

\* A step that does not come out as the host's: ask for its world.
Resync(c) == [c EXCEPT !.need = TRUE, !.recorder.whole = FALSE]

\* ReplayRecorder::OnTick: only the very next tick.
Recorded(c, f) ==
  IF ~c.recorder.whole THEN c
  ELSE IF f.tick # c.recorder.next THEN [c EXCEPT !.recorder.whole = FALSE]
  ELSE [c EXCEPT !.recorder.next = c.recorder.next + 1]

\* Ticks before the snapshot are of no use.
Heeds(c) == ~c.need

OnTick(c, f) ==
  IF ~Heeds(c) THEN c
  ELSE IF f.tick # c.world.tick THEN Resync(c)
  ELSE IF AppliedTick(c, f).world.same THEN Recorded([AppliedTick(c, f) EXCEPT !.failed = FALSE], f)
  ELSE Resync(AppliedTick(c, f))

\* The chunks so far: the first one starts again.
Gathered(c, f) == Append(IF f.index = 0 THEN <<>> ELSE c.chunks, f)

\* RaceWorld::Restore: refused bytes leave the world as it was, or partly overwritten
\* at the tick it had; any others are a world, of whatever tick they hold.
Restored(w, holds) ==
  CASE holds = Refused -> w
    [] holds = Halfway -> [w EXCEPT !.same = FALSE]
    [] OTHER -> [tick |-> holds, same |-> TRUE]

\* OnSnapshot fails when Restore does, and after it when the world it has restored is
\* not of the snapshot's tick; nothing but the world has changed then, and the client
\* goes on as before.
OnSnapshot(c, f) ==
  LET restored == [c EXCEPT !.world = Restored(c.world, f.holds), !.chunks = <<>>]
  IN  IF f.holds = f.tick
      THEN [restored EXCEPT !.valid = FALSE, !.need = FALSE, !.failed = FALSE]
      ELSE [restored EXCEPT !.failed = TRUE]

\* The last chunk completes a snapshot.
OnChunk(c, f) ==
  LET chunks == Gathered(c, f)
  IN  IF f.index + 1 = Chunks /\ Len(chunks) = Chunks
      THEN OnSnapshot(c, f)
      ELSE [c EXCEPT !.chunks = chunks]

\* The first Result: a recording that is whole becomes a replay.
OnResult(c) ==
  IF c.result THEN c
  ELSE [c EXCEPT !.result = TRUE, !.saved = IF c.recorder.whole THEN c.recorder.next ELSE 0]

OnFrame(c, f) ==
  CASE f.type = "Tick" -> OnTick(c, f)
    [] f.type = "SnapshotChunk" -> OnChunk(c, f)
    [] f.type = "Result" -> OnResult(c)

-----------------------------------------------------------------------------
(***************************************************************************)
(* One pass of stepAuth.                                                   *)
(***************************************************************************)
Lesser(a, b) == IF a <= b THEN a ELSE b

Later(c, dt) == [c EXCEPT !.sinceRequest = Lesser(@ + dt, SnapshotWait + 1),
                          !.sinceReconnect = Lesser(@ + dt, ReconnectWait)]

\* The first pass that finds the connection lost tries at once.
Noticed(c) == IF c.lost THEN c ELSE [c EXCEPT !.lost = TRUE, !.sinceReconnect = ReconnectWait]

MayReconnect(c) ==
  ~spectator /\ c.attempts < MaxAttempts /\ c.sinceReconnect >= ReconnectWait

Attempted(c) == [c EXCEPT !.sinceReconnect = 0, !.attempts = c.attempts + 1]

\* Mutation: the client carries on as if it had missed nothing.
ReconnectedAsBefore(c) == [c EXCEPT !.lost = FALSE, !.attempts = 0, !.reconnected = TRUE]

\* The connection is there again, and Resume is sent.
Reconnected(c) ==
  [c EXCEPT !.need = TRUE, !.sinceRequest = SnapshotWait + 1, !.lost = FALSE,
            !.attempts = 0, !.reconnected = TRUE]

\* Mutation: asked once per connection.
AsksOnce(c) == c.need /\ c.sinceRequest > SnapshotWait /\ ~c.reconnected

Asks(c) == c.need /\ c.sinceRequest > SnapshotWait

\* Predict: from a copy of the confirmed world, made if there is none.
Predicted(c) ==
  IF c.need THEN c
  ELSE [c EXCEPT !.cache = IF c.valid THEN c.cache ELSE c.world, !.valid = TRUE]

\* The end of a pass that has a connection, with these requests on their way.
Carried(c, sent) ==
  /\ client' = Predicted(IF Asks(c) THEN [c EXCEPT !.sinceRequest = 0] ELSE c)
  /\ up' = IF Asks(c) /\ link' = "open" THEN Append(sent, "SnapshotRequest") ELSE sent
  /\ Len(up') <= MaxUnread

\* The client when the first n frames have been read.
After(n) ==
  LET read[i \in 0..n] == IF i = 0 THEN client ELSE OnFrame(read[i - 1], down[i])
  IN  read[n]

\* Pump: n of the frames are there; a closed connection shows after the last.
ClientPass(n, dt, connects) ==
  LET c      == Later(After(n), dt)
      closed == link = "closed" /\ n = Len(down)
  IN  IF ~closed
      THEN /\ ~connects
           /\ UNCHANGED <<spectator, host, link, faults>>
           /\ Carried(c, up)
           /\ down' = SubSeq(down, n + 1, Len(down))
      ELSE IF c.result \/ ~MayReconnect(Noticed(c))
      THEN /\ client' = Predicted(IF c.result THEN c ELSE Noticed(c))
           /\ down' = <<>>
           /\ UNCHANGED <<spectator, host, link, up, faults>>
      ELSE IF ~connects
      THEN /\ client' = Predicted(Attempted(Noticed(c)))
           /\ down' = <<>>
           /\ UNCHANGED <<spectator, host, link, up, faults>>
      ELSE /\ link' = "open"
           /\ Carried(Reconnected(Attempted(Noticed(c))), <<"Resume">>)
           /\ down' = <<>>
           /\ host' = [host EXCEPT !.snapshots = 0]
           /\ UNCHANGED <<spectator, faults>>

HostReads ==
  \/ HostResumes
  \/ \E recent \in 0..SnapshotsPerMinute, holds \in Contents(RaceTicks) : HostServes(recent, holds)

Next ==
  \/ \E ticks \in 0..1, bad \in -1..RaceTicks : HostAdvances(ticks, bad)
  \/ HostReads
  \/ RaceRemoved
  \/ \E kept \in 0..Len(down) : Break(kept)
  \/ \E n \in 0..Len(down), dt \in 0..1, connects \in BOOLEAN : ClientPass(n, dt, connects)

Spec == Init /\ [][Next]_vars

\* The host's loop and the client's frames go on, and both read what is there.
FairSpec ==
  /\ Spec
  /\ WF_vars(HostReads)
  /\ WF_vars(\E ticks \in 0..1 : HostAdvances(ticks, -1))
  /\ WF_vars(\E dt \in 0..1, connects \in BOOLEAN : ClientPass(Lesser(1, Len(down)), dt, connects))

-----------------------------------------------------------------------------
(***************************************************************************)
(* Properties.                                                             *)
(***************************************************************************)
WorldType == [tick : 0..RaceTicks, same : BOOLEAN]
FrameType == [type : {"Tick"}, tick : 0..RaceTicks - 1, same : BOOLEAN]
             \union [type : {"SnapshotChunk"}, tick : 0..RaceTicks, index : 0..Chunks - 1,
                     holds : Contents(RaceTicks)]
             \union [type : {"Result"}]

\* The type of the client's and the host's state; with it, that the confirmed
\* world is never ahead of the host's, and chunks never pile up.
TypeOK ==
  /\ client.world \in WorldType /\ client.cache \in WorldType
  /\ client.world.tick <= host.simulated
  /\ {client.valid, client.need, client.result, client.lost, client.reconnected,
      client.failed} \subseteq BOOLEAN
  /\ Len(client.chunks) < Chunks
  /\ client.recorder \in [next : 0..RaceTicks, whole : BOOLEAN] /\ client.saved \in 0..RaceTicks
  /\ client.attempts \in 0..MaxAttempts
  /\ client.sinceRequest \in 0..SnapshotWait + 1 /\ client.sinceReconnect \in 0..ReconnectWait
  /\ host.simulated \in 0..RaceTicks /\ host.cursor \in 0..host.simulated
  /\ link \in {"open", "closed"} /\ faults \in 0..MaxFaults
  /\ \A i \in 1..Len(down) : down[i] \in FrameType

\* A client that is not waiting for a snapshot has the host's world, and the next
\* Tick it will get is the one it stands at: so a Tick is refused only when the
\* simulations differ, whatever was lost, asked for twice, or sent before the
\* snapshot (the filter in stepAuth, the tick check in OnTick).  The exception is a
\* second snapshot, asked for twice, that does not take: the client goes on with what
\* it left (README, section 5), but accepts no Tick before it is in step again, since
\* accepting one ends the exception.
InStep ==
  ~client.need /\ ~client.failed =>
    /\ client.world.same
    /\ \A i \in 1..Len(down) :
         down[i].type = "Tick" /\ (\A j \in 1..i - 1 : down[j].type = "Result")
           => down[i].tick = client.world.tick
    /\ down = <<>> /\ host.attached => host.cursor = client.world.tick

\* What every pass keeps: the types, and worlds that fit what is on its way.
ClientInv == TypeOK /\ InStep

\* What is drawn starts from the confirmed world as it is, never from an older
\* copy of it or from a world the client knows to be wrong (mSnapshotValid): a Tick
\* drops the copy whether it is accepted or not, and a snapshot that takes does.  One
\* that fails changes the world and keeps the copy (README, section 5), until the next
\* Tick; a client that waits for a snapshot draws nothing.
PredictsFromConfirmed ==
  client.valid /\ ~client.failed =>
    client.cache = client.world /\ (~client.need => client.cache.same)

\* On one connection, a replay that is saved is the whole race: what was lost to
\* a divergence, or seen twice after a snapshot, spoils it (ReplayRecorder).  After
\* a reconnection this is not so: see the README.
SavedWhole == client.saved # 0 /\ ~client.reconnected => client.saved = RaceTicks

\* The confirmed world of a driver never goes back, whatever snapshots come, but to
\* one that is not of the tick it is sent for; from there the next that takes is again
\* no older than any world before.
NeverBack == [][~spectator /\ ~client'.failed => client'.world.tick >= client.world.tick]_vars

\* A client that waits for a snapshot gets one, or its connection ends.
Resynchronises == client.need /\ link = "open" ~> ~client.need \/ link = "closed"

=============================================================================
