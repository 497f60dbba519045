-------------------------- MODULE RaceClientProofs --------------------------
(***************************************************************************)
(* The predicting client, for a race of any length, snapshots of any size, *)
(* any number of faults and attempts and frames on their way.              *)
(*                                                                         *)
(* A pass of the client reads any number of frames, so the argument has    *)
(* two parts: what a client that has read the first k frames of a stream   *)
(* knows of the next one (Fits), which reading that one preserves, and by  *)
(* induction over k for a whole pass; and what the host and the connection *)
(* keep of the stream (StreamInv, HostInv, LinkInv).                       *)
(***************************************************************************)
EXTENDS RaceClient, SequenceTheorems, WellFoundedInduction, TLAPS

HIDE DEF ClientAssumption

-----------------------------------------------------------------------------
\* The invariant.

ClientState ==
  [world : WorldType, cache : WorldType, valid : BOOLEAN, need : BOOLEAN,
   chunks : Seq(FrameType), recorder : [next : 0..RaceTicks, whole : BOOLEAN],
   result : BOOLEAN, saved : 0..RaceTicks, lost : BOOLEAN, attempts : 0..MaxAttempts,
   sinceRequest : 0..SnapshotWait + 1, sinceReconnect : 0..ReconnectWait,
   reconnected : BOOLEAN, failed : BOOLEAN]

Chunky(f)  == f.type = "SnapshotChunk"
Partial(f) == Chunky(f) /\ f.index + 1 < Chunks

\* The tick a frame is about, and the tick whoever has read it stands at.
Entry(f) == IF f.type = "Result" THEN RaceTicks ELSE f.tick
Exit(f)  == IF f.type = "Tick" THEN f.tick + 1 ELSE Entry(f)

\* g may follow f: the chunks of a snapshot together, a Tick or the Result where
\* f ends, a snapshot there or before.
Succeeds(f, g) ==
  /\ Chunky(g) /\ g.index > 0 <=> Partial(f)
  /\ Partial(f) => g.index = f.index + 1
  /\ Entry(g) <= Exit(f)
  /\ ~Chunky(g) => Entry(g) = Exit(f)

\* f was sent by a host at tick now or before: so was the world in a snapshot, which
\* for a driver is of the host's tick.
Past(f, now) ==
  /\ Exit(f) <= now
  /\ Chunky(f) => f.holds <= now /\ (~spectator => f.holds <= f.tick)

\* A client that waits for no snapshot, nor goes on after one that failed.
Following(c) == ~c.need /\ ~c.failed

\* A recording that may become a replay: whole, and, for a spectator, who began within
\* the race, not empty.
Records(c) ==
  ~c.reconnected /\ c.recorder.whole /\ ~(spectator /\ c.recorder.next = 0)

\* A client that may read f: it has the chunks before it, and it, or its recording,
\* stands where f begins.
Ready(c, f) ==
  /\ Chunky(f) /\ f.index > 0 => Len(c.chunks) = f.index
  /\ Following(c) => Entry(f) <= c.world.tick /\ (~Chunky(f) => Entry(f) = c.world.tick)
  /\ Records(c) => Entry(f) <= c.recorder.next

\* A client that has read the first k frames of what is on its way.
Fits(c, k) ==
  /\ k < Len(down) => Ready(c, down[k + 1])
  /\ k = Len(down) /\ host.attached =>
       /\ Following(c) => c.world.tick = host.cursor
       /\ Records(c) => host.cursor <= c.recorder.next
  /\ ~spectator => \A j \in k + 1..Len(down) : c.world.tick <= Entry(down[j])

\* Whoever waits for a snapshot has missed Ticks; and what is saved is the race.
RecordingInv(c) ==
  /\ Records(c) => ~c.need
  /\ ~c.reconnected /\ c.saved # 0 => c.saved = RaceTicks

\* What is so of the client whatever it has read.
Sound(c) ==
  /\ c \in ClientState
  /\ c.world.tick <= host.simulated
  /\ Len(c.chunks) < Chunks
  /\ Following(c) => c.world.same
  /\ c.valid /\ ~c.failed => c.cache = c.world
  /\ RecordingInv(c)

HostState ==
  [simulated : 0..RaceTicks, cursor : 0..RaceTicks, resultSent : BOOLEAN,
   attached : BOOLEAN, snapshots : Nat, gone : BOOLEAN]

\* A driver's cursor is at the host's tick, a spectator's at its last keyframe or after.
HostInv ==
  /\ spectator \in BOOLEAN
  /\ host \in HostState
  /\ Keyframe(host.simulated) <= host.cursor /\ host.cursor <= host.simulated
  /\ ~spectator => host.cursor = host.simulated

\* The frames on their way follow each other, and the host's next one the last.
StreamInv ==
  /\ down \in Seq(FrameType)
  /\ \A i \in 1..Len(down) : Past(down[i], host.simulated)
  /\ \A i \in 1..Len(down) - 1 : Succeeds(down[i], down[i + 1])
  /\ ~spectator => \A i, j \in 1..Len(down) : i < j => Exit(down[i]) <= Entry(down[j])
  /\ host.attached /\ down # <<>> =>
       ~Partial(down[Len(down)]) /\ Exit(down[Len(down)]) = host.cursor

\* Whoever is not attached and has a connection has just asked to be: Resume is the
\* first thing it sent, it waits for a snapshot, and nothing is on its way to it.
LinkInv ==
  /\ link \in {"open", "closed"} /\ faults \in 0..MaxFaults
  /\ up \in Seq({"Resume", "SnapshotRequest"})
  /\ link = "closed" => up = <<>> /\ ~host.attached
  /\ \A i \in 1..Len(up) : up[i] = "Resume" => i = 1 /\ ~host.attached
  /\ link = "open" /\ ~host.attached =>
       client.need /\ down = <<>> /\ up # <<>> /\ up[1] = "Resume"

\* The invariant that is inductive.
StepInv == Sound(client) /\ Fits(client, 0) /\ HostInv /\ StreamInv /\ LinkInv

-----------------------------------------------------------------------------
\* Reading the frames of a pass.

\* Induction over the natural numbers, for a set of them.
LEMMA SetInduction ==
  ASSUME NEW S \in SUBSET Nat, 0 \in S, \A n \in S : n + 1 \in S
  PROVE  S = Nat
<1> DEFINE R == OpToRel(<, Nat)
           T == Nat \ S
<1>1. SUFFICES ASSUME T # {} PROVE FALSE
  OBVIOUS
<1>2. IsWellFoundedOn(R, Nat)
  BY NatLessThanWellFounded
<1> HIDE DEF R
<1>3. PICK m \in T : \A k \in T : ~ (<<k, m>> \in R)
  BY <1>1, <1>2, WFMin
<1>4. m # 0 /\ m - 1 \in Nat
  OBVIOUS
<1>5. m - 1 \in S
  <2>1. <<m - 1, m>> \in R
    BY <1>4 DEF R, OpToRel
  <2> QED
    BY <1>3, <1>4, <2>1
<1> QED
  BY <1>5

\* What `After' reads from: one frame at a time.
ReadBy(read, n) ==
  read = [i \in 0..n |-> IF i = 0 THEN client ELSE OnFrame(read[i - 1], down[i])]

LEMMA AfterReads ==
  ASSUME NEW n \in Nat
  PROVE  \E read : ReadBy(read, n) /\ After(n) = read[n]
<1> DEFINE S == {k \in Nat : \E read : ReadBy(read, k)}
<1>1. 0 \in S
  <2> DEFINE r == [i \in 0..0 |-> client]
  <2>1. \A i \in 0..0 : i = 0
    OBVIOUS
  <2>2. ReadBy(r, 0)
    BY <2>1, ZenonT(30) DEF ReadBy
  <2> QED
    BY <2>2
<1>2. ASSUME NEW k \in S PROVE k + 1 \in S
  <2>1. PICK r : ReadBy(r, k)
    OBVIOUS
  <2> DEFINE q == [i \in 0..k + 1 |-> IF i = k + 1 THEN OnFrame(r[k], down[k + 1]) ELSE r[i]]
  <2>2. ASSUME NEW i \in 0..k + 1
        PROVE  q[i] = IF i = 0 THEN client ELSE OnFrame(q[i - 1], down[i])
    <3>1. CASE i = k + 1
      <4>1. q[i] = OnFrame(r[k], down[k + 1]) /\ i # 0 /\ i - 1 = k /\ q[k] = r[k]
        BY <3>1
      <4> QED
        BY <3>1, <4>1
    <3>2. CASE i # k + 1 /\ i # 0
      <4>1. i \in 0..k /\ i - 1 \in 0..k + 1 /\ i - 1 # k + 1
        BY <3>2
      <4>2. q[i] = r[i] /\ q[i - 1] = r[i - 1]
        BY <3>2, <4>1
      <4>3. r[i] = OnFrame(r[i - 1], down[i])
        BY <2>1, <3>2, <4>1 DEF ReadBy
      <4> QED
        BY <3>2, <4>2, <4>3
    <3>3. CASE i = 0
      <4>1. 0 \in 0..k /\ 0 # k + 1
        OBVIOUS
      <4>2. q[0] = r[0] /\ r[0] = client
        BY <2>1, <4>1 DEF ReadBy
      <4> QED
        BY <3>3, <4>2
    <3> QED
      BY <3>1, <3>2, <3>3
  <2>3. ReadBy(q, k + 1)
    <3>1. q = [i \in 0..k + 1 |-> q[i]]
      OBVIOUS
    <3> HIDE DEF q
    <3> QED
      BY <2>2, <3>1 DEF ReadBy
  <2> QED
    BY <2>3
<1>3. PICK r : ReadBy(r, n)
  <2>1. S = Nat
    BY <1>1, <1>2, SetInduction
  <2> QED
    BY <2>1
<1> DEFINE c == CHOOSE read : read = [i \in 0..n |-> IF i = 0 THEN client ELSE OnFrame(read[i - 1], down[i])]
<1>4. ReadBy(c, n)
  BY <1>3 DEF ReadBy
<1>5. After(n) = c[n]
  BY DEF After
<1> QED
  BY <1>4, <1>5

-----------------------------------------------------------------------------
\* One frame.

\* The three kinds of frames.
LEMMA FrameKinds ==
  ASSUME ClientAssumption, NEW f \in FrameType
  PROVE  /\ \/ f.type = "Tick" /\ f.tick \in 0..RaceTicks - 1 /\ f.same \in BOOLEAN
            \/ /\ Chunky(f) /\ f.tick \in 0..RaceTicks /\ f.index \in 0..Chunks - 1
               /\ f.holds \in Contents(RaceTicks)
            \/ f.type = "Result"
         /\ Entry(f) \in 0..RaceTicks /\ Exit(f) \in 0..RaceTicks /\ Entry(f) <= Exit(f)
<1>0. RaceTicks \in Nat \ {0} /\ Chunks \in Nat \ {0}
  BY DEF ClientAssumption
<1>1. \/ f.type = "Tick" /\ f.tick \in 0..RaceTicks - 1 /\ f.same \in BOOLEAN
      \/ /\ Chunky(f) /\ f.tick \in 0..RaceTicks /\ f.index \in 0..Chunks - 1
         /\ f.holds \in Contents(RaceTicks)
      \/ f.type = "Result"
  BY <1>0 DEF FrameType, Chunky
<1> QED
  BY <1>0, <1>1 DEF Entry, Exit, Chunky

\* What is past stays so.
LEMMA PastLater ==
  ASSUME ClientAssumption, NEW f \in FrameType, NEW a \in Int, NEW b \in Int, a <= b, Past(f, a)
  PROVE  Past(f, b)
<1>1. Exit(f) \in Int
  BY FrameKinds DEF ClientAssumption
<1>2. Chunky(f) => f.holds \in Int
  BY FrameKinds DEF Contents, Refused, Halfway, Chunky, ClientAssumption
<1> QED
  BY <1>1, <1>2 DEF Past

\* What a client may read next after f, if it stands where f ends.
LEMMA ReadyForNext ==
  ASSUME ClientAssumption, HostInv, StreamInv,
         NEW k \in Nat, k < Len(down), NEW c,
         c.need \in BOOLEAN, c.failed \in BOOLEAN, c.world.tick \in Int, c.recorder.next \in Int,
         Partial(down[k + 1]) => Len(c.chunks) = down[k + 1].index + 1,
         Following(c) /\ Partial(down[k + 1]) => down[k + 1].tick <= c.world.tick,
         Following(c) /\ ~Partial(down[k + 1]) => c.world.tick = Exit(down[k + 1]),
         Records(c) => Exit(down[k + 1]) <= c.recorder.next,
         ~spectator => c.world.tick <= Exit(down[k + 1])
                       \/ \A j \in k + 1..Len(down) : c.world.tick <= Entry(down[j])
  PROVE  Fits(c, k + 1)
<1> DEFINE f == down[k + 1]
           g == down[k + 2]
<1>0. f \in FrameType /\ k + 1 \in 1..Len(down)
  BY DEF StreamInv
<1>1. ASSUME k + 1 < Len(down) PROVE Ready(c, g)
  <2>1. g \in FrameType /\ Succeeds(f, g)
    <3>1. k + 1 \in 1..Len(down) - 1 /\ (k + 1) + 1 = k + 2 /\ k + 2 \in 1..Len(down)
      BY <1>1 DEF StreamInv
    <3> QED
      BY <3>1 DEF StreamInv
  <2>2. /\ Entry(g) \in Int /\ Exit(f) \in Int /\ Entry(f) \in Int
        /\ Chunky(f) => f.tick = Entry(f) /\ Exit(f) = Entry(f)
    <3>1. Entry(g) \in Int /\ Exit(f) \in Int /\ Entry(f) \in Int
      BY <1>0, <2>1, FrameKinds
    <3>2. Chunky(f) => f.tick = Entry(f) /\ Exit(f) = Entry(f)
      BY DEF Chunky, Entry, Exit
    <3> QED
      BY <3>1, <3>2
  <2>3. Partial(f) => Chunky(g)
    BY <2>1 DEF Succeeds
  <2> HIDE DEF f, g
  <2>4. Chunky(g) /\ g.index > 0 => Len(c.chunks) = g.index
    BY <2>1 DEF Succeeds, f
  <2>5. Partial(f) => Chunky(f)
    BY DEF Partial
  <2>6. Following(c) => Entry(g) <= c.world.tick /\ (~Chunky(g) => Entry(g) = c.world.tick)
    BY <2>1, <2>2, <2>3, <2>5 DEF Succeeds, f
  <2>7. Records(c) => Entry(g) <= c.recorder.next
    BY <2>1, <2>2 DEF Succeeds, f
  <2> QED
    BY <2>4, <2>6, <2>7 DEF Ready
<1>2. k + 1 = Len(down) /\ host.attached =>
        /\ Following(c) => c.world.tick = host.cursor
        /\ Records(c) => host.cursor <= c.recorder.next
  BY <1>0 DEF StreamInv
<1>3. ASSUME ~spectator, NEW j \in k + 2..Len(down) PROVE c.world.tick <= Entry(down[j])
  <2>1. j \in 1..Len(down) /\ k + 1 < j /\ j \in k + 1..Len(down)
    BY DEF StreamInv
  <2>2. Exit(f) <= Entry(down[j]) /\ down[j] \in FrameType
    BY <1>0, <1>3, <2>1 DEF StreamInv
  <2>3. Exit(f) \in Int /\ Entry(down[j]) \in Int
    BY <1>0, <2>2, FrameKinds
  <2> QED
    BY <1>3, <2>1, <2>2, <2>3
<1>4. (k + 1) + 1 = k + 2
  OBVIOUS
<1> QED
  BY <1>1, <1>2, <1>3, <1>4 DEF Fits

\* What a Tick does that is the client's next: a step, or a divergence.
LEMMA TickEffect ==
  ASSUME ClientAssumption, NEW c \in ClientState, NEW f \in FrameType, f.type = "Tick",
         ~c.need, f.tick = c.world.tick, NEW d, d = OnFrame(c, f)
  PROVE  /\ d \in ClientState
         /\ d.world.tick = c.world.tick + 1 /\ (~d.need => d.world.same) /\ ~d.valid
         /\ ~d.need => ~d.failed
         /\ d.chunks = c.chunks /\ d.reconnected = c.reconnected /\ d.saved = c.saved
         /\ d.recorder.whole =>
              c.recorder.whole /\ ~d.need /\ f.tick = c.recorder.next
              /\ d.recorder.next = c.recorder.next + 1
<1> DEFINE same == c.world.same /\ f.same
           w == [tick |-> c.world.tick + 1, same |-> same]
           a == [c EXCEPT !.world = w, !.valid = FALSE]
<1>0. /\ RaceTicks \in Nat \ {0} /\ f.tick \in 0..RaceTicks - 1 /\ f.same \in BOOLEAN
      /\ c.world \in WorldType /\ same \in BOOLEAN
  BY FrameKinds DEF ClientAssumption, Chunky, ClientState
<1>1. w \in WorldType /\ w.tick = c.world.tick + 1 /\ (w.same <=> same)
  <2>1. c.world.tick + 1 \in 0..RaceTicks
    BY <1>0
  <2> HIDE DEF same
  <2> QED
    BY <1>0, <2>1 DEF WorldType
<1>2. a = AppliedTick(c, f)
  BY DEF AppliedTick
<1> DEFINE ok == [a EXCEPT !.failed = FALSE]
<1>3. d = IF same THEN Recorded(ok, f) ELSE Resync(a)
  <2>1. OnFrame(c, f) = OnTick(c, f)
    BY DEF OnFrame
  <2>2. a.world.same <=> same
    BY <1>1 DEF ClientState
  <2> HIDE DEF a, w, same
  <2>3. OnTick(c, f) = IF a.world.same THEN Recorded(ok, f) ELSE Resync(a)
    BY <1>2 DEF OnTick, Heeds
  <2> QED
    BY <2>1, <2>2, <2>3
<1> HIDE DEF w, same
<1>4. /\ a \in ClientState /\ a.world = w /\ ~a.valid /\ a.need = c.need /\ a.chunks = c.chunks
      /\ a.reconnected = c.reconnected /\ a.saved = c.saved /\ a.recorder = c.recorder
  BY <1>1 DEF ClientState
<1> HIDE DEF a
<1>41. /\ ok \in ClientState /\ ok.world = a.world /\ ok.valid = a.valid /\ ok.need = a.need
       /\ ok.chunks = a.chunks /\ ok.reconnected = a.reconnected /\ ok.saved = a.saved
       /\ ok.recorder = a.recorder /\ ~ok.failed
  BY <1>4 DEF ClientState
<1> HIDE DEF ok
<1> DEFINE Out(r) == [ok EXCEPT !.recorder = r]
<1>5. ASSUME NEW r \in [next : 0..RaceTicks, whole : BOOLEAN]
      PROVE  /\ Out(r) \in ClientState /\ Out(r).world = a.world /\ Out(r).valid = a.valid
             /\ Out(r).need = a.need /\ Out(r).chunks = a.chunks /\ Out(r).recorder = r
             /\ Out(r).reconnected = a.reconnected /\ Out(r).saved = a.saved /\ ~Out(r).failed
  BY <1>41, <1>5 DEF ClientState
<1> DEFINE spoilt == [a.recorder EXCEPT !.whole = FALSE]
           longer == [a.recorder EXCEPT !.next = a.recorder.next + 1]
<1>6. a.recorder \in [next : 0..RaceTicks, whole : BOOLEAN]
  BY <1>4 DEF ClientState
<1>7. spoilt \in [next : 0..RaceTicks, whole : BOOLEAN] /\ ~spoilt.whole
  BY <1>6
<1>8. CASE ~same
  <2>1. d = [a EXCEPT !.need = TRUE, !.recorder = spoilt]
    BY <1>3, <1>4, <1>8 DEF Resync, ClientState
  <2> HIDE DEF spoilt, longer, Out
  <2>2. /\ d \in ClientState /\ d.world = a.world /\ d.valid = a.valid /\ d.need
        /\ d.chunks = a.chunks /\ d.reconnected = a.reconnected /\ d.saved = a.saved
        /\ d.recorder = spoilt
    <3> DEFINE b == [a EXCEPT !.need = TRUE]
    <3>1. /\ b \in ClientState /\ b.world = a.world /\ b.valid = a.valid /\ b.need
          /\ b.chunks = a.chunks /\ b.reconnected = a.reconnected /\ b.saved = a.saved
      BY <1>4 DEF ClientState
    <3>2. d = [b EXCEPT !.recorder = spoilt]
      BY <2>1
    <3> HIDE DEF b
    <3>3. /\ d \in ClientState /\ d.world = b.world /\ d.valid = b.valid /\ d.need = b.need
          /\ d.chunks = b.chunks /\ d.reconnected = b.reconnected /\ d.saved = b.saved
          /\ d.recorder = spoilt
      BY <1>7, <3>1, <3>2 DEF ClientState
    <3> QED
      BY <3>1, <3>3
  <2> QED
    BY <1>1, <1>4, <1>7, <2>2
<1>9. CASE same /\ a.recorder.whole /\ f.tick = a.recorder.next
  <2>1. longer \in [next : 0..RaceTicks, whole : BOOLEAN] /\ longer.next = a.recorder.next + 1
        /\ longer.whole = a.recorder.whole
    <3>1. a.recorder.next + 1 \in 0..RaceTicks
      BY <1>0, <1>9
    <3> QED
      BY <1>6, <3>1
  <2>2. d = Out(longer)
    BY <1>3, <1>41, <1>9 DEF Recorded, ClientState
  <2> HIDE DEF longer, Out
  <2>3. /\ d \in ClientState /\ d.world = a.world /\ d.valid = a.valid /\ d.need = a.need
        /\ d.chunks = a.chunks /\ d.reconnected = a.reconnected /\ d.saved = a.saved
        /\ d.recorder = longer /\ ~d.failed
    BY <1>5, <2>1, <2>2
  <2> QED
    BY <1>1, <1>4, <1>9, <2>1, <2>3
<1>10. CASE same /\ ~(a.recorder.whole /\ f.tick = a.recorder.next)
  <2>1. \/ d = ok /\ ~a.recorder.whole
        \/ d = Out(spoilt)
    BY <1>3, <1>41, <1>10 DEF Recorded, ClientState
  <2> HIDE DEF spoilt, Out
  <2>2. /\ d \in ClientState /\ d.world = a.world /\ d.valid = a.valid /\ d.need = a.need
        /\ d.chunks = a.chunks /\ d.reconnected = a.reconnected /\ d.saved = a.saved
        /\ ~d.recorder.whole /\ ~d.failed
    BY <1>41, <1>5, <1>7, <2>1
  <2> QED
    BY <1>1, <1>4, <1>10, <2>2
<1> QED
  BY <1>8, <1>9, <1>10

\* From c to d, a driver that has read f and goes on from no failed snapshot has not
\* stepped back, or stands where f begins.
Forward(c, f, d) ==
  ~spectator /\ ~d.failed =>
    (~c.failed /\ c.world.tick <= d.world.tick) \/ Entry(f) <= d.world.tick

\* Reading a frame keeps the client sound and fitting, and no driver steps back.
LEMMA TickRead ==
  ASSUME ClientAssumption, HostInv, StreamInv,
         NEW k \in Nat, k < Len(down), NEW f, f = down[k + 1], f.type = "Tick",
         NEW c, Sound(c), Fits(c, k), NEW d, d = OnFrame(c, f)
  PROVE  Sound(d) /\ Fits(d, k + 1) /\ Forward(c, f, d)
<1>0. f \in FrameType /\ k + 1 \in 1..Len(down) /\ Past(f, host.simulated)
  BY DEF StreamInv
<1>1. /\ f.tick \in 0..RaceTicks - 1 /\ Exit(f) = f.tick + 1 /\ Entry(f) = f.tick
      /\ ~Chunky(f) /\ ~Partial(f)
  BY <1>0, FrameKinds DEF Exit, Entry, Chunky, Partial
<1>2. /\ c \in ClientState /\ c.world.tick <= host.simulated /\ Len(c.chunks) < Chunks
      /\ Following(c) => c.world.same
      /\ c.valid /\ ~c.failed => c.cache = c.world
      /\ RecordingInv(c)
  BY DEF Sound
<1>3. /\ RaceTicks \in Nat \ {0} /\ host.simulated \in 0..RaceTicks
      /\ c.world.tick \in 0..RaceTicks /\ c.need \in BOOLEAN /\ c.failed \in BOOLEAN
      /\ c.recorder \in [next : 0..RaceTicks, whole : BOOLEAN]
  BY <1>2 DEF ClientAssumption, HostInv, HostState, ClientState, WorldType
<1>4. Following(c) => f.tick = c.world.tick
  BY <1>1 DEF Fits, Ready
<1>5. /\ ~spectator => \A j \in k + 1..Len(down) : c.world.tick <= Entry(down[j])
      /\ Exit(f) <= host.simulated
  BY <1>0 DEF Fits, Past
<1>6. CASE c.need
  <2>1. d = c
    BY <1>6 DEF OnFrame, OnTick, Heeds
  <2>2. ~Partial(down[k + 1]) /\ c.world.tick \in Int /\ c.recorder.next \in Int
    BY <1>1, <1>3
  <2>3. Fits(c, k + 1)
    <3>1. /\ Partial(down[k + 1]) => Len(c.chunks) = down[k + 1].index + 1
          /\ ~Following(c) /\ ~Records(c)
      BY <1>2, <1>6, <2>2 DEF Following, RecordingInv
    <3>2. ~spectator => c.world.tick <= Exit(down[k + 1])
                       \/ \A j \in k + 1..Len(down) : c.world.tick <= Entry(down[j])
      BY <1>5
    <3> QED
      BY <1>3, <2>2, <3>1, <3>2, ReadyForNext
  <2> QED
    BY <1>3, <2>1, <2>3 DEF Forward
<1>7. CASE ~c.need /\ f.tick = c.world.tick
  <2>1. /\ d \in ClientState
        /\ d.world.tick = c.world.tick + 1 /\ (~d.need => d.world.same) /\ ~d.valid
        /\ ~d.need => ~d.failed
        /\ d.chunks = c.chunks /\ d.reconnected = c.reconnected /\ d.saved = c.saved
        /\ d.recorder.whole =>
              c.recorder.whole /\ ~d.need /\ f.tick = c.recorder.next
              /\ d.recorder.next = c.recorder.next + 1
    BY <1>0, <1>2, <1>7, TickEffect
  <2>2. d.world.tick = Exit(f) /\ d.world.tick \in Int /\ d.need \in BOOLEAN
        /\ d.world.tick <= host.simulated /\ d.failed \in BOOLEAN /\ d.recorder.next \in Int
    <3>1. d.need \in BOOLEAN /\ d.failed \in BOOLEAN /\ d.recorder.next \in 0..RaceTicks
      BY <2>1 DEF ClientState
    <3>2. d.world.tick = f.tick + 1 /\ f.tick \in Int
      BY <1>1, <1>3, <1>7, <2>1
    <3> QED
      BY <1>1, <1>3, <1>5, <3>1, <3>2
  <2>3. RecordingInv(d) /\ (Records(d) => d.recorder.next = Exit(f))
    <3>1. d.recorder.whole => d.recorder.next = Exit(f)
      BY <1>1, <2>1
    <3>2. ~d.reconnected /\ d.saved # 0 => d.saved = RaceTicks
      BY <1>2, <2>1 DEF RecordingInv
    <3> QED
      BY <2>1, <3>1, <3>2 DEF RecordingInv, Records
  <2>4. Sound(d)
    BY <1>2, <2>1, <2>2, <2>3 DEF Sound, Following
  <2>5. Fits(d, k + 1)
    <3>1. Exit(f) <= Exit(f) /\ (Records(d) => Exit(f) <= d.recorder.next)
      BY <2>2, <2>3
    <3>2. ~Partial(down[k + 1]) /\ d.world.tick = Exit(down[k + 1])
      BY <1>1, <2>2
    <3> QED
      BY <2>2, <3>1, <3>2, ReadyForNext
  <2>6. Forward(c, f, d)
    <3>1. Entry(f) <= d.world.tick
      BY <1>1, <1>3, <2>2
    <3> QED
      BY <3>1 DEF Forward
  <2> QED
    BY <2>4, <2>5, <2>6
<1>8. CASE ~c.need /\ f.tick # c.world.tick
  <2> DEFINE spoilt == [c.recorder EXCEPT !.whole = FALSE]
  <2>1. d = [c EXCEPT !.need = TRUE, !.recorder = spoilt]
    BY <1>2, <1>8 DEF OnFrame, OnTick, Heeds, Resync, ClientState
  <2>2. spoilt \in [next : 0..RaceTicks, whole : BOOLEAN] /\ ~spoilt.whole
        /\ spoilt.next = c.recorder.next
    BY <1>3
  <2> HIDE DEF spoilt
  <2>3. /\ d \in ClientState /\ d.world = c.world /\ d.valid = c.valid /\ d.cache = c.cache
        /\ d.need /\ d.failed = c.failed /\ d.chunks = c.chunks /\ d.recorder = spoilt
        /\ d.reconnected = c.reconnected /\ d.saved = c.saved
    <3>1. /\ d.world = c.world /\ d.valid = c.valid /\ d.cache = c.cache
          /\ d.need = TRUE /\ d.failed = c.failed /\ d.chunks = c.chunks /\ d.recorder = spoilt
          /\ d.reconnected = c.reconnected /\ d.saved = c.saved
      BY <1>2, <2>1 DEF ClientState
    <3>2. d \in ClientState
      BY <1>2, <2>1, <2>2, Zenon DEF ClientState
    <3> QED
      BY <3>1, <3>2
  <2>4. ~Following(d) /\ ~Records(d) /\ RecordingInv(d)
    BY <1>2, <2>2, <2>3 DEF Following, Records, RecordingInv
  <2>5. Sound(d)
    BY <1>2, <2>3, <2>4 DEF Sound
  <2>6. Fits(d, k + 1)
    <3>1. ~Partial(down[k + 1]) /\ d.need \in BOOLEAN /\ d.failed \in BOOLEAN
          /\ d.world.tick \in Int /\ d.recorder.next \in Int
      BY <1>1, <1>3, <2>2, <2>3
    <3>2. ~spectator => \A j \in k + 1..Len(down) : d.world.tick <= Entry(down[j])
      BY <1>5, <2>3
    <3> QED
      BY <2>4, <3>1, <3>2, ReadyForNext
  <2>7. Forward(c, f, d)
    BY <1>3, <2>3 DEF Forward
  <2> QED
    BY <2>5, <2>6, <2>7
<1> QED
  BY <1>3, <1>6, <1>7, <1>8

LEMMA ChunkRead ==
  ASSUME ClientAssumption, HostInv, StreamInv,
         NEW k \in Nat, k < Len(down), NEW f, f = down[k + 1], f.type = "SnapshotChunk",
         NEW c, Sound(c), Fits(c, k), NEW d, d = OnFrame(c, f)
  PROVE  Sound(d) /\ Fits(d, k + 1) /\ Forward(c, f, d)
<1>0. f \in FrameType /\ k + 1 \in 1..Len(down) /\ Past(f, host.simulated)
  BY DEF StreamInv
<1>1. /\ f.tick \in 0..RaceTicks /\ f.index \in 0..Chunks - 1
      /\ Exit(f) = f.tick /\ Entry(f) = f.tick /\ Chunky(f) /\ f.holds \in Contents(RaceTicks)
      /\ Exit(f) <= host.simulated /\ f.holds <= host.simulated
      /\ ~spectator => f.holds <= f.tick
  <2>1. Chunky(f)
    BY DEF Chunky
  <2> QED
    BY <1>0, <2>1, FrameKinds DEF Exit, Entry, Chunky, Past
<1>2. /\ c \in ClientState /\ c.world.tick <= host.simulated /\ Len(c.chunks) < Chunks
      /\ Following(c) => c.world.same
      /\ c.valid /\ ~c.failed => c.cache = c.world
      /\ RecordingInv(c)
  BY DEF Sound
<1>3. /\ RaceTicks \in Nat \ {0} /\ Chunks \in Nat \ {0} /\ host.simulated \in 0..RaceTicks
      /\ c.world.tick \in 0..RaceTicks /\ c.need \in BOOLEAN /\ c.failed \in BOOLEAN /\ c.chunks \in Seq(FrameType)
      /\ c.recorder \in [next : 0..RaceTicks, whole : BOOLEAN]
  BY <1>2 DEF ClientAssumption, HostInv, HostState, ClientState, WorldType
<1>4. /\ f.index > 0 => Len(c.chunks) = f.index
      /\ Following(c) => f.tick <= c.world.tick
      /\ Records(c) => f.tick <= c.recorder.next
  BY <1>1 DEF Fits, Ready
<1>5. ~spectator => \A j \in k + 1..Len(down) : c.world.tick <= Entry(down[j])
  BY DEF Fits
<1> DEFINE chunks == Gathered(c, f)
<1>6. chunks \in Seq(FrameType) /\ Len(chunks) = f.index + 1
  <2> DEFINE before == IF f.index = 0 THEN <<>> ELSE c.chunks
  <2>1. before \in Seq(FrameType) /\ Len(before) = f.index
    <3>1. CASE f.index = 0
      BY <3>1
    <3>2. CASE f.index # 0
      <4>1. f.index > 0
        BY <1>1, <1>3, <3>2
      <4> QED
        BY <1>3, <1>4, <3>2, <4>1
    <3> QED
      BY <3>1, <3>2
  <2>2. chunks = Append(before, f)
    BY DEF Gathered
  <2> HIDE DEF before, chunks
  <2> QED
    <3>1. Append(before, f) \in Seq(FrameType) /\ Len(Append(before, f)) = Len(before) + 1
      BY <1>0, <2>1, AppendProperties
    <3> QED
      BY <2>1, <2>2, <3>1
<1> HIDE DEF chunks
<1>7. OnFrame(c, f) = OnChunk(c, f)
  BY DEF OnFrame
<1>8. CASE Partial(f)
  <2>1. f.index + 1 < Chunks
    BY <1>8 DEF Partial
  <2>2. d = [c EXCEPT !.chunks = chunks]
    BY <1>1, <1>3, <1>7, <2>1 DEF OnChunk, chunks
  <2>3. /\ d \in ClientState /\ d.world = c.world /\ d.valid = c.valid /\ d.cache = c.cache
        /\ d.need = c.need /\ d.failed = c.failed /\ d.chunks = chunks /\ d.recorder = c.recorder
        /\ d.reconnected = c.reconnected /\ d.saved = c.saved
    BY <1>2, <1>6, <2>2 DEF ClientState
  <2>4. RecordingInv(d) /\ (Following(d) <=> Following(c)) /\ (Records(d) <=> Records(c))
    BY <1>2, <2>3 DEF RecordingInv, Following, Records
  <2>5. Sound(d)
    BY <1>2, <1>6, <2>1, <2>3, <2>4 DEF Sound
  <2>6. Fits(d, k + 1)
    <3>1. /\ Partial(down[k + 1]) => Len(d.chunks) = down[k + 1].index + 1
          /\ Following(d) /\ Partial(down[k + 1]) => down[k + 1].tick <= d.world.tick
          /\ Following(d) /\ ~Partial(down[k + 1]) => d.world.tick = Exit(down[k + 1])
          /\ Records(d) => Exit(down[k + 1]) <= d.recorder.next
      BY <1>1, <1>4, <1>6, <1>8, <2>3, <2>4
    <3>2. ~spectator => d.world.tick <= Exit(down[k + 1])
                       \/ \A j \in k + 1..Len(down) : d.world.tick <= Entry(down[j])
      BY <1>5, <2>3
    <3>3. d.need \in BOOLEAN /\ d.failed \in BOOLEAN /\ d.world.tick \in Int
          /\ d.recorder.next \in Int
      BY <1>3, <2>3
    <3> QED
      BY <3>1, <3>2, <3>3, ReadyForNext
  <2> QED
    BY <1>3, <2>3, <2>5, <2>6 DEF Forward
<1>9. CASE ~Partial(f)
  <2>1. f.index + 1 = Chunks
    <3>1. ~ (f.index + 1 < Chunks)
      BY <1>1, <1>9 DEF Partial
    <3>2. f.index \in 0..Chunks - 1 /\ Chunks \in Nat
      BY <1>1, <1>3
    <3> QED
      BY <3>1, <3>2
  <2> DEFINE w == Restored(c.world, f.holds)
             b == [c EXCEPT !.world = w, !.chunks = <<>>]
  <2>2. d = IF f.holds = f.tick
            THEN [b EXCEPT !.valid = FALSE, !.need = FALSE, !.failed = FALSE]
            ELSE [b EXCEPT !.failed = TRUE]
    BY <1>6, <1>7, <2>1 DEF OnChunk, OnSnapshot, chunks
  <2>3. /\ w \in WorldType /\ w.tick <= host.simulated
        /\ f.holds = f.tick => w.tick = f.tick /\ w.same
        /\ w.tick = c.world.tick \/ (w.tick = f.holds /\ f.holds \in 0..RaceTicks)
    <3>1. CASE f.holds = Refused
      <4>1. w = c.world /\ f.holds # f.tick
        BY <1>1, <3>1 DEF Restored, Refused, Halfway
      <4> QED
        BY <1>2, <4>1 DEF ClientState
    <3>2. CASE f.holds = Halfway
      <4>1. w = [c.world EXCEPT !.same = FALSE] /\ f.holds # f.tick
        BY <1>1, <3>2 DEF Restored, Refused, Halfway
      <4> QED
        BY <1>2, <4>1 DEF ClientState, WorldType
    <3>3. CASE f.holds # Refused /\ f.holds # Halfway
      <4>1. w = [tick |-> f.holds, same |-> TRUE] /\ f.holds \in 0..RaceTicks
        BY <1>1, <3>3 DEF Restored, Contents
      <4> QED
        BY <1>1, <4>1 DEF WorldType
    <3> QED
      BY <3>1, <3>2, <3>3
  <2> HIDE DEF w
  <2>4. b \in ClientState /\ b.world = w /\ b.chunks = <<>> /\ b.recorder = c.recorder
        /\ b.reconnected = c.reconnected /\ b.saved = c.saved /\ b.need = c.need
    <3>1. <<>> \in Seq(FrameType)
      OBVIOUS
    <3> QED
      BY <1>2, <2>3, <3>1 DEF ClientState
  <2> HIDE DEF b
  <2>5. /\ d \in ClientState /\ d.world = w /\ d.chunks = <<>> /\ d.recorder = c.recorder
        /\ d.reconnected = c.reconnected /\ d.saved = c.saved
        /\ f.holds = f.tick => ~d.valid /\ ~d.need /\ ~d.failed
        /\ f.holds # f.tick => d.need = c.need /\ d.failed
    <3>1. CASE f.holds = f.tick
      <4>1. d = [b EXCEPT !.valid = FALSE, !.need = FALSE, !.failed = FALSE]
        BY <2>2, <3>1
      <4> QED
        BY <2>4, <3>1, <4>1 DEF ClientState
    <3>2. CASE f.holds # f.tick
      <4>1. d = [b EXCEPT !.failed = TRUE]
        BY <2>2, <3>2
      <4> QED
        BY <2>4, <3>2, <4>1 DEF ClientState
    <3> QED
      BY <3>1, <3>2
  <2>6. Following(d) => f.holds = f.tick /\ d.world.same /\ d.world.tick = f.tick
    BY <2>3, <2>5 DEF Following
  <2>7. RecordingInv(d) /\ (Records(d) => Records(c))
    <3>1. d.need => c.need
      BY <2>5
    <3>2. Records(d) <=> Records(c)
      BY <2>5 DEF Records
    <3> QED
      BY <1>2, <2>5, <3>1, <3>2 DEF RecordingInv
  <2>8. Sound(d)
    <3>1. d.valid /\ ~d.failed => d.cache = d.world
      BY <2>5
    <3>2. Len(d.chunks) < Chunks
      BY <1>3, <2>5
    <3> QED
      BY <2>3, <2>5, <2>6, <2>7, <3>1, <3>2 DEF Sound
  <2>9. Fits(d, k + 1)
    <3>1. /\ ~Partial(down[k + 1])
          /\ Following(d) => d.world.tick = Exit(down[k + 1])
          /\ Records(d) => Exit(down[k + 1]) <= d.recorder.next
      BY <1>1, <1>4, <1>9, <2>5, <2>6, <2>7
    <3>2. /\ d.world.tick \in Int /\ d.recorder.next \in Int
          /\ d.need \in BOOLEAN /\ d.failed \in BOOLEAN
      BY <1>3, <2>3, <2>5 DEF ClientState, WorldType
    <3>3. ~spectator => d.world.tick <= Exit(down[k + 1])
                       \/ \A j \in k + 1..Len(down) : d.world.tick <= Entry(down[j])
      <4>1. CASE w.tick = c.world.tick
        BY <1>5, <2>5, <4>1
      <4>2. CASE w.tick = f.holds
        BY <1>1, <2>5, <4>2
      <4> QED
        BY <2>3, <4>1, <4>2
    <3> QED
      BY <3>1, <3>2, <3>3, ReadyForNext
  <2>10. Forward(c, f, d)
    <3>1. ~d.failed => d.world.tick = f.tick
      BY <2>3, <2>5
    <3> QED
      BY <1>1, <3>1 DEF Forward
  <2> QED
    BY <2>8, <2>9, <2>10
<1> QED
  BY <1>8, <1>9

LEMMA ResultRead ==
  ASSUME ClientAssumption, HostInv, StreamInv,
         NEW k \in Nat, k < Len(down), NEW f, f = down[k + 1], f.type = "Result",
         NEW c, Sound(c), Fits(c, k), NEW d, d = OnFrame(c, f)
  PROVE  Sound(d) /\ Fits(d, k + 1) /\ Forward(c, f, d)
<1>1. Entry(f) = RaceTicks /\ Exit(f) = RaceTicks /\ ~Chunky(f) /\ ~Partial(f)
  BY DEF Entry, Exit, Chunky, Partial
<1>2. /\ c \in ClientState /\ c.world.tick <= host.simulated /\ Len(c.chunks) < Chunks
      /\ Following(c) => c.world.same
      /\ c.valid /\ ~c.failed => c.cache = c.world
      /\ RecordingInv(c)
  BY DEF Sound
<1>3. /\ RaceTicks \in Nat \ {0} /\ c.world.tick \in 0..RaceTicks /\ c.need \in BOOLEAN /\ c.failed \in BOOLEAN
      /\ c.recorder \in [next : 0..RaceTicks, whole : BOOLEAN]
  BY <1>2 DEF ClientAssumption, ClientState, WorldType
<1>4. /\ Following(c) => c.world.tick = RaceTicks
      /\ Records(c) => RaceTicks <= c.recorder.next
  BY <1>1 DEF Fits, Ready
<1> DEFINE saved == IF c.recorder.whole THEN c.recorder.next ELSE 0
<1>5. OnFrame(c, f) = OnResult(c)
  BY DEF OnFrame
<1>6. saved \in 0..RaceTicks
  BY <1>3
<1>7. /\ d \in ClientState /\ d.world = c.world /\ d.valid = c.valid /\ d.cache = c.cache
      /\ d.need = c.need /\ d.failed = c.failed /\ d.chunks = c.chunks /\ d.recorder = c.recorder
      /\ d.reconnected = c.reconnected /\ d.saved \in {c.saved, saved}
  <2>1. d = c \/ d = [c EXCEPT !.result = TRUE, !.saved = saved]
    BY <1>5 DEF OnResult
  <2> HIDE DEF saved
  <2>2. CASE d = c
    BY <1>2, <2>2
  <2>3. CASE d = [c EXCEPT !.result = TRUE, !.saved = saved]
    <3>1. /\ d.world = c.world /\ d.valid = c.valid /\ d.cache = c.cache
          /\ d.need = c.need /\ d.failed = c.failed /\ d.chunks = c.chunks /\ d.recorder = c.recorder
          /\ d.reconnected = c.reconnected /\ d.saved = saved
      BY <1>2, <2>3 DEF ClientState
    <3>2. d \in ClientState
      BY <1>2, <1>6, <2>3, Zenon DEF ClientState
    <3> QED
      BY <3>1, <3>2
  <2> QED
    BY <2>1, <2>2, <2>3
<1>8. RecordingInv(d) /\ (Following(d) <=> Following(c)) /\ (Records(d) <=> Records(c))
  <2>1. ~c.reconnected => saved = 0 \/ saved = RaceTicks
    <3>1. Records(c) => c.recorder.next = RaceTicks
      BY <1>3, <1>4
    <3> QED
      BY <3>1 DEF Records
  <2> HIDE DEF saved
  <2>2. (Following(d) <=> Following(c)) /\ (Records(d) <=> Records(c))
    BY <1>7 DEF Following, Records
  <2> QED
    BY <1>2, <1>7, <2>1, <2>2 DEF RecordingInv
<1>9. Sound(d)
  BY <1>2, <1>7, <1>8 DEF Sound
<1>10. Fits(d, k + 1)
  <2>1. ~Partial(down[k + 1]) /\ Exit(down[k + 1]) = RaceTicks
    BY <1>1
  <2>2. /\ Partial(down[k + 1]) => Len(d.chunks) = down[k + 1].index + 1
        /\ Following(d) => d.world.tick = Exit(down[k + 1])
        /\ Records(d) => Exit(down[k + 1]) <= d.recorder.next
    BY <1>4, <1>7, <1>8, <2>1
  <2>4. Following(d) /\ Partial(down[k + 1]) => down[k + 1].tick <= d.world.tick
    BY <2>1
  <2>3. /\ d.world.tick <= Exit(down[k + 1]) /\ d.need \in BOOLEAN /\ d.failed \in BOOLEAN
        /\ d.world.tick \in Int /\ d.recorder.next \in Int
    BY <1>3, <1>7, <2>1
  <2> QED
    BY <2>2, <2>3, <2>4, ReadyForNext
<1> QED
  BY <1>3, <1>7, <1>9, <1>10 DEF Forward

\* So does reading any number of them, up to all of them.
LEMMA PassRead ==
  ASSUME ClientAssumption, HostInv, StreamInv, Sound(client), Fits(client, 0),
         NEW n \in 0..Len(down)
  PROVE  /\ Sound(After(n)) /\ Fits(After(n), n)
         /\ ~spectator /\ ~After(n).failed => client.world.tick <= After(n).world.tick
         /\ n = 0 => After(n) = client
<1>1. PICK read : ReadBy(read, n) /\ After(n) = read[n]
  <2>1. n \in Nat
    BY DEF StreamInv
  <2> QED
    BY <2>1, AfterReads
<1>2. n \in Nat /\ Len(down) \in Nat /\ n <= Len(down)
  BY DEF StreamInv
<1> DEFINE Good(k) == /\ Sound(read[k]) /\ Fits(read[k], k)
                      /\ ~spectator /\ ~read[k].failed => client.world.tick <= read[k].world.tick
           S == {k \in Nat : k <= n => Good(k)}
<1>3. \A i \in 0..n : read[i] = IF i = 0 THEN client ELSE OnFrame(read[i - 1], down[i])
  BY <1>1 DEF ReadBy
<1>4. 0 \in S /\ read[0] = client
  <2>1. read[0] = client
    <3>1. 0 \in 0..n
      BY <1>2
    <3> QED
      BY <1>3, <3>1
  <2>2. client.world.tick <= client.world.tick
    <3>1. client.world.tick \in 0..RaceTicks /\ RaceTicks \in Nat
      BY DEF Sound, ClientState, WorldType, ClientAssumption
    <3> QED
      BY <3>1
  <2> QED
    BY <2>1, <2>2
<1>5. ASSUME NEW k \in S PROVE k + 1 \in S
  <2>0. SUFFICES ASSUME k + 1 <= n PROVE Good(k + 1)
    OBVIOUS
  <2>1. Good(k) /\ k < Len(down) /\ k + 1 \in 1..Len(down)
    BY <1>2, <2>0
  <2> DEFINE f == down[k + 1]
             c == read[k]
             d == read[k + 1]
  <2>2. d = OnFrame(c, f)
    <3>1. k + 1 \in 0..n /\ k + 1 # 0 /\ (k + 1) - 1 = k
      BY <1>2, <2>0
    <3> QED
      BY <1>3, <3>1
  <2>3. f.type \in {"Tick", "SnapshotChunk", "Result"}
    <3>1. f \in FrameType
      BY <2>1 DEF StreamInv
    <3> QED
      BY <3>1 DEF FrameType
  <2>4. f = down[k + 1]
    OBVIOUS
  <2> HIDE DEF f, c, d
  <2>5. Sound(c) /\ Fits(c, k) /\ (~spectator /\ ~c.failed => client.world.tick <= c.world.tick)
    BY <2>1 DEF c
  <2>6. Sound(d) /\ Fits(d, k + 1) /\ Forward(c, f, d)
    <3>1. k \in Nat
      OBVIOUS
    <3> QED
      BY <2>1, <2>2, <2>3, <2>4, <2>5, <3>1, TickRead, ChunkRead, ResultRead
  <2>7. client.world.tick \in Int /\ c.world.tick \in Int /\ d.world.tick \in Int
    BY <2>5, <2>6 DEF Sound, ClientState, WorldType
  <2>8. ~spectator => client.world.tick <= Entry(f) /\ Entry(f) \in Int
    <3>1. f \in FrameType /\ k + 1 \in 0 + 1..Len(down)
      BY <1>2, <2>1, <2>4 DEF StreamInv
    <3> QED
      BY <2>4, <3>1, FrameKinds, SMTT(20) DEF Fits, ClientAssumption
  <2>9. ~spectator /\ ~d.failed => client.world.tick <= d.world.tick
    BY <2>5, <2>6, <2>7, <2>8 DEF Forward
  <2> QED
    BY <2>6, <2>9 DEF d
<1>6. n \in S
  <2> HIDE DEF S
  <2>1. S \in SUBSET Nat
    BY DEF S
  <2>2. S = Nat
    BY <1>4, <1>5, <2>1, SetInduction
  <2> QED
    BY <1>2, <2>2
<1> QED
  BY <1>1, <1>2, <1>4, <1>6

-----------------------------------------------------------------------------
\* The host's steps.

\* Frames a host at tick now may send, that begin at one tick and end at another.
Leads(more, from, to, now) ==
  /\ more \in Seq(FrameType)
  /\ \A i \in 1..Len(more) : Past(more[i], now)
  /\ \A i \in 1..Len(more) - 1 : Succeeds(more[i], more[i + 1])
  /\ ~spectator => \A i \in 1..Len(more) : from <= Entry(more[i])
  /\ ~spectator => \A i, j \in 1..Len(more) : i < j => Exit(more[i]) <= Entry(more[j])
  /\ more = <<>> => to = from
  /\ more # <<>> =>
       /\ ~Partial(more[Len(more)]) /\ Exit(more[Len(more)]) = to
       /\ Chunky(more[1]) => more[1].index = 0
       /\ Entry(more[1]) <= from /\ (~Chunky(more[1]) => Entry(more[1]) = from)

\* What the host sends when it sends it from its cursor on.
LEMMA Sends ==
  ASSUME ClientAssumption, StepInv, HostInv', UNCHANGED <<spectator, client>>,
         host.attached, host.simulated <= host'.simulated,
         NEW more, down' = down \o more,
         Leads(more, host.cursor, host'.cursor, host'.simulated)
  PROVE  StreamInv' /\ Fits(client, 0)' /\ Sound(client)'
<1> DEFINE m == Len(down)
           n == Len(more)
<1>0. /\ down \in Seq(FrameType) /\ m \in Nat /\ n \in Nat
      /\ host.simulated \in Int /\ host'.simulated \in Int /\ host.cursor \in Int
      /\ host.cursor <= host.simulated
      /\ RaceTicks \in Nat \ {0} /\ Chunks \in Nat \ {0}
  <2>1. down \in Seq(FrameType) /\ more \in Seq(FrameType)
    BY DEF StepInv, StreamInv, Leads
  <2>2. RaceTicks \in Nat \ {0} /\ Chunks \in Nat \ {0}
    BY DEF ClientAssumption
  <2>3. /\ host.simulated \in 0..RaceTicks /\ host.cursor \in 0..RaceTicks
        /\ host.cursor <= host.simulated
    BY DEF StepInv, HostInv, HostState
  <2>4. host'.simulated \in 0..RaceTicks
    BY DEF HostInv, HostState
  <2> QED
    BY <2>1, <2>2, <2>3, <2>4
<1>01. more \in Seq(FrameType)
  BY DEF Leads
<1>02. /\ \A i \in 1..n : Past(more[i], host'.simulated)
       /\ \A i \in 1..n - 1 : Succeeds(more[i], more[i + 1])
       /\ ~spectator => \A i \in 1..n : host.cursor <= Entry(more[i])
       /\ ~spectator => \A i, j \in 1..n : i < j => Exit(more[i]) <= Entry(more[j])
  BY DEF Leads
<1>03. /\ more = <<>> => host'.cursor = host.cursor
       /\ more # <<>> =>
            /\ ~Partial(more[n]) /\ Exit(more[n]) = host'.cursor
            /\ Chunky(more[1]) => more[1].index = 0
            /\ Entry(more[1]) <= host.cursor /\ (~Chunky(more[1]) => Entry(more[1]) = host.cursor)
  BY DEF Leads
<1>04. m \in Nat /\ n \in Nat
  BY <1>0
<1>1. /\ down' \in Seq(FrameType) /\ Len(down') = m + n
      /\ \A i \in 1..m : down'[i] = down[i]
      /\ \A i \in m + 1..m + n : down'[i] = more[i - m]
  BY <1>0, <1>01
<1>2. /\ \A i \in 1..m : down[i] \in FrameType
      /\ \A i \in 1..n : more[i] \in FrameType
      /\ m = 0 <=> down = <<>>
      /\ n = 0 <=> more = <<>>
  BY <1>0, <1>01
<1>3. /\ \A i \in 1..m : Past(down[i], host.simulated) /\ Exit(down[i]) <= host.simulated
      /\ \A i \in 1..m - 1 : Succeeds(down[i], down[i + 1])
      /\ ~spectator => \A i, j \in 1..m : i < j => Exit(down[i]) <= Entry(down[j])
      /\ m # 0 => ~Partial(down[m]) /\ Exit(down[m]) = host.cursor
  BY <1>2 DEF StepInv, StreamInv, Past
<1>4. /\ \A i \in 1..m : Entry(down[i]) \in Int /\ Exit(down[i]) \in Int
      /\ \A i \in 1..n : Entry(more[i]) \in Int /\ Exit(more[i]) \in Int
  <2>1. ASSUME NEW f \in FrameType PROVE Entry(f) \in Int /\ Exit(f) \in Int
    BY <1>0, FrameKinds
  <2> QED
    BY <1>2, <2>1
<1>5. ASSUME m # 0, n # 0 PROVE Succeeds(down[m], more[1])
  <2>1. /\ ~Partial(down[m]) /\ Exit(down[m]) = host.cursor
        /\ more # <<>>
    BY <1>2, <1>3, <1>5
  <2> QED
    BY <1>03, <2>1 DEF Succeeds
<1>6. ASSUME ~spectator PROVE host.cursor = host.simulated
  BY <1>6 DEF StepInv, HostInv
<1> HIDE DEF m, n
<1>7. StreamInv'
  <2>1. \A i \in 1..m + n : Past(down'[i], host'.simulated)
    <3>1. SUFFICES ASSUME NEW i \in 1..m + n PROVE Past(down'[i], host'.simulated)
      OBVIOUS
    <3>2. CASE i <= m
      <4>1. i \in 1..m
        BY <1>04, <3>2
      <4>2. down'[i] = down[i] /\ down[i] \in FrameType /\ Past(down[i], host.simulated)
        BY <1>1, <1>2, <1>3, <4>1
      <4>3. Past(down[i], host'.simulated)
        BY <1>0, <4>2, PastLater
      <4> QED
        BY <4>2, <4>3
    <3>3. CASE i > m
      <4>1. i - m \in 1..n /\ i \in m + 1..m + n
        BY <1>04, <3>3
      <4> QED
        BY <1>1, <1>02, <4>1
    <3>4. i <= m \/ i > m
      BY <1>04
    <3> QED
      BY <3>2, <3>3, <3>4
  <2>2. \A i \in 1..(m + n) - 1 : Succeeds(down'[i], down'[i + 1])
    <3>1. SUFFICES ASSUME NEW i \in 1..(m + n) - 1 PROVE Succeeds(down'[i], down'[i + 1])
      OBVIOUS
    <3>2. CASE i < m
      <4>1. i \in 1..m - 1 /\ i \in 1..m /\ i + 1 \in 1..m
        BY <1>04, <3>2
      <4> QED
        BY <1>1, <1>3, <4>1
    <3>3. CASE i = m
      <4>1. m # 0 /\ n # 0 /\ m \in 1..m /\ m + 1 \in m + 1..m + n /\ (m + 1) - m = 1
        BY <1>04, <3>3
      <4> QED
        BY <1>1, <1>5, <3>3, <4>1
    <3>4. CASE i > m
      <4>1. /\ i - m \in 1..n - 1 /\ i \in m + 1..m + n /\ i + 1 \in m + 1..m + n
            /\ (i + 1) - m = (i - m) + 1
        BY <1>04, <3>4
      <4>2. down'[i] = more[i - m] /\ down'[i + 1] = more[(i - m) + 1]
        BY <1>1, <4>1
      <4> QED
        BY <1>02, <4>1, <4>2
    <3>5. i < m \/ i = m \/ i > m
      BY <1>04
    <3> QED
      BY <3>2, <3>3, <3>4, <3>5
  <2>3. ASSUME ~spectator, NEW i \in 1..m + n, NEW j \in 1..m + n, i < j
        PROVE  Exit(down'[i]) <= Entry(down'[j])
    <3>1. CASE j <= m
      <4>1. i \in 1..m /\ j \in 1..m
        BY <1>04, <2>3, <3>1
      <4> QED
        BY <1>1, <1>3, <2>3, <4>1
    <3>2. CASE i <= m /\ j > m
      <4>1. i \in 1..m /\ j - m \in 1..n /\ j \in m + 1..m + n
        BY <1>04, <2>3, <3>2
      <4>2. down'[i] = down[i] /\ down'[j] = more[j - m]
        BY <1>1, <4>1
      <4>3. Exit(down[i]) <= host.cursor /\ Exit(down[i]) \in Int
        BY <1>3, <1>4, <1>6, <2>3, <4>1
      <4>4. host.cursor <= Entry(more[j - m]) /\ Entry(more[j - m]) \in Int
        BY <1>02, <1>4, <2>3, <4>1
      <4> QED
        BY <1>0, <4>2, <4>3, <4>4
    <3>3. CASE i > m
      <4>1. /\ i - m \in 1..n /\ j - m \in 1..n /\ i - m < j - m
            /\ i \in m + 1..m + n /\ j \in m + 1..m + n
        BY <1>04, <2>3, <3>3
      <4> QED
        BY <1>1, <1>02, <2>3, <4>1
    <3>4. j <= m \/ (i <= m /\ j > m) \/ i > m
      BY <1>04
    <3> QED
      BY <3>1, <3>2, <3>3, <3>4
  <2>4. ASSUME down' # <<>>
        PROVE  ~Partial(down'[m + n]) /\ Exit(down'[m + n]) = host'.cursor
    <3>1. CASE n # 0
      <4>1. m + n \in m + 1..m + n /\ (m + n) - m = n
        BY <1>04, <3>1
      <4>2. down'[m + n] = more[n] /\ more # <<>>
        BY <1>1, <1>2, <3>1, <4>1
      <4> QED
        BY <1>03, <4>2
    <3>2. CASE n = 0
      <4>1. m + n = m /\ m # 0 /\ m \in 1..m
        BY <1>0, <1>1, <2>4, <3>2
      <4> QED
        BY <1>1, <1>2, <1>3, <1>03, <3>2, <4>1
    <3> QED
      BY <3>1, <3>2
  <2>5. /\ \A i \in 1..Len(down') : Past(down'[i], host'.simulated)
        /\ \A i \in 1..Len(down') - 1 : Succeeds(down'[i], down'[i + 1])
    <3>1. Len(down') = m + n
      BY <1>1
    <3>2. \A i \in 1..Len(down') : Past(down'[i], host'.simulated)
      BY <2>1, <3>1, Zenon
    <3>3. \A i \in 1..Len(down') - 1 : Succeeds(down'[i], down'[i + 1])
      BY <2>2, <3>1, Zenon
    <3> QED
      BY <3>2, <3>3
  <2>6. ~spectator' => \A i, j \in 1..Len(down') : i < j => Exit(down'[i]) <= Entry(down'[j])
    BY <1>1, <2>3
  <2> QED
    BY <1>1, <2>4, <2>5, <2>6 DEF StreamInv, Past
<1>8. Fits(client, 0)'
  <2>1. Fits(client, 0) /\ Sound(client)
    BY DEF StepInv
  <2>2. ASSUME 0 < m + n PROVE Ready(client, down'[0 + 1])
    <3>1. CASE m # 0
      <4>1. 0 < m /\ 1 \in 1..m /\ 0 + 1 = 1
        BY <1>04, <3>1
      <4> QED
        BY <1>1, <2>1, <4>1 DEF Fits, m
    <3>2. CASE m = 0
      <4>1. n # 0 /\ 1 \in m + 1..m + n /\ 1 - m = 1 /\ 0 + 1 = 1
        BY <1>0, <2>2, <3>2
      <4>2. down'[1] = more[1] /\ more # <<>>
        BY <1>1, <1>2, <4>1
      <4>3. /\ Following(client) => client.world.tick = host.cursor
            /\ Records(client) => host.cursor <= client.recorder.next
        BY <2>1, <3>2 DEF Fits, m
      <4>4. more[1].index > 0 => ~Chunky(more[1])
        BY <1>03, <4>2
      <4>5. Entry(more[1]) \in Int /\ client.recorder.next \in Int
        BY <1>0, <1>4, <2>1, <4>1 DEF Sound, ClientState
      <4>6. Records(client) => Entry(more[1]) <= client.recorder.next
        BY <1>0, <1>03, <4>2, <4>3, <4>5
      <4> QED
        BY <1>03, <4>1, <4>2, <4>3, <4>4, <4>6 DEF Ready
    <3> QED
      BY <3>1, <3>2
  <2>3. 0 = m + n =>
          /\ Following(client) => client.world.tick = host'.cursor
          /\ Records(client) => host'.cursor <= client.recorder.next
    <3>1. 0 = m + n => 0 = m /\ more = <<>>
      BY <1>0, <1>2
    <3> QED
      BY <1>03, <2>1, <3>1 DEF Fits, m
  <2>4. ASSUME ~spectator, NEW j \in 0 + 1..m + n PROVE client.world.tick <= Entry(down'[j])
    <3>1. client.world.tick \in Int /\ client.world.tick <= host.simulated
      BY <1>0, <2>1 DEF Sound, ClientState, WorldType
    <3>2. CASE j <= m
      <4>1. j \in 1..m /\ j \in 0 + 1..m
        BY <1>04, <3>2
      <4> QED
        BY <1>1, <2>1, <2>4, <4>1 DEF Fits, m
    <3>3. CASE j > m
      <4>1. j - m \in 1..n /\ j \in m + 1..m + n
        BY <1>04, <3>3
      <4>2. host.cursor <= Entry(more[j - m]) /\ Entry(more[j - m]) \in Int
        BY <1>02, <1>4, <2>4, <4>1
      <4>3. down'[j] = more[j - m] /\ host.cursor = host.simulated
        BY <1>1, <1>6, <2>4, <4>1
      <4> QED
        BY <1>0, <3>1, <4>2, <4>3
    <3>4. j <= m \/ j > m
      BY <1>04
    <3> QED
      BY <3>2, <3>3, <3>4
  <2> QED
    BY <1>1, <2>2, <2>3, <2>4 DEF Fits, Ready, Following, Records
<1>9. Sound(client)'
  <2>1. Sound(client)
    BY DEF StepInv
  <2>2. client.world.tick \in Int
    BY <1>0, <2>1 DEF Sound, ClientState, WorldType
  <2>3. client.world.tick <= host'.simulated
    BY <1>0, <2>1, <2>2 DEF Sound
  <2> QED
    BY <2>1, <2>3 DEF Sound, RecordingInv, Following, Records, ClientState, WorldType, FrameType, Contents
<1> QED
  BY <1>7, <1>8, <1>9

\* The keyframe at a tick is there or before.
LEMMA KeyframeBefore ==
  ASSUME ClientAssumption, NEW t \in 0..RaceTicks
  PROVE  Keyframe(t) \in 0..t
<1> DEFINE k == KeyframeTicks
           r == t % k
           q == t \div k
<1>1. k \in Nat /\ k > 0 /\ t \in Nat
  BY DEF ClientAssumption
<1>2. r \in 0..k - 1 /\ q \in Int /\ t = k * q + r
  BY <1>1
<1> HIDE DEF q, k
<1>3. r <= t
  <2>1. CASE t < k
    <3>1. q < 1
      <4>1. CASE q >= 1
        <5>1. k * q >= k
          BY <1>1, <1>2, <4>1, Z3
        <5> QED
          BY <1>1, <1>2, <2>1, <5>1
      <4> QED
        BY <1>2, <4>1
    <3>2. q > -1
      <4>1. CASE q <= -1
        <5>1. k * q <= -k
          BY <1>1, <1>2, <4>1, Z3
        <5> QED
          BY <1>1, <1>2, <5>1
      <4> QED
        BY <1>2, <4>1
    <3>3. q = 0
      BY <1>2, <3>1, <3>2
    <3> QED
      BY <1>1, <1>2, <3>3
  <2>2. CASE t >= k
    BY <1>1, <1>2, <2>2
  <2> QED
    BY <1>1, <2>1, <2>2
<1> QED
  BY <1>1, <1>2, <1>3 DEF Keyframe, k

\* A snapshot, whole, and its last chunk ends it.
LEMMA SnapshotLeads ==
  ASSUME ClientAssumption, spectator \in BOOLEAN,
         NEW t \in 0..RaceTicks, NEW from \in Int, t <= from, ~spectator => t = from,
         NEW now \in 0..RaceTicks, t <= now, NEW holds \in Contents(now), ~spectator => now = t
  PROVE  Leads(SnapshotFrames(t, holds), from, t, now) /\ SnapshotFrames(t, holds) # <<>>
<1> DEFINE s == SnapshotFrames(t, holds)
<1>0. Chunks \in Nat /\ Chunks > 0 /\ RaceTicks \in Nat
  BY DEF ClientAssumption
<1>01. holds \in Contents(RaceTicks) /\ holds \in Int /\ holds <= now /\ now \in Int
  BY <1>0 DEF Contents, Refused, Halfway
<1>1. /\ s = [i \in 1..Chunks |-> Chunk(t, i - 1, holds)]
      /\ \A i \in 1..Chunks : s[i] = Chunk(t, i - 1, holds)
  BY DEF SnapshotFrames
<1>2. \A i \in 1..Chunks : Chunk(t, i - 1, holds) \in FrameType
  <2>1. SUFFICES ASSUME NEW i \in 1..Chunks PROVE Chunk(t, i - 1, holds) \in FrameType
    OBVIOUS
  <2>2. i - 1 \in 0..Chunks - 1
    BY <1>0
  <2> QED
    BY <1>01, <2>2 DEF Chunk, FrameType
<1>3. s \in Seq(FrameType) /\ Len(s) = Chunks /\ s # <<>>
  <2> HIDE DEF s
  <2>1. Chunks \in Nat /\ s \in [1..Chunks -> FrameType]
    BY <1>0, <1>1, <1>2
  <2> QED
    BY <1>0, <2>1
<1> HIDE DEF s
<1>4. ASSUME NEW i \in 1..Chunks
      PROVE  /\ Chunky(s[i]) /\ s[i].index = i - 1 /\ Entry(s[i]) = t /\ Exit(s[i]) = t
             /\ Partial(s[i]) <=> i < Chunks
             /\ Past(s[i], now)
  <2>1. s[i].type = "SnapshotChunk" /\ s[i].index = i - 1 /\ s[i].tick = t /\ s[i].holds = holds
    BY <1>1 DEF Chunk
  <2>2. i \in Int /\ (i - 1) + 1 = i
    OBVIOUS
  <2>3. Past(s[i], now)
    BY <1>0, <1>01, <2>1 DEF Past, Exit, Entry, Chunky
  <2> QED
    BY <2>1, <2>2, <2>3 DEF Chunky, Entry, Exit, Partial
<1>5. ASSUME NEW i \in 1..Chunks - 1 PROVE Succeeds(s[i], s[i + 1])
  <2>1. /\ i \in 1..Chunks /\ i + 1 \in 1..Chunks /\ i < Chunks /\ (i + 1) - 1 = (i - 1) + 1
        /\ (i + 1) - 1 > 0 /\ t <= t
    BY <1>0
  <2>2. /\ Chunky(s[i + 1]) /\ s[i + 1].index = (i + 1) - 1 /\ Entry(s[i + 1]) = t
        /\ Partial(s[i]) /\ s[i].index = i - 1 /\ Exit(s[i]) = t
    BY <1>4, <2>1
  <2> QED
    BY <2>1, <2>2 DEF Succeeds
<1>6. 1 \in 1..Chunks /\ Chunks \in 1..Chunks /\ ~ (Chunks < Chunks) /\ 1 - 1 = 0 /\ t <= t
  BY <1>0
<1>7. ~Partial(s[Len(s)]) /\ Exit(s[Len(s)]) = t
  BY <1>3, <1>4, <1>6
<1>8. Chunky(s[1]) /\ s[1].index = 0 /\ Entry(s[1]) = t
  BY <1>4, <1>6
<1>9. \A i, j \in 1..Len(s) : Exit(s[i]) = t /\ Entry(s[i]) = t /\ Entry(s[j]) = t
  BY <1>3, <1>4
<1>10. ~spectator => from <= t
  BY <1>6
<1>12. \A i \in 1..Len(s) : Past(s[i], now)
  BY <1>3, <1>4
<1>11. Leads(s, from, t, now)
  BY <1>12, <1>3, <1>5, <1>6, <1>7, <1>8, <1>9, <1>10 DEF Leads
<1> QED
  BY <1>3, <1>11 DEF s

\* The Ticks from the cursor on, and the Result where the race ends.
LEMMA OwedLeads ==
  ASSUME ClientAssumption, NEW h \in HostState, h.cursor <= h.simulated, NEW bad
  PROVE  Leads(Owed(h, bad), h.cursor, h.simulated, h.simulated)
<1> DEFINE n == h.simulated - h.cursor
           T == [i \in 1..n |-> TickFrame(h.cursor + i - 1, h.cursor + i - 1 # bad)]
           R == IF Over(h) /\ ~h.resultSent THEN <<ResultFrame>> ELSE <<>>
           s == Owed(h, bad)
<1>0. /\ RaceTicks \in Nat /\ h.simulated \in 0..RaceTicks /\ h.cursor \in 0..RaceTicks
      /\ n \in Nat
  BY DEF HostState, ClientAssumption
<1>1. /\ T \in Seq(FrameType) /\ Len(T) = n
      /\ \A i \in 1..n : T[i].type = "Tick" /\ T[i].tick = h.cursor + i - 1
  <2>1. \A i \in 1..n : /\ h.cursor + i - 1 \in 0..RaceTicks - 1
                       /\ (h.cursor + i - 1 # bad) \in BOOLEAN
    BY <1>0
  <2>2. \A i \in 1..n : T[i] \in FrameType
    BY <2>1 DEF FrameType, TickFrame
  <2>3. T \in [1..n -> FrameType]
    <3>1. T = [i \in 1..n |-> T[i]]
      OBVIOUS
    <3> HIDE DEF T
    <3> QED
      BY <2>2, <3>1
  <2>4. \A i \in 1..n : T[i].type = "Tick" /\ T[i].tick = h.cursor + i - 1
    BY DEF TickFrame
  <2>5. DOMAIN T = 1..n
    OBVIOUS
  <2> HIDE DEF T, n
  <2> QED
    BY <1>0, <2>3, <2>4, <2>5
<1>2. R \in Seq(FrameType) /\ (R = <<>> \/ (R = <<ResultFrame>> /\ Over(h)))
  <2>1. ResultFrame \in FrameType
    BY DEF ResultFrame, FrameType
  <2> QED
    BY <2>1
<1>3. s = T \o R
  BY DEF Owed
<1> HIDE DEF T, R, s, n
<1>4. /\ s \in Seq(FrameType) /\ Len(s) = n + Len(R)
      /\ \A i \in 1..n : s[i] = T[i]
      /\ \A i \in n + 1..Len(s) : s[i] = R[i - n]
  <2>1. /\ T \o R \in Seq(FrameType) /\ Len(T \o R) = Len(T) + Len(R)
        /\ \A i \in 1..Len(T) : (T \o R)[i] = T[i]
        /\ \A i \in Len(T) + 1..Len(T) + Len(R) : (T \o R)[i] = R[i - Len(T)]
    <3>1. T \in Seq(FrameType) /\ R \in Seq(FrameType)
      BY <1>1, <1>2
    <3> QED
      BY <3>1
  <2>2. Len(T) = n
    BY <1>1
  <2> QED
    BY <1>3, <2>1, <2>2
<1>5. Len(s) = n \/ (Len(s) = n + 1 /\ s[n + 1] = ResultFrame /\ h.simulated = RaceTicks)
  <2>1. CASE R = <<>>
    BY <1>0, <1>4, <2>1
  <2>2. CASE R = <<ResultFrame>> /\ Over(h)
    <3>1. Len(R) = 1 /\ R[1] = ResultFrame
      BY <2>2
    <3>2. n + 1 \in n + 1..Len(s) /\ (n + 1) - n = 1
      BY <1>0, <1>4, <3>1
    <3> QED
      BY <1>4, <2>2, <3>1, <3>2 DEF Over
  <2> QED
    BY <1>2, <2>1, <2>2
<1>6. n = h.simulated - h.cursor
  BY DEF n
<1>7. ASSUME NEW i \in 1..Len(s)
      PROVE  /\ i \in Int /\ i <= n + 1 /\ ~Chunky(s[i]) /\ ~Partial(s[i])
             /\ Entry(s[i]) = h.cursor + i - 1
             /\ Exit(s[i]) = IF i <= n THEN h.cursor + i ELSE h.simulated
  <2>1. CASE i <= n
    <3>1. i \in 1..n /\ i \in Int
      BY <1>0, <2>1
    <3>2. s[i].type = "Tick" /\ s[i].tick = h.cursor + i - 1
      BY <1>1, <1>4, <3>1
    <3>3. (h.cursor + i - 1) + 1 = h.cursor + i /\ i <= n + 1
      BY <1>0, <3>1
    <3> QED
      BY <2>1, <3>1, <3>2, <3>3 DEF Chunky, Partial, Entry, Exit
  <2>2. CASE i > n
    <3>1. i = n + 1 /\ h.simulated = RaceTicks /\ s[i] = ResultFrame
      BY <1>0, <1>5, <2>2
    <3>2. s[i].type = "Result"
      BY <3>1 DEF ResultFrame
    <3>3. Entry(s[i]) = RaceTicks /\ Exit(s[i]) = RaceTicks /\ ~Chunky(s[i]) /\ ~Partial(s[i])
      BY <3>2 DEF Chunky, Partial, Entry, Exit
    <3>4. i \in Int /\ i <= n + 1 /\ ~ (i <= n) /\ h.cursor + i - 1 = h.simulated
      <4>1. i = n + 1 /\ n \in Int
        BY <1>0, <3>1
      <4>2. h.cursor \in Int /\ h.simulated \in Int
        BY <1>0
      <4>3. h.cursor + i - 1 = h.simulated
        <5>1. i - 1 = n
          BY <4>1
        <5>2. h.cursor + n = h.simulated
          BY <1>6, <4>2
        <5> QED
          BY <5>1, <5>2
      <4> QED
        BY <4>1, <4>3
    <3> QED
      BY <3>1, <3>3, <3>4
  <2>3. i <= n \/ i > n
    BY <1>0
  <2> QED
    BY <2>1, <2>2, <2>3
<1>8. Len(s) \in Nat /\ Len(s) <= n + 1 /\ Len(s) >= n
  BY <1>0, <1>5
<1>9. \A i \in 1..Len(s) : Exit(s[i]) <= h.simulated
  <2>1. SUFFICES ASSUME NEW i \in 1..Len(s) PROVE Exit(s[i]) <= h.simulated
    OBVIOUS
  <2>4. i \in Int /\ Exit(s[i]) = IF i <= n THEN h.cursor + i ELSE h.simulated
    BY <1>7
  <2>2. CASE i <= n
    <3>1. h.cursor + i <= h.simulated
      BY <1>0, <1>6, <2>4, <2>2
    <3> QED
      BY <2>4, <2>2, <3>1
  <2>3. CASE ~ (i <= n)
    <3>1. h.simulated <= h.simulated
      BY <1>0
    <3> QED
      BY <2>4, <2>3, <3>1
  <2> QED
    BY <2>2, <2>3
<1>10. ASSUME NEW i \in 1..Len(s), NEW j \in 1..Len(s), i < j
       PROVE  Exit(s[i]) <= Entry(s[j])
  <2>1. /\ i \in Int /\ j \in Int /\ j <= n + 1
        /\ Entry(s[j]) = h.cursor + j - 1
        /\ Exit(s[i]) = IF i <= n THEN h.cursor + i ELSE h.simulated
    BY <1>7
  <2>2. i <= n
    BY <1>0, <1>10, <2>1
  <2> QED
    BY <1>0, <1>10, <2>1, <2>2
<1>11. ASSUME NEW i \in 1..Len(s) - 1 PROVE Succeeds(s[i], s[i + 1])
  <2>1. i \in 1..Len(s) /\ i + 1 \in 1..Len(s) /\ i <= n /\ i \in Int
    BY <1>0, <1>8
  <2>2. /\ ~Chunky(s[i + 1]) /\ ~Partial(s[i])
        /\ Entry(s[i + 1]) = h.cursor + (i + 1) - 1 /\ Exit(s[i]) = h.cursor + i
    BY <1>7, <2>1
  <2>3. Entry(s[i + 1]) = Exit(s[i]) /\ Entry(s[i + 1]) <= Exit(s[i])
    BY <1>0, <2>1, <2>2
  <2> QED
    BY <2>2, <2>3 DEF Succeeds
<1>12. ASSUME NEW i \in 1..Len(s) PROVE h.cursor <= Entry(s[i])
  BY <1>0, <1>7
<1>13. s = <<>> => h.simulated = h.cursor
  <2>1. s = <<>> => Len(s) = 0
    OBVIOUS
  <2> QED
    BY <1>0, <1>6, <1>8, <2>1
<1>14. ASSUME s # <<>>
       PROVE  /\ ~Partial(s[Len(s)]) /\ Exit(s[Len(s)]) = h.simulated
              /\ ~Chunky(s[1]) /\ Entry(s[1]) = h.cursor /\ Entry(s[1]) <= h.cursor
  <2>1. Len(s) # 0
    BY <1>4, <1>14
  <2>2. 1 \in 1..Len(s) /\ Len(s) \in 1..Len(s) /\ Len(s) \in Int
    BY <1>8, <2>1
  <2>3. Exit(s[Len(s)]) = h.simulated
    <3>1. Exit(s[Len(s)]) = IF Len(s) <= n THEN h.cursor + Len(s) ELSE h.simulated
      BY <1>7, <2>2
    <3>2. Len(s) <= n => Len(s) = n
      BY <1>0, <1>8
    <3> QED
      BY <1>0, <1>6, <3>1, <3>2
  <2>4. Entry(s[1]) = h.cursor + 1 - 1 /\ ~Chunky(s[1]) /\ ~Partial(s[Len(s)])
    BY <1>7, <2>2
  <2> QED
    BY <1>0, <2>3, <2>4
<1>16. \A i \in 1..Len(s) : Past(s[i], h.simulated)
  BY <1>7, <1>9 DEF Past
<1>15. Leads(s, h.cursor, h.simulated, h.simulated)
  BY <1>4, <1>16, <1>10, <1>11, <1>12, <1>13, <1>14 DEF Leads
<1> QED
  BY <1>15 DEF s

\* A step that sends nothing, and lets no one attach: the first frames, or all, stay.
LEMMA SendsNothing ==
  ASSUME ClientAssumption, StepInv, HostInv', UNCHANGED <<spectator, client>>,
         host.simulated <= host'.simulated,
         NEW kept \in 0..Len(down), down' = SubSeq(down, 1, kept), ~host'.attached
  PROVE  StreamInv' /\ Fits(client, 0)' /\ Sound(client)'
<1>0. /\ down \in Seq(FrameType) /\ Len(down) \in Nat /\ kept \in Nat /\ kept <= Len(down)
      /\ host.simulated \in Int /\ host'.simulated \in Int /\ RaceTicks \in Nat
  BY DEF StepInv, StreamInv, HostInv, HostState, ClientAssumption
<1>1. /\ down' \in Seq(FrameType) /\ Len(down') = kept
      /\ \A i \in 1..kept : i \in 1..Len(down) /\ down'[i] = down[i]
  BY <1>0
<1>2. StreamInv'
  <2>1. ASSUME NEW i \in 1..kept PROVE Past(down'[i], host'.simulated)
    <3>1. down'[i] = down[i] /\ Past(down[i], host.simulated) /\ down[i] \in FrameType
      BY <1>0, <1>1 DEF StepInv, StreamInv
    <3>2. Past(down[i], host'.simulated)
      BY <1>0, <3>1, PastLater
    <3>3. spectator' = spectator
      OBVIOUS
    <3> QED
      BY <3>1, <3>2, <3>3
  <2>2. ASSUME NEW i \in 1..kept - 1 PROVE Succeeds(down'[i], down'[i + 1])
    <3>1. i \in 1..kept /\ i + 1 \in 1..kept /\ i \in 1..Len(down) - 1
      BY <1>0
    <3> QED
      BY <1>1, <3>1 DEF StepInv, StreamInv
  <2>3. ASSUME ~spectator, NEW i \in 1..kept, NEW j \in 1..kept, i < j
        PROVE  Exit(down'[i]) <= Entry(down'[j])
    BY <1>1, <2>3 DEF StepInv, StreamInv
  <2> QED
    BY <1>1, <2>1, <2>2, <2>3 DEF StreamInv, Past
<1>3. Fits(client, 0)'
  <2>1. ASSUME 0 < kept PROVE Ready(client, down'[0 + 1])
    <3>1. 0 < Len(down) /\ 0 + 1 \in 1..kept
      BY <1>0, <2>1
    <3> QED
      BY <1>1, <3>1 DEF StepInv, Fits
  <2>2. ASSUME ~spectator, NEW j \in 0 + 1..kept PROVE client.world.tick <= Entry(down'[j])
    <3>1. j \in 1..kept /\ j \in 0 + 1..Len(down)
      BY <1>0
    <3> QED
      BY <1>1, <2>2, <3>1 DEF StepInv, Fits
  <2> QED
    BY <1>1, <2>1, <2>2 DEF Fits, Ready, Following, Records
<1>4. Sound(client)'
  <2>1. Sound(client) /\ client.world.tick \in Int
    BY <1>0 DEF StepInv, Sound, ClientState, WorldType
  <2>2. client.world.tick <= host'.simulated
    BY <1>0, <2>1 DEF Sound
  <2> QED
    BY <2>1, <2>2 DEF Sound, RecordingInv, Following, Records, ClientState, WorldType, FrameType, Contents
<1> QED
  BY <1>2, <1>3, <1>4

LEMMA AdvanceStep ==
  ASSUME ClientAssumption, StepInv, NEW ticks \in 0..1, NEW bad, HostAdvances(ticks, bad)
  PROVE  StepInv'
<1> DEFINE h == [host EXCEPT !.simulated = @ + ticks]
<1>0. /\ host \in HostState /\ spectator \in BOOLEAN /\ host.simulated \in Nat
      /\ host.cursor <= host.simulated /\ host.cursor \in Nat
      /\ RaceTicks \in Nat /\ faults \in Nat /\ MaxFaults \in Nat
  BY DEF StepInv, HostInv, HostState, LinkInv, ClientAssumption
<1>1. /\ host.simulated + ticks <= RaceTicks
      /\ down' = IF host.attached THEN down \o Owed(h, bad) ELSE down
      /\ host' = [h EXCEPT !.cursor = h.simulated, !.resultSent = Over(h)]
      /\ UNCHANGED <<spectator, client, link, up>>
      /\ faults' \in {faults, faults + 1} /\ faults' <= MaxFaults
  BY DEF HostAdvances
<1>2. host.simulated + ticks \in 0..RaceTicks /\ host.cursor <= host.simulated + ticks
  BY <1>0, <1>1
<1>3. /\ h \in HostState /\ h.cursor = host.cursor /\ h.simulated = host.simulated + ticks
      /\ h.attached = host.attached
  BY <1>0, <1>2 DEF HostState
<1> HIDE DEF h
<1>4. /\ host' \in HostState /\ host'.simulated = h.simulated /\ host'.cursor = h.simulated
      /\ host'.attached = host.attached
  <2>1. Over(h) \in BOOLEAN /\ h.simulated \in 0..RaceTicks
    BY <1>2, <1>3 DEF Over
  <2> QED
    BY <1>1, <1>3, <2>1 DEF HostState
<1>5. HostInv'
  <2>1. Keyframe(host'.simulated) <= host'.cursor
    <3>1. host'.simulated \in 0..RaceTicks
      BY <1>4 DEF HostState
    <3>2. Keyframe(host'.simulated) \in 0..host'.simulated
      BY <3>1, KeyframeBefore
    <3> QED
      BY <1>4, <3>1, <3>2
  <2>2. host'.cursor <= host'.simulated /\ host'.cursor = host'.simulated
    BY <1>2, <1>3, <1>4
  <2> QED
    BY <1>0, <1>1, <1>4, <2>1, <2>2 DEF HostInv
<1>6. host.simulated <= host'.simulated
  BY <1>0, <1>2, <1>3, <1>4
<1>7. LinkInv'
  <2>1. faults' \in 0..MaxFaults
    BY <1>0, <1>1
  <2>2. ~host.attached => down' = down
    BY <1>1
  <2> QED
    BY <1>1, <1>4, <2>1, <2>2 DEF StepInv, LinkInv
<1>8. CASE host.attached
  <2>1. Leads(Owed(h, bad), host.cursor, host'.cursor, host'.simulated)
    BY <1>2, <1>3, <1>4, OwedLeads
  <2>2. StreamInv' /\ Fits(client, 0)' /\ Sound(client)'
    BY <1>1, <1>5, <1>6, <1>8, <2>1, Sends
  <2> QED
    BY <1>5, <1>7, <2>2 DEF StepInv
<1>9. CASE ~host.attached
  <2>1. down' = down /\ ~host'.attached
    BY <1>1, <1>4, <1>9
  <2>2. StreamInv' /\ Fits(client, 0)' /\ Sound(client)'
    <3>1. Len(down) \in 0..Len(down) /\ down' = SubSeq(down, 1, Len(down))
      <4>1. down \in Seq(FrameType)
        BY DEF StepInv, StreamInv
      <4> QED
        BY <2>1, <4>1
    <3> QED
      BY <1>1, <1>5, <1>6, <2>1, <3>1, SendsNothing
  <2> QED
    BY <1>5, <1>7, <2>2 DEF StepInv
<1> QED
  BY <1>8, <1>9

LEMMA ServeStep ==
  ASSUME ClientAssumption, StepInv, NEW recent \in 0..SnapshotsPerMinute, NEW holds,
         HostServes(recent, holds)
  PROVE  StepInv'
<1>0. /\ host \in HostState /\ spectator \in BOOLEAN /\ host.simulated \in 0..RaceTicks
      /\ host.cursor <= host.simulated /\ host.cursor \in 0..RaceTicks
      /\ Keyframe(host.simulated) <= host.cursor
      /\ ~spectator => host.cursor = host.simulated
      /\ RaceTicks \in Nat /\ SnapshotsPerMinute \in Nat /\ recent \in Nat
      /\ up \in Seq({"Resume", "SnapshotRequest"}) /\ down \in Seq(FrameType)
      /\ host.simulated <= host.simulated
  BY DEF StepInv, HostInv, HostState, LinkInv, StreamInv, ClientAssumption
<1>1. up # <<>> /\ host.attached /\ UNCHANGED <<spectator, client>>
  BY DEF HostServes
<1>2. CASE recent >= SnapshotsPerMinute
  <2>1. /\ link' = "closed" /\ up' = <<>> /\ host' = [host EXCEPT !.attached = FALSE]
        /\ down' = down /\ faults' = faults
    BY <1>2 DEF HostServes
  <2>2. /\ host' \in HostState /\ host'.simulated = host.simulated /\ host'.cursor = host.cursor
        /\ ~host'.attached
    BY <1>0, <2>1 DEF HostState
  <2>3. HostInv'
    BY <1>0, <1>1, <2>2 DEF HostInv
  <2>4. LinkInv'
    <3>1. <<>> \in Seq({"Resume", "SnapshotRequest"}) /\ faults \in 0..MaxFaults
      BY DEF StepInv, LinkInv
    <3> QED
      BY <1>1, <2>1, <2>2, <3>1 DEF LinkInv
  <2>5. StreamInv' /\ Fits(client, 0)' /\ Sound(client)'
    <3>1. Len(down) \in 0..Len(down) /\ down' = SubSeq(down, 1, Len(down))
      BY <1>0, <2>1
    <3> QED
      BY <1>0, <1>1, <2>2, <2>3, <3>1, SendsNothing
  <2> QED
    BY <2>3, <2>4, <2>5 DEF StepInv
<1>3. CASE ~(recent >= SnapshotsPerMinute)
  <2>1. /\ up' = Tail(up) /\ host' = [SentSnapshot(host) EXCEPT !.snapshots = recent + 1]
        /\ down' = down \o SnapshotFrames(host'.cursor, holds) /\ link' = link
        /\ holds \in Contents(host.simulated)
        /\ faults' \in {faults, faults + 1} /\ faults' <= MaxFaults
    BY <1>3 DEF HostServes, WithSnapshot
  <2> DEFINE t == IF spectator THEN Keyframe(host.simulated) ELSE host.cursor
  <2>2. t \in 0..host.simulated /\ t \in 0..RaceTicks /\ t <= host.cursor
        /\ Keyframe(host.simulated) <= t
    <3>1. Keyframe(host.simulated) \in 0..host.simulated
      BY <1>0, KeyframeBefore
    <3> QED
      BY <1>0, <3>1
  <2>3. /\ host' \in HostState /\ host'.simulated = host.simulated /\ host'.cursor = t
        /\ host'.attached = host.attached
    <3> DEFINE x == SentSnapshot(host)
    <3>1. /\ x \in HostState /\ x.simulated = host.simulated /\ x.cursor = t
          /\ x.attached = host.attached
      <4>1. CASE spectator
        <5>1. x = [host EXCEPT !.cursor = t, !.resultSent = FALSE]
          BY <4>1 DEF SentSnapshot
        <5> HIDE DEF x, t
        <5> QED
          BY <1>0, <2>2, <5>1 DEF HostState
      <4>2. CASE ~spectator
        BY <1>0, <4>2 DEF SentSnapshot
      <4> QED
        BY <4>1, <4>2
    <3>2. recent + 1 \in Nat
      BY <1>0
    <3> HIDE DEF x, t
    <3>3. host' = [x EXCEPT !.snapshots = recent + 1]
      BY <2>1 DEF x
    <3> QED
      BY <3>1, <3>2, <3>3 DEF HostState
  <2>4. ~spectator => t = host.cursor
    OBVIOUS
  <2> HIDE DEF t
  <2>5. HostInv'
    BY <1>0, <1>1, <2>2, <2>3, <2>4 DEF HostInv
  <2>6. LinkInv'
    <3>1. /\ up' \in Seq({"Resume", "SnapshotRequest"}) /\ Len(up') = Len(up) - 1 /\ Len(up) \in Nat
          /\ \A i \in 1..Len(up') : up'[i] = up[i + 1] /\ i + 1 \in 1..Len(up)
      BY <1>0, <1>1, <2>1
    <3>2. \A i \in 1..Len(up') : up'[i] # "Resume"
      <4>1. \A i \in 1..Len(up') : i + 1 # 1
        BY <3>1
      <4> QED
        BY <3>1, <4>1 DEF StepInv, LinkInv
    <3>3. link # "closed" /\ link \in {"open", "closed"} /\ faults \in 0..MaxFaults
      BY <1>1 DEF StepInv, LinkInv
    <3>4. faults' \in 0..MaxFaults
      BY <2>1, <3>3, ClientAssumption DEF ClientAssumption
    <3> QED
      BY <1>1, <2>1, <2>3, <3>1, <3>2, <3>3, <3>4 DEF LinkInv
  <2>7. Leads(SnapshotFrames(t, holds), host.cursor, t, host.simulated)
    BY <1>0, <2>1, <2>2, <2>4, SnapshotLeads
  <2>8. StreamInv' /\ Fits(client, 0)' /\ Sound(client)'
    BY <1>0, <1>1, <2>1, <2>3, <2>5, <2>7, Sends
  <2> QED
    BY <2>5, <2>6, <2>8 DEF StepInv
<1> QED
  BY <1>2, <1>3

LEMMA ResumeStep ==
  ASSUME ClientAssumption, StepInv, HostResumes
  PROVE  StepInv'
<1>0. /\ host \in HostState /\ up \in Seq({"Resume", "SnapshotRequest"}) /\ up # <<>>
      /\ 1 \in 1..Len(up) /\ up[1] = "Resume" /\ link = "open" /\ ~host.attached
      /\ client.need /\ down = <<>>
  <2>1. /\ host \in HostState /\ up \in Seq({"Resume", "SnapshotRequest"}) /\ up # <<>>
        /\ Head(up) = "Resume"
    BY DEF StepInv, HostInv, LinkInv, HostResumes
  <2>2. 1 \in 1..Len(up) /\ up[1] = "Resume"
    BY <2>1
  <2> QED
    BY <2>1, <2>2 DEF StepInv, LinkInv
<1>1. /\ up' = IF host.gone THEN <<>> ELSE Tail(up)
      /\ link' = IF host.gone THEN "closed" ELSE link
      /\ host' = [host EXCEPT !.attached = ~host.gone]
      /\ UNCHANGED <<spectator, client, down, faults>>
  BY DEF HostResumes
<1>2. /\ host' \in HostState /\ host'.simulated = host.simulated /\ host'.cursor = host.cursor
      /\ host'.attached <=> ~host.gone
  <2>1. (~host.gone) \in BOOLEAN
    OBVIOUS
  <2> QED
    BY <1>0, <1>1, <2>1 DEF HostState
<1>3. HostInv'
  BY <1>1, <1>2 DEF StepInv, HostInv
<1>4. StreamInv'
  <2>1. /\ StreamInv /\ down' = <<>> /\ Len(<<>>) = 0 /\ 1..0 = {} /\ 1..(0 - 1) = {}
        /\ <<>> \in Seq(FrameType)
    BY <1>0, <1>1 DEF StepInv
  <2> QED
    BY <2>1 DEF StreamInv
<1>5. Fits(client, 0)'
  <2>1. down' = <<>> /\ Len(<<>>) = 0 /\ ~(0 < 0) /\ (0 + 1)..0 = {} /\ client'.need
    BY <1>0, <1>1
  <2>2. ~Following(client)' /\ ~Records(client)'
    BY <1>0, <1>1 DEF StepInv, Sound, RecordingInv, Following, Records
  <2> QED
    BY <2>1, <2>2 DEF Fits
<1>6. Sound(client)'
  BY <1>1, <1>2 DEF StepInv, Sound, RecordingInv, Following, Records, ClientState, WorldType, FrameType, Contents
<1>7. LinkInv'
  <2>1. faults \in 0..MaxFaults
    BY DEF StepInv, LinkInv
  <2>2. CASE host.gone
    <3>1. <<>> \in Seq({"Resume", "SnapshotRequest"}) /\ Len(<<>>) = 0 /\ 1..0 = {}
      OBVIOUS
    <3> QED
      BY <1>1, <1>2, <2>1, <2>2, <3>1 DEF LinkInv
  <2>3. CASE ~host.gone
    <3>1. /\ up' \in Seq({"Resume", "SnapshotRequest"})
          /\ \A i \in 1..Len(up') : up'[i] = up[i + 1] /\ i + 1 \in 1..Len(up) /\ i + 1 # 1
      BY <1>0, <1>1, <2>3
    <3>2. \A i \in 1..Len(up') : up'[i] # "Resume"
      BY <3>1 DEF StepInv, LinkInv
    <3> QED
      BY <1>0, <1>1, <1>2, <2>1, <2>3, <3>1, <3>2 DEF LinkInv
  <2> QED
    BY <2>2, <2>3
<1> QED
  BY <1>3, <1>4, <1>5, <1>6, <1>7 DEF StepInv

LEMMA RemovedStep ==
  ASSUME ClientAssumption, StepInv, RaceRemoved
  PROVE  StepInv'
<1>0. host \in HostState /\ down \in Seq(FrameType) /\ host.simulated \in Nat
  BY DEF StepInv, HostInv, HostState, StreamInv, ClientAssumption
<1>1. /\ host' = [host EXCEPT !.gone = TRUE, !.attached = FALSE]
      /\ link' = IF host.attached THEN "closed" ELSE link
      /\ up' = IF host.attached THEN <<>> ELSE up
      /\ UNCHANGED <<spectator, client, down, faults>>
  BY DEF RaceRemoved
<1>2. /\ host' \in HostState /\ host'.simulated = host.simulated /\ host'.cursor = host.cursor
      /\ ~host'.attached
  BY <1>0, <1>1 DEF HostState
<1>3. HostInv'
  BY <1>1, <1>2 DEF StepInv, HostInv
<1>4. StreamInv' /\ Fits(client, 0)' /\ Sound(client)'
  <2>1. /\ Len(down) \in 0..Len(down) /\ down' = SubSeq(down, 1, Len(down))
        /\ host.simulated <= host'.simulated
    BY <1>0, <1>1, <1>2
  <2> QED
    BY <1>1, <1>2, <1>3, <2>1, SendsNothing
<1>5. LinkInv'
  <2>1. <<>> \in Seq({"Resume", "SnapshotRequest"}) /\ Len(<<>>) = 0 /\ 1..0 = {}
    OBVIOUS
  <2>2. LinkInv
    BY DEF StepInv
  <2>3. CASE host.attached
    BY <1>1, <1>2, <2>1, <2>2, <2>3 DEF LinkInv
  <2>4. CASE ~host.attached
    BY <1>1, <1>2, <2>2, <2>4 DEF LinkInv
  <2> QED
    BY <2>3, <2>4
<1> QED
  BY <1>3, <1>4, <1>5 DEF StepInv

LEMMA BreakStep ==
  ASSUME ClientAssumption, StepInv, NEW kept \in 0..Len(down), Break(kept)
  PROVE  StepInv'
<1>0. /\ host \in HostState /\ host.simulated \in Nat /\ faults \in 0..MaxFaults /\ MaxFaults \in Nat
  BY DEF StepInv, HostInv, HostState, LinkInv, ClientAssumption
<1>1. /\ faults < MaxFaults /\ down' = SubSeq(down, 1, kept)
      /\ link' = "closed" /\ up' = <<>>
      /\ host' = [host EXCEPT !.attached = FALSE]
      /\ faults' = faults + 1
      /\ UNCHANGED <<spectator, client>>
  BY DEF Break
<1>2. /\ host' \in HostState /\ host'.simulated = host.simulated /\ host'.cursor = host.cursor
      /\ ~host'.attached
  BY <1>0, <1>1 DEF HostState
<1>3. HostInv'
  BY <1>1, <1>2 DEF StepInv, HostInv
<1>4. StreamInv' /\ Fits(client, 0)' /\ Sound(client)'
  <2>1. host.simulated <= host'.simulated
    BY <1>0, <1>2
  <2> QED
    BY <1>1, <1>2, <1>3, <2>1, SendsNothing
<1>5. LinkInv'
  <2>1. /\ <<>> \in Seq({"Resume", "SnapshotRequest"}) /\ Len(<<>>) = 0 /\ 1..0 = {}
        /\ faults' \in 0..MaxFaults
    BY <1>0, <1>1
  <2> QED
    BY <1>1, <1>2, <2>1 DEF LinkInv
<1> QED
  BY <1>3, <1>4, <1>5 DEF StepInv

-----------------------------------------------------------------------------
\* A pass of the client.

\* What a pass does besides reading: it notes times, attempts and what it predicts from.
Quiet(c, d) ==
  /\ d \in ClientState
  /\ d.world = c.world /\ d.need = c.need /\ d.chunks = c.chunks /\ d.recorder = c.recorder
  /\ d.saved = c.saved /\ d.reconnected = c.reconnected /\ d.failed = c.failed
  /\ d.valid /\ ~d.failed => d.cache = d.world

LEMMA QuietKeeps ==
  ASSUME ClientAssumption, NEW c, NEW d, Quiet(c, d), NEW k, Sound(c), Fits(c, k)
  PROVE  Sound(d) /\ Fits(d, k)
<1>0. (Following(d) <=> Following(c)) /\ (Records(d) <=> Records(c))
  BY DEF Quiet, Following, Records
<1>1. RecordingInv(d)
  BY <1>0 DEF Quiet, Sound, RecordingInv
<1>2. Sound(d)
  BY <1>0, <1>1 DEF Quiet, Sound
<1>3. Fits(d, k)
  BY <1>0 DEF Quiet, Fits, Ready
<1> QED
  BY <1>2, <1>3

LEMMA QuietTwice ==
  ASSUME NEW c, NEW d, NEW e, Quiet(c, d), Quiet(d, e)
  PROVE  Quiet(c, e)
BY DEF Quiet

LEMMA QuietSteps ==
  ASSUME ClientAssumption, NEW c \in ClientState, c.valid /\ ~c.failed => c.cache = c.world
  PROVE  /\ \A dt \in 0..1 : Quiet(c, Later(c, dt))
         /\ Quiet(c, Noticed(c))
         /\ MayReconnect(c) => Quiet(c, Attempted(c))
         /\ Quiet(c, Predicted(c))
         /\ Quiet(c, [c EXCEPT !.sinceRequest = 0])
<1>0. /\ SnapshotWait \in Nat /\ ReconnectWait \in Nat /\ MaxAttempts \in Nat
      /\ c.sinceRequest \in 0..SnapshotWait + 1 /\ c.sinceReconnect \in 0..ReconnectWait
      /\ c.attempts \in 0..MaxAttempts /\ c.world \in WorldType
  BY DEF ClientAssumption, ClientState
<1>1. ASSUME NEW dt \in 0..1 PROVE Quiet(c, Later(c, dt))
  <2> DEFINE a == Lesser(c.sinceRequest + dt, SnapshotWait + 1)
             b == Lesser(c.sinceReconnect + dt, ReconnectWait)
  <2>1. a \in 0..SnapshotWait + 1 /\ b \in 0..ReconnectWait
    BY <1>0 DEF Lesser
  <2>2. Later(c, dt) = [c EXCEPT !.sinceRequest = a, !.sinceReconnect = b]
    BY DEF Later, ClientState
  <2> HIDE DEF a, b
  <2> QED
    BY <2>1, <2>2 DEF Quiet, ClientState
<1>2. Quiet(c, Noticed(c))
  <2>1. ReconnectWait \in 0..ReconnectWait
    BY <1>0
  <2>2. CASE c.lost
    BY <2>2 DEF Quiet, Noticed
  <2>3. CASE ~c.lost
    <3>1. Noticed(c) = [c EXCEPT !.lost = TRUE, !.sinceReconnect = ReconnectWait]
      BY <2>3 DEF Noticed
    <3> QED
      BY <2>1, <3>1 DEF Quiet, ClientState
  <2> QED
    BY <2>2, <2>3
<1>3. ASSUME MayReconnect(c) PROVE Quiet(c, Attempted(c))
  <2>1. c.attempts + 1 \in 0..MaxAttempts /\ 0 \in 0..ReconnectWait
    BY <1>0, <1>3 DEF MayReconnect
  <2> QED
    BY <2>1 DEF Quiet, Attempted, ClientState
<1>4. Quiet(c, Predicted(c))
  <2>1. CASE c.need
    BY <2>1 DEF Quiet, Predicted
  <2>2. CASE ~c.need
    <3> DEFINE w == IF c.valid THEN c.cache ELSE c.world
    <3>1. Predicted(c) = [c EXCEPT !.cache = w, !.valid = TRUE]
      BY <2>2 DEF Predicted
    <3>2. (~c.failed => w = c.world) /\ w \in WorldType
      BY DEF ClientState
    <3> HIDE DEF w
    <3> QED
      BY <1>0, <3>1, <3>2 DEF Quiet, ClientState
  <2> QED
    BY <2>1, <2>2
<1>5. Quiet(c, [c EXCEPT !.sinceRequest = 0])
  <2>1. 0 \in 0..SnapshotWait + 1
    BY <1>0
  <2> QED
    BY <2>1 DEF Quiet, ClientState
<1> QED
  BY <1>1, <1>2, <1>3, <1>4, <1>5

\* The end of a pass: what it predicts, what it asks for.
LEMMA CarriedOn ==
  ASSUME ClientAssumption, NEW c \in ClientState, c.valid /\ ~c.failed => c.cache = c.world,
         NEW sent \in Seq({"Resume", "SnapshotRequest"}), Carried(c, sent)
  PROVE  /\ Quiet(c, client')
         /\ up' = sent \/ (up' = Append(sent, "SnapshotRequest") /\ link' = "open")
<1> DEFINE e == IF Asks(c) THEN [c EXCEPT !.sinceRequest = 0] ELSE c
<1>1. Quiet(c, e)
  <2>1. Quiet(c, c)
    BY DEF Quiet
  <2> QED
    BY <2>1, QuietSteps
<1>2. client' = Predicted(e)
  BY DEF Carried
<1> HIDE DEF e
<1>3. Quiet(e, client')
  <2>1. e \in ClientState /\ (e.valid /\ ~e.failed => e.cache = e.world)
    BY <1>1 DEF Quiet
  <2> QED
    BY <1>2, <2>1, QuietSteps
<1>4. Quiet(c, client')
  BY <1>1, <1>3, QuietTwice
<1>5. up' = sent \/ (up' = Append(sent, "SnapshotRequest") /\ link' = "open")
  BY DEF Carried
<1> QED
  BY <1>4, <1>5

\* What is left of the stream is a stream, and fits whoever has read the rest of it.
LEMMA LeftOver ==
  ASSUME ClientAssumption, HostInv, StreamInv, NEW n \in 0..Len(down), NEW c, Fits(c, n),
         down' = SubSeq(down, n + 1, Len(down)), UNCHANGED <<spectator, host>>, client' = c
  PROVE  StreamInv' /\ Fits(client, 0)'
<1> DEFINE m == Len(down)
<1>0. m \in Nat /\ n \in Nat /\ n <= m /\ down \in Seq(FrameType)
  BY DEF StreamInv
<1>1. /\ down' \in Seq(FrameType) /\ Len(down') = m - n
      /\ \A i \in 1..m - n : i + n \in 1..m /\ down'[i] = down[i + n]
  <2>1. SubSeq(down, n + 1, m) \in Seq(FrameType) /\ Len(SubSeq(down, n + 1, m)) = m - n
    BY <1>0
  <2>2. ASSUME NEW i \in 1..m - n PROVE i + n \in 1..m /\ SubSeq(down, n + 1, m)[i] = down[i + n]
    BY <1>0
  <2> QED
    BY <2>1, <2>2
<1>2. m - n \in Nat /\ (m - n # 0 => (m - n) + n = m /\ m - n \in 1..m - n)
  BY <1>0
<1>3. /\ \A i \in 1..m : Past(down[i], host.simulated)
      /\ \A i \in 1..m - 1 : Succeeds(down[i], down[i + 1])
      /\ ~spectator => \A i, j \in 1..m : i < j => Exit(down[i]) <= Entry(down[j])
      /\ host.attached /\ down # <<>> =>
           ~Partial(down[m]) /\ Exit(down[m]) = host.cursor
  BY DEF StreamInv
<1> HIDE DEF m
<1>4. \A i \in 1..m - n : Past(down'[i], host.simulated)
  BY <1>1, <1>3
<1>5. ASSUME NEW i \in 1..(m - n) - 1 PROVE Succeeds(down'[i], down'[i + 1])
  <2>1. /\ i \in 1..m - n /\ i + 1 \in 1..m - n /\ i + n \in 1..m - 1
        /\ (i + 1) + n = (i + n) + 1
    BY <1>0
  <2>2. down'[i] = down[i + n] /\ down'[i + 1] = down[(i + n) + 1]
    BY <1>1, <2>1
  <2> QED
    BY <1>3, <2>1, <2>2
<1>6. ASSUME ~spectator, NEW i \in 1..m - n, NEW j \in 1..m - n, i < j
      PROVE  Exit(down'[i]) <= Entry(down'[j])
  <2>1. i + n < j + n /\ i + n \in 1..m /\ j + n \in 1..m
    BY <1>0, <1>6
  <2> QED
    BY <1>1, <1>3, <1>6, <2>1
<1>7. ASSUME host.attached, down' # <<>>
      PROVE  ~Partial(down'[m - n]) /\ Exit(down'[m - n]) = host.cursor
  <2>1. m - n # 0
    BY <1>0, <1>1, <1>7
  <2>2. down'[m - n] = down[m] /\ m # 0
    <3>1. m - n \in 1..m - n /\ (m - n) + n = m
      BY <1>2, <2>1
    <3>2. m # 0
      BY <1>0, <2>1
    <3> QED
      BY <1>1, <3>1, <3>2
  <2>3. down # <<>>
    BY <2>2 DEF m
  <2> QED
    BY <1>3, <1>7, <2>2, <2>3
<1>8. StreamInv'
  <2>1. \A i \in 1..Len(down') - 1 : Succeeds(down'[i], down'[i + 1])
    BY <1>1, <1>5
  <2>2. \A i, j \in 1..Len(down') : ~spectator /\ i < j => Exit(down'[i]) <= Entry(down'[j])
    BY <1>1, <1>6
  <2>3. host.attached /\ down' # <<>> =>
          ~Partial(down'[Len(down')]) /\ Exit(down'[Len(down')]) = host.cursor
    BY <1>1, <1>7
  <2>4. \A i \in 1..Len(down') : Past(down'[i], host.simulated)
    BY <1>1, <1>4
  <2> QED
    BY <1>1, <2>1, <2>2, <2>3, <2>4 DEF StreamInv, Past
<1>9. /\ n < m => Ready(c, down[n + 1])
      /\ n = m /\ host.attached =>
           /\ Following(c) => c.world.tick = host.cursor
           /\ Records(c) => host.cursor <= c.recorder.next
      /\ ~spectator => \A j \in n + 1..m : c.world.tick <= Entry(down[j])
  BY DEF Fits, m
<1>10. ASSUME 0 < m - n PROVE Ready(c, down'[0 + 1])
  <2>1. n < m /\ 1 \in 1..m - n /\ 1 + n = n + 1 /\ 0 + 1 = 1
    BY <1>0, <1>10
  <2> QED
    BY <1>1, <1>9, <2>1
<1>11. ASSUME 0 = m - n, host.attached
       PROVE  /\ Following(c) => c.world.tick = host.cursor
              /\ Records(c) => host.cursor <= c.recorder.next
  BY <1>0, <1>9, <1>11
<1>12. ASSUME ~spectator, NEW j \in 0 + 1..m - n PROVE c.world.tick <= Entry(down'[j])
  <2>1. j \in 1..m - n /\ j + n \in n + 1..m
    BY <1>0
  <2> QED
    BY <1>1, <1>9, <1>12, <2>1
<1>13. Fits(client, 0)'
  <2>1. /\ (Following(client)' <=> Following(c)) /\ (Records(client)' <=> Records(c))
        /\ client' = c /\ host' = host /\ spectator' = spectator
    BY DEF Following, Records
  <2>2. 0 < m - n => Ready(client, down[0 + 1])'
    BY <1>10, <2>1 DEF Ready
  <2> QED
    BY <1>1, <1>11, <1>12, <2>1, <2>2 DEF Fits
<1> QED
  BY <1>8, <1>13

LEMMA PassStep ==
  ASSUME ClientAssumption, StepInv, NEW n \in 0..Len(down), NEW dt \in 0..1,
         NEW connects \in BOOLEAN, ClientPass(n, dt, connects)
  PROVE  StepInv' /\ (~spectator /\ ~client'.failed => client.world.tick <= client'.world.tick)
<1> DEFINE c == Later(After(n), dt)
           closed == link = "closed" /\ n = Len(down)
           e == Attempted(Noticed(c))
           r == Reconnected(e)
<1>0. Sound(client) /\ Fits(client, 0) /\ HostInv /\ StreamInv /\ LinkInv
  BY DEF StepInv
<1>1. /\ Sound(After(n)) /\ Fits(After(n), n)
      /\ ~spectator /\ ~After(n).failed => client.world.tick <= After(n).world.tick
      /\ n = 0 => After(n) = client
  BY <1>0, PassRead
<1>2. Quiet(After(n), c)
  BY <1>1, QuietSteps DEF Sound
<1>3. Sound(c) /\ Fits(c, n) /\ c.world = After(n).world /\ c.need = After(n).need
      /\ c.failed = After(n).failed
  BY <1>1, <1>2, QuietKeeps DEF Quiet
<1>4. down \in Seq(FrameType) /\ Len(down) \in Nat
  BY <1>0 DEF StreamInv
<1>5. ASSUME NEW d, Quiet(c, d), client' = d, UNCHANGED <<spectator, host>>,
             down' = SubSeq(down, n + 1, Len(down))
      PROVE  /\ Sound(client)' /\ Fits(client, 0)' /\ HostInv' /\ StreamInv'
             /\ ~spectator /\ ~client'.failed => client.world.tick <= client'.world.tick
             /\ client'.need = c.need
  <2>1. Sound(d) /\ Fits(d, n)
    BY <1>3, <1>5, QuietKeeps
  <2>2. StreamInv' /\ Fits(client, 0)'
    BY <1>0, <1>5, <2>1, LeftOver
  <2>3. Sound(client)'
    BY <1>5, <2>1 DEF Sound, RecordingInv, Following, Records, ClientState, WorldType, FrameType, Contents
  <2>4. HostInv'
    BY <1>0, <1>5 DEF HostInv, HostState
  <2> QED
    BY <1>1, <1>3, <1>5, <2>2, <2>3, <2>4 DEF Quiet
<1>6. CASE ~closed
  <2>1. /\ UNCHANGED <<spectator, host, link, faults>> /\ Carried(c, up)
        /\ down' = SubSeq(down, n + 1, Len(down))
    BY <1>6 DEF ClientPass
  <2>2. up \in Seq({"Resume", "SnapshotRequest"}) /\ c \in ClientState /\ (c.valid /\ ~c.failed => c.cache = c.world)
    BY <1>0, <1>3 DEF LinkInv, Sound
  <2> HIDE DEF c, closed
  <2>3. /\ Quiet(c, client')
        /\ up' = up \/ (up' = Append(up, "SnapshotRequest") /\ link' = "open")
    BY <2>1, <2>2, CarriedOn
  <2>4. LinkInv'
    <3>1. link \in {"open", "closed"} /\ faults \in 0..MaxFaults
      BY <1>0 DEF LinkInv
    <3>2. /\ up' \in Seq({"Resume", "SnapshotRequest"})
          /\ \A i \in 1..Len(up') : up'[i] = "Resume" => i \in 1..Len(up) /\ up[i] = "Resume"
          /\ up # <<>> => up' # <<>> /\ up'[1] = up[1]
      <4>1. CASE up' = up
        BY <2>2, <4>1
      <4>2. CASE up' = Append(up, "SnapshotRequest")
        <5>1. /\ up' \in Seq({"Resume", "SnapshotRequest"}) /\ Len(up) \in Nat
              /\ Len(up') = Len(up) + 1 /\ up'[Len(up) + 1] = "SnapshotRequest"
              /\ \A i \in 1..Len(up) : up'[i] = up[i]
              /\ up' # <<>> /\ (up # <<>> => 1 \in 1..Len(up))
          BY <2>2, <4>2
        <5>2. ASSUME NEW i \in 1..Len(up') PROVE i \in 1..Len(up) \/ i = Len(up) + 1
          BY <5>1
        <5> QED
          BY <5>1, <5>2
      <4> QED
        BY <2>3, <4>1, <4>2
    <3>3. link' = "closed" => up' = <<>>
      BY <1>0, <2>1, <2>3 DEF LinkInv
    <3>4. ASSUME link = "open", ~host.attached PROVE client'.need /\ down' = <<>>
      <4>1. client.need /\ down = <<>>
        BY <1>0, <3>4 DEF LinkInv
      <4>2. n = 0
        BY <4>1
      <4>3. c.need
        BY <1>1, <1>3, <4>1, <4>2
      <4>4. down' = <<>>
        BY <2>1, <4>1, <4>2
      <4> QED
        BY <2>3, <4>3, <4>4 DEF Quiet
    <3> QED
      BY <1>0, <2>1, <3>1, <3>2, <3>3, <3>4 DEF LinkInv
  <2>5. /\ Sound(client)' /\ Fits(client, 0)' /\ HostInv' /\ StreamInv'
        /\ ~spectator /\ ~client'.failed => client.world.tick <= client'.world.tick
    BY <1>5, <2>1, <2>3
  <2> QED
    BY <2>4, <2>5 DEF StepInv
<1>7. ASSUME closed
      PROVE  /\ link = "closed" /\ up = <<>> /\ ~host.attached /\ n = Len(down)
             /\ SubSeq(down, n + 1, Len(down)) = <<>>
  <2>1. link = "closed" /\ n = Len(down)
    BY <1>7
  <2>2. SubSeq(down, n + 1, Len(down)) = <<>>
    BY <1>4, <2>1
  <2> QED
    BY <1>0, <2>1, <2>2 DEF LinkInv
<1>8. CASE closed /\ UNCHANGED <<spectator, host, link, up, faults>> /\ down' = <<>>
           /\ \/ client' = Predicted(IF c.result THEN c ELSE Noticed(c))
              \/ MayReconnect(Noticed(c)) /\ client' = Predicted(e)
  <2>1. Quiet(c, c) /\ Quiet(c, Noticed(c))
    BY <1>3, QuietSteps DEF Quiet, Sound
  <2>2. ASSUME NEW d, Quiet(c, d) PROVE Quiet(c, Predicted(d))
    <3>1. d \in ClientState /\ (d.valid /\ ~d.failed => d.cache = d.world)
      BY <2>2 DEF Quiet
    <3>2. Quiet(d, Predicted(d))
      BY <3>1, QuietSteps
    <3> QED
      BY <2>2, <3>2, QuietTwice
  <2>3. MayReconnect(Noticed(c)) => Quiet(c, e)
    <3>1. Noticed(c) \in ClientState /\ (Noticed(c).valid /\ ~Noticed(c).failed => Noticed(c).cache = Noticed(c).world)
      BY <2>1 DEF Quiet
    <3>2. MayReconnect(Noticed(c)) => Quiet(Noticed(c), e)
      BY <3>1, QuietSteps
    <3> QED
      BY <2>1, <3>2, QuietTwice
  <2>4. Quiet(c, client')
    BY <1>8, <2>1, <2>2, <2>3
  <2>5. LinkInv'
    BY <1>0, <1>7, <1>8 DEF LinkInv
  <2>6. /\ Sound(client)' /\ Fits(client, 0)' /\ HostInv' /\ StreamInv'
        /\ ~spectator /\ ~client'.failed => client.world.tick <= client'.world.tick
    BY <1>5, <1>7, <1>8, <2>4
  <2> QED
    BY <2>5, <2>6 DEF StepInv
<1>9. CASE /\ closed /\ MayReconnect(Noticed(c)) /\ link' = "open" /\ Carried(r, <<"Resume">>)
           /\ down' = <<>> /\ host' = [host EXCEPT !.snapshots = 0]
           /\ UNCHANGED <<spectator, faults>>
  <2>1. Quiet(c, e)
    <3>1. Quiet(c, Noticed(c))
      BY <1>3, QuietSteps DEF Sound
    <3>2. Noticed(c) \in ClientState /\ (Noticed(c).valid /\ ~Noticed(c).failed => Noticed(c).cache = Noticed(c).world)
      BY <3>1 DEF Quiet
    <3>3. Quiet(Noticed(c), e)
      BY <1>9, <3>2, QuietSteps
    <3> QED
      BY <3>1, <3>3, QuietTwice
  <2>2. Sound(e) /\ e.world = c.world /\ e.failed = c.failed
    BY <1>3, <2>1, QuietKeeps DEF Quiet
  <2> HIDE DEF e, c, closed
  <2>3. /\ r \in ClientState /\ r.world = e.world /\ r.cache = e.cache /\ r.valid = e.valid
        /\ r.need /\ r.chunks = e.chunks /\ r.reconnected /\ r.failed = e.failed
    <3>1. SnapshotWait + 1 \in 0..SnapshotWait + 1 /\ 0 \in 0..MaxAttempts /\ e \in ClientState
      BY <2>2 DEF ClientAssumption, Sound
    <3> DEFINE b == [e EXCEPT !.sinceRequest = SnapshotWait + 1, !.attempts = 0]
    <3>2. /\ b \in ClientState /\ b.world = e.world /\ b.cache = e.cache /\ b.valid = e.valid
          /\ b.chunks = e.chunks /\ b.failed = e.failed
      BY <3>1 DEF ClientState
    <3>3. r = [b EXCEPT !.need = TRUE, !.lost = FALSE, !.reconnected = TRUE]
      BY <3>1 DEF Reconnected, ClientState
    <3> HIDE DEF b, r
    <3> QED
      BY <3>2, <3>3 DEF ClientState
  <2>4. Sound(r) /\ (r.valid /\ ~r.failed => r.cache = r.world)
    <3>1. RecordingInv(r) /\ ~Following(r)
      BY <2>3 DEF RecordingInv, Records, Following
    <3> HIDE DEF r
    <3> QED
      BY <2>2, <2>3, <3>1 DEF Sound
  <2> HIDE DEF r
  <2>5. /\ Quiet(r, client')
        /\ up' = <<"Resume">> \/ (up' = Append(<<"Resume">>, "SnapshotRequest"))
    <3>1. <<"Resume">> \in Seq({"Resume", "SnapshotRequest"})
      OBVIOUS
    <3> QED
      BY <1>9, <2>3, <2>4, <3>1, CarriedOn
  <2>6. /\ client' \in ClientState /\ client'.need /\ client'.world = c.world /\ client'.reconnected
        /\ client'.failed = c.failed
        /\ client'.chunks = e.chunks /\ (client'.valid /\ ~client'.failed => client'.cache = client'.world)
    BY <2>2, <2>3, <2>5 DEF Quiet
  <2>7. /\ host' \in HostState /\ host'.simulated = host.simulated /\ host'.cursor = host.cursor
        /\ ~host'.attached
    BY <1>0, <1>7, <1>9 DEF HostInv, HostState
  <2>8. Sound(client)'
    <3>1. RecordingInv(client') /\ ~Following(client')
      BY <2>6 DEF RecordingInv, Records, Following
    <3>2. Sound(client')
      <4>1. client'.world.tick <= host.simulated /\ Len(client'.chunks) < Chunks
        BY <2>2, <2>6 DEF Sound
      <4> QED
        BY <2>6, <3>1, <4>1 DEF Sound
    <3> QED
      BY <2>7, <1>9, <3>2 DEF Sound, RecordingInv, Following, Records, ClientState, WorldType, FrameType, Contents
  <2>9. HostInv'
    BY <1>0, <1>9, <2>7 DEF HostInv
  <2>10. StreamInv' /\ Fits(client, 0)'
    <3>1. /\ Len(<<>>) = 0 /\ 1..0 = {} /\ 1..(0 - 1) = {} /\ <<>> \in Seq(FrameType)
          /\ ~(0 < 0) /\ (0 + 1)..0 = {}
      OBVIOUS
    <3> QED
      BY <1>9, <2>6, <2>7, <3>1 DEF StreamInv, Fits
  <2>11. LinkInv'
    <3>1. /\ up' \in Seq({"Resume", "SnapshotRequest"}) /\ up' # <<>> /\ up'[1] = "Resume"
          /\ \A i \in 1..Len(up') : up'[i] = "Resume" => i = 1
      <4>1. CASE up' = <<"Resume">>
        BY <4>1
      <4>2. CASE up' = Append(<<"Resume">>, "SnapshotRequest")
        <5>1. /\ <<"Resume">> \in Seq({"Resume", "SnapshotRequest"})
              /\ Len(<<"Resume">>) = 1 /\ <<"Resume">>[1] = "Resume"
          OBVIOUS
        <5>2. /\ up' \in Seq({"Resume", "SnapshotRequest"}) /\ up' # <<>> /\ Len(up') = 2
              /\ up'[1] = "Resume" /\ up'[2] = "SnapshotRequest"
          BY <4>2, <5>1, AppendProperties
        <5>3. \A i \in 1..Len(up') : i = 1 \/ i = 2
          BY <5>2
        <5> QED
          BY <5>2, <5>3
      <4> QED
        BY <2>5, <4>1, <4>2
    <3> QED
      BY <1>0, <1>9, <2>6, <2>7, <3>1 DEF LinkInv
  <2> QED
    BY <1>1, <1>3, <2>6, <2>8, <2>9, <2>10, <2>11 DEF StepInv
<1> QED
  BY <1>6, <1>8, <1>9 DEF ClientPass

-----------------------------------------------------------------------------
\* The whole specification.

LEMMA InitStep ==
  ASSUME ClientAssumption, Init
  PROVE  StepInv
<1>0. /\ RaceTicks \in Nat \ {0} /\ Chunks \in Nat \ {0} /\ SnapshotWait \in Nat
      /\ ReconnectWait \in Nat /\ MaxAttempts \in Nat /\ MaxFaults \in Nat
      /\ spectator \in BOOLEAN /\ link = "open" /\ up = <<>> /\ faults <= MaxFaults
      /\ faults \in {0, 1}
      /\ Len(<<>>) = 0 /\ 1..0 = {} /\ 1..(0 - 1) = {} /\ <<>> \in Seq(FrameType)
  BY DEF ClientAssumption, Init, WithSnapshot
<1>1. /\ client \in ClientState /\ client.world = [tick |-> 0, same |-> TRUE] /\ ~client.valid
      /\ client.need = spectator /\ client.chunks = <<>> /\ client.recorder.next = 0
      /\ client.saved = 0 /\ ~client.failed
  <2> DEFINE w == [tick |-> 0, same |-> TRUE]
  <2>1. client = [world |-> w, cache |-> w, valid |-> FALSE,
                  need |-> spectator, chunks |-> <<>>,
                  recorder |-> NewRecording, result |-> FALSE, saved |-> 0,
                  lost |-> FALSE, attempts |-> 0,
                  sinceRequest |-> SnapshotWait + 1, sinceReconnect |-> ReconnectWait,
                  reconnected |-> FALSE, failed |-> FALSE]
    BY DEF Init
  <2>2. /\ w \in WorldType /\ NewRecording \in [next : 0..RaceTicks, whole : BOOLEAN]
        /\ NewRecording.next = 0
    BY <1>0 DEF WorldType, NewRecording
  <2>3. /\ SnapshotWait + 1 \in 0..SnapshotWait + 1 /\ ReconnectWait \in 0..ReconnectWait
        /\ 0 \in 0..RaceTicks /\ 0 \in 0..MaxAttempts
    BY <1>0
  <2>4. client.world = w
    BY <2>1
  <2> HIDE DEF w
  <2> QED
    BY <1>0, <2>1, <2>2, <2>3, <2>4 DEF ClientState, w
<1>2. client.world.tick = 0 /\ client.world.same
  BY <1>1
<1>3. RecordingInv(client)
  BY <1>0, <1>1, <1>2 DEF RecordingInv, Records
<1>4. ASSUME host.simulated \in 0..RaceTicks PROVE Sound(client)
  <2>1. client.world.tick <= host.simulated /\ Len(client.chunks) < Chunks
    BY <1>0, <1>1, <1>2, <1>4
  <2> QED
    BY <1>1, <1>2, <1>3, <2>1 DEF Sound
<1>5. ASSUME host.attached PROVE LinkInv
  <2>1. <<>> \in Seq({"Resume", "SnapshotRequest"}) /\ faults \in 0..MaxFaults
    BY <1>0
  <2> QED
    BY <1>0, <1>5, <2>1 DEF LinkInv
<1>6. CASE spectator
  <2>0. PICK now \in 0..RaceTicks : \E holds \in Contents(now) :
          /\ host = [simulated |-> now, cursor |-> Keyframe(now), resultSent |-> FALSE,
                     attached |-> TRUE, snapshots |-> 0, gone |-> FALSE]
          /\ down = SnapshotFrames(Keyframe(now), holds)
    BY <1>6 DEF Init
  <2>1. PICK holds \in Contents(now) :
          /\ host = [simulated |-> now, cursor |-> Keyframe(now), resultSent |-> FALSE,
                     attached |-> TRUE, snapshots |-> 0, gone |-> FALSE]
          /\ down = SnapshotFrames(Keyframe(now), holds)
    BY <2>0
  <2> DEFINE t == Keyframe(now)
  <2>2. t \in 0..now /\ t \in 0..RaceTicks /\ now \in Int /\ t <= now /\ t <= t
    <3>1. t \in 0..now
      BY KeyframeBefore
    <3> QED
      BY <1>0, <3>1
  <2>3. /\ host \in HostState /\ host.simulated = now /\ host.cursor = t /\ host.attached
    BY <1>0, <2>1, <2>2 DEF HostState
  <2>4. HostInv
    BY <1>0, <1>6, <2>2, <2>3 DEF HostInv
  <2>5. Leads(down, t, t, now) /\ down # <<>>
    BY <1>0, <1>6, <2>1, <2>2, SnapshotLeads
  <2>6. StreamInv
    BY <1>6, <2>3, <2>5 DEF Leads, StreamInv
  <2>7. Fits(client, 0)
    <3>1. Len(down) # 0
      BY <2>5 DEF Leads
    <3>2. Ready(client, down[0 + 1])
      <4>1. 0 + 1 = 1 /\ (Chunky(down[1]) => ~(down[1].index > 0))
        BY <2>5 DEF Leads
      <4> QED
        BY <1>1, <1>6, <4>1 DEF Ready, Following, Records
    <3> QED
      BY <1>6, <3>1, <3>2 DEF Fits
  <2> QED
    BY <1>4, <1>5, <2>3, <2>4, <2>6, <2>7 DEF StepInv
<1>7. CASE ~spectator
  <2>1. /\ host = [simulated |-> 0, cursor |-> 0, resultSent |-> FALSE, attached |-> TRUE,
                   snapshots |-> 0, gone |-> FALSE]
        /\ down = <<>>
    BY <1>7 DEF Init
  <2>2. host \in HostState /\ host.simulated = 0 /\ host.cursor = 0 /\ host.attached
        /\ 0 \in 0..RaceTicks
    BY <1>0, <2>1 DEF HostState
  <2>3. HostInv
    <3>1. Keyframe(0) \in 0..0
      BY <2>2, KeyframeBefore
    <3>2. Keyframe(0) <= 0
      BY <3>1
    <3> QED
      BY <1>0, <2>2, <3>2 DEF HostInv
  <2>4. StreamInv
    BY <1>0, <2>1 DEF StreamInv
  <2>5. Fits(client, 0)
    <3>1. ~(0 < 0) /\ (0 + 1)..0 = {}
      OBVIOUS
    <3> QED
      BY <1>0, <1>1, <1>2, <2>1, <2>2, <3>1 DEF Fits
  <2> QED
    BY <1>4, <1>5, <2>2, <2>3, <2>4, <2>5 DEF StepInv
<1> QED
  BY <1>6, <1>7

\* Every step keeps the invariant, and no driver steps back.
LEMMA NextStep ==
  ASSUME ClientAssumption, StepInv, [Next]_vars
  PROVE  StepInv' /\ (~spectator /\ ~client'.failed => client'.world.tick >= client.world.tick)
<1>0. client.world.tick \in Int
  BY DEF StepInv, Sound, ClientState, WorldType, ClientAssumption
<1>1. ASSUME UNCHANGED client PROVE ~spectator /\ ~client'.failed => client'.world.tick >= client.world.tick
  BY <1>0, <1>1
<1>2. ASSUME NEW ticks \in 0..1, NEW bad \in -1..RaceTicks, HostAdvances(ticks, bad)
      PROVE  StepInv' /\ UNCHANGED client
  BY <1>2, AdvanceStep DEF HostAdvances
<1>3. CASE HostResumes
  BY <1>1, <1>3, ResumeStep DEF HostResumes
<1>4. ASSUME NEW recent \in 0..SnapshotsPerMinute, NEW holds, HostServes(recent, holds)
      PROVE  StepInv' /\ UNCHANGED client
  BY <1>4, ServeStep DEF HostServes
<1>5. CASE RaceRemoved
  BY <1>1, <1>5, RemovedStep DEF RaceRemoved
<1>6. ASSUME NEW kept \in 0..Len(down), Break(kept)
      PROVE  StepInv' /\ UNCHANGED client
  BY <1>6, BreakStep DEF Break
<1>7. ASSUME NEW n \in 0..Len(down), NEW dt \in 0..1, NEW connects \in BOOLEAN,
             ClientPass(n, dt, connects)
      PROVE  StepInv' /\ (~spectator /\ ~client'.failed => client'.world.tick >= client.world.tick)
  <2>1. StepInv' /\ (~spectator /\ ~client'.failed => client.world.tick <= client'.world.tick)
    BY <1>7, PassStep
  <2>2. client'.world.tick \in Int
    BY <2>1 DEF StepInv, Sound, ClientState, WorldType, ClientAssumption
  <2> QED
    BY <1>0, <2>1, <2>2
<1>8. CASE UNCHANGED vars
  <2>1. StepInv'
    BY <1>8 DEF StepInv, Sound, Fits, HostInv, StreamInv, LinkInv, RecordingInv, Ready,
                Following, Records, Past, vars
  <2> QED
    BY <1>1, <1>8, <2>1 DEF vars
<1> QED
  BY <1>1, <1>2, <1>3, <1>4, <1>5, <1>6, <1>7, <1>8 DEF Next, HostReads

\* The invariant holds throughout, for every race and every client.
THEOREM ClientAlwaysFits == Spec => []StepInv
<1>1. Init => StepInv
  BY ClientAssumption, InitStep
<1>2. StepInv /\ [Next]_vars => StepInv'
  BY ClientAssumption, NextStep
<1> QED
  BY <1>1, <1>2, PTL DEF Spec

\* Whatever is lost, diverges, does not take or is asked for twice, a client that waits
\* for no snapshot and goes on from no failed one has the host's world and gets the Tick
\* it stands at (PredictingClient::OnTick with the filter in stepAuth), and any client
\* that accepts a Tick is such a one; chunks never pile up, and it is not ahead.
THEOREM ClientInStep == Spec => []ClientInv
<1>1. StepInv => ClientInv
  <2>1. SUFFICES ASSUME StepInv PROVE ClientInv
    OBVIOUS
  <2>2. Sound(client) /\ Fits(client, 0) /\ HostInv /\ StreamInv /\ LinkInv
    BY <2>1 DEF StepInv
  <2>3. /\ down \in Seq(FrameType) /\ Len(down) \in Nat
        /\ \A i \in 1..Len(down) : down[i] \in FrameType
    BY <2>2 DEF StreamInv
  <2>4. TypeOK
    <3>1. /\ client \in ClientState /\ client.world.tick <= host.simulated
          /\ Len(client.chunks) < Chunks
      BY <2>2 DEF Sound
    <3>2. host.simulated \in 0..RaceTicks /\ host.cursor \in 0..host.simulated
      <4>1. host.simulated \in 0..RaceTicks /\ host.cursor \in 0..RaceTicks
            /\ host.cursor <= host.simulated /\ RaceTicks \in Nat
        BY <2>2, ClientAssumption DEF HostInv, HostState, ClientAssumption
      <4> QED
        BY <4>1
    <3>3. link \in {"open", "closed"} /\ faults \in 0..MaxFaults
      BY <2>2 DEF LinkInv
    <3> QED
      BY <2>3, <3>1, <3>2, <3>3 DEF TypeOK, ClientState
  <2>5. ASSUME Following(client) PROVE client.world.same
    BY <2>2, <2>5 DEF Sound
  <2>6. ASSUME Following(client), NEW i \in 1..Len(down), down[i].type = "Tick",
               \A j \in 1..i - 1 : down[j].type = "Result"
        PROVE  down[i].tick = client.world.tick
    <3>1. CASE i = 1
      <4>1. 0 < Len(down) /\ 0 + 1 = 1
        BY <2>3
      <4>2. Ready(client, down[1])
        BY <2>2, <4>1 DEF Fits
      <4>3. ~Chunky(down[1]) /\ Entry(down[1]) = down[1].tick
        BY <2>6, <3>1 DEF Chunky, Entry
      <4> QED
        BY <2>6, <3>1, <4>2, <4>3 DEF Ready
    <3>2. CASE i # 1
      <4> DEFINE f == down[i - 1]
                 g == down[i]
      <4>1. i - 1 \in 1..i - 1 /\ i - 1 \in 1..Len(down) - 1 /\ (i - 1) + 1 = i
        BY <2>3, <3>2
      <4>2. Succeeds(f, g) /\ f.type = "Result"
        BY <2>2, <2>6, <4>1 DEF StreamInv
      <4>3. ~Chunky(g) /\ Entry(g) = g.tick /\ Exit(f) = RaceTicks
        BY <2>6, <4>2 DEF Chunky, Entry, Exit
      <4>4. g.tick = RaceTicks
        BY <4>2, <4>3 DEF Succeeds
      <4>5. g \in FrameType /\ g.type = "Tick"
        BY <2>3, <2>6
      <4> HIDE DEF g
      <4>6. g.tick \in 0..RaceTicks - 1
        BY <4>5, ClientAssumption, FrameKinds DEF Chunky
      <4>7. RaceTicks \in Nat
        BY ClientAssumption DEF ClientAssumption
      <4> QED
        BY <4>4, <4>6, <4>7
    <3> QED
      BY <3>1, <3>2
  <2>7. ASSUME Following(client), down = <<>>, host.attached PROVE host.cursor = client.world.tick
    <3>1. 0 = Len(down)
      BY <2>7
    <3> QED
      BY <2>2, <2>7, <3>1 DEF Fits
  <2>8. InStep
    BY <2>5, <2>6, <2>7 DEF InStep, Following
  <2> QED
    BY <2>4, <2>8 DEF ClientInv
<1> QED
  BY <1>1, ClientAlwaysFits, PTL

\* What is drawn starts from the confirmed world as it is now, and a valid one, unless a
\* snapshot has failed since the last that took or the last Tick that was accepted: no
\* Tick, accepted or refused, and no reconnection leaves an old copy behind
\* (PredictingClient::PredictOn, mSnapshotValid, OnSnapshot).
THEOREM PredictionsAreCurrent == Spec => []PredictsFromConfirmed
<1>1. StepInv => PredictsFromConfirmed
  BY DEF StepInv, Sound, Following, PredictsFromConfirmed
<1> QED
  BY <1>1, ClientAlwaysFits, PTL

\* A replay that a client saves without having reconnected is the whole race
\* (ReplayRecorder::OnTick, and OnResult in stepAuth).
THEOREM ReplaysAreWhole == Spec => []SavedWhole
<1>1. StepInv => SavedWhole
  BY DEF StepInv, Sound, RecordingInv, SavedWhole
<1> QED
  BY <1>1, ClientAlwaysFits, PTL

\* No snapshot, however late or damaged, takes a driver's confirmed world back, but one
\* whose world is of another tick than its own; and the world accepted after that one
\* is again none before.
THEOREM DriversNeverGoBack == Spec => NeverBack
<1>1. StepInv /\ [Next]_vars => [~spectator /\ ~client'.failed => client'.world.tick >= client.world.tick]_vars
  BY ClientAssumption, NextStep
<1> QED
  BY <1>1, ClientAlwaysFits, PTL DEF Spec, NeverBack

=============================================================================
