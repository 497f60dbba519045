-------------------------- MODULE AuthoritativeRace --------------------------
(***************************************************************************)
(* The server's side of one race: the players' control words are collected *)
(* per tick, every tick is simulated once with exactly one control word    *)
(* per player, and laps, checkpoints and the end of the race follow from   *)
(* the simulation.                                                         *)
(*                                                                         *)
(* Abstractions.  The flat (tick, input) vector of a player is the set of  *)
(* its pairs: both loops over it look entries up by tick.  The physics is  *)
(* not modelled: SimulateStep decides which craft complete a lap in the    *)
(* tick, and here any set of craft that may still complete one can.  Race  *)
(* times are ticks; a state hash is the tick it was taken at.              *)
(***************************************************************************)
EXTENDS Naturals, Sequences, FiniteSets

CONSTANTS
  MaxPlayers,       \* ReplayFormat::kMaxPlayers
  Bits,             \* the bits of a control word on the wire
  ValidBits,        \* kValidControlBits, the bits the simulation defines
  MaxFutureTicks,   \* RaceConfig::maxFutureTicks
  CheckpointTicks,  \* ReplayFormat::kCheckpointTicks
  KMaxTicks,        \* ReplayFormat::kMaxTicks, the longest race there is
  FreePlayTicks,    \* the limit Start gives a track without a finish line
  Laps,             \* the lap counts races are configured with
  TickLimits        \* the values of RaceConfig::maxTicks (0: none)

ASSUME RaceAssumption ==
  /\ MaxPlayers \in Nat \ {0}
  /\ ValidBits \subseteq Bits
  /\ MaxFutureTicks \in Nat
  /\ CheckpointTicks \in Nat \ {0}
  /\ KMaxTicks \in Nat \ {0}
  /\ FreePlayTicks \in Nat \ {0}
  /\ Laps \subseteq Nat \ {0}
  /\ TickLimits \subseteq Nat

VARIABLES
  mConfig,       \* [players, laps, maxTicks] as given to Start
  mFreePlay,     \* the track has no finish line
  mTick,         \* ticks simulated so far
  mFinished,     \* the race is over
  mPending,      \* per player, the inputs kept for ticks not yet simulated
  mLastInput,    \* per player, the control word of the newest tick
  mHistory,      \* per tick, the control words that were simulated
  mCheckpoints,  \* the state hashes kept for the replay file
  mCraft,        \* per player, the laps of the craft and when it made the last
  mLastLap,      \* per player, the laps already reported
  mEvents        \* the laps reported

inputVars == <<mPending, mLastInput, mHistory>>
lapVars   == <<mCraft, mLastLap, mEvents>>
vars == <<mConfig, mFreePlay, mTick, mFinished, mCheckpoints, inputVars, lapVars>>

Controls   == SUBSET ValidBits
NoControls == {}

Config == [players: 1..MaxPlayers, laps: Laps, maxTicks: TickLimits \union {FreePlayTicks}]
Input  == [tick: Nat, controls: Controls]
Slots  == 1..mConfig.players

\* Start has succeeded: its last statements give every player a queue.
Ready == DOMAIN mPending = Slots

(***************************************************************************)
(* Start, and the object before it: the callers submit and advance only    *)
(* after a Start that succeeded.                                           *)
(***************************************************************************)
Init ==
  /\ mConfig \in {c \in Config : c.players = MaxPlayers}
  /\ mFreePlay = FALSE
  /\ mTick = 0
  /\ mFinished = FALSE
  /\ mPending = <<>> /\ mLastInput = <<>> /\ mHistory = <<>>
  /\ mCheckpoints = <<>>
  /\ mCraft = <<>> /\ mLastLap = <<>> /\ mEvents = {}

\* The statements every Start makes once its configuration is accepted.
ClearRace ==
  /\ mHistory' = <<>>
  /\ mCheckpoints' = <<>>
  /\ mEvents' = {}
  /\ mLastLap' = <<>>
  /\ mTick' = 0
  /\ mFinished' = FALSE

\* RaceHost starts a race again, with fewer players, before its first tick.
Start(players, laps, limit, freePlay) ==
  /\ mTick = 0
  /\ ClearRace
  /\ mConfig' = [players  |-> players,
                 laps     |-> laps,
                 maxTicks |-> IF freePlay /\ limit = 0 THEN FreePlayTicks ELSE limit]
  /\ mFreePlay' = freePlay
  /\ mPending' = [p \in 1..players |-> {}]
  /\ mLastInput' = [p \in 1..players |-> NoControls]
  /\ mCraft' = [p \in 1..players |-> [lap |-> 0, at |-> 0]]

\* The track cannot be read or placed on: everything was cleared before.
StartFails(players, laps, limit) ==
  /\ mTick = 0
  /\ ClearRace
  /\ mConfig' = [players |-> players, laps |-> laps, maxTicks |-> limit]
  /\ mPending' = <<>>
  /\ mLastInput' = <<>>
  /\ mCraft' = <<>>
  /\ UNCHANGED mFreePlay

(***************************************************************************)
(* Inputs.                                                                 *)
(***************************************************************************)
Mask(controls) == controls \intersect ValidBits

StoreInput(queue, tick, controls) ==
  IF \E e \in queue : e.tick = tick
  THEN {IF e.tick = tick THEN [e EXCEPT !.controls = controls] ELSE e : e \in queue}
  ELSE queue \union {[tick |-> tick, controls |-> controls]}

\* Mutation: the check of a race that is over is forgotten.
AcceptsOver(tick) == tick >= mTick /\ tick <= mTick + MaxFutureTicks

\* What SubmitInput accepts; a Late, TooFarAhead or Finished answer changes nothing.
Accepts(tick) ==
  /\ ~mFinished
  /\ tick >= mTick
  /\ tick <= mTick + MaxFutureTicks

SubmitInput(player, tick, controls) ==
  /\ Ready
  /\ Accepts(tick)
  /\ mPending' = [mPending EXCEPT ![player] = StoreInput(@, tick, Mask(controls))]
  /\ UNCHANGED <<mConfig, mFreePlay, mTick, mFinished, mLastInput, mHistory, mCheckpoints, lapVars>>

\* Mutation: the craft of a silent player lets go of its controls.
InputsDueReleased(queue, last) ==
  IF \E e \in queue : e.tick = mTick
  THEN {e.controls : e \in {d \in queue : d.tick = mTick}}
  ELSE {NoControls}

\* The control words a player's craft may be given at the tick that is due.
InputsDue(queue, last) ==
  IF \E e \in queue : e.tick = mTick
  THEN {e.controls : e \in {d \in queue : d.tick = mTick}}
  ELSE {last}

\* Mutation: the input of the tick being simulated is kept too.
KeptInputsStale(queue) == {e \in queue : e.tick >= mTick}
KeptInputs(queue) == {e \in queue : e.tick > mTick}

(***************************************************************************)
(* One tick of 16 ms.                                                      *)
(***************************************************************************)
\* Mutation: a configured limit is not held against the format's.
LimitAsConfigured == IF mConfig.maxTicks > 0 THEN mConfig.maxTicks ELSE KMaxTicks

Limit == IF mConfig.maxTicks > 0 /\ mConfig.maxTicks < KMaxTicks
         THEN mConfig.maxTicks ELSE KMaxTicks
CheckpointDue(tick) == tick % CheckpointTicks = 0

HasFinished(craft) == craft.lap >= mConfig.laps

\* The craft that can complete a lap: there is a line, and laps are left.
MayCross == {p \in Slots : ~mFreePlay /\ ~HasFinished(mCraft[p])}

StepCraft(crossing) ==
  [p \in Slots |-> IF p \in crossing
                   THEN [lap |-> mCraft[p].lap + 1, at |-> mTick + 1]
                   ELSE mCraft[p]]

\* Mutation: the vector of reported laps is filled in anew every tick.
ReportedNever == [p \in Slots |-> 0]

\* The laps reported so far; the vector is filled in at the first tick.
Reported == IF DOMAIN mLastLap = Slots THEN mLastLap ELSE [p \in Slots |-> 0]

\* The events of a tick.  A vector in the code, in order of tick and then of
\* slot, which the records tell: the set of them is kept.
LapEvents(craft) ==
  {[tick |-> mTick + 1, player |-> p, lap |-> craft[p].lap, finished |-> HasFinished(craft[p])] :
     p \in {q \in Slots : craft[q].lap > Reported[q]}}

AdvanceTick(crossing) ==
  LET craft == StepCraft(crossing)
  IN  /\ Ready
      /\ ~mFinished
      /\ crossing \subseteq MayCross
      /\ \E used \in [Slots -> Controls] :
           /\ \A p \in Slots : used[p] \in InputsDue(mPending[p], mLastInput[p])
           /\ mLastInput' = used
           /\ mHistory' = Append(mHistory, used)
      /\ mPending' = [p \in Slots |-> KeptInputs(mPending[p])]
      /\ mTick' = mTick + 1
      /\ mCheckpoints' = IF CheckpointDue(mTick + 1)
                         THEN Append(mCheckpoints, mTick + 1) ELSE mCheckpoints
      /\ mCraft' = craft
      /\ mEvents' = mEvents \union LapEvents(craft)
      /\ mLastLap' = [p \in Slots |-> IF craft[p].lap > Reported[p]
                                      THEN craft[p].lap ELSE Reported[p]]
      /\ mFinished' = ((\A p \in Slots : HasFinished(craft[p])) \/ mTick + 1 >= Limit)
      /\ UNCHANGED <<mConfig, mFreePlay>>

(***************************************************************************)
(* What the race reports.                                                  *)
(***************************************************************************)
InputsAt(tick) == IF tick >= mTick THEN <<>> ELSE mHistory[tick + 1]

\* Mutation: sorted by time alone.
RanksBeforeByTime(p, q) ==
  mCraft[p].at < mCraft[q].at \/ (mCraft[p].at = mCraft[q].at /\ p < q)

\* p is sorted before q: finishers by time, the others by laps, ties by slot.
RanksBefore(p, q) ==
  LET a == mCraft[p]
      b == mCraft[q]
      fa == HasFinished(a)
      fb == HasFinished(b)
      less    == IF fa # fb THEN fa ELSE IF fa THEN a.at < b.at ELSE a.lap > b.lap
      greater == IF fa # fb THEN fb ELSE IF fa THEN b.at < a.at ELSE b.lap > a.lap
  IN  less \/ (~greater /\ p < q)

Rank(p) == 1 + Cardinality({q \in Slots : RanksBefore(q, p)})

-----------------------------------------------------------------------------
StartSome ==
  \E n \in 1..MaxPlayers, laps \in Laps, limit \in TickLimits :
    \/ \E freePlay \in BOOLEAN : Start(n, laps, limit, freePlay)
    \/ StartFails(n, laps, limit)

SubmitSome ==
  \E p \in Slots, t \in 0..KMaxTicks + MaxFutureTicks, c \in SUBSET Bits : SubmitInput(p, t, c)

AdvanceSome == \E crossing \in SUBSET Slots : AdvanceTick(crossing)

Next == StartSome \/ SubmitSome \/ AdvanceSome

Spec == Init /\ [][Next]_vars
-----------------------------------------------------------------------------
(***************************************************************************)
(* Properties.                                                             *)
(***************************************************************************)
Craft == [lap: Nat, at: Nat]
Event == [tick: Nat, player: 1..MaxPlayers, lap: Nat, finished: BOOLEAN]

\* The types of the members, and that the per-player arrays are those of a race
\* that is set up, or empty.
TypeOK ==
  /\ mConfig \in Config
  /\ mFreePlay \in BOOLEAN
  /\ mTick \in Nat
  /\ mFinished \in BOOLEAN
  /\ mPending \in [Slots -> SUBSET Input] \/ mPending = <<>>
  /\ Ready => mLastInput \in [Slots -> Controls] /\ mCraft \in [Slots -> Craft]
  /\ mHistory \in Seq([Slots -> Controls])
  /\ mCheckpoints \in Seq(Nat)
  /\ mLastLap \in [Slots -> Nat] \/ mLastLap = <<>>
  /\ mEvents \subseteq Event
  /\ ~Ready => mTick = 0 /\ ~mFinished

\* The queue of a player holds at most one input per tick, and only for ticks
\* the race has still to simulate, at most maxFutureTicks ahead: an input that
\* was replaced, or whose tick was simulated, can never be used (StoreInput,
\* SubmitInput, and the queue swap of AdvanceTick).
PendingInWindow ==
  Ready => \A p \in Slots :
    /\ \A e \in mPending[p] : e.tick >= mTick /\ e.tick <= mTick + MaxFutureTicks
    /\ \A d, e \in mPending[p] : d.tick = e.tick => d = e

\* The flat history has one row per simulated tick, so that InputsAt(tick) reads
\* that tick's row, and its newest row is what is repeated for a silent player
\* (before the first tick, no controls at all).
HistoryAligned ==
  /\ Len(mHistory) = mTick
  /\ mTick > 0 => InputsAt(mTick - 1) = mLastInput
  /\ mTick = 0 /\ Ready => mLastInput = [p \in Slots |-> NoControls]

\* What every step preserves: the types, the queues, and the history they feed.
InputInv == TypeOK /\ PendingInWindow /\ HistoryAligned

\* A replay file is verified against hash i taken after tick (i+1) * 250
\* (ReplayFormat.h): the race keeps exactly those.
CheckpointsVerifiable ==
  mCheckpoints = [i \in 1..(mTick \div CheckpointTicks) |-> i * CheckpointTicks]

\* Laps are announced exactly once each, in increasing ticks, none above the
\* race's lap count, and the announcement of the last one says it finishes.
LapsAnnouncedOnce ==
  Ready => \A p \in Slots :
    LET Of(l) == {e \in mEvents : e.player = p /\ e.lap = l} IN
    /\ mCraft[p].lap <= mConfig.laps
    /\ \A l \in 1..mConfig.laps :
         Cardinality(Of(l)) = IF l <= mCraft[p].lap THEN 1 ELSE 0
    /\ \A e \in mEvents : e.player = p =>
         /\ e.lap \in 1..mCraft[p].lap
         /\ e.finished = (e.lap = mConfig.laps)
         /\ \A d \in mEvents : d.player = p /\ d.lap < e.lap => d.tick < e.tick

\* The race is over exactly when every craft has finished or the limit that
\* applies to it was reached, never earlier and never later, and no
\* configuration makes it longer than a replay file may be.
FinishedExactly ==
  Ready /\ mTick > 0 =>
    /\ mTick <= Limit /\ mTick <= KMaxTicks
    /\ mFinished <=> \/ mTick = Limit
                     \/ \A p \in Slots : HasFinished(mCraft[p])

\* A replay written of the race is one that verifies: its checkpoints are the
\* expected ones and its length is that of the race (ReplayFormat.cpp).
ReplayVerifiable == CheckpointsVerifiable /\ FinishedExactly

\* The result gives every player a different rank from 1 to n, finishers in the
\* order in which their finishes were announced and before everybody else.
ResultsRankFinishers ==
  Ready =>
    /\ {Rank(p) : p \in Slots} = Slots
    /\ \A d, e \in mEvents :
         d.finished /\ e.finished /\ (d.tick < e.tick \/ (d.tick = e.tick /\ d.player < e.player))
           => Rank(d.player) < Rank(e.player)
    /\ \A d \in mEvents, p \in Slots :
         d.finished /\ ~HasFinished(mCraft[p]) => Rank(d.player) < Rank(p)

\* What was simulated is never changed: a race that has ticked only appends to
\* its history, its events and its checkpoints, and one that is over stands still.
NothingRewritten ==
  [][mTick > 0 =>
       /\ mTick' >= mTick
       /\ SubSeq(mHistory', 1, mTick) = mHistory
       /\ mEvents \subseteq mEvents'
       /\ mFinished => UNCHANGED vars]_vars

\* The queues implement the wishes of the abstract specification.
WishesOf(queue) ==
  [t \in {e.tick : e \in queue} |-> (CHOOSE e \in queue : e.tick = t).controls]
Wishes == [p \in DOMAIN mPending |-> WishesOf(mPending[p])]

Log == INSTANCE InputLog WITH Window <- MaxFutureTicks, wishes <- Wishes,
                              log <- mHistory, over <- mFinished

\* Every race is a run of the input log: the newest accepted input for a tick is
\* the one simulated, and a tick without one repeats the tick before it.
ImplementsInputLog == Log!Spec
=============================================================================
