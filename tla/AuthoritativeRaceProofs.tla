----------------------- MODULE AuthoritativeRaceProofs -----------------------
(***************************************************************************)
(* One race, for any number of players, any control words, any window and  *)
(* any limits: the input queues and the history; laps, checkpoints and the *)
(* end of the race; the ranking.                                           *)
(***************************************************************************)
EXTENDS AuthoritativeRace, SequenceTheorems, FiniteSetTheorems, TLAPS

\* A race has at least one player, so a race that is set up has queues.
LEMMA NotReadyEmpty ==
  ASSUME RaceAssumption, TypeOK
  PROVE  /\ mConfig.players \in 1..MaxPlayers
         /\ Slots # {}
         /\ Ready => mPending \in [Slots -> SUBSET Input]
         /\ ~Ready => mPending = <<>>
<1>1. mConfig.players \in 1..MaxPlayers
  BY DEF TypeOK, Config
<1>2. 1 \in Slots
  BY <1>1 DEF Slots, RaceAssumption
<1>3. mPending = <<>> => DOMAIN mPending # Slots
  BY <1>2
<1> QED
  BY <1>1, <1>2, <1>3 DEF TypeOK, Ready

\* The object before any Start satisfies the invariant.
LEMMA InitInv ==
  ASSUME RaceAssumption, Init
  PROVE  InputInv
<1>1. MaxPlayers \in 1..MaxPlayers /\ mConfig \in Config /\ mConfig.players \in 1..MaxPlayers
  BY DEF Init, Config, RaceAssumption
<1>2. ~Ready
  BY <1>1 DEF Init, Ready, Slots
<1>3. TypeOK
  <2>1. mHistory \in Seq([Slots -> Controls]) /\ mCheckpoints \in Seq(Nat)
    BY EmptySeq DEF Init
  <2>2. mFreePlay \in BOOLEAN /\ mFinished \in BOOLEAN /\ ~mFinished
    BY DEF Init
  <2> QED
    BY <1>1, <1>2, <2>1, <2>2 DEF Init, TypeOK
<1> QED
  BY <1>2, <1>3 DEF Init, InputInv, PendingInWindow, HistoryAligned

\* Setting a race up, again or for the first time, leaves nothing behind.
LEMMA StartInv ==
  ASSUME RaceAssumption, InputInv,
         NEW n \in 1..MaxPlayers, NEW laps \in Laps, NEW limit \in TickLimits,
         NEW freePlay \in BOOLEAN, Start(n, laps, limit, freePlay)
  PROVE  InputInv'
<1>1. mConfig' \in Config /\ Slots' = 1..n
  BY DEF Start, Config, Slots, RaceAssumption
<1>2. Ready' /\ mPending' = [p \in Slots' |-> {}]
  BY <1>1 DEF Start, Ready
<1>3. TypeOK'
  <2>1. mHistory' \in Seq([Slots' -> Controls]) /\ mCheckpoints' \in Seq(Nat)
    BY EmptySeq DEF Start, ClearRace
  <2>2. mFreePlay' \in BOOLEAN /\ mFinished' \in BOOLEAN
    BY DEF Start, ClearRace
  <2>3. mLastInput' \in [Slots' -> Controls] /\ mCraft' \in [Slots' -> Craft]
    BY <1>1 DEF Start, Craft, Controls, NoControls
  <2>4. mPending' \in [Slots' -> SUBSET Input]
    BY <1>2
  <2> QED
    BY <1>1, <1>2, <2>1, <2>2, <2>3, <2>4 DEF Start, ClearRace, TypeOK
<1> QED
  BY <1>1, <1>2, <1>3 DEF Start, ClearRace, InputInv, PendingInWindow, HistoryAligned

\* A Start that fails leaves an empty object.
LEMMA StartFailsInv ==
  ASSUME RaceAssumption, InputInv,
         NEW n \in 1..MaxPlayers, NEW laps \in Laps, NEW limit \in TickLimits,
         StartFails(n, laps, limit)
  PROVE  InputInv'
<1>1. mConfig' \in Config /\ Slots' = 1..n /\ 1 \in Slots'
  BY DEF StartFails, Config, Slots, RaceAssumption
<1>2. mPending' = <<>> /\ ~Ready'
  BY <1>1 DEF StartFails, Ready
<1>3. TypeOK'
  <2>1. mHistory' \in Seq([Slots' -> Controls]) /\ mCheckpoints' \in Seq(Nat)
    BY EmptySeq DEF StartFails, ClearRace
  <2>2. mFreePlay' \in BOOLEAN /\ mFinished' \in BOOLEAN /\ ~mFinished'
    BY DEF StartFails, ClearRace, TypeOK, InputInv
  <2> QED
    BY <1>1, <1>2, <2>1, <2>2 DEF StartFails, ClearRace, TypeOK
<1> QED
  BY <1>2, <1>3 DEF StartFails, ClearRace, InputInv, PendingInWindow, HistoryAligned

\* StoreInput keeps a queue typed, with one input per tick, and adds only the
\* tick it was given.
LEMMA StoreInputOne ==
  ASSUME NEW queue \in SUBSET Input, NEW t \in Nat, NEW c \in Controls,
         \A d, e \in queue : d.tick = e.tick => d = e
  PROVE  /\ StoreInput(queue, t, c) \in SUBSET Input
         /\ \A d, e \in StoreInput(queue, t, c) : d.tick = e.tick => d = e
         /\ \A e \in StoreInput(queue, t, c) : e.tick = t \/ e \in queue
         /\ \E e \in StoreInput(queue, t, c) : e.tick = t /\ e.controls = c
<1> DEFINE new == [tick |-> t, controls |-> c]
           put(e) == IF e.tick = t THEN [e EXCEPT !.controls = c] ELSE e
<1>1. new \in Input /\ new.tick = t /\ new.controls = c
  BY DEF Input
<1>2. \A e \in queue : /\ put(e) \in Input
                       /\ put(e).tick = e.tick
                       /\ e.tick = t => put(e) = new
                       /\ e.tick # t => put(e) = e
  BY DEF Input
<1>3. CASE \E e \in queue : e.tick = t
  <2>1. StoreInput(queue, t, c) = {put(e) : e \in queue}
    BY <1>3 DEF StoreInput
  <2> HIDE DEF put, new
  <2>2. \A d, e \in {put(x) : x \in queue} : d.tick = e.tick => d = e
    BY <1>2
  <2> QED
    BY <1>1, <1>2, <1>3, <2>1, <2>2
<1>4. CASE ~ \E e \in queue : e.tick = t
  <2>1. StoreInput(queue, t, c) = queue \union {new}
    BY <1>4 DEF StoreInput
  <2> HIDE DEF new
  <2> QED
    BY <1>1, <1>4, <2>1
<1> QED
  BY <1>3, <1>4

\* An accepted input goes into the window; nothing else moves.
LEMMA SubmitInv ==
  ASSUME RaceAssumption, InputInv,
         NEW p \in Slots, NEW t \in Nat, NEW c \in SUBSET Bits,
         SubmitInput(p, t, c)
  PROVE  InputInv'
<1> DEFINE queue == mPending[p]
<1>1. mPending \in [Slots -> SUBSET Input] /\ Slots' = Slots /\ UNCHANGED <<mConfig, mTick>>
  BY NotReadyEmpty DEF InputInv, SubmitInput, Slots
<1>2. Mask(c) \in Controls
  BY DEF Mask, Controls
<1>3. \A d, e \in queue : d.tick = e.tick => d = e
  BY DEF InputInv, PendingInWindow, SubmitInput
<1>4. /\ StoreInput(queue, t, Mask(c)) \in SUBSET Input
      /\ \A d, e \in StoreInput(queue, t, Mask(c)) : d.tick = e.tick => d = e
      /\ \A e \in StoreInput(queue, t, Mask(c)) : e.tick = t \/ e \in queue
  BY <1>1, <1>2, <1>3, StoreInputOne
<1>5. mPending' = [mPending EXCEPT ![p] = StoreInput(queue, t, Mask(c))]
  BY DEF SubmitInput
<1> HIDE DEF queue
<1>6. mPending' \in [Slots' -> SUBSET Input] /\ Ready'
  BY <1>1, <1>4, <1>5 DEF Ready
<1>7. TypeOK'
  BY <1>1, <1>6 DEF InputInv, TypeOK, SubmitInput, Ready, lapVars, Slots
<1>8. PendingInWindow'
  <2> SUFFICES ASSUME NEW q \in Slots
               PROVE  /\ \A e \in mPending'[q] : e.tick >= mTick /\ e.tick <= mTick + MaxFutureTicks
                      /\ \A d, e \in mPending'[q] : d.tick = e.tick => d = e
    BY <1>1 DEF PendingInWindow
  <2>1. CASE q = p
    BY <2>1, <1>1, <1>4, <1>5 DEF InputInv, PendingInWindow, SubmitInput, Accepts, queue
  <2>2. CASE q # p
    BY <2>2, <1>1, <1>5 DEF InputInv, PendingInWindow, SubmitInput
  <2> QED
    BY <2>1, <2>2
<1>9. HistoryAligned'
  <2>1. Ready /\ UNCHANGED <<mTick, mHistory, mLastInput>>
    BY DEF SubmitInput
  <2> QED
    BY <1>1, <2>1 DEF InputInv, HistoryAligned, InputsAt
<1> QED
  BY <1>7, <1>8, <1>9 DEF InputInv

\* One tick of the race.
LEMMA AdvanceInv ==
  ASSUME RaceAssumption, InputInv, NEW crossing \in SUBSET Slots, AdvanceTick(crossing)
  PROVE  InputInv'
<1>1. /\ mPending \in [Slots -> SUBSET Input]
      /\ Slots' = Slots
      /\ mConfig.players \in 1..MaxPlayers
      /\ UNCHANGED <<mConfig, mFreePlay>>
      /\ mTick \in Nat /\ mTick' = mTick + 1
      /\ mHistory \in Seq([Slots -> Controls]) /\ Len(mHistory) = mTick
      /\ mLastInput \in [Slots -> Controls]
      /\ mCraft \in [Slots -> Craft]
  BY NotReadyEmpty DEF InputInv, TypeOK, AdvanceTick, Slots, HistoryAligned
<1>2. PICK used \in [Slots -> Controls] :
        mLastInput' = used /\ mHistory' = Append(mHistory, used)
  BY DEF AdvanceTick
<1>3. mPending' = [p \in Slots |-> KeptInputs(mPending[p])] /\ Ready'
  BY <1>1 DEF AdvanceTick, Ready
<1>4. \A p \in Slots : KeptInputs(mPending[p]) \in SUBSET Input
  BY <1>1 DEF KeptInputs
<1>5. StepCraft(crossing) \in [Slots -> Craft]
  BY <1>1 DEF StepCraft, Craft
<1>6. Reported \in [Slots -> Nat]
  <2>1. DOMAIN mLastLap = Slots => mLastLap \in [Slots -> Nat]
    <3>1. 1 \in Slots
      BY <1>1 DEF Slots
    <3> QED
      BY <3>1 DEF InputInv, TypeOK
  <2> QED
    BY <2>1 DEF Reported
<1>7. mLastLap' \in [Slots -> Nat]
  BY <1>5, <1>6 DEF AdvanceTick, Craft
<1>8. mEvents' \subseteq Event
  <2>1. Slots \subseteq 1..MaxPlayers
    BY <1>1 DEF Slots, RaceAssumption
  <2>2. \A craft \in [Slots -> Craft] : LapEvents(craft) \subseteq Event
    <3> SUFFICES ASSUME NEW craft \in [Slots -> Craft], NEW p \in Slots
                 PROVE  [tick |-> mTick + 1, player |-> p, lap |-> craft[p].lap,
                         finished |-> HasFinished(craft[p])] \in Event
      BY DEF LapEvents
    <3>1. p \in 1..MaxPlayers /\ craft[p].lap \in Nat /\ mTick + 1 \in Nat
      BY <1>1, <2>1 DEF Craft
    <3>2. HasFinished(craft[p]) \in BOOLEAN
      BY DEF HasFinished
    <3> QED
      BY <3>1, <3>2, Zenon DEF Event
  <2> QED
    BY <1>5, <2>2 DEF AdvanceTick, InputInv, TypeOK
<1>9. mHistory' \in Seq([Slots -> Controls]) /\ Len(mHistory') = mTick + 1
      /\ mHistory'[mTick + 1] = mLastInput'
  BY <1>1, <1>2, AppendProperties
<1>10. mCheckpoints' \in Seq(Nat)
  BY <1>1 DEF AdvanceTick, InputInv, TypeOK
<1>11. mFinished' \in BOOLEAN
  BY DEF AdvanceTick
<1>12. TypeOK'
  BY <1>1, <1>2, <1>3, <1>4, <1>5, <1>7, <1>8, <1>9, <1>10, <1>11
  DEF TypeOK, InputInv, AdvanceTick, Slots
<1>13. PendingInWindow'
  <2> SUFFICES ASSUME NEW q \in Slots
               PROVE  /\ \A e \in KeptInputs(mPending[q]) :
                           e.tick >= mTick + 1 /\ e.tick <= mTick + 1 + MaxFutureTicks
                      /\ \A d, e \in KeptInputs(mPending[q]) : d.tick = e.tick => d = e
    BY <1>1, <1>3 DEF PendingInWindow
  <2>1. \A e \in mPending[q] : e.tick \in Nat /\ e.tick <= mTick + MaxFutureTicks
    BY <1>1 DEF InputInv, PendingInWindow, AdvanceTick, Input
  <2>2. \A d, e \in mPending[q] : d.tick = e.tick => d = e
    BY DEF InputInv, PendingInWindow, AdvanceTick
  <2> QED
    BY <1>1, <2>1, <2>2 DEF KeptInputs, RaceAssumption
<1>14. HistoryAligned'
  BY <1>1, <1>9 DEF HistoryAligned, InputsAt
<1> QED
  BY <1>12, <1>13, <1>14 DEF InputInv

\* Every step of the race preserves the invariant.
LEMMA NextInv ==
  ASSUME RaceAssumption, InputInv, [Next]_vars
  PROVE  InputInv'
<1>1. CASE StartSome
  BY <1>1, StartInv, StartFailsInv DEF StartSome
<1>2. CASE SubmitSome
  <2>1. KMaxTicks + MaxFutureTicks \in Nat
    BY DEF RaceAssumption
  <2> QED
    BY <1>2, <2>1, SubmitInv DEF SubmitSome
<1>3. CASE AdvanceSome
  BY <1>3, AdvanceInv DEF AdvanceSome
<1>4. CASE UNCHANGED vars
  BY <1>4 DEF vars, inputVars, lapVars, InputInv, TypeOK, PendingInWindow, HistoryAligned,
             Ready, Slots, InputsAt
<1> QED
  BY <1>1, <1>2, <1>3, <1>4 DEF Next

\* In every race the queues and the history stay well-formed, whatever is
\* submitted and in whatever order: the members keep their types, a queue holds
\* one input per tick inside the window, and the history has one row per tick.
THEOREM InputsCorrect == ASSUME RaceAssumption PROVE Spec => []InputInv
<1>1. Init => InputInv
  BY InitInv
<1>2. InputInv /\ [Next]_vars => InputInv'
  BY NextInv
<1> QED
  BY <1>1, <1>2, PTL DEF Spec

\* The members of a race keep their types (AuthoritativeRace.h:104-117).
THEOREM TypeCorrect == ASSUME RaceAssumption PROVE Spec => []TypeOK
<1>1. InputInv => TypeOK
  BY DEF InputInv
<1> QED
  BY <1>1, InputsCorrect, PTL

\* A queue never holds two inputs for a tick, nor one that is late or too far ahead.
THEOREM QueueInWindow == ASSUME RaceAssumption PROVE Spec => []PendingInWindow
<1>1. InputInv => PendingInWindow
  BY DEF InputInv
<1> QED
  BY <1>1, InputsCorrect, PTL

\* A tick only appends: no simulated input, reported lap or tick is taken back,
\* and a race that is over accepts and simulates nothing more.
THEOREM HistoryKept == ASSUME RaceAssumption PROVE Spec => NothingRewritten
<1> DEFINE Kept == mTick > 0 =>
                     /\ mTick' >= mTick
                     /\ SubSeq(mHistory', 1, mTick) = mHistory
                     /\ mEvents \subseteq mEvents'
                     /\ mFinished => UNCHANGED vars
<1>1. ASSUME InputInv, [Next]_vars
      PROVE  [Kept]_vars
  <2> SUFFICES ASSUME mTick > 0
               PROVE  Kept \/ UNCHANGED vars
    OBVIOUS
  <2>1. mTick \in Nat /\ mHistory \in Seq([Slots -> Controls]) /\ Len(mHistory) = mTick
    BY <1>1 DEF InputInv, TypeOK, HistoryAligned
  <2>2. ~StartSome
    BY <2>1 DEF StartSome, Start, StartFails
  <2>3. CASE SubmitSome
    <3>1. ~mFinished /\ UNCHANGED <<mTick, mHistory, mEvents>>
      BY <2>3 DEF SubmitSome, SubmitInput, Accepts, lapVars
    <3>2. SubSeq(mHistory, 1, mTick) = mHistory
      BY <2>1, SubSeqFull
    <3> QED
      BY <2>1, <3>1, <3>2
  <2>4. CASE AdvanceSome
    <3>1. /\ ~mFinished /\ mTick' = mTick + 1 /\ mEvents \subseteq mEvents'
          /\ \E used \in [Slots -> Controls] : mHistory' = Append(mHistory, used)
      BY <2>4 DEF AdvanceSome, AdvanceTick
    <3>2. SubSeq(mHistory', 1, mTick) = mHistory
      BY <2>1, <3>1
    <3> QED
      BY <2>1, <3>1, <3>2
  <2> QED
    BY <1>1, <2>2, <2>3, <2>4 DEF Next
<1> QED
  BY <1>1, InputsCorrect, PTL DEF Spec, NothingRewritten

\* Storing an input in a queue makes its control word the wish for its tick and
\* leaves the other wishes alone.
LEMMA StoreIsWish ==
  ASSUME NEW queue \in SUBSET Input, NEW t \in Nat, NEW c \in Controls,
         \A d, e \in queue : d.tick = e.tick => d = e
  PROVE  WishesOf(StoreInput(queue, t, c)) =
           [u \in DOMAIN WishesOf(queue) \union {t} |-> IF u = t THEN c ELSE WishesOf(queue)[u]]
<1> DEFINE new == StoreInput(queue, t, c)
           At(q, u) == CHOOSE e \in q : e.tick = u
<1>1. /\ \A d, e \in new : d.tick = e.tick => d = e
      /\ \A e \in new : e.tick = t \/ e \in queue
      /\ \E e \in new : e.tick = t /\ e.controls = c
  BY StoreInputOne
<1>2. \A e \in queue : e.tick # t => e \in new
  BY DEF StoreInput
<1> HIDE DEF new
<1>3. {e.tick : e \in new} = {e.tick : e \in queue} \union {t}
  BY <1>1, <1>2
<1>4. \A u \in {e.tick : e \in new} : At(new, u) \in new /\ At(new, u).tick = u
  OBVIOUS
<1>5. \A u \in {e.tick : e \in queue} : At(queue, u) \in queue /\ At(queue, u).tick = u
  OBVIOUS
<1>6. At(new, t).controls = c
  BY <1>1, <1>3, <1>4
<1>7. \A u \in {e.tick : e \in queue} : u # t => At(new, u) = At(queue, u)
  BY <1>1, <1>2, <1>3, <1>4, <1>5
<1>8. \A q : WishesOf(q) = [u \in {e.tick : e \in q} |-> At(q, u).controls]
  BY DEF WishesOf
<1> HIDE DEF At
<1>9. DOMAIN WishesOf(queue) = {e.tick : e \in queue}
  BY <1>8
<1>10. \A u \in {e.tick : e \in queue} : WishesOf(queue)[u] = At(queue, u).controls
  BY <1>8
<1>11. WishesOf(new) = [u \in {e.tick : e \in queue} \union {t} |->
                          IF u = t THEN c ELSE At(queue, u).controls]
  BY <1>3, <1>6, <1>7, <1>8
<1> QED
  BY <1>9, <1>10, <1>11 DEF new

\* Keeping the inputs of later ticks keeps the wishes for them.
LEMMA KeptAreWishes ==
  ASSUME NEW queue \in SUBSET Input
  PROVE  WishesOf(KeptInputs(queue)) =
           [t \in {u \in DOMAIN WishesOf(queue) : u > mTick} |-> WishesOf(queue)[t]]
<1>1. {e.tick : e \in KeptInputs(queue)} = {u \in {e.tick : e \in queue} : u > mTick}
  BY DEF KeptInputs
<1>2. \A t : t > mTick =>
        (CHOOSE e \in KeptInputs(queue) : e.tick = t) = (CHOOSE e \in queue : e.tick = t)
  <2> TAKE t
  <2> HAVE t > mTick
  <2>1. \A e : (e \in KeptInputs(queue) /\ e.tick = t) <=> (e \in queue /\ e.tick = t)
    BY DEF KeptInputs
  <2> QED
    BY <2>1
<1> DEFINE At(q, u) == CHOOSE e \in q : e.tick = u
<1>3. \A q : WishesOf(q) = [u \in {e.tick : e \in q} |-> At(q, u).controls]
  BY DEF WishesOf
<1>4. \A t : t > mTick => At(KeptInputs(queue), t) = At(queue, t)
  BY <1>2
<1> HIDE DEF At
<1>5. /\ DOMAIN WishesOf(queue) = {e.tick : e \in queue}
      /\ \A u \in {e.tick : e \in queue} : WishesOf(queue)[u] = At(queue, u).controls
  BY <1>3
<1>6. WishesOf(KeptInputs(queue)) =
        [u \in {v \in {e.tick : e \in queue} : v > mTick} |-> At(KeptInputs(queue), u).controls]
  BY <1>1, <1>3
<1> QED
  BY <1>4, <1>5, <1>6

\* The inputs of a race are collected as the abstract log promises: every step
\* of the race is a step of the log or leaves it alone.
THEOREM Refinement == ASSUME RaceAssumption PROVE Spec => ImplementsInputLog
<1>1. Init => Log!Init
  BY DEF Init, Log!Init, Wishes
<1>2. ASSUME InputInv, [Next]_vars
      PROVE  [Log!Next]_(Log!vars)
  <2>1. Log!now = mTick /\ mTick \in Nat
    BY <1>2 DEF InputInv, TypeOK, HistoryAligned, Log!now
  <2>2. ASSUME NEW n \in 1..MaxPlayers, NEW laps \in Laps, NEW limit \in TickLimits,
               NEW freePlay \in BOOLEAN, Start(n, laps, limit, freePlay)
        PROVE  Log!Open(n)
    <3>1. mPending' = [p \in 1..n |-> {}] /\ mHistory' = <<>> /\ mFinished' = FALSE /\ mTick = 0
      BY <2>2 DEF Start, ClearRace
    <3>2. WishesOf({}) = [t \in {} |-> NoControls]
      BY DEF WishesOf
    <3>3. Wishes' = [p \in 1..n |-> [t \in {} |-> NoControls]]
      BY <3>1, <3>2 DEF Wishes, WishesOf
    <3> QED
      BY <2>1, <3>1, <3>3 DEF Log!Open, Log!NoWishes
  <2>3. ASSUME NEW n \in 1..MaxPlayers, NEW laps \in Laps, NEW limit \in TickLimits,
               StartFails(n, laps, limit)
        PROVE  Log!Open(0)
    <3>1. mPending' = <<>> /\ mHistory' = <<>> /\ mFinished' = FALSE /\ mTick = 0
      BY <2>3 DEF StartFails, ClearRace
    <3>2. Wishes' = [p \in 1..0 |-> [t \in {} |-> NoControls]]
      BY <3>1 DEF Wishes
    <3> QED
      BY <2>1, <3>1, <3>2 DEF Log!Open, Log!NoWishes
  <2>4. CASE StartSome
    BY <2>2, <2>3, <2>4 DEF StartSome, Log!Next, RaceAssumption
  <2>5. CASE SubmitSome
    <3>1. PICK p \in Slots, t \in 0..KMaxTicks + MaxFutureTicks, c \in SUBSET Bits :
            SubmitInput(p, t, c)
      BY <2>5 DEF SubmitSome
    <3>2. t \in mTick..(mTick + MaxFutureTicks) /\ t \in Nat /\ Mask(c) \in Controls
      BY <2>1, <3>1 DEF SubmitInput, Accepts, Mask, Controls, RaceAssumption
    <3>3. mPending \in [Slots -> SUBSET Input] /\ DOMAIN mPending = Slots
      BY <1>2, <3>1, NotReadyEmpty DEF InputInv, SubmitInput
    <3>4. \A d, e \in mPending[p] : d.tick = e.tick => d = e
      BY <1>2, <3>1 DEF InputInv, PendingInWindow, SubmitInput
    <3>5. mPending' = [mPending EXCEPT ![p] = StoreInput(mPending[p], t, Mask(c))]
      BY <3>1 DEF SubmitInput
    <3>6. WishesOf(StoreInput(mPending[p], t, Mask(c))) =
            [u \in DOMAIN Wishes[p] \union {t} |-> IF u = t THEN Mask(c) ELSE Wishes[p][u]]
      <4>1. Wishes[p] = WishesOf(mPending[p]) /\ mPending[p] \in SUBSET Input
        BY <3>3 DEF Wishes
      <4> DEFINE queue == mPending[p]
                 word == Mask(c)
      <4>2. queue \in SUBSET Input /\ word \in Controls /\ t \in Nat
            /\ \A d, e \in queue : d.tick = e.tick => d = e
        BY <3>2, <3>4, <4>1
      <4> HIDE DEF queue, word
      <4>3. WishesOf(StoreInput(queue, t, word)) =
              [u \in DOMAIN WishesOf(queue) \union {t} |-> IF u = t THEN word ELSE WishesOf(queue)[u]]
        BY <4>2, StoreIsWish, ZenonT(60)
      <4> QED
        BY <4>1, <4>3 DEF queue, word
    <3>7. Wishes' = [Wishes EXCEPT ![p] =
            [u \in DOMAIN Wishes[p] \union {t} |-> IF u = t THEN Mask(c) ELSE Wishes[p][u]]]
      <4> DEFINE stored == StoreInput(mPending[p], t, Mask(c))
      <4>1. Wishes' = [q \in Slots |-> IF q = p THEN WishesOf(stored) ELSE WishesOf(mPending[q])]
        BY <3>3, <3>5 DEF Wishes, WishesOf
      <4>2. Wishes = [q \in Slots |-> WishesOf(mPending[q])]
        BY <3>3 DEF Wishes
      <4>3. p \in Slots /\ WishesOf(stored) =
              [u \in DOMAIN Wishes[p] \union {t} |-> IF u = t THEN Mask(c) ELSE Wishes[p][u]]
        BY <3>1, <3>6
      <4> HIDE DEF stored
      <4>4. Wishes' = [Wishes EXCEPT ![p] = WishesOf(stored)]
        BY <4>1, <4>2, <4>3
      <4> QED
        BY <4>3, <4>4
    <3>8. Log!Wish(p, t, Mask(c))
      BY <2>1, <3>1, <3>2, <3>7 DEF SubmitInput, Accepts, Log!Wish
    <3>9. p \in Log!Players
      BY <3>3 DEF Log!Players, Wishes
    <3> QED
      BY <2>1, <3>2, <3>8, <3>9 DEF Log!Next
  <2>6. CASE AdvanceSome
    <3>1. PICK crossing \in SUBSET Slots : AdvanceTick(crossing)
      BY <2>6 DEF AdvanceSome
    <3>2. PICK used \in [Slots -> Controls] :
            /\ \A p \in Slots : used[p] \in InputsDue(mPending[p], mLastInput[p])
            /\ mHistory' = Append(mHistory, used)
      BY <3>1 DEF AdvanceTick
    <3>3. /\ mPending \in [Slots -> SUBSET Input] /\ DOMAIN mPending = Slots /\ Slots # {}
          /\ Wishes = [p \in Slots |-> WishesOf(mPending[p])]
      BY <1>2, <3>1, NotReadyEmpty DEF InputInv, AdvanceTick, Ready, Wishes
    <3>4. mPending' = [p \in Slots |-> KeptInputs(mPending[p])]
      BY <3>1 DEF AdvanceTick
    <3>5. Wishes' = [p \in Slots |->
                       [t \in {u \in DOMAIN Wishes[p] : u > mTick} |-> Wishes[p][t]]]
      <4>1. Wishes' = [p \in Slots |-> WishesOf(KeptInputs(mPending[p]))]
        BY <3>4 DEF Wishes, WishesOf
      <4>2. \A p \in Slots : /\ mPending[p] \in SUBSET Input
                             /\ Wishes[p] = WishesOf(mPending[p])
        BY <3>3
      <4>3. \A p \in Slots : WishesOf(KeptInputs(mPending[p])) =
                [t \in {u \in DOMAIN Wishes[p] : u > mTick} |-> Wishes[p][t]]
        BY <4>2, KeptAreWishes
      <4> QED
        BY <4>1, <4>3
    <3>6. \A p \in Slots : used[p] = IF mTick \in DOMAIN Wishes[p]
                                      THEN Wishes[p][mTick] ELSE mLastInput[p]
      <4> SUFFICES ASSUME NEW p \in Slots
                   PROVE  used[p] = IF mTick \in DOMAIN WishesOf(mPending[p])
                                    THEN WishesOf(mPending[p])[mTick] ELSE mLastInput[p]
        BY <3>3
      <4>1. \A d, e \in mPending[p] : d.tick = e.tick => d = e
        BY <1>2, <3>1 DEF InputInv, PendingInWindow, AdvanceTick
      <4>2. CASE \E e \in mPending[p] : e.tick = mTick
        <5>1. PICK e \in mPending[p] : e.tick = mTick
          BY <4>2
        <5>2. (CHOOSE d \in mPending[p] : d.tick = mTick) = e
          BY <4>1, <5>1
        <5>3. InputsDue(mPending[p], mLastInput[p]) = {e.controls}
          BY <4>1, <5>1 DEF InputsDue
        <5> QED
          BY <3>2, <5>1, <5>2, <5>3 DEF WishesOf
      <4>3. CASE ~ \E e \in mPending[p] : e.tick = mTick
        BY <3>2, <4>3 DEF InputsDue, WishesOf
      <4> QED
        BY <4>2, <4>3
    <3>7. \A p \in Slots : Log!Before(p) = mLastInput[p]
      <4>1. CASE mTick = 0
        BY <1>2, <2>1, <3>1, <4>1 DEF Log!Before, InputInv, HistoryAligned, AdvanceTick
      <4>2. CASE mTick > 0
        BY <1>2, <2>1, <4>2 DEF Log!Before, InputInv, HistoryAligned, InputsAt
      <4> QED
        BY <2>1, <4>1, <4>2
    <3>8. used = [p \in Slots |-> IF mTick \in DOMAIN Wishes[p]
                                   THEN Wishes[p][mTick] ELSE Log!Before(p)]
      BY <3>6, <3>7
    <3>9. Log!Play
      BY <2>1, <3>1, <3>2, <3>3, <3>5, <3>8 DEF Log!Play, Log!Players, AdvanceTick
    <3> QED
      BY <3>9 DEF Log!Next
  <2>7. CASE UNCHANGED vars
    BY <2>7 DEF vars, inputVars, Log!vars, Wishes
  <2> QED
    BY <1>2, <2>4, <2>5, <2>6, <2>7 DEF Next
<1> QED
  BY <1>1, <1>2, InputsCorrect, PTL DEF Spec, ImplementsInputLog, Log!Spec

-----------------------------------------------------------------------------
(***************************************************************************)
(* Laps, checkpoints and the end of a race; the ranking.                   *)
(***************************************************************************)
\* The laps a craft has are those reported, and none is above the race's count.
LapsReported ==
  Ready => \A p \in Slots :
    /\ Reported[p] = mCraft[p].lap
    /\ mCraft[p].lap <= mConfig.laps
    /\ mCraft[p].at <= mTick

\* Each lap of each craft has its event, the last one the time of the craft.
EventsTold ==
  /\ \A e \in mEvents :
       /\ Ready
       /\ e.player \in Slots
       /\ e.lap \in 1..mCraft[e.player].lap
       /\ e.tick <= mTick
       /\ e.lap = mCraft[e.player].lap => e.tick = mCraft[e.player].at
       /\ e.finished = (e.lap = mConfig.laps)
  /\ \A d, e \in mEvents : d.player = e.player =>
       /\ d.lap < e.lap => d.tick < e.tick
       /\ d.lap = e.lap => d = e
  /\ Ready => \A p \in Slots : \A l \in 1..mCraft[p].lap :
       \E e \in mEvents : e.player = p /\ e.lap = l

\* What every step preserves: the inputs' invariant, and how laps, events,
\* checkpoints and the end depend on each other.
LapInv == InputInv /\ CheckpointsVerifiable /\ FinishedExactly /\ LapsReported /\ EventsTold

\* The object before any Start has no laps and no checkpoints.
LEMMA InitLaps ==
  ASSUME RaceAssumption, Init
  PROVE  LapInv
<1>1. InputInv
  BY InitInv
<1>2. MaxPlayers \in 1..MaxPlayers
  BY DEF RaceAssumption
<1>3. ~Ready
  BY <1>2 DEF Init, Ready, Slots, Config
<1>4. CheckpointsVerifiable
  <2>1. mTick = 0 /\ 0 \div CheckpointTicks = 0
    BY DEF Init, RaceAssumption
  <2> QED
    BY <2>1 DEF Init, CheckpointsVerifiable
<1>5. FinishedExactly /\ LapsReported
  BY <1>3 DEF FinishedExactly, LapsReported
<1>6. EventsTold
  BY <1>3 DEF EventsTold, Init
<1> QED
  BY <1>1, <1>4, <1>5, <1>6 DEF LapInv

\* Every Start that is accepted clears laps, events and checkpoints.
LEMMA ClearedLaps ==
  ASSUME RaceAssumption, LapInv, InputInv', ClearRace,
         Ready' => mCraft' = [p \in Slots' |-> [lap |-> 0, at |-> 0]]
  PROVE  LapInv'
<1>0. mConfig.laps' \in Nat /\ Slots' # {}
  <2>1. mConfig' \in Config
    BY DEF InputInv, TypeOK
  <2>2. 1 \in Slots'
    BY <2>1 DEF Slots, Config
  <2> QED
    BY <2>1, <2>2 DEF Config, RaceAssumption
<1>1. mTick' = 0 /\ mCheckpoints' = <<>> /\ mEvents' = {} /\ mLastLap' = <<>>
  BY DEF ClearRace
<1>2. CheckpointsVerifiable'
  <2>1. 0 \div CheckpointTicks = 0
    BY DEF RaceAssumption
  <2> QED
    BY <1>1, <2>1 DEF CheckpointsVerifiable
<1>3. FinishedExactly'
  BY <1>1 DEF FinishedExactly
<1>4. LapsReported'
  <2>1. Reported' = [p \in Slots' |-> 0]
    BY <1>0, <1>1 DEF Reported
  <2> QED
    BY <1>0, <1>1, <2>1 DEF LapsReported
<1>5. EventsTold'
  BY <1>1 DEF EventsTold
<1> QED
  BY <1>2, <1>3, <1>4, <1>5 DEF LapInv

\* Both outcomes of Start leave such an object.
LEMMA StartLaps ==
  ASSUME RaceAssumption, LapInv, StartSome
  PROVE  LapInv'
<1>1. InputInv'
  BY NextInv DEF LapInv, Next
<1>2. ASSUME NEW n \in 1..MaxPlayers, NEW laps \in Laps, NEW limit \in TickLimits,
             NEW freePlay \in BOOLEAN, Start(n, laps, limit, freePlay)
      PROVE  LapInv'
  <2>1. ClearRace /\ mCraft' = [p \in Slots' |-> [lap |-> 0, at |-> 0]]
    BY <1>2 DEF Start, Slots
  <2> QED
    BY <1>1, <2>1, ClearedLaps
<1>3. ASSUME NEW n \in 1..MaxPlayers, NEW laps \in Laps, NEW limit \in TickLimits,
             StartFails(n, laps, limit)
      PROVE  LapInv'
  <2>1. ClearRace /\ ~Ready'
    <3>1. 1 \in Slots'
      BY <1>3 DEF StartFails, Slots
    <3> QED
      BY <1>3, <3>1 DEF StartFails, Ready
  <2> QED
    BY <1>1, <2>1, ClearedLaps
<1> QED
  BY <1>2, <1>3 DEF StartSome

\* An input changes neither laps nor time, and the race stays set up.
LEMMA SubmitLaps ==
  ASSUME RaceAssumption, LapInv, SubmitSome \/ UNCHANGED vars
  PROVE  LapInv'
<1>1. InputInv'
  BY NextInv DEF LapInv, Next
<1>2. /\ UNCHANGED <<mConfig, mTick, mFinished, mCheckpoints, mCraft, mLastLap, mEvents, mFreePlay>>
      /\ Ready' = Ready /\ Slots' = Slots
  <2>1. CASE SubmitSome
    BY <2>1 DEF SubmitSome, SubmitInput, lapVars, Ready, Slots
  <2>2. CASE UNCHANGED vars
    BY <2>2 DEF vars, inputVars, lapVars, Ready, Slots
  <2> QED
    BY <2>1, <2>2
<1> QED
  BY <1>1, <1>2 DEF LapInv, CheckpointsVerifiable, FinishedExactly, LapsReported, EventsTold,
                    Limit, HasFinished, Reported

\* Division with remainder.
LEMMA DivisionFacts ==
  ASSUME NEW t \in Nat, NEW c \in Nat \ {0}
  PROVE  t \div c \in Nat /\ t % c \in 0..c - 1 /\ t = c * (t \div c) + (t % c)
OBVIOUS

\* The quotient goes up by one when the remainder starts again.
LEMMA NextQuotient ==
  ASSUME NEW c \in Nat \ {0}, NEW p \in Nat, NEW q \in Nat, NEW r \in 0..c - 1, NEW s \in 0..c - 1,
         c * p + r + 1 = c * q + s
  PROVE  /\ s = 0 => q = p + 1 /\ (p + 1) * c = c * p + r + 1
         /\ s # 0 => q = p
<1>1. c * (q - p) = r + 1 - s
  OBVIOUS
<1>2. q - p <= 1 /\ q - p >= 0
  <2>1. ASSUME q - p >= 2 PROVE FALSE
    <3>1. c * (q - p) >= c * 2
      BY <2>1
    <3> QED
      BY <1>1, <3>1
  <2>2. ASSUME q - p <= -1 PROVE FALSE
    <3>1. c * (q - p) <= c * (-1)
      BY <2>2
    <3> QED
      BY <1>1, <3>1
  <2> QED
    BY <2>1, <2>2
<1>3. CASE q = p
  BY <1>3
<1>4. CASE q = p + 1
  <2>1. c * q = c * p + c
    BY <1>4
  <2> QED
    BY <1>4, <2>1
<1> QED
  BY <1>2, <1>3, <1>4

\* The number of whole checkpoints before a tick and after it.
LEMMA NextCheckpoint ==
  ASSUME NEW t \in Nat, NEW c \in Nat \ {0}
  PROVE  /\ t \div c \in Nat
         /\ (t + 1) % c = 0 => /\ (t + 1) \div c = (t \div c) + 1
                               /\ ((t \div c) + 1) * c = t + 1
         /\ (t + 1) % c # 0 => (t + 1) \div c = t \div c
<1>1. t \div c \in Nat /\ t % c \in 0..c - 1 /\ t = c * (t \div c) + (t % c)
  BY DivisionFacts
<1> DEFINE u == t + 1
<1>2. u \in Nat /\ u = t + 1
  OBVIOUS
<1> HIDE DEF u
<1>3. u \div c \in Nat /\ u % c \in 0..c - 1 /\ u = c * (u \div c) + (u % c)
  BY <1>2, DivisionFacts
<1>4. /\ (t + 1) \div c \in Nat /\ (t + 1) % c \in 0..c - 1
      /\ t + 1 = c * ((t + 1) \div c) + ((t + 1) % c)
  BY <1>3 DEF u
<1> DEFINE p == t \div c
           r == t % c
           q == (t + 1) \div c
           s == (t + 1) % c
<1>5. p \in Nat /\ r \in 0..c - 1 /\ q \in Nat /\ s \in 0..c - 1
      /\ t = c * p + r /\ t + 1 = c * q + s
  BY <1>1, <1>4
<1> HIDE DEF p, q, r, s
<1>6. c * p + r + 1 = c * q + s
  BY <1>5
<1>7. s = 0 => q = p + 1 /\ (p + 1) * c = c * p + r + 1
  BY <1>5, <1>6, NextQuotient
<1>8. s # 0 => q = p
  BY <1>5, <1>6, NextQuotient
<1> QED
  BY <1>5, <1>7, <1>8 DEF p, q, s

\* A tick keeps a checkpoint exactly when one is due.
LEMMA AdvanceCheckpoints ==
  ASSUME RaceAssumption, LapInv, NEW crossing \in SUBSET Slots, AdvanceTick(crossing)
  PROVE  CheckpointsVerifiable'
<1> DEFINE n == mTick \div CheckpointTicks
           kept == [i \in 1..n |-> i * CheckpointTicks]
<1>1. mTick \in Nat /\ CheckpointTicks \in Nat \ {0} /\ mTick' = mTick + 1
  BY DEF LapInv, InputInv, TypeOK, RaceAssumption, AdvanceTick
<1>2. mCheckpoints = kept /\ n \in Nat
  BY <1>1, NextCheckpoint DEF LapInv, CheckpointsVerifiable
<1>3. kept \in Seq(Nat) /\ Len(kept) = n
  BY <1>1, <1>2
<1>4. CASE (mTick + 1) % CheckpointTicks = 0
  <2>1. (mTick + 1) \div CheckpointTicks = n + 1 /\ (n + 1) * CheckpointTicks = mTick + 1
    BY <1>1, <1>4, NextCheckpoint
  <2>2. mCheckpoints' = Append(kept, mTick + 1)
    BY <1>2, <1>4 DEF AdvanceTick, CheckpointDue
  <2> HIDE DEF n
  <2>3. Append(kept, mTick + 1) = [i \in 1..n + 1 |-> i * CheckpointTicks]
    BY <1>1, <1>2, <1>3, <2>1
  <2> QED
    BY <1>1, <2>1, <2>2, <2>3 DEF CheckpointsVerifiable
<1>5. CASE (mTick + 1) % CheckpointTicks # 0
  <2>1. (mTick + 1) \div CheckpointTicks = n
    BY <1>1, <1>5, NextCheckpoint
  <2>2. mCheckpoints' = kept
    BY <1>2, <1>5 DEF AdvanceTick, CheckpointDue
  <2> QED
    BY <1>1, <2>1, <2>2 DEF CheckpointsVerifiable
<1> QED
  BY <1>4, <1>5

\* The limit that applies to a race: at least a tick, and the format's at most.
LEMMA LimitFacts ==
  ASSUME RaceAssumption, TypeOK
  PROVE  Limit \in Nat \ {0} /\ Limit <= KMaxTicks /\ KMaxTicks \in Nat
<1>1. mConfig.maxTicks \in Nat
  BY DEF TypeOK, Config, RaceAssumption
<1> QED
  BY <1>1 DEF Limit, RaceAssumption

\* A race that is not over is before its limit, so the next tick is at most it.
LEMMA AdvanceEnd ==
  ASSUME RaceAssumption, LapInv, NEW crossing \in SUBSET Slots, AdvanceTick(crossing)
  PROVE  FinishedExactly'
<1>1. mTick \in Nat /\ mTick' = mTick + 1 /\ ~mFinished /\ Ready /\ mConfig' = mConfig
  BY DEF LapInv, InputInv, TypeOK, AdvanceTick
<1>2. Limit \in Nat \ {0} /\ Limit <= KMaxTicks /\ KMaxTicks \in Nat /\ Limit' = Limit
  BY <1>1, LimitFacts DEF LapInv, InputInv, Limit
<1>3. mTick < Limit
  BY <1>1, <1>2 DEF LapInv, FinishedExactly
<1>4. Slots' = Slots /\ \A p \in Slots : HasFinished(mCraft[p])' = HasFinished(mCraft'[p])
  BY <1>1 DEF Slots, HasFinished
<1>5. mFinished' = ((\A p \in Slots : HasFinished(mCraft'[p])) \/ mTick + 1 >= Limit)
  BY DEF AdvanceTick
<1>6. mTick + 1 >= Limit <=> mTick + 1 = Limit
  BY <1>1, <1>2, <1>3
<1>7. mTick' <= Limit' /\ mTick' <= KMaxTicks
  BY <1>1, <1>2, <1>3
<1> QED
  BY <1>1, <1>2, <1>4, <1>5, <1>6, <1>7 DEF FinishedExactly

\* The craft after a tick, and its events: those that cross have one lap more
\* and the time of the tick, and announce it.
LEMMA Crossed ==
  ASSUME RaceAssumption, LapInv, NEW crossing \in SUBSET Slots, AdvanceTick(crossing)
  PROVE  /\ mTick \in Nat /\ mTick' = mTick + 1 /\ mConfig' = mConfig /\ Slots' = Slots
         /\ Ready /\ Ready' /\ mConfig.laps \in Nat
         /\ mCraft \in [Slots -> Craft]
         /\ \A p \in Slots : /\ mCraft[p].lap \in Nat /\ mCraft[p].at \in Nat
                             /\ mCraft[p].at <= mTick
                             /\ mCraft[p].lap <= mConfig.laps
         /\ \A p \in crossing : /\ mCraft[p].lap < mConfig.laps
                                /\ mCraft'[p].lap = mCraft[p].lap + 1
                                /\ mCraft'[p].at = mTick + 1
         /\ \A p \in Slots \ crossing : mCraft'[p] = mCraft[p]
         /\ Reported' = [p \in Slots |-> mCraft'[p].lap]
         /\ mEvents' = mEvents \union
              {[tick |-> mTick + 1, player |-> p, lap |-> mCraft[p].lap + 1,
                finished |-> (mCraft[p].lap + 1 = mConfig.laps)] : p \in crossing}
<1>1. /\ mTick \in Nat /\ mTick' = mTick + 1 /\ mConfig' = mConfig /\ Slots' = Slots
      /\ Ready /\ mConfig.laps \in Nat /\ mCraft \in [Slots -> Craft]
  BY DEF LapInv, InputInv, TypeOK, AdvanceTick, Slots, Config, RaceAssumption
<1>2. Ready'
  BY <1>1 DEF AdvanceTick, Ready
<1>3. \A p \in Slots : /\ mCraft[p].lap \in Nat /\ mCraft[p].at \in Nat
                       /\ mCraft[p].at <= mTick
                       /\ mCraft[p].lap <= mConfig.laps
                       /\ Reported[p] = mCraft[p].lap
  BY <1>1 DEF Craft, LapInv, LapsReported
<1>4. \A p \in crossing : p \in Slots /\ mCraft[p].lap < mConfig.laps
  BY <1>1, <1>3 DEF AdvanceTick, MayCross, HasFinished
<1>5. mCraft' = StepCraft(crossing)
  BY DEF AdvanceTick
<1>6. \A p \in crossing : mCraft'[p].lap = mCraft[p].lap + 1 /\ mCraft'[p].at = mTick + 1
  BY <1>4, <1>5 DEF StepCraft
<1>7. \A p \in Slots \ crossing : mCraft'[p] = mCraft[p]
  BY <1>5 DEF StepCraft
<1>8. \A p \in Slots : /\ mCraft'[p].lap > Reported[p] <=> p \in crossing
                       /\ mCraft'[p].lap \in Nat
                       /\ mCraft'[p].lap > Reported[p] \/ mCraft'[p].lap = Reported[p]
  BY <1>3, <1>4, <1>6, <1>7
<1>9. Reported' = [p \in Slots |-> mCraft'[p].lap]
  <2>1. mLastLap' = [p \in Slots |-> IF mCraft'[p].lap > Reported[p]
                                     THEN mCraft'[p].lap ELSE Reported[p]]
    BY <1>5 DEF AdvanceTick
  <2>2. mLastLap' = [p \in Slots |-> mCraft'[p].lap]
    BY <1>8, <2>1
  <2> QED
    BY <1>1, <2>2 DEF Reported
<1>10. mEvents' = mEvents \union LapEvents(mCraft')
  BY <1>5 DEF AdvanceTick
<1>11. LapEvents(mCraft') =
         {[tick |-> mTick + 1, player |-> p, lap |-> mCraft[p].lap + 1,
           finished |-> (mCraft[p].lap + 1 = mConfig.laps)] : p \in crossing}
  <2>1. {q \in Slots : mCraft'[q].lap > Reported[q]} = crossing
    BY <1>4, <1>8
  <2>2. \A p \in crossing : HasFinished(mCraft'[p]) = (mCraft[p].lap + 1 = mConfig.laps)
    BY <1>1, <1>3, <1>4, <1>6 DEF HasFinished
  <2> QED
    BY <1>6, <2>1, <2>2 DEF LapEvents
<1> QED
  BY <1>1, <1>2, <1>3, <1>4, <1>6, <1>7, <1>9, <1>10, <1>11

\* A tick announces each lap that is completed in it, once.
LEMMA AdvanceEvents ==
  ASSUME RaceAssumption, LapInv, NEW crossing \in SUBSET Slots, AdvanceTick(crossing)
  PROVE  LapsReported' /\ EventsTold'
<1> DEFINE told(p) == [tick |-> mTick + 1, player |-> p, lap |-> mCraft[p].lap + 1,
                       finished |-> (mCraft[p].lap + 1 = mConfig.laps)]
           new == {told(p) : p \in crossing}
<1>1. /\ mTick \in Nat /\ mTick' = mTick + 1 /\ mConfig' = mConfig /\ Slots' = Slots
      /\ Ready /\ Ready' /\ mConfig.laps \in Nat
      /\ \A p \in Slots : /\ mCraft[p].lap \in Nat /\ mCraft[p].at \in Nat
                          /\ mCraft[p].at <= mTick
                          /\ mCraft[p].lap <= mConfig.laps
      /\ \A p \in crossing : /\ mCraft[p].lap < mConfig.laps
                             /\ mCraft'[p].lap = mCraft[p].lap + 1
                             /\ mCraft'[p].at = mTick + 1
      /\ \A p \in Slots \ crossing : mCraft'[p] = mCraft[p]
      /\ Reported' = [p \in Slots |-> mCraft'[p].lap]
      /\ mEvents' = mEvents \union new
  BY Crossed
<1>2. LapsReported'
  BY <1>1 DEF LapsReported
<1>3. /\ mEvents \subseteq Event /\ EventsTold
  BY DEF LapInv, InputInv, TypeOK
<1>4. \A e \in mEvents : e.tick \in Nat /\ e.lap \in Nat /\ e.player \in Slots
  BY <1>1, <1>3 DEF EventsTold, Event
<1>5. \A p \in crossing : /\ told(p).tick = mTick + 1 /\ told(p).player = p
                          /\ told(p).lap = mCraft[p].lap + 1
                          /\ told(p).finished = (told(p).lap = mConfig.laps)
  OBVIOUS
<1> HIDE DEF told
<1>6. \A p \in Slots : mCraft'[p].lap \in Nat /\ mCraft'[p].lap >= mCraft[p].lap
  BY <1>1
<1>7. ASSUME NEW e \in mEvents'
      PROVE  /\ e.player \in Slots
             /\ e.lap \in 1..mCraft'[e.player].lap
             /\ e.tick <= mTick + 1
             /\ e.lap = mCraft'[e.player].lap => e.tick = mCraft'[e.player].at
             /\ e.finished = (e.lap = mConfig.laps)
  <2>1. CASE e \in mEvents
    <3>1. /\ e.player \in Slots /\ e.lap \in 1..mCraft[e.player].lap /\ e.tick <= mTick
          /\ e.lap = mCraft[e.player].lap => e.tick = mCraft[e.player].at
          /\ e.finished = (e.lap = mConfig.laps)
      BY <1>3, <2>1 DEF EventsTold
    <3>2. e.tick \in Nat /\ e.lap \in Nat
      BY <1>4, <2>1
    <3>3. CASE e.player \in crossing
      BY <1>1, <3>1, <3>2, <3>3
    <3>4. CASE e.player \notin crossing
      BY <1>1, <3>1, <3>2, <3>4
    <3> QED
      BY <3>3, <3>4
  <2>2. CASE e \in new
    <3>1. PICK p \in crossing : e = told(p)
      BY <2>2
    <3> QED
      BY <1>1, <1>5, <3>1
  <2> QED
    BY <1>1, <2>1, <2>2
<1>8. ASSUME NEW d \in mEvents', NEW e \in mEvents', d.player = e.player
      PROVE  /\ d.lap < e.lap => d.tick < e.tick
             /\ d.lap = e.lap => d = e
  <2>1. CASE d \in mEvents /\ e \in mEvents
    BY <1>3, <1>8, <2>1 DEF EventsTold
  <2>2. CASE d \in mEvents /\ e \in new
    <3>1. PICK p \in crossing : e = told(p)
      BY <2>2
    <3>2. d.lap <= mCraft[p].lap /\ d.tick <= mTick /\ d.lap \in Nat /\ d.tick \in Nat
      BY <1>1, <1>3, <1>4, <1>5, <1>8, <2>2, <3>1 DEF EventsTold
    <3> QED
      BY <1>1, <1>5, <3>1, <3>2
  <2>3. CASE d \in new /\ e \in mEvents
    <3>1. PICK p \in crossing : d = told(p)
      BY <2>3
    <3>2. e.lap <= mCraft[p].lap /\ e.lap \in Nat
      BY <1>1, <1>3, <1>4, <1>5, <1>8, <2>3, <3>1 DEF EventsTold
    <3> QED
      BY <1>1, <1>5, <3>1, <3>2
  <2>4. CASE d \in new /\ e \in new
    <3>1. PICK p \in crossing : d = told(p)
      BY <2>4
    <3>2. PICK q \in crossing : e = told(q)
      BY <2>4
    <3>3. p = q
      BY <1>5, <1>8, <3>1, <3>2
    <3> QED
      BY <1>1, <1>5, <3>1, <3>2, <3>3
  <2> QED
    BY <1>1, <2>1, <2>2, <2>3, <2>4
<1>9. ASSUME NEW p \in Slots, NEW l \in 1..mCraft'[p].lap
      PROVE  \E e \in mEvents' : e.player = p /\ e.lap = l
  <2>1. CASE l \in 1..mCraft[p].lap
    BY <1>1, <1>3, <2>1 DEF EventsTold
  <2>2. CASE l \notin 1..mCraft[p].lap
    <3>1. p \in crossing /\ l = mCraft[p].lap + 1
      BY <1>1, <1>6, <2>2
    <3>2. told(p) \in mEvents' /\ told(p).player = p /\ told(p).lap = l
      BY <1>1, <1>5, <3>1
    <3> QED
      BY <3>2
  <2> QED
    BY <2>1, <2>2
<1>10. EventsTold'
  BY <1>1, <1>7, <1>8, <1>9 DEF EventsTold
<1> QED
  BY <1>2, <1>10

\* Every step of the race preserves the invariant.
LEMMA NextLaps ==
  ASSUME RaceAssumption, LapInv, [Next]_vars
  PROVE  LapInv'
<1>1. CASE StartSome
  BY <1>1, StartLaps
<1>2. CASE SubmitSome \/ UNCHANGED vars
  BY <1>2, SubmitLaps
<1>3. CASE AdvanceSome
  <2>1. InputInv'
    BY NextInv DEF LapInv
  <2> QED
    BY <1>3, <2>1, AdvanceCheckpoints, AdvanceEnd, AdvanceEvents DEF AdvanceSome, LapInv
<1> QED
  BY <1>1, <1>2, <1>3 DEF Next

\* In every race laps, events, checkpoints and the end belong together.
THEOREM LapsCorrect == ASSUME RaceAssumption PROVE Spec => []LapInv
<1>1. Init => LapInv
  BY InitLaps
<1>2. LapInv /\ [Next]_vars => LapInv'
  BY NextLaps
<1> QED
  BY <1>1, <1>2, PTL DEF Spec

\* Whatever its players, laps and limit, a race has the checkpoints a replay is
\* verified against, and ends exactly when it should (AuthoritativeRace::AdvanceTick).
THEOREM ReplayCorrect == ASSUME RaceAssumption PROVE Spec => []ReplayVerifiable
<1>1. LapInv => ReplayVerifiable
  BY DEF LapInv, ReplayVerifiable
<1> QED
  BY <1>1, LapsCorrect, PTL

\* Every lap is announced once, in order (mLastLap and mEvents).
THEOREM LapsOnceCorrect == ASSUME RaceAssumption PROVE Spec => []LapsAnnouncedOnce
<1>1. ASSUME LapInv PROVE LapsAnnouncedOnce
  <2> SUFFICES ASSUME Ready, NEW p \in Slots
               PROVE  /\ mCraft[p].lap <= mConfig.laps
                      /\ \A l \in 1..mConfig.laps :
                           Cardinality({e \in mEvents : e.player = p /\ e.lap = l})
                             = IF l <= mCraft[p].lap THEN 1 ELSE 0
                      /\ \A e \in mEvents : e.player = p =>
                           /\ e.lap \in 1..mCraft[p].lap
                           /\ e.finished = (e.lap = mConfig.laps)
                           /\ \A d \in mEvents : d.player = p /\ d.lap < e.lap => d.tick < e.tick
    BY DEF LapsAnnouncedOnce
  <2>1. EventsTold /\ mCraft[p].lap \in Nat /\ mCraft[p].lap <= mConfig.laps
    BY <1>1 DEF LapInv, LapsReported, InputInv, TypeOK, Craft
  <2>2. ASSUME NEW l \in 1..mConfig.laps
        PROVE  Cardinality({e \in mEvents : e.player = p /\ e.lap = l})
                 = IF l <= mCraft[p].lap THEN 1 ELSE 0
    <3>1. CASE l <= mCraft[p].lap
      <4>1. PICK e \in mEvents : e.player = p /\ e.lap = l
        BY <2>1, <3>1 DEF EventsTold
      <4>2. {x \in mEvents : x.player = p /\ x.lap = l} = {e}
        BY <2>1, <4>1 DEF EventsTold
      <4> QED
        BY <3>1, <4>2, FS_Singleton
    <3>2. CASE ~(l <= mCraft[p].lap)
      <4>1. {x \in mEvents : x.player = p /\ x.lap = l} = {}
        BY <2>1, <3>2 DEF EventsTold
      <4> QED
        BY <3>2, <4>1, FS_EmptySet
    <3> QED
      BY <3>1, <3>2
  <2>3. ASSUME NEW e \in mEvents, e.player = p
        PROVE  /\ e.lap \in 1..mCraft[p].lap
               /\ e.finished = (e.lap = mConfig.laps)
               /\ \A d \in mEvents : d.player = p /\ d.lap < e.lap => d.tick < e.tick
    BY <2>1, <2>3 DEF EventsTold
  <2> QED
    BY <2>1, <2>2, <2>3
<1> QED
  BY <1>1, LapsCorrect, PTL

\* The comparator of Results is a strict total order of the players.
LEMMA RanksOrder ==
  ASSUME mCraft \in [Slots -> Craft], mConfig.laps \in Nat, Slots \subseteq Nat
  PROVE  /\ \A p \in Slots : ~RanksBefore(p, p)
         /\ \A p, q \in Slots : p = q \/ RanksBefore(p, q) \/ RanksBefore(q, p)
         /\ \A p, q, r \in Slots : RanksBefore(p, q) /\ RanksBefore(q, r) => RanksBefore(p, r)
<1>1. \A p \in Slots : mCraft[p].lap \in Nat /\ mCraft[p].at \in Nat /\ p \in Nat
  BY DEF Craft
<1>2. \A p, q \in Slots : p = q \/ RanksBefore(p, q) \/ RanksBefore(q, p)
  BY <1>1 DEF RanksBefore, HasFinished
<1>3. \A p \in Slots : ~RanksBefore(p, p)
  BY <1>1 DEF RanksBefore, HasFinished
<1>4. \A p, q, r \in Slots : RanksBefore(p, q) /\ RanksBefore(q, r) => RanksBefore(p, r)
  BY <1>1 DEF RanksBefore, HasFinished
<1> QED
  BY <1>2, <1>3, <1>4

\* Counting the players before each gives different ranks from 1 to n, in order.
LEMMA RanksCount ==
  ASSUME NEW n \in Nat, Slots = 1..n, mCraft \in [Slots -> Craft], mConfig.laps \in Nat
  PROVE  /\ {Rank(p) : p \in Slots} = Slots
         /\ \A p, q \in Slots : RanksBefore(p, q) => Rank(p) < Rank(q)
<1> DEFINE ahead(p) == {q \in Slots : RanksBefore(q, p)}
           rank == [p \in Slots |-> Rank(p)]
<1>1. IsFiniteSet(Slots) /\ Cardinality(Slots) = n
  BY FS_Interval
<1>2. /\ \A p \in Slots : ~RanksBefore(p, p)
      /\ \A p, q \in Slots : p = q \/ RanksBefore(p, q) \/ RanksBefore(q, p)
      /\ \A p, q, r \in Slots : RanksBefore(p, q) /\ RanksBefore(q, r) => RanksBefore(p, r)
  BY RanksOrder
<1>3. \A p \in Slots : IsFiniteSet(ahead(p)) /\ Cardinality(ahead(p)) \in Nat
  BY <1>1, FS_Subset, FS_CardinalityType
<1>4. \A p \in Slots : Rank(p) = 1 + Cardinality(ahead(p))
  BY DEF Rank
<1>5. ASSUME NEW p \in Slots PROVE Rank(p) \in 1..n
  <2>1. IsFiniteSet(Slots \ {p}) /\ Cardinality(Slots \ {p}) = n - 1
    <3>1. /\ IsFiniteSet(Slots \ {p})
          /\ p \in Slots => Cardinality(Slots \ {p}) = Cardinality(Slots) - 1
      BY <1>1, FS_RemoveElement, Zenon
    <3> QED
      BY <1>1, <3>1
  <2>2. ahead(p) \subseteq Slots \ {p}
    BY <1>2
  <2> HIDE DEF ahead
  <2>3. Cardinality(ahead(p)) <= n - 1
    BY <2>1, <2>2, FS_Subset
  <2>4. Cardinality(ahead(p)) \in Nat /\ Rank(p) = 1 + Cardinality(ahead(p))
    BY <1>3, <1>4
  <2> QED
    BY <2>3, <2>4
<1>6. ASSUME NEW p \in Slots, NEW q \in Slots, RanksBefore(p, q)
      PROVE  Rank(p) < Rank(q)
  <2>1. ahead(p) \subseteq ahead(q) /\ p \in ahead(q) /\ p \notin ahead(p)
    BY <1>2, <1>6
  <2> HIDE DEF ahead
  <2>2. Cardinality(ahead(p)) <= Cardinality(ahead(q))
        /\ Cardinality(ahead(p)) # Cardinality(ahead(q))
    BY <1>3, <2>1, FS_Subset
  <2>3. /\ Cardinality(ahead(p)) \in Nat /\ Rank(p) = 1 + Cardinality(ahead(p))
        /\ Cardinality(ahead(q)) \in Nat /\ Rank(q) = 1 + Cardinality(ahead(q))
    BY <1>3, <1>4
  <2> QED
    BY <2>2, <2>3
<1> HIDE DEF ahead
<1>7. rank \in [Slots -> Slots]
  BY <1>5
<1>8. \A p, q \in Slots : rank[p] = rank[q] => p = q
  <2>1. \A p \in Slots : rank[p] = Rank(p) /\ rank[p] \in Nat
    BY <1>5
  <2> QED
    BY <1>2, <1>6, <2>1
<1>9. rank \in Injection(Slots, Slots)
  BY <1>7, <1>8 DEF Injection, IsInjective
<1>10. rank \in Surjection(Slots, Slots)
  BY <1>1, <1>9, FS_Injection
<1>11. \A s \in Slots : \E p \in Slots : Rank(p) = s
  BY <1>10 DEF Surjection
<1> QED
  BY <1>5, <1>6, <1>11

\* The result ranks everybody, finishers in the order their finishes were
\* announced in and before the others (AuthoritativeRace::Results).
THEOREM ResultsCorrect == ASSUME RaceAssumption PROVE Spec => []ResultsRankFinishers
<1>1. ASSUME LapInv, Ready PROVE ResultsRankFinishers
  <2>1. /\ mConfig.players \in Nat /\ Slots = 1..mConfig.players
        /\ mCraft \in [Slots -> Craft] /\ mConfig.laps \in Nat
    <3>1. mConfig \in Config /\ mCraft \in [Slots -> Craft]
      BY <1>1 DEF LapInv, InputInv, TypeOK
    <3>2. mConfig.players \in Nat
      BY <3>1 DEF Config, RaceAssumption
    <3>3. mConfig.laps \in Nat
      BY <3>1 DEF Config, RaceAssumption
    <3> QED
      BY <3>1, <3>2, <3>3 DEF Slots
  <2>2. /\ {Rank(p) : p \in Slots} = Slots
        /\ \A p, q \in Slots : RanksBefore(p, q) => Rank(p) < Rank(q)
    BY <2>1, RanksCount
  <2>3. ASSUME NEW e \in mEvents, e.finished
        PROVE  /\ e.player \in Slots /\ e.tick = mCraft[e.player].at
               /\ HasFinished(mCraft[e.player])
    <3>1. e.player \in Slots /\ e.lap = mConfig.laps /\ e.lap \in 1..mCraft[e.player].lap
      BY <1>1, <2>3 DEF LapInv, EventsTold
    <3>2. mCraft[e.player].lap \in Nat /\ mCraft[e.player].lap <= mConfig.laps
      BY <1>1, <2>1, <3>1 DEF LapInv, LapsReported, Craft
    <3>3. e.lap = mCraft[e.player].lap
      BY <2>1, <3>1, <3>2
    <3> QED
      BY <1>1, <3>1, <3>2, <3>3 DEF LapInv, EventsTold, HasFinished
  <2>4. ASSUME NEW d \in mEvents, NEW e \in mEvents, d.finished, e.finished,
               d.tick < e.tick \/ (d.tick = e.tick /\ d.player < e.player)
        PROVE  Rank(d.player) < Rank(e.player)
    <3>1. RanksBefore(d.player, e.player)
      <4>1. /\ d.player \in Slots /\ d.tick = mCraft[d.player].at
            /\ HasFinished(mCraft[d.player])
        BY <2>3, <2>4
      <4>2. /\ e.player \in Slots /\ e.tick = mCraft[e.player].at
            /\ HasFinished(mCraft[e.player])
        BY <2>3, <2>4
      <4>3. mCraft[d.player].at \in Nat /\ mCraft[e.player].at \in Nat
        BY <2>1, <4>1, <4>2 DEF Craft
      <4> QED
        BY <2>4, <4>1, <4>2, <4>3 DEF RanksBefore
    <3> QED
      BY <2>2, <2>3, <2>4, <3>1
  <2>5. ASSUME NEW d \in mEvents, NEW p \in Slots, d.finished, ~HasFinished(mCraft[p])
        PROVE  Rank(d.player) < Rank(p)
    <3>1. RanksBefore(d.player, p)
      BY <2>3, <2>5 DEF RanksBefore
    <3> QED
      BY <2>2, <2>3, <2>5, <3>1
  <2> QED
    BY <2>2, <2>4, <2>5 DEF ResultsRankFinishers
<1>2. LapInv => ResultsRankFinishers
  BY <1>1 DEF ResultsRankFinishers
<1> QED
  BY <1>2, LapsCorrect, PTL
=============================================================================
