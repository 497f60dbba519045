------------------------------- MODULE RaceFiles -------------------------------
(***************************************************************************)
(* What the server keeps of the races that are over: the league's lines,   *)
(* the replays with their result tables, and the store that indexes and    *)
(* prunes them.  A race is written down in several steps, and the process  *)
(* may end before each of them or in its middle.                           *)
(*                                                                         *)
(* Abstractions.  A race is its number; what is known of it is in `races'. *)
(* The order of the league's lines in the file does not matter to anyone   *)
(* who reads them, so the file is the set of those it can be read for.     *)
(* What is left of a line that was not written whole, and the line that    *)
(* goes on where it stops, have not the fields of one (but for a piece of  *)
(* one letter, which leaves a row before it as it was, like none).  Of a   *)
(* result table the winner's run is kept.  One board: the races of one     *)
(* track, craft and length.                                                *)
(* Replays of one second are ordered by name, here by number.              *)
(***************************************************************************)
EXTENDS Integers, FiniteSets, SequencesExt

CONSTANTS
  MaxRaces,    \* bound: races over the life of the server
  MaxSecond,   \* bound: the time, in seconds
  DaySeconds,  \* the seconds of a day
  Pairs,       \* the pairs of devices that race each other
  Times,       \* the times a winner may take
  DuelsPerDay, \* kDuelsPerDay
  Keep,        \* --replay-keep
  MaxFaults    \* bound: crashes, and files that cannot be removed or written whole

ASSUME FilesAssumption ==
  /\ {MaxRaces, MaxSecond, DuelsPerDay, MaxFaults} \subseteq Nat
  /\ {DaySeconds, Keep} \subseteq Nat \ {0}
  /\ Times \subseteq Nat \ {0}

VARIABLES
  races,   \* the races that were over, in order
  league,  \* the lines that can be read from the league's file
  torn,    \* what that file ends with, if it lacks its line end: a line, or less
  missed,  \* history: the lines appended that cannot be read from it
  mDuels,  \* mDuelsPerDay: the duels scored, by pair and day
  mRows,   \* the rows in memory
  dir,     \* the replay directory: by race, its time, whether whole, its table
  mItems,  \* the index of the directory
  todo,    \* what is still to be written of the last race
  second,  \* the time
  faults

filesVars == <<races, league, torn, missed, mDuels, mRows, dir, mItems, todo, second, faults>>

Group == "group"  \* more than two devices
Solo  == "solo"   \* a race the league does not take: one device, or too few finishers

Day(t) == t \div DaySeconds

Days == 0..Day(MaxSecond)
Numbers == 1..Len(races)

R(n)        == <<"R", n, 0>>
S(n, place) == <<"S", n, place>>
Half        == <<"half", 0, 0>>  \* less than a line

NoDuels == [k \in Pairs \X Days |-> 0]

FilesInit ==
  /\ races = <<>> /\ league = {} /\ torn = {} /\ missed = {}
  /\ mDuels = NoDuels /\ mRows = {}
  /\ dir = <<>> /\ mItems = <<>>
  /\ todo = <<>> /\ second = 0 /\ faults = 0

-----------------------------------------------------------------------------
(***************************************************************************)
(* The league.                                                             *)
(***************************************************************************)
Duel(n) == <<races[n].who, Day(races[n].at)>>

\* Reading the file back.
DuelsIn(lines) ==
  [k \in Pairs \X Days |->
     Cardinality({n \in Numbers : R(n) \in lines /\ races[n].who \in Pairs /\ Duel(n) = k})]

RowsIn(lines) == {line \in lines : line[1] = "S"}

\* A valid race with two finishers, and for a pair not too many of them today.
Scores(who, t) == who # Solo /\ (who \in Pairs => mDuels[<<who, Day(t)>>] < DuelsPerDay)

\* What a failed append may leave: nothing, a line without its end, less.
LinePieces == {"none", "bare", "part"}

\* A line, or a piece of it, goes on where a line without end stops: then neither
\* can be read.
LineAppended(line, piece) ==
  LET readable == IF torn = {} /\ piece \in {"all", "bare"} THEN {line} ELSE {}
  IN  /\ league' = IF piece = "none" THEN league ELSE (league \ torn) \union readable
      /\ torn' = CASE piece = "none" -> torn
                   [] piece = "all"  -> {}
                   [] OTHER -> IF readable = {} THEN {Half} ELSE {line}
      /\ missed' = (missed \union league \union {line}) \ league'

\* Mutation: the rows first.
LinesRowsFirst(n) == <<S(n, 1), S(n, 2), R(n)>>

\* The lines of a scored race, each appended by itself.
Lines(n) == <<R(n), S(n, 1), S(n, 2)>>

\* The finished callback after the league: replay, results, prune.
Rest == <<<<"replay">>, <<"table">>, <<"prune">>>>

\* League::Record, up to what it writes.
Finish(who, ms) ==
  /\ todo = <<>>
  /\ Len(races) < MaxRaces
  /\ LET n == Len(races) + 1
         scored == Scores(who, second)
     IN  /\ races' = Append(races, [who |-> who, ms |-> ms, at |-> second])
         /\ mDuels' = IF scored /\ who \in Pairs
                      THEN [mDuels EXCEPT ![<<who, Day(second)>>] = @ + 1] ELSE mDuels
         /\ mRows' = IF scored THEN mRows \union {S(n, 1), S(n, 2)} ELSE mRows
         /\ todo' = (IF scored THEN Lines(n) ELSE <<>>) \o Rest
  /\ UNCHANGED <<league, torn, missed, dir, mItems, second, faults>>

-----------------------------------------------------------------------------
(***************************************************************************)
(* The replay store.                                                       *)
(***************************************************************************)
Newer(n, m) == dir[n].at > dir[m].at \/ (dir[n].at = dir[m].at /\ n > m)

\* Refresh: what does not decode is left out; what is known is not read again
\* while its time and size are the same.
Refreshed ==
  [n \in {n \in DOMAIN dir : dir[n].whole} |->
     IF n \in DOMAIN mItems /\ mItems[n].at = dir[n].at THEN mItems[n]
     ELSE [at |-> dir[n].at, table |-> dir[n].table]]

\* All but the newest.
Doomed(items) == {n \in DOMAIN items : Cardinality({m \in DOMAIN items : Newer(m, n)}) >= Keep}

\* Mutation: a replay that could not be removed stays in the index as it was.
RemainingUnlessStuck(items, doomed, stuck) == Restrict(items, DOMAIN items \ (doomed \ stuck))

\* The index forgets the doomed ones whether or not their files went.
Remaining(items, doomed, stuck) == Restrict(items, DOMAIN items \ doomed)

\* Some replays cannot be removed; the tables go in any case.
Prune(stuck) ==
  LET doomed == Doomed(Refreshed)
  IN  /\ stuck \subseteq doomed
      /\ stuck # {} => faults < MaxFaults
      /\ dir' = [n \in DOMAIN dir \ (doomed \ stuck) |->
                   IF n \in stuck THEN [dir[n] EXCEPT !.table = FALSE] ELSE dir[n]]
      /\ mItems' = Remaining(Refreshed, doomed, stuck)
      /\ faults' = IF stuck = {} THEN faults ELSE faults + 1

\* A player asks for a list, a record, a replay.
Look == todo = <<>> /\ mItems' = Refreshed
        /\ UNCHANGED <<races, league, torn, missed, mDuels, mRows, dir, todo, second, faults>>

-----------------------------------------------------------------------------
(***************************************************************************)
(* What is still to be written; and a crash.                               *)
(***************************************************************************)
Newest == Len(races)

NewReplay(whole) == [n \in DOMAIN dir \union {Newest} |->
                       IF n = Newest THEN [at |-> second, whole |-> whole, table |-> FALSE] ELSE dir[n]]

\* The table beside the newest replay, if that is there.
Tabled == [n \in DOMAIN dir |-> IF n = Newest THEN [dir[n] EXCEPT !.table = TRUE] ELSE dir[n]]

AppendNext(piece) ==
  /\ LineAppended(Head(todo), piece)
  /\ faults' = IF piece = "all" THEN faults ELSE faults + 1
  /\ UNCHANGED <<dir, mItems>>

WriteReplay ==
  /\ \/ dir' = NewReplay(TRUE) /\ faults' = faults
     \/ dir' \in {dir, NewReplay(FALSE)} /\ faults' = faults + 1
  /\ UNCHANGED <<league, torn, missed, mItems>>

WriteTable ==
  /\ \/ dir' = Tabled /\ faults' = faults
     \/ dir' = dir /\ faults' = faults + 1
  /\ UNCHANGED <<league, torn, missed, mItems>>

\* The next of what is left to write, as far as it gets.
Write ==
  /\ todo # <<>>
  /\ todo' = Tail(todo)
  /\ CASE Head(todo)[1] = "replay" -> WriteReplay
       [] Head(todo)[1] = "table" -> WriteTable
       [] Head(todo)[1] = "prune" -> (\E stuck \in SUBSET DOMAIN dir : Prune(stuck))
                                     /\ UNCHANGED <<league, torn, missed>>
       [] OTHER -> \E piece \in LinePieces \union {"all"} : AppendNext(piece)
  /\ faults' <= MaxFaults
  /\ UNCHANGED <<races, mDuels, mRows, second>>

\* The process ends, perhaps in the middle of a replay, and starts again.
FilesRestart ==
  /\ faults' = IF todo = <<>> THEN faults ELSE faults + 1
  /\ faults' <= MaxFaults
  /\ todo' = <<>>
  /\ dir' \in {dir} \union (IF todo # <<>> /\ Head(todo)[1] = "replay" THEN {NewReplay(FALSE)} ELSE {})
  /\ mDuels' = DuelsIn(league) /\ mRows' = RowsIn(league)
  /\ mItems' = <<>>
  /\ UNCHANGED <<races, league, torn, missed, second>>

\* What is written of one race is written within one second.
NextSecond ==
  /\ todo = <<>>
  /\ second < MaxSecond
  /\ second' = second + 1
  /\ UNCHANGED <<races, league, torn, missed, mDuels, mRows, dir, mItems, todo, faults>>

FilesStep ==
  \/ \E who \in Pairs \union {Group, Solo}, ms \in Times : Finish(who, ms)
  \/ Write \/ Look

-----------------------------------------------------------------------------
(***************************************************************************)
(* The board: Records, and RecordBreaks from the oldest replay on.         *)
(***************************************************************************)
Timed(items) == {n \in DOMAIN items : items[n].table}

Faster(n, m) ==
  \/ races[n].ms < races[m].ms
  \/ races[n].ms = races[m].ms /\ dir[n].at < dir[m].at
  \/ races[n].ms = races[m].ms /\ dir[n].at = dir[m].at /\ n > m

\* The first of the board: a tie goes to the older run.
RecordHolder(items) == CHOOSE n \in Timed(items) : \A m \in Timed(items) \ {n} : Faster(n, m)

\* Mutation: a tie breaks a record.
BreaksTied(ms, best) == ms <= best

Breaks(ms, best) == ms < best

\* These replays, the oldest first.
OldestFirst(set) ==
  CHOOSE order \in Surjection(1..Cardinality(set), set) :
    \A i, j \in DOMAIN order : i < j => Newer(order[j], order[i])

\* The holder after each of the replays.
Holders(order) ==
  LET holder[i \in DOMAIN order] ==
        IF i = 1 \/ Breaks(races[order[i]].ms, races[holder[i - 1]].ms) THEN order[i]
        ELSE holder[i - 1]
  IN  holder

\* The holder after the newest.
HolderAfter(items) == Holders(OldestFirst(Timed(items)))[Cardinality(Timed(items))]

-----------------------------------------------------------------------------
(***************************************************************************)
(* Properties.                                                             *)
(***************************************************************************)
EntryType == [at : 0..MaxSecond, whole : BOOLEAN, table : BOOLEAN]

\* The type of what is kept of the races.
FilesTypeOK ==
  /\ Len(races) <= MaxRaces
  /\ league \union missed \subseteq UNION {{R(n), S(n, 1), S(n, 2)} : n \in Numbers}
  /\ torn \subseteq league \union {Half}
  /\ mDuels \in [Pairs \X Days -> 0..DuelsPerDay] /\ mRows \subseteq {S(n, p) : n \in Numbers, p \in 1..2}
  /\ DOMAIN dir \subseteq Numbers /\ \A n \in DOMAIN dir : dir[n] \in EntryType
  /\ DOMAIN mItems \subseteq Numbers
  /\ second \in 0..MaxSecond /\ faults \in 0..MaxFaults

\* The duels of a pair on a day whose lines are among these.
DuelsOf(lines, k) == {n \in Numbers : R(n) \in lines /\ races[n].who \in Pairs /\ Duel(n) = k}

\* However often the server is restarted between two of its writes, the file
\* never holds more wins of a pair on one day than the cap allows (the R line of
\* a race is written before its rows), but for as many as it lacks R lines of that
\* pair and day, whose appending failed.
CapHolds ==
  \A k \in Pairs \X Days :
    Cardinality({n \in Numbers : S(n, 1) \in league /\ races[n].who \in Pairs /\ Duel(n) = k})
      <= DuelsPerDay + Cardinality(DuelsOf(missed, k))

\* Between two races, what the league has in memory is what a restart would read
\* back, the duels of each pair and day and the rows of the standings, but for what
\* could not be appended: of that the memory may know more, and never less.
ReadsBack ==
  todo = <<>> =>
    /\ \A k \in Pairs \X Days :
         /\ Cardinality(DuelsOf(league, k)) <= mDuels[k]
         /\ mDuels[k] <= Cardinality(DuelsOf(league \union missed, k))
    /\ RowsIn(league) \subseteq mRows /\ mRows \subseteq RowsIn(league \union missed)

\* The league keeps its cap and its memory, over crashes between any two lines, and
\* loses by an append that fails no more than what was appended.
LeagueKept == FilesTypeOK /\ CapHolds /\ ReadsBack

\* Between two races, as long as nothing failed, the newest replays are there,
\* as many as are kept, each with its table, and no older one is.
KeepsNewest ==
  faults = 0 /\ todo = <<>> =>
    /\ Cardinality(DOMAIN dir) = (IF Len(races) < Keep THEN Len(races) ELSE Keep)
    /\ \A n \in DOMAIN dir : dir[n].whole /\ dir[n].table
    /\ \A n \in DOMAIN dir, m \in Numbers \ DOMAIN dir : races[m].at <= dir[n].at

\* What the index says of a replay is what its files say, also after a replay that
\* could not be removed lost its table, or one was only half written.
IndexTrue ==
  todo = <<>> =>
    \A n \in DOMAIN mItems : n \in DOMAIN dir /\ dir[n].whole /\ mItems[n].table = dir[n].table

\* The store keeps the newest replays and tells what is on the disk.
StoreTrue == KeepsNewest /\ IndexTrue

\* The list of broken records and the board name the same record: who broke it last
\* leads the board, unless two runs of the same second tie.
BoardsAgree ==
  todo = <<>> /\ Timed(mItems) # {} =>
    LET top == RecordHolder(mItems)
        last == HolderAfter(mItems)
    IN  \/ top = last
        \/ races[top].ms = races[last].ms /\ dir[top].at = dir[last].at
=============================================================================
