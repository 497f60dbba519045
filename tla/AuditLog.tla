------------------------------- MODULE AuditLog -------------------------------
(***************************************************************************)
(* The hash-chained log of moderation and security events: what is kept in *)
(* memory, what is in the file, records appended, old ones purged, and the *)
(* file read back when the process starts again.                           *)
(*                                                                         *)
(* Abstractions.  A hash is the number of the record it was made for:      *)
(* different records have different hashes.  A line is its seven fields    *)
(* without the three texts; one that has another number of fields has no   *)
(* more than their number.                                                 *)
(***************************************************************************)
EXTENDS Integers, Sequences

CONSTANTS
  MaxRecords,     \* bound: records over the life of the log
  MaxWriteFaults, \* bound: writes that fail, in part or altogether
  MaxDay,         \* bound: the time, in days
  Retention       \* days a record is kept (180)

ASSUME AuditAssumption == {MaxRecords, MaxWriteFaults, MaxDay, Retention} \subseteq Nat

VARIABLES
  mLines,    \* the lines in memory
  mLastHash, \* the hash the next record follows
  mSeq,      \* the sequence number of the next record
  file,      \* the lines of the file
  unended,   \* the file does not end with a line end
  records,   \* how many records there have been
  today,     \* the time
  writeFaults,
  absent     \* history: the records that were not in the file when the process started

auditVars == <<mLines, mLastHash, mSeq, file, unended, records, today, writeFaults, absent>>

Genesis   == 0
CutHash   == -1
NoHash    == -2

\* A line with one field, the start of a number; with fewer or more than seven.
Other(fields, seq) ==
  [whole |-> FALSE, fields |-> fields, seq |-> seq, day |-> 0, prev |-> NoHash, hash |-> NoHash]

Line(seq, day, prev, hash) ==
  [whole |-> TRUE, fields |-> 7, seq |-> seq, day |-> day, prev |-> prev, hash |-> hash]

AuditInit ==
  /\ mLines = <<>> /\ mLastHash = Genesis /\ mSeq = 0
  /\ file = <<>> /\ unended = FALSE
  /\ records = 0 /\ today = 0 /\ writeFaults = 0 /\ absent = {}

-----------------------------------------------------------------------------
(***************************************************************************)
(* The chain.                                                              *)
(***************************************************************************)
Follows(line, before) == line.prev = before.hash /\ line.seq = before.seq + 1

\* Verify: every line is what it was when it was recorded, and follows the line
\* before it; the first one anchors the chain.
Verifies(lines) ==
  /\ \A i \in 1..Len(lines) : lines[i].whole
  /\ \A i \in 2..Len(lines) : Follows(lines[i], lines[i - 1])

\* Mutation: the number of the last line is used again.
NextSeqAgain(line) == line.seq

\* The number after a line's.
NextSeq(line) == line.seq + 1

\* The last line says how to go on, if it has all its fields.
Continues(lines) == lines # <<>> /\ lines[Len(lines)].fields = 7

\* The records of the lines that are whole.
Found(lines) == {lines[i].hash : i \in {i \in 1..Len(lines) : lines[i].whole}}

\* The constructor.
ReadBack(lines) ==
  /\ mLines' = lines
  /\ mLastHash' = IF Continues(lines) THEN lines[Len(lines)].hash ELSE Genesis
  /\ mSeq' = IF Continues(lines) THEN NextSeq(lines[Len(lines)]) ELSE 0
  /\ absent' = (1..records) \ Found(lines)

-----------------------------------------------------------------------------
(***************************************************************************)
(* Record, Purge, and the time.                                            *)
(***************************************************************************)
\* What a failed write may leave: nothing, a line without its end, a line cut in
\* its hash, or in a field before (in the very first one: "stub").
Pieces == {"none", "bare", "cut", "part", "stub"}

PieceOf(line, piece) ==
  CASE piece = "bare" -> line
    [] piece = "cut"  -> [line EXCEPT !.whole = FALSE, !.hash = CutHash]
    [] piece = "part" -> Other(IF line.fields = 1 THEN 1 ELSE 2, line.seq)
    [] piece = "stub" -> Other(1, line.seq)

\* The new line goes on where a line without end stops: only after a stub are
\* there seven fields, the first of them with the digits of both.
Joined(last, line) ==
  IF last.fields = 1 THEN [line EXCEPT !.whole = FALSE, !.seq = 10 * last.seq + line.seq]
  ELSE Other(8, last.seq)

WithoutLast(lines) == SubSeq(lines, 1, Len(lines) - 1)

Appended(lines, isUnended, line) ==
  IF isUnended
  THEN Append(WithoutLast(lines), Joined(lines[Len(lines)], line))
  ELSE Append(lines, line)

Written(lines, isUnended, failed, line, piece) ==
  /\ file' = IF piece = "none" THEN lines
             ELSE Appended(lines, isUnended, IF piece = "all" THEN line ELSE PieceOf(line, piece))
  /\ unended' = IF piece = "none" THEN isUnended ELSE piece # "all"
  /\ writeFaults' = writeFaults + failed + (IF piece = "all" THEN 0 ELSE 1)
  /\ writeFaults' <= MaxWriteFaults

\* A line after those kept in memory, and after these in the file, as far as it
\* gets; some writes may have failed before.
Recorded(kept, lines, isUnended, failed, piece) ==
  LET line == Line(mSeq, today, mLastHash, records + 1)
  IN  /\ records < MaxRecords
      /\ records' = records + 1
      /\ mLines' = Append(kept, line)
      /\ mLastHash' = line.hash /\ mSeq' = mSeq + 1
      /\ Written(lines, isUnended, failed, line, piece)
      /\ UNCHANGED <<today, absent>>

Record(piece) == Recorded(mLines, file, unended, 0, piece)

Expired(line) == line.fields = 7 /\ today - line.day > Retention

\* The leading lines that are too old: a malformed one stops the purge.
Leading == CHOOSE n \in 0..Len(mLines) :
             /\ \A i \in 1..n : Expired(mLines[i])
             /\ n < Len(mLines) => ~Expired(mLines[n + 1])

Kept == SubSeq(mLines, Leading + 1, Len(mLines))

\* A rewrite that stops after n of the kept lines, in a piece of the next one.
CutShort(n, rest) ==
  SubSeq(Kept, 1, n) \o (IF rest = "none" THEN <<>> ELSE <<PieceOf(Kept[n + 1], rest)>>)

\* The kept lines are written anew, and the purge is recorded after them. The file
\* may not open for the one, and has its old lines still, or not take all of them:
\* the other is tried in any case.
Purge(piece) ==
  /\ Leading # 0
  /\ \/ Recorded(Kept, Kept, FALSE, 0, piece)
     \/ Recorded(Kept, file, unended, 1, piece)
     \/ \E n \in 0..Len(Kept) - 1, rest \in Pieces :
          Recorded(Kept, CutShort(n, rest), rest # "none", 1, piece)

\* The process ends after it emptied the file and wrote some lines, and starts again.
PurgeCut(n, rest) ==
  /\ Leading # 0 /\ n \in 0..Len(Kept) /\ (rest # "none" => n < Len(Kept))
  /\ writeFaults < MaxWriteFaults /\ writeFaults' = writeFaults + 1
  /\ file' = CutShort(n, rest) /\ unended' = (rest # "none")
  /\ ReadBack(file')
  /\ UNCHANGED <<records, today>>

\* The process ends, at any other time, and starts again.
AuditRestart ==
  /\ ReadBack(file)
  /\ UNCHANGED <<file, unended, records, today, writeFaults>>

\* The time goes on.
DayIs(day) ==
  /\ today' = day
  /\ UNCHANGED <<mLines, mLastHash, mSeq, file, unended, records, writeFaults, absent>>

AuditStep == \E piece \in Pieces \union {"all"} : Record(piece) \/ Purge(piece)

-----------------------------------------------------------------------------
(***************************************************************************)
(* Properties.                                                             *)
(***************************************************************************)
LineType == [whole : BOOLEAN, fields : {1, 2, 7, 8}, seq : Nat, day : 0..MaxDay,
             prev : NoHash..MaxRecords, hash : NoHash..MaxRecords]

\* The type of the log's state: the next record never follows a line without a
\* hash, and only a file with a line in it can lack that line's end.
AuditTypeOK ==
  /\ \A i \in 1..Len(mLines) : mLines[i] \in LineType
  /\ \A i \in 1..Len(file) : file[i] \in LineType
  /\ mLastHash \in CutHash..MaxRecords /\ mSeq \in Nat
  /\ unended => file # <<>>
  /\ records \in 0..MaxRecords /\ today \in 0..MaxDay /\ writeFaults \in 0..MaxWriteFaults
  /\ absent \subseteq 1..records

\* As long as every write succeeds, the log verifies, in memory and in the file,
\* and the two are the same: over records, purges and restarts, in any order.
ChainVerifies == writeFaults = 0 => file = mLines /\ Verifies(file)

\* Between two lines of a file that verifies nothing is missing that the process
\* found there when it started or has recorded since, whichever writes failed: a
\* chain closes only over records that were lost before a restart. What is missing
\* before the first line or after the last does not show.
GapsShow ==
  Verifies(file) => \A i \in 1..Len(file) - 1 :
                      /\ file[i].hash < file[i + 1].hash
                      /\ (file[i].hash + 1)..(file[i + 1].hash - 1) \subseteq absent

\* The log is what an operator may rely on: whole while nothing fails, and honest
\* about what a process lost between two of its lines.
LogHonest == AuditTypeOK /\ ChainVerifies /\ GapsShow
=============================================================================
