-------------------------- MODULE ServerFilesProofs --------------------------
(***************************************************************************)
(* The files of the server, for any number of records, races, devices and  *)
(* days, any limits, and any number of failed writes and crashes: the log  *)
(* shows what a process loses between two of its lines, the league keeps   *)
(* its cap and its memory but for what could not be appended, the store    *)
(* keeps the newest replays and says what is on the disk.                  *)
(***************************************************************************)
EXTENDS ServerFiles, SequenceTheorems, FiniteSetTheorems, TLAPS

HIDE DEF AuditAssumption, FilesAssumption, WorkAssumption

\* What is smaller lies in an earlier day, or in the same.
LEMMA DayMonotone ==
  ASSUME FilesAssumption, NEW s \in Nat, NEW t \in Nat, s <= t
  PROVE  Day(s) \in Nat /\ Day(t) \in Nat /\ Day(s) <= Day(t)
<1>1. DaySeconds \in Nat \ {0}
  BY DEF FilesAssumption
<1>2. /\ s = DaySeconds * (s \div DaySeconds) + (s % DaySeconds)
      /\ t = DaySeconds * (t \div DaySeconds) + (t % DaySeconds)
      /\ s % DaySeconds \in 0..DaySeconds - 1 /\ t % DaySeconds \in 0..DaySeconds - 1
      /\ s \div DaySeconds \in Int /\ t \div DaySeconds \in Int
  BY <1>1
<1> DEFINE a == s \div DaySeconds
           b == t \div DaySeconds
<1>3. a \in Nat /\ b \in Nat
  BY <1>1, <1>2
<1>4. a <= b
  BY <1>1, <1>2
<1> QED
  BY <1>3, <1>4 DEF Day

-----------------------------------------------------------------------------
(***************************************************************************)
(* The invariant of the log.                                               *)
(***************************************************************************)
\* A line made when there were r records.
Made(line, r) ==
  /\ line \in LineType
  /\ line.hash <= r /\ line.prev <= r
  /\ line.whole => line.hash >= 1 /\ line.fields = 7 /\ line.prev < line.hash
  /\ line.fields = 7 => line.hash >= CutHash

\* A whole line is of a record that is not gone, and the records between it and the
\* one it follows are.
Genuine(line, gone) ==
  line.whole => /\ line.hash \notin gone
                /\ line.prev > 0 => (line.prev + 1)..(line.hash - 1) \subseteq gone

\* Later lines are of later records.
Rising(lines) ==
  \A p, q \in 1..Len(lines) :
    p < q /\ lines[p].whole /\ lines[q].hash > 0 => lines[p].hash < lines[q].hash

Chain(lines, r, gone) ==
  /\ lines \in Seq(LineType)
  /\ \A i \in 1..Len(lines) : Made(lines[i], r) /\ Genuine(lines[i], gone)
  /\ Rising(lines)

\* The next record goes on where the lines end.
GoesOn(lines, hash, seq) ==
  lines # <<>> => hash = lines[Len(lines)].hash /\ seq = lines[Len(lines)].seq + 1

\* No record is left out between this one and the next, but those that are gone.
Reaches(hash, r, gone) == hash > 0 => (hash + 1)..r \subseteq gone

\* What every step preserves: in file and memory, and from the hash in memory to the
\* next record, only those records are passed over that were not in the file when
\* the process started.
LogInv ==
  /\ Chain(mLines, records, absent) /\ Chain(file, records, absent)
  /\ absent \subseteq 1..records /\ Reaches(mLastHash, records, absent)
  /\ mLastHash \in CutHash..records /\ mSeq \in Nat
  /\ unended => file # <<>>
  /\ records \in 0..MaxRecords /\ today \in 0..MaxDay /\ writeFaults \in 0..MaxWriteFaults
  /\ writeFaults = 0 =>
       ~unended /\ file = mLines /\ Verifies(file) /\ GoesOn(file, mLastHash, mSeq)

\* The numbers of a line.
LEMMA MadeLine ==
  ASSUME NEW line, NEW r, Made(line, r)
  PROVE  line.hash \in Int /\ line.prev \in Int
<1>1. line \in LineType
  BY DEF Made
<1> QED
  BY <1>1 DEF LineType, NoHash

-----------------------------------------------------------------------------
(***************************************************************************)
(* Chains.                                                                 *)
(***************************************************************************)
\* A run of lines of a chain is a chain.
LEMMA ChainPart ==
  ASSUME NEW r \in Nat, NEW gone, NEW lines, Chain(lines, r, gone),
         NEW m \in 1..Len(lines) + 1, NEW n \in m - 1..Len(lines)
  PROVE  /\ Chain(SubSeq(lines, m, n), r, gone)
         /\ Len(SubSeq(lines, m, n)) = n - m + 1
         /\ \A i \in 1..n - m + 1 : SubSeq(lines, m, n)[i] = lines[m + i - 1]
<1> DEFINE part == SubSeq(lines, m, n)
<1>1. lines \in Seq(LineType) /\ Len(lines) \in Nat /\ m \in Int /\ n \in Int
  BY DEF Chain
<1>2. \A i \in m..n : lines[i] \in LineType
  BY <1>1, ElementOfSeq
<1>3. /\ part \in Seq(LineType) /\ Len(part) = n - m + 1
      /\ \A i \in 1..n - m + 1 : part[i] = lines[m + i - 1]
  BY <1>1, <1>2, SubSeqProperties
<1> HIDE DEF part
<1>4. \A i \in 1..Len(part) : m + i - 1 \in 1..Len(lines)
  BY <1>1, <1>3
<1>5. \A i \in 1..Len(part) : Made(part[i], r) /\ Genuine(part[i], gone)
  BY <1>3, <1>4 DEF Chain
<1>6. Rising(part)
  <2> SUFFICES ASSUME NEW p \in 1..Len(part), NEW q \in 1..Len(part),
                      p < q, part[p].whole, part[q].hash > 0
               PROVE  part[p].hash < part[q].hash
    BY DEF Rising
  <2>1. PICK a \in 1..Len(lines), b \in 1..Len(lines) : a = m + p - 1 /\ b = m + q - 1
    BY <1>4
  <2>2. a < b
    BY <1>1, <1>3, <2>1
  <2>3. lines[a].whole /\ lines[b].hash > 0 /\ part[p] = lines[a] /\ part[q] = lines[b]
    BY <1>3, <2>1
  <2> QED
    BY <2>2, <2>3 DEF Chain, Rising
<1> QED
  BY <1>3, <1>5, <1>6 DEF Chain, part

\* A line that is not whole, as one of r + 1 records.
Damaged(line, r) ==
  /\ line \in LineType /\ ~line.whole
  /\ line.hash \in {NoHash, CutHash, r + 1} /\ line.prev <= r
  /\ line.fields = 7 => line.hash # NoHash

\* A new line: it is damaged, or the line of the next record after this hash.
New(line, hash, r) ==
  \/ Damaged(line, r)
  \/ /\ line \in LineType /\ line.whole /\ line.fields = 7
     /\ line.hash = r + 1 /\ line.prev = hash

\* These lines and one more are a chain.
Grown(more, lines, line, r, gone) ==
  /\ Chain(more, r, gone)
  /\ Len(more) = Len(lines) + 1
  /\ more[Len(lines) + 1] = line
  /\ \A i \in 1..Len(lines) : more[i] = lines[i]

\* What a chain can be followed by, if its last record is one of the next r.
LEMMA ChainAnd ==
  ASSUME NEW r \in Nat, NEW r1 \in Nat, r <= r1, NEW gone, NEW lines, Chain(lines, r, gone),
         NEW line \in LineType, Made(line, r1), Genuine(line, gone),
         line.hash > 0 => line.hash > r
  PROVE  Grown(Append(lines, line), lines, line, r1, gone)
<1> DEFINE more == Append(lines, line)
           l == Len(lines)
<1>1. lines \in Seq(LineType) /\ l \in Nat
  BY DEF Chain
<1>2. /\ more \in Seq(LineType) /\ Len(more) = l + 1
      /\ \A i \in 1..l : more[i] = lines[i]
      /\ more[l + 1] = line
  BY <1>1, AppendProperties
<1>3. \A i \in 1..l : /\ Made(lines[i], r) /\ Genuine(lines[i], gone)
                      /\ lines[i].hash \in Int /\ lines[i].prev \in Int
  BY MadeLine DEF Chain
<1>4. \A i \in 1..l : Made(lines[i], r1)
  BY <1>3 DEF Made
<1> HIDE DEF more, l
<1>5. \A i \in 1..l + 1 : i \in 1..l \/ i = l + 1
  BY <1>1
<1>6. \A i \in 1..l + 1 : Made(more[i], r1) /\ Genuine(more[i], gone)
  BY <1>2, <1>3, <1>4, <1>5
<1>7. line.hash \in Int
  BY MadeLine
<1>8. Rising(more)
  <2> SUFFICES ASSUME NEW p \in 1..l + 1, NEW q \in 1..l + 1,
                      p < q, more[p].whole, more[q].hash > 0
               PROVE  more[p].hash < more[q].hash
    BY <1>2 DEF Rising
  <2>1. p \in 1..l
    BY <1>1
  <2>2. CASE q \in 1..l
    BY <2>1, <2>2, <1>2 DEF Chain, Rising, l
  <2>3. CASE q = l + 1
    <3>1. lines[p].hash <= r /\ lines[p].hash \in Int
      BY <2>1, <1>3 DEF Made
    <3>2. more[p] = lines[p] /\ more[q] = line
      BY <2>1, <2>3, <1>2
    <3> QED
      BY <3>1, <3>2, <1>7
  <2> QED
    BY <1>5, <2>2, <2>3
<1> QED
  BY <1>2, <1>6, <1>8 DEF Chain, Grown, more, l

\* A hash the next record may follow.
Before(hash, r, gone) ==
  r \in Nat /\ gone \subseteq 1..r /\ hash \in CutHash..r /\ Reaches(hash, r, gone)

\* A chain goes on with a new line.
LEMMA ChainGrows ==
  ASSUME NEW r, NEW gone, NEW hash, Before(hash, r, gone),
         NEW lines, Chain(lines, r, gone), NEW line, New(line, hash, r)
  PROVE  Grown(Append(lines, line), lines, line, r + 1, gone)
<1>0. r \in Nat /\ gone \subseteq 1..r /\ hash \in CutHash..r /\ Reaches(hash, r, gone)
  BY DEF Before
<1>1. line \in LineType
  BY DEF New, Damaged
<1>2. line.hash \in Int /\ line.prev \in Int
  BY <1>1 DEF LineType, NoHash
<1>3. CASE Damaged(line, r)
  <2>1. Made(line, r + 1)
    BY <1>0, <1>1, <1>2, <1>3 DEF Made, Damaged, NoHash, CutHash
  <2>2. Genuine(line, gone) /\ (line.hash > 0 => line.hash > r)
    BY <1>0, <1>3 DEF Genuine, Damaged, NoHash, CutHash
  <2>3. r + 1 \in Nat /\ r <= r + 1
    BY <1>0
  <2> QED
    BY <1>0, <1>1, <2>1, <2>2, <2>3, ChainAnd
<1>4. CASE line.whole /\ line.fields = 7 /\ line.hash = r + 1 /\ line.prev = hash
  <2>1. Made(line, r + 1)
    BY <1>0, <1>1, <1>4 DEF Made, CutHash
  <2>2. Genuine(line, gone)
    <3>1. r + 1 \notin gone
      BY <1>0
    <3>2. (hash + 1)..((r + 1) - 1) = (hash + 1)..r
      BY <1>0
    <3> QED
      BY <1>0, <1>4, <3>1, <3>2 DEF Genuine, Reaches
  <2>3. r + 1 \in Nat /\ r <= r + 1 /\ line.hash > r
    BY <1>0, <1>4
  <2> QED
    BY <1>0, <1>1, <2>1, <2>2, <2>3, ChainAnd
<1> QED
  BY <1>3, <1>4 DEF New

\* A chain that nothing was added to is still one.
LEMMA ChainWaits ==
  ASSUME NEW r \in Nat, NEW gone, NEW lines, Chain(lines, r, gone)
  PROVE  Chain(lines, r + 1, gone)
<1>1. \A i \in 1..Len(lines) : lines[i].hash \in Int /\ lines[i].prev \in Int
  BY MadeLine DEF Chain
<1>2. \A i \in 1..Len(lines) : Made(lines[i], r) => Made(lines[i], r + 1)
  BY <1>1 DEF Made
<1> QED
  BY <1>2 DEF Chain

-----------------------------------------------------------------------------
(***************************************************************************)
(* What a write leaves.                                                    *)
(***************************************************************************)
\* Whatever is left of a line is the line, or damaged.
LEMMA PieceDamaged ==
  ASSUME NEW r \in Nat, MaxRecords \in Nat, MaxDay \in Nat,
         NEW line \in LineType, line.prev <= r,
         NEW piece \in Pieces, piece # "none", piece # "bare"
  PROVE  Damaged(PieceOf(line, piece), r) /\ PieceOf(line, piece).hash < 0
<1> DEFINE some == IF line.fields = 1 THEN 1 ELSE 2
<1>1. /\ Damaged([line EXCEPT !.whole = FALSE, !.hash = CutHash], r)
      /\ [line EXCEPT !.whole = FALSE, !.hash = CutHash].hash < 0
  <2> DEFINE short == [line EXCEPT !.whole = FALSE, !.hash = CutHash]
  <2>1. CutHash \in NoHash..MaxRecords /\ CutHash # NoHash /\ CutHash < 0
    BY DEF NoHash, CutHash
  <2>2. short \in LineType /\ ~short.whole /\ short.hash = CutHash /\ short.prev = line.prev
    BY <2>1 DEF LineType
  <2> HIDE DEF short
  <2> QED
    BY <2>1, <2>2 DEF Damaged, short
<1>2. /\ Damaged(Other(some, line.seq), r) /\ Damaged(Other(1, line.seq), r)
      /\ Other(some, line.seq).hash < 0 /\ Other(1, line.seq).hash < 0
  <2>1. line.seq \in Nat /\ some \in {1, 2}
    BY DEF LineType
  <2>2. 0 \in 0..MaxDay /\ NoHash \in NoHash..MaxRecords /\ NoHash <= r
    BY DEF NoHash
  <2> HIDE DEF some
  <2> QED
    BY <2>1, <2>2 DEF Damaged, Other, LineType, NoHash
<1>3. piece \in {"cut", "part", "stub"}
  BY DEF Pieces
<1> QED
  BY <1>1, <1>2, <1>3 DEF PieceOf

\* What joins a line without its end is damaged.
LEMMA JoinedDamaged ==
  ASSUME NEW r \in Nat, MaxRecords \in Nat, MaxDay \in Nat, NEW hash \in CutHash..r,
         NEW line, New(line, hash, r), NEW last \in LineType
  PROVE  Damaged(Joined(last, line), r)
<1>1. /\ line \in LineType /\ line.hash \in {NoHash, CutHash, r + 1} /\ line.prev <= r
      /\ line.fields = 7 => line.hash # NoHash
  BY DEF New, Damaged, NoHash, CutHash
<1>2. last.seq \in Nat /\ line.seq \in Nat /\ 10 * last.seq + line.seq \in Nat
  BY <1>1 DEF LineType
<1>3. 0 \in 0..MaxDay /\ NoHash \in NoHash..MaxRecords /\ NoHash <= r
  BY DEF NoHash
<1>4. CASE last.fields = 1
  <2>1. Joined(last, line) = [line EXCEPT !.whole = FALSE, !.seq = 10 * last.seq + line.seq]
    BY <1>4 DEF Joined
  <2> QED
    BY <2>1, <1>1, <1>2 DEF Damaged, LineType
<1>5. CASE last.fields # 1
  <2>1. Joined(last, line) = Other(8, last.seq)
    BY <1>5 DEF Joined
  <2> QED
    BY <2>1, <1>2, <1>3 DEF Damaged, Other, LineType
<1> QED
  BY <1>4, <1>5

\* What a line is appended to is a chain still.
LEMMA AppendedChain ==
  ASSUME MaxRecords \in Nat, MaxDay \in Nat,
         NEW r, NEW gone, NEW hash, Before(hash, r, gone),
         NEW lines, Chain(lines, r, gone),
         NEW isUnended, isUnended => lines # <<>>,
         NEW line, New(line, hash, r)
  PROVE  Chain(Appended(lines, isUnended, line), r + 1, gone) /\ Appended(lines, isUnended, line) # <<>>
<1>0. lines \in Seq(LineType) /\ Len(lines) \in Nat /\ r \in Nat /\ hash \in CutHash..r
  BY DEF Chain, Before
<1>1. CASE isUnended
  <2> DEFINE l == Len(lines)
             short == WithoutLast(lines)
             damaged == Joined(lines[l], line)
             more == Append(short, damaged)
  <2>1. l >= 1 /\ lines[l] \in LineType
    BY <1>0, <1>1, EmptySeq, ElementOfSeq
  <2>2. New(damaged, hash, r)
    <3> HIDE DEF l
    <3>1. Damaged(damaged, r)
      BY <1>0, <2>1, JoinedDamaged
    <3> QED
      BY <3>1 DEF New
  <2>3. Chain(short, r, gone) /\ Len(short) \in Nat
    <3>1. 1 \in 1..l + 1 /\ l - 1 \in 1 - 1..l
      BY <1>0, <2>1
    <3>2. Chain(short, r, gone)
      BY <1>0, <3>1, ChainPart DEF WithoutLast
    <3> QED
      BY <3>2 DEF Chain
  <2>4. Appended(lines, isUnended, line) = more
    BY <1>1 DEF Appended
  <2> HIDE DEF short, damaged
  <2>5. Grown(more, short, damaged, r + 1, gone)
    BY <2>2, <2>3, ChainGrows
  <2> HIDE DEF more
  <2>6. more # <<>>
    BY <2>3, <2>5, EmptySeq DEF Grown
  <2> QED
    BY <2>4, <2>5, <2>6 DEF Grown
<1>2. CASE ~isUnended
  <2> DEFINE more == Append(lines, line)
  <2>1. Grown(more, lines, line, r + 1, gone)
    BY ChainGrows
  <2>2. Appended(lines, isUnended, line) = more
    BY <1>2 DEF Appended
  <2> HIDE DEF more
  <2>3. more # <<>>
    BY <1>0, <2>1, EmptySeq DEF Grown
  <2> QED
    BY <2>1, <2>2, <2>3 DEF Grown
<1> QED
  BY <1>1, <1>2

\* A record: in memory whole, in the file as far as the write gets.
LEMMA RecordedStep ==
  ASSUME AuditAssumption, LogInv,
         NEW kept, Chain(kept, records, absent),
         NEW lines, Chain(lines, records, absent),
         NEW isUnended, isUnended => lines # <<>>,
         NEW failed \in {0, 1},
         writeFaults + failed = 0 => /\ ~isUnended
                                     /\ lines = kept
                                     /\ Verifies(lines)
                                     /\ GoesOn(lines, mLastHash, mSeq),
         NEW piece \in Pieces \union {"all"}, Recorded(kept, lines, isUnended, failed, piece)
  PROVE  LogInv'
<1> DEFINE line == Line(mSeq, today, mLastHash, records + 1)
           left == IF piece = "all" THEN line ELSE PieceOf(line, piece)
           k == Len(kept)
<1>0. /\ MaxRecords \in Nat /\ MaxDay \in Nat /\ MaxWriteFaults \in Nat
      /\ records \in Nat /\ mLastHash \in CutHash..records /\ mSeq \in Nat /\ today \in 0..MaxDay
      /\ writeFaults \in Nat /\ absent \subseteq 1..records /\ Reaches(mLastHash, records, absent)
      /\ Before(mLastHash, records, absent)
  BY DEF LogInv, AuditAssumption, Before
<1>1. /\ records < MaxRecords /\ records' = records + 1
      /\ mLines' = Append(kept, line)
      /\ mLastHash' = records + 1 /\ mSeq' = mSeq + 1
      /\ Written(lines, isUnended, failed, line, piece)
      /\ today' = today /\ absent' = absent
  BY DEF Recorded, Line
<1>2. /\ line \in LineType /\ New(line, mLastHash, records)
      /\ line.whole /\ line.hash = records + 1 /\ line.seq = mSeq /\ line.prev = mLastHash
  <2>1. records + 1 \in NoHash..MaxRecords /\ mLastHash \in NoHash..MaxRecords
    BY <1>0, <1>1 DEF NoHash, CutHash
  <2> QED
    BY <1>0, <2>1 DEF Line, LineType, New
<1>3. piece # "none" => New(left, mLastHash, records)
  <2>1. line.prev <= records
    BY <1>0, <1>2 DEF CutHash
  <2>2. CASE piece \in {"all", "bare"}
    BY <1>2, <2>2 DEF PieceOf
  <2>3. CASE piece \in Pieces /\ piece # "bare" /\ piece # "none"
    <3> HIDE DEF line
    <3>1. Damaged(PieceOf(line, piece), records)
      BY <1>0, <1>2, <2>1, <2>3, PieceDamaged
    <3> QED
      BY <2>3, <3>1 DEF New, Pieces
  <2> QED
    BY <2>2, <2>3
<1> HIDE DEF line, left
<1>4. /\ Chain(mLines', records + 1, absent)
      /\ Len(mLines') = k + 1 /\ mLines'[k + 1] = line
      /\ \A i \in 1..k : mLines'[i] = kept[i]
  BY <1>0, <1>1, <1>2, ChainGrows DEF Grown
<1>5. Chain(file', records + 1, absent) /\ (unended' => file' # <<>>)
  <2>1. CASE piece = "none"
    <3>1. file' = lines /\ unended' = isUnended
      BY <2>1, <1>1 DEF Written
    <3> QED
      BY <3>1, <1>0, ChainWaits
  <2>2. CASE piece # "none"
    <3>1. file' = Appended(lines, isUnended, left)
      BY <2>2, <1>1 DEF Written, left
    <3>2. New(left, mLastHash, records)
      BY <2>2, <1>3
    <3> QED
      BY <3>1, <3>2, <1>0, AppendedChain
  <2> QED
    BY <2>1, <2>2
<1>6. writeFaults' = writeFaults + failed + (IF piece = "all" THEN 0 ELSE 1) /\ writeFaults' <= MaxWriteFaults
  BY <1>1 DEF Written
<1>7. writeFaults' = 0 => ~unended' /\ file' = mLines' /\ Verifies(file') /\ GoesOn(file', mLastHash', mSeq')
  <2> SUFFICES ASSUME writeFaults' = 0
               PROVE  ~unended' /\ file' = mLines' /\ Verifies(file') /\ GoesOn(file', mLastHash', mSeq')
    OBVIOUS
  <2>1. piece = "all" /\ writeFaults + failed = 0
    BY <1>0, <1>6
  <2>2. file' = mLines' /\ ~unended'
    <3>1. file' = Appended(lines, isUnended, line) /\ ~unended'
      BY <1>1, <2>1 DEF Written, Pieces
    <3> QED
      BY <2>1, <3>1, <1>1 DEF Appended
  <2>3. k \in Nat
    BY DEF Chain
  <2>4. Verifies(mLines')
    <3>1. \A i \in 1..k : mLines'[i].whole
      BY <1>4, <2>1 DEF Verifies
    <3>2. \A i \in 2..k : Follows(mLines'[i], mLines'[i - 1])
      <4>1. \A i \in 2..k : mLines'[i] = kept[i] /\ mLines'[i - 1] = kept[i - 1]
        BY <1>4, <2>3
      <4> QED
        BY <4>1, <2>1 DEF Verifies
    <3>3. k >= 1 => Follows(mLines'[k + 1], mLines'[k])
      <4>1. k >= 1 => kept # <<>>
        BY <2>3, EmptySeq DEF Chain
      <4> QED
        BY <1>2, <1>4, <2>1, <2>3, <4>1 DEF GoesOn, Follows
    <3>4. \A i \in 2..k + 1 : i \in 2..k \/ (i = k + 1 /\ k >= 1 /\ i - 1 = k)
      BY <2>3
    <3>5. \A i \in 1..k + 1 : i \in 1..k \/ i = k + 1
      BY <2>3
    <3> QED
      BY <3>1, <3>2, <3>3, <3>4, <3>5, <1>2, <1>4 DEF Verifies
  <2>5. GoesOn(mLines', mLastHash', mSeq')
    BY <1>1, <1>2, <1>4 DEF GoesOn
  <2> QED
    BY <2>2, <2>4, <2>5
<1>8. writeFaults' \in 0..MaxWriteFaults
  BY <1>0, <1>6
<1>9. Reaches(mLastHash', records', absent') /\ absent' \subseteq 1..records'
  BY <1>0, <1>1 DEF Reaches
<1> QED
  BY <1>0, <1>1, <1>4, <1>5, <1>7, <1>8, <1>9 DEF LogInv, CutHash

-----------------------------------------------------------------------------
(***************************************************************************)
(* The steps of the log.                                                   *)
(***************************************************************************)
\* The leading lines that are too old have an end.
LEMMA LeadingBounds ==
  ASSUME LogInv
  PROVE  Leading \in 0..Len(mLines)
<1> DEFINE l == Len(mLines)
           Ends == {n \in 0..l : n < l => ~Expired(mLines[n + 1])}
           Least(n) == /\ \A i \in 1..n : Expired(mLines[i])
                       /\ n < Len(mLines) => ~Expired(mLines[n + 1])
<1>1. l \in Nat
  BY DEF LogInv, Chain
<1> HIDE DEF l
<1>2. l \in Ends /\ Ends \subseteq Nat
  BY <1>1
<1> HIDE DEF Ends
<1>3. PICK n \in Ends : \A m \in Ends : n <= m
  <2> DEFINE Less == OpToRel(<, Nat)
  <2>1. IsWellFoundedOn(Less, Nat)
    BY NatLessThanWellFounded
  <2> HIDE DEF Less
  <2>2. PICK n \in Ends : \A m \in Ends : ~ (<<m, n>> \in Less)
    BY <1>2, <2>1, WFMin
  <2>3. \A m \in Ends : ~(m < n)
    BY <1>2, <2>2 DEF Less, OpToRel
  <2> QED
    BY <1>2, <2>3
<1>4. n \in 0..Len(mLines) /\ Least(n)
  <2>1. n \in 0..l /\ (n < l => ~Expired(mLines[n + 1]))
    BY DEF Ends
  <2>2. \A i \in 1..n : Expired(mLines[i])
    <3> SUFFICES ASSUME NEW i \in 1..n, ~Expired(mLines[i])
                 PROVE  FALSE
      OBVIOUS
    <3>1. i - 1 \in 0..l /\ i - 1 + 1 = i
      BY <1>1, <2>1
    <3>2. i - 1 \in Ends
      BY <3>1 DEF Ends
    <3> QED
      BY <1>1, <1>3, <2>1, <3>2
  <2> QED
    BY <2>1, <2>2 DEF l
<1> QED
  BY <1>4 DEF Leading

\* What a purge keeps is the end of a chain.
LEMMA KeptChain ==
  ASSUME LogInv
  PROVE  /\ Chain(Kept, records, absent)
         /\ Len(Kept) = Len(mLines) - Leading
         /\ \A i \in 1..Len(mLines) - Leading : Kept[i] = mLines[Leading + i]
<1> DEFINE l == Len(mLines)
           n == Leading
<1>1. l \in Nat /\ n \in 0..l /\ records \in Nat /\ Chain(mLines, records, absent)
  BY LeadingBounds DEF LogInv, Chain
<1>2. n + 1 \in 1..l + 1 /\ l \in (n + 1) - 1..l /\ l - (n + 1) + 1 = l - n
  BY <1>1
<1>3. \A i \in 1..l - n : n + 1 + i - 1 = n + i /\ n + i \in 1..l
  BY <1>1
<1>4. /\ Chain(Kept, records, absent) /\ Len(Kept) = l - (n + 1) + 1
      /\ \A i \in 1..l - (n + 1) + 1 : Kept[i] = mLines[n + 1 + i - 1]
  <2>1. Kept = SubSeq(mLines, n + 1, l)
    BY DEF Kept
  <2>2. n + 1 \in 1..Len(mLines) + 1 /\ l \in (n + 1) - 1..Len(mLines)
    BY <1>2
  <2> HIDE DEF l, n
  <2>3. /\ Chain(SubSeq(mLines, n + 1, l), records, absent)
        /\ Len(SubSeq(mLines, n + 1, l)) = l - (n + 1) + 1
        /\ \A i \in 1..l - (n + 1) + 1 : SubSeq(mLines, n + 1, l)[i] = mLines[n + 1 + i - 1]
    BY <1>1, <2>2, ChainPart
  <2> QED
    BY <2>1, <2>3
<1> HIDE DEF l, n
<1>5. Len(Kept) = l - n /\ \A i \in 1..l - n : Kept[i] = mLines[n + i]
  BY <1>2, <1>3, <1>4
<1> QED
  BY <1>4, <1>5 DEF l, n

\* So is what a rewrite leaves that is cut short.
LEMMA CutShortChain ==
  ASSUME AuditAssumption, LogInv, NEW n \in 0..Len(Kept), NEW rest \in Pieces,
         rest # "none" => n < Len(Kept)
  PROVE  /\ Chain(CutShort(n, rest), records, absent)
         /\ rest # "none" => CutShort(n, rest) # <<>>
<1> DEFINE part == SubSeq(Kept, 1, n)
           k == Len(Kept)
           piece == PieceOf(Kept[n + 1], rest)
<1>0. MaxRecords \in Nat /\ MaxDay \in Nat /\ records \in Nat
  BY DEF LogInv, AuditAssumption
<1>1. Chain(Kept, records, absent) /\ Kept \in Seq(LineType) /\ k \in Nat
  BY KeptChain DEF Chain
<1>2. Chain(part, records, absent) /\ part \in Seq(LineType) /\ Len(part) = n
  <2>1. 1 \in 1..k + 1 /\ n \in 1 - 1..k /\ n - 1 + 1 = n
    BY <1>1
  <2>2. Chain(part, records, absent) /\ Len(part) = n - 1 + 1
    BY <1>0, <1>1, <2>1, ChainPart
  <2> QED
    BY <2>1, <2>2 DEF Chain
<1>3. CASE rest = "none"
  <2>1. CutShort(n, rest) = part \o <<>>
    BY <1>3 DEF CutShort
  <2> HIDE DEF part
  <2> QED
    BY <2>1, <1>2, <1>3, ConcatEmptySeq
<1>4. CASE rest # "none"
  <2>1. n + 1 \in 1..k
    BY <1>1, <1>4
  <2>2. Kept[n + 1] \in LineType /\ Made(Kept[n + 1], records) /\ Genuine(Kept[n + 1], absent)
    BY <1>1, <2>1 DEF Chain, Made
  <2>3. /\ Chain(Append(part, piece), records, absent) /\ piece \in LineType
        /\ Len(Append(part, piece)) = n + 1
    <3>1. CASE rest = "bare"
      <4>1. piece = Kept[n + 1]
        BY <3>1 DEF PieceOf
      <4>2. 1 \in 1..k + 1 /\ n + 1 \in 1 - 1..k /\ n + 1 - 1 + 1 = n + 1 /\ n \in Nat
        BY <1>1, <2>1
      <4>3. /\ Chain(SubSeq(Kept, 1, n + 1), records, absent) /\ Len(SubSeq(Kept, 1, n + 1)) = n + 1 - 1 + 1
            /\ \A i \in 1..n + 1 - 1 + 1 : SubSeq(Kept, 1, n + 1)[i] = Kept[1 + i - 1]
        BY <1>0, <1>1, <4>2, ChainPart
      <4>4. \A i \in 1..n - 1 + 1 : part[i] = Kept[1 + i - 1]
        <5>1. n \in 1 - 1..k
          BY <1>1
        <5> QED
          BY <1>0, <1>1, <4>2, <5>1, ChainPart
      <4> DEFINE whole == SubSeq(Kept, 1, n + 1)
      <4> HIDE DEF whole, part, piece
      <4>5. whole = Append(part, piece)
        <5>1. /\ Append(part, piece) \in Seq(LineType) /\ Len(Append(part, piece)) = n + 1
              /\ \A i \in 1..n : Append(part, piece)[i] = part[i]
              /\ Append(part, piece)[n + 1] = piece
          BY <1>2, <2>2, <4>1, AppendProperties
        <5>2. whole \in Seq(LineType) /\ Len(whole) = n + 1 /\ \A i \in 1..n + 1 : whole[i] = Kept[i]
          <6>1. \A i \in 1..n + 1 : 1 + i - 1 = i /\ i \in 1..n + 1 - 1 + 1
            BY <4>2
          <6> QED
            BY <4>2, <4>3, <6>1 DEF whole, Chain
        <5>3. \A i \in 1..n : part[i] = Kept[i]
          <6>1. \A i \in 1..n : 1 + i - 1 = i /\ i \in 1..n - 1 + 1
            BY <4>2
          <6> QED
            BY <4>4, <6>1
        <5>4. \A i \in 1..n + 1 : i \in 1..n \/ i = n + 1
          BY <4>2
        <5>5. \A i \in 1..n + 1 : whole[i] = Append(part, piece)[i]
          BY <4>1, <5>1, <5>2, <5>3, <5>4
        <5> QED
          BY <5>1, <5>2, <5>5, SeqEqual
      <4> QED
        BY <2>2, <4>1, <4>2, <4>3, <4>5 DEF whole
    <3>2. CASE rest # "bare"
      <4>1. Damaged(piece, records) /\ piece.hash < 0
        BY <1>0, <1>4, <2>2, <3>2, PieceDamaged DEF Made
      <4> HIDE DEF piece, part
      <4>2. piece \in LineType /\ piece.hash \in Int
        BY <4>1 DEF Damaged, LineType, NoHash
      <4>3. Made(piece, records) /\ Genuine(piece, absent)
        BY <1>0, <4>1, <4>2 DEF Made, Genuine, Damaged, NoHash, CutHash
      <4>4. ~(piece.hash > 0) /\ records <= records
        BY <1>0, <4>1, <4>2
      <4> QED
        BY <1>0, <1>2, <4>2, <4>3, <4>4, ChainAnd DEF Grown
    <3> QED
      BY <3>1, <3>2
  <2>4. CutShort(n, rest) = part \o <<piece>>
    BY <1>4 DEF CutShort
  <2> HIDE DEF part, piece
  <2>5. CutShort(n, rest) = Append(part, piece)
    BY <1>2, <2>3, <2>4
  <2> QED
    BY <2>3, <2>5, <2>1, EmptySeq
<1> QED
  BY <1>3, <1>4

\* Record and Purge.
LEMMA AuditStepInv ==
  ASSUME AuditAssumption, LogInv, AuditStep
  PROVE  LogInv'
<1>1. PICK piece \in Pieces \union {"all"} : Record(piece) \/ Purge(piece)
  BY DEF AuditStep
<1>2. writeFaults \in Nat /\ 0 \in {0, 1} /\ 1 \in {0, 1}
  BY DEF LogInv
<1>3. CASE Record(piece)
  <2>1. Recorded(mLines, file, unended, 0, piece)
    BY <1>3 DEF Record
  <2>2. /\ Chain(mLines, records, absent) /\ Chain(file, records, absent)
        /\ unended => file # <<>>
        /\ writeFaults + 0 = 0 => /\ ~unended
                                  /\ file = mLines
                                  /\ Verifies(file)
                                  /\ GoesOn(file, mLastHash, mSeq)
    BY <1>2 DEF LogInv
  <2> QED
    BY <1>2, <2>1, <2>2, RecordedStep
<1>4. CASE Recorded(Kept, Kept, FALSE, 0, piece)
  <2>1. Chain(Kept, records, absent)
    BY KeptChain
  <2>2. writeFaults + 0 = 0 => Verifies(Kept) /\ GoesOn(Kept, mLastHash, mSeq)
    <3> SUFFICES ASSUME writeFaults = 0
                 PROVE  Verifies(Kept) /\ GoesOn(Kept, mLastHash, mSeq)
      BY <1>2
    <3> DEFINE l == Len(mLines)
               n == Leading
    <3>1. l \in Nat /\ n \in 0..l /\ Verifies(mLines) /\ GoesOn(mLines, mLastHash, mSeq)
      BY LeadingBounds DEF LogInv, Chain
    <3>2. /\ Kept \in Seq(LineType) /\ Len(Kept) = l - n
          /\ \A i \in 1..l - n : Kept[i] = mLines[n + i]
      BY KeptChain DEF Chain
    <3>3. /\ \A i \in 1..l : mLines[i].whole
          /\ \A i \in 2..l : Follows(mLines[i], mLines[i - 1])
      BY <3>1 DEF Verifies
    <3>4. Kept # <<>> => l - n >= 1 /\ mLines # <<>> /\ Kept[l - n] = mLines[l]
      <4> SUFFICES ASSUME Kept # <<>>
                   PROVE  l - n >= 1 /\ mLines # <<>> /\ Kept[l - n] = mLines[l]
        OBVIOUS
      <4>1. Len(Kept) # 0 /\ Len(<<>>) = 0
        BY <3>2, EmptySeq
      <4>2. l - n >= 1 /\ n + (l - n) = l /\ l # 0
        BY <3>1, <3>2, <4>1
      <4> QED
        BY <3>1, <3>2, <4>1, <4>2
    <3> HIDE DEF l, n
    <3>5. \A i \in 2..l - n : n + (i - 1) = (n + i) - 1 /\ n + i \in 2..l /\ i - 1 \in 1..l - n /\ i \in 1..l - n
      BY <3>1
    <3>6. \A i \in 1..l - n : n + i \in 1..l
      BY <3>1
    <3>7. \A i \in 2..l - n : Follows(Kept[i], Kept[i - 1])
      <4> SUFFICES ASSUME NEW i \in 2..l - n
                   PROVE  Follows(Kept[i], Kept[i - 1])
        OBVIOUS
      <4>1. PICK x \in 2..l : x = n + i /\ x - 1 = n + (i - 1)
        BY <3>5
      <4>2. Kept[i] = mLines[x] /\ Kept[i - 1] = mLines[x - 1]
        BY <3>2, <3>5, <4>1
      <4> QED
        BY <4>2, <3>3
    <3>8. Verifies(Kept)
      BY <3>2, <3>3, <3>6, <3>7 DEF Verifies
    <3>9. GoesOn(Kept, mLastHash, mSeq)
      BY <3>1, <3>2, <3>4 DEF GoesOn, l
    <3> QED
      BY <3>8, <3>9
  <2> QED
    BY <1>2, <1>4, <2>1, <2>2, RecordedStep
<1>5. CASE Recorded(Kept, file, unended, 1, piece)
  <2>1. Chain(Kept, records, absent) /\ Chain(file, records, absent) /\ (unended => file # <<>>)
    BY KeptChain DEF LogInv
  <2>2. writeFaults + 1 # 0
    BY <1>2
  <2> QED
    BY <1>2, <1>5, <2>1, <2>2, RecordedStep
<1>6. CASE \E n \in 0..Len(Kept) - 1, rest \in Pieces :
             Recorded(Kept, CutShort(n, rest), rest # "none", 1, piece)
  <2>1. PICK n \in 0..Len(Kept) - 1, rest \in Pieces :
          Recorded(Kept, CutShort(n, rest), rest # "none", 1, piece)
    BY <1>6
  <2>2. Chain(Kept, records, absent) /\ Len(Kept) \in Nat
    BY KeptChain DEF Chain
  <2>3. n \in 0..Len(Kept) /\ n < Len(Kept)
    BY <2>2
  <2>4. /\ Chain(CutShort(n, rest), records, absent)
        /\ rest # "none" => CutShort(n, rest) # <<>>
    BY <2>3, CutShortChain
  <2>5. writeFaults + 1 # 0
    BY <1>2
  <2> DEFINE lines == CutShort(n, rest)
             isUnended == rest # "none"
  <2> HIDE DEF lines
  <2>6. Recorded(Kept, lines, isUnended, 1, piece)
    BY <2>1 DEF lines
  <2>7. Chain(lines, records, absent) /\ (isUnended => lines # <<>>)
    BY <2>4 DEF lines
  <2> HIDE DEF isUnended
  <2> QED
    BY <1>2, <2>2, <2>5, <2>6, <2>7, RecordedStep
<1> QED
  BY <1>1, <1>3, <1>4, <1>5, <1>6 DEF Purge

\* The next record after what is read back passes over what was not found.
LEMMA ReadBackInv ==
  ASSUME NEW lines, NEW r \in Nat, NEW gone, gone \subseteq 1..r, Chain(lines, r, gone)
  PROVE  LET hash == IF Continues(lines) THEN lines[Len(lines)].hash ELSE Genesis
             seq == IF Continues(lines) THEN NextSeq(lines[Len(lines)]) ELSE 0
             lost == (1..r) \ Found(lines)
         IN  /\ Chain(lines, r, lost) /\ Reaches(hash, r, lost)
             /\ hash \in CutHash..r /\ seq \in Nat
             /\ Verifies(lines) => GoesOn(lines, hash, seq)
<1> DEFINE l == Len(lines)
           last == lines[l]
           hash == IF Continues(lines) THEN last.hash ELSE Genesis
           seq == IF Continues(lines) THEN NextSeq(last) ELSE 0
           lost == (1..r) \ Found(lines)
<1>1. /\ lines \in Seq(LineType) /\ l \in Nat /\ Rising(lines)
      /\ \A i \in 1..l : Made(lines[i], r) /\ Genuine(lines[i], gone)
  BY DEF Chain
<1>2. lines # <<>> => l \in 1..l
  BY <1>1, EmptySeq
<1>3. \A x : x \in Found(lines) <=> \E i \in 1..l : lines[i].whole /\ x = lines[i].hash
  BY DEF Found
<1>4. \A x \in gone : x \in lost
  <2> SUFFICES ASSUME NEW x \in gone, x \in Found(lines)
               PROVE  FALSE
    OBVIOUS
  <2>1. PICK i \in 1..l : lines[i].whole /\ x = lines[i].hash
    BY <1>3
  <2>2. Genuine(lines[i], gone)
    BY <1>1
  <2> HIDE DEF l
  <2> QED
    BY <2>1, <2>2 DEF Genuine
<1>5. Chain(lines, r, lost)
  <2>1. \A i \in 1..l : Genuine(lines[i], lost)
    <3> SUFFICES ASSUME NEW i \in 1..l, lines[i].whole
                 PROVE  /\ lines[i].hash \notin lost
                        /\ lines[i].prev > 0 => (lines[i].prev + 1)..(lines[i].hash - 1) \subseteq lost
      BY DEF Genuine
    <3>1. lines[i].hash \notin lost
      BY <1>3
    <3> HIDE DEF lost
    <3> QED
      BY <1>1, <1>4, <3>1 DEF Genuine
  <2> HIDE DEF lost
  <2> QED
    BY <1>1, <2>1 DEF Chain
<1>6. CASE Continues(lines)
  <2>1. lines # <<>> /\ last.fields = 7 /\ hash = last.hash /\ seq = last.seq + 1
    <3>1. lines # <<>> /\ last.fields = 7
      BY <1>6 DEF Continues
    <3>2. hash = last.hash /\ seq = NextSeq(last)
      BY <1>6
    <3> QED
      BY <3>1, <3>2 DEF NextSeq
  <2>2. Made(last, r)
    BY <1>1, <1>2, <2>1
  <2>3. hash \in CutHash..r /\ seq \in Nat
    BY <2>1, <2>2 DEF Made, LineType, NoHash, CutHash
  <2>4. Reaches(hash, r, lost)
    <3> SUFFICES ASSUME hash > 0, NEW x \in (hash + 1)..r, x \in Found(lines)
                 PROVE  FALSE
      BY <2>3 DEF Reaches
    <3>1. PICK i \in 1..l : lines[i].whole /\ x = lines[i].hash
      BY <1>3
    <3>2. i # l
      BY <2>1, <2>3, <3>1
    <3>3. i < l /\ l \in 1..l
      BY <1>1, <3>2
    <3>4. lines[i].hash < last.hash
      BY <1>1, <2>1, <3>1, <3>3 DEF Rising
    <3> QED
      BY <2>1, <2>3, <3>1, <3>4
  <2> HIDE DEF last, hash, seq, lost
  <2>5. Verifies(lines) => GoesOn(lines, hash, seq)
    BY <2>1 DEF GoesOn, last
  <2> QED
    BY <2>3, <2>4, <2>5, <1>5 DEF last, hash, seq, lost
<1>7. CASE ~Continues(lines)
  <2>1. hash = 0 /\ seq = 0
    BY <1>7 DEF Genesis
  <2>2. Reaches(hash, r, lost)
    BY <2>1 DEF Reaches
  <2>3. Verifies(lines) => lines = <<>>
    BY <1>1, <1>2, <1>7 DEF Verifies, Continues, Made
  <2> HIDE DEF last, hash, seq, lost
  <2>4. hash \in CutHash..r /\ seq \in Nat /\ (Verifies(lines) => GoesOn(lines, hash, seq))
    BY <2>1, <2>3 DEF GoesOn, CutHash
  <2> QED
    BY <2>2, <2>4, <1>5 DEF last, hash, seq, lost
<1> QED
  BY <1>6, <1>7

\* The process ends, and reads its file back.
LEMMA AuditRestartInv ==
  ASSUME AuditAssumption, LogInv, AuditRestart
  PROVE  LogInv'
<1>1. /\ mLines' = file /\ file' = file
      /\ mLastHash' = IF Continues(file) THEN file[Len(file)].hash ELSE Genesis
      /\ mSeq' = IF Continues(file) THEN NextSeq(file[Len(file)]) ELSE 0
      /\ absent' = (1..records) \ Found(file)
      /\ UNCHANGED <<unended, records, today, writeFaults>>
  BY DEF AuditRestart, ReadBack
<1>2. Chain(file, records, absent) /\ records \in Nat /\ absent \subseteq 1..records
  BY DEF LogInv
<1>3. /\ Chain(file, records, absent') /\ Reaches(mLastHash', records, absent')
      /\ mLastHash' \in CutHash..records /\ mSeq' \in Nat
      /\ Verifies(file) => GoesOn(file, mLastHash', mSeq')
  BY <1>1, <1>2, ReadBackInv
<1>4. absent' \subseteq 1..records
  BY <1>1
<1> QED
  BY <1>1, <1>2, <1>3, <1>4 DEF LogInv

\* The process ends while a purge writes.
LEMMA PurgeCutInv ==
  ASSUME AuditAssumption, LogInv, NEW n \in Nat, NEW rest \in Pieces, PurgeCut(n, rest)
  PROVE  LogInv'
<1>0. /\ MaxWriteFaults \in Nat /\ records \in Nat /\ absent \subseteq 1..records /\ writeFaults \in Nat
  BY DEF LogInv, AuditAssumption
<1>1. /\ n \in 0..Len(Kept) /\ (rest # "none" => n < Len(Kept))
      /\ writeFaults < MaxWriteFaults /\ writeFaults' = writeFaults + 1
      /\ file' = CutShort(n, rest) /\ unended' = (rest # "none")
      /\ ReadBack(file')
      /\ records' = records /\ today' = today
  BY DEF PurgeCut
<1>2. Chain(file', records, absent) /\ (unended' => file' # <<>>)
  BY <1>1, CutShortChain
<1>3. /\ mLines' = file'
      /\ mLastHash' = IF Continues(file') THEN file'[Len(file')].hash ELSE Genesis
      /\ mSeq' = IF Continues(file') THEN NextSeq(file'[Len(file')]) ELSE 0
      /\ absent' = (1..records) \ Found(file')
  BY <1>1 DEF ReadBack
<1>4. /\ Chain(file', records, absent') /\ Reaches(mLastHash', records, absent')
      /\ mLastHash' \in CutHash..records /\ mSeq' \in Nat
  BY <1>0, <1>2, <1>3, ReadBackInv
<1>5. writeFaults' # 0 /\ writeFaults' \in 0..MaxWriteFaults /\ absent' \subseteq 1..records
  BY <1>0, <1>1, <1>3
<1> QED
  BY <1>1, <1>2, <1>3, <1>4, <1>5 DEF LogInv

\* Nothing but the time.
LEMMA LogWaits ==
  ASSUME LogInv, UNCHANGED <<mLines, mLastHash, mSeq, file, unended, records, writeFaults, absent>>,
         today' \in 0..MaxDay
  PROVE  LogInv'
BY DEF LogInv

\* In a file that verifies each line follows the one before it, and passes over
\* nothing but what is gone.
LEMMA VerifiedGaps ==
  ASSUME LogInv
  PROVE  GapsShow
<1> SUFFICES ASSUME Verifies(file), NEW i \in 1..Len(file) - 1
             PROVE  /\ file[i].hash < file[i + 1].hash
                    /\ (file[i].hash + 1)..(file[i + 1].hash - 1) \subseteq absent
  BY DEF GapsShow
<1>1. Chain(file, records, absent) /\ Len(file) \in Nat
  BY DEF LogInv, Chain
<1>2. PICK j \in 2..Len(file) : j = i + 1 /\ j - 1 = i
  BY <1>1
<1>3. i \in 1..Len(file) /\ j \in 1..Len(file)
  BY <1>1, <1>2
<1>4. file[i].whole /\ file[j].whole /\ Follows(file[j], file[j - 1])
  BY <1>2, <1>3 DEF Verifies
<1>5. Made(file[i], records) /\ Made(file[j], records) /\ Genuine(file[j], absent)
  BY <1>1, <1>3 DEF Chain
<1>6. file[j].prev = file[i].hash /\ file[i].hash >= 1 /\ file[j].prev < file[j].hash
  BY <1>2, <1>4, <1>5 DEF Made, Follows
<1>7. (file[j].prev + 1)..(file[j].hash - 1) \subseteq absent
  BY <1>4, <1>5, <1>6, MadeLine DEF Genuine
<1> QED
  BY <1>2, <1>6, <1>7

\* What the invariant of the log says to those who use it.
LEMMA LogInvImplies ==
  ASSUME AuditAssumption, LogInv
  PROVE  LogHonest
<1>1. AuditTypeOK
  <2>1. \A i \in 1..Len(mLines) : mLines[i] \in LineType
    BY ElementOfSeq DEF LogInv, Chain
  <2>2. \A i \in 1..Len(file) : file[i] \in LineType
    BY ElementOfSeq DEF LogInv, Chain
  <2>3. mLastHash \in CutHash..MaxRecords
    BY DEF LogInv, AuditAssumption, CutHash
  <2> QED
    BY <2>1, <2>2, <2>3 DEF LogInv, AuditTypeOK
<1>2. ChainVerifies
  BY DEF LogInv, ChainVerifies
<1> QED
  BY <1>1, <1>2, VerifiedGaps DEF LogHonest

-----------------------------------------------------------------------------
(***************************************************************************)
(* The invariant of what is kept of the races.                             *)
(***************************************************************************)
Runs == [who : Pairs \union {Group, Solo}, ms : Times, at : Nat]

LinesOf(n) == {R(n), S(n, 1), S(n, 2)}

Duties == {<<"replay">>, <<"table">>, <<"prune">>}

Items == (UNION {LinesOf(n) : n \in Nat}) \union Duties

\* What is written when k things are left to write of a race.
ItemAt(n, k) ==
  CASE k = 6 -> R(n) [] k = 5 -> S(n, 1) [] k = 4 -> S(n, 2)
    [] k = 3 -> <<"replay">> [] k = 2 -> <<"table">> [] OTHER -> <<"prune">>

Left == Len(todo)

\* The races are in the order of their seconds, and what is left to write is of
\* the last one, in this second.
RacesInv ==
  /\ races \in Seq(Runs) /\ Len(races) <= MaxRaces
  /\ second \in 0..MaxSecond /\ faults \in 0..MaxFaults
  /\ \A i \in 1..Len(races) : races[i].at <= second
  /\ \A i, j \in 1..Len(races) : i <= j => races[i].at <= races[j].at
  /\ todo \in Seq(Items) /\ Left \in 0..6
  /\ \A i \in 1..Left : todo[i] = ItemAt(Len(races), Left + 1 - i)
  /\ Left # 0 => Len(races) > 0 /\ races[Len(races)].at = second

\* The lines that are about to be written; those the file has or may get; and those
\* that it has not besides.
Pending == {ItemAt(Len(races), k) : k \in 4..Left}

Sure == league \union Pending

Booked == Sure \union missed

\* The races of a pair on a day, by these lines.
Wins(rs, lines, k) ==
  {n \in 1..Len(rs) : R(n) \in lines /\ rs[n].who \in Pairs /\ <<rs[n].who, Day(rs[n].at)>> = k}

\* The memory has all that is written or about to be, and nothing besides but what
\* could not be written; and a race has its R line appended before its rows.
LeagueInv ==
  /\ league \union missed \subseteq UNION {LinesOf(n) : n \in 1..Len(races)}
  /\ torn \subseteq league \union {Half}
  /\ mDuels \in [Pairs \X Days -> 0..DuelsPerDay]
  /\ \A k \in Pairs \X Days :
       /\ Cardinality(Wins(races, Sure, k)) <= mDuels[k]
       /\ mDuels[k] <= Cardinality(Wins(races, Booked, k))
  /\ RowsIn(Sure) \subseteq mRows /\ mRows \subseteq RowsIn(Booked)
  /\ \A n \in 1..Len(races) : S(n, 1) \in league => R(n) \in league \union missed
  /\ Left = 5 => R(Len(races)) \in league \union missed

\* The oldest replay that is kept of n.
First(n) == IF n < Keep THEN 1 ELSE n - Keep + 1

\* The index holds what the directory holds; nothing in it is being written. While
\* nothing fails the directory holds the newest replays, and between a replay and
\* the prune after it one more.
StoreInv ==
  /\ DOMAIN dir \subseteq 1..Len(races)
  /\ \A n \in DOMAIN dir : dir[n] \in EntryType /\ dir[n].at = races[n].at
  /\ Left >= 3 => Len(races) \notin DOMAIN dir
  /\ \A n \in DOMAIN mItems :
       /\ n \in DOMAIN dir /\ dir[n].whole /\ mItems[n].table = dir[n].table
       /\ Left = 2 => n # Len(races)
  /\ faults = 0 =>
       /\ DOMAIN dir = First(IF Left = 0 THEN Len(races) ELSE Len(races) - 1)
                         ..(IF Left >= 3 THEN Len(races) - 1 ELSE Len(races))
       /\ \A n \in DOMAIN dir : dir[n].whole /\ (dir[n].table \/ (Left = 2 /\ n = Len(races)))

FilesInv == RacesInv /\ LeagueInv /\ StoreInv

-----------------------------------------------------------------------------
(***************************************************************************)
(* What is left to write.                                                  *)
(***************************************************************************)
\* What there is to write.
LEMMA ItemsHold ==
  /\ \A n \in Nat : R(n) \in Items /\ S(n, 1) \in Items /\ S(n, 2) \in Items
  /\ <<"replay">> \in Items /\ <<"table">> \in Items /\ <<"prune">> \in Items
<1>1. ASSUME NEW n \in Nat
      PROVE  R(n) \in Items /\ S(n, 1) \in Items /\ S(n, 2) \in Items
  <2>1. R(n) \in LinesOf(n) /\ S(n, 1) \in LinesOf(n) /\ S(n, 2) \in LinesOf(n)
    BY DEF LinesOf
  <2>2. LinesOf(n) \subseteq Items
    BY DEF Items
  <2> QED
    BY <2>1, <2>2
<1>2. <<"replay">> \in Items /\ <<"table">> \in Items /\ <<"prune">> \in Items
  <2>1. <<"replay">> \in Duties /\ <<"table">> \in Duties /\ <<"prune">> \in Duties
    BY DEF Duties
  <2>2. Duties \subseteq Items
    BY DEF Items
  <2> QED
    BY <2>1, <2>2
<1> QED
  BY <1>1, <1>2

\* What each of the things to write is.
LEMMA ItemKinds ==
  ASSUME NEW n \in Nat
  PROVE  /\ ItemAt(n, 6) = R(n) /\ ItemAt(n, 5) = S(n, 1) /\ ItemAt(n, 4) = S(n, 2)
         /\ ItemAt(n, 3) = <<"replay">> /\ ItemAt(n, 2) = <<"table">> /\ ItemAt(n, 1) = <<"prune">>
         /\ R(n)[1] = "R" /\ S(n, 1)[1] = "S" /\ S(n, 2)[1] = "S"
         /\ \A k \in 1..6 : ItemAt(n, k) \in Items
<1>1. /\ ItemAt(n, 6) = R(n) /\ ItemAt(n, 5) = S(n, 1) /\ ItemAt(n, 4) = S(n, 2)
      /\ ItemAt(n, 3) = <<"replay">> /\ ItemAt(n, 2) = <<"table">> /\ ItemAt(n, 1) = <<"prune">>
  BY DEF ItemAt
<1>2. R(n)[1] = "R" /\ S(n, 1)[1] = "S" /\ S(n, 2)[1] = "S"
  BY DEF R, S
<1>3. \A k \in 1..6 : ItemAt(n, k) \in Items
  <2>1. \A k \in 1..6 : k = 1 \/ k = 2 \/ k = 3 \/ k = 4 \/ k = 5 \/ k = 6
    OBVIOUS
  <2>2. /\ R(n) \in Items /\ S(n, 1) \in Items /\ S(n, 2) \in Items
        /\ ItemAt(n, 3) \in Items /\ ItemAt(n, 2) \in Items /\ ItemAt(n, 1) \in Items
    BY <1>1, ItemsHold
  <2> QED
    BY <1>1, <2>1, <2>2
<1> QED
  BY <1>1, <1>2, <1>3

\* Three things in a row.
LEMMA Three ==
  ASSUME NEW T, NEW a \in T, NEW b \in T, NEW c \in T
  PROVE  /\ <<a, b, c>> \in Seq(T) /\ Len(<<a, b, c>>) = 3
         /\ <<a, b, c>>[1] = a /\ <<a, b, c>>[2] = b /\ <<a, b, c>>[3] = c
OBVIOUS

\* The first thing left to write, and what is left after it.
LEMMA NextItem ==
  ASSUME RacesInv, todo # <<>>
  PROVE  /\ Left \in 1..6 /\ Len(races) \in Nat
         /\ Head(todo) = ItemAt(Len(races), Left)
         /\ Tail(todo) \in Seq(Items) /\ Len(Tail(todo)) = Left - 1
         /\ \A i \in 1..Left - 1 : Tail(todo)[i] = ItemAt(Len(races), (Left - 1) + 1 - i)
<1>1. todo \in Seq(Items) /\ Left \in 0..6 /\ Left # 0 /\ Len(races) \in Nat
  BY EmptySeq DEF RacesInv, Left
<1>2. /\ Tail(todo) \in Seq(Items) /\ Len(Tail(todo)) = Left - 1
      /\ \A i \in 1..Len(Tail(todo)) : Tail(todo)[i] = todo[i + 1]
  BY <1>1, HeadTailProperties DEF Left
<1>3. Head(todo) = todo[1]
  BY <1>1
<1>4. \A i \in 1..Left : todo[i] = ItemAt(Len(races), Left + 1 - i)
  BY DEF RacesInv
<1>5. Left + 1 - 1 = Left /\ 1 \in 1..Left
  BY <1>1
<1>6. \A i \in 1..Left - 1 : i + 1 \in 1..Left /\ Left + 1 - (i + 1) = (Left - 1) + 1 - i
  BY <1>1
<1>7. Head(todo) = ItemAt(Len(races), Left)
  BY <1>3, <1>4, <1>5
<1>8. \A i \in 1..Left - 1 : Tail(todo)[i] = ItemAt(Len(races), (Left - 1) + 1 - i)
  <2> SUFFICES ASSUME NEW i \in 1..Left - 1
               PROVE  Tail(todo)[i] = ItemAt(Len(races), (Left - 1) + 1 - i)
    OBVIOUS
  <2>1. Tail(todo)[i] = todo[i + 1] /\ i + 1 \in 1..Left
    BY <1>2, <1>6
  <2>2. todo[i + 1] = ItemAt(Len(races), Left + 1 - (i + 1))
    BY <1>4, <2>1
  <2> QED
    BY <1>6, <2>1, <2>2
<1> QED
  BY <1>1, <1>2, <1>7, <1>8

\* A Write, by what is left.
LEMMA WriteCases ==
  ASSUME RacesInv, Write
  PROVE  /\ Left \in 1..6 /\ Len(races) \in Nat /\ Left' = Left - 1
         /\ UNCHANGED <<races, mDuels, mRows, second>> /\ faults' <= MaxFaults
         /\ Left \in 4..6 => \E piece \in LinePieces \union {"all"} :
                                /\ LineAppended(ItemAt(Len(races), Left), piece)
                                /\ faults' = IF piece = "all" THEN faults ELSE faults + 1
                                /\ UNCHANGED <<dir, mItems>>
         /\ Left = 3 => WriteReplay
         /\ Left = 2 => WriteTable
         /\ Left = 1 => (\E stuck \in SUBSET DOMAIN dir : Prune(stuck)) /\ UNCHANGED <<league, torn, missed>>
<1>1. todo # <<>> /\ todo' = Tail(todo) /\ UNCHANGED <<races, mDuels, mRows, second>> /\ faults' <= MaxFaults
  BY DEF Write
<1>2. /\ Left \in 1..6 /\ Len(races) \in Nat /\ Left' = Left - 1
      /\ Head(todo) = ItemAt(Len(races), Left)
  BY <1>1, NextItem DEF Left
<1>3. CASE Left \in 4..6
  <2>1. Left = 4 \/ Left = 5 \/ Left = 6
    BY <1>3
  <2>2. Head(todo)[1] \in {"R", "S"}
    BY <1>2, <2>1, ItemKinds
  <2>3. Head(todo)[1] # "replay" /\ Head(todo)[1] # "table" /\ Head(todo)[1] # "prune"
    BY <2>2
  <2>4. Left # 3 /\ Left # 2 /\ Left # 1
    BY <2>1
  <2>5. \E piece \in LinePieces \union {"all"} : AppendNext(piece)
    BY <2>3 DEF Write
  <2> QED
    BY <1>1, <1>2, <2>4, <2>5 DEF AppendNext
<1>4. CASE Left = 3
  <2>1. Head(todo)[1] = "replay"
    BY <1>2, <1>4, ItemKinds
  <2> QED
    BY <1>1, <1>2, <1>4, <2>1 DEF Write
<1>5. CASE Left = 2
  <2>1. Head(todo)[1] = "table"
    BY <1>2, <1>5, ItemKinds
  <2> QED
    BY <1>1, <1>2, <1>5, <2>1 DEF Write
<1>6. CASE Left = 1
  <2>1. Head(todo)[1] = "prune"
    BY <1>2, <1>6, ItemKinds
  <2> QED
    BY <1>1, <1>2, <1>6, <2>1 DEF Write
<1> QED
  BY <1>2, <1>3, <1>4, <1>5, <1>6

-----------------------------------------------------------------------------
(***************************************************************************)
(* The races and what is left to write, in every step.                     *)
(***************************************************************************)
\* Finish.
LEMMA FinishRaces ==
  ASSUME FilesAssumption, RacesInv, NEW who \in Pairs \union {Group, Solo}, NEW ms \in Times,
         Finish(who, ms)
  PROVE  /\ RacesInv'
         /\ Left = 0 /\ Len(races) \in Nat /\ Len(races') = Len(races) + 1
         /\ \A i \in 1..Len(races) : races'[i] = races[i]
         /\ races'[Len(races) + 1] = [who |-> who, ms |-> ms, at |-> second]
         /\ Left' = IF Scores(who, second) THEN 6 ELSE 3
<1> DEFINE n == Len(races) + 1
           run == [who |-> who, ms |-> ms, at |-> second]
           scored == Scores(who, second)
<1>1. /\ races \in Seq(Runs) /\ Len(races) \in Nat /\ n <= MaxRaces /\ second \in Nat
      /\ run \in Runs /\ races' = Append(races, run)
      /\ todo' = (IF scored THEN Lines(n) ELSE <<>>) \o Rest
      /\ second' = second /\ faults' = faults /\ todo = <<>>
  <2>1. second \in Nat /\ races \in Seq(Runs) /\ Len(races) \in Nat
    BY DEF RacesInv, FilesAssumption
  <2>2. Len(races) < MaxRaces /\ MaxRaces \in Nat
    BY DEF Finish, FilesAssumption
  <2>3. n <= MaxRaces
    BY <2>1, <2>2
  <2>4. run \in Runs
    BY <2>1 DEF Runs
  <2> QED
    BY <2>1, <2>3, <2>4 DEF Finish
<1>2. /\ races' \in Seq(Runs) /\ Len(races') = n
      /\ \A i \in 1..Len(races) : races'[i] = races[i]
      /\ races'[n] = run
  BY <1>1, AppendProperties
<1>3. run.at = second
  OBVIOUS
<1>4. /\ \A i \in 1..Len(races') : races'[i].at <= second
      /\ \A i, j \in 1..Len(races') : i <= j => races'[i].at <= races'[j].at
  <2>1. \A i \in 1..n : i \in 1..Len(races) \/ i = n
    BY <1>1
  <2>2. \A i \in 1..Len(races) : races[i].at <= second
    BY DEF RacesInv
  <2>3. \A i, j \in 1..Len(races) : i <= j => races[i].at <= races[j].at
    BY DEF RacesInv
  <2> HIDE DEF run
  <2>4. \A i \in 1..n : races'[i].at <= second
    BY <1>1, <1>2, <1>3, <2>1, <2>2
  <2>5. \A i, j \in 1..n : i <= j => races'[i].at <= races'[j].at
    <3> SUFFICES ASSUME NEW i \in 1..n, NEW j \in 1..n, i <= j
                 PROVE  races'[i].at <= races'[j].at
      OBVIOUS
    <3>1. CASE j = n
      BY <3>1, <1>2, <1>3, <2>4
    <3>2. CASE j \in 1..Len(races)
      <4>1. i \in 1..Len(races)
        BY <3>2, <1>1
      <4> QED
        BY <3>2, <4>1, <1>2, <2>3
    <3> QED
      BY <2>1, <3>1, <3>2
  <2> QED
    BY <1>2, <2>4, <2>5
<1>5. /\ Rest \in Seq(Items) /\ Len(Rest) = 3
      /\ Rest[1] = <<"replay">> /\ Rest[2] = <<"table">> /\ Rest[3] = <<"prune">>
  <2> DEFINE a == <<"replay">>
             b == <<"table">>
             c == <<"prune">>
  <2>1. a \in Items /\ b \in Items /\ c \in Items
    BY ItemsHold
  <2>2. Rest = <<a, b, c>>
    BY DEF Rest
  <2> HIDE DEF a, b, c
  <2>3. /\ Rest \in Seq(Items) /\ Len(Rest) = 3
        /\ Rest[1] = a /\ Rest[2] = b /\ Rest[3] = c
    BY <2>1, <2>2, Three
  <2> QED
    BY <2>3 DEF a, b, c
<1>6. /\ Lines(n) \in Seq(Items) /\ Len(Lines(n)) = 3
      /\ Lines(n)[1] = R(n) /\ Lines(n)[2] = S(n, 1) /\ Lines(n)[3] = S(n, 2)
  <2>1. n \in Nat
    BY <1>1
  <2> HIDE DEF n
  <2>2. R(n) \in Items /\ S(n, 1) \in Items /\ S(n, 2) \in Items
    BY <2>1, ItemsHold
  <2> QED
    BY <2>2, Three DEF Lines
<1>7. n \in Nat
  BY <1>1
<1> HIDE DEF n, scored
<1>8. /\ todo' \in Seq(Items) /\ Left' = (IF scored THEN 6 ELSE 3)
      /\ \A i \in 1..Left' : todo'[i] = ItemAt(n, Left' + 1 - i)
  <2>1. CASE scored
    <3>1. todo' = Lines(n) \o Rest
      BY <2>1, <1>1
    <3> HIDE DEF Rest, Lines
    <3>2. /\ todo' \in Seq(Items) /\ Len(todo') = 3 + 3
          /\ \A i \in 1..3 + 3 : todo'[i] = IF i <= 3 THEN Lines(n)[i] ELSE Rest[i - 3]
      <4>1. /\ Lines(n) \o Rest \in Seq(Items)
            /\ Len(Lines(n) \o Rest) = Len(Lines(n)) + Len(Rest)
            /\ \A i \in 1..Len(Lines(n)) + Len(Rest) :
                 (Lines(n) \o Rest)[i] = IF i <= Len(Lines(n)) THEN Lines(n)[i] ELSE Rest[i - Len(Lines(n))]
        BY <1>5, <1>6, ConcatProperties
      <4> QED
        BY <3>1, <4>1, <1>5, <1>6
    <3>3. /\ todo'[1] = R(n) /\ todo'[2] = S(n, 1) /\ todo'[3] = S(n, 2)
          /\ todo'[4] = <<"replay">> /\ todo'[5] = <<"table">> /\ todo'[6] = <<"prune">>
      BY <3>2, <1>5, <1>6
    <3>4. \A i \in 1..6 : i = 1 \/ i = 2 \/ i = 3 \/ i = 4 \/ i = 5 \/ i = 6
      OBVIOUS
    <3>5. \A i \in 1..6 : todo'[i] = ItemAt(n, 6 + 1 - i)
      BY <1>7, <3>3, <3>4, ItemKinds
    <3> QED
      BY <2>1, <3>2, <3>5 DEF Left
  <2>2. CASE ~scored
    <3>1. todo' = Rest
      BY <2>2, <1>1, <1>5, ConcatEmptySeq
    <3>2. \A i \in 1..3 : i = 1 \/ i = 2 \/ i = 3
      OBVIOUS
    <3>3. todo'[1] = ItemAt(n, 3) /\ todo'[2] = ItemAt(n, 2) /\ todo'[3] = ItemAt(n, 1)
      BY <1>5, <1>7, <3>1, ItemKinds
    <3>4. \A i \in 1..3 : todo'[i] = ItemAt(n, 3 + 1 - i)
      <4>1. 3 + 1 - 1 = 3 /\ 3 + 1 - 2 = 2 /\ 3 + 1 - 3 = 1
        OBVIOUS
      <4> QED
        BY <3>2, <3>3, <4>1
    <3> QED
      BY <1>5, <2>2, <3>1, <3>4 DEF Left
  <2> QED
    BY <2>1, <2>2
<1>9. Left = 0
  BY <1>1, EmptySeq DEF Left
<1>10. RacesInv'
  <2>1. Left' \in 0..6
    BY <1>8
  <2>2. Len(races') > 0 /\ races'[Len(races')].at = second'
    BY <1>1, <1>2, <1>3, <1>7 DEF n
  <2>3. second' \in 0..MaxSecond /\ faults' \in 0..MaxFaults
    BY <1>1 DEF RacesInv
  <2>4. Len(races') <= MaxRaces
    BY <1>1, <1>2
  <2>5. \A i \in 1..Left' : todo'[i] = ItemAt(Len(races'), Left' + 1 - i)
    BY <1>2, <1>8
  <2> QED
    BY <1>1, <1>2, <1>4, <1>8, <2>1, <2>2, <2>3, <2>4, <2>5 DEF RacesInv
<1> QED
  BY <1>1, <1>2, <1>8, <1>9, <1>10 DEF n, run, scored

\* Nothing is left to write.
LEMMA IdleRaces ==
  ASSUME RacesInv, todo' = <<>>, races' = races, faults' \in 0..MaxFaults,
         second' \in 0..MaxSecond, second <= second'
  PROVE  RacesInv' /\ Left' = 0
<1>1. Left' = 0 /\ todo' \in Seq(Items)
  BY EmptySeq DEF Left
<1>2. \A i \in 1..Len(races') : races'[i].at <= second'
  <2>1. \A i \in 1..Len(races) : races[i] \in Runs
    BY ElementOfSeq DEF RacesInv
  <2> QED
    BY <2>1 DEF RacesInv, Runs
<1> QED
  BY <1>1, <1>2 DEF RacesInv

\* Write.
LEMMA WriteRaces ==
  ASSUME FilesAssumption, RacesInv, Write
  PROVE  RacesInv'
<1>1. /\ Left \in 1..6 /\ Len(races) \in Nat /\ Left' = Left - 1
      /\ UNCHANGED <<races, second>>
  BY WriteCases
<1>2. /\ todo' \in Seq(Items)
      /\ \A i \in 1..Left' : todo'[i] = ItemAt(Len(races), Left' + 1 - i)
  <2>1. todo # <<>> /\ todo' = Tail(todo)
    BY DEF Write
  <2> QED
    BY <1>1, <2>1, NextItem
<1>3. faults' \in 0..MaxFaults
  <2>0. faults \in Nat /\ MaxFaults \in Nat /\ faults' <= MaxFaults
    BY WriteCases DEF RacesInv, FilesAssumption
  <2>1. CASE Left \in 4..6
    BY <2>0, <2>1, WriteCases
  <2>2. CASE Left = 3
    <3>1. faults' = faults \/ faults' = faults + 1
      BY <2>2, WriteCases DEF WriteReplay
    <3> QED
      BY <2>0, <3>1
  <2>3. CASE Left = 2
    BY <2>0, <2>3, WriteCases DEF WriteTable
  <2>4. CASE Left = 1
    <3>1. PICK stuck \in SUBSET DOMAIN dir : Prune(stuck)
      BY <2>4, WriteCases
    <3>2. faults' = IF stuck = {} THEN faults ELSE faults + 1
      BY <3>1 DEF Prune
    <3> QED
      BY <2>0, <3>2
  <2>5. Left \in 4..6 \/ Left = 2 \/ Left = 3 \/ Left = 1
    BY <1>1
  <2> QED
    BY <2>1, <2>2, <2>3, <2>4, <2>5
<1>4. Left' \in 0..6 /\ Len(races) > 0 /\ races[Len(races)].at = second
  BY <1>1 DEF RacesInv
<1> QED
  BY <1>1, <1>2, <1>3, <1>4 DEF RacesInv

-----------------------------------------------------------------------------
(***************************************************************************)
(* The league.                                                             *)
(***************************************************************************)
\* There are finitely many races, and a file with fewer lines shows fewer wins.
LEMMA WinsBounds ==
  ASSUME NEW rs \in Seq(Runs), NEW lines, NEW more, lines \subseteq more, NEW k
  PROVE  /\ IsFiniteSet(Wins(rs, more, k)) /\ IsFiniteSet(Wins(rs, lines, k))
         /\ Cardinality(Wins(rs, lines, k)) \in Nat /\ Cardinality(Wins(rs, more, k)) \in Nat
         /\ Cardinality(Wins(rs, lines, k)) <= Cardinality(Wins(rs, more, k))
<1>1. Len(rs) \in Nat
  OBVIOUS
<1>2. IsFiniteSet(1..Len(rs))
  BY <1>1, FS_Interval
<1>3. Wins(rs, more, k) \in SUBSET (1..Len(rs)) /\ Wins(rs, lines, k) \in SUBSET Wins(rs, more, k)
  BY DEF Wins
<1>4. IsFiniteSet(Wins(rs, more, k))
  BY <1>2, <1>3, FS_Subset
<1> QED
  BY <1>3, <1>4, FS_Subset, FS_CardinalityType

\* Lines of different races, or of different kinds, are different.
LEMMA LinesDiffer ==
  ASSUME NEW m, NEW n
  PROVE  /\ R(m) # S(n, 1) /\ R(m) # S(n, 2) /\ S(m, 1) # S(n, 2)
         /\ R(m) = R(n) => m = n
         /\ S(m, 1) = S(n, 1) => m = n
         /\ R(m)[1] = "R" /\ S(m, 1)[1] = "S" /\ S(m, 2)[1] = "S" /\ "R" # "S"
BY DEF R, S

\* One race more.
OneMore(rs, run, more) ==
  /\ rs \in Seq(Runs) /\ run \in Runs /\ more \in Seq(Runs)
  /\ Len(more) = Len(rs) + 1 /\ more[Len(rs) + 1] = run
  /\ \A i \in 1..Len(rs) : more[i] = rs[i]

\* What it adds, with its lines or without.
LEMMA WinsGrow ==
  ASSUME NEW rs, NEW run, NEW more, OneMore(rs, run, more), NEW lines, R(Len(rs) + 1) \notin lines, NEW k
  PROVE  /\ Wins(more, lines, k) = Wins(rs, lines, k)
         /\ Wins(more, lines \union LinesOf(Len(rs) + 1), k) =
              IF run.who \in Pairs /\ <<run.who, Day(run.at)>> = k
              THEN Wins(rs, lines, k) \union {Len(rs) + 1} ELSE Wins(rs, lines, k)
         /\ Len(rs) + 1 \notin Wins(rs, lines, k)
<1> DEFINE n == Len(rs) + 1
           Won(r) == r.who \in Pairs /\ <<r.who, Day(r.at)>> = k
           all == lines \union LinesOf(n)
<1>0. /\ rs \in Seq(Runs) /\ more \in Seq(Runs) /\ Len(more) = n /\ more[n] = run
      /\ \A i \in 1..Len(rs) : more[i] = rs[i]
  BY DEF OneMore
<1>1. Len(rs) \in Nat /\ \A i \in 1..n : i \in 1..Len(rs) \/ i = n
  BY <1>0
<1>2. \A i \in 1..Len(rs) : i \in 1..n /\ i # n
  BY <1>1
<1>3. \A i : R(i) \in all <=> R(i) \in lines \/ i = n
  BY LinesDiffer DEF LinesOf
<1>4. \A i : i \in Wins(rs, lines, k) <=> i \in 1..Len(rs) /\ R(i) \in lines /\ Won(rs[i])
  BY DEF Wins
<1>5. \A i : i \in Wins(more, lines, k) <=> i \in 1..n /\ R(i) \in lines /\ Won(more[i])
  BY <1>0 DEF Wins
<1>6. \A i : i \in Wins(more, all, k) <=> i \in 1..n /\ R(i) \in all /\ Won(more[i])
  BY <1>0 DEF Wins
<1>7. n \in 1..n
  BY <1>1
<1> HIDE DEF Won, all, n
<1>8. Wins(more, lines, k) = Wins(rs, lines, k)
  <2>1. R(n) \notin lines
    BY DEF n
  <2>2. \A i : i \in Wins(more, lines, k) <=> i \in Wins(rs, lines, k)
    BY <1>0, <1>1, <1>2, <1>4, <1>5, <2>1
  <2> QED
    BY <2>2
<1>9. \A i : i \in Wins(more, all, k) <=> i \in Wins(rs, lines, k) \/ (i = n /\ Won(run))
  <2> SUFFICES ASSUME NEW i
               PROVE  i \in Wins(more, all, k) <=> i \in Wins(rs, lines, k) \/ (i = n /\ Won(run))
    OBVIOUS
  <2>1. CASE i = n
    BY <2>1, <1>0, <1>2, <1>3, <1>4, <1>6, <1>7
  <2>2. CASE i # n
    BY <2>2, <1>0, <1>1, <1>2, <1>3, <1>4, <1>6
  <2> QED
    BY <2>1, <2>2
<1>10. Wins(more, all, k) = IF Won(run) THEN Wins(rs, lines, k) \union {n} ELSE Wins(rs, lines, k)
  BY <1>9
<1>11. n \notin Wins(rs, lines, k)
  BY <1>2, <1>4
<1> QED
  BY <1>8, <1>10, <1>11 DEF Won, all, n

\* What is booked while some or none of a race's lines are left to write.
LEMMA BookedLines ==
  ASSUME NEW n \in Nat, NEW l \in 0..6
  PROVE  /\ l <= 3 => {ItemAt(n, k) : k \in 4..l} = {}
         /\ {ItemAt(n, k) : k \in 4..6} = LinesOf(n)
         /\ l \in 4..6 => {ItemAt(n, k) : k \in 4..l} = {ItemAt(n, l)} \union {ItemAt(n, k) : k \in 4..l - 1}
<1>1. l <= 3 => {ItemAt(n, k) : k \in 4..l} = {}
  OBVIOUS
<1>2. {ItemAt(n, k) : k \in 4..6} = LinesOf(n)
  <2>1. \A k : k \in 4..6 <=> k = 4 \/ k = 5 \/ k = 6
    OBVIOUS
  <2>2. \A x : x \in {ItemAt(n, k) : k \in 4..6} <=> x = ItemAt(n, 4) \/ x = ItemAt(n, 5) \/ x = ItemAt(n, 6)
    BY <2>1
  <2>3. \A x : x \in LinesOf(n) <=> x = ItemAt(n, 4) \/ x = ItemAt(n, 5) \/ x = ItemAt(n, 6)
    BY ItemKinds DEF LinesOf
  <2> QED
    BY <2>2, <2>3
<1>3. ASSUME l \in 4..6
      PROVE  {ItemAt(n, k) : k \in 4..l} = {ItemAt(n, l)} \union {ItemAt(n, k) : k \in 4..l - 1}
  <2>1. \A k : k \in 4..l <=> k = l \/ k \in 4..l - 1
    BY <1>3
  <2> QED
    BY <2>1
<1> QED
  BY <1>1, <1>2, <1>3

\* A line that is booked is one of a race that was over.
LEMMA BookedOf ==
  ASSUME RacesInv, LeagueInv
  PROVE  /\ Booked \subseteq UNION {LinesOf(n) : n \in 1..Len(races)}
         /\ Left <= 3 => Sure = league /\ Booked = league \union missed
         /\ league \subseteq Sure /\ Sure \subseteq Booked
<1>1. Left \in 0..6 /\ Len(races) \in Nat /\ (Left # 0 => Len(races) \in 1..Len(races))
  BY DEF RacesInv
<1>2. Left <= 3 => Pending = {}
  BY <1>1, BookedLines DEF Pending
<1>3. Pending \subseteq LinesOf(Len(races))
  <2>1. \A k \in 4..Left : k = 4 \/ k = 5 \/ k = 6
    BY <1>1
  <2>2. \A k \in 4..Left : ItemAt(Len(races), k) \in LinesOf(Len(races))
    BY <1>1, <2>1, ItemKinds DEF LinesOf
  <2> QED
    BY <2>2 DEF Pending
<1>4. Left # 0 => LinesOf(Len(races)) \subseteq UNION {LinesOf(n) : n \in 1..Len(races)}
  BY <1>1
<1>5. Left = 0 => Pending = {}
  BY <1>2
<1> QED
  BY <1>1, <1>2, <1>3, <1>4, <1>5 DEF Sure, Booked, LeagueInv

\* A line that is appended, however far, is in the file or missed; no other is new.
LEMMA AppendedLine ==
  ASSUME LeagueInv, NEW line, NEW piece \in LinePieces \union {"all"}, LineAppended(line, piece)
  PROVE  /\ league' \subseteq league \union {line}
         /\ league' \union missed' = league \union missed \union {line}
         /\ torn' \subseteq league' \union {Half}
<1> DEFINE readable == IF torn = {} /\ piece \in {"all", "bare"} THEN {line} ELSE {}
<1>1. /\ league' = IF piece = "none" THEN league ELSE (league \ torn) \union readable
      /\ torn' = CASE piece = "none" -> torn
                   [] piece = "all"  -> {}
                   [] OTHER -> IF readable = {} THEN {Half} ELSE {line}
      /\ missed' = (missed \union league \union {line}) \ league'
  BY DEF LineAppended
<1>2. readable = {} \/ readable = {line}
  OBVIOUS
<1>3. torn \subseteq league \union {Half}
  BY DEF LeagueInv
<1> HIDE DEF readable
<1>4. league' \subseteq league \union {line}
  BY <1>1, <1>2
<1>5. league' \union missed' = league \union missed \union {line}
  BY <1>1, <1>4
<1>6. torn' \subseteq league' \union {Half}
  <2>1. CASE piece = "none"
    BY <2>1, <1>1, <1>3
  <2>2. CASE piece = "all"
    BY <2>2, <1>1
  <2>3. CASE piece # "none" /\ piece # "all"
    <3>1. torn' = IF readable = {} THEN {Half} ELSE {line}
      BY <2>3, <1>1
    <3>2. league' = (league \ torn) \union readable
      BY <2>3, <1>1
    <3> QED
      BY <3>1, <3>2, <1>2
  <2> QED
    BY <2>1, <2>2, <2>3
<1> QED
  BY <1>4, <1>5, <1>6

\* What is written was booked before, and in the order R line, rows.
LEMMA WriteLeague ==
  ASSUME RacesInv, LeagueInv, Write
  PROVE  LeagueInv'
<1>1. /\ Left \in 1..6 /\ Len(races) \in Nat /\ Left' = Left - 1
      /\ races' = races /\ mDuels' = mDuels /\ mRows' = mRows /\ races \in Seq(Runs)
  BY WriteCases DEF RacesInv
<1> DEFINE n == Len(races)
           line == ItemAt(n, Left)
<1>2. Left \in 4..6 =>
        /\ league' \subseteq league \union {line}
        /\ league' \union missed' = league \union missed \union {line}
        /\ torn' \subseteq league' \union {Half}
        /\ Pending = {line} \union Pending'
  <2> SUFFICES ASSUME Left \in 4..6
               PROVE  /\ league' \subseteq league \union {line}
                      /\ league' \union missed' = league \union missed \union {line}
                      /\ torn' \subseteq league' \union {Half}
                      /\ Pending = {line} \union Pending'
    OBVIOUS
  <2>1. PICK piece \in LinePieces \union {"all"} : LineAppended(line, piece)
    BY WriteCases
  <2>2. Pending' = {ItemAt(n, k) : k \in 4..Left - 1}
    BY <1>1 DEF Pending
  <2>3. Pending = {line} \union {ItemAt(n, k) : k \in 4..Left - 1}
    <3>1. n \in Nat /\ Left \in 0..6
      BY <1>1
    <3> QED
      BY <3>1, BookedLines DEF Pending
  <2> HIDE DEF line
  <2>4. /\ league' \subseteq league \union {line}
        /\ league' \union missed' = league \union missed \union {line}
        /\ torn' \subseteq league' \union {Half}
    BY <2>1, AppendedLine
  <2> QED
    BY <2>2, <2>3, <2>4
<1>3. Left \in 1..3 => UNCHANGED <<league, torn, missed>> /\ Pending = {} /\ Pending' = {}
  <2> SUFFICES ASSUME Left \in 1..3
               PROVE  UNCHANGED <<league, torn, missed>> /\ Pending = {} /\ Pending' = {}
    OBVIOUS
  <2>1. Left = 1 \/ Left = 2 \/ Left = 3
    OBVIOUS
  <2>2. UNCHANGED <<league, torn, missed>>
    BY <2>1, WriteCases DEF WriteReplay, WriteTable
  <2>3. Pending = {} /\ Pending' = {}
    BY <1>1 DEF Pending
  <2> QED
    BY <2>2, <2>3
<1>4. Left \in 4..6 \/ Left \in 1..3
  BY <1>1
<1> HIDE DEF line, n
<1>5. /\ league \union missed \subseteq league' \union missed'
      /\ torn' \subseteq league' \union {Half}
      /\ Sure' \subseteq Sure /\ Booked' = Booked
  <2>1. /\ Sure = league \union Pending /\ Sure' = league' \union Pending'
        /\ Booked = Sure \union missed /\ Booked' = Sure' \union missed'
    BY DEF Sure, Booked
  <2>2. CASE Left \in 4..6
    BY <2>1, <2>2, <1>2
  <2>3. CASE Left \in 1..3
    BY <2>1, <2>3, <1>3 DEF LeagueInv
  <2> QED
    BY <2>2, <2>3, <1>4
<1>6. \A i \in 1..n : S(i, 1) \in league' => R(i) \in league' \union missed'
  <2> SUFFICES ASSUME NEW i \in 1..n, S(i, 1) \in league'
               PROVE  R(i) \in league' \union missed'
    OBVIOUS
  <2>1. CASE S(i, 1) \in league
    BY <2>1, <1>5 DEF LeagueInv, n
  <2>2. CASE S(i, 1) \notin league
    <3>1. Left \in 4..6 /\ S(i, 1) = line
      BY <2>2, <1>2, <1>3, <1>4
    <3>2. Left = 4 \/ Left = 5 \/ Left = 6
      BY <3>1
    <3>3. Left = 5 /\ i = n
      BY <3>1, <3>2, <1>1, ItemKinds, LinesDiffer DEF line, n
    <3> QED
      BY <3>3, <1>5 DEF LeagueInv, n
  <2> QED
    BY <2>1, <2>2
<1>7. Left' = 5 => R(n) \in league' \union missed'
  <2> SUFFICES ASSUME Left' = 5 PROVE R(n) \in league' \union missed'
    OBVIOUS
  <2>1. Left = 6 /\ Left \in 4..6
    BY <1>1
  <2>2. line = R(n)
    BY <1>1, <2>1, ItemKinds DEF line, n
  <2> QED
    BY <2>1, <2>2, <1>2
<1>8. RowsIn(Sure)' \subseteq mRows' /\ mRows' \subseteq RowsIn(Booked)'
  <2>1. RowsIn(Sure') \subseteq RowsIn(Sure) /\ RowsIn(Booked') = RowsIn(Booked)
    BY <1>5 DEF RowsIn
  <2>2. RowsIn(Sure)' = RowsIn(Sure') /\ RowsIn(Booked)' = RowsIn(Booked')
    BY DEF RowsIn
  <2> QED
    BY <1>1, <2>1, <2>2 DEF LeagueInv
<1>9. league' \union missed' \subseteq UNION {LinesOf(i) : i \in 1..Len(races')}
  <2>1. league' \union missed' \subseteq Booked'
    BY DEF Booked, Sure
  <2> QED
    BY <1>1, <1>5, <2>1, BookedOf
<1>10. \A k \in Pairs \X Days :
         /\ Cardinality(Wins(races', Sure', k)) <= mDuels'[k]
         /\ mDuels'[k] <= Cardinality(Wins(races', Booked', k))
  <2> SUFFICES ASSUME NEW k \in Pairs \X Days
               PROVE  /\ Cardinality(Wins(races, Sure', k)) <= mDuels[k]
                      /\ mDuels[k] <= Cardinality(Wins(races, Booked', k))
    BY <1>1
  <2>1. /\ Cardinality(Wins(races, Sure', k)) <= Cardinality(Wins(races, Sure, k))
        /\ Cardinality(Wins(races, Sure', k)) \in Nat /\ Cardinality(Wins(races, Sure, k)) \in Nat
    BY <1>1, <1>5, WinsBounds
  <2>2. /\ mDuels[k] \in 0..DuelsPerDay /\ Cardinality(Wins(races, Sure, k)) <= mDuels[k]
        /\ mDuels[k] <= Cardinality(Wins(races, Booked, k))
    BY DEF LeagueInv
  <2> QED
    BY <1>5, <2>1, <2>2
<1> QED
  BY <1>1, <1>5, <1>6, <1>7, <1>8, <1>9, <1>10 DEF LeagueInv, n

\* Nothing happens to the league.
LEMMA LeagueStays ==
  ASSUME LeagueInv, UNCHANGED <<races, league, torn, missed, mDuels, mRows, todo>>
  PROVE  LeagueInv'
BY DEF LeagueInv, Booked, Sure, Pending, Left, RowsIn

\* A restart reads back what was written: of an interrupted race some lines or none.
LEMMA RestartLeague ==
  ASSUME FilesAssumption, RacesInv, LeagueInv, FilesRestart
  PROVE  LeagueInv'
<1>1. /\ races' = races /\ league' = league /\ torn' = torn /\ missed' = missed /\ todo' = <<>>
      /\ mDuels' = DuelsIn(league) /\ mRows' = RowsIn(league)
  BY DEF FilesRestart
<1>2. /\ Left' = 0 /\ Sure' = league /\ Booked' = league \union missed
      /\ races \in Seq(Runs) /\ Len(races) \in Nat
  <2>1. Left' = 0
    BY <1>1, EmptySeq DEF Left
  <2>2. races \in Seq(Runs) /\ Len(races) \in Nat
    BY DEF RacesInv
  <2>3. Pending' = {}
    BY <2>1 DEF Pending
  <2> QED
    BY <1>1, <2>1, <2>2, <2>3 DEF Booked, Sure
<1>3. \A k \in Pairs \X Days : DuelsIn(league)[k] = Cardinality(Wins(races, league, k))
  BY DEF DuelsIn, Wins, Duel, Numbers
<1>4. \A k \in Pairs \X Days :
        /\ Cardinality(Wins(races, league, k)) \in 0..DuelsPerDay
        /\ Cardinality(Wins(races, league, k)) <= Cardinality(Wins(races, league \union missed, k))
  <2> SUFFICES ASSUME NEW k \in Pairs \X Days
               PROVE  /\ Cardinality(Wins(races, league, k)) \in 0..DuelsPerDay
                      /\ Cardinality(Wins(races, league, k)) <= Cardinality(Wins(races, league \union missed, k))
    OBVIOUS
  <2>1. /\ Cardinality(Wins(races, league, k)) <= Cardinality(Wins(races, Sure, k))
        /\ Cardinality(Wins(races, league, k)) \in Nat /\ Cardinality(Wins(races, Sure, k)) \in Nat
    BY <1>2, WinsBounds, BookedOf
  <2>2. mDuels[k] \in 0..DuelsPerDay /\ Cardinality(Wins(races, Sure, k)) <= mDuels[k]
    BY DEF LeagueInv
  <2>3. league \subseteq league \union missed
    OBVIOUS
  <2>4. Cardinality(Wins(races, league, k)) <= Cardinality(Wins(races, league \union missed, k))
    BY <1>2, <2>3, WinsBounds
  <2> QED
    BY <2>1, <2>2, <2>4 DEF FilesAssumption
<1>5. DuelsIn(league) \in [Pairs \X Days -> 0..DuelsPerDay]
  BY <1>3, <1>4 DEF DuelsIn
<1>6. RowsIn(Sure') \subseteq mRows' /\ mRows' \subseteq RowsIn(Booked')
  BY <1>1, <1>2 DEF RowsIn
<1>7. \A k \in Pairs \X Days :
        /\ Cardinality(Wins(races', Sure', k)) <= mDuels'[k]
        /\ mDuels'[k] <= Cardinality(Wins(races', Booked', k))
  <2> SUFFICES ASSUME NEW k \in Pairs \X Days
               PROVE  /\ Cardinality(Wins(races', Sure', k)) <= mDuels'[k]
                      /\ mDuels'[k] <= Cardinality(Wins(races', Booked', k))
    OBVIOUS
  <2>1. /\ Wins(races', Sure', k) = Wins(races, league, k)
        /\ Wins(races', Booked', k) = Wins(races, league \union missed, k)
    BY <1>1, <1>2
  <2>2. mDuels'[k] = Cardinality(Wins(races, league, k))
    BY <1>1, <1>3
  <2>3. /\ Cardinality(Wins(races, league, k)) \in Nat
        /\ Cardinality(Wins(races, league, k)) <= Cardinality(Wins(races, league \union missed, k))
    BY <1>4
  <2> QED
    BY <2>1, <2>2, <2>3
<1>8. /\ league' \union missed' \subseteq UNION {LinesOf(n) : n \in 1..Len(races')}
      /\ torn' \subseteq league' \union {Half}
      /\ \A n \in 1..Len(races') : S(n, 1) \in league' => R(n) \in league' \union missed'
  BY <1>1 DEF LeagueInv
<1>9. mDuels' \in [Pairs \X Days -> 0..DuelsPerDay] /\ Left' # 5
  BY <1>1, <1>2, <1>5
<1> QED
  BY <1>6, <1>7, <1>8, <1>9 DEF LeagueInv

\* The races have a pair and a day.
LEMMA DayOfNow ==
  ASSUME FilesAssumption, RacesInv
  PROVE  Day(second) \in Days
<1>1. second \in Nat /\ MaxSecond \in Nat /\ second <= MaxSecond
  BY DEF RacesInv, FilesAssumption
<1> QED
  BY <1>1, DayMonotone DEF Days

\* A race that scores books its lines, and one win more if it is a duel.
LEMMA FinishLeague ==
  ASSUME FilesAssumption, RacesInv, LeagueInv,
         NEW who \in Pairs \union {Group, Solo}, NEW ms \in Times, Finish(who, ms)
  PROVE  LeagueInv'
<1> DEFINE n == Len(races) + 1
           run == [who |-> who, ms |-> ms, at |-> second]
           scored == Scores(who, second)
           key == <<who, Day(second)>>
<1>1. /\ Left = 0 /\ Len(races) \in Nat /\ Len(races') = n
      /\ \A i \in 1..Len(races) : races'[i] = races[i]
      /\ races'[n] = run
      /\ Left' = IF scored THEN 6 ELSE 3
      /\ races' \in Seq(Runs) /\ races \in Seq(Runs) /\ second \in Nat
  <2>1. RacesInv'
    BY FinishRaces
  <2>2. races' \in Seq(Runs) /\ races \in Seq(Runs) /\ second \in Nat
    BY <2>1 DEF RacesInv, FilesAssumption
  <2>3. /\ Left = 0 /\ Len(races) \in Nat /\ Len(races') = Len(races) + 1
        /\ \A i \in 1..Len(races) : races'[i] = races[i]
        /\ races'[Len(races) + 1] = [who |-> who, ms |-> ms, at |-> second]
        /\ Left' = IF Scores(who, second) THEN 6 ELSE 3
    BY FinishRaces
  <2> QED
    BY <2>2, <2>3
<1>2. /\ league' = league /\ torn' = torn /\ missed' = missed
      /\ mDuels' = IF scored /\ who \in Pairs THEN [mDuels EXCEPT ![key] = @ + 1] ELSE mDuels
      /\ mRows' = IF scored THEN mRows \union {S(n, 1), S(n, 2)} ELSE mRows
  BY DEF Finish
<1>3. run \in Runs /\ run.who = who /\ run.at = second
  BY <1>1 DEF Runs
<1> DEFINE all == league \union missed
<1>4. Sure = league /\ Booked = all
  BY <1>1, BookedOf
<1>5. \A i \in 1..Len(races) : i # n
  BY <1>1
<1>6. R(n) \notin all /\ S(n, 1) \notin all
  <2>1. \A i \in 1..Len(races) : R(n) \notin LinesOf(i) /\ S(n, 1) \notin LinesOf(i)
    BY <1>5, LinesDiffer DEF LinesOf
  <2> QED
    BY <2>1 DEF LeagueInv
<1>7. /\ scored => Sure' = league \union LinesOf(n) /\ Booked' = all \union LinesOf(n)
      /\ ~scored => Sure' = league /\ Booked' = all
  <2>1. Pending' = {ItemAt(n, k) : k \in 4..Left'}
    BY <1>1 DEF Pending
  <2>2. n \in Nat
    BY <1>1
  <2> HIDE DEF n
  <2>3. {ItemAt(n, k) : k \in 4..6} = LinesOf(n) /\ {ItemAt(n, k) : k \in 4..3} = {}
    BY <2>2, BookedLines
  <2>4. Pending' = IF scored THEN LinesOf(n) ELSE {}
    BY <1>1, <2>1, <2>3
  <2> HIDE DEF scored
  <2> QED
    BY <1>2, <2>4 DEF Sure, Booked
<1>8. n \in Nat /\ n \in 1..n /\ \A i \in 1..n : i \in 1..Len(races) \/ i = n
  BY <1>1
<1>9. ASSUME NEW k, NEW lines, R(n) \notin lines
      PROVE  /\ Wins(races', lines, k) = Wins(races, lines, k)
             /\ Wins(races', lines \union LinesOf(n), k) =
                  IF who \in Pairs /\ key = k
                  THEN Wins(races, lines, k) \union {n} ELSE Wins(races, lines, k)
             /\ n \notin Wins(races, lines, k)
  <2> HIDE DEF run, all
  <2>1. /\ Wins(races', lines, k) = Wins(races, lines, k)
        /\ Wins(races', lines \union LinesOf(Len(races) + 1), k) =
             IF run.who \in Pairs /\ <<run.who, Day(run.at)>> = k
             THEN Wins(races, lines, k) \union {Len(races) + 1} ELSE Wins(races, lines, k)
        /\ Len(races) + 1 \notin Wins(races, lines, k)
    <3>1. OneMore(races, run, races')
      BY <1>1, <1>3 DEF OneMore
    <3> QED
      BY <1>9, <3>1, WinsGrow
  <2> QED
    BY <1>3, <2>1
<1>10. \A k : /\ Cardinality(Wins(races, league, k)) \in Nat /\ Cardinality(Wins(races, all, k)) \in Nat
              /\ IsFiniteSet(Wins(races, league, k)) /\ IsFiniteSet(Wins(races, all, k))
  BY <1>1, WinsBounds
<1>11. \A k \in Pairs \X Days : /\ mDuels[k] \in 0..DuelsPerDay
                               /\ Cardinality(Wins(races, league, k)) <= mDuels[k]
                               /\ mDuels[k] <= Cardinality(Wins(races, all, k))
  <2>1. \A k \in Pairs \X Days : /\ mDuels[k] \in 0..DuelsPerDay
                                /\ Cardinality(Wins(races, Sure, k)) <= mDuels[k]
                                /\ mDuels[k] <= Cardinality(Wins(races, Booked, k))
    BY DEF LeagueInv
  <2> QED
    BY <1>4, <2>1
<1>12. DuelsPerDay \in Nat /\ R(n) \notin league
  BY <1>6 DEF FilesAssumption
<1> HIDE DEF n, run, scored, all
<1>13. ASSUME scored, who \in Pairs
       PROVE  /\ mDuels' \in [Pairs \X Days -> 0..DuelsPerDay]
              /\ \A k \in Pairs \X Days : /\ Cardinality(Wins(races', Sure', k)) <= mDuels'[k]
                                         /\ mDuels'[k] <= Cardinality(Wins(races', Booked', k))
  <2>1. mDuels[key] < DuelsPerDay /\ key \in Pairs \X Days
    BY <1>13, DayOfNow DEF Scores, scored
  <2> HIDE DEF key
  <2>2. mDuels' = [mDuels EXCEPT ![key] = mDuels[key] + 1]
    BY <1>2, <1>13
  <2>3. mDuels' \in [Pairs \X Days -> 0..DuelsPerDay]
    BY <1>11, <1>12, <2>1, <2>2 DEF LeagueInv
  <2>4. \A k \in Pairs \X Days : mDuels'[k] = IF k = key THEN mDuels[key] + 1 ELSE mDuels[k]
    BY <2>2 DEF LeagueInv
  <2>5. /\ Cardinality(Wins(races, league, key) \union {n}) = Cardinality(Wins(races, league, key)) + 1
        /\ Cardinality(Wins(races, all, key) \union {n}) = Cardinality(Wins(races, all, key)) + 1
    BY <1>6, <1>9, <1>10, <1>12, FS_AddElement
  <2>6. \A k \in Pairs \X Days : /\ Cardinality(Wins(races', Sure', k)) <= mDuels'[k]
                                /\ mDuels'[k] <= Cardinality(Wins(races', Booked', k))
    <3> SUFFICES ASSUME NEW k \in Pairs \X Days
                 PROVE  /\ Cardinality(Wins(races', Sure', k)) <= mDuels'[k]
                        /\ mDuels'[k] <= Cardinality(Wins(races', Booked', k))
      OBVIOUS
    <3>1. /\ Wins(races', Sure', k) = IF key = k THEN Wins(races, league, k) \union {n} ELSE Wins(races, league, k)
          /\ Wins(races', Booked', k) = IF key = k THEN Wins(races, all, k) \union {n} ELSE Wins(races, all, k)
      BY <1>6, <1>7, <1>9, <1>12, <1>13
    <3>2. CASE k = key
      <4>1. mDuels'[key] = mDuels[key] + 1
        BY <2>1, <2>4
      <4>2. /\ Cardinality(Wins(races', Sure', key)) = Cardinality(Wins(races, league, key)) + 1
            /\ Cardinality(Wins(races', Booked', key)) = Cardinality(Wins(races, all, key)) + 1
        BY <2>5, <3>1, <3>2
      <4>3. /\ Cardinality(Wins(races, league, key)) <= mDuels[key]
            /\ mDuels[key] <= Cardinality(Wins(races, all, key)) /\ mDuels[key] \in Nat
        BY <1>11, <1>12, <2>1
      <4> QED
        BY <1>10, <3>2, <4>1, <4>2, <4>3
    <3>3. CASE k # key
      BY <1>11, <2>4, <3>1, <3>3
    <3> QED
      BY <3>2, <3>3
  <2> QED
    BY <2>3, <2>6
<1>14. ASSUME ~(scored /\ who \in Pairs)
       PROVE  /\ mDuels' \in [Pairs \X Days -> 0..DuelsPerDay]
              /\ \A k \in Pairs \X Days : /\ Cardinality(Wins(races', Sure', k)) <= mDuels'[k]
                                         /\ mDuels'[k] <= Cardinality(Wins(races', Booked', k))
  <2>1. mDuels' = mDuels
    BY <1>2, <1>14
  <2>2. \A k : Wins(races', Sure', k) = Wins(races, league, k) /\ Wins(races', Booked', k) = Wins(races, all, k)
    BY <1>6, <1>7, <1>9, <1>12, <1>14
  <2>3. \A k \in Pairs \X Days : /\ Cardinality(Wins(races', Sure', k)) <= mDuels'[k]
                                /\ mDuels'[k] <= Cardinality(Wins(races', Booked', k))
    BY <1>11, <2>1, <2>2
  <2>4. mDuels' \in [Pairs \X Days -> 0..DuelsPerDay]
    BY <2>1 DEF LeagueInv
  <2> QED
    BY <2>3, <2>4
<1>15. RowsIn(Sure)' \subseteq mRows' /\ mRows' \subseteq RowsIn(Booked)'
  <2>1. RowsIn(league) \subseteq mRows /\ mRows \subseteq RowsIn(all)
    BY <1>4 DEF LeagueInv
  <2>2. /\ RowsIn(league \union LinesOf(n)) = RowsIn(league) \union {S(n, 1), S(n, 2)}
        /\ RowsIn(all \union LinesOf(n)) = RowsIn(all) \union {S(n, 1), S(n, 2)}
    BY LinesDiffer DEF RowsIn, LinesOf
  <2>3. RowsIn(Sure)' = RowsIn(Sure') /\ RowsIn(Booked)' = RowsIn(Booked')
    BY DEF RowsIn
  <2>4. CASE scored
    BY <2>4, <1>2, <1>7, <2>1, <2>2, <2>3
  <2>5. CASE ~scored
    BY <2>5, <1>2, <1>7, <2>1, <2>3
  <2> QED
    BY <2>4, <2>5
<1>16. \A i \in 1..Len(races') : S(i, 1) \in league' => R(i) \in league' \union missed'
  <2>1. S(n, 1) \notin league
    BY <1>6 DEF all
  <2> QED
    BY <1>1, <1>2, <1>8, <2>1 DEF LeagueInv, n
<1>17. league' \union missed' \subseteq UNION {LinesOf(i) : i \in 1..Len(races')}
  <2>1. UNION {LinesOf(i) : i \in 1..Len(races)} \subseteq UNION {LinesOf(i) : i \in 1..n}
    <3>1. \A i \in 1..Len(races) : i \in 1..n
      BY <1>1 DEF n
    <3> QED
      BY <3>1
  <2> QED
    BY <1>1, <1>2, <2>1 DEF LeagueInv, n
<1>18. Left' # 5 /\ torn' \subseteq league' \union {Half}
  BY <1>1, <1>2 DEF LeagueInv
<1>19. /\ mDuels' \in [Pairs \X Days -> 0..DuelsPerDay]
       /\ \A k \in Pairs \X Days : /\ Cardinality(Wins(races', Sure', k)) <= mDuels'[k]
                                  /\ mDuels'[k] <= Cardinality(Wins(races', Booked', k))
  BY <1>13, <1>14
<1> QED
  BY <1>15, <1>16, <1>17, <1>18, <1>19 DEF LeagueInv

-----------------------------------------------------------------------------
(***************************************************************************)
(* The replay store.                                                       *)
(***************************************************************************)
\* A newer replay is one of a later race.
LEMMA NewerIsLater ==
  ASSUME RacesInv, StoreInv, NEW n \in DOMAIN dir, NEW m \in DOMAIN dir
  PROVE  Newer(m, n) <=> m > n
<1>1. /\ m \in 1..Len(races) /\ n \in 1..Len(races) /\ Len(races) \in Nat
      /\ dir[m].at = races[m].at /\ dir[n].at = races[n].at
      /\ dir[m].at \in Int /\ dir[n].at \in Int
  BY DEF StoreInv, RacesInv, EntryType
<1>2. /\ m <= n => dir[m].at <= dir[n].at
      /\ n <= m => dir[n].at <= dir[m].at
  BY <1>1 DEF RacesInv
<1> QED
  BY <1>1, <1>2 DEF Newer

\* The index is read anew from the directory, and says what it said of what it knew.
LEMMA RefreshedTrue ==
  ASSUME StoreInv
  PROVE  /\ DOMAIN Refreshed = {n \in DOMAIN dir : dir[n].whole}
         /\ \A n \in DOMAIN Refreshed : Refreshed[n].table = dir[n].table
<1>1. DOMAIN Refreshed = {n \in DOMAIN dir : dir[n].whole}
  BY DEF Refreshed
<1>2. ASSUME NEW n \in DOMAIN Refreshed
      PROVE  Refreshed[n].table = dir[n].table
  <2>1. n \in {m \in DOMAIN dir : dir[m].whole}
    BY <1>1
  <2>2. CASE n \in DOMAIN mItems /\ mItems[n].at = dir[n].at
    <3>1. Refreshed[n] = mItems[n]
      BY <2>1, <2>2 DEF Refreshed
    <3> QED
      BY <2>2, <3>1 DEF StoreInv
  <2>3. CASE ~(n \in DOMAIN mItems /\ mItems[n].at = dir[n].at)
    <3>1. Refreshed[n] = [at |-> dir[n].at, table |-> dir[n].table]
      BY <2>1, <2>3 DEF Refreshed
    <3> QED
      BY <3>1
  <2> QED
    BY <2>2, <2>3
<1> QED
  BY <1>1, <1>2

\* The bounds of what is kept.
LEMMA FirstBounds ==
  ASSUME FilesAssumption, NEW n \in Nat
  PROVE  /\ First(n) \in 1..n + 1 /\ First(n) \in Nat
         /\ n - First(n) + 1 = IF n < Keep THEN n ELSE Keep
         /\ n > 0 => First(n - 1) <= First(n) /\ First(n) > n - Keep
                     /\ \A i \in First(n - 1)..n : i > n - Keep => i >= First(n)
<1>1. Keep \in Nat /\ Keep > 0
  BY DEF FilesAssumption
<1> QED
  BY <1>1 DEF First

\* A prune removes, of the oldest, what is too much; the index forgets no more.
LEMMA PruneStore ==
  ASSUME FilesAssumption, RacesInv, StoreInv, Left = 1, NEW stuck, Prune(stuck),
         races' = races, Left' = 0
  PROVE  StoreInv'
<1> DEFINE doomed == Doomed(Refreshed)
           gone == doomed \ stuck
           items == DOMAIN Refreshed
<1>1. /\ stuck \subseteq doomed
      /\ dir' = [n \in DOMAIN dir \ gone |->
                   IF n \in stuck THEN [dir[n] EXCEPT !.table = FALSE] ELSE dir[n]]
      /\ mItems' = Remaining(Refreshed, doomed, stuck)
      /\ faults' = IF stuck = {} THEN faults ELSE faults + 1
  BY DEF Prune
<1>2. items = {n \in DOMAIN dir : dir[n].whole} /\ \A n \in items : Refreshed[n].table = dir[n].table
  BY RefreshedTrue
<1>3. Len(races) \in Nat /\ faults \in Nat
  BY DEF RacesInv
<1>4. doomed = {n \in items : Cardinality({m \in items : Newer(m, n)}) >= Keep}
  BY DEF Doomed
<1>5. DOMAIN mItems' = items \ doomed /\ \A n \in items \ doomed : mItems'[n] = Refreshed[n]
  BY <1>1 DEF Remaining, Restrict
<1> HIDE DEF doomed, gone, items
<1>6. DOMAIN dir' = DOMAIN dir \ gone
  BY <1>1
<1>7. \A n \in DOMAIN dir' : dir'[n] = IF n \in stuck THEN [dir[n] EXCEPT !.table = FALSE] ELSE dir[n]
  BY <1>1
<1>8. \A n \in DOMAIN dir' : dir'[n] \in EntryType /\ dir'[n].at = races[n].at
  <2> SUFFICES ASSUME NEW n \in DOMAIN dir'
               PROVE  dir'[n] \in EntryType /\ dir'[n].at = races[n].at
    OBVIOUS
  <2>1. dir[n] \in EntryType /\ dir[n].at = races[n].at
    BY <1>6 DEF StoreInv
  <2>2. CASE n \in stuck
    <3>1. dir'[n] = [dir[n] EXCEPT !.table = FALSE]
      BY <2>2, <1>7
    <3> QED
      BY <2>1, <3>1 DEF EntryType
  <2>3. CASE n \notin stuck
    BY <2>1, <2>3, <1>7
  <2> QED
    BY <2>2, <2>3
<1>9. \A n \in DOMAIN mItems' : /\ n \in DOMAIN dir'
                                /\ dir'[n].whole
                                /\ mItems'[n].table = dir'[n].table
  <2> SUFFICES ASSUME NEW n \in items, n \notin doomed
               PROVE  n \in DOMAIN dir' /\ dir'[n].whole /\ Refreshed[n].table = dir'[n].table
    BY <1>5
  <2>1. n \in DOMAIN dir' /\ n \notin stuck
    BY <1>1, <1>2, <1>6 DEF gone
  <2>2. dir'[n] = dir[n]
    BY <1>7, <2>1
  <2> QED
    BY <1>2, <2>1, <2>2
<1>10. ASSUME faults' = 0
       PROVE  /\ DOMAIN dir' = First(Len(races))..Len(races)
              /\ \A n \in DOMAIN dir' : dir'[n].whole /\ dir'[n].table
  <2> DEFINE N == Len(races)
             a == First(N - 1)
  <2>1. faults = 0 /\ stuck = {}
    BY <1>1, <1>3, <1>10
  <2>2. /\ DOMAIN dir = a..N
        /\ \A n \in DOMAIN dir : dir[n].whole /\ dir[n].table
    BY <2>1 DEF StoreInv
  <2>3. items = a..N
    BY <1>2, <2>2
  <2>4. N > 0 /\ N - 1 \in Nat /\ Keep \in Nat
    BY <1>3 DEF RacesInv, FilesAssumption
  <2>5. a \in Nat /\ First(N) \in Nat /\ a <= First(N) /\ First(N) > N - Keep
        /\ \A i \in a..N : i > N - Keep => i >= First(N)
    BY <1>3, <2>4, FirstBounds
  <2>6. \A n \in a..N : Cardinality({m \in items : Newer(m, n)}) = N - n
    <3> SUFFICES ASSUME NEW n \in a..N
                 PROVE  Cardinality({m \in items : Newer(m, n)}) = N - n
      OBVIOUS
    <3>1. \A m \in a..N : Newer(m, n) <=> m > n
      BY <2>2, NewerIsLater
    <3> HIDE DEF N, a
    <3>2. {m \in items : Newer(m, n)} = n + 1..N
      BY <2>3, <2>5, <3>1, <1>3 DEF N
    <3>3. n + 1 \in Int /\ N \in Int /\ (n + 1 > N => N - n = 0)
      BY <2>5, <1>3 DEF N
    <3>4. Cardinality(n + 1..N) = IF n + 1 > N THEN 0 ELSE N - (n + 1) + 1
      BY <3>3, FS_Interval
    <3>5. n \in Int /\ N - (n + 1) + 1 = N - n
      BY <2>5, <3>3
    <3> QED
      BY <3>2, <3>3, <3>4, <3>5
  <2> HIDE DEF N, a
  <2>7. \A n \in a..N : n \in gone <=> N - n >= Keep
    BY <1>4, <2>1, <2>3, <2>6 DEF gone
  <2>8. DOMAIN dir' = First(N)..N
    <3>1. \A n \in a..N : N - n >= Keep <=> ~(n > N - Keep)
      BY <2>4, <2>5, <1>3 DEF N
    <3>2. \A n \in First(N)..N : n \in a..N /\ n > N - Keep
      BY <2>4, <2>5, <1>3 DEF N
    <3>3. \A n \in a..N : n > N - Keep => n \in First(N)..N
      BY <2>5
    <3>4. DOMAIN dir' = (a..N) \ gone
      BY <1>6, <2>2 DEF N, a
    <3> QED
      BY <2>7, <3>1, <3>2, <3>3, <3>4
  <2>9. \A n \in DOMAIN dir' : dir'[n] = dir[n] /\ n \in DOMAIN dir
    BY <1>6, <1>7, <2>1
  <2> QED
    BY <2>2, <2>8, <2>9 DEF N
<1>11. DOMAIN dir' \subseteq 1..Len(races)
  BY <1>6 DEF StoreInv
<1> QED
  BY <1>8, <1>9, <1>10, <1>11 DEF StoreInv

\* A replay, whole or not, is a new file.
LEMMA NewReplayIs ==
  ASSUME RacesInv, StoreInv, Left = 3, NEW whole \in BOOLEAN, NEW d, d = NewReplay(whole)
  PROVE  /\ DOMAIN d = DOMAIN dir \union {Len(races)}
         /\ Len(races) \notin DOMAIN dir
         /\ \A n \in DOMAIN dir : d[n] = dir[n]
         /\ d[Len(races)] = [at |-> second, whole |-> whole, table |-> FALSE]
         /\ d[Len(races)] \in EntryType
         /\ d[Len(races)].at = races[Len(races)].at
         /\ Len(races) \in 1..Len(races) /\ Len(races) \in Nat
<1>1. /\ Len(races) \in Nat /\ Len(races) > 0 /\ races[Len(races)].at = second
      /\ Len(races) \notin DOMAIN dir /\ second \in 0..MaxSecond
  BY DEF RacesInv, StoreInv
<1>2. /\ DOMAIN d = DOMAIN dir \union {Len(races)}
      /\ \A n \in DOMAIN dir : n # Len(races) => d[n] = dir[n]
      /\ d[Len(races)] = [at |-> second, whole |-> whole, table |-> FALSE]
  BY DEF NewReplay, Newest
<1>3. [at |-> second, whole |-> whole, table |-> FALSE] \in EntryType
  BY <1>1 DEF EntryType
<1> QED
  BY <1>1, <1>2, <1>3

\* Write.
LEMMA WriteStore ==
  ASSUME FilesAssumption, RacesInv, StoreInv, Write
  PROVE  StoreInv'
<1> DEFINE N == Len(races)
<1>0. Left \in 1..6 /\ N \in Nat /\ N > 0 /\ Left' = Left - 1 /\ races' = races /\ faults \in Nat
  <2>1. Left \in 1..6 /\ N \in Nat /\ Left' = Left - 1 /\ races' = races
    BY WriteCases
  <2> QED
    BY <2>1 DEF RacesInv
<1>1. CASE Left \in 4..6
  <2>1. UNCHANGED <<dir, mItems>> /\ (faults' = 0 => faults = 0)
    BY <1>0, <1>1, WriteCases
  <2>2. Left' >= 3 /\ Left >= 3 /\ Left' # 2 /\ Left # 2 /\ Left' # 0 /\ Left # 0
    BY <1>0, <1>1
  <2> QED
    BY <1>0, <2>1, <2>2 DEF StoreInv
<1>2. CASE Left = 3
  <2>0. /\ mItems' = mItems /\ Left' = 2
        /\ \/ dir' = dir /\ faults' # 0
           \/ \E whole \in BOOLEAN : dir' = NewReplay(whole) /\ faults' = (IF whole THEN faults ELSE faults + 1)
    <3>0. WriteReplay
      BY <1>2, WriteCases
    <3>1. mItems' = mItems /\ Left' = 2
      BY <1>0, <1>2, <3>0 DEF WriteReplay
    <3>2. faults + 1 # 0
      BY <1>0
    <3>3. CASE dir' = NewReplay(TRUE) /\ faults' = faults
      BY <3>1, <3>3
    <3>4. CASE dir' = NewReplay(FALSE) /\ faults' = faults + 1
      BY <3>1, <3>4
    <3>5. CASE dir' = dir /\ faults' = faults + 1
      BY <3>1, <3>2, <3>5
    <3> QED
      BY <3>0, <3>3, <3>4, <3>5 DEF WriteReplay
  <2>a. CASE dir' = dir /\ faults' # 0
    <3>1. Left' # 0 /\ ~(Left' >= 3) /\ Len(races) \notin DOMAIN dir
      BY <1>2, <2>0 DEF StoreInv
    <3> QED
      BY <1>0, <2>0, <2>a, <3>1 DEF StoreInv
  <2>b. CASE \E whole \in BOOLEAN : dir' = NewReplay(whole) /\ faults' = (IF whole THEN faults ELSE faults + 1)
    <3>1. PICK whole \in BOOLEAN :
            /\ dir' = NewReplay(whole)
            /\ faults' = IF whole THEN faults ELSE faults + 1
      BY <2>b
    <3>2. /\ DOMAIN dir' = DOMAIN dir \union {N}
          /\ N \notin DOMAIN dir
          /\ \A n \in DOMAIN dir : dir'[n] = dir[n]
          /\ dir'[N] = [at |-> second, whole |-> whole, table |-> FALSE]
          /\ dir'[N] \in EntryType
          /\ dir'[N].at = races[N].at
          /\ N \in 1..N
      BY <1>2, <3>1, NewReplayIs
    <3> HIDE DEF N
    <3>4. faults' = 0 => faults = 0 /\ whole
      BY <1>0, <3>1
    <3>5. faults' = 0 => DOMAIN dir' = First(N - 1)..N
      <4> SUFFICES ASSUME faults' = 0 PROVE DOMAIN dir' = First(N - 1)..N
        OBVIOUS
      <4>1. DOMAIN dir = First(N - 1)..N - 1
        BY <1>2, <3>4 DEF StoreInv, N
      <4>2. First(N - 1) \in 1..(N - 1) + 1 /\ N - 1 \in Nat
        BY <1>0, FirstBounds
      <4> QED
        BY <1>0, <3>2, <4>1, <4>2
    <3>6. faults' = 0 => \A n \in DOMAIN dir' : dir'[n].whole /\ (dir'[n].table \/ n = N)
      <4>1. faults' = 0 => \A n \in DOMAIN dir : dir[n].whole /\ dir[n].table
        BY <1>2, <3>4 DEF StoreInv
      <4>2. dir'[N].whole = whole
        BY <3>2
      <4> QED
        BY <3>2, <3>4, <4>1, <4>2
    <3>7. \A n \in DOMAIN mItems : n \in DOMAIN dir' /\ dir'[n].whole
                                  /\ mItems[n].table = dir'[n].table /\ n # N
      BY <3>2 DEF StoreInv
    <3>8. \A n \in DOMAIN dir' : dir'[n] \in EntryType /\ dir'[n].at = races[n].at /\ n \in 1..N
      BY <3>2 DEF StoreInv, N
    <3> QED
      BY <1>0, <2>0, <3>2, <3>5, <3>6, <3>7, <3>8 DEF StoreInv, N
  <2> QED
    BY <2>0, <2>a, <2>b
<1>3. CASE Left = 2
  <2>1. /\ mItems' = mItems /\ Left' = 1
        /\ (dir' = Tabled /\ faults' = faults) \/ (dir' = dir /\ faults' # 0)
    BY <1>0, <1>3, WriteCases DEF WriteTable
  <2> HIDE DEF N
  <2>2. \A n \in DOMAIN dir : dir[n] \in EntryType /\ dir[n].at = races[n].at /\ n \in 1..N
    BY DEF StoreInv, N
  <2>3. \A n \in DOMAIN mItems : n \in DOMAIN dir /\ dir[n].whole /\ mItems[n].table = dir[n].table /\ n # N
    BY <1>3 DEF StoreInv, N
  <2>4. faults = 0 => /\ DOMAIN dir = First(N - 1)..N
                      /\ \A n \in DOMAIN dir : dir[n].whole /\ (dir[n].table \/ n = N)
    BY <1>3 DEF StoreInv, N
  <2>5. CASE dir' = dir /\ faults' # 0
    BY <1>0, <2>1, <2>2, <2>3, <2>5 DEF StoreInv, N
  <2>6. CASE dir' = Tabled /\ faults' = faults
    <3>1. /\ DOMAIN dir' = DOMAIN dir
          /\ \A n \in DOMAIN dir : n # N => dir'[n] = dir[n]
          /\ N \in DOMAIN dir => dir'[N] = [dir[N] EXCEPT !.table = TRUE]
      BY <2>6 DEF Tabled, Newest, N
    <3>2. N \in DOMAIN dir => /\ dir'[N] \in EntryType /\ dir'[N].at = dir[N].at
                             /\ dir'[N].whole = dir[N].whole /\ dir'[N].table = TRUE
      BY <2>2, <3>1 DEF EntryType
    <3>3. \A n \in DOMAIN dir' : dir'[n] \in EntryType /\ dir'[n].at = races[n].at /\ n \in 1..N
      BY <2>2, <3>1, <3>2
    <3>4. \A n \in DOMAIN mItems' : n \in DOMAIN dir' /\ dir'[n].whole /\ mItems'[n].table = dir'[n].table
      BY <2>1, <2>3, <3>1
    <3>5. faults' = 0 => /\ DOMAIN dir' = First(N - 1)..N
                         /\ \A n \in DOMAIN dir' : dir'[n].whole /\ dir'[n].table
      BY <2>4, <2>6, <3>1, <3>2
    <3> QED
      BY <1>0, <2>1, <3>3, <3>4, <3>5 DEF StoreInv, N
  <2> QED
    BY <2>1, <2>5, <2>6
<1>4. CASE Left = 1
  <2>1. PICK stuck : Prune(stuck)
    BY <1>4, WriteCases
  <2> QED
    BY <1>0, <1>4, <2>1, PruneStore
<1> QED
  BY <1>0, <1>1, <1>2, <1>3, <1>4

\* Finish: one race more, of which nothing is in the directory yet.
LEMMA FinishStore ==
  ASSUME FilesAssumption, RacesInv, StoreInv,
         NEW who \in Pairs \union {Group, Solo}, NEW ms \in Times, Finish(who, ms)
  PROVE  StoreInv'
<1> DEFINE N == Len(races)
<1>1. /\ Left = 0 /\ N \in Nat /\ Len(races') = N + 1
      /\ \A i \in 1..N : races'[i] = races[i]
      /\ Left' = IF Scores(who, second) THEN 6 ELSE 3
  BY FinishRaces
<1>2. UNCHANGED <<dir, mItems, faults>>
  BY DEF Finish
<1>3. Left' >= 3 /\ Left' # 2 /\ Left' # 0 /\ (N + 1) - 1 = N /\ N + 1 \notin 1..N
  BY <1>1
<1>4. \A n \in DOMAIN dir : n \in 1..N /\ n \in 1..N + 1 /\ dir[n] \in EntryType /\ dir[n].at = races'[n].at
  BY <1>1 DEF StoreInv
<1>5. faults = 0 => /\ DOMAIN dir = First(N)..N
                    /\ \A n \in DOMAIN dir : dir[n].whole /\ dir[n].table
  BY <1>1 DEF StoreInv
<1>6. \A n \in DOMAIN mItems : n \in DOMAIN dir /\ dir[n].whole /\ mItems[n].table = dir[n].table
  BY DEF StoreInv
<1> HIDE DEF N
<1> QED
  BY <1>1, <1>2, <1>3, <1>4, <1>5, <1>6 DEF StoreInv

\* Look, and the time.
LEMMA LookStore ==
  ASSUME StoreInv, Left = 0, UNCHANGED <<races, dir, todo, faults>>,
         mItems' = mItems \/ mItems' = Refreshed
  PROVE  StoreInv'
<1>1. Left' = 0
  BY DEF Left
<1>2. \A n \in DOMAIN mItems' : n \in DOMAIN dir /\ dir[n].whole /\ mItems'[n].table = dir[n].table
  <2>1. CASE mItems' = mItems
    BY <2>1 DEF StoreInv
  <2>2. CASE mItems' = Refreshed
    BY <2>2, RefreshedTrue
  <2> QED
    BY <2>1, <2>2
<1> QED
  BY <1>1, <1>2 DEF StoreInv

\* The process ends, and starts again with an empty index.
LEMMA RestartStore ==
  ASSUME FilesAssumption, RacesInv, StoreInv, FilesRestart, Left' = 0
  PROVE  StoreInv'
<1>1. /\ races' = races /\ mItems' = <<>>
      /\ faults' = IF todo = <<>> THEN faults ELSE faults + 1
      /\ dir' = dir \/ (todo # <<>> /\ Head(todo)[1] = "replay" /\ dir' = NewReplay(FALSE))
  BY DEF FilesRestart
<1>2. faults \in Nat /\ Len(races) \in Nat
  BY DEF RacesInv
<1>3. DOMAIN mItems' = {}
  BY <1>1
<1>4. \A n \in DOMAIN dir' : n \in 1..Len(races) /\ dir'[n] \in EntryType /\ dir'[n].at = races[n].at
  <2>1. CASE dir' = dir
    BY <2>1 DEF StoreInv
  <2>2. CASE todo # <<>> /\ Head(todo)[1] = "replay" /\ dir' = NewReplay(FALSE)
    <3>1. Left \in 1..6 /\ Head(todo) = ItemAt(Len(races), Left)
      BY <2>2, NextItem
    <3>2. Left = 3
      <4>1. Left = 1 \/ Left = 2 \/ Left = 3 \/ Left = 4 \/ Left = 5 \/ Left = 6
        BY <3>1
      <4>2. <<"prune">>[1] # "replay" /\ <<"table">>[1] # "replay" /\ "R" # "replay" /\ "S" # "replay"
        OBVIOUS
      <4> QED
        BY <1>2, <2>2, <3>1, <4>1, <4>2, ItemKinds
    <3>3. /\ DOMAIN dir' = DOMAIN dir \union {Len(races)}
          /\ \A n \in DOMAIN dir : dir'[n] = dir[n]
          /\ dir'[Len(races)] \in EntryType
          /\ dir'[Len(races)].at = races[Len(races)].at
          /\ Len(races) \in 1..Len(races)
      BY <2>2, <3>2, NewReplayIs
    <3> QED
      BY <3>3 DEF StoreInv
  <2> QED
    BY <1>1, <2>1, <2>2
<1>5. faults' = 0 => faults = 0 /\ Left = 0 /\ dir' = dir
  <2>1. faults \in Nat /\ faults' = (IF todo = <<>> THEN faults ELSE faults + 1)
    BY DEF RacesInv, FilesRestart
  <2>2. faults' = 0 => faults = 0 /\ todo = <<>>
    BY <2>1
  <2>3. todo = <<>> => Left = 0 /\ dir' = dir
    <3> SUFFICES ASSUME todo = <<>>  PROVE  Left = 0 /\ dir' = dir
      OBVIOUS
    <3>1. Left = 0
      BY EmptySeq DEF Left
    <3>2. dir' = dir
      BY DEF FilesRestart
    <3> QED
      BY <3>1, <3>2
  <2> QED
    BY <2>2, <2>3
<1>6. faults' = 0 => /\ DOMAIN dir' = First(Len(races))..Len(races)
                     /\ \A n \in DOMAIN dir' : dir'[n].whole /\ dir'[n].table
  BY <1>5 DEF StoreInv
<1> QED
  BY <1>1, <1>3, <1>4, <1>6 DEF StoreInv

-----------------------------------------------------------------------------
(***************************************************************************)
(* What the invariant says, and the theorems.                              *)
(***************************************************************************)
\* The league, to those who use it.
LEMMA LeagueInvImplies ==
  ASSUME FilesAssumption, FilesInv
  PROVE  LeagueKept
<1>0. RacesInv /\ LeagueInv /\ StoreInv
  BY DEF FilesInv
<1>1. races \in Seq(Runs) /\ Len(races) \in Nat /\ Numbers = 1..Len(races)
  BY <1>0 DEF RacesInv, Numbers
<1>2. FilesTypeOK
  <2>1. /\ league \union missed \subseteq UNION {{R(n), S(n, 1), S(n, 2)} : n \in Numbers}
        /\ torn \subseteq league \union {Half}
    BY <1>0, <1>1 DEF LeagueInv, LinesOf
  <2>2. mRows \subseteq {S(n, p) : n \in Numbers, p \in 1..2}
    <3> SUFFICES ASSUME NEW line \in Booked, line[1] = "S"
                 PROVE  line \in {S(n, p) : n \in Numbers, p \in 1..2}
      BY <1>0 DEF LeagueInv, RowsIn
    <3>1. PICK n \in 1..Len(races) : line \in LinesOf(n)
      BY <1>0, BookedOf
    <3>2. line = S(n, 1) \/ line = S(n, 2)
      BY <3>1, LinesDiffer DEF LinesOf
    <3>3. 1 \in 1..2 /\ 2 \in 1..2 /\ n \in Numbers
      BY <1>1
    <3> QED
      BY <3>2, <3>3
  <2>3. DOMAIN dir \subseteq Numbers /\ DOMAIN mItems \subseteq Numbers
        /\ \A n \in DOMAIN dir : dir[n] \in EntryType
    BY <1>0, <1>1 DEF StoreInv
  <2> QED
    BY <1>0, <2>1, <2>2, <2>3 DEF FilesTypeOK, RacesInv, LeagueInv
<1>3. \A k, lines : DuelsOf(lines, k) = Wins(races, lines, k)
  BY DEF Wins, DuelsOf, Duel, Numbers
<1>4. CapHolds
  <2> SUFFICES ASSUME NEW k \in Pairs \X Days
               PROVE  Cardinality({n \in Numbers : S(n, 1) \in league /\ races[n].who \in Pairs /\ Duel(n) = k})
                        <= DuelsPerDay + Cardinality(Wins(races, missed, k))
    BY <1>3 DEF CapHolds
  <2> DEFINE T == {n \in Numbers : S(n, 1) \in league /\ races[n].who \in Pairs /\ Duel(n) = k}
             A == Wins(races, league, k)
             B == Wins(races, missed, k)
  <2>1. T \in SUBSET (A \union B)
    BY <1>0, <1>1 DEF LeagueInv, Wins, Duel, Numbers
  <2>2. /\ IsFiniteSet(A) /\ Cardinality(A) \in Nat
        /\ IsFiniteSet(B) /\ Cardinality(B) \in Nat
    BY <1>1, WinsBounds
  <2>3. Cardinality(A) <= Cardinality(Wins(races, Sure, k)) /\ Cardinality(Wins(races, Sure, k)) \in Nat
    BY <1>0, <1>1, WinsBounds, BookedOf
  <2>4. mDuels[k] \in 0..DuelsPerDay /\ Cardinality(Wins(races, Sure, k)) <= mDuels[k] /\ DuelsPerDay \in Nat
    BY <1>0 DEF LeagueInv, FilesAssumption
  <2> HIDE DEF T, A, B
  <2>5. /\ IsFiniteSet(A \union B) /\ IsFiniteSet(A \cap B)
        /\ Cardinality(A \union B) = Cardinality(A) + Cardinality(B) - Cardinality(A \cap B)
    BY <2>2, FS_Union, FS_Intersection
  <2>6. Cardinality(A \cap B) \in Nat
    BY <2>5, FS_CardinalityType
  <2>7. Cardinality(T) \in Nat /\ Cardinality(T) <= Cardinality(A \union B)
    BY <2>1, <2>5, FS_Subset, FS_CardinalityType
  <2>8. Cardinality(T) <= DuelsPerDay + Cardinality(B)
    BY <2>2, <2>3, <2>4, <2>5, <2>6, <2>7
  <2> QED
    BY <2>8 DEF T, B
<1>5. ReadsBack
  <2> SUFFICES ASSUME todo = <<>>
               PROVE  /\ \A k \in Pairs \X Days :
                           /\ Cardinality(Wins(races, league, k)) <= mDuels[k]
                           /\ mDuels[k] <= Cardinality(Wins(races, league \union missed, k))
                      /\ RowsIn(league) \subseteq mRows /\ mRows \subseteq RowsIn(league \union missed)
    BY <1>3 DEF ReadsBack
  <2>1. Sure = league /\ Booked = league \union missed
    <3>1. Left = 0
      BY EmptySeq DEF Left
    <3> QED
      BY <1>0, <3>1, BookedOf
  <2>2. /\ \A k \in Pairs \X Days :
             /\ Cardinality(Wins(races, Sure, k)) <= mDuels[k]
             /\ mDuels[k] <= Cardinality(Wins(races, Booked, k))
        /\ RowsIn(Sure) \subseteq mRows /\ mRows \subseteq RowsIn(Booked)
    BY <1>0 DEF LeagueInv
  <2> QED
    BY <2>1, <2>2
<1> QED
  BY <1>2, <1>4, <1>5 DEF LeagueKept

\* The store, to those who use it.
LEMMA StoreInvImplies ==
  ASSUME FilesAssumption, FilesInv
  PROVE  StoreTrue
<1>0. RacesInv /\ StoreInv
  BY DEF FilesInv
<1> DEFINE N == Len(races)
<1>1. N \in Nat /\ Numbers = 1..N /\ (todo = <<>> => Left = 0)
  BY <1>0, EmptySeq DEF RacesInv, Numbers, Left
<1>2. KeepsNewest
  <2> SUFFICES ASSUME faults = 0, todo = <<>>
               PROVE  /\ Cardinality(DOMAIN dir) = (IF N < Keep THEN N ELSE Keep)
                      /\ \A n \in DOMAIN dir : dir[n].whole /\ dir[n].table
                      /\ \A n \in DOMAIN dir, m \in Numbers \ DOMAIN dir : races[m].at <= dir[n].at
    BY DEF KeepsNewest
  <2>1. /\ DOMAIN dir = First(N)..N
        /\ \A n \in DOMAIN dir : dir[n].whole /\ dir[n].table
    BY <1>0, <1>1 DEF StoreInv
  <2>2. First(N) \in 1..N + 1 /\ N - First(N) + 1 = IF N < Keep THEN N ELSE Keep
    BY <1>1, FirstBounds
  <2>3. Cardinality(First(N)..N) = IF First(N) > N THEN 0 ELSE N - First(N) + 1
    <3> HIDE DEF N
    <3>1. N \in Int /\ First(N) \in Int
      BY <1>1, <2>2
    <3>2. \A a \in Int, b \in Int : Cardinality(a..b) = IF a > b THEN 0 ELSE b-a+1
      BY FS_Interval
    <3> QED
      BY <3>1, <3>2
  <2>4. First(N) > N => N - First(N) + 1 = 0
    BY <1>1, <2>2
  <2>5. Cardinality(DOMAIN dir) = (IF N < Keep THEN N ELSE Keep)
    BY <2>1, <2>2, <2>3, <2>4
  <2>6. \A n \in DOMAIN dir, m \in Numbers \ DOMAIN dir : races[m].at <= dir[n].at
    <3> SUFFICES ASSUME NEW n \in First(N)..N, NEW m \in 1..N, m \notin First(N)..N
                 PROVE  races[m].at <= races[n].at
      BY <1>0, <1>1, <2>1 DEF StoreInv
    <3>1. m <= n /\ n \in 1..N
      BY <1>1, <2>2
    <3> QED
      BY <1>0, <3>1 DEF RacesInv
  <2> QED
    BY <2>1, <2>5, <2>6
<1>3. IndexTrue
  BY <1>0 DEF IndexTrue, StoreInv
<1> QED
  BY <1>2, <1>3 DEF StoreTrue

-----------------------------------------------------------------------------
(***************************************************************************)
(* The board.                                                              *)
(***************************************************************************)
\* f counts a set of numbers up.
Ascends(f, set) ==
  /\ IsFiniteSet(set)
  /\ f \in [1..Cardinality(set) -> set]
  /\ \A t \in set : \E i \in 1..Cardinality(set) : f[i] = t
  /\ \A i, j \in 1..Cardinality(set) : i < j => f[i] < f[j]

\* A set of numbers with a last one can be counted up when the rest can.
LEMMA AscendsOneMore ==
  ASSUME NEW k \in Nat, NEW set \in SUBSET (1..k + 1), k + 1 \in set, NEW f, Ascends(f, set \ {k + 1})
  PROVE  \E g : Ascends(g, set)
<1> DEFINE rest == set \ {k + 1}
           c == Cardinality(set)
<1>1. IsFiniteSet(set)
  <2>1. k + 1 \in Int /\ 1 \in Int
    OBVIOUS
  <2>2. IsFiniteSet(1..k + 1)
    BY <2>1, FS_Interval
  <2> QED
    BY <2>2, FS_Subset
<1>2. c \in Nat /\ Cardinality(rest) = c - 1 /\ c - 1 \in Nat
  <2>1. c \in Nat /\ Cardinality(rest) = c - 1
    BY <1>1, FS_CardinalityType, FS_RemoveElement
  <2>2. Cardinality(rest) \in Nat
    BY <1>1, FS_CardinalityType, FS_RemoveElement
  <2> QED
    BY <2>1, <2>2
<1> HIDE DEF c
<1>3. /\ f \in [1..c - 1 -> rest]
      /\ \A t \in rest : \E i \in 1..c - 1 : f[i] = t
      /\ \A i, j \in 1..c - 1 : i < j => f[i] < f[j]
  BY <1>2 DEF Ascends
<1> DEFINE g == [i \in 1..c |-> IF i = c THEN k + 1 ELSE f[i]]
<1>4. \A i \in 1..c : i # c => i \in 1..c - 1 /\ g[i] = f[i] /\ g[i] \in rest
  BY <1>2, <1>3
<1>5. c \in 1..c /\ g[c] = k + 1
  BY <1>2
<1>6. g \in [1..c -> set]
  BY <1>4
<1>7. \A t \in set : \E i \in 1..c : g[i] = t
  <2> SUFFICES ASSUME NEW t \in set PROVE \E i \in 1..c : g[i] = t
    OBVIOUS
  <2>1. CASE t = k + 1
    BY <2>1, <1>5
  <2>2. CASE t # k + 1
    <3>1. PICK i \in 1..c - 1 : f[i] = t
      BY <2>2, <1>3
    <3>2. i \in 1..c /\ i # c
      BY <1>2
    <3> QED
      BY <3>1, <3>2
  <2> QED
    BY <2>1, <2>2
<1>8. \A i, j \in 1..c : i < j => g[i] < g[j]
  <2> SUFFICES ASSUME NEW i \in 1..c, NEW j \in 1..c, i < j PROVE g[i] < g[j]
    OBVIOUS
  <2>1. i # c
    BY <1>2
  <2>2. g[i] = f[i] /\ i \in 1..c - 1 /\ g[i] \in 1..k
    <3>1. g[i] = f[i] /\ i \in 1..c - 1 /\ g[i] \in rest
      BY <2>1, <1>4
    <3>2. rest \subseteq 1..k
      OBVIOUS
    <3> HIDE DEF g, rest
    <3> QED
      BY <3>1, <3>2
  <2>3. CASE j = c
    BY <2>2, <2>3, <1>5
  <2>4. CASE j # c
    BY <2>2, <2>4, <1>3, <1>4
  <2> QED
    BY <2>3, <2>4
<1> HIDE DEF g
<1>9. Ascends(g, set)
  BY <1>1, <1>6, <1>7, <1>8 DEF Ascends, c
<1> QED
  BY <1>9

\* A set of natural numbers with 0 and the successor of each of its elements.
LEMMA SetInduction ==
  ASSUME NEW T \in SUBSET Nat, 0 \in T, \A n \in T : n + 1 \in T
  PROVE  T = Nat
<1> DEFINE Less == OpToRel(<, Nat)
           U == Nat \ T
<1>1. SUFFICES ASSUME U # {} PROVE FALSE
  OBVIOUS
<1>2. IsWellFoundedOn(Less, Nat)
  BY NatLessThanWellFounded
<1> HIDE DEF Less
<1>3. PICK m \in U : \A k \in U : ~ (<<k, m>> \in Less)
  BY <1>1, <1>2, WFMin
<1>4. m # 0 /\ m - 1 \in Nat
  OBVIOUS
<1>5. m - 1 \in T
  <2>1. <<m - 1, m>> \in Less
    BY <1>4 DEF Less, OpToRel
  <2> QED
    BY <1>3, <1>4, <2>1
<1> QED
  BY <1>5

\* Every bounded set of numbers can be counted up.
LEMMA Counted ==
  ASSUME NEW bound \in Nat, NEW some \in SUBSET (1..bound)
  PROVE  \E f : Ascends(f, some)
<1> DEFINE T == {k \in Nat : \A set \in SUBSET (1..k) : \E f : Ascends(f, set)}
<1>1. 0 \in T
  <2> SUFFICES ASSUME NEW set \in SUBSET (1..0) PROVE \E f : Ascends(f, set)
    OBVIOUS
  <2>1. set = {}
    OBVIOUS
  <2>2. IsFiniteSet(set) /\ Cardinality(set) = 0
    BY <2>1, FS_EmptySet
  <2> DEFINE f == [i \in 1..0 |-> 0]
  <2>3. f \in [1..0 -> set] /\ 1..0 = {}
    OBVIOUS
  <2>4. Ascends(f, set)
    BY <2>1, <2>2, <2>3 DEF Ascends
  <2> QED
    BY <2>4
<1>2. ASSUME NEW k \in T PROVE k + 1 \in T
  <2> SUFFICES ASSUME NEW set \in SUBSET (1..k + 1) PROVE \E f : Ascends(f, set)
    OBVIOUS
  <2>0. k \in Nat /\ \A less \in SUBSET (1..k) : \E f : Ascends(f, less)
    OBVIOUS
  <2> HIDE DEF T
  <2>1. CASE k + 1 \notin set
    <3>1. set \in SUBSET (1..k)
      BY <2>0, <2>1
    <3> QED
      BY <2>0, <3>1
  <2>2. CASE k + 1 \in set
    <3>1. set \ {k + 1} \in SUBSET (1..k)
      BY <2>0
    <3>2. PICK f : Ascends(f, set \ {k + 1})
      BY <2>0, <3>1
    <3> QED
      BY <2>0, <2>2, <3>2, AscendsOneMore
  <2> QED
    BY <2>1, <2>2
<1>3. T = Nat
  <2>1. T \in SUBSET Nat
    OBVIOUS
  <2> HIDE DEF T
  <2> QED
    BY <1>1, <1>2, <2>1, SetInduction
<1>4. bound \in T
  <2> HIDE DEF T
  <2> QED
    BY <1>3
<1> QED
  BY <1>4

\* In a count of replays, the oldest come first.
LEMMA OldestFirstIs ==
  ASSUME RacesInv, StoreInv, NEW set \in SUBSET DOMAIN dir
  PROVE  Ascends(OldestFirst(set), set)
<1> DEFINE c == Cardinality(set)
           Fits(order) == \A i, j \in DOMAIN order : i < j => Newer(order[j], order[i])
<1>1. \A n, m \in set : Newer(m, n) <=> m > n
  BY NewerIsLater
<1>2. Len(races) \in Nat /\ set \in SUBSET (1..Len(races))
  BY DEF RacesInv, StoreInv
<1>3. PICK f : Ascends(f, set)
  BY <1>2, Counted
<1>4. f \in Surjection(1..c, set)
  BY <1>3 DEF Ascends, Surjection
<1>5. Fits(f)
  BY <1>1, <1>2, <1>3 DEF Ascends
<1>6. \E order \in Surjection(1..c, set) : Fits(order)
  BY <1>4, <1>5
<1>7. OldestFirst(set) \in Surjection(1..c, set) /\ Fits(OldestFirst(set))
  <2> HIDE DEF Fits
  <2>1. OldestFirst(set) = CHOOSE order \in Surjection(1..c, set) : Fits(order)
    BY DEF OldestFirst, Fits
  <2> QED
    BY <1>6, <2>1
<1> DEFINE o == OldestFirst(set)
<1>8. o \in [1..c -> set] /\ \A t \in set : \E i \in 1..c : o[i] = t
  BY <1>7 DEF Surjection
<1>9. \A i, j \in 1..c : i < j => o[i] < o[j]
  <2> SUFFICES ASSUME NEW i \in 1..c, NEW j \in 1..c, i < j PROVE o[i] < o[j]
    OBVIOUS
  <2>1. o[i] \in set /\ o[j] \in set
    BY <1>8
  <2>2. DOMAIN o = 1..c
    BY <1>8
  <2>3. Newer(o[j], o[i])
    BY <1>7, <2>2
  <2>4. o[j] > o[i]
    BY <1>1, <2>1, <2>3
  <2> QED
    BY <1>2, <2>1, <2>4
<1> HIDE DEF o
<1> QED
  BY <1>3, <1>8, <1>9 DEF Ascends, o

\* The holder after replay i of an order, when h holds those before.
HolderAt(o, h, i) ==
  IF i = 1 \/ Breaks(races[o[i]].ms, races[h[i - 1]].ms) THEN o[i] ELSE h[i - 1]

\* Each holder is told by the one before.
LEMMA HoldersIs ==
  ASSUME NEW c \in Nat, NEW o, DOMAIN o = 1..c
  PROVE  Holders(o) = [i \in 1..c |-> HolderAt(o, Holders(o), i)]
<1> DEFINE Is(h, k) == h = [i \in 1..k |-> HolderAt(o, h, i)]
           T == {k \in Nat : \E h : Is(h, k)}
<1>1. 0 \in T
  <2> DEFINE h == [i \in 1..0 |-> 0]
  <2>1. h = [i \in 1..0 |-> HolderAt(o, h, i)]
    OBVIOUS
  <2> QED
    BY <2>1
<1>2. ASSUME NEW k \in T PROVE k + 1 \in T
  <2>1. k \in Nat /\ \E h : Is(h, k)
    OBVIOUS
  <2>2. PICK h : h = [i \in 1..k |-> HolderAt(o, h, i)]
    BY <2>1
  <2> DEFINE g == [i \in 1..k + 1 |-> IF i = k + 1 THEN HolderAt(o, h, i) ELSE h[i]]
  <2>3. \A i \in 1..k + 1 : g[i] = HolderAt(o, g, i)
    <3> SUFFICES ASSUME NEW i \in 1..k + 1 PROVE g[i] = HolderAt(o, g, i)
      OBVIOUS
    <3>1. i = 1 \/ (i - 1 \in 1..k + 1 /\ i - 1 # k + 1)
      BY <2>1
    <3>2. i = 1 \/ g[i - 1] = h[i - 1]
      BY <3>1
    <3>3. HolderAt(o, g, i) = HolderAt(o, h, i)
      <4> HIDE DEF g
      <4> QED
        BY <3>2 DEF HolderAt
    <3>4. g[i] = HolderAt(o, h, i)
      <4>1. CASE i = k + 1
        BY <4>1
      <4>2. CASE i # k + 1
        <5>1. i \in 1..k
          BY <2>1, <4>2
        <5>2. h[i] = HolderAt(o, h, i)
          BY <2>2, <5>1
        <5> QED
          BY <4>2, <5>2
      <4> QED
        BY <4>1, <4>2
    <3> HIDE DEF g
    <3> QED
      BY <3>3, <3>4
  <2>4. g = [i \in 1..k + 1 |-> g[i]]
    OBVIOUS
  <2> HIDE DEF g
  <2>5. Is(g, k + 1)
    BY <2>3, <2>4
  <2>6. k + 1 \in Nat
    BY <2>1
  <2> HIDE DEF Is
  <2> QED
    BY <2>5, <2>6
<1>3. T = Nat
  <2>1. T \in SUBSET Nat
    OBVIOUS
  <2> HIDE DEF T
  <2> QED
    BY <1>1, <1>2, <2>1, SetInduction
<1>4. \E h : Is(h, c)
  <2>1. c \in T
    <3> HIDE DEF T
    <3> QED
      BY <1>3
  <2> HIDE DEF Is
  <2> QED
    BY <2>1
<1>5. Holders(o) = CHOOSE h : Is(h, c)
  BY DEF Holders, HolderAt
<1>6. Is(Holders(o), c)
  <2> HIDE DEF Is
  <2> QED
    BY <1>4, <1>5
<1> QED
  BY <1>6

\* n holds the record among these: the least time, and of equal times the oldest.
Holds(n, set) ==
  /\ n \in set
  /\ \A m \in set : races[n].ms <= races[m].ms /\ (races[n].ms = races[m].ms => n <= m)

\* The holder after the newest replay holds the record among all of them.
LEMMA LastHolds ==
  ASSUME FilesAssumption, RacesInv, NEW set \in SUBSET (1..Len(races)), set # {},
         NEW o, Ascends(o, set)
  PROVE  Holds(Holders(o)[Cardinality(set)], set)
<1> DEFINE c == Cardinality(set)
           h == Holders(o)
           Past(k) == {o[i] : i \in 1..k}
           T == {k \in Nat : k + 1 <= c => Holds(h[k + 1], Past(k + 1))}
<1>1. /\ c \in Nat /\ o \in [1..c -> set] /\ DOMAIN o = 1..c
      /\ \A t \in set : \E i \in 1..c : o[i] = t
      /\ \A i, j \in 1..c : i < j => o[i] < o[j]
  BY FS_CardinalityType DEF Ascends
<1>2. \A n \in set : n \in Nat /\ races[n].ms \in Nat
  <2>1. Len(races) \in Nat /\ \A n \in 1..Len(races) : races[n] \in Runs
    BY ElementOfSeq DEF RacesInv
  <2> QED
    <3>1. Times \subseteq Nat
      BY DEF FilesAssumption
    <3>2. \A n \in set : races[n].ms \in Times
      BY <2>1 DEF Runs
    <3>3. \A n \in set : n \in Nat
      OBVIOUS
    <3>4. \A n \in set : races[n].ms \in Nat
      BY <3>1, <3>2
    <3> QED
      BY <3>3, <3>4
<1> HIDE DEF c
<1>3. h = [i \in 1..c |-> HolderAt(o, h, i)]
  BY <1>1, HoldersIs
<1> HIDE DEF h
<1>4. \A i \in 1..c : h[i] = HolderAt(o, h, i)
  BY <1>3
<1>5. 0 \in T
  <2> SUFFICES ASSUME 0 + 1 <= c PROVE Holds(h[1], Past(1))
    OBVIOUS
  <2>1. 1 \in 1..c
    BY <1>1
  <2>2. h[1] = o[1] /\ o[1] \in set
    BY <1>1, <1>4, <2>1 DEF HolderAt
  <2>3. Past(1) = {o[1]}
    OBVIOUS
  <2>4. o[1] \in Nat /\ races[o[1]].ms \in Nat
    BY <1>2, <2>2
  <2> HIDE DEF Past
  <2>5. \A m \in Past(1) : m = o[1]
    BY <2>3
  <2>6. o[1] \in Past(1)
    BY <2>3
  <2> QED
    BY <2>2, <2>4, <2>5, <2>6 DEF Holds
<1>6. ASSUME NEW k \in T PROVE k + 1 \in T
  <2> SUFFICES ASSUME (k + 1) + 1 <= c PROVE Holds(h[(k + 1) + 1], Past((k + 1) + 1))
    OBVIOUS
  <2>1. k \in Nat /\ k + 1 <= c
    BY <1>1
  <2> DEFINE a == k + 1
             b == a + 1
  <2>2. Holds(h[a], Past(a))
    BY <2>1
  <2>3. a \in 1..c /\ b \in 2..c /\ b - 1 = a
    BY <1>1, <2>1
  <2>4. Past(b) = Past(a) \union {o[b]}
    <3>1. 1..b = 1..a \union {b}
      BY <2>1
    <3> HIDE DEF a, b
    <3> QED
      BY <3>1
  <2>5. o[b] \in set /\ Past(a) \subseteq set /\ \A m \in Past(a) : m < o[b]
    BY <1>1, <2>1
  <2> HIDE DEF a, b, Past, T
  <2>6. h[a] \in Past(a) /\ h[a] \in set
    BY <2>2, <2>5 DEF Holds
  <2>7. h[b] = IF races[o[b]].ms < races[h[a]].ms THEN o[b] ELSE h[a]
    BY <1>1, <1>4, <2>3 DEF HolderAt, Breaks
  <2>8. \A m \in Past(a) : /\ m \in Nat /\ races[m].ms \in Nat
                           /\ races[h[a]].ms <= races[m].ms
                           /\ (races[h[a]].ms = races[m].ms => h[a] <= m)
    BY <1>2, <2>2, <2>5 DEF Holds
  <2>9. /\ o[b] \in Nat /\ h[a] \in Nat /\ h[a] < o[b]
        /\ races[o[b]].ms \in Nat /\ races[h[a]].ms \in Nat
    BY <1>2, <2>5, <2>6
  <2>10. races[o[b]].ms < races[h[a]].ms => Holds(h[b], Past(b))
    <3>0. SUFFICES ASSUME races[o[b]].ms < races[h[a]].ms PROVE Holds(h[b], Past(b))
      OBVIOUS
    <3>1. h[b] = o[b] /\ o[b] \in Past(b)
      BY <2>4, <2>7, <3>0
    <3>2. \A m \in Past(a) : races[o[b]].ms < races[m].ms
      BY <2>8, <2>9, <3>0
    <3>3. \A m \in Past(b) : m = o[b] \/ (m \in Past(a) /\ m \in Nat /\ races[m].ms \in Nat)
      BY <2>4, <2>8
    <3>4. ASSUME NEW m \in Past(b)
          PROVE  races[o[b]].ms <= races[m].ms /\ (races[o[b]].ms = races[m].ms => o[b] <= m)
      <4>1. CASE m = o[b]
        BY <2>9, <4>1
      <4>2. CASE m # o[b]
        <5>1. m \in Past(a) /\ races[m].ms \in Nat /\ races[o[b]].ms < races[m].ms
          BY <3>2, <3>3, <4>2
        <5> QED
          BY <2>9, <5>1
      <4> QED
        BY <4>1, <4>2
    <3> QED
      BY <3>1, <3>4 DEF Holds
  <2>11. ~(races[o[b]].ms < races[h[a]].ms) => Holds(h[b], Past(b))
    <3>0. SUFFICES ASSUME ~(races[o[b]].ms < races[h[a]].ms) PROVE Holds(h[b], Past(b))
      OBVIOUS
    <3>1. h[b] = h[a] /\ h[a] \in Past(b)
      BY <2>4, <2>6, <2>7, <3>0
    <3>2. races[h[a]].ms <= races[o[b]].ms /\ h[a] <= o[b]
      BY <2>9, <3>0
    <3>3. \A m \in Past(b) : m = o[b] \/ m \in Past(a)
      BY <2>4
    <3>4. ASSUME NEW m \in Past(b)
          PROVE  races[h[a]].ms <= races[m].ms /\ (races[h[a]].ms = races[m].ms => h[a] <= m)
      BY <2>8, <3>2, <3>3
    <3> QED
      BY <3>1, <3>4 DEF Holds
  <2> QED
    BY <2>10, <2>11 DEF b, a
<1>7. T = Nat
  <2>1. T \in SUBSET Nat
    OBVIOUS
  <2> HIDE DEF T
  <2> QED
    BY <1>5, <1>6, <2>1, SetInduction
<1>8. c - 1 \in Nat /\ c - 1 + 1 = c
  <2>1. c # 0
    BY FS_EmptySet DEF c, Ascends
  <2> QED
    BY <1>1, <2>1
<1>9. Past(c) = set
  BY <1>1
<1>10. c - 1 \in T
  <2> HIDE DEF T
  <2> QED
    BY <1>7, <1>8
<1>11. Holds(h[c], Past(c))
  <2> HIDE DEF Past
  <2> QED
    BY <1>8, <1>10
<1> HIDE DEF Past
<1> QED
  BY <1>9, <1>11 DEF h, c

\* A set of numbers that is bounded and not empty has a greatest.
LEMMA Greatest ==
  ASSUME NEW bound \in Nat, NEW some \in SUBSET (1..bound), some # {}
  PROVE  \E n \in some : \A m \in some : m <= n
<1>1. PICK f : Ascends(f, some)
  BY Counted
<1> DEFINE c == Cardinality(some)
<1>2. c \in Nat /\ c # 0
  BY <1>1, FS_EmptySet, FS_CardinalityType DEF Ascends
<1> HIDE DEF c
<1>3. /\ f \in [1..c -> some] /\ \A t \in some : \E i \in 1..c : f[i] = t
      /\ \A i, j \in 1..c : i < j => f[i] < f[j]
  BY <1>1 DEF Ascends, c
<1>4. c \in 1..c /\ f[c] \in some
  BY <1>2, <1>3
<1>5. \A m \in some : m <= f[c]
  <2> SUFFICES ASSUME NEW m \in some PROVE m <= f[c]
    OBVIOUS
  <2>1. PICK i \in 1..c : f[i] = m
    BY <1>3
  <2>2. i = c \/ i < c
    BY <1>2
  <2>3. i = c \/ f[i] < f[c]
    BY <1>3, <1>4, <2>2
  <2>4. \A t \in some : t \in Nat
    OBVIOUS
  <2>5. m \in Nat /\ f[c] \in Nat
    BY <1>4, <2>4
  <2>6. m = f[c] \/ m < f[c]
    BY <2>1, <2>3
  <2> QED
    BY <2>5, <2>6
<1> QED
  BY <1>4, <1>5

\* The board, to those who use it: the one that broke the record last has the least
\* time of all and the oldest, and so has the one that leads.
LEMMA BoardsInvImplies ==
  ASSUME FilesAssumption, FilesInv
  PROVE  BoardsAgree
<1>0. RacesInv /\ StoreInv
  BY DEF FilesInv
<1> DEFINE set == Timed(mItems)
           top == RecordHolder(mItems)
           last == HolderAfter(mItems)
<1>1. SUFFICES ASSUME set # {}
               PROVE  top = last \/ (races[top].ms = races[last].ms /\ dir[top].at = dir[last].at)
  BY DEF BoardsAgree
<1>2. /\ set \in SUBSET DOMAIN dir /\ set \in SUBSET (1..Len(races)) /\ Len(races) \in Nat
      /\ \A n \in set : /\ n \in Nat /\ races[n].ms \in Nat /\ dir[n].at \in Nat
                        /\ dir[n].at = races[n].at
      /\ \A n, m \in set : n <= m => dir[n].at <= dir[m].at
  <2>1. set \in SUBSET DOMAIN dir
    BY <1>0 DEF StoreInv, Timed
  <2>2. /\ set \in SUBSET (1..Len(races)) /\ Len(races) \in Nat
        /\ \A n \in set : dir[n] \in EntryType /\ dir[n].at = races[n].at
    BY <1>0, <2>1 DEF StoreInv, RacesInv
  <2>3. \A n \in set : races[n] \in Runs
    BY <1>0, <2>2, ElementOfSeq DEF RacesInv
  <2>4. \A n \in set : n \in Nat /\ races[n].ms \in Nat /\ dir[n].at \in Nat
    <3>1. Times \subseteq Nat /\ MaxSecond \in Nat
      BY DEF FilesAssumption
    <3>2. \A n \in set : races[n].ms \in Times /\ dir[n].at \in 0..MaxSecond
      <4> HIDE DEF set
      <4> QED
        BY <2>2, <2>3 DEF Runs, EntryType
    <3>3. \A n \in set : n \in Nat
      <4> HIDE DEF set
      <4> QED
        BY <2>2
    <3> HIDE DEF set
    <3>4. \A n \in set : races[n].ms \in Nat
      BY <3>1, <3>2
    <3>5. \A n \in set : dir[n].at \in Nat
      BY <3>1, <3>2
    <3> QED
      BY <3>3, <3>4, <3>5
  <2>5. \A n, m \in set : n <= m => dir[n].at <= dir[m].at
    BY <1>0, <2>2 DEF RacesInv
  <2> HIDE DEF set
  <2> QED
    BY <2>1, <2>2, <2>4, <2>5
<1>3. Holds(last, set)
  <2>1. last = Holders(OldestFirst(set))[Cardinality(set)]
    BY DEF HolderAfter
  <2> HIDE DEF set, last
  <2> QED
    BY <1>0, <1>1, <1>2, <2>1, OldestFirstIs, LastHolds
<1> HIDE DEF last, set
<1>4. /\ last \in set
      /\ \A m \in set : races[last].ms <= races[m].ms /\ (races[last].ms = races[m].ms => last <= m)
  BY <1>3 DEF Holds
<1> DEFINE tied == {n \in set : races[n].ms = races[last].ms /\ dir[n].at = dir[last].at}
<1>5. PICK lead \in tied : \A m \in tied : m <= lead
  <2>1. tied \in SUBSET (1..Len(races)) /\ tied # {}
    BY <1>2, <1>4
  <2> HIDE DEF tied
  <2> QED
    BY <1>2, <2>1, Greatest
<1>6. \A m \in set \ {lead} : Faster(lead, m)
  <2> SUFFICES ASSUME NEW m \in set, m # lead PROVE Faster(lead, m)
    OBVIOUS
  <2>1. /\ lead \in set /\ races[lead].ms = races[last].ms /\ dir[lead].at = dir[last].at
        /\ lead \in Nat /\ m \in Nat /\ races[m].ms \in Nat /\ races[lead].ms \in Nat
        /\ dir[m].at \in Nat /\ dir[lead].at \in Nat
    BY <1>2, <1>5
  <2>2. CASE m \in tied
    <3>1. m <= lead
      BY <1>5, <2>2
    <3> QED
      BY <2>1, <2>2, <3>1 DEF Faster
  <2>3. CASE m \notin tied
    <3>1. races[last].ms <= races[m].ms /\ (races[last].ms = races[m].ms => dir[last].at <= dir[m].at)
      BY <1>2, <1>4
    <3> QED
      BY <2>1, <2>3, <3>1 DEF Faster
  <2> QED
    BY <2>2, <2>3
<1>7. top \in set /\ \A m \in set \ {top} : Faster(top, m)
  <2>1. top = CHOOSE n \in set : \A m \in set \ {n} : Faster(n, m)
    BY DEF RecordHolder, set
  <2> HIDE DEF top
  <2> QED
    BY <1>5, <1>6, <2>1
<1> HIDE DEF top
<1>8. CASE top = last
  BY <1>8
<1>9. CASE top # last
  <2>1. Faster(top, last)
    BY <1>4, <1>7, <1>9
  <2>2. /\ races[last].ms <= races[top].ms
        /\ (races[last].ms = races[top].ms => dir[last].at <= dir[top].at)
    BY <1>2, <1>4, <1>7
  <2>3. /\ races[last].ms \in Nat /\ races[top].ms \in Nat
        /\ dir[last].at \in Nat /\ dir[top].at \in Nat
    BY <1>2, <1>4, <1>7
  <2> QED
    BY <2>1, <2>2, <2>3 DEF Faster
<1> QED
  BY <1>8, <1>9

\* The day is that of the second.
ServerInv == LogInv /\ FilesInv /\ today = Day(second)

\* An empty server.
LEMMA ServerInit ==
  ASSUME AuditAssumption, FilesAssumption, WorkAssumption, Init
  PROVE  ServerInv
<1>1. /\ MaxRecords \in Nat /\ MaxWriteFaults \in Nat /\ MaxDay \in Nat
      /\ MaxRaces \in Nat /\ MaxSecond \in Nat /\ DuelsPerDay \in Nat /\ MaxFaults \in Nat
  BY DEF AuditAssumption, FilesAssumption
<1>2. \A T : <<>> \in Seq(T) /\ Len(<<>>) = 0
  BY EmptySeq
<1>3. Day(0) = 0
  <2>1. DaySeconds \in Nat \ {0}
    BY DEF FilesAssumption
  <2> QED
    BY <2>1 DEF Day
<1>4. LogInv
  BY <1>1, <1>2 DEF Init, AuditInit, LogInv, Chain, Rising, Reaches, Verifies, GoesOn, Genesis, CutHash
<1>5. RacesInv /\ Left = 0
  BY <1>1, <1>2 DEF Init, FilesInit, RacesInv, Left
<1>6. LeagueInv
  <2>1. races = <<>> /\ league = {} /\ torn = {} /\ missed = {} /\ mRows = {} /\ mDuels = NoDuels
    BY DEF Init, FilesInit
  <2>2. Pending = {}
    BY <1>5 DEF Pending
  <2>3. Sure = {} /\ Booked = {}
    BY <2>1, <2>2 DEF Sure, Booked
  <2>4. \A k : Wins(races, {}, k) = {}
    BY DEF Wins
  <2>5. Cardinality({}) = 0
    BY FS_EmptySet
  <2>6. mDuels \in [Pairs \X Days -> 0..DuelsPerDay] /\ \A k \in Pairs \X Days : mDuels[k] = 0
    BY <1>1, <2>1 DEF NoDuels
  <2>7. RowsIn(Sure) \subseteq mRows /\ mRows \subseteq RowsIn(Booked)
    BY <2>1, <2>3 DEF RowsIn
  <2>8. \A k \in Pairs \X Days : /\ Cardinality(Wins(races, Sure, k)) <= mDuels[k]
                                /\ mDuels[k] <= Cardinality(Wins(races, Booked, k))
    BY <2>3, <2>4, <2>5, <2>6
  <2>9. Left # 5
    BY <1>5
  <2> QED
    BY <2>1, <2>6, <2>7, <2>8, <2>9 DEF LeagueInv
<1>7. StoreInv
  <2>1. races = <<>> /\ dir = <<>> /\ mItems = <<>> /\ Len(races) = 0
    BY <1>2 DEF Init, FilesInit
  <2>2. DOMAIN dir = {} /\ DOMAIN mItems = {}
    BY <2>1
  <2>3. First(0) = 1
    BY DEF First, FilesAssumption
  <2>4. First(0)..0 = {}
    BY <2>3
  <2> QED
    BY <1>5, <2>1, <2>2, <2>4 DEF StoreInv
<1> QED
  BY <1>3, <1>4, <1>5, <1>6, <1>7 DEF ServerInv, FilesInv, Init, AuditInit, FilesInit

\* The process starts again.
LEMMA FilesRestartInv ==
  ASSUME FilesAssumption, FilesInv, FilesRestart
  PROVE  FilesInv' /\ second' = second
<1>0. RacesInv /\ LeagueInv /\ StoreInv
  BY DEF FilesInv
<1>1. faults' \in 0..MaxFaults /\ todo' = <<>> /\ races' = races /\ second' = second
  BY <1>0 DEF FilesRestart, RacesInv, FilesAssumption
<1>2. RacesInv' /\ Left' = 0
  <2>1. second \in 0..MaxSecond /\ second <= second
    BY <1>0 DEF RacesInv
  <2> QED
    BY <1>0, <1>1, <2>1, IdleRaces
<1> QED
  BY <1>0, <1>1, <1>2, RestartLeague, RestartStore DEF FilesInv

\* The moderation's steps leave the races alone.
LEMMA FilesWait ==
  ASSUME FilesInv, UNCHANGED filesVars
  PROVE  FilesInv' /\ second' = second
<1>1. /\ UNCHANGED <<races, league, torn, missed, mDuels, mRows, dir>>
      /\ UNCHANGED <<mItems, todo, second, faults>>
  BY DEF filesVars
<1>2. Left' = Left
  BY <1>1 DEF Left
<1>3. Booked' = Booked /\ Sure' = Sure
  BY <1>1, <1>2 DEF Booked, Sure, Pending
<1>4. RacesInv'
  BY <1>1, <1>2 DEF FilesInv, RacesInv
<1>5. LeagueInv'
  BY <1>1, <1>2, <1>3 DEF FilesInv, LeagueInv, RowsIn
<1>6. StoreInv'
  BY <1>1, <1>2 DEF FilesInv, StoreInv
<1> QED
  BY <1>1, <1>4, <1>5, <1>6 DEF FilesInv

\* Every step keeps the invariant.
LEMMA ServerStep ==
  ASSUME AuditAssumption, FilesAssumption, WorkAssumption, ServerInv, [Next]_vars
  PROVE  ServerInv'
<1>0. /\ LogInv /\ FilesInv /\ RacesInv /\ LeagueInv /\ StoreInv /\ today = Day(second)
      /\ today \in 0..MaxDay
  BY DEF ServerInv, FilesInv, LogInv
<1>1. CASE Moderate
  <2>1. AuditStep /\ UNCHANGED filesVars
    BY <1>1 DEF Moderate
  <2>2. today' = today
    BY <2>1 DEF AuditStep, Record, Purge, Recorded
  <2>3. FilesInv' /\ second' = second
    BY <1>0, <2>1, FilesWait
  <2> QED
    BY <1>0, <2>1, <2>2, <2>3, AuditStepInv DEF ServerInv
<1>2. CASE Races
  <2>1. FilesStep /\ UNCHANGED auditVars
    BY <1>2 DEF Races
  <2>2. LogInv' /\ today' = today
    BY <1>0, <2>1, LogWaits DEF auditVars
  <2>3. CASE \E who \in Pairs \union {Group, Solo}, ms \in Times : Finish(who, ms)
    <3>1. PICK who \in Pairs \union {Group, Solo}, ms \in Times : Finish(who, ms)
      BY <2>3
    <3>2. second' = second
      BY <3>1 DEF Finish
    <3> QED
      BY <1>0, <2>2, <3>1, <3>2, FinishRaces, FinishLeague, FinishStore DEF ServerInv, FilesInv
  <2>4. CASE Write
    <3>1. second' = second
      BY <2>4 DEF Write
    <3> QED
      BY <1>0, <2>2, <2>4, <3>1, WriteRaces, WriteLeague, WriteStore DEF ServerInv, FilesInv
  <2>5. CASE Look
    <3>1. todo = <<>> /\ mItems' = Refreshed /\ UNCHANGED <<races, league, torn, missed, mDuels, mRows, dir, todo, second, faults>>
      BY <2>5 DEF Look
    <3>2. Left = 0
      BY <3>1, EmptySeq DEF Left
    <3>3. RacesInv'
      BY <1>0, <3>1 DEF RacesInv, Left
    <3> QED
      BY <1>0, <2>2, <3>1, <3>2, <3>3, LeagueStays, LookStore DEF ServerInv, FilesInv
  <2> QED
    BY <2>1, <2>3, <2>4, <2>5 DEF FilesStep
<1>3. CASE Clock
  <2>1. NextSecond /\ DayIs(Day(second'))
    BY <1>3 DEF Clock
  <2>2. /\ todo = <<>> /\ second < MaxSecond /\ second' = second + 1
        /\ UNCHANGED <<races, league, torn, missed, mDuels, mRows, dir, mItems, todo, faults>>
    BY <2>1 DEF NextSecond
  <2>3. second \in Nat /\ second' \in 0..MaxSecond /\ second <= second' /\ MaxSecond \in Nat /\ second' <= MaxSecond
    BY <1>0, <2>2 DEF RacesInv, FilesAssumption
  <2>4. RacesInv' /\ Left' = 0 /\ Left = 0
    <3>1. todo' = <<>> /\ faults' \in 0..MaxFaults
      BY <1>0, <2>2 DEF RacesInv
    <3> QED
      BY <1>0, <2>2, <2>3, <3>1, IdleRaces DEF Left
  <2>5. FilesInv'
    BY <1>0, <2>2, <2>4, LeagueStays, LookStore DEF FilesInv
  <2>6. today' = Day(second') /\ UNCHANGED <<mLines, mLastHash, mSeq, file, unended, records, writeFaults, absent>>
    BY <2>1 DEF DayIs
  <2>7. today' \in 0..MaxDay
    BY <2>3, <2>6, DayMonotone DEF WorkAssumption
  <2> QED
    BY <1>0, <2>5, <2>6, <2>7, LogWaits DEF ServerInv
<1>4. CASE Restart
  <2>1. AuditRestart /\ FilesRestart
    BY <1>4 DEF Restart
  <2>2. today' = today
    BY <2>1 DEF AuditRestart
  <2> QED
    BY <1>0, <2>1, <2>2, AuditRestartInv, FilesRestartInv DEF ServerInv
<1>5. CASE RestartInPurge
  <2>1. FilesRestart /\ \E n \in 0..MaxRecords, rest \in Pieces : PurgeCut(n, rest)
    BY <1>5 DEF RestartInPurge
  <2>2. PICK n \in Nat, rest \in Pieces : PurgeCut(n, rest)
    BY <2>1 DEF AuditAssumption
  <2>3. today' = today
    BY <2>2 DEF PurgeCut
  <2> QED
    BY <1>0, <2>1, <2>2, <2>3, PurgeCutInv, FilesRestartInv DEF ServerInv
<1>6. CASE UNCHANGED vars
  <2>1. UNCHANGED auditVars /\ UNCHANGED filesVars
    BY <1>6 DEF vars
  <2>2. LogInv' /\ today' = today
    BY <1>0, <2>1, LogWaits DEF auditVars
  <2>3. FilesInv' /\ second' = second
    BY <1>0, <2>1, FilesWait
  <2> QED
    BY <1>0, <2>2, <2>3 DEF ServerInv
<1> QED
  BY <1>1, <1>2, <1>3, <1>4, <1>5, <1>6 DEF Next

\* The inductive invariant of all files.
THEOREM FilesCorrect == Spec => []ServerInv
<1>1. Init => ServerInv
  BY ServerInit, AuditAssumption, FilesAssumption, WorkAssumption
<1>2. ServerInv /\ [Next]_vars => ServerInv'
  BY ServerStep, AuditAssumption, FilesAssumption, WorkAssumption
<1> QED
  BY <1>1, <1>2, PTL DEF Spec

\* For any number of records, failed writes, crashes and purges: while no write
\* fails the log verifies and is what is in memory, and between two lines of
\* a file that verifies no record is missing that the process found there when it
\* started or made since (Record, Purge, Verify and the constructor).
THEOREM LogCorrect == Spec => []LogHonest
<1>1. ServerInv => LogHonest
  BY LogInvImplies, AuditAssumption DEF ServerInv
<1> QED
  BY <1>1, FilesCorrect, PTL

\* For any number of races, pairs and days, a crash between any two lines, and
\* appends that fail anywhere: no pair has more wins on a day than the cap and the
\* R lines that could not be appended, and between two races the memory is what a
\* restart would read back, but for some of the lines that could not be appended
\* (League::Record and the reading of its file).
THEOREM LeagueCorrect == Spec => []LeagueKept
<1>1. ServerInv => LeagueKept
  BY LeagueInvImplies, FilesAssumption DEF ServerInv
<1> QED
  BY <1>1, FilesCorrect, PTL

\* For any number of replays to keep: without faults the newest are there with
\* their tables, and with any faults the index says what is on the disk (Refresh,
\* Prune and the finished callback).
THEOREM StoreCorrect == Spec => []StoreTrue
<1>1. ServerInv => StoreTrue
  BY StoreInvImplies, FilesAssumption DEF ServerInv
<1> QED
  BY <1>1, FilesCorrect, PTL

\* For any number of replays with any times, and whatever faults there were: the
\* replay that broke the record last and the one that leads the board are one, or
\* tie in time and second (Records and RecordBreaks).
THEOREM BoardsCorrect == Spec => []BoardsAgree
<1>1. ServerInv => BoardsAgree
  BY BoardsInvImplies, FilesAssumption DEF ServerInv
<1> QED
  BY <1>1, FilesCorrect, PTL
=============================================================================
