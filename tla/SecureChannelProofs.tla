-------------------------- MODULE SecureChannelProofs --------------------------
(***************************************************************************)
(* Proofs about SecureChannel, for every number of frames, size of a       *)
(* record, cut of the stream and fault on it.                              *)
(*                                                                         *)
(* The invariant names, for each way, what its sender has sealed: ends[i]  *)
(* is where record i begins in all the data it sends.  A rest on its way   *)
(* is one of those, whatever was done to the stream (Entries), so that     *)
(* what opens is the next data (OpenedIs) and whole frames come out of it  *)
(* (PassesOn).  While nothing is harmed, the units on their way are also   *)
(* at their places (At), from the one the receiver expects to the last, so *)
(* that everything opens (OpenedAll).                                      *)
(***************************************************************************)
EXTENDS SecureChannel, SequenceTheorems, WellFoundedInduction, TLAPS

USE DEF Ways
HIDE DEF ChannelAssumption

-----------------------------------------------------------------------------
(***************************************************************************)
(* Sequences of units, which have no type in common.                       *)
(***************************************************************************)
IsSeq(s) == \E T : s \in Seq(T)

\* The length of a sequence.
LEMMA LenAny ==
  ASSUME NEW s, IsSeq(s)
  PROVE  Len(s) \in Nat /\ DOMAIN s = 1..Len(s)
BY DEF IsSeq

\* A part of a sequence.
LEMMA PartAny ==
  ASSUME NEW s, IsSeq(s), NEW m \in 1..Len(s) + 1, NEW n \in m - 1..Len(s)
  PROVE  /\ IsSeq(SubSeq(s, m, n)) /\ Len(SubSeq(s, m, n)) = n - m + 1
         /\ \A i \in 1..n - m + 1 : SubSeq(s, m, n)[i] = s[m + i - 1] /\ m + i - 1 \in 1..Len(s)
<1>1. PICK T : s \in Seq(T)
  BY DEF IsSeq
<1>2. Len(s) \in Nat /\ m \in Int /\ n \in Int
  BY <1>1
<1>3. \A i \in m..n : s[i] \in T
  BY <1>1, <1>2, ElementOfSeq
<1>4. /\ SubSeq(s, m, n) \in Seq(T) /\ Len(SubSeq(s, m, n)) = n - m + 1
      /\ \A i \in 1..n - m + 1 : SubSeq(s, m, n)[i] = s[m + i - 1]
  BY <1>2, <1>3, SubSeqProperties
<1>5. \A i \in 1..n - m + 1 : m + i - 1 \in 1..Len(s)
  BY <1>2
<1> QED
  BY <1>4, <1>5 DEF IsSeq

\* One sequence after another.
LEMMA JoinAny ==
  ASSUME NEW s, IsSeq(s), NEW t, IsSeq(t)
  PROVE  /\ IsSeq(s \o t) /\ Len(s \o t) = Len(s) + Len(t)
         /\ \A i \in 1..Len(s) + Len(t) :
              (s \o t)[i] = IF i <= Len(s) THEN s[i] ELSE t[i - Len(s)]
<1>1. PICK S : s \in Seq(S)
  BY DEF IsSeq
<1>2. PICK T : t \in Seq(T)
  BY DEF IsSeq
<1> DEFINE U == S \union T
<1>3. s \in Seq(U) /\ t \in Seq(U)
  BY <1>1, <1>2
<1> HIDE DEF U
<1>4. /\ s \o t \in Seq(U) /\ Len(s \o t) = Len(s) + Len(t)
      /\ \A i \in 1..Len(s) + Len(t) :
           (s \o t)[i] = IF i <= Len(s) THEN s[i] ELSE t[i - Len(s)]
  BY <1>3, ConcatProperties
<1> QED
  BY <1>4 DEF IsSeq

\* The same length and the same elements.
LEMMA SameAny ==
  ASSUME NEW s, IsSeq(s), NEW t, IsSeq(t), Len(s) = Len(t), \A i \in 1..Len(s) : s[i] = t[i]
  PROVE  s = t
<1>1. PICK S : s \in Seq(S)
  BY DEF IsSeq
<1>2. PICK T : t \in Seq(T)
  BY DEF IsSeq
<1> DEFINE U == S \union T
<1>3. s \in Seq(U) /\ t \in Seq(U)
  BY <1>1, <1>2
<1> HIDE DEF U
<1> QED
  BY <1>3, SeqEqual

\* The empty sequence.
LEMMA NoneAny ==
  /\ IsSeq(<<>>) /\ Len(<<>>) = 0
  /\ \A s : IsSeq(s) => (s = <<>> <=> Len(s) = 0) /\ s \o <<>> = s /\ <<>> \o s = s
<1>1. IsSeq(<<>>) /\ Len(<<>>) = 0
  BY EmptySeq DEF IsSeq
<1>2. ASSUME NEW s, IsSeq(s)
      PROVE  (s = <<>> <=> Len(s) = 0) /\ s \o <<>> = s /\ <<>> \o s = s
  <2>1. PICK S : s \in Seq(S)
    BY <1>2 DEF IsSeq
  <2>2. s = <<>> <=> Len(s) = 0
    BY <2>1, EmptySeq
  <2> QED
    BY <2>1, <2>2, ConcatEmptySeq
<1> QED
  BY <1>1, <1>2

\* A function on the numbers up to n.
LEMMA ListAny ==
  ASSUME NEW n \in Nat, NEW s, s = [i \in 1..n |-> s[i]]
  PROVE  IsSeq(s) /\ Len(s) = n
<1> DEFINE T == {s[i] : i \in 1..n}
<1>1. s \in Seq(T)
  <2>1. [i \in 1..n |-> s[i]] \in Seq(T)
    <3>1. \A i \in 1..n : s[i] \in T
      OBVIOUS
    <3> HIDE DEF T
    <3> QED
      BY <3>1, IsASeq
  <2> QED
    BY <2>1
<1>2. DOMAIN s = 1..n
  OBVIOUS
<1> HIDE DEF T
<1>3. Len(s) = n
  BY <1>1, <1>2, LenProperties
<1> QED
  BY <1>1, <1>3 DEF IsSeq

-----------------------------------------------------------------------------
(***************************************************************************)
(* The plaintext of one way: unit 0 is the proof, then come the frames.    *)
(***************************************************************************)
Data(j) ==
  IF j = 0 THEN Ready[1]
  ELSE [frame |-> (j + 1) \div 2, part |-> IF j % 2 = 1 THEN "length" ELSE "rest"]

\* The units after a, up to b.
Slice(a, b) == [i \in 1..b - a |-> Data(a + i)]

LEMMA SliceIs ==
  ASSUME NEW a \in Int, NEW b \in Int, a <= b
  PROVE  /\ IsSeq(Slice(a, b)) /\ Len(Slice(a, b)) = b - a
         /\ \A i \in 1..b - a : Slice(a, b)[i] = Data(a + i)
<1>1. PICK n \in Nat : n = b - a
  OBVIOUS
<1>2. \A i \in 1..n : Slice(a, b)[i] = Data(a + i)
  BY <1>1 DEF Slice
<1>3. Slice(a, b) = [i \in 1..n |-> Slice(a, b)[i]]
  BY <1>1 DEF Slice
<1> QED
  BY <1>1, <1>2, <1>3, ListAny

LEMMA SliceNone ==
  ASSUME NEW a \in Int
  PROVE  Slice(a, a) = <<>>
BY SliceIs, NoneAny

LEMMA SliceJoin ==
  ASSUME NEW a \in Int, NEW b \in Int, NEW c \in Int, a <= b, b <= c
  PROVE  Slice(a, b) \o Slice(b, c) = Slice(a, c)
<1> DEFINE s == Slice(a, b)
           t == Slice(b, c)
           u == Slice(a, c)
<1>0. a <= c
  OBVIOUS
<1>1. /\ IsSeq(s) /\ Len(s) = b - a /\ \A i \in 1..b - a : s[i] = Data(a + i)
      /\ IsSeq(t) /\ Len(t) = c - b /\ \A i \in 1..c - b : t[i] = Data(b + i)
      /\ IsSeq(u) /\ Len(u) = c - a /\ \A i \in 1..c - a : u[i] = Data(a + i)
  <2>1. IsSeq(s) /\ Len(s) = b - a /\ \A i \in 1..b - a : s[i] = Data(a + i)
    BY SliceIs
  <2>2. IsSeq(t) /\ Len(t) = c - b /\ \A i \in 1..c - b : t[i] = Data(b + i)
    BY SliceIs
  <2>3. IsSeq(u) /\ Len(u) = c - a /\ \A i \in 1..c - a : u[i] = Data(a + i)
    BY <1>0, SliceIs
  <2> HIDE DEF s, t, u
  <2> QED
    BY <2>1, <2>2, <2>3
<1> HIDE DEF s, t, u
<1>2. /\ IsSeq(s \o t) /\ Len(s \o t) = c - a
      /\ \A i \in 1..c - a : (s \o t)[i] = IF i <= b - a THEN s[i] ELSE t[i - (b - a)]
  <2>1. /\ IsSeq(s \o t) /\ Len(s \o t) = Len(s) + Len(t)
        /\ \A i \in 1..Len(s) + Len(t) : (s \o t)[i] = IF i <= Len(s) THEN s[i] ELSE t[i - Len(s)]
    BY <1>1, JoinAny
  <2>2. Len(s) + Len(t) = c - a
    BY <1>1
  <2> QED
    BY <1>1, <2>1, <2>2
<1>3. ASSUME NEW i \in 1..c - a
      PROVE  (s \o t)[i] = u[i]
  <2>1. i <= b - a => (s \o t)[i] = u[i]
    BY <1>1, <1>2
  <2>2. ASSUME ~(i <= b - a)
        PROVE  (s \o t)[i] = u[i]
    <3>1. PICK j \in 1..c - b : j = i - (b - a) /\ b + j = a + i
      BY <2>2
    <3> QED
      BY <1>1, <1>2, <2>2, <3>1
  <2> QED
    BY <2>1, <2>2
<1>4. s \o t = u
  BY <1>1, <1>2, <1>3, SameAny
<1> QED
  BY <1>4 DEF s, t, u

LEMMA SlicePart ==
  ASSUME NEW a \in Int, NEW b \in Int, a <= b,
         NEW m \in Nat \ {0}, NEW n \in Nat, m <= n + 1, n <= b - a
  PROVE  SubSeq(Slice(a, b), m, n) = Slice(a + (m - 1), a + n)
<1> DEFINE s == Slice(a, b)
           c == a + (m - 1)
           d == a + n
           u == Slice(c, d)
           p == SubSeq(s, m, n)
<1>1. /\ IsSeq(s) /\ Len(s) = b - a /\ \A i \in 1..b - a : s[i] = Data(a + i)
  BY SliceIs
<1>2. c \in Int /\ d \in Int /\ c <= d /\ d - c = n - m + 1 /\ c = a + (m - 1)
  OBVIOUS
<1> HIDE DEF c, d
<1>3. IsSeq(u) /\ Len(u) = d - c /\ \A i \in 1..d - c : u[i] = Data(c + i)
  BY <1>2, SliceIs
<1> HIDE DEF s, u, p
<1>4. m \in 1..Len(s) + 1 /\ n \in m - 1..Len(s)
  BY <1>1
<1>5. /\ IsSeq(p) /\ Len(p) = n - m + 1
      /\ \A i \in 1..n - m + 1 : p[i] = s[m + i - 1] /\ m + i - 1 \in 1..Len(s)
  BY <1>1, <1>4, PartAny DEF p
<1>6. ASSUME NEW i \in 1..n - m + 1
      PROVE  p[i] = u[i]
  <2>1. PICK j \in 1..b - a : j = m + i - 1
    BY <1>1, <1>5
  <2>2. a + j = c + i
    BY <1>2, <2>1
  <2>3. p[i] = s[j]
    BY <1>5, <2>1
  <2>4. s[j] = Data(a + j)
    BY <1>1
  <2>5. u[i] = Data(c + i)
    BY <1>2, <1>3
  <2> QED
    BY <2>2, <2>3, <2>4, <2>5
<1>7. Len(p) = Len(u) /\ \A i \in 1..Len(p) : p[i] = u[i]
  BY <1>2, <1>3, <1>5, <1>6
<1>8. p = u
  BY <1>3, <1>5, <1>7, SameAny
<1> QED
  BY <1>8 DEF p, s, u, c, d

LEMMA ReadyIs == Ready = Slice(-1, 0) /\ IsSeq(Ready) /\ Len(Ready) = 1
<1> DEFINE u == Slice(-1, 0)
<1>1. 0 - (-1) = 1 /\ -1 + 1 = 0
  OBVIOUS
<1>2. IsSeq(u) /\ Len(u) = 1 /\ \A i \in 1..1 : u[i] = Data(-1 + i)
  <2>1. -1 \in Int /\ 0 \in Int /\ -1 <= 0
    OBVIOUS
  <2>2. IsSeq(u) /\ Len(u) = 0 - (-1) /\ \A i \in 1..0 - (-1) : u[i] = Data(-1 + i)
    BY <2>1, SliceIs
  <2> HIDE DEF u
  <2> QED
    BY <1>1, <2>2
<1>3. u[1] = Ready[1]
  BY <1>1, <1>2 DEF Data
<1> HIDE DEF u
<1>4. Ready = [i \in 1..1 |-> Ready[i]]
  BY DEF Ready
<1>5. IsSeq(Ready) /\ Len(Ready) = 1
  BY <1>4, ListAny
<1>6. Ready = u
  BY <1>2, <1>3, <1>5, SameAny
<1> QED
  BY <1>5, <1>6 DEF u

LEMMA FrameIs ==
  ASSUME NEW n \in Nat \ {0}
  PROVE  Frame(n) = Slice(2 * n - 2, 2 * n) /\ IsSeq(Frame(n)) /\ Len(Frame(n)) = 2
<1> DEFINE a == 2 * n - 2
           u == Slice(a, 2 * n)
           f == Frame(n)
<1>1. a \in Nat /\ 2 * n \in Nat /\ 2 * n - a = 2 /\ a + 1 # 0 /\ a + 2 # 0
  OBVIOUS
<1>2. ((a + 1) + 1) \div 2 = n /\ ((a + 2) + 1) \div 2 = n /\ (a + 1) % 2 = 1 /\ (a + 2) % 2 = 0
  OBVIOUS
<1>3. f[1] = Data(a + 1) /\ f[2] = Data(a + 2)
  <2>1. Data(a + 1) = [frame |-> n, part |-> "length"]
    BY <1>1, <1>2 DEF Data
  <2>2. Data(a + 2) = [frame |-> n, part |-> "rest"]
    BY <1>1, <1>2 DEF Data
  <2> QED
    BY <2>1, <2>2 DEF Frame
<1>4. IsSeq(f) /\ Len(f) = 2
  <2>1. f = [i \in 1..2 |-> f[i]]
    BY DEF Frame
  <2> QED
    BY <2>1, ListAny
<1> HIDE DEF f, a
<1>5. IsSeq(u) /\ Len(u) = 2 /\ \A i \in 1..2 : u[i] = Data(a + i)
  <2>1. PICK b \in Nat : b = 2 * n /\ b - a = 2 /\ a <= b
    BY <1>1
  <2>2. IsSeq(Slice(a, b)) /\ Len(Slice(a, b)) = b - a /\ \A i \in 1..b - a : Slice(a, b)[i] = Data(a + i)
    BY <1>1, <2>1, SliceIs
  <2> QED
    BY <2>1, <2>2
<1>6. \A i \in 1..2 : i = 1 \/ i = 2
  OBVIOUS
<1> HIDE DEF u
<1>7. f = u
  BY <1>3, <1>4, <1>5, <1>6, SameAny
<1> QED
  BY <1>4, <1>7 DEF f, u, a

-----------------------------------------------------------------------------
(***************************************************************************)
(* What one end has sealed: record i holds what is after ends[i], up to    *)
(* ends[i + 1].                                                            *)
(***************************************************************************)
Log(ends, n, from, to) ==
  /\ n \in Nat /\ from \in Int /\ to \in Int
  /\ ends \in [0..n -> Int] /\ ends[0] = from /\ ends[n] = to
  /\ \A i, j \in 0..n : i < j => ends[i] < ends[j]
  /\ n <= to - from

\* A unit on its way is no record's rest, or that of one of them.
Entry(u, key, ends, n) ==
  u.kind = "rest" => /\ u.key = key /\ u.number \in 0..n - 1
                     /\ u.data = Slice(ends[u.number], ends[u.number + 1])

Entries(s, key, ends, n) == IsSeq(s) /\ \A i \in 1..Len(s) : Entry(s[i], key, ends, n)

\* The log goes on.
Extends(more, k, ends, n) == k >= n /\ \A i \in 0..n : more[i] = ends[i]

LEMMA LogBounds ==
  ASSUME NEW ends, NEW n, NEW from, NEW to, Log(ends, n, from, to), NEW i \in 0..n
  PROVE  ends[i] \in Int /\ from <= ends[i] /\ ends[i] <= to
<1>1. n \in Nat /\ ends[i] \in Int /\ 0 \in 0..n /\ n \in 0..n
  BY DEF Log
<1>2. i = 0 \/ 0 < i
  OBVIOUS
<1>3. i = n \/ i < n
  BY <1>1
<1>4. from <= ends[i]
  BY <1>1, <1>2 DEF Log
<1>5. ends[i] <= to
  BY <1>1, <1>3 DEF Log
<1> QED
  BY <1>1, <1>4, <1>5

LEMMA LogUp ==
  ASSUME NEW ends, NEW n, NEW from, NEW to, Log(ends, n, from, to)
  PROVE  \A x, y \in 0..n : x < y => \E low, high \in Int : low = ends[x] /\ high = ends[y] /\ low < high
<1>1. \A x \in 0..n : ends[x] \in Int
  BY LogBounds
<1>2. \A x, y \in 0..n : x < y => ends[x] < ends[y]
  BY DEF Log
<1> QED
  BY <1>1, <1>2

LEMMA EntryStays ==
  ASSUME NEW u, NEW key, NEW ends, NEW n \in Nat, NEW more, NEW k \in Nat,
         Extends(more, k, ends, n), Entry(u, key, ends, n)
  PROVE  Entry(u, key, more, k)
<1> SUFFICES ASSUME u.kind = "rest"
             PROVE  /\ u.key = key /\ u.number \in 0..k - 1
                    /\ u.data = Slice(more[u.number], more[u.number + 1])
  BY DEF Entry
<1>1. u.key = key /\ u.number \in 0..n - 1 /\ u.data = Slice(ends[u.number], ends[u.number + 1])
  BY DEF Entry
<1>2. u.number \in 0..n /\ u.number + 1 \in 0..n
  BY <1>1
<1>3. more[u.number] = ends[u.number] /\ more[u.number + 1] = ends[u.number + 1]
  BY <1>2 DEF Extends
<1> QED
  BY <1>1, <1>3 DEF Extends

LEMMA EntriesStay ==
  ASSUME NEW s, NEW key, NEW ends, NEW n \in Nat, NEW more, NEW k \in Nat,
         Extends(more, k, ends, n), Entries(s, key, ends, n)
  PROVE  Entries(s, key, more, k)
BY EntryStays DEF Entries

LEMMA EntriesJoin ==
  ASSUME NEW s, NEW t, NEW key, NEW ends, NEW n, Entries(s, key, ends, n), Entries(t, key, ends, n)
  PROVE  Entries(s \o t, key, ends, n)
<1>1. IsSeq(s) /\ IsSeq(t) /\ Len(s) \in Nat /\ Len(t) \in Nat
  BY LenAny DEF Entries
<1>2. /\ IsSeq(s \o t) /\ Len(s \o t) = Len(s) + Len(t)
      /\ \A i \in 1..Len(s) + Len(t) : (s \o t)[i] = IF i <= Len(s) THEN s[i] ELSE t[i - Len(s)]
  BY <1>1, JoinAny
<1>3. ASSUME NEW i \in 1..Len(s) + Len(t)
      PROVE  Entry((s \o t)[i], key, ends, n)
  <2>1. i <= Len(s) => Entry((s \o t)[i], key, ends, n)
    BY <1>1, <1>2 DEF Entries
  <2>2. ASSUME ~(i <= Len(s))
        PROVE  Entry((s \o t)[i], key, ends, n)
    <3>1. PICK j \in 1..Len(t) : j = i - Len(s)
      BY <1>1, <2>2
    <3>2. (s \o t)[i] = t[j]
      BY <1>2, <2>2, <3>1
    <3> QED
      BY <3>2 DEF Entries
  <2> QED
    BY <2>1, <2>2
<1> QED
  BY <1>2, <1>3 DEF Entries

LEMMA EntriesPart ==
  ASSUME NEW s, NEW key, NEW ends, NEW n, Entries(s, key, ends, n),
         NEW m \in 1..Len(s) + 1, NEW k \in m - 1..Len(s)
  PROVE  Entries(SubSeq(s, m, k), key, ends, n)
<1>1. IsSeq(s)
  BY DEF Entries
<1>2. /\ IsSeq(SubSeq(s, m, k)) /\ Len(SubSeq(s, m, k)) = k - m + 1
      /\ \A i \in 1..k - m + 1 : SubSeq(s, m, k)[i] = s[m + i - 1] /\ m + i - 1 \in 1..Len(s)
  BY <1>1, PartAny
<1> QED
  BY <1>2 DEF Entries

LEMMA EntriesNone ==
  ASSUME NEW key, NEW ends, NEW n
  PROVE  Entries(<<>>, key, ends, n)
BY NoneAny DEF Entries

\* How many records data of some length takes.
LEMMA RecordsBounds ==
  ASSUME ChannelAssumption, NEW data, Len(data) \in Nat
  PROVE  /\ RecordsOf(data) \in Nat /\ RecordsOf(data) <= Len(data)
         /\ Len(data) <= RecordsOf(data) * MaxPlain
         /\ RecordsOf(data) > 0 => Len(data) > 0 /\ (RecordsOf(data) - 1) * MaxPlain < Len(data)
         /\ Len(data) > 0 => RecordsOf(data) > 0
<1>1. PICK m \in Nat \ {0} : m = MaxPlain
  BY DEF ChannelAssumption
<1>2. PICK l \in Nat : l = Len(data)
  OBVIOUS
<1>3. PICK x \in Nat : x = l + m - 1
  BY <1>1, <1>2
<1> DEFINE r == x \div m
<1>4. r = RecordsOf(data)
  BY <1>1, <1>2, <1>3 DEF RecordsOf
<1>5. r \in Nat /\ r * m <= x /\ x < r * m + m
  BY <1>1, <1>3
<1>6. r * m \in Nat
  BY <1>5
<1> HIDE DEF r
<1>7. l <= r * m
  BY <1>3, <1>5, <1>6
<1>8. (r - 1) * m = r * m - m
  BY <1>5
<1>9. (r - 1) * m < l
  BY <1>3, <1>5, <1>6, <1>8
<1>10. r > 0 => (r - 1) * m >= r - 1 /\ (r - 1) * m >= 0
  BY <1>5
<1>11. r > 0 => l > 0 /\ r <= l
  BY <1>5, <1>6, <1>8, <1>9, <1>10
<1>12. l > 0 => r > 0
  BY <1>5, <1>6, <1>7
<1> QED
  BY <1>1, <1>2, <1>4, <1>5, <1>7, <1>9, <1>11, <1>12

\* These units are r whole records, from number c on.
Carries(units, key, ends, c, r) ==
  /\ IsSeq(units) /\ Len(units) = 2 * r
  /\ \A q \in 1..r : /\ units[2 * q - 1] = Length(ends[c + q] - ends[c + q - 1])
                     /\ units[2 * q] = Rest(key, c + q - 1, Slice(ends[c + q - 1], ends[c + q]))

\* Sealing what comes next is going on with the log.
LEMMA SealedIs ==
  ASSUME ChannelAssumption, NEW ends, NEW n, NEW from, NEW a, Log(ends, n, from, a),
         NEW b \in Int, a <= b, NEW key, NEW data, data = Slice(a, b),
         NEW r, r = RecordsOf(data)
  PROVE  r \in Nat /\ \E more : /\ Log(more, n + r, from, b) /\ Extends(more, n + r, ends, n)
                                /\ Carries(Sealed(key, n, data), key, more, n, r)
<1>0. a \in Int /\ n \in Nat /\ from \in Int
  BY DEF Log
<1>17. \A i \in Nat \ {0}, j \in Nat :
         i <= j + 1 /\ j <= b - a => SubSeq(Slice(a, b), i, j) = Slice(a + (i - 1), a + j)
  BY <1>0, SlicePart
<1>1. IsSeq(data) /\ Len(data) = b - a
  BY <1>0, SliceIs
<1>2. PICK l \in Nat : l = b - a
  BY <1>0
<1>3. PICK m \in Nat \ {0} : m = MaxPlain
  BY DEF ChannelAssumption
<1>4. /\ r \in Nat /\ r <= l /\ l <= r * m
      /\ r > 0 => l > 0 /\ (r - 1) * m < l
      /\ l > 0 => r > 0
  BY <1>1, <1>2, <1>3, RecordsBounds
<1> DEFINE Cut(i) == IF i * m < l THEN i * m ELSE l
           more == [j \in 0..n + r |-> IF j <= n THEN ends[j] ELSE a + Cut(j - n)]
<1>5. \A i \in 0..r : Cut(i) \in Nat /\ Cut(i) <= l
  <2> SUFFICES ASSUME NEW i \in 0..r
               PROVE  Cut(i) \in Nat /\ Cut(i) <= l
    OBVIOUS
  <2>1. i * m \in Nat
    BY <1>4
  <2> QED
    BY <2>1
<1>6. Cut(0) = 0 /\ Cut(r) = l
  <2>1. 0 * m = 0 /\ r * m \in Nat
    BY <1>4
  <2> QED
    BY <2>1, <1>4
<1>7. ASSUME NEW i \in 1..r
      PROVE  (i - 1) * m < l /\ (i - 1) * m \in Nat /\ Cut(i - 1) = (i - 1) * m /\ Cut(i - 1) < Cut(i)
  <2>1. (i - 1) * m \in Nat /\ i * m = (i - 1) * m + m
    BY <1>4
  <2>2. (i - 1) * m <= (r - 1) * m
    <3>1. i - 1 \in Nat /\ r - 1 \in Nat /\ i - 1 <= r - 1
      BY <1>4
    <3> QED
      BY <3>1
  <2>3. (i - 1) * m < l
    BY <2>1, <2>2, <1>4
  <2> QED
    BY <2>1, <2>3
<1>8. \A i, j \in 0..r : i < j => Cut(i) < Cut(j)
  <2> SUFFICES ASSUME NEW i \in 0..r, NEW j \in 0..r, i < j
               PROVE  Cut(i) < Cut(j)
    OBVIOUS
  <2>1. PICK k \in 1..r : k = i + 1
    BY <1>4
  <2>2. (k - 1) * m < l /\ (k - 1) * m \in Nat /\ Cut(k - 1) = (k - 1) * m /\ k - 1 = i
    BY <1>7, <2>1
  <2>3. i * m < j * m /\ i * m \in Nat /\ j * m \in Nat
    BY <1>4
  <2> QED
    BY <2>2, <2>3
<1> HIDE DEF Cut
<1>9. \A j \in 0..n : more[j] = ends[j]
  BY <1>0, <1>4
<1>10. \A i \in 0..r : more[n + i] = a + Cut(i)
  <2> SUFFICES ASSUME NEW i \in 0..r
               PROVE  more[n + i] = a + Cut(i)
    OBVIOUS
  <2>1. CASE i = 0
    <3>1. more[n] = ends[n] /\ ends[n] = a /\ a + 0 = a /\ n + 0 = n
      BY <1>0, <1>9 DEF Log
    <3> QED
      BY <2>1, <3>1, <1>6
  <2>2. CASE i # 0
    BY <2>2, <1>0, <1>4
  <2> QED
    BY <2>1, <2>2
<1>11. Log(more, n + r, from, b)
  <2>1. n + r \in Nat /\ more[0] = from /\ more[n + r] = b
    <3>1. 0 \in 0..n /\ r \in 0..r
      BY <1>0, <1>4
    <3>2. more[0] = ends[0] /\ more[n + r] = a + Cut(r)
      BY <3>1, <1>9, <1>10
    <3> HIDE DEF more
    <3>3. ends[0] = from
      BY DEF Log
    <3>4. a + l = b
      BY <1>0, <1>2
    <3> HIDE DEF Cut
    <3> QED
      BY <3>2, <3>3, <3>4, <1>0, <1>4, <1>6
  <2>2. more \in [0..n + r -> Int]
    <3>1. ASSUME NEW j \in 0..n + r
          PROVE  (IF j <= n THEN ends[j] ELSE a + Cut(j - n)) \in Int
      <4>1. j <= n => ends[j] \in Int
        BY <1>0 DEF Log
      <4>2. ~(j <= n) => j - n \in 0..r
        BY <1>0, <1>4
      <4> QED
        BY <4>1, <4>2, <1>0, <1>5
    <3> QED
      BY <3>1
  <2>3. ASSUME NEW i \in 0..n + r, NEW j \in 0..n + r, i < j
        PROVE  more[i] < more[j]
    <3>1. j <= n => more[i] < more[j]
      BY <1>0, <1>9, <2>3 DEF Log
    <3>2. ASSUME j > n
          PROVE  more[i] < more[j]
      <4>1. PICK v \in 0..r : j = n + v
        BY <1>0, <1>4, <3>2
      <4>2. more[j] = a + Cut(v) /\ v > 0
        BY <1>0, <1>10, <3>2, <4>1
      <4>3. ASSUME i <= n
            PROVE  more[i] < more[j]
        <5>1. i \in 0..n
          BY <4>3
        <5>2. ends[i] \in Int /\ ends[i] <= a
          BY <5>1, LogBounds
        <5>3. Cut(0) < Cut(v) /\ Cut(v) \in Nat
          <6>1. 0 \in 0..r /\ 0 < v
            BY <1>4, <4>2
          <6> QED
            BY <6>1, <1>5, <1>8
        <5>4. more[i] = ends[i]
          BY <1>9, <5>1
        <5>5. Cut(v) > 0
          BY <5>3, <1>6
        <5> HIDE DEF more
        <5> QED
          BY <1>0, <4>2, <5>2, <5>3, <5>4, <5>5
      <4>4. ASSUME i > n
            PROVE  more[i] < more[j]
        <5>1. PICK u \in 0..r : i = n + u
          BY <1>0, <1>4, <4>4
        <5>2. u < v
          BY <1>0, <4>1, <5>1, <2>3
        <5>3. Cut(u) < Cut(v) /\ Cut(u) \in Nat /\ Cut(v) \in Nat
          BY <1>5, <1>8, <5>2
        <5>4. more[i] = a + Cut(u)
          BY <1>10, <5>1
        <5> HIDE DEF more
        <5> QED
          BY <1>0, <4>2, <5>3, <5>4
      <4> QED
        BY <1>0, <4>3, <4>4
    <3> QED
      BY <1>0, <3>1, <3>2
  <2>4. n + r <= b - from
    <3>1. n <= a - from
      BY DEF Log
    <3> QED
      BY <1>0, <1>2, <1>4, <3>1
  <2> HIDE DEF more
  <2> QED
    BY <1>0, <2>1, <2>2, <2>3, <2>4 DEF Log
<1>12. Extends(more, n + r, ends, n)
  BY <1>0, <1>4, <1>9 DEF Extends
<1> DEFINE sealed == Sealed(key, n, data)
<1>13. IsSeq(sealed) /\ Len(sealed) = 2 * r
  <2>1. 2 * r \in Nat
    BY <1>4
  <2>2. sealed = [u \in 1..2 * r |-> sealed[u]]
    BY DEF Sealed
  <2> HIDE DEF sealed
  <2> QED
    BY <2>1, <2>2, ListAny
<1>14. ASSUME NEW q \in 1..r
       PROVE  /\ Piece(data, q) = Slice(more[n + q - 1], more[n + q])
              /\ Len(Piece(data, q)) = more[n + q] - more[n + q - 1]
  <2>1. /\ (q - 1) * m \in Nat /\ Cut(q - 1) = (q - 1) * m /\ Cut(q - 1) < Cut(q)
        /\ Cut(q) \in Nat /\ Cut(q) <= l
    BY <1>4, <1>5, <1>7
  <2>2. Piece(data, q) = SubSeq(data, Cut(q - 1) + 1, Cut(q))
    BY <1>1, <1>2, <1>3, <2>1 DEF Piece, Cut
  <2>3. Piece(data, q) = Slice(a + Cut(q - 1), a + Cut(q))
    <3>1. PICK x \in Nat, y \in Nat : x = Cut(q - 1) /\ y = Cut(q) /\ x <= y /\ y <= b - a
      BY <1>2, <2>1
    <3>2. PICK z \in Nat \ {0} : z = x + 1 /\ z - 1 = x /\ z <= y + 1 /\ y <= b - a
      BY <3>1
    <3> QED
      BY <2>2, <3>1, <3>2, <1>17
  <2>4. more[n + q] = a + Cut(q) /\ more[n + (q - 1)] = a + Cut(q - 1) /\ n + (q - 1) = n + q - 1
    BY <1>0, <1>4, <1>10, SMTT(30)
  <2> HIDE DEF more
  <2>5. Piece(data, q) = Slice(more[n + q - 1], more[n + q])
    BY <2>3, <2>4
  <2>6. more[n + q] \in Int /\ more[n + q - 1] \in Int /\ more[n + q - 1] <= more[n + q]
    BY <1>0, <2>1, <2>4
  <2> QED
    BY <2>5, <2>6, SliceIs
<1>15. ASSUME NEW q \in 1..r
       PROVE  /\ sealed[2 * q - 1] = Length(more[n + q] - more[n + q - 1])
              /\ sealed[2 * q] = Rest(key, n + q - 1, Slice(more[n + q - 1], more[n + q]))
  <2>1. /\ 2 * q - 1 \in 1..2 * r /\ (2 * q - 1) % 2 = 1 /\ ((2 * q - 1) + 1) \div 2 = q
        /\ 2 * q \in 1..2 * r /\ (2 * q) % 2 = 0 /\ (2 * q + 1) \div 2 = q /\ (2 * q) \div 2 = q
    BY <1>4
  <2> HIDE DEF more
  <2>2. sealed[2 * q - 1] = Length(Len(Piece(data, q)))
    BY <2>1 DEF Sealed
  <2>3. sealed[2 * q] = Rest(key, n + q - 1, Piece(data, q))
    BY <2>1 DEF Sealed
  <2> QED
    BY <2>2, <2>3, <1>14
<1> HIDE DEF more, sealed
<1>16. Carries(sealed, key, more, n, r)
  BY <1>13, <1>15 DEF Carries
<1>18. Log(more, n + r, from, b) /\ Extends(more, n + r, ends, n) /\ Carries(Sealed(key, n, data), key, more, n, r)
  BY <1>11, <1>12, <1>16 DEF sealed
<1> QED
  BY <1>4, <1>18

\* Every number is odd or even.
LEMMA Parity ==
  ASSUME NEW r \in Nat, NEW i \in 1..2 * r
  PROVE  \E q \in 1..r : i = 2 * q - 1 \/ i = 2 * q
<1>1. i = 2 * ((i + 1) \div 2) - 1 \/ i = 2 * ((i + 1) \div 2)
  OBVIOUS
<1>2. (i + 1) \div 2 \in 1..r
  OBVIOUS
<1> QED
  BY <1>1, <1>2

\* What was sealed is in the log.
LEMMA CarriedEntries ==
  ASSUME NEW units, NEW key, NEW ends, NEW c \in Nat, NEW r \in Nat, Carries(units, key, ends, c, r)
  PROVE  Entries(units, key, ends, c + r)
<1>1. IsSeq(units) /\ Len(units) = 2 * r
  BY DEF Carries
<1>2. ASSUME NEW i \in 1..2 * r
      PROVE  Entry(units[i], key, ends, c + r)
  <2>1. PICK q \in 1..r : i = 2 * q - 1 \/ i = 2 * q
    BY Parity
  <2>2. units[2 * q - 1].kind # "rest"
    <3>1. units[2 * q - 1] = Length(ends[c + q] - ends[c + q - 1])
      BY DEF Carries
    <3> QED
      BY <3>1 DEF Length
  <2>3. /\ units[2 * q].key = key /\ units[2 * q].number = c + q - 1
        /\ units[2 * q].data = Slice(ends[c + q - 1], ends[c + q])
    <3>1. units[2 * q] = Rest(key, c + q - 1, Slice(ends[c + q - 1], ends[c + q]))
      BY DEF Carries
    <3> QED
      BY <3>1 DEF Rest
  <2>4. c + q - 1 \in 0..(c + r) - 1 /\ (c + q - 1) + 1 = c + q
    OBVIOUS
  <2>5. Entry(units[2 * q], key, ends, c + r)
    BY <2>3, <2>4 DEF Entry
  <2> QED
    BY <2>1, <2>2, <2>5 DEF Entry
<1> QED
  BY <1>1, <1>2 DEF Entries

-----------------------------------------------------------------------------
(***************************************************************************)
(* Opening records and parsing frames.                                     *)
(***************************************************************************)
\* Induction over the natural numbers, for a set of them.
LEMMA SetInduction ==
  ASSUME NEW S \in SUBSET Nat, 0 \in S, \A n \in S : n + 1 \in S
  PROVE  S = Nat
<1> DEFINE Less == OpToRel(<, Nat)
           U == Nat \ S
<1>1. SUFFICES ASSUME U # {} PROVE FALSE
  OBVIOUS
<1>2. IsWellFoundedOn(Less, Nat)
  BY NatLessThanWellFounded
<1> HIDE DEF Less
<1>3. PICK m \in U : \A k \in U : ~ (<<k, m>> \in Less)
  BY <1>1, <1>2, WFMin
<1>4. m # 0 /\ m - 1 \in Nat
  OBVIOUS
<1>5. m - 1 \in S
  <2>1. <<m - 1, m>> \in Less
    BY <1>4 DEF Less, OpToRel
  <2> QED
    BY <1>3, <1>4, <2>1
<1> QED
  BY <1>5

\* The data of records that hold one slice after the other.
LEMMA DataOfSlices ==
  ASSUME NEW units, NEW w \in Nat, w = Len(units) \div 2, NEW at,
         \A i \in 0..w : at[i] \in Int /\ at[0] <= at[i],
         \A i \in 1..w : at[i - 1] <= at[i] /\ units[2 * i].data = Slice(at[i - 1], at[i])
  PROVE  DataOf(units)[w] = Slice(at[0], at[w])
<1> DEFINE Reads(d) == d = [i \in 0..w |-> IF i = 0 THEN <<>> ELSE d[i - 1] \o units[2 * i].data]
           x == [i \in 0..w |-> Slice(at[0], at[i])]
           c == CHOOSE d : Reads(d)
<1>0. 0 \in 0..w /\ at[0] \in Int /\ Slice(at[0], at[0]) = <<>>
  BY SliceNone
<1>1. \A i \in 1..w : Slice(at[0], at[i - 1]) \o units[2 * i].data = Slice(at[0], at[i])
  <2> SUFFICES ASSUME NEW i \in 1..w
               PROVE  Slice(at[0], at[i - 1]) \o Slice(at[i - 1], at[i]) = Slice(at[0], at[i])
    OBVIOUS
  <2>1. i \in 0..w /\ i - 1 \in 0..w
    OBVIOUS
  <2>2. PICK a \in Int, b \in Int : a = at[i - 1] /\ b = at[i] /\ at[0] <= a /\ a <= b
    BY <2>1
  <2>3. Slice(at[0], a) \o Slice(a, b) = Slice(at[0], b)
    BY <1>0, <2>2, SliceJoin
  <2> QED
    BY <2>2, <2>3
<1>2. Reads(x)
  <2>1. ASSUME NEW i \in 0..w
        PROVE  x[i] = IF i = 0 THEN <<>> ELSE x[i - 1] \o units[2 * i].data
    <3>1. CASE i = 0
      BY <3>1, <1>0
    <3>2. CASE i # 0
      <4>1. i \in 1..w /\ i - 1 \in 0..w
        BY <3>2
      <4>2. x[i - 1] = Slice(at[0], at[i - 1]) /\ x[i] = Slice(at[0], at[i])
        BY <4>1
      <4> QED
        BY <3>2, <4>1, <4>2, <1>1
    <3> QED
      BY <3>1, <3>2
  <2>2. x = [i \in 0..w |-> x[i]]
    OBVIOUS
  <2> HIDE DEF x
  <2> QED
    BY <2>1, <2>2
<1>3. Reads(c)
  <2> HIDE DEF x, Reads
  <2> QED
    BY <1>2
<1>4. DataOf(units) = c
  BY DEF DataOf
<1> HIDE DEF c
<1> DEFINE S == {k \in Nat : k <= w => c[k] = Slice(at[0], at[k])}
<1>5. 0 \in S
  BY <1>0, <1>3
<1>6. ASSUME NEW k \in S
      PROVE  k + 1 \in S
  <2>1. CASE k + 1 <= w
    <3>1. k + 1 \in 1..w /\ k + 1 \in 0..w /\ k + 1 # 0 /\ (k + 1) - 1 = k /\ k <= w
      BY <2>1
    <3>2. c[k + 1] = c[k] \o units[2 * (k + 1)].data
      BY <1>3, <3>1
    <3>3. c[k] = Slice(at[0], at[k])
      BY <3>1
    <3>4. Slice(at[0], at[k]) \o units[2 * (k + 1)].data = Slice(at[0], at[k + 1])
      BY <1>1, <3>1
    <3> QED
      BY <3>2, <3>3, <3>4
  <2> QED
    BY <2>1
<1>7. S = Nat
  <2> HIDE DEF S
  <2>1. S \in SUBSET Nat
    BY DEF S
  <2> QED
    BY <1>5, <1>6, <2>1, SetInduction
<1>8. w \in S
  BY <1>7
<1> QED
  BY <1>4, <1>8

\* Whoever opens records of a log gets the next of its data, and no others' keys open any.
LEMMA OpenedIs ==
  ASSUME NEW ends, NEW n, NEW from, NEW to, Log(ends, n, from, to),
         NEW units, NEW key, Entries(units, key, ends, n),
         NEW own, NEW c \in 0..n, NEW o, o = Opened(own, c, units)
  PROVE  /\ o.ok \in BOOLEAN /\ Entries(o.inbox, key, ends, n) /\ Len(o.inbox) < 2
         /\ o.ok => /\ o.counter \in c..n /\ o.plain = Slice(ends[c], ends[o.counter])
                    /\ o.counter > c => own = key
         /\ ~o.ok => o.plain = <<>>
<1> DEFINE w == Len(units) \div 2
           ok == \A i \in 1..w : Whole(units, i, own, c)
<1>1. IsSeq(units) /\ Len(units) \in Nat /\ n \in Nat /\ c \in Nat
  BY LenAny DEF Entries, Log
<1>2. w \in Nat /\ 2 * w <= Len(units) /\ Len(units) <= 2 * w + 1
  BY <1>1
<1>3. /\ o.ok = ok /\ o.counter = c + w
      /\ o.inbox = SubSeq(units, 2 * w + 1, Len(units))
      /\ o.plain = IF ok THEN DataOf(units)[w] ELSE <<>>
  BY DEF Opened
<1>4. o.ok \in BOOLEAN
  BY <1>3
<1> HIDE DEF w, ok
<1>5. Entries(o.inbox, key, ends, n) /\ Len(o.inbox) < 2
  <2>1. PICK m \in 1..Len(units) + 1 : m = 2 * w + 1
    BY <1>1, <1>2
  <2>2. Len(units) \in m - 1..Len(units)
    BY <1>1, <2>1
  <2>3. Entries(SubSeq(units, m, Len(units)), key, ends, n)
    BY <2>2, EntriesPart
  <2>4. Len(SubSeq(units, m, Len(units))) = Len(units) - m + 1
    BY <1>1, <2>2, PartAny
  <2> QED
    BY <1>1, <1>2, <1>3, <2>1, <2>3, <2>4
<1>6. ASSUME ok
      PROVE  /\ o.counter \in c..n /\ o.plain = Slice(ends[c], ends[o.counter])
             /\ o.counter > c => own = key
  <2>1. ASSUME NEW i \in 1..w
        PROVE  /\ c + i - 1 \in 0..n - 1 /\ own = key
               /\ units[2 * i].data = Slice(ends[c + i - 1], ends[c + i])
    <3>1. units[2 * i].kind = "rest" /\ units[2 * i].key = own /\ units[2 * i].number = c + i - 1
      BY <1>6 DEF ok, Whole, Opens
    <3>2. 2 * i \in 1..Len(units)
      BY <1>1, <1>2
    <3>3. Entry(units[2 * i], key, ends, n)
      BY <3>2 DEF Entries
    <3>4. (c + i - 1) + 1 = c + i
      BY <1>1
    <3> QED
      BY <3>1, <3>3, <3>4 DEF Entry
  <2>2. c + w \in c..n
    <3>1. CASE w = 0
      BY <1>1, <3>1
    <3>2. CASE w # 0
      <4>1. w \in 1..w
        BY <1>2, <3>2
      <4> QED
        BY <1>1, <1>2, <2>1, <4>1
    <3> QED
      BY <3>1, <3>2
  <2> DEFINE at == [i \in 0..w |-> ends[c + i]]
  <2>3. \A i \in 0..w : c + i \in 0..n /\ at[i] = ends[c + i]
    BY <1>1, <1>2, <2>2
  <2>4. at[0] = ends[c] /\ at[w] = ends[c + w]
    BY <1>1, <1>2, <2>3
  <2>5. \A i \in 0..w : at[i] \in Int /\ at[0] <= at[i]
    <3> SUFFICES ASSUME NEW i \in 0..w
                 PROVE  at[i] \in Int /\ at[0] <= at[i]
      OBVIOUS
    <3>1. c \in 0..n /\ c + i \in 0..n /\ (i = 0 \/ c < c + i)
      BY <1>1, <2>3
    <3>2. ends[c + i] \in Int /\ ends[c] \in Int /\ (i = 0 \/ ends[c] < ends[c + i])
      BY <3>1 DEF Log
    <3>3. at[i] = ends[c + i] /\ at[0] = ends[c]
      BY <2>3, <2>4
    <3> HIDE DEF at
    <3> QED
      BY <3>2, <3>3
  <2>6. \A i \in 1..w : at[i - 1] <= at[i] /\ units[2 * i].data = Slice(at[i - 1], at[i])
    <3> SUFFICES ASSUME NEW i \in 1..w
                 PROVE  at[i - 1] <= at[i] /\ units[2 * i].data = Slice(at[i - 1], at[i])
      OBVIOUS
    <3>1. PICK j \in 0..w : j = i - 1 /\ c + j = c + i - 1 /\ c + j < c + i
      BY <1>1, <1>2
    <3>2. i \in 0..w
      OBVIOUS
    <3>3. at[j] = ends[c + j] /\ at[i] = ends[c + i] /\ c + j \in 0..n /\ c + i \in 0..n
      BY <2>3, <3>2
    <3>4. ends[c + j] < ends[c + i] /\ ends[c + j] \in Int /\ ends[c + i] \in Int
      BY <3>1, <3>3 DEF Log
    <3> HIDE DEF at
    <3> QED
      BY <2>1, <3>1, <3>3, <3>4
  <2> HIDE DEF at
  <2>7. DataOf(units)[w] = Slice(at[0], at[w])
    BY <1>2, <2>5, <2>6, DataOfSlices DEF w
  <2>8. o.plain = Slice(ends[c], ends[c + w])
    BY <1>3, <1>6, <2>4, <2>7
  <2>9. c + w > c => own = key
    <3>1. c + w > c => w \in 1..w
      BY <1>1, <1>2
    <3> QED
      BY <2>1, <3>1
  <2> QED
    BY <1>3, <2>2, <2>8, <2>9
<1> QED
  BY <1>3, <1>4, <1>5, <1>6

\* Parsing goes on after the frame g, and keeps what begins the next one.
LEMMA ParsedIs ==
  ASSUME NEW g \in Nat, NEW b \in Nat, 2 * g <= b
  PROVE  \E k \in Nat :
           /\ 2 * (g + k) <= b /\ b < 2 * (g + k) + 2
           /\ Parsed(Slice(2 * g, b)) = [i \in 1..k |-> g + i]
           /\ Unparsed(Slice(2 * g, b)) = Slice(2 * (g + k), b)
<1> DEFINE a == 2 * g
           s == Slice(a, b)
<1>0. a \in Int /\ b \in Int /\ a <= b
  OBVIOUS
<1> HIDE DEF a
<1>9. \A x \in Nat \ {0}, y \in Nat :
        x <= y + 1 /\ y <= b - a => SubSeq(s, x, y) = Slice(a + (x - 1), a + y)
  BY <1>0, SlicePart
<1>1. PICK k \in Nat : k = (b - a) \div 2 /\ 2 * k <= b - a /\ b - a < 2 * k + 2
  BY <1>0
<1>2. a \in Nat /\ a = 2 * g
  BY DEF a
<1>3. IsSeq(s) /\ Len(s) = b - a /\ \A i \in 1..b - a : s[i] = Data(a + i)
  BY <1>2, SliceIs
<1> HIDE DEF s
<1>4. ASSUME NEW i \in 1..k
      PROVE  SubSeq(s, 2 * i - 1, 2 * i) = Frame(g + i) /\ s[2 * i].frame = g + i
  <2>1. PICK x \in Nat \ {0}, y \in Nat : x = 2 * i - 1 /\ y = 2 * i /\ x <= y + 1 /\ y <= b - a
    BY <1>1, <1>2
  <2>2. SubSeq(s, x, y) = Slice(a + (x - 1), a + y)
    BY <1>9, <2>1
  <2>3. g + i \in Nat \ {0} /\ a + (x - 1) = 2 * (g + i) - 2 /\ a + y = 2 * (g + i)
    BY <1>2, <2>1
  <2>4. Frame(g + i) = Slice(2 * (g + i) - 2, 2 * (g + i))
    BY <2>3, FrameIs
  <2>5. s[y] = Data(a + y)
    <3>1. y \in 1..b - a
      BY <2>1
    <3> QED
      BY <1>3, <3>1
  <2>6. a + y # 0 /\ ((a + y) + 1) \div 2 = g + i
    BY <2>3
  <2>7. Data(a + y).frame = g + i
    BY <2>6 DEF Data
  <2> QED
    BY <2>1, <2>2, <2>3, <2>4, <2>5, <2>7
<1>5. Len(s) \div 2 = k
  BY <1>1, <1>3
<1>6. Parsed(s) = [i \in 1..k |-> g + i]
  BY <1>4, <1>5 DEF Parsed
<1>7. Unparsed(s) = Slice(2 * (g + k), b)
  <2>1. PICK x \in Nat \ {0}, y \in Nat : x = 2 * k + 1 /\ y = b - a /\ x <= y + 1 /\ y <= b - a
    BY <1>1, <1>2
  <2>2. SubSeq(s, x, y) = Slice(a + (x - 1), a + y)
    BY <1>9, <2>1
  <2>3. a + (x - 1) = 2 * (g + k) /\ a + y = b
    BY <1>1, <1>2, <2>1
  <2> QED
    BY <1>3, <1>5, <2>1, <2>2, <2>3 DEF Unparsed
<1>8. 2 * (g + k) <= b /\ b < 2 * (g + k) + 2
  BY <1>1, <1>2
<1> QED
  BY <1>6, <1>7, <1>8 DEF s, a

-----------------------------------------------------------------------------
(***************************************************************************)
(* What is on its way while nothing is harmed: after the two units of the  *)
(* handshake, for each record its length and its rest.                     *)
(***************************************************************************)
UnitAt(hand, key, ends, p) ==
  IF p <= 2 THEN hand[p]
  ELSE LET q == (p - 1) \div 2
       IN  IF p % 2 = 1 THEN Length(ends[q] - ends[q - 1])
           ELSE Rest(key, q - 1, Slice(ends[q - 1], ends[q]))

\* These are the units after position n.
At(s, hand, key, ends, n) == \A i \in 1..Len(s) : s[i] = UnitAt(hand, key, ends, n + i)

LEMMA CarriedAt ==
  ASSUME NEW units, NEW hand, NEW key, NEW ends, NEW c \in Nat, NEW r \in Nat,
         Carries(units, key, ends, c, r), NEW n, n = 2 + 2 * c
  PROVE  At(units, hand, key, ends, n)
<1>1. IsSeq(units) /\ Len(units) = 2 * r
  BY DEF Carries
<1>2. ASSUME NEW i \in 1..2 * r
      PROVE  units[i] = UnitAt(hand, key, ends, n + i)
  <2>1. PICK q \in 1..r : i = 2 * q - 1 \/ i = 2 * q
    BY Parity
  <2> DEFINE p == n + i
             k == (p - 1) \div 2
  <2>2. p \in Nat /\ ~(p <= 2) /\ k = c + q
    BY <2>1
  <2>3. /\ i = 2 * q - 1 => p % 2 = 1
        /\ i = 2 * q => p % 2 = 0
    OBVIOUS
  <2>4. /\ units[2 * q - 1] = Length(ends[c + q] - ends[c + q - 1])
        /\ units[2 * q] = Rest(key, c + q - 1, Slice(ends[c + q - 1], ends[c + q]))
    BY DEF Carries
  <2>5. UnitAt(hand, key, ends, p) =
          IF p % 2 = 1 THEN Length(ends[k] - ends[k - 1])
          ELSE Rest(key, k - 1, Slice(ends[k - 1], ends[k]))
    <3>1. ~(p <= 2)
      BY <2>2
    <3> QED
      BY <3>1 DEF UnitAt
  <2> HIDE DEF p, k
  <2>6. i = 2 * q - 1 => units[i] = UnitAt(hand, key, ends, p)
    BY <2>2, <2>3, <2>4, <2>5
  <2>7. i = 2 * q => units[i] = UnitAt(hand, key, ends, p)
    BY <2>2, <2>3, <2>4, <2>5
  <2> QED
    BY <2>1, <2>6, <2>7 DEF p
<1> QED
  BY <1>1, <1>2 DEF At

LEMMA AtJoin ==
  ASSUME NEW s, IsSeq(s), NEW t, IsSeq(t), NEW hand, NEW key, NEW ends, NEW n \in Int,
         At(s, hand, key, ends, n), At(t, hand, key, ends, n + Len(s))
  PROVE  At(s \o t, hand, key, ends, n)
<1>1. Len(s) \in Nat /\ Len(t) \in Nat
  BY LenAny
<1>2. /\ Len(s \o t) = Len(s) + Len(t)
      /\ \A i \in 1..Len(s) + Len(t) : (s \o t)[i] = IF i <= Len(s) THEN s[i] ELSE t[i - Len(s)]
  BY JoinAny
<1>3. ASSUME NEW i \in 1..Len(s) + Len(t)
      PROVE  (s \o t)[i] = UnitAt(hand, key, ends, n + i)
  <2>1. i <= Len(s) => (s \o t)[i] = UnitAt(hand, key, ends, n + i)
    BY <1>1, <1>2 DEF At
  <2>2. ASSUME ~(i <= Len(s))
        PROVE  (s \o t)[i] = UnitAt(hand, key, ends, n + i)
    <3>1. PICK j \in 1..Len(t) : j = i - Len(s)
      <4>1. i - Len(s) \in 1..Len(t)
        BY <1>1, <2>2
      <4> QED
        BY <4>1
    <3>2. (s \o t)[i] = t[j]
      BY <1>2, <2>2, <3>1
    <3>3. (n + Len(s)) + j = n + i
      BY <1>1, <3>1
    <3>4. t[j] = UnitAt(hand, key, ends, (n + Len(s)) + j)
      BY DEF At
    <3> QED
      BY <3>2, <3>3, <3>4
  <2> QED
    BY <2>1, <2>2
<1> QED
  BY <1>2, <1>3 DEF At

LEMMA AtPart ==
  ASSUME NEW s, IsSeq(s), NEW hand, NEW key, NEW ends, NEW n \in Int, At(s, hand, key, ends, n),
         NEW m \in 1..Len(s) + 1, NEW k \in m - 1..Len(s)
  PROVE  At(SubSeq(s, m, k), hand, key, ends, n + (m - 1))
<1>1. Len(s) \in Nat
  BY LenAny
<1>2. /\ Len(SubSeq(s, m, k)) = k - m + 1
      /\ \A i \in 1..k - m + 1 : SubSeq(s, m, k)[i] = s[m + i - 1] /\ m + i - 1 \in 1..Len(s)
  BY PartAny
<1>3. ASSUME NEW i \in 1..k - m + 1
      PROVE  SubSeq(s, m, k)[i] = UnitAt(hand, key, ends, (n + (m - 1)) + i)
  <2>1. PICK j \in 1..Len(s) : j = m + i - 1
    BY <1>2
  <2>2. s[j] = UnitAt(hand, key, ends, n + j)
    BY DEF At
  <2>3. n + j = (n + (m - 1)) + i
    BY <1>1, <2>1
  <2> QED
    BY <1>2, <2>1, <2>2, <2>3
<1> QED
  BY <1>2, <1>3 DEF At

LEMMA AtNone ==
  ASSUME NEW hand, NEW key, NEW ends, NEW n
  PROVE  At(<<>>, hand, key, ends, n)
BY NoneAny DEF At

\* What was sent stays what it is when more is.
LEMMA AtStays ==
  ASSUME NEW s, IsSeq(s), NEW hand, NEW key, NEW ends, NEW n \in Nat, NEW more, NEW k \in Nat,
         Extends(more, k, ends, n), NEW m \in Nat, At(s, hand, key, ends, m), m + Len(s) <= 2 + 2 * n
  PROVE  At(s, hand, key, more, m)
<1>1. Len(s) \in Nat
  BY LenAny
<1>2. ASSUME NEW i \in 1..Len(s)
      PROVE  UnitAt(hand, key, ends, m + i) = UnitAt(hand, key, more, m + i)
  <2> DEFINE p == m + i
             q == (p - 1) \div 2
  <2>1. p \in Nat /\ p <= 2 + 2 * n
    BY <1>1
  <2>2. CASE p <= 2
    BY <2>2 DEF UnitAt
  <2>3. CASE ~(p <= 2)
    <3>1. q \in 0..n /\ q - 1 \in 0..n
      BY <2>1, <2>3
    <3>2. more[q] = ends[q] /\ more[q - 1] = ends[q - 1]
      BY <3>1 DEF Extends
    <3> HIDE DEF p
    <3>3. /\ UnitAt(hand, key, ends, p) = IF p % 2 = 1 THEN Length(ends[q] - ends[q - 1])
                                           ELSE Rest(key, q - 1, Slice(ends[q - 1], ends[q]))
          /\ UnitAt(hand, key, more, p) = IF p % 2 = 1 THEN Length(more[q] - more[q - 1])
                                           ELSE Rest(key, q - 1, Slice(more[q - 1], more[q]))
      BY <2>3 DEF UnitAt
    <3> QED
      BY <3>2, <3>3 DEF p
  <2> QED
    BY <2>2, <2>3
<1> QED
  BY <1>2 DEF At

\* The handshake is before the keys.
LEMMA AtEarly ==
  ASSUME NEW s, IsSeq(s), NEW hand, NEW key, NEW ends, NEW more, NEW other, NEW m \in Nat,
         At(s, hand, key, ends, m), m + Len(s) <= 2
  PROVE  At(s, hand, other, more, m)
<1>1. Len(s) \in Nat
  BY LenAny
<1>2. ASSUME NEW i \in 1..Len(s)
      PROVE  UnitAt(hand, key, ends, m + i) = UnitAt(hand, other, more, m + i)
  <2>1. m + i <= 2
    BY <1>1
  <2> QED
    BY <2>1 DEF UnitAt
<1> QED
  BY <1>2 DEF At

\* With the sender's key, or nothing to open, what was sent opens.
LEMMA OpenedAll ==
  ASSUME NEW ends, NEW n, NEW from, NEW to, Log(ends, n, from, to),
         NEW units, IsSeq(units), NEW hand, NEW key, NEW own, NEW c \in Nat, NEW o,
         At(units, hand, key, ends, 2 + 2 * c), Len(units) <= 2 * (n - c),
         own = key \/ Len(units) < 2,
         o = Opened(own, c, units)
  PROVE  /\ o.ok /\ o.counter = c + (Len(units) \div 2)
         /\ At(o.inbox, hand, key, ends, 2 + 2 * o.counter)
         /\ 2 * o.counter + Len(o.inbox) = 2 * c + Len(units)
<1> DEFINE w == Len(units) \div 2
<1>0. \A x, y \in 0..n : x < y => \E low, high \in Int : low = ends[x] /\ high = ends[y] /\ low < high
  BY LogUp
<1>1. Len(units) \in Nat /\ n \in Nat
  BY LenAny DEF Log
<1>2. w \in Nat /\ 2 * w <= Len(units) /\ Len(units) < 2 * w + 2
  BY <1>1
<1>3. /\ o.ok = \A i \in 1..w : Whole(units, i, own, c)
      /\ o.counter = c + w
      /\ o.inbox = SubSeq(units, 2 * w + 1, Len(units))
  BY DEF Opened
<1> HIDE DEF w
<1>4. ASSUME NEW i \in 1..w
      PROVE  Whole(units, i, own, c)
  <2>1. own = key
    BY <1>1, <1>2
  <2>2. PICK x \in 1..Len(units), y \in 1..Len(units) : x = 2 * i - 1 /\ y = 2 * i
    BY <1>1, <1>2
  <2> DEFINE q == c + i
  <2>3. units[x] = UnitAt(hand, key, ends, (2 + 2 * c) + x) /\ units[y] = UnitAt(hand, key, ends, (2 + 2 * c) + y)
    BY DEF At
  <2> DEFINE u == (2 + 2 * c) + x
             v == (2 + 2 * c) + y
  <2>4. /\ u \in Nat /\ ~(u <= 2) /\ u % 2 = 1 /\ (u - 1) \div 2 = q
        /\ v \in Nat /\ ~(v <= 2) /\ v % 2 # 1 /\ (v - 1) \div 2 = q
    BY <2>2
  <2> HIDE DEF u, v
  <2>5. /\ UnitAt(hand, key, ends, u) = Length(ends[q] - ends[q - 1])
        /\ UnitAt(hand, key, ends, v) = Rest(key, q - 1, Slice(ends[q - 1], ends[q]))
    BY <2>4 DEF UnitAt
  <2>6. units[x] = Length(ends[q] - ends[q - 1]) /\ units[y] = Rest(key, q - 1, Slice(ends[q - 1], ends[q]))
    BY <2>3, <2>5 DEF u, v
  <2>7. q \in 0..n /\ q - 1 \in 0..n /\ q - 1 < q
    BY <1>1, <1>2
  <2> HIDE DEF q
  <2>8. PICK low \in Int, high \in Int : low = ends[q - 1] /\ high = ends[q] /\ low < high
    BY <2>7, <1>0
  <2>9. Len(Slice(low, high)) = high - low
    <3>1. low \in Int /\ high \in Int /\ low <= high
      BY <2>8
    <3> HIDE <2>8
    <3> QED
      BY <3>1, SliceIs
  <2>10. units[x].kind = "length" /\ units[x].size = high - low
    BY <2>6, <2>8 DEF Length
  <2>11. /\ units[y].kind = "rest" /\ units[y].key = key /\ units[y].number = q - 1
         /\ units[y].data = Slice(low, high)
    BY <2>6, <2>8 DEF Rest
  <2> QED
    BY <2>1, <2>2, <2>9, <2>10, <2>11 DEF Whole, Opens, q
<1>5. /\ At(o.inbox, hand, key, ends, 2 + 2 * o.counter)
      /\ Len(o.inbox) = Len(units) - 2 * w
  <2>1. PICK m \in 1..Len(units) + 1 : m = 2 * w + 1 /\ Len(units) \in m - 1..Len(units)
    BY <1>1, <1>2
  <2>2. 2 + 2 * c \in Int /\ (2 + 2 * c) + (m - 1) = 2 + 2 * o.counter
    BY <1>2, <1>3, <2>1
  <2>3. At(SubSeq(units, m, Len(units)), hand, key, ends, (2 + 2 * c) + (m - 1))
    BY <2>1, <2>2, AtPart
  <2>4. Len(SubSeq(units, m, Len(units))) = Len(units) - m + 1
    BY <2>1, PartAny
  <2>5. o.inbox = SubSeq(units, m, Len(units))
    BY <1>3, <2>1
  <2>6. At(o.inbox, hand, key, ends, 2 + 2 * o.counter)
    BY <2>2, <2>3, <2>5
  <2>7. Len(o.inbox) = Len(units) - 2 * w
    <3>1. PICK l \in Nat, v \in Nat : l = Len(units) /\ v = 2 * w
      BY <1>1, <1>2
    <3>2. Len(o.inbox) = l - m + 1 /\ m = v + 1
      BY <2>1, <2>4, <2>5, <3>1
    <3>3. l - m + 1 = l - v
      BY <3>2
    <3> QED
      BY <3>1, <3>2, <3>3
  <2> QED
    BY <2>6, <2>7
<1>6. o.ok
  BY <1>3, <1>4
<1>7. 2 * o.counter + Len(o.inbox) = 2 * c + Len(units)
  <2>1. PICK l \in Nat : l = Len(units)
    BY <1>1
  <2>2. 2 * (c + w) + (l - 2 * w) = 2 * c + l
    BY <1>2, <2>1
  <2>3. o.counter = c + w /\ Len(o.inbox) = l - 2 * w
    BY <1>3, <1>5, <2>1
  <2> QED
    BY <2>1, <2>2, <2>3
<1> QED
  BY <1>3, <1>5, <1>6, <1>7 DEF w

-----------------------------------------------------------------------------
(***************************************************************************)
(* One way of the connection: what an end has sealed, what is on its way,  *)
(* and what the other end has of it.                                       *)
(***************************************************************************)
Flow(ends, key, n, from, to, units, inbox, rest, at) ==
  /\ Log(ends, n, from, to)
  /\ Entries(units, key, ends, n) /\ Entries(inbox, key, ends, n) /\ Entries(rest, key, ends, n)
  /\ at \in 0..n

\* Before anything is sealed, any key will do.
LEMMA EntriesZero ==
  ASSUME NEW s, NEW key, NEW ends, NEW other, NEW more, Entries(s, key, ends, 0)
  PROVE  Entries(s, other, more, 0)
<1>1. ASSUME NEW i \in 1..Len(s)
      PROVE  Entry(s[i], other, more, 0)
  <2>1. Entry(s[i], key, ends, 0)
    BY DEF Entries
  <2>2. ~(s[i].number \in 0..0 - 1)
    OBVIOUS
  <2> QED
    BY <2>1, <2>2 DEF Entry
<1> QED
  BY <1>1 DEF Entries

LEMMA JoinThree ==
  ASSUME NEW s, IsSeq(s), NEW t, IsSeq(t), NEW u, IsSeq(u)
  PROVE  s \o (t \o u) = (s \o t) \o u
<1>1. Len(s) \in Nat /\ Len(t) \in Nat /\ Len(u) \in Nat
  BY LenAny
<1>2. /\ IsSeq(t \o u) /\ Len(t \o u) = Len(t) + Len(u)
      /\ \A i \in 1..Len(t) + Len(u) : (t \o u)[i] = IF i <= Len(t) THEN t[i] ELSE u[i - Len(t)]
  BY JoinAny
<1>3. /\ IsSeq(s \o t) /\ Len(s \o t) = Len(s) + Len(t)
      /\ \A i \in 1..Len(s) + Len(t) : (s \o t)[i] = IF i <= Len(s) THEN s[i] ELSE t[i - Len(s)]
  BY JoinAny
<1> DEFINE v == t \o u
           w == s \o t
           lv == Len(t) + Len(u)
           lw == Len(s) + Len(t)
<1>4. /\ IsSeq(s \o v) /\ Len(s \o v) = Len(s) + Len(v)
      /\ \A i \in 1..Len(s) + Len(v) : (s \o v)[i] = IF i <= Len(s) THEN s[i] ELSE v[i - Len(s)]
  BY <1>2, JoinAny
<1>5. /\ IsSeq(w \o u) /\ Len(w \o u) = Len(w) + Len(u)
      /\ \A i \in 1..Len(w) + Len(u) : (w \o u)[i] = IF i <= Len(w) THEN w[i] ELSE u[i - Len(w)]
  BY <1>3, JoinAny
<1> HIDE DEF v, w
<1>6. PICK x \in Nat, y \in Nat, z \in Nat : x = Len(s) /\ y = Len(t) /\ z = Len(u)
  BY <1>1
<1>7. ASSUME NEW i \in 1..x + y + z
      PROVE  (s \o v)[i] = (w \o u)[i]
  <2>1. CASE i <= x
    <3>1. (s \o v)[i] = s[i]
      BY <1>2, <1>4, <1>6, <2>1 DEF v
    <3>2. w[i] = s[i]
      BY <1>3, <1>6, <2>1 DEF w
    <3>3. (w \o u)[i] = w[i]
      BY <1>3, <1>5, <1>6, <2>1 DEF w
    <3> QED
      BY <3>1, <3>2, <3>3
  <2>2. CASE x < i /\ i <= x + y
    <3>1. PICK j \in 1..y : j = i - x
      <4>1. i - x \in 1..y
        BY <2>2
      <4> QED
        BY <4>1
    <3>2. (s \o v)[i] = v[j]
      BY <1>2, <1>4, <1>6, <2>2, <3>1 DEF v
    <3>3. v[j] = t[j]
      BY <1>2, <1>6, <3>1 DEF v
    <3>4. w[i] = t[j]
      BY <1>3, <1>6, <2>2, <3>1 DEF w
    <3>5. (w \o u)[i] = w[i]
      BY <1>3, <1>5, <1>6, <2>2 DEF w
    <3> QED
      BY <3>2, <3>3, <3>4, <3>5
  <2>3. CASE x + y < i
    <3>1. PICK j \in 1..z : j = i - (x + y)
      <4>1. i - (x + y) \in 1..z
        BY <2>3
      <4> QED
        BY <4>1
    <3>2. PICK k \in 1..y + z : k = i - x /\ k - y = j /\ ~(k <= y)
      <4>1. i - x \in 1..y + z /\ (i - x) - y = j /\ ~(i - x <= y)
        BY <2>3, <3>1
      <4> QED
        BY <4>1
    <3>3. (s \o v)[i] = v[k]
      BY <1>2, <1>4, <1>6, <2>3, <3>2 DEF v
    <3>4. v[k] = u[j]
      BY <1>2, <1>6, <3>2 DEF v
    <3>5. (w \o u)[i] = u[j]
      <4>1. Len(w) = x + y /\ i \in 1..(x + y) + z
        BY <1>3, <1>6 DEF w
      <4> QED
        BY <1>5, <1>6, <2>3, <3>1, <4>1
    <3> QED
      BY <3>3, <3>4, <3>5
  <2>4. i <= x \/ (x < i /\ i <= x + y) \/ x + y < i
    <3>1. i \in Int /\ x \in Int /\ y \in Int
      BY <1>6
    <3> QED
      BY <3>1
  <2> QED
    BY <2>1, <2>2, <2>3, <2>4
<1>8. Len(s \o v) = x + y + z /\ Len(w \o u) = x + y + z
  BY <1>2, <1>3, <1>4, <1>5, <1>6 DEF v, w
<1>9. s \o v = w \o u
  BY <1>4, <1>5, <1>7, <1>8, SameAny
<1> QED
  BY <1>9 DEF v, w

\* What is sealed continues what was: r records more, by this key.
SealedFlow(more, ends, old, key, n, r, from, b, units, new, inbox, rest, at) ==
  /\ Flow(more, key, n + r, from, b, units \o new, inbox, rest, at)
  /\ Entries(units, key, more, n + r)
  /\ \A i \in 0..n : more[i] = ends[i]
  /\ IsSeq(new) /\ Len(new) = 2 * r
  /\ \A hand : At(new, hand, key, more, 2 + 2 * n)
  /\ \A t, hand : \A m \in Nat :
       IsSeq(t) /\ At(t, hand, old, ends, m) /\ m + Len(t) <= 2 + 2 * n => At(t, hand, key, more, m)

\* An end seals what comes next: what it sent before stays what it was.
LEMMA FlowSeals ==
  ASSUME ChannelAssumption,
         NEW log, NEW past, NEW count, NEW first, NEW low, NEW line, NEW box, NEW left, NEW place,
         Flow(log, past, count, first, low, line, box, left, place),
         NEW high \in Int, low <= high, NEW now, now = past \/ count = 0,
         NEW piece, piece = Slice(low, high), NEW many, many = RecordsOf(piece)
  PROVE  /\ many \in Nat
         /\ \E more : SealedFlow(more, log, past, now, count, many, first, high, line,
                                 Sealed(now, count, piece), box, left, place)
<1>1. Log(log, count, first, low) /\ count \in Nat
  BY DEF Flow, Log
<1>2. many \in Nat /\ \E more : /\ Log(more, count + many, first, high) /\ Extends(more, count + many, log, count)
                               /\ Carries(Sealed(now, count, piece), now, more, count, many)
  BY <1>1, SealedIs
<1>3. PICK more : /\ Log(more, count + many, first, high) /\ Extends(more, count + many, log, count)
                  /\ Carries(Sealed(now, count, piece), now, more, count, many)
  BY <1>2
<1>4. count + many \in Nat
  BY <1>1, <1>2
<1>5. ASSUME NEW s, Entries(s, past, log, count)
      PROVE  Entries(s, now, more, count + many)
  <2>1. Entries(s, now, log, count)
    BY <1>5, EntriesZero
  <2> QED
    BY <1>1, <1>3, <1>4, <2>1, EntriesStay
<1> DEFINE new == Sealed(now, count, piece)
<1> HIDE DEF new
<1>6. Entries(new, now, more, count + many)
  BY <1>1, <1>2, <1>3, CarriedEntries DEF new
<1>7. Flow(more, now, count + many, first, high, line \o new, box, left, place)
  <2>1. Entries(line, now, more, count + many) /\ Entries(box, now, more, count + many) /\ Entries(left, now, more, count + many)
    BY <1>5 DEF Flow
  <2>2. Entries(line \o new, now, more, count + many)
    BY <1>6, <2>1, EntriesJoin
  <2>3. place \in 0..count + many
    BY <1>1, <1>2 DEF Flow
  <2> QED
    BY <1>3, <2>1, <2>2, <2>3 DEF Flow
<1>8. IsSeq(new) /\ Len(new) = 2 * many
  BY <1>3 DEF Carries, new
<1>9. \A hand : At(new, hand, now, more, 2 + 2 * count)
  BY <1>1, <1>2, <1>3, CarriedAt DEF new
<1>10. ASSUME NEW s, NEW hand, NEW m \in Nat, IsSeq(s), At(s, hand, past, log, m), m + Len(s) <= 2 + 2 * count
       PROVE  At(s, hand, now, more, m)
  <2>1. CASE now = past
    BY <1>1, <1>3, <1>4, <1>10, <2>1, AtStays
  <2>2. CASE count = 0
    BY <1>10, <2>2, AtEarly
  <2> QED
    BY <2>1, <2>2
<1>11. \A i \in 0..count : more[i] = log[i]
  BY <1>3 DEF Extends
<1>12. Entries(line, now, more, count + many)
  BY <1>5 DEF Flow
<1> QED
  BY <1>2, <1>7, <1>8, <1>9, <1>10, <1>11, <1>12 DEF new, SealedFlow

\* The numbers of the first frames.
Upto(n) == [i \in 1..n |-> i]

\* An end that has opened so much has passed on the whole frames of it.
Passed(g, parser, at) == 2 * g <= at /\ at < 2 * g + 2 /\ parser = Slice(2 * g, at)

LEMMA UptoIs ==
  ASSUME NEW n \in Nat
  PROVE  IsSeq(Upto(n)) /\ Len(Upto(n)) = n /\ \A i \in 1..n : Upto(n)[i] = i
<1> DEFINE s == Upto(n)
<1>1. s = [i \in 1..n |-> s[i]]
  BY DEF Upto
<1>2. \A i \in 1..n : s[i] = i
  BY DEF Upto
<1> HIDE DEF s
<1>3. IsSeq(s) /\ Len(s) = n
  BY <1>1, ListAny
<1> QED
  BY <1>2, <1>3 DEF s

PassedOn(g, plain, at) ==
  \E k \in Nat : Passed(g + k, Unparsed(plain), at) /\ Upto(g) \o Parsed(plain) = Upto(g + k)

\* What comes next completes the next frames.
LEMMA PassesOn ==
  ASSUME NEW base \in Nat, NEW before \in Int, NEW after \in Int, before <= after, NEW kept, Passed(base, kept, before),
         NEW whole, whole = kept \o Slice(before, after)
  PROVE  PassedOn(base, whole, after)
<1>1. 2 * base <= before /\ kept = Slice(2 * base, before) /\ 2 * base \in Int
  BY DEF Passed
<1>2. whole = Slice(2 * base, after)
  BY <1>1, SliceJoin
<1>3. after \in Nat /\ 2 * base <= after
  BY <1>1
<1>4. PICK k \in Nat :
        /\ 2 * (base + k) <= after /\ after < 2 * (base + k) + 2
        /\ Parsed(Slice(2 * base, after)) = [i \in 1..k |-> base + i]
        /\ Unparsed(Slice(2 * base, after)) = Slice(2 * (base + k), after)
  BY <1>3, ParsedIs
<1>5. Passed(base + k, Unparsed(whole), after)
  BY <1>2, <1>4 DEF Passed
<1>6. Upto(base) \o Parsed(whole) = Upto(base + k)
  <2> DEFINE p == [i \in 1..k |-> base + i]
  <2>1. p = [i \in 1..k |-> p[i]] /\ \A i \in 1..k : p[i] = base + i
    OBVIOUS
  <2>2. Parsed(whole) = p
    BY <1>2, <1>4
  <2> HIDE DEF p
  <2>3. IsSeq(p) /\ Len(p) = k
    BY <2>1, ListAny
  <2>4. IsSeq(Upto(base)) /\ Len(Upto(base)) = base /\ \A i \in 1..base : Upto(base)[i] = i
    BY UptoIs
  <2> DEFINE u == Upto(base)
  <2> HIDE DEF u
  <2>5. /\ IsSeq(u \o p) /\ Len(u \o p) = Len(u) + Len(p)
        /\ \A i \in 1..Len(u) + Len(p) : (u \o p)[i] = IF i <= Len(u) THEN u[i] ELSE p[i - Len(u)]
    BY <2>3, <2>4, JoinAny DEF u
  <2>6. IsSeq(Upto(base + k)) /\ Len(Upto(base + k)) = base + k /\ \A i \in 1..base + k : Upto(base + k)[i] = i
    <3>1. base + k \in Nat
      OBVIOUS
    <3> QED
      BY <3>1, UptoIs
  <2>7. ASSUME NEW i \in 1..base + k
        PROVE  (u \o p)[i] = i
    <3>1. i <= base => u[i] = i
      BY <2>4 DEF u
    <3>2. ~(i <= base) => i - base \in 1..k /\ base + (i - base) = i
      OBVIOUS
    <3>3. (u \o p)[i] = IF i <= base THEN u[i] ELSE p[i - base]
      BY <2>3, <2>4, <2>5 DEF u
    <3> QED
      BY <2>1, <3>1, <3>2, <3>3
  <2>8. Len(u \o p) = base + k
    BY <2>3, <2>4, <2>5 DEF u
  <2>9. u \o p = Upto(base + k)
    BY <2>5, <2>6, <2>7, <2>8, SameAny
  <2> QED
    BY <2>2, <2>9 DEF u
<1> QED
  BY <1>5, <1>6 DEF PassedOn

-----------------------------------------------------------------------------
(***************************************************************************)
(* The client, field by field.                                             *)
(***************************************************************************)
ClientFields ==
  {"haveKeys", "ready", "failed", "inbox", "sendKey", "sendCounter", "recvKey", "recvCounter",
   "recvInbox", "waiting", "parser"}

\* All other fields are as they were.
Keeps(new, old, fields) == DOMAIN new = DOMAIN old /\ \A f \in DOMAIN old \ fields : new[f] = old[f]

\* What the handshake leaves of the client.
KeyedClient(all, new) ==
  /\ client.haveKeys => new = client
  /\ ~client.haveKeys /\ Len(all) < 2 =>
       new.inbox = all /\ Keeps(new, client, {"inbox"})
  /\ ~client.haveKeys /\ ~(Len(all) < 2) =>
       /\ new.haveKeys = TRUE /\ new.inbox = <<>>
       /\ new.sendKey = DerivedKey("up", Hello[2], SubSeq(all, 1, 2), pinned)
       /\ new.recvKey = DerivedKey("down", Hello[2], SubSeq(all, 1, 2), pinned)
       /\ Keeps(new, client, {"haveKeys", "inbox", "sendKey", "recvKey"})

LEMMA ClientKeyedIs ==
  ASSUME DOMAIN client = ClientFields, NEW came
  PROVE  KeyedClient(client.inbox \o came, ClientKeyed(came))
<1> DEFINE all == client.inbox \o came
           new == ClientKeyed(came)
<1>1. client.haveKeys => new = client
  BY DEF ClientKeyed
<1>2. ASSUME ~client.haveKeys, Len(all) < 2
      PROVE  new.inbox = all /\ Keeps(new, client, {"inbox"})
  <2>1. new = [client EXCEPT !.inbox = all]
    BY <1>2 DEF ClientKeyed
  <2> QED
    BY <2>1 DEF Keeps, ClientFields
<1>3. ASSUME ~client.haveKeys, ~(Len(all) < 2)
      PROVE  /\ new.haveKeys = TRUE /\ new.inbox = <<>>
             /\ new.sendKey = DerivedKey("up", Hello[2], SubSeq(all, 1, 2), pinned)
             /\ new.recvKey = DerivedKey("down", Hello[2], SubSeq(all, 1, 2), pinned)
             /\ Keeps(new, client, {"haveKeys", "inbox", "sendKey", "recvKey"})
  <2>1. new = [client EXCEPT !.haveKeys = TRUE, !.inbox = <<>>,
               !.sendKey = DerivedKey("up", Hello[2], SubSeq(all, 1, 2), pinned),
               !.recvKey = DerivedKey("down", Hello[2], SubSeq(all, 1, 2), pinned)]
    BY <1>3 DEF ClientKeyed
  <2> QED
    BY <2>1 DEF Keeps, ClientFields
<1> QED
  BY <1>1, <1>2, <1>3 DEF KeyedClient

\* A record that does not open, or no proof.
Refused(c, o, box) == ~o.ok \/ (~c.ready /\ box # <<>> /\ SubSeq(box, 1, 1) # Ready)

\* What opening leaves of the client.
OpenedClient(keyed, opened, box, read) ==
  /\ Refused(keyed, opened, box) =>
       read.plain = <<>> /\ read.state.failed = TRUE /\ Keeps(read.state, keyed, {"failed"})
  /\ ~Refused(keyed, opened, box) =>
       /\ read.state.recvCounter = opened.counter /\ read.state.recvInbox = opened.inbox
       /\ Keeps(read.state, keyed, {"ready", "recvCounter", "recvInbox"})
       /\ keyed.ready => read.state.ready = TRUE /\ read.plain = opened.plain
       /\ ~keyed.ready /\ box = <<>> => read.state.ready = FALSE /\ read.plain = <<>>
       /\ ~keyed.ready /\ box # <<>> => read.state.ready = TRUE /\ read.plain = SubSeq(box, 2, Len(box))

LEMMA ClientOpenedIs ==
  ASSUME NEW keyed, DOMAIN keyed = ClientFields, NEW opened, NEW box, box = keyed.inbox \o opened.plain,
         NEW read, read = ClientOpened(keyed, opened)
  PROVE  OpenedClient(keyed, opened, box, read)
<1>1. ASSUME Refused(keyed, opened, box)
      PROVE  read.plain = <<>> /\ read.state.failed = TRUE /\ Keeps(read.state, keyed, {"failed"})
  <2>1. read = [state |-> [keyed EXCEPT !.failed = TRUE], plain |-> <<>>]
    BY <1>1 DEF ClientOpened, Refused
  <2>2. read.state = [keyed EXCEPT !.failed = TRUE] /\ read.plain = <<>>
    BY <2>1
  <2> QED
    BY <2>2 DEF Keeps, ClientFields
<1> DEFINE passed == IF keyed.ready THEN [ready |-> TRUE, plain |-> opened.plain]
                     ELSE IF box = <<>> THEN [ready |-> FALSE, plain |-> <<>>]
                     ELSE Proven(box)
<1>2. ASSUME ~Refused(keyed, opened, box)
      PROVE  /\ read.state.recvCounter = opened.counter /\ read.state.recvInbox = opened.inbox
             /\ Keeps(read.state, keyed, {"ready", "recvCounter", "recvInbox"})
             /\ read.state.ready = passed.ready /\ read.plain = passed.plain
  <2>1. read = [state |-> [keyed EXCEPT !.ready = passed.ready, !.recvCounter = opened.counter, !.recvInbox = opened.inbox],
               plain |-> passed.plain]
    BY <1>2 DEF ClientOpened, Refused
  <2> HIDE DEF passed
  <2>2. /\ read.state = [keyed EXCEPT !.ready = passed.ready, !.recvCounter = opened.counter, !.recvInbox = opened.inbox]
        /\ read.plain = passed.plain
    BY <2>1
  <2> QED
    BY <2>2 DEF Keeps, ClientFields
<1>3. /\ keyed.ready => passed.ready = TRUE /\ passed.plain = opened.plain
      /\ ~keyed.ready /\ box = <<>> => passed.ready = FALSE /\ passed.plain = <<>>
      /\ ~keyed.ready /\ box # <<>> => passed.ready = TRUE /\ passed.plain = SubSeq(box, 2, Len(box))
  BY DEF Proven
<1> HIDE DEF passed
<1> QED
  BY <1>1, <1>2, <1>3 DEF OpenedClient

-----------------------------------------------------------------------------
(***************************************************************************)
(* The invariant.                                                          *)
(***************************************************************************)
ServerFields ==
  {"ready", "failed", "inbox", "sendKey", "sendCounter", "recvKey", "recvCounter",
   "recvInbox", "parser"}

Shape ==
  /\ DOMAIN stream = Ways
  /\ DOMAIN sent = Ways /\ DOMAIN got = Ways
  /\ \A w \in Ways : /\ Len(sent[w]) \in 0..MaxFrames /\ sent[w] = Upto(Len(sent[w]))
                     /\ Len(got[w]) \in Nat /\ got[w] = Upto(Len(got[w]))
  /\ pinned \in {"server", "other"} /\ faults \in 0..MaxFaults

\* What waits is everything that was sent, until there are keys and a proof.
ClientSound ==
  /\ DOMAIN client = ClientFields
  /\ client.haveKeys \in BOOLEAN /\ client.ready \in BOOLEAN /\ client.failed \in BOOLEAN
  /\ Len(client.inbox) < 2 /\ Len(client.recvInbox) < 2 /\ Len(client.parser) < 2
  /\ client.ready => client.haveKeys /\ pinned = "server"
  /\ client.haveKeys => /\ client.inbox = <<>>
                        /\ client.sendKey[1] = "up" /\ client.recvKey[4] = pinned
  /\ client.waiting = IF client.ready THEN <<>> ELSE Slice(0, 2 * Len(sent.up))

ServerSound ==
  /\ DOMAIN server = ServerFields
  /\ server.ready \in BOOLEAN /\ server.failed \in BOOLEAN
  /\ Len(server.inbox) < 2 /\ Len(server.recvInbox) < 2 /\ Len(server.parser) < 2
  /\ server.ready => server.sendKey[1] = "down" /\ server.sendKey[4] = "server"
  /\ ~server.ready => sent.down = <<>> /\ server.recvCounter = 0

\* How much the ends have sealed.
ClientSealed == IF client.ready THEN 2 * Len(sent.up) ELSE 0

ServerSealed == IF server.ready THEN 2 * Len(sent.down) ELSE -1

\* The way up: what this client has sealed, what of it is on its way, and what this
\* server has of it and has passed on.
UpHolds(c, s, units, to, g, ends) ==
  /\ Flow(ends, c.sendKey, c.sendCounter, 0, to, units, s.inbox, s.recvInbox, s.recvCounter)
  /\ Passed(g, s.parser, ends[s.recvCounter])

\* The way down, where the proof is before the data.
DownHolds(c, s, units, to, g, ends) ==
  /\ Flow(ends, s.sendKey, s.sendCounter, -1, to, units, c.inbox, c.recvInbox, c.recvCounter)
  /\ IF c.ready THEN Passed(g, c.parser, ends[c.recvCounter])
     ELSE c.recvCounter = 0 /\ g = 0 /\ c.parser = <<>>

UpInv(ends) == UpHolds(client, server, stream.up, ClientSealed, Len(got.up), ends)

DownInv(ends) == DownHolds(client, server, stream.down, ServerSealed, Len(got.down), ends)

-----------------------------------------------------------------------------
(***************************************************************************)
(* What the client makes of a read.                                        *)
(***************************************************************************)
\* Data after the proof.
LEMMA SliceTail ==
  ASSUME NEW top \in Int, -1 < top
  PROVE  /\ Len(Slice(-1, top)) = top + 1
         /\ SubSeq(Slice(-1, top), 2, Len(Slice(-1, top))) = Slice(0, top)
<1>1. PICK bottom \in Int, first \in Nat \ {0}, last \in Nat :
        bottom = -1 /\ first = 2 /\ last = top + 1
  OBVIOUS
<1>2. Len(Slice(bottom, top)) = top - bottom
  BY <1>1, SliceIs
<1>3. Len(Slice(bottom, top)) = top + 1
  BY <1>1, <1>2
<1>4. /\ bottom <= top /\ first <= last + 1 /\ last <= top - bottom
      /\ bottom + (first - 1) = 0 /\ bottom + last = top
  BY <1>1
<1>5. SubSeq(Slice(bottom, top), first, last) = Slice(bottom + (first - 1), bottom + last)
  BY <1>4, SlicePart
<1> QED
  BY <1>1, <1>3, <1>4, <1>5

\* The proof before data.
LEMMA SliceHead ==
  ASSUME NEW top \in Int, -1 < top
  PROVE  SubSeq(Slice(-1, top), 1, 1) = Ready
<1>1. PICK bottom \in Int, first \in Nat \ {0}, last \in Nat :
        bottom = -1 /\ first = 1 /\ last = 1
  OBVIOUS
<1>2. /\ bottom <= top /\ first <= last + 1 /\ last <= top - bottom
      /\ bottom + (first - 1) = -1 /\ bottom + last = 0
  BY <1>1
<1>3. SubSeq(Slice(bottom, top), first, last) = Slice(bottom + (first - 1), bottom + last)
  BY <1>2, SlicePart, ZenonT(60)
<1> QED
  BY <1>1, <1>2, <1>3, ReadyIs

\* What is for the records.
ClientRecords(units) ==
  IF client.haveKeys THEN client.recvInbox \o units ELSE Beyond(client.inbox, units, 2)

LEMMA BeyondEntries ==
  ASSUME NEW box, NEW units, NEW key, NEW ends, NEW n, Entries(box, key, ends, n), Entries(units, key, ends, n),
         ~(Len(box \o units) < 2)
  PROVE  Entries(Beyond(box, units, 2), key, ends, n)
<1> DEFINE all == box \o units
<1>1. IsSeq(box) /\ IsSeq(units)
  BY DEF Entries
<1>2. IsSeq(all) /\ Len(all) = Len(box) + Len(units)
  BY <1>1, JoinAny
<1>3. Entries(all, key, ends, n)
  BY EntriesJoin
<1>4. Beyond(box, units, 2) = SubSeq(all, 3, Len(all))
  BY <1>2 DEF Beyond
<1>5. Len(all) \in Nat /\ ~(Len(all) < 2)
  BY <1>2, LenAny
<1> HIDE DEF all
<1>6. 3 \in 1..Len(all) + 1 /\ Len(all) \in 3 - 1..Len(all)
  BY <1>5
<1>7. Entries(SubSeq(all, 3, Len(all)), key, ends, n)
  BY <1>3, <1>6, EntriesPart
<1> QED
  BY <1>4, <1>7

\* The keys and the records of a read, opened.
ClientRead(units, k, o, fed, ends, key, n) ==
  /\ /\ DOMAIN k = ClientFields
     /\ k.haveKeys \in BOOLEAN /\ k.ready = client.ready /\ k.failed = client.failed
     /\ k.sendCounter = client.sendCounter /\ k.waiting = client.waiting /\ k.parser = client.parser
     /\ client.haveKeys => k.haveKeys /\ k.sendKey = client.sendKey
     /\ Len(k.inbox) < 2 /\ k.recvInbox = client.recvInbox /\ k.recvCounter = client.recvCounter
     /\ k.haveKeys => k.inbox = <<>> /\ k.sendKey[1] = "up" /\ k.recvKey[4] = pinned
     /\ Entries(k.inbox, key, ends, n)
     /\ k.haveKeys => client.haveKeys \/ ~(Len(client.inbox \o units) < 2)
  /\ ~k.haveKeys => fed.state = k /\ fed.plain = <<>>
  /\ k.haveKeys =>
       /\ Entries(ClientRecords(units), key, ends, n)
       /\ o.ok \in BOOLEAN /\ Entries(o.inbox, key, ends, n) /\ Len(o.inbox) < 2
       /\ o.ok => /\ o.counter \in client.recvCounter..n
                  /\ o.plain = Slice(ends[client.recvCounter], ends[o.counter])
                  /\ o.counter > client.recvCounter => k.recvKey = key
       /\ ~o.ok => o.plain = <<>>
       /\ ends[client.recvCounter] \in Int
       /\ o.ok => /\ ends[o.counter] \in Int /\ ends[client.recvCounter] <= ends[o.counter]
                  /\ client.recvCounter < o.counter => ends[client.recvCounter] < ends[o.counter]
       /\ OpenedClient(k, o, o.plain, fed)

LEMMA ClientReadIs ==
  ASSUME ClientSound, NEW ends, DownInv(ends),
         NEW units, Entries(units, server.sendKey, ends, server.sendCounter),
         NEW k, k = ClientKeyed(units),
         NEW o, o = Opened(k.recvKey, k.recvCounter, ClientRecords(units)),
         NEW fed, fed = ClientFed(units)
  PROVE  ClientRead(units, k, o, fed, ends, server.sendKey, server.sendCounter)
<1> DEFINE key == server.sendKey
           n == server.sendCounter
           at == client.recvCounter
<1>1. /\ Log(ends, n, -1, ServerSealed) /\ n \in Nat /\ at \in 0..n
      /\ Entries(client.inbox, key, ends, n) /\ Entries(client.recvInbox, key, ends, n)
      /\ ~client.ready => at = 0
  BY DEF DownInv, DownHolds, Flow, Log
<1>2. /\ IsSeq(units) /\ IsSeq(client.inbox) /\ IsSeq(client.recvInbox)
  BY <1>1 DEF Entries
<1> DEFINE box == client.inbox \o units
<1>3. KeyedClient(box, k)
  BY ClientKeyedIs DEF ClientSound
<1>4. Entries(box, key, ends, n)
  BY <1>1, EntriesJoin
<1> DEFINE records == ClientRecords(units)
<1>5. fed = IF k.haveKeys THEN ClientOpened(k, o) ELSE [state |-> k, plain |-> <<>>]
  BY DEF ClientFed, ClientRecords
<1> HIDE DEF key, n, at, box, records
<1>6. /\ DOMAIN client = ClientFields /\ client.haveKeys \in BOOLEAN
      /\ client.ready \in BOOLEAN /\ client.failed \in BOOLEAN
      /\ Len(client.inbox) < 2 /\ Len(client.recvInbox) < 2
      /\ client.ready => client.haveKeys /\ pinned = "server"
      /\ client.haveKeys => client.inbox = <<>> /\ client.sendKey[1] = "up" /\ client.recvKey[4] = pinned
  BY DEF ClientSound
\* What the keys leave.
<1>7. /\ DOMAIN k = ClientFields
      /\ k.haveKeys \in BOOLEAN /\ k.ready = client.ready /\ k.failed = client.failed
      /\ k.sendCounter = client.sendCounter /\ k.waiting = client.waiting /\ k.parser = client.parser
      /\ client.haveKeys => k.haveKeys /\ k.sendKey = client.sendKey
      /\ Len(k.inbox) < 2 /\ k.recvInbox = client.recvInbox /\ k.recvCounter = client.recvCounter
      /\ k.haveKeys => k.inbox = <<>> /\ k.sendKey[1] = "up" /\ k.recvKey[4] = pinned
      /\ Entries(k.inbox, key, ends, n)
      /\ k.haveKeys => client.haveKeys \/ ~(Len(box) < 2)
  <2>1. CASE client.haveKeys
    BY <1>1, <1>3, <1>6, <2>1 DEF KeyedClient
  <2>2. CASE ~client.haveKeys /\ Len(box) < 2
    <3>1. k.inbox = box /\ Keeps(k, client, {"inbox"})
      BY <1>3, <2>2 DEF KeyedClient
    <3>2. DOMAIN k = ClientFields /\ \A f \in ClientFields \ {"inbox"} : k[f] = client[f]
      BY <1>6, <3>1 DEF Keeps
    <3>3. /\ k.haveKeys = client.haveKeys /\ k.ready = client.ready /\ k.failed = client.failed
          /\ k.sendCounter = client.sendCounter /\ k.waiting = client.waiting /\ k.parser = client.parser
          /\ k.recvInbox = client.recvInbox /\ k.recvCounter = client.recvCounter
      BY <3>2 DEF ClientFields
    <3> QED
      BY <1>4, <1>6, <2>2, <3>1, <3>2, <3>3
  <2>3. CASE ~client.haveKeys /\ ~(Len(box) < 2)
    <3>1. /\ k.haveKeys = TRUE /\ k.inbox = <<>>
          /\ k.sendKey = DerivedKey("up", Hello[2], SubSeq(box, 1, 2), pinned)
          /\ k.recvKey = DerivedKey("down", Hello[2], SubSeq(box, 1, 2), pinned)
          /\ Keeps(k, client, {"haveKeys", "inbox", "sendKey", "recvKey"})
      BY <1>3, <2>3 DEF KeyedClient
    <3>2. DOMAIN k = ClientFields /\ \A f \in ClientFields \ {"haveKeys", "inbox", "sendKey", "recvKey"} : k[f] = client[f]
      BY <1>6, <3>1 DEF Keeps
    <3>3. /\ k.ready = client.ready /\ k.failed = client.failed
          /\ k.sendCounter = client.sendCounter /\ k.waiting = client.waiting /\ k.parser = client.parser
          /\ k.recvInbox = client.recvInbox /\ k.recvCounter = client.recvCounter
      BY <3>2 DEF ClientFields
    <3>4. k.sendKey[1] = "up" /\ k.recvKey[4] = pinned
      BY <3>1 DEF DerivedKey
    <3>5. Len(k.inbox) < 2 /\ Entries(k.inbox, key, ends, n)
      BY <3>1, EntriesNone
    <3> QED
      BY <2>3, <3>1, <3>2, <3>3, <3>4, <3>5
  <2> QED
    BY <1>6, <2>1, <2>2, <2>3
<1>8. ASSUME ~k.haveKeys
      PROVE  fed.state = k /\ fed.plain = <<>>
  BY <1>5, <1>8
<1>9. ASSUME k.haveKeys
      PROVE  /\ Entries(records, key, ends, n)
             /\ o.ok \in BOOLEAN /\ Entries(o.inbox, key, ends, n) /\ Len(o.inbox) < 2
             /\ o.ok => /\ o.counter \in at..n /\ o.plain = Slice(ends[at], ends[o.counter])
                        /\ o.counter > at => k.recvKey = key
             /\ ~o.ok => o.plain = <<>>
             /\ ends[at] \in Int
             /\ o.ok => /\ ends[o.counter] \in Int /\ ends[at] <= ends[o.counter]
                        /\ at < o.counter => ends[at] < ends[o.counter]
             /\ OpenedClient(k, o, o.plain, fed)
  <2>1. fed = ClientOpened(k, o)
    BY <1>5, <1>9
  <2>2. Entries(records, key, ends, n)
    <3>1. CASE client.haveKeys
      <4>1. Entries(client.recvInbox \o units, key, ends, n)
        BY <1>1, EntriesJoin DEF key, n
      <4> QED
        BY <3>1, <4>1 DEF records, ClientRecords
    <3>2. CASE ~client.haveKeys
      <4>1. ~(Len(client.inbox \o units) < 2)
        BY <1>7, <1>9, <3>2 DEF box
      <4>2. Entries(Beyond(client.inbox, units, 2), key, ends, n)
        BY <1>1, <4>1, BeyondEntries DEF key, n
      <4> QED
        BY <3>2, <4>2 DEF records, ClientRecords
    <3> QED
      BY <3>1, <3>2
  <2>3. /\ o.ok \in BOOLEAN /\ Entries(o.inbox, key, ends, n) /\ Len(o.inbox) < 2
        /\ o.ok => /\ o.counter \in at..n /\ o.plain = Slice(ends[at], ends[o.counter])
                   /\ o.counter > at => k.recvKey = key
        /\ ~o.ok => o.plain = <<>>
    <3>1. k.recvCounter \in 0..n /\ k.recvCounter = at
      BY <1>1, <1>7 DEF at
    <3>2. o = Opened(k.recvKey, at, records)
      BY <3>1 DEF records
    <3> QED
      BY <1>1, <2>2, <3>2, OpenedIs
  <2>4. /\ ends[at] \in Int
        /\ o.ok => /\ ends[o.counter] \in Int /\ ends[at] <= ends[o.counter]
                   /\ at < o.counter => ends[at] < ends[o.counter]
    <3>1. \A x, y \in 0..n : x < y => \E low, high \in Int : low = ends[x] /\ high = ends[y] /\ low < high
      BY <1>1, LogUp
    <3>2. \A x \in 0..n : ends[x] \in Int
      BY <1>1, LogBounds
    <3>3. o.ok => o.counter \in 0..n /\ (at = o.counter \/ at < o.counter)
      BY <1>1, <2>3
    <3> QED
      BY <1>1, <3>1, <3>2, <3>3
  <2>5. IsSeq(o.plain)
    <3>1. o.ok => IsSeq(Slice(ends[at], ends[o.counter]))
      BY <2>4, SliceIs
    <3> QED
      BY <2>3, <3>1, NoneAny
  <2>6. k.inbox \o o.plain = o.plain
    BY <1>7, <1>9, <2>5, NoneAny, ZenonT(60)
  <2>7. OpenedClient(k, o, o.plain, fed)
    <3>1. DOMAIN k = ClientFields
      BY <1>7
    <3> DEFINE all == k.inbox \o o.plain
    <3>2. OpenedClient(k, o, all, fed)
      BY <3>1, <2>1, ClientOpenedIs
    <3>3. all = o.plain
      BY <2>6
    <3> HIDE DEF all
    <3> QED
      BY <3>2, <3>3
  <2> QED
    BY <2>2, <2>3, <2>4, <2>7
<1> QED
  BY <1>7, <1>8, <1>9 DEF ClientRead, key, n, at, box, records

LEMMA ClientFedIs ==
  ASSUME ClientSound, ServerSound, ~client.failed, NEW ends, DownInv(ends),
         Shape, NEW units, Entries(units, server.sendKey, ends, server.sendCounter),
         NEW fed, fed = ClientFed(units), NEW c, c = fed.state
  PROVE  /\ DOMAIN c = ClientFields
         /\ c.haveKeys \in BOOLEAN /\ c.ready \in BOOLEAN /\ c.failed \in BOOLEAN
         /\ c.sendCounter = client.sendCounter /\ c.waiting = client.waiting /\ c.parser = client.parser
         /\ client.haveKeys => c.haveKeys /\ c.sendKey = client.sendKey
         /\ client.ready => c.ready
         /\ c.failed => c.ready = client.ready
         /\ Len(c.inbox) < 2 /\ Len(c.recvInbox) < 2
         /\ c.ready => c.haveKeys /\ pinned = "server"
         /\ c.haveKeys => c.inbox = <<>> /\ c.sendKey[1] = "up" /\ c.recvKey[4] = pinned
         /\ Entries(c.inbox, server.sendKey, ends, server.sendCounter)
         /\ Entries(c.recvInbox, server.sendKey, ends, server.sendCounter)
         /\ c.recvCounter \in client.recvCounter..server.sendCounter
         /\ client.ready => fed.plain = Slice(ends[client.recvCounter], ends[c.recvCounter])
         /\ ~client.ready /\ c.ready => fed.plain = Slice(0, ends[c.recvCounter]) /\ 0 <= ends[c.recvCounter]
         /\ ~c.ready => fed.plain = <<>> /\ c.recvCounter = 0
<1> DEFINE key == server.sendKey
           n == server.sendCounter
           at == client.recvCounter
<1>1. /\ Log(ends, n, -1, ServerSealed) /\ n \in Nat /\ at \in 0..n
      /\ ~client.ready => at = 0
  BY DEF DownInv, DownHolds, Flow, Log
<1>2. PICK k : k = ClientKeyed(units)
  OBVIOUS
<1>3. PICK o : o = Opened(k.recvKey, k.recvCounter, ClientRecords(units))
  OBVIOUS
<1>4. ClientRead(units, k, o, fed, ends, key, n)
  BY <1>2, <1>3, ClientReadIs
<1> HIDE DEF key, n, at
<1>6. /\ DOMAIN client = ClientFields /\ client.haveKeys \in BOOLEAN
      /\ client.ready \in BOOLEAN /\ client.failed \in BOOLEAN
      /\ Len(client.inbox) < 2 /\ Len(client.recvInbox) < 2
      /\ client.ready => client.haveKeys /\ pinned = "server"
      /\ client.haveKeys => client.inbox = <<>> /\ client.sendKey[1] = "up" /\ client.recvKey[4] = pinned
  BY DEF ClientSound
<1>7. /\ DOMAIN k = ClientFields
      /\ k.haveKeys \in BOOLEAN /\ k.ready = client.ready /\ k.failed = client.failed
      /\ k.sendCounter = client.sendCounter /\ k.waiting = client.waiting /\ k.parser = client.parser
      /\ client.haveKeys => k.haveKeys /\ k.sendKey = client.sendKey
      /\ Len(k.inbox) < 2 /\ k.recvInbox = client.recvInbox /\ k.recvCounter = client.recvCounter
      /\ k.haveKeys => k.inbox = <<>> /\ k.sendKey[1] = "up" /\ k.recvKey[4] = pinned
      /\ Entries(k.inbox, key, ends, n)
  BY <1>4 DEF ClientRead
<1>10. Entries(client.recvInbox, key, ends, n)
  BY DEF DownInv, DownHolds, Flow, key, n
<1>8. CASE ~k.haveKeys
  <2>1. fed.state = k /\ fed.plain = <<>>
    BY <1>4, <1>8 DEF ClientRead
  <2>2. ~client.haveKeys /\ ~client.ready
    BY <1>6, <1>7, <1>8
  <2>3. c.recvCounter \in client.recvCounter..server.sendCounter /\ c.recvCounter = 0
    BY <1>1, <1>7, <2>1, <2>2 DEF at, n
  <2> QED
    BY <1>6, <1>7, <1>8, <1>10, <2>1, <2>2, <2>3 DEF key, n
<1>9. CASE k.haveKeys
  <2>3. /\ o.ok \in BOOLEAN /\ Entries(o.inbox, key, ends, n) /\ Len(o.inbox) < 2
        /\ o.ok => /\ o.counter \in at..n /\ o.plain = Slice(ends[at], ends[o.counter])
                   /\ o.counter > at => k.recvKey = key
        /\ ~o.ok => o.plain = <<>>
    BY <1>4, <1>9 DEF ClientRead, at
  <2>4. /\ ends[at] \in Int
        /\ o.ok => /\ ends[o.counter] \in Int /\ ends[at] <= ends[o.counter]
                   /\ at < o.counter => ends[at] < ends[o.counter]
    BY <1>4, <1>9 DEF ClientRead, at
  <2>5. IsSeq(o.plain)
    <3>1. o.ok => IsSeq(Slice(ends[at], ends[o.counter]))
      BY <2>4, SliceIs
    <3> QED
      BY <2>3, <3>1, NoneAny
  <2> DEFINE bad == Refused(k, o, o.plain)
  <2>7. /\ bad => fed.plain = <<>> /\ fed.state.failed = TRUE /\ Keeps(fed.state, k, {"failed"})
        /\ ~bad => /\ fed.state.recvCounter = o.counter /\ fed.state.recvInbox = o.inbox
                   /\ Keeps(fed.state, k, {"ready", "recvCounter", "recvInbox"})
                   /\ k.ready => fed.state.ready = TRUE /\ fed.plain = o.plain
                   /\ ~k.ready /\ o.plain = <<>> => fed.state.ready = FALSE /\ fed.plain = <<>>
                   /\ ~k.ready /\ o.plain # <<>> => fed.state.ready = TRUE /\ fed.plain = SubSeq(o.plain, 2, Len(o.plain))
    BY <1>4, <1>9 DEF ClientRead, OpenedClient
  <2>8. ASSUME bad
        PROVE  /\ DOMAIN c = ClientFields /\ c.failed = TRUE /\ fed.plain = <<>>
               /\ \A f \in ClientFields \ {"failed"} : c[f] = k[f]
    BY <1>7, <2>7, <2>8 DEF Keeps
  <2>9. ASSUME ~bad
        PROVE  /\ DOMAIN c = ClientFields /\ o.ok
               /\ c.recvCounter = o.counter /\ c.recvInbox = o.inbox
               /\ \A f \in ClientFields \ {"ready", "recvCounter", "recvInbox"} : c[f] = k[f]
    BY <1>7, <2>7, <2>9 DEF Keeps, Refused
  <2> HIDE DEF bad
  <2>10. CASE bad
    <3>1. /\ c.haveKeys = k.haveKeys /\ c.ready = k.ready /\ c.inbox = k.inbox /\ c.sendKey = k.sendKey
          /\ c.sendCounter = k.sendCounter /\ c.recvKey = k.recvKey /\ c.recvCounter = k.recvCounter
          /\ c.recvInbox = k.recvInbox /\ c.waiting = k.waiting /\ c.parser = k.parser
      BY <2>8, <2>10 DEF ClientFields
    <3>2. c.recvCounter \in client.recvCounter..server.sendCounter /\ c.recvCounter = at
      BY <1>1, <1>7, <3>1 DEF at, n
    <3>3. fed.plain = <<>> /\ fed.plain = Slice(ends[at], ends[at])
      BY <2>4, <2>8, <2>10, SliceNone
    <3>4. c.failed \in BOOLEAN /\ DOMAIN c = ClientFields
      BY <2>8, <2>10
    <3> QED
      BY <1>1, <1>6, <1>7, <1>9, <1>10, <3>1, <3>2, <3>3, <3>4 DEF key, n, at
  <2>11. CASE ~bad
    <3>1. /\ c.haveKeys = k.haveKeys /\ c.failed = k.failed /\ c.inbox = k.inbox /\ c.sendKey = k.sendKey
          /\ c.sendCounter = k.sendCounter /\ c.recvKey = k.recvKey
          /\ c.waiting = k.waiting /\ c.parser = k.parser
      BY <2>9, <2>11 DEF ClientFields
    <3>2. o.ok /\ c.recvCounter \in client.recvCounter..server.sendCounter /\ c.recvCounter = o.counter
      BY <2>3, <2>9, <2>11 DEF at, n
    <3>3. Entries(c.recvInbox, key, ends, n) /\ Len(c.recvInbox) < 2 /\ DOMAIN c = ClientFields
      BY <2>3, <2>9, <2>11
    <3>4. /\ c.ready \in BOOLEAN
          /\ client.ready => c.ready /\ fed.plain = Slice(ends[at], ends[c.recvCounter])
          /\ c.ready => pinned = "server"
          /\ ~client.ready /\ c.ready => fed.plain = Slice(0, ends[c.recvCounter]) /\ 0 <= ends[c.recvCounter]
          /\ ~c.ready => fed.plain = <<>> /\ c.recvCounter = 0
      <4>1. CASE client.ready
        <5>1. k.ready = client.ready
          BY <1>7
        <5>2. c.ready = TRUE /\ fed.plain = o.plain
          BY <2>7, <2>11, <4>1, <5>1
        <5> QED
          BY <1>6, <2>3, <3>2, <4>1, <5>2
      <4>2. CASE ~client.ready
        <5>1. at = 0 /\ ends[at] = -1 /\ o.plain = Slice(-1, ends[o.counter])
          <6>1. at = 0 /\ ends[0] = -1
            BY <1>1, <4>2 DEF Log
          <6> QED
            BY <2>3, <3>2, <6>1
        <5>2. PICK top \in Int : /\ top = ends[o.counter] /\ -1 <= top
                                 /\ o.counter > 0 => -1 < top
                                 /\ ~(o.counter > 0) => top = -1 /\ o.counter = 0
          <6>1. o.counter \in Nat /\ (~(o.counter > 0) => o.counter = 0)
            BY <1>1, <2>3, <3>2
          <6> QED
            BY <2>4, <3>2, <5>1, <6>1
        <5>3. k.ready = client.ready
          BY <1>7
        <5>4. CASE o.counter > 0
          <6>1. o.plain = Slice(-1, top) /\ Len(o.plain) = top + 1
            BY <5>1, <5>2, <5>4, SliceTail
          <6>2. o.plain # <<>>
            BY <2>5, <5>2, <5>4, <6>1, NoneAny
          <6>3. c.ready = TRUE /\ fed.plain = SubSeq(o.plain, 2, Len(o.plain))
            BY <2>7, <2>11, <4>2, <5>3, <6>2
          <6>4. fed.plain = Slice(0, top)
            <7>1. SubSeq(Slice(-1, top), 2, Len(Slice(-1, top))) = Slice(0, top)
              BY <5>2, <5>4, SliceTail
            <7> QED
              BY <6>1, <6>3, <7>1
          <6>5. pinned = "server"
            <7>1. k.recvKey = key
              BY <2>3, <3>2, <5>1, <5>4
            <7>2. n > 0
              BY <1>1, <2>3, <3>2, <5>4
            <7>3. server.ready
              <8>1. n <= ServerSealed - (-1)
                BY <1>1 DEF Log
              <8> QED
                BY <7>2, <8>1, <1>1 DEF ServerSealed
            <7> QED
              BY <1>7, <1>9, <7>1, <7>3 DEF ServerSound, key
          <6>6. 0 <= top /\ ends[c.recvCounter] = top
            BY <3>2, <5>2, <5>4
          <6> QED
            BY <4>2, <6>3, <6>4, <6>5, <6>6
        <5>5. CASE ~(o.counter > 0)
          <6>1. o.plain = <<>> /\ c.recvCounter = 0
            BY <3>2, <5>1, <5>2, <5>5, SliceNone
          <6>2. c.ready = FALSE /\ fed.plain = <<>>
            BY <2>7, <2>11, <4>2, <5>3, <6>1
          <6> QED
            BY <4>2, <6>1, <6>2
        <5> QED
          BY <5>4, <5>5
      <4> QED
        BY <4>1, <4>2
    <3>5. Entries(c.inbox, key, ends, n) /\ Len(c.inbox) < 2 /\ c.failed \in BOOLEAN /\ c.haveKeys = TRUE
      BY <1>6, <1>7, <1>9, <3>1
    <3> QED
      BY <1>7, <1>9, <3>1, <3>2, <3>3, <3>4, <3>5 DEF key, n, at
  <2> QED
    BY <2>10, <2>11
<1> QED
  BY <1>8, <1>9

-----------------------------------------------------------------------------
(***************************************************************************)
(* While nothing is harmed.                                                *)
(***************************************************************************)
\* What a client makes of the units that were sent, up to the next one: only the
\* wrong server's proof fails.
ClientExact(c, key, ends, next) ==
  /\ c.failed => pinned = "other"
  /\ c.haveKeys =>
       /\ c.sendKey = DerivedKey("up", Hello[2], Ephemeral, pinned)
       /\ c.recvKey = DerivedKey("down", Hello[2], Ephemeral, pinned)
       /\ ~c.failed =>
            /\ At(c.recvInbox, Ephemeral, key, ends, 2 + 2 * c.recvCounter)
            /\ next = 2 + 2 * c.recvCounter + Len(c.recvInbox)
  /\ ~c.haveKeys => At(c.inbox, Ephemeral, key, ends, 0) /\ next = Len(c.inbox)

LEMMA HandshakeIs ==
  ASSUME NEW hand, IsSeq(hand), Len(hand) = 2, NEW key, NEW ends,
         NEW all, IsSeq(all), ~(Len(all) < 2), At(all, hand, key, ends, 0)
  PROVE  SubSeq(all, 1, 2) = hand /\ all[1] = hand[1] /\ all[2] = hand[2]
<1>1. PICK l \in Nat : l = Len(all) /\ 2 <= l
  BY LenAny
<1>2. all[1] = hand[1] /\ all[2] = hand[2]
  <2>1. 1 \in 1..Len(all) /\ 2 \in 1..Len(all)
    BY <1>1
  <2>2. all[1] = UnitAt(hand, key, ends, 0 + 1) /\ all[2] = UnitAt(hand, key, ends, 0 + 2)
    BY <2>1 DEF At
  <2> QED
    BY <2>2 DEF UnitAt
<1>3. /\ IsSeq(SubSeq(all, 1, 2)) /\ Len(SubSeq(all, 1, 2)) = 2
      /\ \A i \in 1..2 : SubSeq(all, 1, 2)[i] = all[i]
  <2>1. 1 \in 1..Len(all) + 1 /\ 2 \in 1 - 1..Len(all)
    BY <1>1
  <2>2. /\ IsSeq(SubSeq(all, 1, 2)) /\ Len(SubSeq(all, 1, 2)) = 2 - 1 + 1
        /\ \A i \in 1..2 - 1 + 1 : SubSeq(all, 1, 2)[i] = all[1 + i - 1]
    BY <2>1, PartAny
  <2>3. \A i \in 1..2 : 1 + i - 1 = i
    OBVIOUS
  <2> QED
    BY <2>2, <2>3
<1>4. \A i \in 1..2 : SubSeq(all, 1, 2)[i] = hand[i]
  BY <1>2, <1>3
<1>5. SubSeq(all, 1, 2) = hand
  BY <1>3, <1>4, SameAny
<1> QED
  BY <1>2, <1>5

LEMMA HandshakesAre ==
  /\ IsSeq(Hello) /\ Len(Hello) = 2 /\ IsSeq(Ephemeral) /\ Len(Ephemeral) = 2
  /\ \A key, ends, n : Entries(Hello, key, ends, n) /\ Entries(Ephemeral, key, ends, n)
  /\ \A key, ends : At(Hello, Hello, key, ends, 0) /\ At(Ephemeral, Ephemeral, key, ends, 0)
<1>1. IsSeq(Hello) /\ Len(Hello) = 2 /\ IsSeq(Ephemeral) /\ Len(Ephemeral) = 2
  <2>1. Hello \in Seq({Unit("magic"), Unit("client key")})
    BY DEF Hello
  <2>2. Ephemeral \in Seq({Unit("server key"), Unit("server key's rest")})
    BY DEF Ephemeral
  <2>3. Len(Hello) = 2 /\ Len(Ephemeral) = 2
    BY DEF Hello, Ephemeral
  <2> QED
    BY <2>1, <2>2, <2>3 DEF IsSeq
<1>2. \A i \in 1..2 : Hello[i].kind # "rest" /\ Ephemeral[i].kind # "rest"
  <2>1. /\ Hello[1] = Unit("magic") /\ Hello[2] = Unit("client key")
        /\ Ephemeral[1] = Unit("server key") /\ Ephemeral[2] = Unit("server key's rest")
    BY DEF Hello, Ephemeral
  <2>2. /\ Unit("magic").kind # "rest" /\ Unit("client key").kind # "rest"
        /\ Unit("server key").kind # "rest" /\ Unit("server key's rest").kind # "rest"
    BY DEF Unit
  <2>3. /\ Hello[1].kind # "rest" /\ Hello[2].kind # "rest"
        /\ Ephemeral[1].kind # "rest" /\ Ephemeral[2].kind # "rest"
    BY <2>1, <2>2
  <2>4. ASSUME NEW i \in 1..2
        PROVE  i = 1 \/ i = 2
    OBVIOUS
  <2> HIDE DEF Hello, Ephemeral
  <2> QED
    BY <2>3, <2>4
<1>3. \A key, ends, n : Entries(Hello, key, ends, n) /\ Entries(Ephemeral, key, ends, n)
  BY <1>1, <1>2 DEF Entries, Entry
<1>4. ASSUME NEW key, NEW ends, NEW hand, Len(hand) = 2
      PROVE  At(hand, hand, key, ends, 0)
  <2>1. \A i \in 1..2 : 0 + i = i /\ i <= 2
    OBVIOUS
  <2> QED
    BY <1>4, <2>1 DEF At, UnitAt
<1> QED
  BY <1>1, <1>3, <1>4

LEMMA ClientFedExact ==
  ASSUME ClientSound, ~client.failed, pinned \in {"server", "other"}, NEW ends, DownInv(ends),
         NEW key, key = server.sendKey, NEW units, Entries(units, key, ends, server.sendCounter),
         NEW next \in Nat, At(units, Ephemeral, key, ends, next),
         next + Len(units) <= 2 + 2 * server.sendCounter,
         key = DerivedKey("down", Hello[2], Ephemeral, "server"),
         ClientExact(client, key, ends, next),
         NEW fed, fed = ClientFed(units), NEW c, c = fed.state
  PROVE  ClientExact(c, key, ends, next + Len(units))
<1> DEFINE n == server.sendCounter
           at == client.recvCounter
<1>1. /\ Log(ends, n, -1, ServerSealed) /\ n \in Nat /\ at \in 0..n
      /\ Entries(client.inbox, key, ends, n) /\ Entries(client.recvInbox, key, ends, n)
      /\ ~client.ready => at = 0
  BY DEF DownInv, DownHolds, Flow, Log
<1>2. /\ IsSeq(units) /\ IsSeq(client.inbox) /\ IsSeq(client.recvInbox)
  BY <1>1 DEF Entries
<1>3. PICK k : k = ClientKeyed(units)
  OBVIOUS
<1>4. PICK o : o = Opened(k.recvKey, k.recvCounter, ClientRecords(units))
  OBVIOUS
<1>5. ClientRead(units, k, o, fed, ends, key, n)
  BY <1>3, <1>4, ClientReadIs
<1> DEFINE box == client.inbox \o units
<1>6. KeyedClient(box, k)
  BY <1>3, ClientKeyedIs DEF ClientSound
<1>7. IsSeq(box) /\ Len(box) = Len(client.inbox) + Len(units)
  BY <1>2, JoinAny
<1>8. ~client.haveKeys => At(box, Ephemeral, key, ends, 0) /\ Len(box) = next + Len(units) /\ at = 0
  <2>1. CASE client.haveKeys
    BY <2>1
  <2>2. CASE ~client.haveKeys
    <3>1. At(client.inbox, Ephemeral, key, ends, 0) /\ next = Len(client.inbox) /\ at = 0
      BY <1>1, <2>2 DEF ClientExact, ClientSound
    <3>2. 0 + Len(client.inbox) = next
      BY <3>1
    <3>3. At(box, Ephemeral, key, ends, 0)
      BY <1>2, <3>1, <3>2, AtJoin
    <3> QED
      BY <1>7, <3>1, <3>3
  <2> QED
    BY <2>1, <2>2
<1> HIDE DEF n, at, box
<1>9. k.failed = client.failed /\ k.recvInbox = client.recvInbox /\ k.recvCounter = client.recvCounter
  BY <1>5 DEF ClientRead
<1>10. CASE ~k.haveKeys
  <2>1. c = k
    BY <1>5, <1>10 DEF ClientRead
  <2>2. ~client.haveKeys /\ k.inbox = box
    <3>1. ~client.haveKeys
      BY <1>5, <1>10 DEF ClientRead
    <3>2. Len(box) < 2
      BY <1>6, <1>10, <3>1 DEF KeyedClient
    <3> QED
      BY <1>6, <3>1, <3>2 DEF KeyedClient
  <2> QED
    BY <1>8, <1>9, <1>10, <2>1, <2>2 DEF ClientExact
<1>11. CASE k.haveKeys
  <2> DEFINE records == ClientRecords(units)
\* The keys are those of this handshake.
  <2>1. /\ k.sendKey = DerivedKey("up", Hello[2], Ephemeral, pinned)
        /\ k.recvKey = DerivedKey("down", Hello[2], Ephemeral, pinned)
        /\ ~client.haveKeys => ~(Len(box) < 2)
    <3>1. CASE client.haveKeys
      BY <1>6, <3>1 DEF KeyedClient, ClientExact
    <3>2. CASE ~client.haveKeys
      <4>1. ~(Len(box) < 2)
        BY <1>5, <1>11, <3>2 DEF ClientRead, box
      <4>2. SubSeq(box, 1, 2) = Ephemeral
        BY <1>7, <1>8, <3>2, <4>1, HandshakeIs, HandshakesAre
      <4> QED
        BY <1>6, <3>2, <4>1, <4>2 DEF KeyedClient
    <3> QED
      BY <3>1, <3>2
\* The records are the next ones.
  <2>2. /\ IsSeq(records) /\ At(records, Ephemeral, key, ends, 2 + 2 * at)
        /\ 2 + 2 * at + Len(records) = next + Len(units)
    <3>1. CASE client.haveKeys
      <4>1. At(client.recvInbox, Ephemeral, key, ends, 2 + 2 * at) /\ next = 2 + 2 * at + Len(client.recvInbox)
        BY <3>1 DEF ClientExact, at
      <4>0. Len(client.recvInbox) \in Nat /\ Len(units) \in Nat /\ at \in Nat
        BY <1>1, <1>2, LenAny
      <4>7. PICK l \in Nat, m \in Nat, v \in Nat : l = Len(client.recvInbox) /\ m = Len(units) /\ v = at
        BY <4>0
      <4>8. next = 2 + 2 * v + l
        BY <4>1, <4>7
      <4>2. PICK start \in Int : start = 2 + 2 * v /\ start + l = next
        BY <4>8
      <4>9. start + (l + m) = next + m
        BY <4>2
      <4>3. At(client.recvInbox \o units, Ephemeral, key, ends, start)
        BY <1>2, <4>1, <4>2, <4>7, AtJoin
      <4>4. IsSeq(client.recvInbox \o units) /\ Len(client.recvInbox \o units) = Len(client.recvInbox) + Len(units)
        BY <1>2, JoinAny
      <4>5. records = client.recvInbox \o units
        BY <3>1 DEF ClientRecords
      <4> QED
        BY <4>2, <4>3, <4>4, <4>5, <4>7, <4>9
    <3>2. CASE ~client.haveKeys
      <4>1. PICK l \in Nat : l = Len(box) /\ 2 <= l
        BY <1>7, <2>1, <3>2, LenAny
      <4>2. records = SubSeq(box, 3, Len(box))
        BY <1>7, <3>2 DEF ClientRecords, Beyond, box
      <4>3. 3 \in 1..Len(box) + 1 /\ Len(box) \in 3 - 1..Len(box)
        BY <4>1
      <4>4. IsSeq(records) /\ Len(records) = Len(box) - 3 + 1
        BY <1>7, <4>2, <4>3, PartAny
      <4>5. At(records, Ephemeral, key, ends, 0 + (3 - 1))
        BY <1>7, <1>8, <3>2, <4>2, <4>3, AtPart
      <4>6. 0 + (3 - 1) = 2 + 2 * at
        BY <1>8, <3>2
      <4>7. 2 + 2 * at + Len(records) = next + Len(units)
        BY <1>8, <3>2, <4>1, <4>4
      <4> QED
        BY <4>4, <4>5, <4>6, <4>7
    <3> QED
      BY <3>1, <3>2
  <2>3. o = Opened(k.recvKey, at, records)
    BY <1>4, <1>9 DEF at
  <2>4. /\ o.ok \in BOOLEAN
        /\ o.ok => /\ o.counter \in at..n /\ o.plain = Slice(ends[at], ends[o.counter])
                   /\ o.counter > at => k.recvKey = key
        /\ ~o.ok => o.plain = <<>>
        /\ ends[at] \in Int
        /\ o.ok => /\ ends[o.counter] \in Int /\ ends[at] <= ends[o.counter]
                   /\ at < o.counter => ends[at] < ends[o.counter]
        /\ OpenedClient(k, o, o.plain, fed)
    BY <1>5, <1>11 DEF ClientRead, at, n
  <2> DEFINE whole == Len(records) \div 2
  <2>5. o.counter = at + whole
    BY <2>3 DEF Opened
  <2>6. Len(records) \in Nat /\ Len(records) <= 2 * (n - at)
    <3>1. PICK l \in Nat, m \in Nat, v \in Nat, w \in Nat :
            l = Len(records) /\ m = Len(units) /\ v = at /\ w = n
      BY <1>1, <1>2, <2>2, LenAny
    <3>2. next + m <= 2 + 2 * w
      BY <3>1 DEF n
    <3>3. 2 + 2 * v + l = next + m
      BY <2>2, <3>1
    <3>4. l <= 2 * (w - v)
      BY <3>2, <3>3
    <3> QED
      BY <3>1, <3>4
  <2> HIDE DEF records
  <2>7. k.recvKey = key \/ Len(records) < 2 =>
          /\ o.ok /\ o.counter = at + whole
          /\ At(o.inbox, Ephemeral, key, ends, 2 + 2 * o.counter)
          /\ 2 * o.counter + Len(o.inbox) = 2 * at + Len(records)
    <3>1. at \in Nat
      BY <1>1
    <3> QED
      BY <1>1, <2>2, <2>3, <2>6, <3>1, OpenedAll, SMTT(30)
  <2> HIDE DEF whole
  <2>8. pinned = "server" => ~Refused(k, o, o.plain)
    <3>1. SUFFICES ASSUME pinned = "server", ~k.ready, o.plain # <<>>
                   PROVE  SubSeq(o.plain, 1, 1) = Ready
      <4>1. pinned = "server" => o.ok
        BY <2>1, <2>7
      <4> QED
        BY <4>1 DEF Refused
    <3>2. o.ok
      BY <2>1, <2>7, <3>1
    <3>3. at = 0 /\ ends[at] = -1
      <4>1. ~client.ready
        BY <1>5, <3>1 DEF ClientRead
      <4> QED
        BY <1>1, <4>1 DEF Log
    <3>4. o.counter # at
      BY <2>4, <3>1, <3>2, SliceNone
    <3>5. PICK top \in Int : top = ends[o.counter] /\ -1 < top
      <4>1. at < o.counter
        BY <1>1, <2>4, <3>2, <3>4
      <4> QED
        BY <2>4, <3>2, <3>3, <4>1
    <3>6. o.plain = Slice(-1, top)
      BY <2>4, <3>2, <3>3, <3>5
    <3> QED
      BY <3>5, <3>6, SliceHead
  <2>9. CASE Refused(k, o, o.plain)
    <3>1. c.failed = TRUE /\ Keeps(c, k, {"failed"})
      BY <2>4, <2>9 DEF OpenedClient
    <3>2. c.haveKeys = k.haveKeys /\ c.sendKey = k.sendKey /\ c.recvKey = k.recvKey
      <4>1. DOMAIN k = ClientFields
        BY <1>5 DEF ClientRead
      <4> QED
        BY <3>1, <4>1 DEF Keeps, ClientFields
    <3>3. pinned = "other"
      BY <2>8, <2>9
    <3> QED
      BY <1>11, <2>1, <3>1, <3>2, <3>3 DEF ClientExact
  <2>10. CASE ~Refused(k, o, o.plain)
    <3>1. c.recvCounter = o.counter /\ c.recvInbox = o.inbox /\ Keeps(c, k, {"ready", "recvCounter", "recvInbox"})
      BY <2>4, <2>10 DEF OpenedClient
    <3>2. c.haveKeys = k.haveKeys /\ c.sendKey = k.sendKey /\ c.recvKey = k.recvKey /\ c.failed = k.failed
      <4>1. DOMAIN k = ClientFields
        BY <1>5 DEF ClientRead
      <4> QED
        BY <3>1, <4>1 DEF Keeps, ClientFields
    <3>3. k.recvKey = key \/ Len(records) < 2
      <4>1. CASE k.recvKey = key
        BY <4>1
      <4>2. CASE k.recvKey # key
        <5>1. o.ok /\ o.counter \in at..n /\ ~(o.counter > at)
          BY <2>4, <2>10, <4>2 DEF Refused
        <5>2. whole = 0
          BY <1>1, <2>5, <2>6, <5>1 DEF whole
        <5> QED
          BY <2>6, <5>2 DEF whole
      <4> QED
        BY <4>1, <4>2
    <3>4. /\ At(o.inbox, Ephemeral, key, ends, 2 + 2 * o.counter)
          /\ 2 * o.counter + Len(o.inbox) = 2 * at + Len(records)
      BY <2>7, <3>3
    <3>5. next + Len(units) = 2 + 2 * c.recvCounter + Len(c.recvInbox)
      <4>1. o.counter \in Nat /\ Len(o.inbox) \in Nat
        <5>1. o.ok /\ IsSeq(o.inbox)
          BY <1>5, <1>11, <2>10 DEF ClientRead, Refused, Entries
        <5>2. o.counter \in at..n
          BY <2>4, <5>1
        <5> QED
          BY <1>1, <5>1, <5>2, LenAny
      <4>2. PICK l \in Nat, v \in Nat : l = Len(records) /\ v = at
        BY <1>1, <2>6
      <4>3. 2 + 2 * v + l = next + Len(units)
        BY <2>2, <4>2
      <4>4. 2 + 2 * o.counter + Len(o.inbox) = 2 + 2 * v + l
        BY <3>4, <4>1, <4>2, SMTT(30)
      <4> QED
        BY <3>1, <4>3, <4>4
    <3> QED
      BY <1>9, <1>11, <2>1, <3>1, <3>2, <3>4, <3>5 DEF ClientExact
  <2> QED
    BY <2>9, <2>10
<1> QED
  BY <1>10, <1>11

-----------------------------------------------------------------------------
(***************************************************************************)
(* The server, likewise.                                                   *)
(***************************************************************************)
\* What the handshake leaves of the server.
KeyedServer(all, new) ==
  /\ Len(all) < 2 => new.inbox = all /\ Keeps(new, server, {"inbox"})
  /\ ~(Len(all) < 2) /\ all[1] # Hello[1] => new.failed = TRUE /\ Keeps(new, server, {"failed"})
  /\ ~(Len(all) < 2) /\ all[1] = Hello[1] =>
       /\ new.ready = TRUE /\ new.inbox = <<>> /\ new.sendCounter = 1
       /\ new.recvKey = DerivedKey("up", all[2], Ephemeral, "server")
       /\ new.sendKey = DerivedKey("down", all[2], Ephemeral, "server")
       /\ Keeps(new, server, {"ready", "inbox", "recvKey", "sendKey", "sendCounter"})

LEMMA ServerKeyedIs ==
  ASSUME DOMAIN server = ServerFields, NEW all
  PROVE  KeyedServer(all, ServerKeyed(all))
<1> DEFINE new == ServerKeyed(all)
<1>1. ASSUME Len(all) < 2
      PROVE  new.inbox = all /\ Keeps(new, server, {"inbox"})
  <2>1. new = [server EXCEPT !.inbox = all]
    BY <1>1 DEF ServerKeyed
  <2> HIDE DEF new
  <2> QED
    BY <2>1 DEF Keeps, ServerFields
<1>2. ASSUME ~(Len(all) < 2), all[1] # Hello[1]
      PROVE  new.failed = TRUE /\ Keeps(new, server, {"failed"})
  <2>1. new = [server EXCEPT !.failed = TRUE]
    BY <1>2 DEF ServerKeyed
  <2> HIDE DEF new
  <2> QED
    BY <2>1 DEF Keeps, ServerFields
<1>3. ASSUME ~(Len(all) < 2), all[1] = Hello[1]
      PROVE  /\ new.ready = TRUE /\ new.inbox = <<>> /\ new.sendCounter = 1
             /\ new.recvKey = DerivedKey("up", all[2], Ephemeral, "server")
             /\ new.sendKey = DerivedKey("down", all[2], Ephemeral, "server")
             /\ Keeps(new, server, {"ready", "inbox", "recvKey", "sendKey", "sendCounter"})
  <2> DEFINE up == DerivedKey("up", all[2], Ephemeral, "server")
             down == DerivedKey("down", all[2], Ephemeral, "server")
  <2>1. new = [server EXCEPT !.ready = TRUE, !.inbox = <<>>, !.recvKey = up, !.sendKey = down, !.sendCounter = 1]
    BY <1>3 DEF ServerKeyed
  <2> HIDE DEF new, up, down
  <2>2. /\ new.ready = TRUE /\ new.inbox = <<>> /\ new.sendCounter = 1 /\ new.recvKey = up /\ new.sendKey = down
        /\ Keeps(new, server, {"ready", "inbox", "recvKey", "sendKey", "sendCounter"})
    BY <2>1 DEF Keeps, ServerFields
  <2> QED
    BY <2>2 DEF up, down
<1> QED
  BY <1>1, <1>2, <1>3 DEF KeyedServer

\* What opening leaves of the server.
OpenedServer(keyed, opened, read) ==
  /\ ~opened.ok => read.plain = <<>> /\ read.state.failed = TRUE /\ Keeps(read.state, keyed, {"failed"})
  /\ opened.ok =>
       /\ read.state.recvCounter = opened.counter /\ read.state.recvInbox = opened.inbox
       /\ Keeps(read.state, keyed, {"recvCounter", "recvInbox"})
       /\ read.plain = opened.plain

LEMMA ServerOpenedIs ==
  ASSUME NEW keyed, DOMAIN keyed = ServerFields, NEW opened, NEW read, read = ServerOpened(keyed, opened)
  PROVE  OpenedServer(keyed, opened, read)
<1>1. ASSUME ~opened.ok
      PROVE  read.plain = <<>> /\ read.state.failed = TRUE /\ Keeps(read.state, keyed, {"failed"})
  <2>1. read.state = [keyed EXCEPT !.failed = TRUE] /\ read.plain = <<>>
    BY <1>1 DEF ServerOpened
  <2> QED
    BY <2>1 DEF Keeps, ServerFields
<1>2. ASSUME opened.ok
      PROVE  /\ read.state.recvCounter = opened.counter /\ read.state.recvInbox = opened.inbox
             /\ Keeps(read.state, keyed, {"recvCounter", "recvInbox"})
             /\ read.plain = opened.plain
  <2>1. /\ read.state = [keyed EXCEPT !.recvCounter = opened.counter, !.recvInbox = opened.inbox]
        /\ read.plain = opened.plain
    BY <1>2 DEF ServerOpened
  <2> QED
    BY <2>1 DEF Keeps, ServerFields
<1> QED
  BY <1>1, <1>2 DEF OpenedServer

ServerRecords(units) ==
  IF server.ready THEN server.recvInbox \o units ELSE Beyond(server.inbox, units, 2)

\* The keys and the records of a read, opened.
ServerRead(units, k, o, fed, ends, key, n) ==
  /\ /\ DOMAIN k = ServerFields
     /\ k.ready \in BOOLEAN /\ k.failed \in BOOLEAN
     /\ k.parser = server.parser /\ k.recvInbox = server.recvInbox /\ k.recvCounter = server.recvCounter
     /\ server.ready => k = server
     /\ k.ready => ~k.failed
     /\ k.ready /\ ~server.ready =>
          /\ k.sendCounter = 1 /\ k.sendKey[1] = "down" /\ k.sendKey[4] = "server"
          /\ ~(Len(server.inbox \o units) < 2)
     /\ ~k.ready => k.sendCounter = server.sendCounter /\ k.sendKey = server.sendKey
     /\ Len(k.inbox) < 2 /\ Entries(k.inbox, key, ends, n)
  /\ ~k.ready => fed.state = k /\ fed.plain = <<>>
  /\ k.ready =>
       /\ Entries(ServerRecords(units), key, ends, n)
       /\ o.ok \in BOOLEAN /\ Entries(o.inbox, key, ends, n) /\ Len(o.inbox) < 2
       /\ o.ok => /\ o.counter \in server.recvCounter..n
                  /\ o.plain = Slice(ends[server.recvCounter], ends[o.counter])
                  /\ o.counter > server.recvCounter => k.recvKey = key
       /\ OpenedServer(k, o, fed)

LEMMA ServerReadIs ==
  ASSUME ServerSound, ~server.failed, NEW ends, UpInv(ends),
         NEW units, Entries(units, client.sendKey, ends, client.sendCounter),
         NEW k, k = (IF server.ready THEN server ELSE ServerKeyed(server.inbox \o units)),
         NEW o, o = Opened(k.recvKey, k.recvCounter, ServerRecords(units)),
         NEW fed, fed = ServerFed(units)
  PROVE  ServerRead(units, k, o, fed, ends, client.sendKey, client.sendCounter)
<1> DEFINE key == client.sendKey
           n == client.sendCounter
           at == server.recvCounter
           box == server.inbox \o units
<1>1. /\ Log(ends, n, 0, ClientSealed) /\ n \in Nat /\ at \in 0..n
      /\ Entries(server.inbox, key, ends, n) /\ Entries(server.recvInbox, key, ends, n)
  BY DEF UpInv, UpHolds, Flow, Log
<1>2. IsSeq(units) /\ IsSeq(server.inbox) /\ IsSeq(server.recvInbox)
  BY <1>1 DEF Entries
<1>3. Entries(box, key, ends, n)
  BY <1>1, EntriesJoin
<1>4. fed = IF k.ready /\ ~k.failed THEN ServerOpened(k, o) ELSE [state |-> k, plain |-> <<>>]
  BY DEF ServerFed, ServerRecords
<1>5. ~server.ready => KeyedServer(box, k)
  BY ServerKeyedIs DEF ServerSound
<1>6. /\ DOMAIN server = ServerFields /\ server.ready \in BOOLEAN /\ server.failed \in BOOLEAN
      /\ Len(server.inbox) < 2 /\ Len(server.recvInbox) < 2
      /\ server.ready => server.sendKey[1] = "down" /\ server.sendKey[4] = "server"
  BY DEF ServerSound
<1>7. server.ready => k = server
  OBVIOUS
<1> HIDE DEF key, n, at, box
<1>8. /\ DOMAIN k = ServerFields
      /\ k.ready \in BOOLEAN /\ k.failed \in BOOLEAN
      /\ k.parser = server.parser /\ k.recvInbox = server.recvInbox /\ k.recvCounter = server.recvCounter
      /\ k.ready => ~k.failed
      /\ k.ready /\ ~server.ready =>
           /\ k.sendCounter = 1 /\ k.sendKey[1] = "down" /\ k.sendKey[4] = "server"
           /\ ~(Len(box) < 2)
      /\ ~k.ready => k.sendCounter = server.sendCounter /\ k.sendKey = server.sendKey
      /\ Len(k.inbox) < 2 /\ Entries(k.inbox, key, ends, n)
  <2>1. CASE server.ready
    BY <1>1, <1>6, <1>7, <2>1
  <2>2. CASE ~server.ready /\ Len(box) < 2
    <3>1. k.inbox = box /\ DOMAIN k = ServerFields /\ \A f \in ServerFields \ {"inbox"} : k[f] = server[f]
      BY <1>5, <1>6, <2>2 DEF KeyedServer, Keeps
    <3>2. /\ k.ready = server.ready /\ k.failed = server.failed /\ k.parser = server.parser
          /\ k.recvInbox = server.recvInbox /\ k.recvCounter = server.recvCounter
          /\ k.sendCounter = server.sendCounter /\ k.sendKey = server.sendKey
      BY <3>1 DEF ServerFields
    <3> QED
      BY <1>3, <1>6, <2>2, <3>1, <3>2
  <2>3. CASE ~server.ready /\ ~(Len(box) < 2) /\ box[1] # Hello[1]
    <3>1. k.failed = TRUE /\ DOMAIN k = ServerFields /\ \A f \in ServerFields \ {"failed"} : k[f] = server[f]
      BY <1>5, <1>6, <2>3 DEF KeyedServer, Keeps
    <3>2. /\ k.ready = server.ready /\ k.inbox = server.inbox /\ k.parser = server.parser
          /\ k.recvInbox = server.recvInbox /\ k.recvCounter = server.recvCounter
          /\ k.sendCounter = server.sendCounter /\ k.sendKey = server.sendKey
      BY <3>1 DEF ServerFields
    <3> QED
      BY <1>1, <1>6, <2>3, <3>1, <3>2
  <2>4. CASE ~server.ready /\ ~(Len(box) < 2) /\ box[1] = Hello[1]
    <3>1. /\ k.ready = TRUE /\ k.inbox = <<>> /\ k.sendCounter = 1
          /\ k.sendKey = DerivedKey("down", box[2], Ephemeral, "server")
          /\ DOMAIN k = ServerFields
          /\ \A f \in ServerFields \ {"ready", "inbox", "recvKey", "sendKey", "sendCounter"} : k[f] = server[f]
      BY <1>5, <1>6, <2>4 DEF KeyedServer, Keeps
    <3>2. /\ k.failed = server.failed /\ k.parser = server.parser
          /\ k.recvInbox = server.recvInbox /\ k.recvCounter = server.recvCounter
      BY <3>1 DEF ServerFields
    <3>3. k.sendKey[1] = "down" /\ k.sendKey[4] = "server"
      BY <3>1 DEF DerivedKey
    <3>4. Len(k.inbox) < 2 /\ Entries(k.inbox, key, ends, n)
      BY <3>1, EntriesNone
    <3> QED
      BY <1>6, <2>4, <3>1, <3>2, <3>3, <3>4
  <2> QED
    BY <1>6, <2>1, <2>2, <2>3, <2>4
<1>9. ASSUME ~k.ready
      PROVE  fed.state = k /\ fed.plain = <<>>
  BY <1>4, <1>9
<1>10. ASSUME k.ready
       PROVE  /\ Entries(ServerRecords(units), key, ends, n)
              /\ o.ok \in BOOLEAN /\ Entries(o.inbox, key, ends, n) /\ Len(o.inbox) < 2
              /\ o.ok => /\ o.counter \in at..n
                         /\ o.plain = Slice(ends[at], ends[o.counter])
                         /\ o.counter > at => k.recvKey = key
              /\ OpenedServer(k, o, fed)
  <2> DEFINE records == ServerRecords(units)
  <2>1. Entries(records, key, ends, n)
    <3>1. CASE server.ready
      <4>1. Entries(server.recvInbox \o units, key, ends, n)
        BY <1>1, EntriesJoin DEF key, n
      <4> QED
        BY <3>1, <4>1 DEF ServerRecords
    <3>2. CASE ~server.ready
      <4>1. ~(Len(server.inbox \o units) < 2)
        BY <1>8, <1>10, <3>2 DEF box
      <4>2. Entries(Beyond(server.inbox, units, 2), key, ends, n)
        BY <1>1, <4>1, BeyondEntries DEF key, n
      <4> QED
        BY <3>2, <4>2 DEF ServerRecords
    <3> QED
      BY <3>1, <3>2
  <2> HIDE DEF records
  <2>2. o = Opened(k.recvKey, at, records)
    BY <1>8 DEF at, records
  <2>3. /\ o.ok \in BOOLEAN /\ Entries(o.inbox, key, ends, n) /\ Len(o.inbox) < 2
        /\ o.ok => /\ o.counter \in at..n
                   /\ o.plain = Slice(ends[at], ends[o.counter])
                   /\ o.counter > at => k.recvKey = key
    BY <1>1, <2>1, <2>2, OpenedIs
  <2>4. fed = ServerOpened(k, o)
    BY <1>4, <1>8, <1>10
  <2>5. OpenedServer(k, o, fed)
    BY <1>8, <2>4, ServerOpenedIs
  <2> QED
    BY <2>1, <2>3, <2>5 DEF records
<1> QED
  BY <1>7, <1>8, <1>9, <1>10 DEF ServerRead, key, n, at, box

LEMMA ServerFedIs ==
  ASSUME ServerSound, ~server.failed, NEW ends, UpInv(ends),
         NEW units, Entries(units, client.sendKey, ends, client.sendCounter),
         NEW fed, fed = ServerFed(units), NEW s, s = fed.state
  PROVE  /\ DOMAIN s = ServerFields /\ s.ready \in BOOLEAN /\ s.failed \in BOOLEAN
         /\ s.parser = server.parser
         /\ server.ready => s.ready /\ s.sendCounter = server.sendCounter /\ s.sendKey = server.sendKey
         /\ ~s.ready =>
              /\ s.sendCounter = server.sendCounter /\ s.sendKey = server.sendKey
              /\ s.recvCounter = server.recvCounter
         /\ ~server.ready /\ s.ready => s.sendCounter = 1 /\ s.sendKey[1] = "down" /\ s.sendKey[4] = "server"
         /\ Len(s.inbox) < 2 /\ Len(s.recvInbox) < 2
         /\ Entries(s.inbox, client.sendKey, ends, client.sendCounter)
         /\ Entries(s.recvInbox, client.sendKey, ends, client.sendCounter)
         /\ s.recvCounter \in server.recvCounter..client.sendCounter
         /\ fed.plain = Slice(ends[server.recvCounter], ends[s.recvCounter])
<1> DEFINE key == client.sendKey
           n == client.sendCounter
           at == server.recvCounter
<1>1. Log(ends, n, 0, ClientSealed) /\ n \in Nat /\ at \in 0..n /\ Entries(server.recvInbox, key, ends, n)
  BY DEF UpInv, UpHolds, Flow, Log
<1>2. PICK k : k = (IF server.ready THEN server ELSE ServerKeyed(server.inbox \o units))
  OBVIOUS
<1>3. PICK o : o = Opened(k.recvKey, k.recvCounter, ServerRecords(units))
  OBVIOUS
<1>4. ServerRead(units, k, o, fed, ends, key, n)
  BY <1>2, <1>3, ServerReadIs
<1>5. ends[at] \in Int
  BY <1>1, LogBounds
<1> HIDE DEF key, n, at
<1>6. /\ DOMAIN k = ServerFields
      /\ k.ready \in BOOLEAN /\ k.failed \in BOOLEAN
      /\ k.parser = server.parser /\ k.recvInbox = server.recvInbox /\ k.recvCounter = server.recvCounter
      /\ server.ready => k = server
      /\ k.ready /\ ~server.ready =>
           k.sendCounter = 1 /\ k.sendKey[1] = "down" /\ k.sendKey[4] = "server"
      /\ ~k.ready => k.sendCounter = server.sendCounter /\ k.sendKey = server.sendKey
      /\ Len(k.inbox) < 2 /\ Entries(k.inbox, key, ends, n)
  BY <1>4 DEF ServerRead
<1>7. server.ready \in BOOLEAN /\ Len(server.recvInbox) < 2
  BY DEF ServerSound
<1>8. Slice(ends[at], ends[at]) = <<>> /\ at \in at..n
  BY <1>1, <1>5, SliceNone
<1>9. CASE ~k.ready
  <2>1. s = k /\ fed.plain = <<>>
    BY <1>4, <1>9 DEF ServerRead
  <2> QED
    BY <1>1, <1>6, <1>7, <1>8, <1>9, <2>1 DEF key, n, at
<1>10. CASE k.ready
  <2>1. /\ o.ok \in BOOLEAN /\ Entries(o.inbox, key, ends, n) /\ Len(o.inbox) < 2
        /\ o.ok => o.counter \in at..n /\ o.plain = Slice(ends[at], ends[o.counter])
        /\ OpenedServer(k, o, fed)
    BY <1>4, <1>10 DEF ServerRead, at
  <2>2. CASE ~o.ok
    <3>1. /\ fed.plain = <<>> /\ s.failed = TRUE /\ DOMAIN s = ServerFields
          /\ \A f \in ServerFields \ {"failed"} : s[f] = k[f]
      BY <1>6, <2>1, <2>2 DEF OpenedServer, Keeps
    <3>2. /\ s.ready = k.ready /\ s.inbox = k.inbox /\ s.sendKey = k.sendKey /\ s.sendCounter = k.sendCounter
          /\ s.recvCounter = k.recvCounter /\ s.recvInbox = k.recvInbox /\ s.parser = k.parser
      BY <3>1 DEF ServerFields
    <3> QED
      BY <1>1, <1>6, <1>7, <1>8, <1>10, <3>1, <3>2, ZenonT(60) DEF key, n, at
  <2>3. CASE o.ok
    <3>1. /\ s.recvCounter = o.counter /\ s.recvInbox = o.inbox /\ fed.plain = o.plain
          /\ DOMAIN s = ServerFields
          /\ \A f \in ServerFields \ {"recvCounter", "recvInbox"} : s[f] = k[f]
      BY <1>6, <2>1, <2>3 DEF OpenedServer, Keeps
    <3>2. /\ s.ready = k.ready /\ s.failed = k.failed /\ s.inbox = k.inbox /\ s.sendKey = k.sendKey
          /\ s.sendCounter = k.sendCounter /\ s.parser = k.parser
      BY <3>1 DEF ServerFields
    <3> QED
      BY <1>6, <1>7, <1>10, <2>1, <2>3, <3>1, <3>2 DEF key, n, at
  <2> QED
    BY <2>1, <2>2, <2>3
<1> QED
  BY <1>6, <1>9, <1>10

\* What a server makes of the units that were sent, up to the next one.
ServerExact(s, key, ends, next) ==
  /\ ~s.failed
  /\ s.ready =>
       /\ s.recvKey = DerivedKey("up", Hello[2], Ephemeral, "server")
       /\ s.sendKey = DerivedKey("down", Hello[2], Ephemeral, "server")
       /\ At(s.recvInbox, Hello, key, ends, 2 + 2 * s.recvCounter)
       /\ next = 2 + 2 * s.recvCounter + Len(s.recvInbox)
  /\ ~s.ready => At(s.inbox, Hello, key, ends, 0) /\ next = Len(s.inbox)

LEMMA ServerFedExact ==
  ASSUME ServerSound, NEW ends, UpInv(ends), ~server.ready => server.recvCounter = 0,
         NEW key, key = client.sendKey, NEW units, Entries(units, key, ends, client.sendCounter),
         NEW next \in Nat, At(units, Hello, key, ends, next),
         next + Len(units) <= 2 + 2 * client.sendCounter,
         client.sendCounter > 0 => key = DerivedKey("up", Hello[2], Ephemeral, "server"),
         ServerExact(server, key, ends, next),
         NEW fed, fed = ServerFed(units), NEW s, s = fed.state
  PROVE  ServerExact(s, key, ends, next + Len(units))
<1> DEFINE n == client.sendCounter
           at == server.recvCounter
           box == server.inbox \o units
<1>1. /\ Log(ends, n, 0, ClientSealed) /\ n \in Nat /\ at \in 0..n
      /\ Entries(server.inbox, key, ends, n) /\ Entries(server.recvInbox, key, ends, n)
  BY DEF UpInv, UpHolds, Flow, Log
<1>2. IsSeq(units) /\ IsSeq(server.inbox) /\ IsSeq(server.recvInbox)
  BY <1>1 DEF Entries
<1>3. PICK k : k = (IF server.ready THEN server ELSE ServerKeyed(server.inbox \o units))
  OBVIOUS
<1>4. PICK o : o = Opened(k.recvKey, k.recvCounter, ServerRecords(units))
  OBVIOUS
<1>5. ServerRead(units, k, o, fed, ends, key, n)
  <2>1. ~server.failed
    BY DEF ServerExact
  <2> QED
    BY <1>3, <1>4, <2>1, ServerReadIs
<1>6. ~server.ready => KeyedServer(box, k)
  BY <1>3, ServerKeyedIs DEF ServerSound
<1>7. IsSeq(box) /\ Len(box) = Len(server.inbox) + Len(units)
  BY <1>2, JoinAny
<1>8. ~server.ready => At(box, Hello, key, ends, 0) /\ Len(box) = next + Len(units) /\ at = 0
  <2>1. CASE server.ready
    BY <2>1
  <2>2. CASE ~server.ready
    <3>1. At(server.inbox, Hello, key, ends, 0) /\ next = Len(server.inbox) /\ at = 0
      BY <2>2 DEF ServerExact
    <3>2. 0 + Len(server.inbox) = next
      BY <3>1
    <3>3. At(box, Hello, key, ends, 0)
      BY <1>2, <3>1, <3>2, AtJoin
    <3> QED
      BY <1>7, <3>1, <3>3
  <2> QED
    BY <2>1, <2>2
<1>9. server.ready => k = server
  BY <1>3
<1> HIDE DEF n, at, box
<1>10. ~server.failed
  BY DEF ServerExact
<1>11. CASE ~k.ready
  <2>1. s = k
    BY <1>5, <1>11 DEF ServerRead
  <2>2. ~server.ready
    BY <1>9, <1>11
  <2>3. Len(box) < 2
    <3>1. SUFFICES ASSUME ~(Len(box) < 2)
                   PROVE  FALSE
      OBVIOUS
    <3>2. box[1] = Hello[1]
      BY <1>7, <1>8, <2>2, <3>1, HandshakeIs, HandshakesAre
    <3> QED
      BY <1>6, <1>11, <2>2, <3>1, <3>2 DEF KeyedServer
  <2>4. k.inbox = box /\ k.failed = server.failed
    BY <1>6, <2>2, <2>3 DEF KeyedServer, Keeps, ServerSound, ServerFields
  <2> QED
    BY <1>8, <1>10, <1>11, <2>1, <2>2, <2>4 DEF ServerExact
<1>12. CASE k.ready
  <2> DEFINE records == ServerRecords(units)
  <2>1. /\ k.recvKey = DerivedKey("up", Hello[2], Ephemeral, "server")
        /\ k.sendKey = DerivedKey("down", Hello[2], Ephemeral, "server")
        /\ ~server.ready => ~(Len(box) < 2)
    <3>1. CASE server.ready
      BY <1>9, <3>1 DEF ServerExact
    <3>2. CASE ~server.ready
      <4>1. ~(Len(box) < 2)
        BY <1>5, <1>12, <3>2 DEF ServerRead, box
      <4>2. box[1] = Hello[1] /\ box[2] = Hello[2]
        BY <1>7, <1>8, <3>2, <4>1, HandshakeIs, HandshakesAre
      <4> QED
        BY <1>6, <3>2, <4>1, <4>2 DEF KeyedServer
    <3> QED
      BY <3>1, <3>2
  <2>2. /\ IsSeq(records) /\ At(records, Hello, key, ends, 2 + 2 * at)
        /\ 2 + 2 * at + Len(records) = next + Len(units)
    <3>1. CASE server.ready
      <4>1. At(server.recvInbox, Hello, key, ends, 2 + 2 * at) /\ next = 2 + 2 * at + Len(server.recvInbox)
        BY <3>1 DEF ServerExact, at
      <4>2. Len(server.recvInbox) \in Nat /\ Len(units) \in Nat /\ at \in Nat
        BY <1>1, <1>2, LenAny
      <4>3. PICK l \in Nat, m \in Nat, v \in Nat : l = Len(server.recvInbox) /\ m = Len(units) /\ v = at
        BY <4>2
      <4>4. next = 2 + 2 * v + l
        BY <4>1, <4>3
      <4>5. PICK start \in Int : start = 2 + 2 * v /\ start + l = next
        BY <4>4
      <4>6. start + (l + m) = next + m
        BY <4>5
      <4>7. At(server.recvInbox \o units, Hello, key, ends, start)
        BY <1>2, <4>1, <4>3, <4>5, AtJoin
      <4>8. IsSeq(server.recvInbox \o units) /\ Len(server.recvInbox \o units) = Len(server.recvInbox) + Len(units)
        BY <1>2, JoinAny
      <4>9. records = server.recvInbox \o units
        BY <3>1 DEF ServerRecords
      <4> QED
        BY <4>3, <4>5, <4>6, <4>7, <4>8, <4>9
    <3>2. CASE ~server.ready
      <4>1. PICK l \in Nat : l = Len(box) /\ 2 <= l
        BY <1>7, <2>1, <3>2, LenAny
      <4>2. records = SubSeq(box, 3, Len(box))
        BY <1>7, <3>2 DEF ServerRecords, Beyond, box
      <4>3. 3 \in 1..Len(box) + 1 /\ Len(box) \in 3 - 1..Len(box)
        BY <4>1
      <4>4. IsSeq(records) /\ Len(records) = Len(box) - 3 + 1
        BY <1>7, <4>2, <4>3, PartAny
      <4>5. At(records, Hello, key, ends, 0 + (3 - 1))
        BY <1>7, <1>8, <3>2, <4>2, <4>3, AtPart
      <4>6. 0 + (3 - 1) = 2 + 2 * at
        BY <1>8, <3>2
      <4>7. 2 + 2 * at + Len(records) = next + Len(units)
        BY <1>8, <3>2, <4>1, <4>4
      <4> QED
        BY <4>4, <4>5, <4>6, <4>7
    <3> QED
      BY <3>1, <3>2
  <2>3. o = Opened(k.recvKey, at, records)
    BY <1>4, <1>5 DEF ServerRead, at
  <2>4. Len(records) \in Nat /\ Len(records) <= 2 * (n - at) /\ (n = 0 => Len(records) < 2)
    <3>1. PICK l \in Nat, m \in Nat, v \in Nat, w \in Nat :
            l = Len(records) /\ m = Len(units) /\ v = at /\ w = n
      BY <1>1, <1>2, <2>2, LenAny
    <3>2. next + m <= 2 + 2 * w
      BY <3>1 DEF n
    <3>3. 2 + 2 * v + l = next + m
      BY <2>2, <3>1
    <3>4. l <= 2 * (w - v) /\ (w = 0 => l < 2)
      BY <3>2, <3>3
    <3> QED
      BY <3>1, <3>4
  <2> HIDE DEF records
  <2>5. k.recvKey = key \/ Len(records) < 2
    <3>1. n = 0 \/ n > 0
      BY <1>1
    <3> QED
      BY <2>1, <2>4, <3>1 DEF n
  <2>6. /\ o.ok
        /\ At(o.inbox, Hello, key, ends, 2 + 2 * o.counter)
        /\ 2 * o.counter + Len(o.inbox) = 2 * at + Len(records)
    <3>1. at \in Nat
      BY <1>1
    <3> QED
      BY <1>1, <2>2, <2>3, <2>4, <2>5, <3>1, OpenedAll
  <2>7. /\ s.recvCounter = o.counter /\ s.recvInbox = o.inbox
        /\ s.ready = k.ready /\ s.failed = k.failed /\ s.recvKey = k.recvKey /\ s.sendKey = k.sendKey
    <3>1. OpenedServer(k, o, fed) /\ DOMAIN k = ServerFields
      BY <1>5, <1>12 DEF ServerRead
    <3>2. s.recvCounter = o.counter /\ s.recvInbox = o.inbox /\ Keeps(s, k, {"recvCounter", "recvInbox"})
      BY <2>6, <3>1 DEF OpenedServer
    <3> QED
      BY <3>1, <3>2 DEF Keeps, ServerFields
  <2>8. next + Len(units) = 2 + 2 * s.recvCounter + Len(s.recvInbox)
    <3>1. o.counter \in Nat /\ Len(o.inbox) \in Nat
      <4>1. IsSeq(o.inbox) /\ o.counter \in at..n
        BY <1>5, <1>12, <2>6 DEF ServerRead, Entries, at
      <4> QED
        BY <1>1, <4>1, LenAny
    <3>2. PICK l \in Nat, v \in Nat : l = Len(records) /\ v = at
      BY <1>1, <2>4
    <3>3. 2 + 2 * v + l = next + Len(units)
      BY <2>2, <3>2
    <3>4. 2 + 2 * o.counter + Len(o.inbox) = 2 + 2 * v + l
      BY <2>6, <3>1, <3>2, SMTT(30)
    <3> QED
      BY <2>7, <3>3, <3>4
  <2>9. ~k.failed
    BY <1>5, <1>12 DEF ServerRead
  <2> QED
    BY <1>12, <2>1, <2>6, <2>7, <2>8, <2>9 DEF ServerExact
<1> QED
  BY <1>11, <1>12

-----------------------------------------------------------------------------
(***************************************************************************)
(* What each side of a step keeps.                                         *)
(***************************************************************************)
\* The units on their way are those that were sent, from the next one on.
UpExact(c, s, units, ends) ==
  LET next == (2 + 2 * c.sendCounter) - Len(units)
  IN  /\ next \in Nat
      /\ At(units, Hello, c.sendKey, ends, next)
      /\ ServerExact(s, c.sendKey, ends, next)

DownExact(c, s, units, ends) ==
  LET next == (IF s.ready THEN 2 + 2 * s.sendCounter ELSE 0) - Len(units)
  IN  /\ next \in Nat
      /\ At(units, Ephemeral, s.sendKey, ends, next)
      /\ ClientExact(c, s.sendKey, ends, next)

UpSide ==
  \E ends : UpInv(ends) /\ (faults = 0 => UpExact(client, server, stream.up, ends))

DownSide ==
  \E ends : DownInv(ends) /\ (faults = 0 => DownExact(client, server, stream.down, ends))

LEMMA ServerExactKept ==
  ASSUME NEW s, IsSeq(s.inbox), IsSeq(s.recvInbox), s.recvCounter \in Nat,
         NEW old, NEW ends, NEW next, NEW n, next <= 2 + 2 * n, ServerExact(s, old, ends, next),
         NEW key, NEW more,
         \A t, hand : \A m \in Nat :
           IsSeq(t) /\ At(t, hand, old, ends, m) /\ m + Len(t) <= 2 + 2 * n => At(t, hand, key, more, m)
  PROVE  ServerExact(s, key, more, next)
<1>1. CASE s.ready
  <2>1. At(s.recvInbox, Hello, old, ends, 2 + 2 * s.recvCounter) /\ next = 2 + 2 * s.recvCounter + Len(s.recvInbox)
    BY <1>1 DEF ServerExact
  <2>2. PICK m \in Nat : m = 2 + 2 * s.recvCounter
    OBVIOUS
  <2>3. m + Len(s.recvInbox) = next
    BY <2>1, <2>2
  <2>4. At(s.recvInbox, Hello, key, more, m)
    BY <2>1, <2>2, <2>3
  <2> QED
    BY <1>1, <2>2, <2>4 DEF ServerExact
<1>2. CASE ~s.ready
  <2>1. At(s.inbox, Hello, old, ends, 0) /\ next = Len(s.inbox)
    BY <1>2 DEF ServerExact
  <2>2. 0 \in Nat /\ 0 + Len(s.inbox) = next
    BY <2>1, LenAny
  <2>3. At(s.inbox, Hello, key, more, 0)
    BY <2>1, <2>2
  <2> QED
    BY <1>2, <2>3 DEF ServerExact
<1> QED
  BY <1>1, <1>2

LEMMA ClientExactKept ==
  ASSUME NEW c, IsSeq(c.inbox), IsSeq(c.recvInbox), c.recvCounter \in Nat,
         NEW old, NEW ends, NEW next, NEW n, next <= 2 + 2 * n, ClientExact(c, old, ends, next),
         NEW key, NEW more,
         \A t, hand : \A m \in Nat :
           IsSeq(t) /\ At(t, hand, old, ends, m) /\ m + Len(t) <= 2 + 2 * n => At(t, hand, key, more, m)
  PROVE  ClientExact(c, key, more, next)
<1>1. CASE c.haveKeys /\ ~c.failed
  <2>1. At(c.recvInbox, Ephemeral, old, ends, 2 + 2 * c.recvCounter) /\ next = 2 + 2 * c.recvCounter + Len(c.recvInbox)
    BY <1>1 DEF ClientExact
  <2>2. PICK m \in Nat : m = 2 + 2 * c.recvCounter
    OBVIOUS
  <2>3. m + Len(c.recvInbox) = next
    BY <2>1, <2>2
  <2>4. At(c.recvInbox, Ephemeral, key, more, m)
    BY <2>1, <2>2, <2>3
  <2> QED
    BY <1>1, <2>2, <2>4 DEF ClientExact
<1>2. CASE c.haveKeys /\ c.failed
  BY <1>2 DEF ClientExact
<1>3. CASE ~c.haveKeys
  <2>1. At(c.inbox, Ephemeral, old, ends, 0) /\ next = Len(c.inbox)
    BY <1>3 DEF ClientExact
  <2>2. 0 \in Nat /\ 0 + Len(c.inbox) = next
    BY <2>1, LenAny
  <2>3. At(c.inbox, Ephemeral, key, more, 0)
    BY <2>1, <2>2
  <2> QED
    BY <1>3, <2>3 DEF ClientExact
<1> QED
  BY <1>1, <1>2, <1>3

\* The client seals what comes next.
LEMMA UpSeals ==
  ASSUME ChannelAssumption, NEW ends, NEW c, NEW s, NEW units, NEW a, NEW g, UpHolds(c, s, units, a, g, ends),
         NEW b \in Int, a <= b, NEW data, data = Slice(a, b),
         NEW d, d.sendCounter = c.sendCounter + RecordsOf(data),
         d.sendKey = c.sendKey \/ c.sendCounter = 0,
         NEW longer, longer = units \o Sealed(d.sendKey, c.sendCounter, data)
  PROVE  \E more : /\ UpHolds(d, s, longer, b, g, more)
                   /\ UpExact(c, s, units, ends) => UpExact(d, s, longer, more)
<1> DEFINE n == c.sendCounter
           r == RecordsOf(data)
           key == d.sendKey
           new == Sealed(key, n, data)
<1>1. Flow(ends, c.sendKey, n, 0, a, units, s.inbox, s.recvInbox, s.recvCounter)
  BY DEF UpHolds
<1>2. /\ n \in Nat /\ s.recvCounter \in 0..n /\ IsSeq(units) /\ IsSeq(s.inbox) /\ IsSeq(s.recvInbox)
  BY <1>1 DEF Flow, Log, Entries
<1>3. r \in Nat /\ \E more : SealedFlow(more, ends, c.sendKey, key, n, r, 0, b, units, new,
                                           s.inbox, s.recvInbox, s.recvCounter)
  BY <1>1, FlowSeals
<1> HIDE DEF new
<1>4. PICK more :
           /\ Flow(more, key, n + r, 0, b, units \o new, s.inbox, s.recvInbox, s.recvCounter)
           /\ Entries(units, key, more, n + r)
           /\ \A i \in 0..n : more[i] = ends[i]
           /\ IsSeq(new) /\ Len(new) = 2 * r
           /\ \A hand : At(new, hand, key, more, 2 + 2 * n)
           /\ \A t, hand : \A m \in Nat :
                IsSeq(t) /\ At(t, hand, c.sendKey, ends, m) /\ m + Len(t) <= 2 + 2 * n => At(t, hand, key, more, m)
  BY <1>3 DEF SealedFlow
<1>5. longer = units \o new
  BY DEF new
<1>6. UpHolds(d, s, longer, b, g, more)
  <2>1. more[s.recvCounter] = ends[s.recvCounter]
    BY <1>2, <1>4
  <2>2. Passed(g, s.parser, ends[s.recvCounter])
    BY DEF UpHolds
  <2> QED
    BY <1>4, <1>5, <2>1, <2>2 DEF UpHolds
<1>7. ASSUME UpExact(c, s, units, ends)
      PROVE  UpExact(d, s, longer, more)
  <2>1. Len(units) \in Nat /\ Len(longer) = Len(units) + 2 * r
    <3>1. Len(units) \in Nat
      BY <1>2, LenAny
    <3>2. Len(units \o new) = Len(units) + Len(new)
      BY <1>2, <1>4, JoinAny
    <3> QED
      BY <1>4, <1>5, <3>1, <3>2
  <2>2. PICK next \in Nat : next = (2 + 2 * n) - Len(units)
    BY <1>7 DEF UpExact
  <2>3. next = (2 + 2 * d.sendCounter) - Len(longer)
    <3>1. PICK l \in Nat, m \in Nat, v \in Nat : l = Len(units) /\ m = r /\ v = n
      BY <1>2, <1>3, <2>1
    <3>2. (2 + 2 * v) - l = (2 + 2 * (v + m)) - (l + 2 * m)
      BY <3>1
    <3>3. d.sendCounter = v + m /\ Len(longer) = l + 2 * m
      BY <2>1, <3>1
    <3> QED
      BY <2>2, <3>1, <3>2, <3>3
  <2>4. At(longer, Hello, key, more, next)
    <3>1. At(units, Hello, c.sendKey, ends, next) /\ next + Len(units) = 2 + 2 * n
      BY <1>2, <1>7, <2>1, <2>2 DEF UpExact
    <3>2. At(units, Hello, key, more, next)
      <4>1. next + Len(units) <= 2 + 2 * n
        BY <1>2, <3>1
      <4> QED
        BY <1>2, <1>4, <3>1, <4>1
    <3>3. At(new, Hello, key, more, next + Len(units))
      BY <1>4, <3>1
    <3> QED
      BY <1>2, <1>4, <1>5, <3>2, <3>3, AtJoin
  <2>5. ServerExact(s, key, more, next)
    <3>1. ServerExact(s, c.sendKey, ends, next) /\ next <= 2 + 2 * n /\ s.recvCounter \in Nat
      BY <1>2, <1>7, <2>1, <2>2 DEF UpExact
    <3> QED
      BY <1>2, <1>4, <3>1, ServerExactKept
  <2> QED
    BY <2>2, <2>3, <2>4, <2>5 DEF UpExact
<1> QED
  BY <1>6, <1>7

\* The server has sealed more.
DownSealed(c, s, d, units, longer, b, g, ends, more) ==
  /\ DownHolds(c, d, longer, b, g, more) /\ DownHolds(c, d, units, b, g, more)
  /\ \A next \in Nat :
       next + Len(units) = 2 + 2 * s.sendCounter /\ At(units, Ephemeral, s.sendKey, ends, next)
       /\ ClientExact(c, s.sendKey, ends, next) /\ d.ready
         => DownExact(c, d, longer, more)

\* The server seals what comes next.
LEMMA DownSeals ==
  ASSUME ChannelAssumption, NEW ends, NEW c, NEW s, NEW units, NEW a, NEW g, DownHolds(c, s, units, a, g, ends),
         NEW b \in Int, a <= b, NEW data, data = Slice(a, b),
         NEW d, d.sendCounter = s.sendCounter + RecordsOf(data),
         d.sendKey = s.sendKey \/ s.sendCounter = 0,
         NEW longer, longer = units \o Sealed(d.sendKey, s.sendCounter, data)
  PROVE  \E more : DownSealed(c, s, d, units, longer, b, g, ends, more)
<1> DEFINE n == s.sendCounter
           r == RecordsOf(data)
           key == d.sendKey
           new == Sealed(key, n, data)
<1>1. Flow(ends, s.sendKey, n, -1, a, units, c.inbox, c.recvInbox, c.recvCounter)
  BY DEF DownHolds
<1>2. /\ n \in Nat /\ c.recvCounter \in 0..n /\ IsSeq(units) /\ IsSeq(c.inbox) /\ IsSeq(c.recvInbox)
  BY <1>1 DEF Flow, Log, Entries
<1>3. r \in Nat /\ \E more : SealedFlow(more, ends, s.sendKey, key, n, r, -1, b, units, new,
                                           c.inbox, c.recvInbox, c.recvCounter)
  BY <1>1, FlowSeals
<1> HIDE DEF new
<1>4. PICK more :
           /\ Flow(more, key, n + r, -1, b, units \o new, c.inbox, c.recvInbox, c.recvCounter)
           /\ Entries(units, key, more, n + r)
           /\ \A i \in 0..n : more[i] = ends[i]
           /\ IsSeq(new) /\ Len(new) = 2 * r
           /\ \A hand : At(new, hand, key, more, 2 + 2 * n)
           /\ \A t, hand : \A m \in Nat :
                IsSeq(t) /\ At(t, hand, s.sendKey, ends, m) /\ m + Len(t) <= 2 + 2 * n => At(t, hand, key, more, m)
  BY <1>3 DEF SealedFlow
<1>5. longer = units \o new
  BY DEF new
<1>6. DownHolds(c, d, longer, b, g, more)
  <2>1. more[c.recvCounter] = ends[c.recvCounter]
    BY <1>2, <1>4
  <2>2. IF c.ready THEN Passed(g, c.parser, ends[c.recvCounter])
        ELSE c.recvCounter = 0 /\ g = 0 /\ c.parser = <<>>
    BY DEF DownHolds
  <2> QED
    BY <1>4, <1>5, <2>1, <2>2 DEF DownHolds
<1>7. DownHolds(c, d, units, b, g, more)
  BY <1>4, <1>6 DEF DownHolds, Flow
<1>8. ASSUME NEW next \in Nat, next + Len(units) = 2 + 2 * n, At(units, Ephemeral, s.sendKey, ends, next),
             ClientExact(c, s.sendKey, ends, next), d.ready
      PROVE  DownExact(c, d, longer, more)
  <2>1. Len(units) \in Nat /\ Len(longer) = Len(units) + 2 * r
    <3>1. Len(units) \in Nat
      BY <1>2, LenAny
    <3>2. Len(units \o new) = Len(units) + Len(new)
      BY <1>2, <1>4, JoinAny
    <3> QED
      BY <1>4, <1>5, <3>1, <3>2
  <2>3. next = (2 + 2 * d.sendCounter) - Len(longer)
    <3>1. PICK l \in Nat, m \in Nat, v \in Nat : l = Len(units) /\ m = r /\ v = n
      BY <1>2, <1>3, <2>1
    <3>2. next + l = 2 + 2 * v
      BY <1>8, <3>1
    <3>4. next = (2 + 2 * (v + m)) - (l + 2 * m)
      BY <3>2
    <3>3. d.sendCounter = v + m /\ Len(longer) = l + 2 * m
      BY <2>1, <3>1
    <3> QED
      BY <3>3, <3>4
  <2>4. At(longer, Ephemeral, key, more, next)
    <3>2. At(units, Ephemeral, key, more, next)
      <4>1. next + Len(units) <= 2 + 2 * n
        BY <1>2, <1>8
      <4> QED
        BY <1>2, <1>4, <1>8, <4>1
    <3>3. At(new, Ephemeral, key, more, next + Len(units))
      BY <1>4, <1>8
    <3> QED
      BY <1>2, <1>4, <1>5, <3>2, <3>3, AtJoin
  <2>5. ClientExact(c, key, more, next)
    <3>1. next <= 2 + 2 * n /\ c.recvCounter \in Nat
      BY <1>2, <1>8, <2>1
    <3> QED
      BY <1>2, <1>4, <1>8, <3>1, ClientExactKept
  <2> QED
    BY <1>8, <2>3, <2>4, <2>5 DEF DownExact
<1> QED
  BY <1>6, <1>7, <1>8 DEF DownSealed

\* A read takes what is first.
Cut(units, n, taken, left) ==
  /\ IsSeq(taken) /\ Len(taken) = n /\ IsSeq(left) /\ Len(left) = Len(units) - n
  /\ \A key, ends, count :
       Entries(units, key, ends, count) => Entries(taken, key, ends, count) /\ Entries(left, key, ends, count)
  /\ \A hand, key, ends : \A next \in Nat :
       At(units, hand, key, ends, next) => At(taken, hand, key, ends, next) /\ At(left, hand, key, ends, next + n)

LEMMA CutIs ==
  ASSUME NEW line, IsSeq(line), NEW cut \in 1..Len(line),
         NEW first, first = SubSeq(line, 1, cut), NEW rest, rest = SubSeq(line, cut + 1, Len(line))
  PROVE  Cut(line, cut, first, rest)
<1>1. PICK l \in Nat : l = Len(line)
  BY LenAny
<1>2. /\ 1 \in 1..Len(line) + 1 /\ cut \in 1 - 1..Len(line)
      /\ cut + 1 \in 1..Len(line) + 1 /\ Len(line) \in (cut + 1) - 1..Len(line)
  BY <1>1
<1>3. /\ IsSeq(first) /\ Len(first) = cut
  <2>1. IsSeq(first) /\ Len(first) = cut - 1 + 1
    BY <1>2, PartAny
  <2> QED
    BY <2>1
<1>4. IsSeq(rest) /\ Len(rest) = Len(line) - cut
  <2>1. PICK m \in 1..Len(line) + 1 : m = cut + 1 /\ Len(line) \in m - 1..Len(line)
    BY <1>2
  <2>2. IsSeq(rest) /\ Len(rest) = Len(line) - m + 1
    BY <2>1, PartAny
  <2>3. l - m + 1 = l - cut
    BY <1>1, <2>1
  <2> QED
    BY <1>1, <2>2, <2>3
<1>5. ASSUME NEW key, NEW ends, NEW count, Entries(line, key, ends, count)
      PROVE  Entries(first, key, ends, count) /\ Entries(rest, key, ends, count)
  BY <1>2, <1>5, EntriesPart
<1>6. ASSUME NEW hand, NEW key, NEW ends, NEW next \in Nat, At(line, hand, key, ends, next)
      PROVE  At(first, hand, key, ends, next) /\ At(rest, hand, key, ends, next + cut)
  <2>1. PICK m \in 1..Len(line) + 1 : m = cut + 1 /\ Len(line) \in m - 1..Len(line)
    BY <1>2
  <2>2. PICK f \in 1..Len(line) + 1 : f = 1 /\ cut \in f - 1..Len(line)
    BY <1>2
  <2>3. At(SubSeq(line, m, Len(line)), hand, key, ends, next + (m - 1))
    BY <1>6, <2>1, AtPart
  <2>4. At(SubSeq(line, f, cut), hand, key, ends, next + (f - 1))
    BY <1>6, <2>2, AtPart
  <2>5. next + (m - 1) = next + cut /\ next + (f - 1) = next
    BY <2>1, <2>2
  <2> QED
    BY <2>1, <2>2, <2>3, <2>4, <2>5
<1> QED
  BY <1>3, <1>4, <1>5, <1>6 DEF Cut

\* The server reads.
LEMMA UpTakes ==
  ASSUME Shape, ClientSound, ServerSound, ~server.failed, NEW ends, UpInv(ends),
         faults = 0 => /\ UpExact(client, server, stream.up, ends)
                       /\ client.haveKeys => client.sendKey = DerivedKey("up", Hello[2], Ephemeral, pinned),
         NEW n \in 1..Len(stream.up), NEW left, left = SubSeq(stream.up, n + 1, Len(stream.up)),
         NEW fed, fed = ServerFed(SubSeq(stream.up, 1, n)), NEW plain, plain = fed.state.parser \o fed.plain,
         NEW t, t = [fed.state EXCEPT !.parser = Unparsed(plain)]
  PROVE  \E k \in Nat :
           /\ Upto(Len(got.up)) \o Parsed(plain) = Upto(Len(got.up) + k)
           /\ UpHolds(client, t, left, ClientSealed, Len(got.up) + k, ends)
           /\ Len(t.parser) < 2
           /\ faults = 0 => UpExact(client, t, left, ends)
<1> DEFINE key == client.sendKey
           count == client.sendCounter
           at == server.recvCounter
           taken == SubSeq(stream.up, 1, n)
           s == fed.state
           g == Len(got.up)
<1>1. Flow(ends, key, count, 0, ClientSealed, stream.up, server.inbox, server.recvInbox, at)
      /\ Passed(g, server.parser, ends[at])
  BY DEF UpInv, UpHolds
<1>2. Log(ends, count, 0, ClientSealed) /\ count \in Nat /\ at \in 0..count /\ Entries(stream.up, key, ends, count)
  BY <1>1 DEF Flow, Log
<1>3. IsSeq(stream.up)
  BY <1>2 DEF Entries
<1>14. Cut(stream.up, n, taken, left)
  BY <1>3, CutIs
<1>4. /\ IsSeq(taken) /\ Len(taken) = n /\ IsSeq(left) /\ Len(left) = Len(stream.up) - n
      /\ \A k, e, c :
           Entries(stream.up, k, e, c) => Entries(taken, k, e, c) /\ Entries(left, k, e, c)
      /\ \A hand, k, e : \A next \in Nat :
           At(stream.up, hand, k, e, next) => At(taken, hand, k, e, next) /\ At(left, hand, k, e, next + n)
  BY <1>14 DEF Cut
<1>5. g \in Nat
  BY DEF Shape
<1> HIDE DEF key, count, at, taken, s, g
<1>6. /\ DOMAIN s = ServerFields /\ s.parser = server.parser
      /\ Entries(s.inbox, key, ends, count) /\ Entries(s.recvInbox, key, ends, count)
      /\ s.recvCounter \in at..count
      /\ fed.plain = Slice(ends[at], ends[s.recvCounter])
  <2>1. Entries(taken, client.sendKey, ends, client.sendCounter)
    BY <1>2, <1>4 DEF key, count
  <2>2. fed = ServerFed(taken)
    BY DEF taken
  <2> QED
    BY <2>1, <2>2, ServerFedIs DEF key, count, at, s
<1>7. t = [s EXCEPT !.parser = Unparsed(plain)]
  BY DEF s
<1>8. /\ t.parser = Unparsed(plain) /\ t.inbox = s.inbox /\ t.recvInbox = s.recvInbox
      /\ t.recvCounter = s.recvCounter /\ t.ready = s.ready /\ t.failed = s.failed
      /\ t.recvKey = s.recvKey /\ t.sendKey = s.sendKey
  BY <1>6, <1>7 DEF ServerFields
<1>9. PICK low \in Int, high \in Int : low = ends[at] /\ high = ends[s.recvCounter] /\ low <= high
  <2>1. \A x, y \in 0..count : x < y => \E i, j \in Int : i = ends[x] /\ j = ends[y] /\ i < j
    BY <1>2, LogUp
  <2>2. \A x \in 0..count : ends[x] \in Int
    BY <1>2, LogBounds
  <2>3. s.recvCounter \in 0..count /\ (at = s.recvCounter \/ at < s.recvCounter)
    BY <1>2, <1>6
  <2>4. at < s.recvCounter => \E i, j \in Int : i = ends[at] /\ j = ends[s.recvCounter] /\ i < j
    BY <1>2, <2>1, <2>3
  <2>5. ends[at] \in Int /\ ends[s.recvCounter] \in Int
    BY <1>2, <2>2, <2>3
  <2>6. ends[at] <= ends[s.recvCounter]
    BY <2>3, <2>4, <2>5
  <2> QED
    BY <2>5, <2>6
<1>10. PICK k \in Nat : Passed(g + k, Unparsed(plain), high) /\ Upto(g) \o Parsed(plain) = Upto(g + k)
  <2>1. Passed(g, server.parser, low)
    BY <1>1, <1>9 DEF g, at
  <2>2. plain = server.parser \o Slice(low, high)
    BY <1>6, <1>9 DEF s
  <2>3. PassedOn(g, plain, high)
    BY <1>5, <1>9, <2>1, <2>2, PassesOn
  <2> QED
    BY <2>3 DEF PassedOn
<1>11. UpHolds(client, t, left, ClientSealed, g + k, ends)
  <2>1. s.recvCounter \in 0..count
    BY <1>2, <1>6
  <2>2. Entries(left, key, ends, count)
    BY <1>2, <1>4
  <2>3. Flow(ends, key, count, 0, ClientSealed, left, t.inbox, t.recvInbox, t.recvCounter)
    BY <1>2, <1>6, <1>8, <2>1, <2>2 DEF Flow
  <2> QED
    BY <1>8, <1>9, <1>10, <2>3 DEF UpHolds, key, count
<1>12. Len(t.parser) < 2
  <2>1. t.parser = Slice(2 * (g + k), high) /\ 2 * (g + k) <= high /\ high < 2 * (g + k) + 2
    BY <1>8, <1>10 DEF Passed
  <2>2. PICK from \in Int : from = 2 * (g + k) /\ from <= high /\ high < from + 2
    BY <1>5, <2>1
  <2>3. Len(Slice(from, high)) = high - from
    BY <2>2, SliceIs
  <2> QED
    BY <2>1, <2>2, <2>3
<1>13. ASSUME faults = 0
       PROVE  UpExact(client, t, left, ends)
  <2>1. PICK next \in Nat : /\ next = (2 + 2 * count) - Len(stream.up)
                            /\ At(stream.up, Hello, key, ends, next)
                            /\ ServerExact(server, key, ends, next)
    BY <1>13 DEF UpExact, key, count
  <2>2. PICK l \in Nat, v \in Nat : l = Len(stream.up) /\ n <= l /\ v = count
    BY <1>2, <1>3, LenAny
  <2>9. next = (2 + 2 * v) - l
    BY <2>1, <2>2
  <2>3. next + n \in Nat /\ next + n <= 2 + 2 * v /\ next + n = (2 + 2 * v) - (l - n)
    BY <2>2, <2>9, SMTT(30)
  <2>4. client.sendCounter > 0 => key = DerivedKey("up", Hello[2], Ephemeral, "server")
    <3>1. SUFFICES ASSUME count > 0
                   PROVE  key = DerivedKey("up", Hello[2], Ephemeral, "server")
      BY DEF count
    <3>2. client.ready
      <4>1. count <= ClientSealed - 0
        BY <1>2 DEF Log
      <4> QED
        BY <1>2, <3>1, <4>1 DEF ClientSealed
    <3> QED
      BY <1>13, <3>2 DEF ClientSound, key
  <2>5. ServerExact(s, key, ends, next + n)
    <3>1. At(taken, Hello, key, ends, next) /\ Entries(taken, key, ends, client.sendCounter)
      BY <1>2, <1>4, <2>1 DEF count
    <3>2. next + Len(taken) <= 2 + 2 * client.sendCounter
      BY <1>4, <2>2, <2>3 DEF count
    <3>3. fed = ServerFed(taken)
      BY DEF taken
    <3>4. ~server.ready => server.recvCounter = 0
      BY DEF ServerSound
    <3>5. ServerExact(s, key, ends, next + Len(taken))
      BY <2>1, <2>4, <3>1, <3>2, <3>3, <3>4, ServerFedExact DEF key, s
    <3> QED
      BY <1>4, <3>5
  <2>6. ServerExact(t, key, ends, next + n)
    BY <1>8, <2>5 DEF ServerExact
  <2>7. At(left, Hello, key, ends, next + n)
    BY <1>4, <2>1
  <2>8. next + n = (2 + 2 * client.sendCounter) - Len(left)
    BY <1>4, <2>2, <2>3 DEF count
  <2> QED
    BY <2>3, <2>6, <2>7, <2>8 DEF UpExact, key
<1> QED
  BY <1>10, <1>11, <1>12, <1>13 DEF g

\* The client reads.
LEMMA DownTakes ==
  ASSUME Shape, ClientSound, ServerSound, ~client.failed, NEW ends, DownInv(ends),
         faults = 0 => /\ DownExact(client, server, stream.down, ends)
                       /\ server.ready => server.sendKey = DerivedKey("down", Hello[2], Ephemeral, "server"),
         NEW n \in 1..Len(stream.down), NEW left, left = SubSeq(stream.down, n + 1, Len(stream.down)),
         NEW fed, fed = ClientFed(SubSeq(stream.down, 1, n)), NEW plain, plain = fed.state.parser \o fed.plain,
         NEW t, t = [fed.state EXCEPT !.parser = Unparsed(plain)]
  PROVE  \E k \in Nat :
           /\ Upto(Len(got.down)) \o Parsed(plain) = Upto(Len(got.down) + k)
           /\ DownHolds(t, server, left, ServerSealed, Len(got.down) + k, ends)
           /\ Len(t.parser) < 2
           /\ faults = 0 => DownExact(t, server, left, ends)
<1> DEFINE key == server.sendKey
           count == server.sendCounter
           at == client.recvCounter
           taken == SubSeq(stream.down, 1, n)
           s == fed.state
           g == Len(got.down)
<1>1. Flow(ends, key, count, -1, ServerSealed, stream.down, client.inbox, client.recvInbox, at)
      /\ IF client.ready THEN Passed(g, client.parser, ends[at])
         ELSE at = 0 /\ g = 0 /\ client.parser = <<>>
  BY DEF DownInv, DownHolds
<1>2. Log(ends, count, -1, ServerSealed) /\ count \in Nat /\ at \in 0..count /\ Entries(stream.down, key, ends, count)
  BY <1>1 DEF Flow, Log
<1>3. IsSeq(stream.down)
  BY <1>2 DEF Entries
<1>14. Cut(stream.down, n, taken, left)
  BY <1>3, CutIs
<1>4. /\ IsSeq(taken) /\ Len(taken) = n /\ IsSeq(left) /\ Len(left) = Len(stream.down) - n
      /\ \A k, e, c :
           Entries(stream.down, k, e, c) => Entries(taken, k, e, c) /\ Entries(left, k, e, c)
      /\ \A hand, k, e : \A next \in Nat :
           At(stream.down, hand, k, e, next) => At(taken, hand, k, e, next) /\ At(left, hand, k, e, next + n)
  BY <1>14 DEF Cut
<1>5. g \in Nat
  BY DEF Shape
<1> HIDE DEF key, count, at, taken, s, g
<1>6. /\ DOMAIN s = ClientFields /\ s.parser = client.parser /\ s.ready \in BOOLEAN
      /\ Entries(s.inbox, key, ends, count) /\ Entries(s.recvInbox, key, ends, count)
      /\ s.recvCounter \in at..count
      /\ client.ready => s.ready /\ fed.plain = Slice(ends[at], ends[s.recvCounter])
      /\ ~client.ready /\ s.ready => fed.plain = Slice(0, ends[s.recvCounter]) /\ 0 <= ends[s.recvCounter]
      /\ ~s.ready => fed.plain = <<>> /\ s.recvCounter = 0
  <2>1. Entries(taken, server.sendKey, ends, server.sendCounter)
    BY <1>2, <1>4 DEF key, count
  <2>2. fed = ClientFed(taken)
    BY DEF taken
  <2> QED
    BY <2>1, <2>2, ClientFedIs DEF key, count, at, s
<1>7. t = [s EXCEPT !.parser = Unparsed(plain)]
  BY DEF s
<1>8. /\ t.parser = Unparsed(plain) /\ t.inbox = s.inbox /\ t.recvInbox = s.recvInbox
      /\ t.recvCounter = s.recvCounter /\ t.ready = s.ready /\ t.failed = s.failed
      /\ t.recvKey = s.recvKey /\ t.sendKey = s.sendKey /\ t.haveKeys = s.haveKeys
  BY <1>6, <1>7 DEF ClientFields
<1>9. PICK low \in Int, high \in Int : low = ends[at] /\ high = ends[s.recvCounter] /\ low <= high
  <2>1. \A x, y \in 0..count : x < y => \E i, j \in Int : i = ends[x] /\ j = ends[y] /\ i < j
    BY <1>2, LogUp
  <2>2. \A x \in 0..count : ends[x] \in Int
    BY <1>2, LogBounds
  <2>3. s.recvCounter \in 0..count /\ (at = s.recvCounter \/ at < s.recvCounter)
    BY <1>2, <1>6
  <2>4. at < s.recvCounter => \E i, j \in Int : i = ends[at] /\ j = ends[s.recvCounter] /\ i < j
    BY <1>2, <2>1, <2>3
  <2>5. ends[at] \in Int /\ ends[s.recvCounter] \in Int
    BY <1>2, <2>2, <2>3
  <2>6. ends[at] <= ends[s.recvCounter]
    BY <2>3, <2>4, <2>5
  <2> QED
    BY <2>5, <2>6
\* What the parser has, and what comes to it.
<1>10. PICK k \in Nat :
         /\ Upto(g) \o Parsed(plain) = Upto(g + k)
         /\ Len(Unparsed(plain)) < 2
         /\ IF s.ready THEN Passed(g + k, Unparsed(plain), high)
            ELSE s.recvCounter = 0 /\ g + k = 0 /\ Unparsed(plain) = <<>>
  <2>2. ASSUME NEW k \in Nat, NEW y \in Int, Passed(g + k, Unparsed(plain), y)
        PROVE  Len(Unparsed(plain)) < 2
    <3>1. Unparsed(plain) = Slice(2 * (g + k), y) /\ 2 * (g + k) <= y /\ y < 2 * (g + k) + 2
      BY <2>2 DEF Passed
    <3>2. PICK from \in Int : from = 2 * (g + k) /\ from <= y /\ y < from + 2
      BY <1>5, <3>1
    <3>3. Len(Slice(from, y)) = y - from
      BY <3>2, SliceIs
    <3> QED
      BY <3>1, <3>2, <3>3
  <2>3. CASE client.ready
    <3>1. Passed(g, client.parser, low)
      BY <1>1, <1>9, <2>3 DEF g, at
    <3>2. plain = client.parser \o Slice(low, high) /\ s.ready
      BY <1>6, <1>9, <2>3 DEF s
    <3>3. PassedOn(g, plain, high)
      BY <1>5, <1>9, <3>1, <3>2, PassesOn
    <3> QED
      BY <2>2, <1>9, <3>2, <3>3 DEF PassedOn
  <2>4. CASE ~client.ready
    <3>1. client.parser = <<>> /\ g = 0 /\ at = 0
      BY <1>1, <2>4 DEF g, at
    <3>2. Slice(0, 0) = <<>>
      BY SliceNone
    <3>3. PICK start \in Int : start = 0 /\ start <= 0 /\ Passed(g, client.parser, start)
      BY <3>1, <3>2 DEF Passed
    <3>4. CASE s.ready
      <4>1. plain = client.parser \o Slice(start, high) /\ start <= high
        BY <1>6, <1>9, <2>4, <3>3, <3>4 DEF s
      <4>2. PassedOn(g, plain, high)
        BY <1>5, <1>9, <3>3, <4>1, PassesOn
      <4> QED
        BY <2>2, <1>9, <3>4, <4>2 DEF PassedOn
    <3>5. CASE ~s.ready
      <4>1. plain = client.parser \o Slice(start, start) /\ s.recvCounter = 0
        BY <1>6, <3>2, <3>3, <3>5 DEF s
      <4>2. PassedOn(g, plain, start)
        BY <1>5, <3>3, <4>1, PassesOn
      <4>3. PICK k \in Nat : Passed(g + k, Unparsed(plain), 0) /\ Upto(g) \o Parsed(plain) = Upto(g + k)
        BY <3>3, <4>2 DEF PassedOn
      <4>4. g + k = 0
        BY <3>1, <4>3 DEF Passed
      <4>5. Unparsed(plain) = Slice(2 * 0, 0)
        BY <4>3, <4>4 DEF Passed
      <4>6. Unparsed(plain) = <<>>
        BY <3>2, <4>5
      <4>7. Len(Unparsed(plain)) < 2
        BY <4>6
      <4> QED
        BY <3>5, <4>1, <4>3, <4>4, <4>6, <4>7
    <3> QED
      BY <3>4, <3>5
  <2> QED
    BY <2>3, <2>4
<1>11. DownHolds(t, server, left, ServerSealed, g + k, ends)
  <2>1. s.recvCounter \in 0..count
    BY <1>2, <1>6
  <2>2. Entries(left, key, ends, count)
    BY <1>2, <1>4
  <2>3. Flow(ends, key, count, -1, ServerSealed, left, t.inbox, t.recvInbox, t.recvCounter)
    BY <1>2, <1>6, <1>8, <2>1, <2>2 DEF Flow
  <2> QED
    BY <1>8, <1>9, <1>10, <2>3 DEF DownHolds, key, count
<1>12. Len(t.parser) < 2
  BY <1>8, <1>10
<1>13. ASSUME faults = 0
       PROVE  DownExact(t, server, left, ends)
  <2>1. PICK next \in Nat : /\ next = (IF server.ready THEN 2 + 2 * count ELSE 0) - Len(stream.down)
                            /\ At(stream.down, Ephemeral, key, ends, next)
                            /\ ClientExact(client, key, ends, next)
    BY <1>13 DEF DownExact, key, count
  <2>2. PICK l \in Nat, v \in Nat : l = Len(stream.down) /\ n <= l /\ v = count
    BY <1>2, <1>3, LenAny
  <2>3. server.ready
    BY <2>1, <2>2
  <2>9. next = (2 + 2 * v) - l
    BY <2>1, <2>2, <2>3
  <2>4. next + n \in Nat /\ next + n <= 2 + 2 * v /\ next + n = (2 + 2 * v) - (l - n)
    BY <2>2, <2>9, SMTT(30)
  <2>5. ClientExact(s, key, ends, next + n)
    <3>1. At(taken, Ephemeral, key, ends, next) /\ Entries(taken, key, ends, server.sendCounter)
      BY <1>2, <1>4, <2>1 DEF count
    <3>2. next + Len(taken) <= 2 + 2 * server.sendCounter
      BY <1>4, <2>2, <2>4 DEF count
    <3>3. fed = ClientFed(taken)
      BY DEF taken
    <3>4. key = DerivedKey("down", Hello[2], Ephemeral, "server") /\ pinned \in {"server", "other"}
      BY <1>13, <2>3 DEF Shape, key
    <3>5. ClientExact(s, key, ends, next + Len(taken))
      BY <2>1, <3>1, <3>2, <3>3, <3>4, ClientFedExact DEF key, s
    <3> QED
      BY <1>4, <3>5
  <2>6. ClientExact(t, key, ends, next + n)
    BY <1>8, <2>5 DEF ClientExact
  <2>7. At(left, Ephemeral, key, ends, next + n)
    BY <1>4, <2>1
  <2>8. next + n = (IF server.ready THEN 2 + 2 * server.sendCounter ELSE 0) - Len(left)
    BY <1>4, <2>2, <2>3, <2>4 DEF count
  <2> QED
    BY <2>4, <2>6, <2>7, <2>8 DEF DownExact, key
<1> QED
  BY <1>10, <1>11, <1>12, <1>13 DEF g

-----------------------------------------------------------------------------
(***************************************************************************)
(* Every step keeps it.                                                    *)
(***************************************************************************)
StepInv == Shape /\ ClientSound /\ ServerSound /\ UpSide /\ DownSide

LEMMA UptoNext ==
  ASSUME NEW n \in Nat
  PROVE  Append(Upto(n), n + 1) = Upto(n + 1)
<1>1. Upto(n) \in Seq(Nat) /\ Len(Upto(n)) = n /\ \A i \in 1..n : Upto(n)[i] = i
  <2>1. Upto(n) \in [1..n -> Nat]
    BY DEF Upto
  <2> QED
    BY <2>1, UptoIs
<1> DEFINE s == Upto(n)
           t == Append(s, n + 1)
<1> HIDE DEF s
<1>2. t \in Seq(Nat) /\ Len(t) = n + 1 /\ \A i \in 1..n + 1 : t[i] = IF i <= n THEN s[i] ELSE n + 1
  BY <1>1 DEF s
<1>3. \A i \in 1..n + 1 : t[i] = i
  BY <1>1, <1>2 DEF s
<1> HIDE DEF t
<1>4. IsSeq(t)
  BY <1>2 DEF IsSeq
<1>5. n + 1 \in Nat
  OBVIOUS
<1>6. IsSeq(Upto(n + 1)) /\ Len(Upto(n + 1)) = n + 1 /\ \A i \in 1..n + 1 : Upto(n + 1)[i] = i
  BY <1>5, UptoIs
<1>7. t = Upto(n + 1)
  BY <1>2, <1>3, <1>4, <1>6, SameAny
<1> QED
  BY <1>7 DEF s, t

LEMMA SealedNone ==
  ASSUME ChannelAssumption
  PROVE  RecordsOf(<<>>) = 0 /\ \A key, n : Sealed(key, n, <<>>) = <<>>
<1>1. RecordsOf(<<>>) = 0
  <2>1. Len(<<>>) \in Nat /\ Len(<<>>) = 0
    BY NoneAny
  <2>2. RecordsOf(<<>>) \in Nat /\ RecordsOf(<<>>) <= Len(<<>>)
    BY <2>1, RecordsBounds
  <2> QED
    BY <2>1, <2>2
<1>2. ASSUME NEW key, NEW n
      PROVE  Sealed(key, n, <<>>) = <<>>
  <2> DEFINE t == Sealed(key, n, <<>>)
  <2>1. t = [i \in 1..0 |-> t[i]]
    <3>1. 2 * RecordsOf(<<>>) = 0
      BY <1>1
    <3> QED
      BY <3>1 DEF Sealed
  <2> HIDE DEF t
  <2>2. IsSeq(t) /\ Len(t) = 0
    <3>1. 0 \in Nat
      OBVIOUS
    <3> QED
      BY <2>1, <3>1, ListAny
  <2>3. t = <<>>
    BY <2>2, NoneAny
  <2> QED
    BY <2>3 DEF t
<1> QED
  BY <1>1, <1>2

LEMMA ReleasedIs ==
  ASSUME NEW c, DOMAIN c = ClientFields
  PROVE  /\ Released(c).waiting = <<>> /\ Released(c).sendCounter = c.sendCounter + RecordsOf(c.waiting)
         /\ Keeps(Released(c), c, {"waiting", "sendCounter"})
BY DEF Released, Keeps, ClientFields

\* The client seals what comes next, or nothing.
LEMMA UpMoves ==
  ASSUME ChannelAssumption, UpSide, server' = server, got'.up = got.up, faults' = faults,
         ClientSealed \in Int, ClientSealed' \in Int, ClientSealed <= ClientSealed',
         NEW data, data = Slice(ClientSealed, ClientSealed'),
         client'.sendCounter = client.sendCounter + RecordsOf(data),
         client'.sendKey = client.sendKey \/ client.sendCounter = 0,
         stream'.up = stream.up \o Sealed(client'.sendKey, client.sendCounter, data)
  PROVE  UpSide'
<1>1. PICK ends : UpInv(ends) /\ (faults = 0 => UpExact(client, server, stream.up, ends))
  BY DEF UpSide
<1> DEFINE c == client
           d == client'
           s == server
           units == stream.up
           longer == stream'.up
           a == ClientSealed
           b == ClientSealed'
           g == Len(got.up)
<1>2. UpHolds(c, s, units, a, g, ends)
  BY <1>1 DEF UpInv
<1> HIDE DEF c, d, s, units, longer, a, b, g
<1>3. /\ b \in Int /\ a <= b /\ data = Slice(a, b) /\ d.sendCounter = c.sendCounter + RecordsOf(data)
      /\ d.sendKey = c.sendKey \/ c.sendCounter = 0
      /\ longer = units \o Sealed(d.sendKey, c.sendCounter, data)
  BY DEF a, b, c, d, units, longer
<1>4. PICK more : /\ UpHolds(d, s, longer, b, g, more)
                  /\ UpExact(c, s, units, ends) => UpExact(d, s, longer, more)
  BY <1>2, <1>3, UpSeals
<1>5. UpInv(more)'
  BY <1>4 DEF UpInv, d, s, longer, b, g
<1>6. faults' = 0 => UpExact(client, server, stream.up, more)'
  BY <1>1, <1>4 DEF c, d, s, units, longer
<1> QED
  BY <1>5, <1>6 DEF UpSide

\* The server seals what comes next.
LEMMA DownMoves ==
  ASSUME ChannelAssumption, DownSide, client' = client, pinned' = pinned, got'.down = got.down, faults' = faults,
         server.ready, server'.ready,
         ServerSealed \in Int, ServerSealed' \in Int, ServerSealed <= ServerSealed',
         NEW data, data = Slice(ServerSealed, ServerSealed'),
         server'.sendCounter = server.sendCounter + RecordsOf(data),
         server'.sendKey = server.sendKey,
         stream'.down = stream.down \o Sealed(server'.sendKey, server.sendCounter, data)
  PROVE  DownSide'
<1>1. PICK ends : DownInv(ends) /\ (faults = 0 => DownExact(client, server, stream.down, ends))
  BY DEF DownSide
<1> DEFINE c == client
           d == server'
           s == server
           units == stream.down
           longer == stream'.down
           a == ServerSealed
           b == ServerSealed'
           g == Len(got.down)
<1>2. DownHolds(c, s, units, a, g, ends)
  BY <1>1 DEF DownInv
<1>7. s.sendCounter \in Nat /\ Len(units) \in Nat
  <2>1. s.sendCounter \in Nat /\ IsSeq(units)
    BY <1>2 DEF DownHolds, Flow, Log, Entries
  <2> QED
    BY <2>1, LenAny
<1>8. d.ready /\ s.ready
  OBVIOUS
<1> HIDE DEF c, d, s, units, longer, a, b, g
<1>3. /\ b \in Int /\ a <= b /\ data = Slice(a, b) /\ d.sendCounter = s.sendCounter + RecordsOf(data)
      /\ d.sendKey = s.sendKey
      /\ longer = units \o Sealed(d.sendKey, s.sendCounter, data)
  BY DEF a, b, s, d, units, longer
<1>10. \E more : DownSealed(c, s, d, units, longer, b, g, ends, more)
  BY <1>2, <1>3, DownSeals
<1>4. PICK more :
        /\ DownHolds(c, d, longer, b, g, more) /\ DownHolds(c, d, units, b, g, more)
        /\ \A next \in Nat :
             next + Len(units) = 2 + 2 * s.sendCounter /\ At(units, Ephemeral, s.sendKey, ends, next)
             /\ ClientExact(c, s.sendKey, ends, next) /\ d.ready
               => DownExact(c, d, longer, more)
  BY <1>10 DEF DownSealed
<1>5. DownInv(more)'
  BY <1>4 DEF DownInv, c, d, longer, b, g
<1>6. ASSUME faults = 0
      PROVE  DownExact(c, d, longer, more)
  <2>1. DownExact(c, s, units, ends)
    BY <1>1, <1>6 DEF c, s, units
  <2>2. PICK next \in Nat : /\ next = (2 + 2 * s.sendCounter) - Len(units)
                            /\ At(units, Ephemeral, s.sendKey, ends, next)
                            /\ ClientExact(c, s.sendKey, ends, next)
    BY <1>8, <2>1 DEF DownExact
  <2>3. next + Len(units) = 2 + 2 * s.sendCounter
    BY <1>7, <2>2
  <2> QED
    BY <1>4, <1>8, <2>2, <2>3
<1>9. faults' = 0 => DownExact(client, server, stream.down, more)'
  <2>1. SUFFICES ASSUME faults = 0
                 PROVE  DownExact(client, server, stream.down, more)'
    OBVIOUS
  <2>2. DownExact(client, server', stream'.down, more)
    BY <1>6, <2>1 DEF c, d, longer
  <2> QED
    BY <2>2 DEF DownExact, ClientExact
<1> QED
  BY <1>5, <1>9 DEF DownSide

\* Only what the server will seal with changes.
LEMMA UpStays ==
  ASSUME UpSide, client' = client, got'.up = got.up, faults' = faults, sent'.up = sent.up,
         stream'.up = stream.up,
         server'.inbox = server.inbox, server'.recvInbox = server.recvInbox,
         server'.recvCounter = server.recvCounter, server'.parser = server.parser,
         server'.recvKey = server.recvKey, server'.sendKey = server.sendKey,
         server'.ready = server.ready, server'.failed = server.failed
  PROVE  UpSide'
<1>1. PICK ends : UpInv(ends) /\ (faults = 0 => UpExact(client, server, stream.up, ends))
  BY DEF UpSide
<1>2. ClientSealed' = ClientSealed
  BY DEF ClientSealed
<1>3. UpInv(ends)'
  BY <1>1, <1>2 DEF UpInv, UpHolds
<1>4. faults' = 0 => UpExact(client, server, stream.up, ends)'
  <2>1. SUFFICES ASSUME faults = 0
                 PROVE  UpExact(client, server, stream.up, ends)'
    OBVIOUS
  <2>2. UpExact(client, server, stream.up, ends)
    BY <1>1, <2>1
  <2> QED
    BY <2>2 DEF UpExact, ServerExact
<1> QED
  BY <1>3, <1>4 DEF UpSide

\* Only what the client will seal changes.
LEMMA DownStays ==
  ASSUME DownSide, server' = server, got'.down = got.down, faults' = faults, sent'.down = sent.down,
         stream'.down = stream.down, pinned' = pinned,
         client'.inbox = client.inbox, client'.recvInbox = client.recvInbox,
         client'.recvCounter = client.recvCounter, client'.parser = client.parser,
         client'.recvKey = client.recvKey, client'.sendKey = client.sendKey,
         client'.ready = client.ready, client'.failed = client.failed, client'.haveKeys = client.haveKeys
  PROVE  DownSide'
<1>1. PICK ends : DownInv(ends) /\ (faults = 0 => DownExact(client, server, stream.down, ends))
  BY DEF DownSide
<1>2. ServerSealed' = ServerSealed
  BY DEF ServerSealed
<1>3. DownInv(ends)'
  BY <1>1, <1>2 DEF DownInv, DownHolds
<1>4. faults' = 0 => DownExact(client, server, stream.down, ends)'
  <2>1. SUFFICES ASSUME faults = 0
                 PROVE  DownExact(client, server, stream.down, ends)'
    OBVIOUS
  <2>2. DownExact(client, server, stream.down, ends)
    BY <1>1, <2>1
  <2> QED
    BY <2>2 DEF DownExact, ClientExact
<1> QED
  BY <1>3, <1>4 DEF DownSide

\* One frame more.
LEMMA SentIs ==
  ASSUME ChannelAssumption, Shape, NEW w \in Ways, Len(sent[w]) < MaxFrames,
         sent' = [sent EXCEPT ![w] = Append(@, Len(@) + 1)],
         NEW l, l = Len(sent[w])
  PROVE  /\ l \in Nat /\ DOMAIN sent' = Ways
         /\ sent'[w] = Upto(l + 1) /\ Len(sent'[w]) = l + 1
         /\ \A v \in Ways : v # w => sent'[v] = sent[v]
         /\ \A v \in Ways : Len(sent'[v]) \in 0..MaxFrames /\ sent'[v] = Upto(Len(sent'[v]))
         /\ Frame(Len(sent'[w])) = Slice(2 * l, 2 * (l + 1))
<1>1. l \in Nat /\ sent[w] = Upto(l) /\ DOMAIN sent = Ways
  BY DEF Shape
<1>2. DOMAIN sent' = Ways /\ sent'[w] = Append(sent[w], l + 1) /\ \A v \in Ways : v # w => sent'[v] = sent[v]
  BY <1>1
<1>3. sent'[w] = Upto(l + 1)
  BY <1>1, <1>2, UptoNext
<1>4. Len(sent'[w]) = l + 1
  <2>1. l + 1 \in Nat
    BY <1>1
  <2> QED
    BY <1>3, <2>1, UptoIs
<1>5. \A v \in Ways : Len(sent'[v]) \in 0..MaxFrames /\ sent'[v] = Upto(Len(sent'[v]))
  <2>1. l + 1 \in 0..MaxFrames
    <3>1. l \in 0..MaxFrames /\ MaxFrames \in Nat
      BY DEF Shape, ChannelAssumption
    <3> QED
      BY <3>1
  <2>2. \A v \in Ways : v # w => Len(sent'[v]) \in 0..MaxFrames /\ sent'[v] = Upto(Len(sent'[v]))
    BY <1>2 DEF Shape
  <2> QED
    BY <1>3, <1>4, <2>1, <2>2
<1>6. Frame(Len(sent'[w])) = Slice(2 * l, 2 * (l + 1))
  <2>1. PICK m \in Nat \ {0} : m = l + 1 /\ 2 * m - 2 = 2 * l
    BY <1>1
  <2>2. Frame(m) = Slice(2 * m - 2, 2 * m)
    BY FrameIs
  <2> QED
    BY <1>4, <2>1, <2>2
<1> QED
  BY <1>1, <1>2, <1>3, <1>4, <1>5, <1>6

LEMMA ClientSendStep ==
  ASSUME ChannelAssumption, StepInv, ClientSend
  PROVE  StepInv'
<1> USE DEF StepInv
<1> DEFINE l == Len(sent.up)
           frame == Frame(Len(sent'.up))
           c == [client EXCEPT !.waiting = @ \o frame]
<1>1. /\ ~client.failed /\ Len(sent.up) < MaxFrames
      /\ sent' = [sent EXCEPT !.up = Append(@, Len(@) + 1)]
      /\ IF c.ready
         THEN /\ client' = Released(c)
              /\ stream' = [stream EXCEPT !.up = @ \o Sealed(c.sendKey, c.sendCounter, c.waiting)]
         ELSE /\ client' = c
              /\ UNCHANGED stream
      /\ UNCHANGED <<server, got, pinned, faults>>
  BY DEF ClientSend
<1>2. /\ l \in Nat /\ DOMAIN sent' = Ways
      /\ sent'.up = Upto(l + 1) /\ Len(sent'.up) = l + 1 /\ sent'.down = sent.down
      /\ \A v \in Ways : Len(sent'[v]) \in 0..MaxFrames /\ sent'[v] = Upto(Len(sent'[v]))
      /\ frame = Slice(2 * l, 2 * (l + 1))
  BY <1>1, SentIs
<1> HIDE DEF frame
<1>3. /\ DOMAIN c = ClientFields /\ c.waiting = client.waiting \o frame
      /\ \A f \in ClientFields \ {"waiting"} : c[f] = client[f]
  BY DEF ClientSound, ClientFields
<1> HIDE DEF c, l
<1>4. PICK x \in Int, y \in Int : x = 2 * l /\ y = 2 * (l + 1) /\ 0 <= x /\ x <= y
  BY <1>2
<1>5. IsSeq(frame)
  BY <1>2, <1>4, SliceIs
<1>6. c.waiting = IF client.ready THEN frame ELSE Slice(0, y)
  <2>1. client.waiting = IF client.ready THEN <<>> ELSE Slice(0, x)
    BY <1>4 DEF ClientSound, l
  <2>2. <<>> \o frame = frame
    BY <1>5, NoneAny
  <2>3. Slice(0, x) \o Slice(x, y) = Slice(0, y)
    BY <1>4, SliceJoin
  <2> QED
    BY <1>2, <1>3, <1>4, <2>1, <2>2, <2>3
<1>7. /\ c.haveKeys = client.haveKeys /\ c.ready = client.ready /\ c.failed = client.failed
      /\ c.inbox = client.inbox /\ c.sendKey = client.sendKey /\ c.sendCounter = client.sendCounter
      /\ c.recvKey = client.recvKey /\ c.recvCounter = client.recvCounter
      /\ c.recvInbox = client.recvInbox /\ c.parser = client.parser
  BY <1>3 DEF ClientFields
<1> DEFINE data == IF client.ready THEN frame ELSE <<>>
<1>8. /\ DOMAIN client' = ClientFields
      /\ client'.waiting = (IF client.ready THEN <<>> ELSE Slice(0, y))
      /\ client'.sendCounter = client.sendCounter + RecordsOf(data)
      /\ client'.haveKeys = client.haveKeys /\ client'.ready = client.ready /\ client'.failed = client.failed
      /\ client'.inbox = client.inbox /\ client'.sendKey = client.sendKey
      /\ client'.recvKey = client.recvKey /\ client'.recvCounter = client.recvCounter
      /\ client'.recvInbox = client.recvInbox /\ client'.parser = client.parser
  <2>1. CASE client.ready
    <3>1. client' = Released(c) /\ c.waiting = frame
      BY <1>1, <1>6, <1>7, <2>1
    <3>2. client'.waiting = <<>> /\ client'.sendCounter = c.sendCounter + RecordsOf(frame)
          /\ Keeps(client', c, {"waiting", "sendCounter"})
      BY <1>3, <3>1, ReleasedIs
    <3>3. DOMAIN client' = ClientFields /\ \A f \in ClientFields \ {"waiting", "sendCounter"} : client'[f] = c[f]
      BY <1>3, <3>2 DEF Keeps
    <3>4. /\ client'.haveKeys = c.haveKeys /\ client'.ready = c.ready /\ client'.failed = c.failed
          /\ client'.inbox = c.inbox /\ client'.sendKey = c.sendKey
          /\ client'.recvKey = c.recvKey /\ client'.recvCounter = c.recvCounter
          /\ client'.recvInbox = c.recvInbox /\ client'.parser = c.parser
      BY <3>3 DEF ClientFields
    <3> QED
      BY <1>7, <2>1, <3>2, <3>3, <3>4
  <2>2. CASE ~client.ready
    <3>1. client' = c
      BY <1>1, <1>7, <2>2
    <3>2. client.sendCounter = client.sendCounter + RecordsOf(<<>>)
      <4>1. client.sendCounter \in Nat
        BY DEF UpSide, UpInv, UpHolds, Flow, Log
      <4> QED
        BY <4>1, SealedNone
    <3> QED
      BY <1>3, <1>6, <1>7, <2>2, <3>1, <3>2
  <2> QED
    BY <2>1, <2>2
<1>9. stream'.up = stream.up \o Sealed(client'.sendKey, client.sendCounter, data)
      /\ stream'.down = stream.down /\ DOMAIN stream' = Ways
  <2>1. CASE client.ready
    <3>1. stream' = [stream EXCEPT !.up = @ \o Sealed(c.sendKey, c.sendCounter, c.waiting)]
      BY <1>1, <1>7, <2>1
    <3>2. stream' = [stream EXCEPT !.up = @ \o Sealed(client.sendKey, client.sendCounter, frame)]
      BY <1>6, <1>7, <2>1, <3>1
    <3> QED
      BY <1>8, <2>1, <3>2 DEF Shape
  <2>2. CASE ~client.ready
    <3>1. stream' = stream
      BY <1>1, <1>7, <2>2
    <3>2. IsSeq(stream.up)
      BY DEF UpSide, UpInv, UpHolds, Flow, Entries
    <3>3. stream.up \o <<>> = stream.up
      BY <3>2, NoneAny
    <3> QED
      BY <2>2, <3>1, <3>3, SealedNone DEF Shape
  <2> QED
    BY <2>1, <2>2
<1> HIDE DEF data
<1>10. server' = server /\ got' = got /\ pinned' = pinned /\ faults' = faults
  BY <1>1
<1>11. Shape'
  BY <1>2, <1>9, <1>10 DEF Shape
<1>12. ClientSound'
  BY <1>2, <1>4, <1>8, <1>10 DEF ClientSound, l
<1>13. ServerSound'
  BY <1>2, <1>10 DEF ServerSound
<1>14. UpSide'
  <2>1. ClientSealed = (IF client.ready THEN x ELSE 0) /\ ClientSealed' = (IF client.ready THEN y ELSE 0)
    BY <1>2, <1>4, <1>8 DEF ClientSealed, l
  <2>2. data = Slice(ClientSealed, ClientSealed')
    <3>1. Slice(0, 0) = <<>>
      BY SliceNone
    <3> QED
      BY <1>2, <1>4, <2>1, <3>1 DEF data
  <2>3. ClientSealed \in Int /\ ClientSealed' \in Int /\ ClientSealed <= ClientSealed'
    BY <1>4, <2>1
  <2> QED
    BY <1>8, <1>9, <1>10, <2>2, <2>3, UpMoves
<1>15. DownSide'
  BY <1>2, <1>8, <1>9, <1>10, DownStays
<1> QED
  BY <1>11, <1>12, <1>13, <1>14, <1>15

LEMMA ServerSendStep ==
  ASSUME ChannelAssumption, StepInv, ServerSend
  PROVE  StepInv'
<1> USE DEF StepInv
<1> DEFINE l == Len(sent.down)
           frame == Frame(Len(sent'.down))
<1>1. /\ server.ready /\ ~server.failed /\ Len(sent.down) < MaxFrames
      /\ sent' = [sent EXCEPT !.down = Append(@, Len(@) + 1)]
      /\ stream' = [stream EXCEPT !.down = @ \o Sealed(server.sendKey, server.sendCounter, frame)]
      /\ server' = [server EXCEPT !.sendCounter = @ + RecordsOf(frame)]
      /\ client' = client /\ got' = got /\ pinned' = pinned /\ faults' = faults
  BY DEF ServerSend
<1>2. /\ l \in Nat /\ DOMAIN sent' = Ways
      /\ sent'.down = Upto(l + 1) /\ Len(sent'.down) = l + 1 /\ sent'.up = sent.up
      /\ \A v \in Ways : Len(sent'[v]) \in 0..MaxFrames /\ sent'[v] = Upto(Len(sent'[v]))
      /\ frame = Slice(2 * l, 2 * (l + 1))
  BY <1>1, SentIs
<1> HIDE DEF frame
<1>3. /\ DOMAIN server' = ServerFields /\ server'.sendCounter = server.sendCounter + RecordsOf(frame)
      /\ server'.ready = server.ready /\ server'.failed = server.failed
      /\ server'.inbox = server.inbox /\ server'.sendKey = server.sendKey
      /\ server'.recvKey = server.recvKey /\ server'.recvCounter = server.recvCounter
      /\ server'.recvInbox = server.recvInbox /\ server'.parser = server.parser
  BY <1>1 DEF ServerSound, ServerFields
<1>4. /\ stream'.down = stream.down \o Sealed(server'.sendKey, server.sendCounter, frame)
      /\ stream'.up = stream.up /\ DOMAIN stream' = Ways
  <2>1. server'.sendKey = server.sendKey
    BY <1>3
  <2> QED
    BY <1>1, <2>1 DEF Shape
<1>5. PICK x \in Int, y \in Int : x = 2 * l /\ y = 2 * (l + 1) /\ -1 <= x /\ x <= y
  BY <1>2
<1> HIDE DEF l
<1>6. Shape'
  BY <1>1, <1>2, <1>4 DEF Shape
<1>7. ClientSound'
  BY <1>1, <1>2 DEF ClientSound
<1>8. ServerSound'
  BY <1>1, <1>3 DEF ServerSound
<1>9. UpSide'
  BY <1>1, <1>2, <1>3, <1>4, UpStays
<1>10. DownSide'
  <2>1. ServerSealed = x /\ ServerSealed' = y
    BY <1>1, <1>2, <1>3, <1>5 DEF ServerSealed, l
  <2>2. frame = Slice(ServerSealed, ServerSealed')
    BY <1>2, <1>5, <2>1
  <2>3. ServerSealed \in Int /\ ServerSealed' \in Int /\ ServerSealed <= ServerSealed'
    BY <1>5, <2>1
  <2>4. server'.ready
    BY <1>1, <1>3
  <2> QED
    BY <1>1, <1>3, <1>4, <2>2, <2>3, <2>4, DownMoves
<1> QED
  BY <1>6, <1>7, <1>8, <1>9, <1>10

LEMMA ArriveIs ==
  ASSUME Shape, NEW w \in Ways, NEW plain, got' = [got EXCEPT ![w] = @ \o Parsed(plain)],
         NEW k \in Nat, Upto(Len(got[w])) \o Parsed(plain) = Upto(Len(got[w]) + k)
  PROVE  /\ DOMAIN got' = Ways /\ Len(got'[w]) = Len(got[w]) + k /\ got'[w] = Upto(Len(got[w]) + k)
         /\ \A v \in Ways : v # w => got'[v] = got[v]
         /\ \A v \in Ways : Len(got'[v]) \in Nat /\ got'[v] = Upto(Len(got'[v]))
<1>1. DOMAIN got = Ways /\ got[w] = Upto(Len(got[w])) /\ Len(got[w]) \in Nat
  BY DEF Shape
<1>2. PICK g \in Nat : g = Len(got[w]) /\ g + k \in Nat
  BY <1>1
<1>3. got'[w] = Upto(g + k) /\ DOMAIN got' = Ways /\ \A v \in Ways : v # w => got'[v] = got[v]
  BY <1>1, <1>2
<1>4. Len(got'[w]) = g + k
  BY <1>2, <1>3, UptoIs
<1>5. \A v \in Ways : v # w => Len(got'[v]) \in Nat /\ got'[v] = Upto(Len(got'[v]))
  BY <1>3 DEF Shape
<1> QED
  BY <1>2, <1>3, <1>4, <1>5

LEMMA ClientPumpStep ==
  ASSUME ChannelAssumption, StepInv, NEW n, ClientPump(n)
  PROVE  StepInv'
<1> USE DEF StepInv
<1> DEFINE taken == SubSeq(stream.down, 1, n)
           left == SubSeq(stream.down, n + 1, Len(stream.down))
           fed == ClientFed(taken)
           s == fed.state
           plain == s.parser \o fed.plain
           t == [s EXCEPT !.parser = Unparsed(plain)]
           releases == ~t.failed /\ Releases(t)
           data == IF releases THEN t.waiting ELSE <<>>
<1>1. /\ ~client.failed /\ n \in 1..Len(stream.down)
      /\ got' = [got EXCEPT !["down"] = @ \o Parsed(plain)]
      /\ client' = IF releases THEN Released(t) ELSE t
      /\ stream' = [up |-> stream.up \o (IF releases THEN Sealed(t.sendKey, t.sendCounter, t.waiting) ELSE <<>>),
                    down |-> left]
      /\ server' = server /\ sent' = sent /\ pinned' = pinned /\ faults' = faults
  BY DEF ClientPump, Arrive
<1>2. PICK ends : DownInv(ends) /\ (faults = 0 => DownExact(client, server, stream.down, ends))
  BY DEF DownSide
<1>3. Entries(taken, server.sendKey, ends, server.sendCounter)
  <2>1. Entries(stream.down, server.sendKey, ends, server.sendCounter)
    BY <1>2 DEF DownInv, DownHolds, Flow
  <2>2. Cut(stream.down, n, taken, left)
    BY <1>1, <2>1, CutIs DEF Entries
  <2> QED
    BY <2>1, <2>2 DEF Cut
<1>4. \E k \in Nat :
        /\ Upto(Len(got.down)) \o Parsed(plain) = Upto(Len(got.down) + k)
        /\ DownHolds(t, server, left, ServerSealed, Len(got.down) + k, ends)
        /\ Len(t.parser) < 2
        /\ faults = 0 => DownExact(t, server, left, ends)
  <2>1. faults = 0 => (server.ready => server.sendKey = DerivedKey("down", Hello[2], Ephemeral, "server"))
    BY DEF UpSide, UpExact, ServerExact
  <2> QED
    BY <1>1, <1>2, <2>1, DownTakes
<1> HIDE DEF taken, left, fed
<1>5. /\ DOMAIN s = ClientFields
      /\ s.haveKeys \in BOOLEAN /\ s.ready \in BOOLEAN /\ s.failed \in BOOLEAN
      /\ s.sendCounter = client.sendCounter /\ s.waiting = client.waiting /\ s.parser = client.parser
      /\ client.haveKeys => s.haveKeys /\ s.sendKey = client.sendKey
      /\ client.ready => s.ready
      /\ s.failed => s.ready = client.ready
      /\ Len(s.inbox) < 2 /\ Len(s.recvInbox) < 2
      /\ s.ready => s.haveKeys /\ pinned = "server"
      /\ s.haveKeys => s.inbox = <<>> /\ s.sendKey[1] = "up" /\ s.recvKey[4] = pinned
  <2>1. fed = ClientFed(taken)
    BY DEF fed
  <2> QED
    BY <1>1, <1>2, <1>3, <2>1, ClientFedIs
<1> HIDE DEF s, plain
<1>6. /\ DOMAIN t = ClientFields
      /\ t.haveKeys = s.haveKeys /\ t.ready = s.ready /\ t.failed = s.failed
      /\ t.inbox = s.inbox /\ t.sendKey = s.sendKey /\ t.sendCounter = s.sendCounter
      /\ t.recvKey = s.recvKey /\ t.recvCounter = s.recvCounter
      /\ t.recvInbox = s.recvInbox /\ t.waiting = s.waiting
  BY <1>5 DEF ClientFields
<1> HIDE DEF t
<1>7. PICK k \in Nat :
        /\ Upto(Len(got.down)) \o Parsed(plain) = Upto(Len(got.down) + k)
        /\ DownHolds(t, server, left, ServerSealed, Len(got.down) + k, ends)
        /\ Len(t.parser) < 2
        /\ faults = 0 => DownExact(t, server, left, ends)
  BY <1>4
<1>8. PICK x \in Int : x = 2 * Len(sent.up) /\ 0 <= x
  BY DEF Shape
<1>9. t.waiting = IF client.ready THEN <<>> ELSE Slice(0, x)
  BY <1>5, <1>6, <1>8 DEF ClientSound
<1>10. client.ready \in BOOLEAN /\ client.sendCounter \in Nat
  BY DEF ClientSound, UpSide, UpInv, UpHolds, Flow, Log
<1>11. data = IF t.ready /\ ~client.ready THEN Slice(0, x) ELSE <<>>
  <2>1. CASE releases
    <3>1. t.ready /\ t.waiting # <<>>
      BY <2>1 DEF Releases
    <3> QED
      BY <1>9, <2>1, <3>1
  <2>2. CASE ~releases
    <3>1. t.ready /\ ~client.ready => t.waiting = <<>>
      BY <1>5, <1>6, <2>2 DEF Releases
    <3> QED
      BY <1>9, <2>2, <3>1
  <2> QED
    BY <2>1, <2>2
<1>12. /\ DOMAIN client' = ClientFields
       /\ client'.waiting = (IF t.ready THEN <<>> ELSE Slice(0, x))
       /\ client'.sendCounter = client.sendCounter + RecordsOf(data)
       /\ client'.haveKeys = t.haveKeys /\ client'.ready = t.ready /\ client'.failed = t.failed
       /\ client'.inbox = t.inbox /\ client'.sendKey = t.sendKey
       /\ client'.recvKey = t.recvKey /\ client'.recvCounter = t.recvCounter
       /\ client'.recvInbox = t.recvInbox /\ client'.parser = t.parser
  <2>1. CASE releases
    <3>1. client' = Released(t) /\ t.ready /\ data = t.waiting
      BY <1>1, <2>1 DEF Releases
    <3>2. client'.waiting = <<>> /\ client'.sendCounter = t.sendCounter + RecordsOf(t.waiting)
          /\ Keeps(client', t, {"waiting", "sendCounter"})
      BY <1>6, <3>1, ReleasedIs
    <3>3. DOMAIN client' = ClientFields /\ \A f \in ClientFields \ {"waiting", "sendCounter"} : client'[f] = t[f]
      BY <1>6, <3>2 DEF Keeps
    <3>4. /\ client'.haveKeys = t.haveKeys /\ client'.ready = t.ready /\ client'.failed = t.failed
          /\ client'.inbox = t.inbox /\ client'.sendKey = t.sendKey
          /\ client'.recvKey = t.recvKey /\ client'.recvCounter = t.recvCounter
          /\ client'.recvInbox = t.recvInbox /\ client'.parser = t.parser
      BY <3>3 DEF ClientFields
    <3> QED
      BY <1>5, <1>6, <3>1, <3>2, <3>3, <3>4
  <2>2. CASE ~releases
    <3>1. client' = t /\ data = <<>>
      BY <1>1, <2>2
    <3>2. client.sendCounter = client.sendCounter + RecordsOf(<<>>)
      BY <1>10, SealedNone
    <3>3. t.ready => t.waiting = <<>>
      BY <1>9, <1>11, <3>1, <2>2, <1>5, <1>6 DEF Releases
    <3>4. ~t.ready => ~client.ready
      BY <1>5, <1>6
    <3> QED
      BY <1>5, <1>6, <1>9, <3>1, <3>2, <3>3, <3>4
  <2> QED
    BY <2>1, <2>2
<1>13. /\ DOMAIN stream' = Ways /\ stream'.down = left
       /\ stream'.up = stream.up \o Sealed(client'.sendKey, client.sendCounter, data)
  <2>1. DOMAIN stream' = Ways /\ stream'.down = left
        /\ stream'.up = stream.up \o (IF releases THEN Sealed(t.sendKey, t.sendCounter, t.waiting) ELSE <<>>)
    BY <1>1
  <2>2. CASE releases
    BY <1>5, <1>6, <1>12, <2>1, <2>2
  <2>3. CASE ~releases
    <3>1. Sealed(client'.sendKey, client.sendCounter, <<>>) = <<>>
      BY SealedNone
    <3> QED
      BY <2>1, <2>3, <3>1
  <2> QED
    BY <2>1, <2>2, <2>3
<1> HIDE DEF data, releases
<1>14. /\ DOMAIN got' = Ways /\ Len(got'.down) = Len(got.down) + k /\ got'.up = got.up
       /\ \A v \in Ways : Len(got'[v]) \in Nat /\ got'[v] = Upto(Len(got'[v]))
  BY <1>1, <1>7, ArriveIs
<1>15. Shape'
  BY <1>1, <1>13, <1>14 DEF Shape
<1>16. ClientSound'
  BY <1>1, <1>5, <1>6, <1>7, <1>8, <1>12 DEF ClientSound
<1>17. ServerSound'
  BY <1>1 DEF ServerSound
<1>18. UpSide'
  <2>1. ClientSealed = (IF client.ready THEN x ELSE 0) /\ ClientSealed' = (IF t.ready THEN x ELSE 0)
    BY <1>1, <1>8, <1>12 DEF ClientSealed
  <2>2. client.ready => t.ready
    BY <1>5, <1>6
  <2>3. data = Slice(ClientSealed, ClientSealed')
    <3>1. Slice(0, 0) = <<>> /\ Slice(x, x) = <<>>
      BY <1>8, SliceNone
    <3> QED
      BY <1>11, <2>1, <2>2, <3>1
  <2>4. ClientSealed \in Int /\ ClientSealed' \in Int /\ ClientSealed <= ClientSealed'
    BY <1>8, <2>1, <2>2
  <2>5. client'.sendKey = client.sendKey \/ client.sendCounter = 0
    <3>1. CASE client.haveKeys
      BY <1>5, <1>6, <1>12, <3>1
    <3>2. CASE ~client.haveKeys
      <4>1. ~client.ready
        BY <3>2 DEF ClientSound
      <4>2. client.sendCounter <= ClientSealed - 0
        BY DEF UpSide, UpInv, UpHolds, Flow, Log
      <4> QED
        BY <1>10, <2>1, <4>1, <4>2
    <3> QED
      BY <3>1, <3>2
  <2> QED
    BY <1>1, <1>12, <1>13, <1>14, <2>3, <2>4, <2>5, UpMoves
<1>19. DownSide'
  <2>1. ServerSealed' = ServerSealed
    BY <1>1 DEF ServerSealed
  <2>2. DownInv(ends)'
    BY <1>1, <1>7, <1>12, <1>13, <1>14, <2>1 DEF DownInv, DownHolds
  <2>3. faults' = 0 => DownExact(client, server, stream.down, ends)'
    <3>1. SUFFICES ASSUME faults = 0
                   PROVE  DownExact(client, server, stream.down, ends)'
      BY <1>1
    <3>2. DownExact(t, server, left, ends)
      BY <1>7, <3>1
    <3> QED
      BY <1>1, <1>12, <1>13, <3>2 DEF DownExact, ClientExact
  <2> QED
    BY <2>2, <2>3 DEF DownSide
<1> QED
  BY <1>15, <1>16, <1>17, <1>18, <1>19

\* The server answers the client's part with its own and the proof; or the same read
\* ends the session, and nothing is sent.
Replied(ends, c, s, d, units, longer, g) ==
  /\ \E more : DownHolds(c, d, units, 0, g, more)
  /\ \E more : /\ DownHolds(c, d, longer, 0, g, more)
               /\ DownExact(c, s, units, ends) /\ d.ready => DownExact(c, d, longer, more)

LEMMA DownReplies ==
  ASSUME ChannelAssumption, NEW log, NEW reader, NEW old, NEW line, NEW done, DownHolds(reader, old, line, -1, done, log),
         ~old.ready, NEW new, new.sendCounter = 1,
         NEW whole, whole = line \o (Ephemeral \o Sealed(new.sendKey, 0, Ready))
  PROVE  Replied(log, reader, old, new, line, whole, done)
<1> DEFINE base == line \o Ephemeral
           proof == Sealed(new.sendKey, old.sendCounter, Ready)
<1>1. Flow(log, old.sendKey, old.sendCounter, -1, -1, line, reader.inbox, reader.recvInbox, reader.recvCounter)
  BY DEF DownHolds
<1>2. old.sendCounter = 0
  <2>1. old.sendCounter \in Nat /\ old.sendCounter <= (-1) - (-1)
    BY <1>1 DEF Flow, Log
  <2> QED
    BY <2>1
<1>3. IsSeq(line)
  BY <1>1 DEF Flow, Entries
<1>4. Ready = Slice(-1, 0) /\ RecordsOf(Ready) = 1
  <2>1. Len(Ready) \in Nat /\ Len(Ready) = 1
    BY ReadyIs
  <2>2. /\ RecordsOf(Ready) \in Nat /\ RecordsOf(Ready) <= Len(Ready)
        /\ Len(Ready) > 0 => RecordsOf(Ready) > 0
    BY <2>1, RecordsBounds
  <2> QED
    BY <2>1, <2>2, ReadyIs
<1>5. PICK low \in Int, high \in Int : low = -1 /\ high = 0 /\ low <= high
  OBVIOUS
<1>6. new.sendCounter = old.sendCounter + RecordsOf(Ready)
  BY <1>2, <1>4
<1>7. \E more : DownHolds(reader, new, line, 0, done, more)
  <2>1. PICK other : other = line \o proof
    OBVIOUS
  <2>2. \E more : DownSealed(reader, old, new, line, other, high, done, log, more)
    BY <1>2, <1>4, <1>5, <1>6, <2>1, DownSeals
  <2> QED
    BY <1>5, <2>2 DEF DownSealed
<1>8. DownHolds(reader, old, base, low, done, log)
  <2>1. Entries(base, old.sendKey, log, old.sendCounter)
    BY <1>1, HandshakesAre, EntriesJoin DEF Flow
  <2> QED
    BY <1>1, <1>5, <2>1 DEF DownHolds, Flow
<1>9. IsSeq(proof)
  <2>1. \E k : Carries(Sealed(new.sendKey, old.sendCounter, Ready), new.sendKey, k, old.sendCounter, 1)
    <3>1. Log(log, old.sendCounter, low, low)
      BY <1>1, <1>5 DEF Flow
    <3>2. PICK one \in Nat : one = RecordsOf(Ready) /\ one = 1
      BY <1>4
    <3>3. Ready = Slice(low, high)
      BY <1>4, <1>5
    <3>4. \E more : /\ Log(more, old.sendCounter + one, low, high) /\ Extends(more, old.sendCounter + one, log, old.sendCounter)
                    /\ Carries(Sealed(new.sendKey, old.sendCounter, Ready), new.sendKey, more, old.sendCounter, one)
      BY <1>5, <3>1, <3>2, <3>3, SealedIs
    <3> QED
      BY <3>2, <3>4
  <2> QED
    BY <2>1 DEF Carries
<1>10. whole = base \o proof
  <2>1. proof = Sealed(new.sendKey, 0, Ready)
    BY <1>2
  <2> HIDE DEF proof
  <2> QED
    BY <1>3, <1>9, <2>1, HandshakesAre, JoinThree
<1> HIDE DEF base
<1>11. \E more : DownSealed(reader, old, new, base, whole, high, done, log, more)
  <2>1. whole = base \o Sealed(new.sendKey, old.sendCounter, Ready)
    BY <1>10
  <2>2. Ready = Slice(low, high)
    BY <1>4, <1>5
  <2> HIDE DEF proof
  <2> QED
    BY <1>2, <1>5, <1>6, <1>8, <2>1, <2>2, DownSeals
<1>12. PICK more : DownSealed(reader, old, new, base, whole, high, done, log, more)
  BY <1>11
<1>13. DownHolds(reader, new, whole, 0, done, more)
  BY <1>5, <1>12 DEF DownSealed
<1>14. ASSUME DownExact(reader, old, line, log), new.ready
       PROVE  DownExact(reader, new, whole, more)
  <2>1. line = <<>> /\ ClientExact(reader, old.sendKey, log, 0)
    <3>1. PICK l \in Nat : l = Len(line)
      BY <1>3, LenAny
    <3>2. 0 - Len(line) \in Nat /\ ClientExact(reader, old.sendKey, log, 0 - Len(line))
      BY <1>14 DEF DownExact
    <3>3. l = 0 /\ Len(line) = 0 /\ 0 - Len(line) = 0
      BY <3>1, <3>2
    <3>4. line = <<>>
      BY <1>3, <3>3, NoneAny
    <3> QED
      BY <3>2, <3>3, <3>4
  <2>2. base = Ephemeral
    BY <2>1, HandshakesAre, NoneAny DEF base
  <2>3. At(base, Ephemeral, old.sendKey, log, 0) /\ 0 + Len(base) = 2 + 2 * old.sendCounter
    <3>1. 0 + 2 = 2 + 2 * 0
      OBVIOUS
    <3> QED
      BY <1>2, <2>2, <3>1, HandshakesAre
  <2>4. \A next \in Nat :
          next + Len(base) = 2 + 2 * old.sendCounter /\ At(base, Ephemeral, old.sendKey, log, next)
          /\ ClientExact(reader, old.sendKey, log, next) /\ new.ready
            => DownExact(reader, new, whole, more)
    BY <1>12 DEF DownSealed
  <2>5. 0 \in Nat
    OBVIOUS
  <2> QED
    BY <1>14, <2>1, <2>3, <2>4, <2>5
<1> QED
  BY <1>7, <1>13, <1>14 DEF Replied

LEMMA ServerPumpStep ==
  ASSUME ChannelAssumption, StepInv, NEW n, ServerPump(n)
  PROVE  StepInv'
<1> USE DEF StepInv
<1> DEFINE taken == SubSeq(stream.up, 1, n)
           left == SubSeq(stream.up, n + 1, Len(stream.up))
           fed == ServerFed(taken)
           s == fed.state
           plain == s.parser \o fed.plain
           t == [s EXCEPT !.parser = Unparsed(plain)]
           replies == s.ready /\ ~server.ready /\ ~s.failed
           reply == Ephemeral \o Sealed(s.sendKey, 0, Ready)
<1>1. /\ ~server.failed /\ n \in 1..Len(stream.up)
      /\ got' = [got EXCEPT !["up"] = @ \o Parsed(plain)]
      /\ server' = t
      /\ stream' = [up |-> left, down |-> stream.down \o (IF replies THEN reply ELSE <<>>)]
      /\ client' = client /\ sent' = sent /\ pinned' = pinned /\ faults' = faults
  BY DEF ServerPump, Arrive, ServerReply
<1>2. PICK ends : UpInv(ends) /\ (faults = 0 => UpExact(client, server, stream.up, ends))
  BY DEF UpSide
<1>3. Entries(taken, client.sendKey, ends, client.sendCounter)
  <2>1. Entries(stream.up, client.sendKey, ends, client.sendCounter)
    BY <1>2 DEF UpInv, UpHolds, Flow
  <2>2. Cut(stream.up, n, taken, left)
    BY <1>1, <2>1, CutIs DEF Entries
  <2> QED
    BY <2>1, <2>2 DEF Cut
<1>4. \E k \in Nat :
        /\ Upto(Len(got.up)) \o Parsed(plain) = Upto(Len(got.up) + k)
        /\ UpHolds(client, t, left, ClientSealed, Len(got.up) + k, ends)
        /\ Len(t.parser) < 2
        /\ faults = 0 => UpExact(client, t, left, ends)
  <2>1. faults = 0 => (client.haveKeys => client.sendKey = DerivedKey("up", Hello[2], Ephemeral, pinned))
    BY DEF DownSide, DownExact, ClientExact
  <2> QED
    BY <1>1, <1>2, <2>1, UpTakes
<1> HIDE DEF taken, left, fed
<1>5. /\ DOMAIN s = ServerFields /\ s.ready \in BOOLEAN /\ s.failed \in BOOLEAN
      /\ s.parser = server.parser
      /\ server.ready => s.ready /\ s.sendCounter = server.sendCounter /\ s.sendKey = server.sendKey
      /\ ~s.ready =>
           /\ s.sendCounter = server.sendCounter /\ s.sendKey = server.sendKey
           /\ s.recvCounter = server.recvCounter
      /\ ~server.ready /\ s.ready => s.sendCounter = 1 /\ s.sendKey[1] = "down" /\ s.sendKey[4] = "server"
      /\ Len(s.inbox) < 2 /\ Len(s.recvInbox) < 2
  <2>1. fed = ServerFed(taken)
    BY DEF fed
  <2> QED
    BY <1>1, <1>2, <1>3, <2>1, ServerFedIs
<1> HIDE DEF s, plain
<1>6. /\ DOMAIN t = ServerFields
      /\ t.ready = s.ready /\ t.failed = s.failed
      /\ t.inbox = s.inbox /\ t.sendKey = s.sendKey /\ t.sendCounter = s.sendCounter
      /\ t.recvKey = s.recvKey /\ t.recvCounter = s.recvCounter /\ t.recvInbox = s.recvInbox
  BY <1>5 DEF ServerFields
<1> HIDE DEF t
<1>7. PICK k \in Nat :
        /\ Upto(Len(got.up)) \o Parsed(plain) = Upto(Len(got.up) + k)
        /\ UpHolds(client, t, left, ClientSealed, Len(got.up) + k, ends)
        /\ Len(t.parser) < 2
        /\ faults = 0 => UpExact(client, t, left, ends)
  BY <1>4
<1>8. /\ DOMAIN got' = Ways /\ Len(got'.up) = Len(got.up) + k /\ got'.down = got.down
      /\ \A v \in Ways : Len(got'[v]) \in Nat /\ got'[v] = Upto(Len(got'[v]))
  BY <1>1, <1>7, ArriveIs
<1>9. /\ DOMAIN stream' = Ways /\ stream'.up = left
      /\ stream'.down = stream.down \o (IF replies THEN reply ELSE <<>>)
  BY <1>1
<1> HIDE DEF replies, reply
<1>10. Shape'
  BY <1>1, <1>8, <1>9 DEF Shape
<1>11. ClientSound'
  BY <1>1 DEF ClientSound
<1>12. ServerSound'
  <2>1. server.ready \in BOOLEAN /\ (server.ready => server.sendKey[1] = "down" /\ server.sendKey[4] = "server")
    BY DEF ServerSound
  <2>2. ~s.ready => sent.down = <<>> /\ s.recvCounter = 0
    BY <1>5, <2>1 DEF ServerSound
  <2> QED
    BY <1>1, <1>5, <1>6, <1>7, <2>1, <2>2 DEF ServerSound
<1>13. UpSide'
  <2>1. ClientSealed' = ClientSealed
    BY <1>1 DEF ClientSealed
  <2>2. UpInv(ends)'
    BY <1>1, <1>7, <1>8, <1>9, <2>1 DEF UpInv
  <2>3. faults' = 0 => UpExact(client, server, stream.up, ends)'
    BY <1>1, <1>7, <1>9
  <2> QED
    BY <2>2, <2>3 DEF UpSide
<1>14. PICK log : DownInv(log) /\ (faults = 0 => DownExact(client, server, stream.down, log))
  BY DEF DownSide
<1>15. IsSeq(stream.down)
  BY <1>14 DEF DownInv, DownHolds, Flow, Entries
<1>16. DownSide'
  <2>1. CASE t.ready = server.ready
    <3>1. t.sendCounter = server.sendCounter /\ t.sendKey = server.sendKey
      BY <1>5, <1>6, <2>1 DEF ServerSound
    <3>2. stream'.down = stream.down
      BY <1>6, <1>9, <1>15, <2>1, NoneAny DEF replies
    <3>3. ServerSealed' = ServerSealed
      BY <1>1, <2>1 DEF ServerSealed
    <3>4. DownInv(log)'
      BY <1>1, <1>8, <1>14, <3>1, <3>2, <3>3 DEF DownInv, DownHolds
    <3>5. faults' = 0 => DownExact(client, server, stream.down, log)'
      <4>1. SUFFICES ASSUME faults = 0
                     PROVE  DownExact(client, server, stream.down, log)'
        BY <1>1
      <4>2. DownExact(client, server, stream.down, log)
        BY <1>14, <4>1
      <4> QED
        BY <1>1, <2>1, <3>1, <3>2, <4>2 DEF DownExact, ClientExact
    <3> QED
      BY <3>4, <3>5 DEF DownSide
  <2>2. CASE t.ready /\ ~server.ready
    <3>1. ServerSealed = -1 /\ ServerSealed' = 0
      <4>1. sent.down = <<>>
        BY <2>2 DEF ServerSound
      <4>2. Len(sent'.down) = 0
        BY <1>1, <4>1, NoneAny
      <4> QED
        BY <1>1, <2>2, <4>2 DEF ServerSealed
    <3>2. PICK whole : whole = stream.down \o (Ephemeral \o Sealed(t.sendKey, 0, Ready))
      OBVIOUS
    <3>3. DownHolds(client, server, stream.down, -1, Len(got.down), log)
      BY <1>14, <3>1 DEF DownInv
    <3>4. t.sendCounter = 1
      BY <1>5, <1>6, <2>2
    <3>5. Replied(log, client, server, t, stream.down, whole, Len(got.down))
      BY <2>2, <3>2, <3>3, <3>4, DownReplies
    <3>6. CASE t.failed
      <4>1. stream'.down = stream.down
        BY <1>6, <1>9, <1>15, <3>6, NoneAny DEF replies
      <4>2. PICK more : DownHolds(client, t, stream.down, 0, Len(got.down), more)
        BY <3>5 DEF Replied
      <4>3. DownInv(more)'
        BY <1>1, <1>8, <3>1, <4>1, <4>2 DEF DownInv
      <4>4. faults # 0
        BY <1>7, <3>6 DEF UpExact, ServerExact
      <4> QED
        BY <1>1, <4>3, <4>4 DEF DownSide
    <3>7. CASE ~t.failed
      <4>1. stream'.down = whole
        BY <1>6, <1>9, <2>2, <3>2, <3>7 DEF replies, reply
      <4>2. PICK more : /\ DownHolds(client, t, whole, 0, Len(got.down), more)
                        /\ DownExact(client, server, stream.down, log) /\ t.ready => DownExact(client, t, whole, more)
        BY <3>5 DEF Replied
      <4>3. DownInv(more)'
        BY <1>1, <1>8, <3>1, <4>1, <4>2 DEF DownInv
      <4>4. faults' = 0 => DownExact(client, server, stream.down, more)'
        <5>1. SUFFICES ASSUME faults = 0
                       PROVE  DownExact(client, server, stream.down, more)'
          BY <1>1
        <5>2. DownExact(client, t, whole, more)
          BY <1>14, <2>2, <4>2, <5>1
        <5> QED
          BY <1>1, <4>1, <5>2 DEF DownExact, ClientExact
      <4> QED
        BY <4>3, <4>4 DEF DownSide
    <3> QED
      BY <3>6, <3>7
  <2> QED
    BY <1>5, <1>6, <2>1, <2>2 DEF ServerSound
<1> QED
  BY <1>10, <1>11, <1>12, <1>13, <1>16

\* A fault puts no record on the way that was not sealed.
LEMMA HarmedEntries ==
  ASSUME NEW line, NEW lock, NEW log, NEW count, Entries(line, lock, log, count),
         NEW i \in 1..Len(line), NEW j \in i..Len(line),
         NEW units \in {<<>>, <<Damaged>>, SubSeq(line, i, j) \o SubSeq(line, i, j)}
  PROVE  Entries(SubSeq(line, 1, i - 1) \o units \o SubSeq(line, j + 1, Len(line)), lock, log, count)
<1>1. IsSeq(line) /\ Len(line) \in Nat
  BY LenAny DEF Entries
<1>2. PICK l \in Nat, m \in Nat \ {0}, k \in Nat \ {0} : l = Len(line) /\ m = i /\ k = j /\ m <= k /\ k <= l
  BY <1>1
<1>3. Entries(SubSeq(line, i, j), lock, log, count)
  <2>1. m \in 1..Len(line) + 1 /\ k \in m - 1..Len(line)
    BY <1>2
  <2>2. Entries(SubSeq(line, m, k), lock, log, count)
    BY <2>1, EntriesPart
  <2> QED
    BY <1>2, <2>2
<1>4. Entries(SubSeq(line, 1, i - 1), lock, log, count)
  <2>1. PICK f \in 1..Len(line) + 1, g \in 0..Len(line) : f = 1 /\ g = i - 1 /\ g \in f - 1..Len(line)
    BY <1>2
  <2>2. Entries(SubSeq(line, f, g), lock, log, count)
    BY <2>1, EntriesPart
  <2> QED
    BY <2>1, <2>2
<1>5. Entries(SubSeq(line, j + 1, Len(line)), lock, log, count)
  <2>1. PICK f \in 1..Len(line) + 1, g \in 0..Len(line) : f = j + 1 /\ g = Len(line) /\ g \in f - 1..Len(line)
    <3>1. k + 1 \in 1..l + 1 /\ l \in 0..l /\ l \in (k + 1) - 1..l
      BY <1>2
    <3> QED
      BY <1>2, <3>1
  <2>2. Entries(SubSeq(line, f, g), lock, log, count)
    BY <2>1, EntriesPart
  <2> QED
    BY <2>1, <2>2
<1>6. Entries(<<Damaged>>, lock, log, count)
  <2>1. <<Damaged>> \in Seq({Damaged}) /\ Len(<<Damaged>>) = 1 /\ <<Damaged>>[1] = Damaged
    OBVIOUS
  <2>2. Damaged.kind # "rest"
    BY DEF Damaged, Unit
  <2> DEFINE one == <<Damaged>>
  <2> HIDE DEF one
  <2>3. IsSeq(one) /\ Len(one) = 1 /\ one[1] = Damaged
    BY <2>1 DEF one, IsSeq
  <2>4. \A x \in 1..Len(one) : one[x] = Damaged
    BY <2>3
  <2>5. Entries(one, lock, log, count)
    BY <2>2, <2>3, <2>4 DEF Entries, Entry
  <2> QED
    BY <2>5 DEF one
<1>7. Entries(units, lock, log, count)
  <2>1. Entries(SubSeq(line, i, j) \o SubSeq(line, i, j), lock, log, count)
    BY <1>3, EntriesJoin
  <2> QED
    BY <1>6, <2>1, EntriesNone
<1>8. Entries(SubSeq(line, 1, i - 1) \o units, lock, log, count)
  BY <1>4, <1>7, EntriesJoin
<1> QED
  BY <1>5, <1>8, EntriesJoin

LEMMA FaultStep ==
  ASSUME ChannelAssumption, StepInv, NEW w \in Ways, NEW i, Fault(w, i)
  PROVE  StepInv'
<1> USE DEF StepInv
<1>1. PICK j \in i..Len(stream[w]) :
        \E units \in {<<>>, <<Damaged>>, SubSeq(stream[w], i, j) \o SubSeq(stream[w], i, j)} :
          stream' = [stream EXCEPT ![w] = SubSeq(@, 1, i - 1) \o units \o SubSeq(@, j + 1, Len(@))]
  BY DEF Fault
<1>2. PICK units \in {<<>>, <<Damaged>>, SubSeq(stream[w], i, j) \o SubSeq(stream[w], i, j)} :
        stream' = [stream EXCEPT ![w] = SubSeq(@, 1, i - 1) \o units \o SubSeq(@, j + 1, Len(@))]
  BY <1>1
<1>3. /\ faults < MaxFaults /\ faults' = faults + 1 /\ i \in 1..Len(stream[w])
      /\ client' = client /\ server' = server /\ sent' = sent /\ got' = got /\ pinned' = pinned
  BY DEF Fault
<1>4. /\ DOMAIN stream' = Ways
      /\ stream'[w] = SubSeq(stream[w], 1, i - 1) \o units \o SubSeq(stream[w], j + 1, Len(stream[w]))
      /\ \A v \in Ways : v # w => stream'[v] = stream[v]
  BY <1>2 DEF Shape
<1>5. \A key, ends, n : \A v \in Ways : Entries(stream[v], key, ends, n) => Entries(stream'[v], key, ends, n)
  <2>1. ASSUME NEW key, NEW ends, NEW n, Entries(stream[w], key, ends, n)
        PROVE  Entries(stream'[w], key, ends, n)
    BY <1>1, <1>2, <1>3, <1>4, <2>1, HarmedEntries, ZenonT(60)
  <2> QED
    BY <1>4, <2>1
<1>6. faults' \in 0..MaxFaults /\ faults' # 0
  BY <1>3 DEF Shape, ChannelAssumption
<1>7. Shape'
  BY <1>3, <1>4, <1>6 DEF Shape
<1>8. ClientSound'
  BY <1>3 DEF ClientSound
<1>9. ServerSound'
  BY <1>3 DEF ServerSound
<1>10. ClientSealed' = ClientSealed /\ ServerSealed' = ServerSealed
  BY <1>3 DEF ClientSealed, ServerSealed
<1>11. UpSide'
  <2>1. PICK ends : UpInv(ends)
    BY DEF UpSide
  <2>2. "up" \in Ways
    BY DEF Ways
  <2>3. Entries(stream'.up, client.sendKey, ends, client.sendCounter)
    BY <1>5, <2>1, <2>2 DEF UpInv, UpHolds, Flow
  <2>4. UpInv(ends)'
    BY <1>3, <1>10, <2>1, <2>3 DEF UpInv, UpHolds, Flow
  <2> QED
    BY <1>6, <2>4 DEF UpSide
<1>12. DownSide'
  <2>1. PICK ends : DownInv(ends)
    BY DEF DownSide
  <2>2. "down" \in Ways
    BY DEF Ways
  <2>3. Entries(stream'.down, server.sendKey, ends, server.sendCounter)
    BY <1>5, <2>1, <2>2 DEF DownInv, DownHolds, Flow
  <2>4. DownInv(ends)'
    BY <1>3, <1>10, <2>1, <2>3 DEF DownInv, DownHolds, Flow
  <2> QED
    BY <1>6, <2>4 DEF DownSide
<1> QED
  BY <1>7, <1>8, <1>9, <1>11, <1>12

LEMMA StutterStep ==
  ASSUME StepInv, UNCHANGED vars
  PROVE  StepInv'
<1> USE DEF StepInv, vars
<1>1. Shape'
  BY DEF Shape
<1>2. ClientSound'
  BY DEF ClientSound
<1>3. ServerSound'
  BY DEF ServerSound
<1>4. ClientSealed' = ClientSealed /\ ServerSealed' = ServerSealed
  BY DEF ClientSealed, ServerSealed
<1>5. UpSide'
  BY <1>4 DEF UpSide, UpInv, UpHolds, UpExact, ServerExact
<1>6. DownSide'
  BY <1>4 DEF DownSide, DownInv, DownHolds, DownExact, ClientExact
<1> QED
  BY <1>1, <1>2, <1>3, <1>5, <1>6

LEMMA LogZero ==
  ASSUME NEW from \in Int, NEW ends, ends = [i \in 0..0 |-> from]
  PROVE  ends[0] = from /\ Log(ends, 0, from, from)
<1>1. ends \in [0..0 -> Int] /\ \A i \in 0..0 : ends[i] = from
  OBVIOUS
<1>2. ends[0] = from /\ 0 <= from - from
  BY <1>1
<1>3. \A i, j \in 0..0 : ~(i < j)
  OBVIOUS
<1>4. Log(ends, 0, from, from)
  BY <1>1, <1>2, <1>3 DEF Log
<1> QED
  BY <1>2, <1>4

LEMMA FirstState ==
  ASSUME ChannelAssumption, Init
  PROVE  StepInv
<1>1. Slice(0, 0) = <<>> /\ Len(<<>>) = 0 /\ IsSeq(<<>>)
  BY SliceNone, NoneAny
<1>2. /\ DOMAIN client = ClientFields /\ ~client.haveKeys /\ ~client.ready /\ ~client.failed
      /\ client.haveKeys \in BOOLEAN /\ client.ready \in BOOLEAN /\ client.failed \in BOOLEAN
      /\ client.inbox = <<>> /\ client.recvInbox = <<>> /\ client.waiting = <<>> /\ client.parser = <<>>
      /\ client.sendCounter = 0 /\ client.recvCounter = 0
  BY DEF Init, ClientFields
<1>3. /\ DOMAIN server = ServerFields /\ ~server.ready /\ ~server.failed
      /\ server.ready \in BOOLEAN /\ server.failed \in BOOLEAN
      /\ server.inbox = <<>> /\ server.recvInbox = <<>> /\ server.parser = <<>>
      /\ server.sendCounter = 0 /\ server.recvCounter = 0
  BY DEF Init, ServerFields
<1>4. /\ DOMAIN stream = Ways /\ stream.up = Hello /\ stream.down = <<>>
      /\ DOMAIN sent = Ways /\ DOMAIN got = Ways
      /\ sent.up = <<>> /\ sent.down = <<>> /\ got.up = <<>> /\ got.down = <<>>
      /\ \A w \in Ways : sent[w] = <<>> /\ got[w] = <<>>
      /\ pinned \in {"server", "other"} /\ faults = 0
  <2>1. stream = [up |-> Hello, down |-> <<>>] /\ sent = [w \in Ways |-> <<>>] /\ got = [w \in Ways |-> <<>>]
        /\ pinned \in {"server", "other"} /\ faults = 0
    BY DEF Init
  <2>2. DOMAIN stream = Ways /\ stream.up = Hello /\ stream.down = <<>>
    BY <2>1 DEF Ways
  <2>3. "up" \in Ways /\ "down" \in Ways
    BY DEF Ways
  <2> QED
    BY <2>1, <2>2, <2>3
<1>5. Shape
  <2>1. Upto(0) = <<>>
    <3>1. IsSeq(Upto(0)) /\ Len(Upto(0)) = 0
      <4>1. 0 \in Nat
        OBVIOUS
      <4> QED
        BY <4>1, UptoIs
    <3> QED
      BY <3>1, NoneAny
  <2>2. 0 \in 0..MaxFrames /\ 0 \in 0..MaxFaults
    BY DEF ChannelAssumption
  <2> QED
    BY <1>1, <1>4, <2>1, <2>2 DEF Shape
<1>6. ClientSound
  <2>1. 2 * Len(sent.up) = 0
    BY <1>1, <1>4
  <2> QED
    BY <1>1, <1>2, <2>1 DEF ClientSound
<1>7. ServerSound
  BY <1>1, <1>3, <1>4 DEF ServerSound
<1>8. UpSide
  <2> DEFINE ends == [i \in 0..0 |-> 0]
  <2>7. PICK only : only = [i \in 0..0 |-> 0]
    OBVIOUS
  <2>1. ends[0] = 0 /\ Log(ends, 0, 0, 0)
    <3>1. only[0] = 0 /\ Log(only, 0, 0, 0)
      BY <2>7, LogZero
    <3> QED
      BY <2>7, <3>1
  <2> HIDE DEF ends
  <2>2. ClientSealed = 0
    BY <1>2 DEF ClientSealed
  <2>3. Flow(ends, client.sendKey, 0, 0, 0, Hello, <<>>, <<>>, 0)
    BY <2>1, HandshakesAre, EntriesNone DEF Flow
  <2>4. Passed(0, <<>>, 0)
    BY <1>1 DEF Passed
  <2>5. UpInv(ends)
    BY <1>1, <1>2, <1>3, <1>4, <2>1, <2>2, <2>3, <2>4 DEF UpInv, UpHolds
  <2>6. UpExact(client, server, stream.up, ends)
    <3>1. (2 + 2 * client.sendCounter) - Len(stream.up) = 0
      BY <1>2, <1>4, HandshakesAre
    <3>2. At(stream.up, Hello, client.sendKey, ends, 0)
      BY <1>4, HandshakesAre
    <3>3. ServerExact(server, client.sendKey, ends, 0)
      BY <1>1, <1>3, AtNone DEF ServerExact
    <3> QED
      BY <3>1, <3>2, <3>3 DEF UpExact
  <2> QED
    BY <2>5, <2>6 DEF UpSide
<1>9. DownSide
  <2>0. PICK low \in Int : low = -1
    OBVIOUS
  <2> DEFINE ends == [i \in 0..0 |-> low]
  <2>7. PICK only : only = [i \in 0..0 |-> low]
    OBVIOUS
  <2>1. ends[0] = low /\ Log(ends, 0, low, low)
    <3>1. only[0] = low /\ Log(only, 0, low, low)
      BY <2>7, LogZero
    <3> QED
      BY <2>7, <3>1
  <2> HIDE DEF ends
  <2>2. ServerSealed = low
    BY <1>3, <2>0 DEF ServerSealed
  <2>3. Flow(ends, server.sendKey, 0, low, low, <<>>, <<>>, <<>>, 0)
    BY <2>1, EntriesNone DEF Flow
  <2>5. DownInv(ends)
    BY <1>1, <1>2, <1>3, <1>4, <2>0, <2>2, <2>3 DEF DownInv, DownHolds
  <2>6. DownExact(client, server, stream.down, ends)
    <3>4. Len(stream.down) = 0
      BY <1>1, <1>4
    <3>1. 0 - Len(stream.down) = 0 /\ ~server.ready
      BY <1>3, <3>4
    <3>2. At(stream.down, Ephemeral, server.sendKey, ends, 0)
      BY <1>4, AtNone
    <3>3. ClientExact(client, server.sendKey, ends, 0)
      BY <1>1, <1>2, AtNone DEF ClientExact
    <3> QED
      BY <3>1, <3>2, <3>3 DEF DownExact
  <2> QED
    BY <2>5, <2>6 DEF DownSide
<1> QED
  BY <1>5, <1>6, <1>7, <1>8, <1>9 DEF StepInv

LEMMA NextStep ==
  ASSUME ChannelAssumption, StepInv, [Next]_vars
  PROVE  StepInv'
<1>1. CASE ClientSend
  BY <1>1, ClientSendStep
<1>2. CASE ServerSend
  BY <1>2, ServerSendStep
<1>3. CASE ClientReads
  BY <1>3, ClientPumpStep DEF ClientReads
<1>4. CASE ServerReads
  BY <1>4, ServerPumpStep DEF ServerReads
<1>5. CASE \E w \in Ways : \E i \in 1..Len(stream[w]) : Fault(w, i)
  BY <1>5, FaultStep
<1>6. CASE UNCHANGED vars
  BY <1>6, StutterStep
<1> QED
  BY <1>1, <1>2, <1>3, <1>4, <1>5, <1>6 DEF Next

\* In every state of the connection both ways hold together.
THEOREM StepsKeep == Spec => []StepInv
<1>1. Init => StepInv
  BY ChannelAssumption, FirstState
<1>2. StepInv /\ [Next]_vars => StepInv'
  BY ChannelAssumption, NextStep
<1> QED
  BY <1>1, <1>2, PTL DEF Spec

-----------------------------------------------------------------------------
(***************************************************************************)
(* What follows for the properties.                                        *)
(***************************************************************************)
\* The rests are at the even positions after the handshake.
LEMMA RestThere ==
  ASSUME NEW hand, NEW key, NEW ends, NEW k \in Nat, k >= 2, NEW u, u = UnitAt(hand, key, ends, 2 * k)
  PROVE  u.kind = "rest" /\ u.key = key /\ u.number = k - 2
<1>1. PICK p \in Nat, q \in Nat : p = 2 * k /\ q = k - 1 /\ p % 2 = 0 /\ (p - 1) \div 2 = q /\ ~(p <= 2)
  OBVIOUS
<1>2. UnitAt(hand, key, ends, p) = Rest(key, q - 1, Slice(ends[q - 1], ends[q]))
  <2>1. 0 # 1
    OBVIOUS
  <2> QED
    BY <1>1, <2>1 DEF UnitAt
<1>3. q - 1 = k - 2
  BY <1>1
<1> QED
  BY <1>1, <1>2, <1>3 DEF Rest

LEMMA RestsEven ==
  ASSUME NEW hand, hand[1].kind # "rest", hand[2].kind # "rest", NEW key, NEW ends,
         NEW p \in Nat \ {0}, UnitAt(hand, key, ends, p).kind = "rest"
  PROVE  \E k \in Nat : p = 2 * k /\ k >= 2
<1>1. ~(p <= 2)
  <2>1. p <= 2 => p = 1 \/ p = 2
    OBVIOUS
  <2>2. p <= 2 => UnitAt(hand, key, ends, p) = hand[p]
    BY DEF UnitAt
  <2> QED
    BY <2>1, <2>2
<1>2. p % 2 # 1
  <2>1. SUFFICES ASSUME p % 2 = 1
                 PROVE  FALSE
    OBVIOUS
  <2>2. PICK q : UnitAt(hand, key, ends, p) = Length(ends[q] - ends[q - 1])
    BY <1>1, <2>1 DEF UnitAt
  <2>3. UnitAt(hand, key, ends, p).kind = "length"
    BY <2>2 DEF Length
  <2> QED
    BY <2>3
<1>3. PICK k \in Nat : k = p \div 2 /\ p = 2 * k
  BY <1>2
<1> QED
  BY <1>1, <1>3

\* After the handshake and so many records, and perhaps the next one's length, this is
\* what is on its way up to the last.
Between(line, from, extra, upto, place) ==
  /\ from \in Nat /\ upto \in Nat /\ extra \in {0, 1}
  /\ place = 2 + 2 * from + extra /\ place + Len(line) = 2 + 2 * upto

LEMMA NumbersAre ==
  ASSUME NEW line, IsSeq(line), NEW first, first[1].kind # "rest", first[2].kind # "rest",
         NEW lock, NEW log, NEW place \in Nat, At(line, first, lock, log, place),
         NEW from, NEW extra, NEW upto, Between(line, from, extra, upto, place)
  PROVE  Numbers(line) = from..upto - 1
<1>0. /\ from \in Nat /\ upto \in Nat /\ extra \in {0, 1}
      /\ place = 2 + 2 * from + extra /\ place + Len(line) = 2 + 2 * upto
  BY DEF Between
<1>1. PICK l \in Nat : l = Len(line)
  BY LenAny
<1>2. \A i \in 1..l : line[i] = UnitAt(first, lock, log, place + i)
  BY <1>1 DEF At
<1>3. RestsIn(line) = {i \in 1..l : line[i].kind = "rest"}
  BY <1>1 DEF RestsIn
<1>4. ASSUME NEW i \in RestsIn(line)
      PROVE  line[i].number \in from..upto - 1
  <2>1. i \in 1..l /\ line[i].kind = "rest"
    BY <1>3
  <2>2. PICK p \in Nat \ {0} : p = place + i
    BY <1>0, <2>1
  <2>3. UnitAt(first, lock, log, p).kind = "rest" /\ line[i] = UnitAt(first, lock, log, p)
    BY <1>2, <2>1, <2>2
  <2>4. PICK k \in Nat : p = 2 * k /\ k >= 2
    BY <2>3, RestsEven
  <2>5. line[i].number = k - 2
    BY <2>3, <2>4, RestThere
  <2>6. from <= k - 2 /\ k - 2 <= upto - 1
    BY <1>0, <1>1, <2>1, <2>2, <2>4
  <2> QED
    BY <1>0, <2>4, <2>5, <2>6
<1>5. ASSUME NEW x \in from..upto - 1
      PROVE  \E i \in RestsIn(line) : x = line[i].number
  <2>1. PICK k \in Nat : k = x + 2 /\ k >= 2
    BY <1>0
  <2>2. PICK i \in Int : i = 2 * k - place
    BY <1>0, <2>1
  <2>3. i \in 1..l
    BY <1>0, <1>1, <2>1, <2>2
  <2>4. place + i = 2 * k
    BY <1>0, <2>1, <2>2
  <2>5. line[i] = UnitAt(first, lock, log, 2 * k)
    BY <1>2, <2>3, <2>4
  <2>6. line[i].kind = "rest" /\ line[i].number = k - 2
    <3>1. PICK u : u = UnitAt(first, lock, log, 2 * k)
      OBVIOUS
    <3>3. k \in Nat /\ k >= 2
      BY <2>1
    <3>2. u.kind = "rest" /\ u.key = lock /\ u.number = k - 2
      BY <3>1, <3>3, RestThere
    <3> QED
      BY <2>5, <3>1, <3>2
  <2> QED
    BY <1>3, <2>1, <2>3, <2>6
<1>6. Numbers(line) = {line[i].number : i \in RestsIn(line)}
  BY DEF Numbers
<1> QED
  BY <1>4, <1>5, <1>6

LEMMA HandsHoldNoRest ==
  /\ Hello[1].kind # "rest" /\ Hello[2].kind # "rest"
  /\ Ephemeral[1].kind # "rest" /\ Ephemeral[2].kind # "rest"
<1>1. /\ Hello[1] = Unit("magic") /\ Hello[2] = Unit("client key")
      /\ Ephemeral[1] = Unit("server key") /\ Ephemeral[2] = Unit("server key's rest")
  BY DEF Hello, Ephemeral
<1>2. /\ Unit("magic").kind # "rest" /\ Unit("client key").kind # "rest"
      /\ Unit("server key").kind # "rest" /\ Unit("server key's rest").kind # "rest"
  BY DEF Unit
<1> QED
  BY <1>1, <1>2

LEMMA TypeHolds ==
  ASSUME ChannelAssumption, StepInv
  PROVE  TypeOK
<1> USE DEF StepInv
<1>1. PICK m \in Nat : m = MaxFrames
  BY DEF ChannelAssumption
<1>2. Len(sent.up) \in 0..m /\ Len(sent.down) \in 0..m
  BY <1>1 DEF Shape
<1>3. client.sendCounter \in Nat /\ client.sendCounter <= ClientSealed - 0
  BY DEF UpSide, UpInv, UpHolds, Flow, Log
<1>4. server.sendCounter \in Nat /\ server.sendCounter <= ServerSealed - (-1)
  BY DEF DownSide, DownInv, DownHolds, Flow, Log
<1>5. ClientSealed \in Nat /\ ClientSealed <= 2 * m
  BY <1>2 DEF ClientSealed
<1>6. ServerSealed \in Int /\ ServerSealed <= 2 * m
  BY <1>2 DEF ServerSealed
<1>7. client.sendCounter \in 0..2 * MaxFrames + 1 /\ server.sendCounter \in 0..2 * MaxFrames + 1
  BY <1>1, <1>3, <1>4, <1>5, <1>6
<1>8. \A e \in {client, server} : Len(e.inbox) < 2 /\ Len(e.recvInbox) < 2 /\ Len(e.parser) < 2
  BY DEF ClientSound, ServerSound
<1>9. client.ready => client.haveKeys /\ client.waiting = <<>>
  BY DEF ClientSound
<1>10. faults \in 0..MaxFaults
  BY DEF Shape
<1> QED
  BY <1>7, <1>8, <1>9, <1>10 DEF TypeOK

LEMMA WrongServerHolds ==
  ASSUME StepInv
  PROVE  WrongServerNothing
<1> USE DEF StepInv
<1>1. SUFFICES ASSUME pinned # "server"
               PROVE  ~client.ready /\ client.sendCounter = 0 /\ got.up = <<>> /\ got.down = <<>>
  BY DEF WrongServerNothing
<1>2. ~client.ready
  BY <1>1 DEF ClientSound
<1>3. ClientSealed = 0
  BY <1>2 DEF ClientSealed
<1>4. PICK ends : /\ Log(ends, client.sendCounter, 0, 0) /\ server.recvCounter \in 0..client.sendCounter
                  /\ Passed(Len(got.up), server.parser, ends[server.recvCounter])
  BY <1>3 DEF UpSide, UpInv, UpHolds, Flow
<1>5. client.sendCounter = 0
  <2>1. client.sendCounter \in Nat /\ client.sendCounter <= 0 - 0
    BY <1>4 DEF Log
  <2> QED
    BY <2>1
<1>6. server.recvCounter = 0 /\ ends[0] = 0
  BY <1>4, <1>5 DEF Log
<1>7. Len(got.up) \in Nat /\ Len(got.down) \in Nat /\ got.up = Upto(Len(got.up)) /\ got.down = Upto(Len(got.down))
  BY DEF Shape
<1>8. Len(got.up) = 0
  <2>1. 2 * Len(got.up) <= 0
    BY <1>4, <1>6 DEF Passed
  <2> QED
    BY <1>7, <2>1
<1>9. Len(got.down) = 0
  BY <1>2 DEF DownSide, DownInv, DownHolds
<1>10. Upto(0) = <<>>
  <2>1. 0 \in Nat
    OBVIOUS
  <2>2. IsSeq(Upto(0)) /\ Len(Upto(0)) = 0
    BY <2>1, UptoIs
  <2> QED
    BY <2>2, NoneAny
<1> QED
  BY <1>2, <1>5, <1>7, <1>8, <1>9, <1>10

LEMMA CountersHold ==
  ASSUME StepInv
  PROVE  CountersMeet
<1> USE DEF StepInv
<1>1. SUFFICES ASSUME faults = 0, pinned = "server"
               PROVE  /\ ~client.failed /\ ~server.failed
                      /\ client.haveKeys => Numbers(stream.down) = client.recvCounter..server.sendCounter - 1
                      /\ server.ready => Numbers(stream.up) = server.recvCounter..client.sendCounter - 1
  BY DEF CountersMeet, Unharmed
<1>2. PICK ends : UpInv(ends) /\ UpExact(client, server, stream.up, ends)
  BY <1>1 DEF UpSide
<1>3. PICK log : DownInv(log) /\ DownExact(client, server, stream.down, log)
  BY <1>1 DEF DownSide
<1>4. /\ IsSeq(stream.up) /\ IsSeq(server.recvInbox) /\ client.sendCounter \in Nat /\ server.recvCounter \in Nat
  BY <1>2 DEF UpInv, UpHolds, Flow, Log, Entries
<1>5. /\ IsSeq(stream.down) /\ IsSeq(client.recvInbox) /\ server.sendCounter \in Nat /\ client.recvCounter \in Nat
  BY <1>3 DEF DownInv, DownHolds, Flow, Log, Entries
<1>6. ~client.failed
  BY <1>1, <1>3 DEF DownExact, ClientExact
<1>7. ~server.failed
  BY <1>2 DEF UpExact, ServerExact
<1>8. ASSUME client.haveKeys
      PROVE  Numbers(stream.down) = client.recvCounter..server.sendCounter - 1
  <2>1. PICK b \in {0, 1} : b = Len(client.recvInbox)
    <3>1. Len(client.recvInbox) \in Nat /\ Len(client.recvInbox) < 2
      BY <1>5, LenAny DEF ClientSound
    <3>2. PICK x \in Nat : x = Len(client.recvInbox) /\ x < 2
      BY <3>1
    <3>3. \A m \in Nat : m < 2 => m = 0 \/ m = 1
      OBVIOUS
    <3> QED
      BY <3>2, <3>3
  <2>2. PICK l \in Nat, r \in Nat, n \in Nat : l = Len(stream.down) /\ r = client.recvCounter /\ n = server.sendCounter
    BY <1>5, LenAny
  <2>3. PICK next \in Nat : /\ next = (IF server.ready THEN 2 + 2 * n ELSE 0) - l
                            /\ At(stream.down, Ephemeral, server.sendKey, log, next)
                            /\ next = 2 + 2 * r + b
    BY <1>3, <1>6, <1>8, <2>1, <2>2 DEF DownExact, ClientExact
  <2>4. next = (2 + 2 * n) - l
    <3>1. next = 0 - l => next <= 0
      BY <2>2
    <3>2. next > 0
      BY <2>1, <2>2, <2>3
    <3> QED
      BY <2>3, <3>1, <3>2
  <2>5. next + l = 2 + 2 * n
    BY <2>4
  <2>6. next + Len(stream.down) = 2 + 2 * n
    BY <2>2, <2>5
  <2>8. Between(stream.down, r, b, n, next)
    BY <2>3, <2>6 DEF Between
  <2>7. Numbers(stream.down) = r..n - 1
    BY <1>5, <2>3, <2>8, HandsHoldNoRest, NumbersAre
  <2> QED
    BY <2>2, <2>7
<1>9. ASSUME server.ready
      PROVE  Numbers(stream.up) = server.recvCounter..client.sendCounter - 1
  <2>1. PICK b \in {0, 1} : b = Len(server.recvInbox)
    <3>1. Len(server.recvInbox) \in Nat /\ Len(server.recvInbox) < 2
      BY <1>4, LenAny DEF ServerSound
    <3>2. PICK x \in Nat : x = Len(server.recvInbox) /\ x < 2
      BY <3>1
    <3>3. \A m \in Nat : m < 2 => m = 0 \/ m = 1
      OBVIOUS
    <3> QED
      BY <3>2, <3>3
  <2>2. PICK l \in Nat, r \in Nat, n \in Nat : l = Len(stream.up) /\ r = server.recvCounter /\ n = client.sendCounter
    BY <1>4, LenAny
  <2>3. PICK next \in Nat : /\ next = (2 + 2 * n) - l
                            /\ At(stream.up, Hello, client.sendKey, ends, next)
                            /\ next = 2 + 2 * r + b
    BY <1>2, <1>9, <2>1, <2>2 DEF UpExact, ServerExact
  <2>5. next + l = 2 + 2 * n
    BY <2>3
  <2>6. next + Len(stream.up) = 2 + 2 * n
    BY <2>2, <2>5
  <2>8. Between(stream.up, r, b, n, next)
    BY <2>3, <2>6 DEF Between
  <2>7. Numbers(stream.up) = r..n - 1
    BY <1>4, <2>3, <2>8, HandsHoldNoRest, NumbersAre
  <2> QED
    BY <2>2, <2>7
<1> QED
  BY <1>6, <1>7, <1>8, <1>9

\* In one line of units as they were sent no number is twice.
LEMMA LineOnce ==
  ASSUME NEW line, NEW hand, hand[1].kind # "rest", hand[2].kind # "rest",
         NEW lock, NEW log, NEW next \in Nat, At(line, hand, lock, log, next), Len(line) \in Nat,
         NEW i \in RestsIn(line), NEW j \in RestsIn(line), i # j
  PROVE  line[i].number # line[j].number
<1>1. i \in 1..Len(line) /\ j \in 1..Len(line) /\ line[i].kind = "rest" /\ line[j].kind = "rest"
  BY DEF RestsIn
<1>2. PICK p \in Nat \ {0}, q \in Nat \ {0} : p = next + i /\ q = next + j /\ p # q
  BY <1>1
<1>3. line[i] = UnitAt(hand, lock, log, p) /\ line[j] = UnitAt(hand, lock, log, q)
  BY <1>1, <1>2 DEF At
<1>11. UnitAt(hand, lock, log, p).kind = "rest" /\ UnitAt(hand, lock, log, q).kind = "rest"
  BY <1>1, <1>3
<1>4. \E k \in Nat : p = 2 * k /\ k >= 2
  BY <1>11, RestsEven
<1>5. \E k \in Nat : q = 2 * k /\ k >= 2
  BY <1>11, RestsEven
<1>6. PICK x \in Nat : p = 2 * x /\ x >= 2
  BY <1>4
<1>7. PICK y \in Nat : q = 2 * y /\ y >= 2
  BY <1>5
<1>8. line[i] = UnitAt(hand, lock, log, 2 * x) /\ line[j] = UnitAt(hand, lock, log, 2 * y)
  BY <1>3, <1>6, <1>7
<1>9. line[i].number = x - 2 /\ line[j].number = y - 2
  <2>1. x \in Nat /\ x >= 2 /\ y \in Nat /\ y >= 2
    BY <1>6, <1>7
  <2> QED
    BY <1>8, <2>1, RestThere
<1>10. x - 2 # y - 2
  BY <1>2, <1>6, <1>7
<1> QED
  BY <1>9, <1>10

LEMMA NumbersHold ==
  ASSUME StepInv
  PROVE  NumbersOnce
<1> USE DEF StepInv
<1>1. SUFFICES ASSUME faults = 0, NEW w \in Ways, NEW v \in Ways,
                      NEW i \in RestsIn(stream[w]), NEW j \in RestsIn(stream[v]), <<w, i>> # <<v, j>>
               PROVE  <<stream[w][i].key, stream[w][i].number>> # <<stream[v][j].key, stream[v][j].number>>
  BY DEF NumbersOnce
<1>2. PICK ends : UpInv(ends) /\ UpExact(client, server, stream.up, ends)
  BY <1>1 DEF UpSide
<1>3. PICK log : DownInv(log) /\ DownExact(client, server, stream.down, log)
  BY <1>1 DEF DownSide
<1>4. Entries(stream.up, client.sendKey, ends, client.sendCounter) /\ Len(stream.up) \in Nat
  <2>1. Entries(stream.up, client.sendKey, ends, client.sendCounter)
    BY <1>2 DEF UpInv, UpHolds, Flow
  <2> QED
    BY <2>1, LenAny DEF Entries
<1>5. Entries(stream.down, server.sendKey, log, server.sendCounter) /\ Len(stream.down) \in Nat
  <2>1. Entries(stream.down, server.sendKey, log, server.sendCounter)
    BY <1>3 DEF DownInv, DownHolds, Flow
  <2> QED
    BY <2>1, LenAny DEF Entries
<1>6. ASSUME NEW x \in RestsIn(stream.up)
      PROVE  stream.up[x].key[1] = "up"
  <2>1. stream.up[x].key = client.sendKey /\ stream.up[x].number \in 0..client.sendCounter - 1
    BY <1>4 DEF RestsIn, Entries, Entry
  <2>2. client.sendCounter \in Nat /\ client.sendCounter <= ClientSealed - 0
    BY <1>2 DEF UpInv, UpHolds, Flow, Log
  <2>3. ClientSealed # 0
    BY <2>1, <2>2
  <2>4. client.haveKeys
    BY <2>3 DEF ClientSealed, ClientSound
  <2> QED
    BY <2>1, <2>4 DEF ClientSound
<1>7. ASSUME NEW x \in RestsIn(stream.down)
      PROVE  stream.down[x].key[1] = "down"
  <2>1. stream.down[x].key = server.sendKey /\ stream.down[x].number \in 0..server.sendCounter - 1
    BY <1>5 DEF RestsIn, Entries, Entry
  <2>2. server.sendCounter \in Nat /\ server.sendCounter <= ServerSealed - (-1)
    BY <1>3 DEF DownInv, DownHolds, Flow, Log
  <2>3. ServerSealed # -1
    BY <2>1, <2>2
  <2>4. server.ready
    BY <2>3 DEF ServerSealed
  <2> QED
    BY <2>1, <2>4 DEF ServerSound
<1>8. CASE w = v
  <2>1. i # j
    BY <1>1, <1>8
  <2>2. CASE w = "up"
    <3>1. PICK next \in Nat : At(stream.up, Hello, client.sendKey, ends, next)
      BY <1>2 DEF UpExact
    <3>2. i \in RestsIn(stream.up) /\ j \in RestsIn(stream.up)
      BY <1>8, <2>2
    <3>3. stream.up[i].number # stream.up[j].number
      BY <1>4, <2>1, <3>1, <3>2, HandsHoldNoRest, LineOnce
    <3> QED
      BY <1>8, <2>2, <3>3
  <2>3. CASE w = "down"
    <3>1. PICK next \in Nat : At(stream.down, Ephemeral, server.sendKey, log, next)
      BY <1>3 DEF DownExact
    <3>2. i \in RestsIn(stream.down) /\ j \in RestsIn(stream.down)
      BY <1>8, <2>3
    <3>3. stream.down[i].number # stream.down[j].number
      BY <1>5, <2>1, <3>1, <3>2, HandsHoldNoRest, LineOnce
    <3> QED
      BY <1>8, <2>3, <3>3
  <2> QED
    BY <2>2, <2>3
<1>9. CASE w # v
  <2>1. stream[w][i].key[1] = w /\ stream[v][j].key[1] = v
    BY <1>6, <1>7
  <2> QED
    BY <1>9, <2>1
<1> QED
  BY <1>8, <1>9

\* What every read and every send keeps at both ends, whatever happens to the stream:
\* the counters meet while nothing is harmed, no number is used twice with a key, and a
\* client with the wrong server sends and takes nothing (ChannelInv).
THEOREM ChannelCorrect == Spec => []ChannelInv
<1>1. StepInv => ChannelInv
  BY ChannelAssumption, TypeHolds, CountersHold, NumbersHold, WrongServerHolds DEF ChannelInv
<1> QED
  BY <1>1, StepsKeep, PTL

-----------------------------------------------------------------------------
(***************************************************************************)
(* The connection implements a stream of frames each way.                  *)
(***************************************************************************)
\* What an end gets continues what it has.
LEMMA ClientGets ==
  ASSUME StepInv, NEW n, ClientPump(n)
  PROVE  \E k \in Nat : got' = [got EXCEPT !["down"] = Upto(Len(got["down"]) + k)]
<1> USE DEF StepInv
<1> DEFINE left == SubSeq(stream.down, n + 1, Len(stream.down))
           fed == ClientFed(SubSeq(stream.down, 1, n))
           plain == fed.state.parser \o fed.plain
           t == [fed.state EXCEPT !.parser = Unparsed(plain)]
<1>1. /\ ~client.failed /\ n \in 1..Len(stream.down)
      /\ got' = [got EXCEPT !["down"] = @ \o Parsed(plain)]
  BY DEF ClientPump, Arrive
<1>2. PICK ends : DownInv(ends) /\ (faults = 0 => DownExact(client, server, stream.down, ends))
  BY DEF DownSide
<1>3. faults = 0 => (server.ready => server.sendKey = DerivedKey("down", Hello[2], Ephemeral, "server"))
  BY DEF UpSide, UpExact, ServerExact
<1>4. \E k \in Nat :
        /\ Upto(Len(got.down)) \o Parsed(plain) = Upto(Len(got.down) + k)
        /\ DownHolds(t, server, left, ServerSealed, Len(got.down) + k, ends)
        /\ Len(t.parser) < 2
        /\ faults = 0 => DownExact(t, server, left, ends)
  BY <1>1, <1>2, <1>3, DownTakes
<1> HIDE DEF plain, t, left
<1>5. got.down = Upto(Len(got.down))
  BY DEF Shape
<1> QED
  BY <1>1, <1>4, <1>5

LEMMA ServerGets ==
  ASSUME StepInv, NEW n, ServerPump(n)
  PROVE  \E k \in Nat : got' = [got EXCEPT !["up"] = Upto(Len(got["up"]) + k)]
<1> USE DEF StepInv
<1> DEFINE left == SubSeq(stream.up, n + 1, Len(stream.up))
           fed == ServerFed(SubSeq(stream.up, 1, n))
           plain == fed.state.parser \o fed.plain
           t == [fed.state EXCEPT !.parser = Unparsed(plain)]
<1>1. /\ ~server.failed /\ n \in 1..Len(stream.up)
      /\ got' = [got EXCEPT !["up"] = @ \o Parsed(plain)]
  BY DEF ServerPump, Arrive
<1>2. PICK ends : UpInv(ends) /\ (faults = 0 => UpExact(client, server, stream.up, ends))
  BY DEF UpSide
<1>3. faults = 0 => (client.haveKeys => client.sendKey = DerivedKey("up", Hello[2], Ephemeral, pinned))
  BY DEF DownSide, DownExact, ClientExact
<1>4. \E k \in Nat :
        /\ Upto(Len(got.up)) \o Parsed(plain) = Upto(Len(got.up) + k)
        /\ UpHolds(client, t, left, ClientSealed, Len(got.up) + k, ends)
        /\ Len(t.parser) < 2
        /\ faults = 0 => UpExact(client, t, left, ends)
  BY <1>1, <1>2, <1>3, UpTakes
<1> HIDE DEF plain, t, left
<1>5. got.up = Upto(Len(got.up))
  BY DEF Shape
<1> QED
  BY <1>1, <1>4, <1>5

\* Nobody gets more than was sent.
LEMMA NoMoreThanSent ==
  ASSUME StepInv, NEW w \in Ways
  PROVE  Len(got[w]) <= Len(sent[w])
<1> USE DEF StepInv
<1>1. PICK u \in Nat, d \in Nat, x \in Nat, y \in Nat :
        u = Len(sent.up) /\ d = Len(sent.down) /\ x = Len(got.up) /\ y = Len(got.down)
  BY DEF Shape
<1>2. x <= u
  <2>1. PICK ends, n : /\ Log(ends, n, 0, ClientSealed) /\ server.recvCounter \in 0..n
                       /\ Passed(x, server.parser, ends[server.recvCounter])
    BY <1>1 DEF UpSide, UpInv, UpHolds, Flow
  <2>2. PICK e \in Int : e = ends[server.recvCounter] /\ e <= ClientSealed
    BY <2>1, LogBounds
  <2>3. 2 * x <= e
    BY <2>1, <2>2 DEF Passed
  <2>4. ClientSealed \in Nat /\ ClientSealed <= 2 * u
    BY <1>1 DEF ClientSealed
  <2> QED
    BY <2>2, <2>3, <2>4
<1>3. y <= d
  <2>1. PICK ends, n : /\ Log(ends, n, -1, ServerSealed) /\ client.recvCounter \in 0..n
                       /\ IF client.ready THEN Passed(y, client.parser, ends[client.recvCounter]) ELSE y = 0
    BY <1>1 DEF DownSide, DownInv, DownHolds, Flow
  <2>2. PICK e \in Int : e = ends[client.recvCounter] /\ e <= ServerSealed
    BY <2>1, LogBounds
  <2>3. client.ready => 2 * y <= e
    BY <2>1, <2>2 DEF Passed
  <2>4. ServerSealed \in Int /\ ServerSealed <= 2 * d
    BY <1>1 DEF ServerSealed
  <2> QED
    BY <2>1, <2>2, <2>3, <2>4
<1> QED
  BY <1>1, <1>2, <1>3

LEMMA UptoPart ==
  ASSUME NEW m \in Nat, NEW n \in 0..m
  PROVE  SubSeq(Upto(m), 1, n) = Upto(n)
<1> DEFINE s == Upto(m)
<1>1. IsSeq(s) /\ Len(s) = m /\ \A i \in 1..m : s[i] = i
  BY UptoIs
<1>2. IsSeq(Upto(n)) /\ Len(Upto(n)) = n /\ \A i \in 1..n : Upto(n)[i] = i
  BY UptoIs
<1> HIDE DEF s
<1>3. PICK f \in 1..Len(s) + 1, g \in 0..Len(s) : f = 1 /\ g = n /\ g \in f - 1..Len(s)
  BY <1>1
<1>4. /\ IsSeq(SubSeq(s, f, g)) /\ Len(SubSeq(s, f, g)) = g - f + 1
      /\ \A i \in 1..g - f + 1 : SubSeq(s, f, g)[i] = s[f + i - 1]
  BY <1>1, <1>3, PartAny
<1>5. g - f + 1 = n /\ \A i \in 1..n : f + i - 1 = i
  BY <1>3
<1>6. Len(SubSeq(s, f, g)) = n /\ \A i \in 1..n : SubSeq(s, f, g)[i] = i
  BY <1>1, <1>4, <1>5
<1>7. SubSeq(s, f, g) = Upto(n)
  BY <1>2, <1>4, <1>6, SameAny
<1> QED
  BY <1>3, <1>7 DEF s

\* What arrived is a function of the way.
GotByWay == got = [w \in Ways |-> got[w]]

LEMMA GotKept == Spec => []GotByWay
<1>1. Init => GotByWay
  BY DEF Init, GotByWay
<1>2. ASSUME GotByWay, [Next]_vars
      PROVE  GotByWay'
  <2>1. got' = got => GotByWay'
    BY <1>2 DEF GotByWay
  <2>2. ASSUME NEW w \in Ways, NEW plain, Arrive(w, plain)
        PROVE  GotByWay'
    BY <1>2, <2>2 DEF Arrive, GotByWay
  <2>3. CASE ClientReads
    BY <2>2, <2>3 DEF ClientReads, ClientPump
  <2>4. CASE ServerReads
    BY <2>2, <2>4 DEF ServerReads, ServerPump
  <2> QED
    BY <1>2, <2>1, <2>3, <2>4 DEF Next, vars, ClientSend, ServerSend, Fault
<1> QED
  BY <1>1, <1>2, PTL DEF Spec

\* What an end gets is an arrival, or nothing.
LEMMA Arrives ==
  ASSUME GotByWay, StepInv, StepInv', sent' = sent, NEW w \in Ways,
         \E k \in Nat : got' = [got EXCEPT ![w] = Upto(Len(got[w]) + k)]
  PROVE  Stream!Arrive(w) \/ got' = got
<1>1. PICK k \in Nat : got' = [got EXCEPT ![w] = Upto(Len(got[w]) + k)]
  OBVIOUS
<1>2. PICK g \in Nat, m \in Nat : g = Len(got[w]) /\ m = Len(sent[w]) /\ sent[w] = Upto(m) /\ got[w] = Upto(g)
  BY DEF StepInv, Shape
<1>3. DOMAIN got = Ways /\ got' = [got EXCEPT ![w] = Upto(g + k)] /\ got'[w] = Upto(g + k)
  BY <1>1, <1>2 DEF StepInv, Shape
<1>4. Len(got'[w]) <= m
  <2>1. (Len(got[w]) <= Len(sent[w]))'
    BY NoMoreThanSent, PTL
  <2> QED
    BY <1>2, <2>1
<1>5. Len(got'[w]) = g + k
  <2>1. g + k \in Nat
    OBVIOUS
  <2> QED
    BY <1>3, <2>1, UptoIs
<1>6. PICK n \in Nat : n = g + k /\ n \in 0..m
  BY <1>4, <1>5
<1>7. CASE k = 0
  <2>1. g + k = g
    BY <1>7
  <2>2. got' = [got EXCEPT ![w] = got[w]]
    BY <1>2, <1>3, <2>1
  <2> QED
    BY <2>2 DEF GotByWay
<1>8. CASE k # 0
  <2>4. n \in g + 1..m
    BY <1>6, <1>8
  <2>1. n \in Len(got[w]) + 1..Len(sent[w])
    BY <1>2, <2>4
  <2>2. SubSeq(sent[w], 1, n) = Upto(n)
    BY <1>2, <1>6, UptoPart
  <2>3. got' = [got EXCEPT ![w] = SubSeq(sent[w], 1, n)]
    BY <1>3, <1>6, <2>2
  <2> QED
    BY <2>1, <2>3 DEF Stream!Arrive
<1> QED
  BY <1>7, <1>8

\* One frame more, at the abstract end.
LEMMA Sends ==
  ASSUME ChannelAssumption, StepInv, NEW w \in Ways, Len(sent[w]) < MaxFrames,
         sent' = [sent EXCEPT ![w] = Append(@, Len(@) + 1)], got' = got
  PROVE  Stream!Send(w)
<1>1. Len(sent[w]) + 1 \in 1..MaxFrames
  <2>1. Len(sent[w]) \in 0..MaxFrames /\ MaxFrames \in Nat
    BY DEF StepInv, Shape, ChannelAssumption
  <2> QED
    BY <2>1
<1> QED
  BY <1>1 DEF Stream!Send

\* Over a stream that loses, repeats or damages what it carries, the connection is a
\* stream of frames each way (ImplementsStream).
THEOREM StreamRefinement == Spec => ImplementsStream
<1>1. Init => Stream!Init
  BY DEF Init, Stream!Init, Stream!Ways
<1>2. GotByWay /\ StepInv /\ StepInv' /\ [Next]_vars => [Stream!Next]_<<sent, got>>
  <2> SUFFICES ASSUME GotByWay, StepInv, StepInv', [Next]_vars
               PROVE  [Stream!Next]_<<sent, got>>
    OBVIOUS
  <2>1. Ways = Stream!Ways /\ "up" \in Ways /\ "down" \in Ways
    BY DEF Stream!Ways
  <2>2. CASE ClientSend
    <3>1. Stream!Send("up")
      BY <2>1, <2>2, ChannelAssumption, Sends DEF ClientSend
    <3> QED
      BY <2>1, <3>1 DEF Stream!Next
  <2>3. CASE ServerSend
    <3>1. Stream!Send("down")
      BY <2>1, <2>3, ChannelAssumption, Sends DEF ServerSend
    <3> QED
      BY <2>1, <3>1 DEF Stream!Next
  <2>4. CASE ClientReads
    <3>1. \E k \in Nat : got' = [got EXCEPT !["down"] = Upto(Len(got["down"]) + k)]
      BY <2>4, ClientGets DEF ClientReads
    <3>2. sent' = sent
      BY <2>4 DEF ClientReads, ClientPump
    <3>3. Stream!Arrive("down") \/ got' = got
      BY <2>1, <3>1, <3>2, Arrives
    <3> QED
      BY <2>1, <3>2, <3>3 DEF Stream!Next
  <2>5. CASE ServerReads
    <3>1. \E k \in Nat : got' = [got EXCEPT !["up"] = Upto(Len(got["up"]) + k)]
      BY <2>5, ServerGets DEF ServerReads
    <3>2. sent' = sent
      BY <2>5 DEF ServerReads, ServerPump
    <3>3. Stream!Arrive("up") \/ got' = got
      BY <2>1, <3>1, <3>2, Arrives
    <3> QED
      BY <2>1, <3>2, <3>3 DEF Stream!Next
  <2>6. CASE \E w \in Ways : \E i \in 1..Len(stream[w]) : Fault(w, i)
    BY <2>6 DEF Fault
  <2>7. CASE UNCHANGED vars
    BY <2>7 DEF vars
  <2> QED
    BY <2>2, <2>3, <2>4, <2>5, <2>6, <2>7 DEF Next
<1> QED
  BY <1>1, <1>2, StepsKeep, GotKept, PTL DEF Spec, ImplementsStream, Stream!Spec
=============================================================================
