--------------------------- MODULE ArchiveProofs ---------------------------
(* Facts about tables, for every table: what the queries of module Archive *)
(* return on tables that are finite and dense.                             *)
EXTENDS Archive, FiniteSetTheorems, SequenceTheorems, TLAPS

\* A set of naturals that is not empty has a least element.
LEMMA LeastExists ==
    ASSUME NEW S \in SUBSET Nat, S # {}
    PROVE  \E x \in S : \A y \in S : x <= y
<1>1. \E x \in S : \A y \in S : <<y, x>> \notin OpToRel(<, Nat)
  BY NatLessThanWellFounded, WFMin
<1>2. \A x, y \in Nat : x < y => <<x, y>> \in OpToRel(<, Nat)
  BY DEF OpToRel
<1>3. \E x \in S : \A y \in S : ~ (y < x)
  BY <1>1, <1>2, Zenon
<1> QED BY <1>3

\* Min picks an element of such a set, a lower bound of it.
LEMMA MinProperty ==
    ASSUME NEW S \in SUBSET Nat, S # {}
    PROVE  Min(S) \in S /\ \A y \in S : Min(S) <= y
  BY LeastExists DEF Min

\* A finite set of naturals has an upper bound, so Max picks its greatest element.
LEMMA GreatestExists ==
    ASSUME NEW S \in SUBSET Nat, S # {}, NEW b \in Nat, \A x \in S : x <= b
    PROVE  \E x \in S : \A y \in S : x >= y
<1> DEFINE Above == {u \in Nat : \A x \in S : x <= u}
<1>1. b \in Above
  OBVIOUS
<1>2. PICK u \in Above : \A v \in Above : u <= v
  <2> Above \in SUBSET Nat /\ Above # {} BY <1>1
  <2> HIDE DEF Above
  <2> QED BY LeastExists
<1>3. u \in S
  <2>1. SUFFICES ASSUME u \notin S PROVE FALSE
    OBVIOUS
  <2>2. \A x \in S : x <= u - 1
    BY <2>1
  <2>3. PICK x \in S : TRUE
    OBVIOUS
  <2>4. u - 1 \in Nat
    BY <2>2, <2>3
  <2> QED BY <1>2, <2>2, <2>4
<1> QED BY <1>2, <1>3

----------------------------------------------------------------------------
(* Watermarks *)

\* A finite table has finitely many sequence numbers of an origin.
LEMMA SeqsFinite ==
    ASSUME NEW table \in SUBSET Record, IsFiniteSet(table), NEW o
    PROVE  Seqs(table, o) \in SUBSET Nat /\ IsFiniteSet(Seqs(table, o))
<1> DEFINE f == [r \in OfOrigin(table, o) |-> r.seq]
<1>1. IsFiniteSet(OfOrigin(table, o))
  BY FS_Subset DEF OfOrigin
<1>2. f \in Surjection(OfOrigin(table, o), Seqs(table, o))
  BY DEF Surjection, Seqs
<1>3. IsFiniteSet(Seqs(table, o))
  BY <1>1, <1>2, FS_Surjection
<1>4. Seqs(table, o) \in SUBSET Nat
  BY DEF Seqs, OfOrigin, Record
<1> QED BY <1>3, <1>4

\* A dense table has no sequence number above the number of its records.
LEMMA DenseBounded ==
    ASSUME NEW table \in SUBSET Record, IsFiniteSet(table), Dense(table),
           NEW o, NEW r \in OfOrigin(table, o)
    PROVE  /\ Cardinality(Seqs(table, o)) \in Nat
           /\ r.seq <= Cardinality(Seqs(table, o))
<1>1. Cardinality(Seqs(table, o)) \in Nat
  BY SeqsFinite, FS_CardinalityType
<1>2. r \in table /\ r.origin = o /\ r.seq \in Nat \ {0}
  BY DEF OfOrigin, Record
<1>3. 1..r.seq \in SUBSET Seqs(table, o)
  BY <1>2 DEF Dense, Has, Seqs, OfOrigin
<1>4. Cardinality(1..r.seq) = r.seq
  BY <1>2, FS_Interval
<1>5. Cardinality(1..r.seq) <= Cardinality(Seqs(table, o))
  BY <1>3, SeqsFinite, FS_Subset
<1> QED BY <1>1, <1>4, <1>5

\* The watermark of a bounded table is its highest sequence number of the origin.
LEMMA WatermarkBounded ==
    ASSUME NEW table \in SUBSET Record, NEW o, NEW b \in Nat,
           \A r \in OfOrigin(table, o) : r.seq <= b
    PROVE  /\ Watermark(table, o) \in Nat
           /\ \A r \in OfOrigin(table, o) : r.seq <= Watermark(table, o)
           /\ Watermark(table, o) = 0 \/ Has(table, o, Watermark(table, o))
<1> DEFINE S == {0} \cup Seqs(table, o)
<1>1. S \in SUBSET Nat /\ S # {} /\ \A q \in S : q <= b
  BY DEF Seqs, OfOrigin, Record
<1>2. Watermark(table, o) = Max(S)
  BY DEF Watermark
<1> HIDE DEF S
<1>3. Max(S) \in S /\ \A y \in S : Max(S) >= y
  BY <1>1, GreatestExists DEF Max
<1> USE DEF S
<1>4. \A r \in OfOrigin(table, o) : r.seq \in S
  BY DEF Seqs
<1>5. Max(S) = 0 \/ Has(table, o, Max(S))
  BY <1>3 DEF Seqs, OfOrigin, Has
<1> HIDE DEF S
<1> QED BY <1>1, <1>2, <1>3, <1>4, <1>5

\* So is the watermark of any part of a finite dense table.
LEMMA WatermarkOfPart ==
    ASSUME NEW table \in SUBSET Record, IsFiniteSet(table), Dense(table),
           NEW part \in SUBSET table, NEW o
    PROVE  /\ Watermark(part, o) \in Nat
           /\ \A r \in OfOrigin(part, o) : r.seq <= Watermark(part, o)
           /\ Watermark(part, o) = 0 \/ Has(part, o, Watermark(part, o))
<1> DEFINE b == Cardinality(Seqs(table, o))
<1>1. b \in Nat
  BY SeqsFinite, FS_CardinalityType
<1>2. \A r \in OfOrigin(part, o) : r \in OfOrigin(table, o)
  BY DEF OfOrigin
<1>3. \A r \in OfOrigin(table, o) : r.seq <= b
  BY DenseBounded
<1>4. part \in SUBSET Record
  OBVIOUS
<1> HIDE DEF b
<1> QED BY <1>1, <1>2, <1>3, <1>4, WatermarkBounded

\* In a finite dense table the watermark says which records are held.
LEMMA DenseWatermark ==
    ASSUME NEW table \in SUBSET Record, IsFiniteSet(table), Dense(table), NEW o
    PROVE  /\ Watermark(table, o) \in Nat
           /\ Seqs(table, o) = 1..Watermark(table, o)
<1>1. /\ Watermark(table, o) \in Nat
      /\ \A r \in OfOrigin(table, o) : r.seq <= Watermark(table, o)
      /\ Watermark(table, o) = 0 \/ Has(table, o, Watermark(table, o))
  BY WatermarkOfPart
<1>2. Seqs(table, o) \subseteq 1..Watermark(table, o)
  BY <1>1 DEF Seqs, OfOrigin, Record
<1>3. 1..Watermark(table, o) \subseteq Seqs(table, o)
  BY <1>1 DEF Seqs, OfOrigin, Has, Dense
<1> QED BY <1>1, <1>2, <1>3

----------------------------------------------------------------------------
(* Queries *)

\* A batch leaves out no record below one it holds.
LEMMA SinceInOrder ==
    ASSUME NEW table \in SUBSET Record, IsFiniteSet(table), NEW o,
           NEW after \in Int, NEW limit \in Nat,
           NEW r \in Since(table, o, after, limit),
           NEW s \in OfOrigin(table, o), after < s.seq, s.seq <= r.seq
    PROVE  s \in Since(table, o, after, limit)
<1> DEFINE above == {q \in OfOrigin(table, o) : q.seq > after}
           Below(t) == {q \in above : q.seq < t.seq}
<1>1. IsFiniteSet(above) /\ above \subseteq table
  BY FS_Subset DEF OfOrigin
<1>2. r \in above /\ s \in above /\ Cardinality(Below(r)) < limit
  BY DEF Since
<1>3. Below(s) \in SUBSET Below(r)
  BY <1>1, <1>2 DEF Record
<1>4. IsFiniteSet(Below(r))
  BY <1>1, FS_Subset
<1> HIDE DEF Below
<1>5. /\ Cardinality(Below(s)) <= Cardinality(Below(r))
      /\ Cardinality(Below(s)) \in Nat /\ Cardinality(Below(r)) \in Nat
  BY <1>3, <1>4, FS_Subset, FS_CardinalityType
<1>6. Cardinality(Below(s)) < limit
  BY <1>2, <1>5
<1> QED BY <1>2, <1>6 DEF Since, Below

\* No record in a batch: none is held above.
LEMMA SinceExhausted ==
    ASSUME NEW table \in SUBSET Record, NEW o,
           NEW after \in Int, NEW limit \in Nat \ {0},
           Since(table, o, after, limit) = {},
           NEW r \in OfOrigin(table, o)
    PROVE  r.seq <= after
<1> DEFINE above == {q \in OfOrigin(table, o) : q.seq > after}
           numbers == {q.seq : q \in above}
<1>1. SUFFICES ASSUME r.seq > after PROVE FALSE
  BY DEF OfOrigin, Record
<1>2. numbers \in SUBSET Nat /\ numbers # {}
  BY <1>1 DEF OfOrigin, Record
<1>3. PICK least \in numbers : \A y \in numbers : least <= y
  <2> HIDE DEF numbers
  <2> QED BY <1>2, LeastExists
<1>4. PICK t \in above : t.seq = least
  OBVIOUS
<1>5. {q \in above : q.seq < t.seq} = {}
  BY <1>2, <1>3, <1>4
<1>6. Cardinality({q \in above : q.seq < t.seq}) < limit
  BY <1>5, FS_EmptySet
<1>7. t \in Since(table, o, after, limit)
  BY <1>4, <1>6 DEF Since
<1> QED BY <1>7

\* A sender starts no higher than what its peer announced, and sends nothing
\* only if the peer announced as much as it did.
LEMMA ResendFromBounded ==
    ASSUME NEW mine \in SUBSET Record, IsFiniteSet(mine), Dense(mine),
           NEW theirs \in SUBSET Record, IsFiniteSet(theirs), Dense(theirs), NEW o
    PROVE  /\ ResendFrom(mine, theirs, o) \in Int
           /\ -1 <= ResendFrom(mine, theirs, o)
           /\ ResendFrom(mine, theirs, o) <= Watermark(theirs, o)
           /\ ResendFrom(mine, theirs, o) = -1
                 => Watermark(mine, o) <= Watermark(theirs, o)
<1> DEFINE M == Mismatched(mine, theirs, o)
           from == FirstMismatch(mine, theirs, o)
<1>1. Watermark(mine, o) \in Nat /\ Watermark(theirs, o) \in Nat
  BY WatermarkOfPart
<1>2. \A r \in OfOrigin(mine, o) :
         Bucket(r) \in Nat /\ Bucket(r) * BucketSize < r.seq
  <2> TAKE r \in OfOrigin(mine, o)
  <2>1. r.seq \in Nat \ {0}
    BY DEF OfOrigin, Record
  <2> QED BY <2>1, BucketSizeAssumption DEF Bucket
<1>3. \A r \in OfOrigin(mine, o) : r.seq \in Nat /\ r.seq <= Watermark(mine, o)
  BY WatermarkOfPart DEF OfOrigin, Record
<1>4. M \in SUBSET Nat /\ \A b \in M : b * BucketSize < Watermark(mine, o)
  BY <1>1, <1>2, <1>3, BucketSizeAssumption DEF Mismatched
<1>5. from = -1 \/ (from \in Nat /\ from < Watermark(mine, o))
  <2>1. CASE M = {}
    BY <2>1 DEF FirstMismatch
  <2>2. CASE M # {}
    <3>1. Min(M) \in M
      <4> HIDE DEF M
      <4> QED BY <1>4, <2>2, MinProperty
    <3>2. from = Min(M) * BucketSize
      BY <2>2 DEF FirstMismatch
    <3> QED BY <1>4, <3>1, <3>2, BucketSizeAssumption
  <2> QED BY <2>1, <2>2
<1> HIDE DEF from
<1> QED BY <1>1, <1>5 DEF ResendFrom, from

----------------------------------------------------------------------------
(* Growing tables *)

\* A local append leaves a dense table dense, and keeps what it held.
LEMMA WithLocalDense ==
    ASSUME NEW table \in SUBSET Record, IsFiniteSet(table), Dense(table),
           NEW o \in Origin, NEW k \in Nat, NEW lines \in [1..k -> Line]
    PROVE  LET new == WithLocal(table, o, lines) IN
           /\ new \in SUBSET Record /\ IsFiniteSet(new) /\ Dense(new)
           /\ table \subseteq new
<1> DEFINE w == Watermark(table, o)
           f == [i \in 1..k |-> [origin |-> o, seq |-> w + i, line |-> lines[i]]]
           added == {f[i] : i \in 1..k}
<1>1. w \in Nat /\ Seqs(table, o) = 1..w
  BY DenseWatermark
<1>2. WithLocal(table, o, lines) = table \cup added
  BY DEF WithLocal
<1>3. IsFiniteSet(added)
  <2>1. f \in Surjection(1..k, added)
    BY DEF Surjection
  <2> HIDE DEF f, added
  <2> QED BY <2>1, FS_Interval, FS_Surjection
<1>4. added \in SUBSET Record
  BY <1>1 DEF Record
<1>5. \A q \in 1..w : Has(table, o, q)
  BY <1>1 DEF Seqs, OfOrigin, Has
<1> HIDE DEF w
<1>6. \A i \in 1..k : \A q \in 1..(w + i) : Has(table \cup added, o, q)
  <2> TAKE i \in 1..k
  <2> TAKE q \in 1..(w + i)
  <2>1. CASE q <= w
    BY <1>1, <1>5, <2>1 DEF Has
  <2>2. CASE q > w
    <3>1. q - w \in 1..k /\ w + (q - w) = q
      BY <1>1, <2>2
    <3>2. f[q - w] \in added /\ f[q - w].origin = o /\ f[q - w].seq = q
      BY <3>1
    <3> QED BY <3>2 DEF Has
  <2> QED BY <1>1, <2>1, <2>2
<1>7. Dense(table \cup added)
  <2> SUFFICES ASSUME NEW r \in table \cup added, NEW q \in 1..r.seq
               PROVE  Has(table \cup added, r.origin, q)
    BY DEF Dense
  <2>1. CASE r \in table
    BY <2>1 DEF Dense, Has
  <2>2. CASE r \in added
    <3>1. PICK i \in 1..k : r = f[i]
      BY <2>2
    <3>2. r.origin = o /\ r.seq = w + i
      BY <3>1
    <3> QED BY <1>6, <3>2
  <2> QED BY <2>1, <2>2
<1>8. IsFiniteSet(table \cup added)
  BY <1>3, FS_Union
<1> QED BY <1>2, <1>4, <1>7, <1>8

\* Two dense tables together are dense.
LEMMA UnionDense ==
    ASSUME NEW left, NEW right, Dense(left), Dense(right)
    PROVE  Dense(left \cup right)
  BY DEF Dense, Has

\* Reading a batch opens no hole in a table that reaches up to it.
LEMMA BatchInOrder ==
    ASSUME NEW table \in SUBSET Record, IsFiniteSet(table), Dense(table), NEW o,
           NEW after \in Int, NEW limit \in Nat,
           NEW reached \in SUBSET Record, Dense(reached),
           \A q \in 1..after : Has(reached, o, q)
    PROVE  Dense(reached \cup Since(table, o, after, limit))
<1> DEFINE batch == Since(table, o, after, limit)
<1>1. \A r \in batch : r \in table /\ r.origin = o /\ r.seq \in Nat
  BY DEF Since, OfOrigin, Record
<1> SUFFICES ASSUME NEW r \in reached \cup batch, NEW q \in 1..r.seq
             PROVE  Has(reached \cup batch, r.origin, q)
  BY DEF Dense
<1>2. CASE r \in reached
  BY <1>2 DEF Dense, Has
<1>3. CASE r \in batch /\ q <= after
  BY <1>1, <1>3 DEF Has
<1>4. CASE r \in batch /\ q > after
  <2>1. PICK s \in table : s.origin = o /\ s.seq = q
    BY <1>1, <1>4 DEF Dense, Has
  <2>2. s \in batch
    BY <1>1, <1>4, <2>1, SinceInOrder DEF OfOrigin
  <2> QED BY <1>1, <1>4, <2>1, <2>2 DEF Has
<1> QED BY <1>1, <1>2, <1>3, <1>4

----------------------------------------------------------------------------
(* Copies *)

\* A copy has as many entries as the watermark says.
LEMMA CopyLength ==
    ASSUME NEW table \in SUBSET Record, IsFiniteSet(table), Dense(table), NEW o
    PROVE  /\ Copy(table, o) \in Seq(SUBSET Line)
           /\ Len(Copy(table, o)) = Watermark(table, o)
<1> DEFINE w == Watermark(table, o)
           entry(i) == {r.line : r \in {q \in OfOrigin(table, o) : q.seq = i}}
<1>1. w \in Nat
  BY DenseWatermark
<1>2. \A i \in 1..w : entry(i) \in SUBSET Line
  BY DEF OfOrigin, Record
<1>3. Copy(table, o) = [i \in 1..w |-> entry(i)]
  BY DEF Copy
<1> HIDE DEF w, entry
<1>4. Copy(table, o) \in [1..w -> SUBSET Line]
  BY <1>2, <1>3
<1>5. Copy(table, o) \in Seq(SUBSET Line) /\ Len(Copy(table, o)) = w
  BY <1>1, <1>4
<1> QED BY <1>5 DEF w

\* An empty table has empty copies.
LEMMA CopyOfNothing == \A o : Copy({}, o) = <<>>
<1>1. {} \in SUBSET Record /\ IsFiniteSet({}) /\ Dense({})
  BY FS_EmptySet DEF Dense
<1>2. \A o : Seqs({}, o) = {}
  BY DEF Seqs, OfOrigin
<1>3. \A o : Watermark({}, o) = 0
  BY <1>1, <1>2, DenseWatermark
<1>4. \A o : Copy({}, o) \in Seq(SUBSET Line) /\ Len(Copy({}, o)) = 0
  BY <1>1, <1>3, CopyLength
<1> QED BY <1>4, EmptySeq

\* A copy is made of the records of its origin, whatever else is in the table.
LEMMA CopyOfOrigin ==
    ASSUME NEW table, NEW other, NEW o, OfOrigin(table, o) = OfOrigin(other, o)
    PROVE  Copy(table, o) = Copy(other, o)
  BY DEF Copy, Watermark, Seqs

\* The copy in a table whose records of an origin are some of another's is a
\* prefix of the copy there.
LEMMA CopyOfPart ==
    ASSUME NEW part \in SUBSET Record, IsFiniteSet(part), Dense(part),
           NEW whole \in SUBSET Record, IsFiniteSet(whole), Dense(whole), NEW o,
           OfOrigin(part, o) \subseteq whole,
           \A r, s \in whole : r.origin = s.origin /\ r.seq = s.seq => r = s
    PROVE  /\ Watermark(part, o) <= Watermark(whole, o)
           /\ Copy(part, o) = SubSeq(Copy(whole, o), 1, Watermark(part, o))
<1> DEFINE low == Watermark(part, o)
           high == Watermark(whole, o)
           there == Copy(whole, o)
           here == Copy(part, o)
<1>1. /\ low \in Nat /\ Seqs(part, o) = 1..low
      /\ high \in Nat /\ Seqs(whole, o) = 1..high
  BY DenseWatermark
<1>2. Seqs(part, o) \subseteq Seqs(whole, o)
  BY DEF Seqs, OfOrigin
<1>3. /\ there \in Seq(SUBSET Line) /\ Len(there) = high
      /\ here \in Seq(SUBSET Line) /\ Len(here) = low
  BY CopyLength
<1>4. ASSUME NEW i \in 1..low
      PROVE  here[i] = there[i]
  <2>1. PICK r \in part : r.origin = o /\ r.seq = i
    <3>1. i \in Seqs(part, o)
      BY <1>1
    <3> QED BY <3>1 DEF Seqs, OfOrigin
  <2>2. {q \in OfOrigin(part, o) : q.seq = i} = {r}
        /\ {q \in OfOrigin(whole, o) : q.seq = i} = {r}
    BY <2>1 DEF OfOrigin
  <2>3. i \in 1..high
    BY <1>1, <1>2
  <2> QED BY <2>2, <2>3 DEF Copy
<1> HIDE DEF low, high, here, there
<1>5. low <= high
  BY <1>1, <1>2
<1>6. here = SubSeq(there, 1, low)
  <2>1. /\ SubSeq(there, 1, low) \in Seq(SUBSET Line)
        /\ Len(SubSeq(there, 1, low)) = low
        /\ \A i \in 1..low : SubSeq(there, 1, low)[i] = there[i]
    BY <1>1, <1>3, <1>5
  <2> QED BY <1>3, <1>4, <2>1, SeqEqual
<1> QED BY <1>5, <1>6 DEF low, high, here, there

\* A local append extends the copy of its origin by its lines, and no other.
LEMMA CopyAppended ==
    ASSUME NEW table \in SUBSET Record, IsFiniteSet(table), Dense(table),
           NEW o \in Origin, NEW k \in Nat, NEW lines \in [1..k -> Line]
    PROVE  LET new == WithLocal(table, o, lines) IN
           /\ Copy(new, o) = Copy(table, o) \o [i \in 1..k |-> {lines[i]}]
           /\ \A p : p # o => OfOrigin(new, p) = OfOrigin(table, p)
<1> DEFINE w == Watermark(table, o)
           new == WithLocal(table, o, lines)
           record(i) == [origin |-> o, seq |-> w + i, line |-> lines[i]]
           old == Copy(table, o)
           longer == Copy(new, o)
           more == [i \in 1..k |-> {lines[i]}]
<1>1. new = table \cup {record(i) : i \in 1..k}
  BY DEF WithLocal
<1>2. \A i \in 1..k : record(i).origin = o /\ record(i).seq = w + i /\ record(i).line = lines[i]
  OBVIOUS
<1>3. new \in SUBSET Record /\ IsFiniteSet(new) /\ Dense(new)
  BY WithLocalDense
<1>4. w \in Nat /\ Seqs(table, o) = 1..w
  BY DenseWatermark
<1>5. \A r \in table : r.origin = o => r.seq \in 1..w
  BY <1>4 DEF Seqs, OfOrigin
<1> HIDE DEF new, record, w
<1>6. Watermark(new, o) = w + k
  <2> DEFINE now == Watermark(new, o)
  <2>1. now \in Nat /\ Seqs(new, o) = 1..now
    BY <1>3, DenseWatermark
  <2>2. ASSUME NEW q \in Seqs(new, o)
        PROVE  q \in 1..(w + k)
    <3>1. PICK r \in new : r.origin = o /\ r.seq = q
      BY <2>2 DEF Seqs, OfOrigin
    <3>2. CASE r \in table
      <4>1. q \in 1..w
        BY <1>5, <3>1, <3>2
      <4> QED BY <1>4, <4>1
    <3>3. CASE \E i \in 1..k : r = record(i)
      <4>1. PICK i \in 1..k : q = w + i
        BY <1>2, <3>1, <3>3
      <4> QED BY <1>4, <4>1
    <3> QED BY <1>1, <3>2, <3>3
  <2>3. ASSUME NEW i \in 1..k
        PROVE  w + i \in Seqs(new, o)
    BY <1>1, <1>2 DEF Seqs, OfOrigin
  <2>4. Seqs(table, o) \subseteq Seqs(new, o)
    BY <1>1 DEF Seqs, OfOrigin
  <2> HIDE DEF now
  <2>5. now <= w + k
    <3>1. CASE now = 0
      BY <1>4, <3>1
    <3>2. CASE now # 0
      <4>1. now \in 1..now
        BY <2>1, <3>2
      <4>2. now \in 1..(w + k)
        BY <2>1, <2>2, <4>1
      <4> QED BY <4>2
    <3> QED BY <3>1, <3>2
  <2>6. w <= now
    BY <1>4, <2>1, <2>4
  <2>7. k = 0 \/ w + k <= now
    BY <1>4, <2>1, <2>3
  <2>8. now = w + k
    BY <1>4, <2>1, <2>5, <2>6, <2>7
  <2> QED BY <2>8 DEF now
<1>7. /\ old \in Seq(SUBSET Line) /\ Len(old) = w
      /\ longer \in Seq(SUBSET Line) /\ Len(longer) = w + k
  <2>1. old \in Seq(SUBSET Line) /\ Len(old) = Watermark(table, o)
    BY CopyLength
  <2> QED BY <1>3, <1>6, <2>1, CopyLength DEF w
<1>8. ASSUME NEW i \in 1..w
      PROVE  longer[i] = old[i]
  <2>1. {q \in OfOrigin(new, o) : q.seq = i} = {q \in OfOrigin(table, o) : q.seq = i}
    <3>1. \A j \in 1..k : record(j).seq # i
      BY <1>2, <1>4
    <3> QED BY <1>1, <3>1 DEF OfOrigin
  <2>2. i \in 1..Watermark(new, o) /\ i \in 1..Watermark(table, o)
    BY <1>4, <1>6 DEF w
  <2> QED BY <2>1, <2>2 DEF Copy
<1>9. ASSUME NEW i \in 1..k
      PROVE  longer[w + i] = {lines[i]}
  <2>1. {q \in OfOrigin(new, o) : q.seq = w + i} = {record(i)}
    <3>1. record(i) \in OfOrigin(new, o) /\ record(i).seq = w + i
      BY <1>1, <1>2 DEF OfOrigin
    <3>2. ASSUME NEW q \in OfOrigin(new, o), q.seq = w + i
          PROVE  q = record(i)
      <4>1. q \notin table
        BY <1>4, <1>5, <3>2 DEF OfOrigin
      <4>2. PICK j \in 1..k : q = record(j)
        BY <1>1, <4>1 DEF OfOrigin
      <4>3. w + j = w + i
        BY <1>2, <3>2, <4>2
      <4>4. j = i
        BY <1>4, <4>3
      <4> QED BY <4>2, <4>4
    <3> QED BY <3>1, <3>2
  <2>2. w + i \in 1..Watermark(new, o)
    BY <1>4, <1>6
  <2>3. longer[w + i] = {r.line : r \in {record(i)}}
    BY <2>1, <2>2 DEF Copy
  <2> QED BY <1>2, <2>3
<1> HIDE DEF old, longer
<1>10. more \in Seq(SUBSET Line) /\ Len(more) = k /\ \A i \in 1..k : more[i] = {lines[i]}
  OBVIOUS
<1> HIDE DEF more
<1>11. longer = old \o more
  <2>1. /\ old \o more \in Seq(SUBSET Line) /\ Len(old \o more) = w + k
        /\ \A i \in 1..(w + k) :
              (old \o more)[i] = IF i <= w THEN old[i] ELSE more[i - w]
    BY <1>4, <1>7, <1>10, ConcatProperties
  <2>2. ASSUME NEW i \in 1..(w + k)
        PROVE  longer[i] = (old \o more)[i]
    <3>1. CASE i <= w
      BY <1>4, <1>8, <2>1, <3>1
    <3>2. CASE ~(i <= w)
      <4>1. i - w \in 1..k /\ w + (i - w) = i
        BY <1>4, <3>2
      <4>2. longer[w + (i - w)] = {lines[i - w]}
        BY <1>9, <4>1
      <4> QED BY <1>10, <2>1, <3>2, <4>1, <4>2
    <3> QED BY <3>1, <3>2
  <2> QED BY <1>7, <2>1, <2>2, SeqEqual
<1>12. ASSUME NEW p, p # o
       PROVE  OfOrigin(new, p) = OfOrigin(table, p)
  BY <1>1, <1>2, <1>12 DEF OfOrigin
<1> QED BY <1>11, <1>12 DEF old, longer, more, new
=============================================================================
