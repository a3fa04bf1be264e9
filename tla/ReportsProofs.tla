-------------------------- MODULE ReportsProofs --------------------------
(* What the marks of extraction are worth, that the reports agree with one  *)
(* another, and that a directory belongs to the innermost project around    *)
(* it: for any number of origins and records, any prices, any directories,  *)
(* batches of any size and any number of failures.                          *)
EXTENDS Reports, SumProofs

\* What a pass knows of an origin is never more than what is so.
Behind == \A o \in Origin : vector[o] <= held[o] /\ after[o] <= mark[o]

\* Saving the batch in hand leaves no record behind the mark without its columns.
InHand ==
    step = "batch" =>
        /\ upTo <= held[origin]
        /\ \A s \in 1..upTo :
            Readable(<<origin, s>>) => <<origin, s>> \in filled \cup rows

Inductive == ExtractionTypeOK /\ MarkHonest /\ Behind /\ InHand

----------------------------------------------------------------------------
\* The walk begins at an origin and stays among the origins.
LEMMA FirstOrigin == First \in Origin
<1>1. \E o \in Origin : \A q \in Origin : o <= q
  BY LeastNumber, ExtractionAssumption
<1> QED BY <1>1 DEF First

\* The origin after another is an origin.
LEMMA FollowingOrigin ==
    ASSUME NEW p \in Origin, \E o \in Origin : o > p
    PROVE  (CHOOSE o \in Origin : o > p /\ \A q \in Origin : q > p => o <= q) \in Origin
<1> DEFINE above == {o \in Origin : o > p}
<1>1. above \in SUBSET Nat /\ above # {}
  BY ExtractionAssumption
<1>2. \E o \in above : \A q \in above : o <= q
  BY <1>1, LeastNumber
<1> QED BY <1>2

\* A batch ends where it says it does: as many records as are counted follow the
\* position it is read from.
LEMMA BatchCount ==
    ASSUME NEW o \in Origin, NEW from \in Nat, held[o] \in Nat, from <= held[o]
    PROVE  LET batch == Since(o, from) IN
           from + Cardinality(batch) = Least(from + BatchSize, held[o])
<1> DEFINE to == Least(from + BatchSize, held[o])
           f == [s \in (from + 1)..to |-> <<o, s>>]
<1>1. to \in Nat /\ from <= to
  BY ExtractionAssumption DEF Least
<1>2. f \in Bijection((from + 1)..to, Since(o, from))
  <2>1. f \in [(from + 1)..to -> Since(o, from)]
    BY DEF Since
  <2>2. \A s, t \in (from + 1)..to : f[s] = f[t] => s = t
    OBVIOUS
  <2>3. \A r \in Since(o, from) : \E s \in (from + 1)..to : f[s] = r
    BY DEF Since
  <2> QED BY <2>1, <2>2, <2>3 DEF Bijection, Injection, Surjection, IsInjective
<1>3. /\ IsFiniteSet((from + 1)..to)
      /\ Cardinality((from + 1)..to) = to - from
  <2>1. /\ IsFiniteSet((from + 1)..to)
        /\ Cardinality((from + 1)..to) = IF from + 1 > to THEN 0 ELSE to - (from + 1) + 1
    <3>1. from + 1 \in Int /\ to \in Int
      BY <1>1
    <3> HIDE DEF to
    <3> QED BY <3>1, FS_Interval
  <2> QED BY <1>1, <2>1
<1>4. Cardinality(Since(o, from)) = to - from
  BY <1>2, <1>3, FS_Bijection DEF ExistsBijection
<1> QED BY <1>1, <1>4

----------------------------------------------------------------------------
LEMMA InitInductive == Init => Inductive
  BY ExtractionAssumption, FirstOrigin
     DEF Init, ExtractionInit, Inductive, ExtractionTypeOK, MarkHonest, Behind, InHand,
         Zero, Step

\* A record that is stored moves no mark, and neither does a new build.
LEMMA StoreInductive ==
    ASSUME Inductive, NEW o \in Origin, NEW complete \in BOOLEAN, Store(o, complete)
    PROVE  Inductive'
<1>0. /\ held \in [Origin -> Nat] /\ Length \in [Origin -> Nat]
      /\ \A q \in Origin : held[q] <= Length[q]
      /\ held[o] < Length[o] /\ held' = [held EXCEPT ![o] = held[o] + 1]
  BY ExtractionAssumption DEF Inductive, ExtractionTypeOK, Store
<1>1. /\ held' \in [Origin -> Nat]
      /\ \A q \in Origin : held[q] <= held'[q] /\ held'[q] <= Length[q]
  <2>1. \A q \in Origin : held'[q] = IF q = o THEN held[o] + 1 ELSE held[q]
    BY <1>0
  <2>2. held[o] \in Nat /\ Length[o] \in Nat
    BY <1>0
  <2>3. ASSUME NEW q \in Origin PROVE held'[q] \in Nat /\ held[q] <= held'[q] /\ held'[q] <= Length[q]
    BY <1>0, <2>1, <2>2
  <2> QED BY <1>0, <2>3
<1>2. filled \subseteq filled' /\ filled' \subseteq Record
  <2>1. <<o, held[o] + 1>> \in Record
    <3>1. held[o] + 1 \in 1..Length[o]
      BY <1>0
    <3> QED BY <3>1 DEF Record
  <2> QED BY <2>1 DEF Inductive, ExtractionTypeOK, Store
<1>3. UNCHANGED <<mark, build, pass, faults>>
  BY DEF Store
<1>4. ExtractionTypeOK'
  BY <1>1, <1>2, <1>3 DEF Inductive, ExtractionTypeOK, pass
<1>5. MarkHonest'
  BY <1>1, <1>2, <1>3 DEF Inductive, ExtractionTypeOK, MarkHonest, Readable
<1>6. Behind'
  BY <1>1, <1>3 DEF Inductive, ExtractionTypeOK, Behind, pass
<1>7. InHand'
  BY <1>1, <1>2, <1>3 DEF Inductive, ExtractionTypeOK, InHand, pass, Readable
<1> QED BY <1>4, <1>5, <1>6, <1>7 DEF Inductive

\* Whoever commits a transaction, the mark stays behind the work when the work
\* is done up to where it moves.
LEMMA SaveHonest ==
    ASSUME Inductive, NEW o \in Origin, NEW updated \in SUBSET Record, NEW to \in Nat,
           to <= held[o],
           \A s \in 1..to : Readable(<<o, s>>) => <<o, s>> \in filled \cup updated,
           Save(o, updated, to), held' = held
    PROVE  /\ filled' \subseteq Record /\ filled \subseteq filled'
           /\ mark' \in [Origin -> Nat]
           /\ \A q \in Origin : mark[q] <= mark'[q]
           /\ to <= mark'[o]
           /\ MarkHonest'
<1>1. filled' = filled \cup updated /\ filled \subseteq Record
  BY DEF Inductive, ExtractionTypeOK, Save
<1>2. /\ mark' \in [Origin -> Nat]
      /\ \A q \in Origin : mark'[q] = IF q = o THEN Greatest(mark[q], to) ELSE mark[q]
  BY DEF Inductive, ExtractionTypeOK, Save, Greatest
<1>3. mark'[o] \in {mark[o], to} /\ mark[o] <= mark'[o] /\ to <= mark'[o]
  BY <1>2 DEF Inductive, ExtractionTypeOK, Greatest
<1>4. ASSUME NEW q \in Origin
      PROVE  /\ mark'[q] <= held'[q]
             /\ \A s \in 1..mark'[q] : Readable(<<q, s>>)' => <<q, s>> \in filled'
  <2>1. mark'[q] = mark[q] \/ (q = o /\ mark'[q] = to)
    BY <1>2, <1>3
  <2> QED BY <2>1, <1>1 DEF Inductive, MarkHonest, Readable
<1>5. \A q \in Origin : mark[q] <= mark'[q]
  BY <1>2, <1>3 DEF Inductive, ExtractionTypeOK
<1> QED BY <1>1, <1>2, <1>3, <1>4, <1>5 DEF MarkHonest

LEMMA ArrivalInductive ==
    ASSUME Inductive, Ingest \/ \E o \in Origin : Receive(o)
    PROVE  Inductive'
<1>1. CASE Ingest
  <2>1. Store(Self, build = "new") /\ Self \in Origin /\ (build = "new") \in BOOLEAN
    BY <1>1, ExtractionAssumption DEF Ingest
  <2> QED BY <2>1, StoreInductive
<1>2. CASE \E o \in Origin : Receive(o)
  <2>1. PICK o \in Origin : Receive(o)
    BY <1>2
  <2> DEFINE complete == <<o, held[o] + 1>> \notin Older
  <2>2. Store(o, complete) /\ complete \in BOOLEAN
    BY <2>1 DEF Receive
  <2> HIDE DEF complete
  <2> QED BY <2>2, StoreInductive
<1> QED BY <1>1, <1>2

\* A new build, an error and a death leave the archive alone, and a pass that
\* ends knows nothing.
LEMMA UpgradeInductive ==
    ASSUME Inductive, Upgrade
    PROVE  Inductive'
<1>1. UNCHANGED <<held, filled, mark, step, vector, after, origin, rows, upTo, faults>>
  BY DEF Upgrade, archive, pass
<1>2. build' = "new"
  BY DEF Upgrade
<1> QED BY <1>1, <1>2
        DEF Inductive, ExtractionTypeOK, MarkHonest, Behind, InHand, Readable

LEMMA ForgetInductive ==
    ASSUME Inductive, Forget, UNCHANGED <<archive, build>>, faults' \in 0..MaxFaults
    PROVE  Inductive'
<1>1. /\ UNCHANGED <<held, filled, mark, build>>
      /\ step' = "idle" /\ vector' = Zero /\ after' = Zero /\ origin' = First
      /\ rows' = {} /\ upTo' = 0
  BY DEF Forget, archive
<1>2. \A o \in Origin : 0 <= held[o] /\ 0 <= mark[o]
  BY DEF Inductive, ExtractionTypeOK
<1>3. ExtractionTypeOK'
  BY <1>1, FirstOrigin DEF Inductive, ExtractionTypeOK, Zero, Step
<1>4. MarkHonest'
  BY <1>1 DEF Inductive, MarkHonest, Readable
<1>5. Behind'
  BY <1>1, <1>2 DEF Behind, Zero
<1>6. InHand'
  BY <1>1 DEF InHand
<1> QED BY <1>3, <1>4, <1>5, <1>6 DEF Inductive

LEMMA ReadVectorInductive ==
    ASSUME Inductive, ReadVector
    PROVE  Inductive'
<1>1. /\ UNCHANGED <<held, filled, mark, build, after, origin, rows, upTo, faults>>
      /\ step' = "vector" /\ vector' = held
  BY DEF ReadVector, archive
<1> QED BY <1>1
        DEF Inductive, ExtractionTypeOK, MarkHonest, Behind, InHand, Readable, Step

\* The marks are read after the vector: no matter, each is behind what is held.
LEMMA ReadMarksInductive ==
    ASSUME Inductive, ReadMarks
    PROVE  Inductive'
<1>1. /\ UNCHANGED <<held, filled, mark, build, vector, origin, rows, upTo, faults>>
      /\ step' = "walking" /\ after' = mark
  BY DEF ReadMarks, archive
<1> QED BY <1>1
        DEF Inductive, ExtractionTypeOK, MarkHonest, Behind, InHand, Readable, Step

\* Up to where it was read from a batch is honest by the mark, and from there by
\* what it holds: a readable record of it is complete or to be updated.
LEMMA ReadBatchInductive ==
    ASSUME Inductive, ReadBatch
    PROVE  Inductive'
<1> DEFINE batch == Since(origin, after[origin])
<1>1. /\ UNCHANGED <<held, filled, mark, build, vector, after, origin, faults>>
      /\ step' = "batch" /\ rows' = Reextract(batch) /\ upTo' = LastExamined(batch)
  BY DEF ReadBatch, archive
<1>2. /\ origin \in Origin /\ held[origin] \in Nat /\ after[origin] \in Nat
      /\ after[origin] <= mark[origin] /\ mark[origin] \in Nat /\ mark[origin] <= held[origin]
      /\ held[origin] <= Length[origin] /\ Length[origin] \in Nat /\ BatchSize \in Nat
  BY ExtractionAssumption DEF Inductive, ExtractionTypeOK, MarkHonest, Behind
<1>3. upTo' = Least(after[origin] + BatchSize, held[origin])
  BY <1>1, <1>2, BatchCount DEF LastExamined
<1>4. upTo' \in Nat /\ upTo' <= held[origin]
  BY <1>2, <1>3 DEF Least
<1>5. batch = {<<origin, s>> : s \in (after[origin] + 1)..upTo'}
  BY <1>3 DEF Since
<1>6. rows' \subseteq Record
  <2>1. batch \subseteq Record
    <3>1. ASSUME NEW s \in (after[origin] + 1)..upTo' PROVE <<origin, s>> \in Record
      <4>1. s \in 1..Length[origin]
        BY <1>2, <1>4
      <4> QED BY <1>2, <4>1 DEF Record
    <3> QED BY <1>5, <3>1
  <2> HIDE DEF batch
  <2> QED BY <1>1, <2>1 DEF Reextract
<1>7. ASSUME NEW s \in 1..upTo', Readable(<<origin, s>>), <<origin, s>> \notin filled
      PROVE  <<origin, s>> \in rows'
  <2>1. ~(s <= after[origin])
    BY <1>2, <1>7 DEF Inductive, MarkHonest
  <2>2. <<origin, s>> \in batch
    BY <1>2, <1>4, <1>5, <2>1
  <2> HIDE DEF batch
  <2> QED BY <1>1, <1>7, <2>2 DEF Reextract
<1> HIDE DEF batch
<1>8. ExtractionTypeOK'
  BY <1>1, <1>4, <1>6 DEF Inductive, ExtractionTypeOK, Step
<1>9. MarkHonest' /\ Behind'
  BY <1>1 DEF Inductive, MarkHonest, Behind, Readable
<1>10. InHand'
  BY <1>1, <1>4, <1>7 DEF InHand, Readable
<1> QED BY <1>8, <1>9, <1>10 DEF Inductive

LEMMA SaveExtractedInductive ==
    ASSUME Inductive, SaveExtracted
    PROVE  Inductive'
<1>1. /\ UNCHANGED <<held, build, vector, origin, faults>>
      /\ step' = "walking" /\ rows' = {} /\ upTo' = 0
      /\ after' = [after EXCEPT ![origin] = upTo]
  BY DEF SaveExtracted
<1>2. /\ origin \in Origin /\ rows \in SUBSET Record /\ upTo \in Nat
      /\ upTo <= held[origin]
      /\ \A s \in 1..upTo : Readable(<<origin, s>>) => <<origin, s>> \in filled \cup rows
  BY DEF Inductive, ExtractionTypeOK, InHand, SaveExtracted
<1>3. /\ filled' \subseteq Record /\ mark' \in [Origin -> Nat]
      /\ \A q \in Origin : mark[q] <= mark'[q]
      /\ upTo <= mark'[origin]
      /\ MarkHonest'
  <2>1. Save(origin, rows, upTo) /\ held' = held
    BY <1>1 DEF SaveExtracted
  <2> QED BY <1>2, <2>1, SaveHonest
<1>4. ExtractionTypeOK'
  BY <1>1, <1>2, <1>3 DEF Inductive, ExtractionTypeOK, Step
<1>5. Behind'
  <2>1. ASSUME NEW o \in Origin PROVE vector'[o] <= held'[o] /\ after'[o] <= mark'[o]
    <3>1. vector[o] <= held[o] /\ after[o] <= mark[o]
      BY DEF Inductive, Behind
    <3>2. after[o] \in Nat /\ mark[o] \in Nat /\ mark'[o] \in Nat
      BY <1>3 DEF Inductive, ExtractionTypeOK
    <3>3. after'[o] = IF o = origin THEN upTo ELSE after[o]
      BY <1>1 DEF Inductive, ExtractionTypeOK
    <3> QED BY <1>1, <1>2, <1>3, <3>1, <3>2, <3>3
  <2> QED BY <2>1 DEF Behind
<1>6. InHand'
  BY <1>1 DEF InHand
<1> QED BY <1>3, <1>4, <1>5, <1>6 DEF Inductive

LEMMA NextOriginInductive ==
    ASSUME Inductive, NextOrigin
    PROVE  Inductive'
<1>1. CASE \E o \in Origin : o > origin
  <2>1. origin' \in Origin
    BY <1>1, FollowingOrigin DEF NextOrigin, Inductive, ExtractionTypeOK
  <2>2. /\ UNCHANGED <<held, filled, mark, build, step, rows, upTo, faults>>
        /\ vector' = [vector EXCEPT ![origin] = 0]
        /\ after' = [after EXCEPT ![origin] = 0]
        /\ step = "walking"
    BY <1>1 DEF NextOrigin, archive
  <2>3. ExtractionTypeOK'
    BY <2>1, <2>2 DEF Inductive, ExtractionTypeOK
  <2>4. MarkHonest'
    BY <2>2 DEF Inductive, MarkHonest, Readable
  <2>5. Behind'
    BY <2>2 DEF Inductive, ExtractionTypeOK, Behind
  <2>6. InHand'
    BY <2>2 DEF InHand
  <2> QED BY <2>3, <2>4, <2>5, <2>6 DEF Inductive
<1>2. CASE ~\E o \in Origin : o > origin
  <2>1. Forget /\ UNCHANGED <<archive, build>> /\ faults' \in 0..MaxFaults
    BY <1>2 DEF NextOrigin, Inductive, ExtractionTypeOK
  <2> QED BY <2>1, ForgetInductive
<1> QED BY <1>1, <1>2

LEMMA AbandonInductive ==
    ASSUME Inductive, Abandon
    PROVE  Inductive'
<1>1. Forget /\ UNCHANGED <<archive, build>>
  BY DEF Abandon
<1>2. faults' \in 0..MaxFaults
  BY ExtractionAssumption DEF Abandon, Inductive, ExtractionTypeOK
<1> QED BY <1>1, <1>2, ForgetInductive

\* The other process: the batch the daemon has in hand stays as honest as it was.
LEMMA CommandInductive ==
    ASSUME Inductive, NEW o \in Origin, Command(o)
    PROVE  Inductive'
<1>1. UNCHANGED <<held, build, step, vector, after, origin, rows, upTo, faults>>
  BY DEF Command, pass
<1>2. PICK from \in 0..mark[o] : \E to \in (from + 1)..Least(from + BatchSize, held[o]) :
        Save(o, {r \in {o} \X ((from + 1)..to) : Readable(r)}, to)
  BY DEF Command
<1>12. PICK to \in (from + 1)..Least(from + BatchSize, held[o]) :
        Save(o, {r \in {o} \X ((from + 1)..to) : Readable(r)}, to)
  BY <1>2
<1> DEFINE updated == {r \in {o} \X ((from + 1)..to) : Readable(r)}
<1>3. /\ held[o] \in Nat /\ mark[o] \in Nat /\ mark[o] <= held[o]
      /\ Length[o] \in Nat /\ held[o] <= Length[o] /\ BatchSize \in Nat
      /\ from \in Nat /\ to \in Nat /\ from <= mark[o]
  BY ExtractionAssumption DEF Inductive, ExtractionTypeOK, MarkHonest, Least
<1>4. to <= held[o]
  BY <1>3 DEF Least
<1>5. updated \in SUBSET Record
  <2>1. ASSUME NEW s \in (from + 1)..to PROVE <<o, s>> \in Record
    <3>1. s \in 1..Length[o]
      BY <1>3, <1>4
    <3> QED BY <3>1 DEF Record
  <2> QED BY <2>1
<1>6. ASSUME NEW s \in 1..to, Readable(<<o, s>>)
      PROVE  <<o, s>> \in filled \cup updated
  <2>1. CASE s <= from
    <3>1. s \in 1..mark[o]
      BY <1>3, <2>1
    <3> QED BY <1>6, <3>1 DEF Inductive, MarkHonest
  <2>2. CASE s > from
    <3>1. <<o, s>> \in {o} \X ((from + 1)..to)
      BY <1>3, <2>2
    <3> QED BY <1>6, <3>1
  <2> QED BY <1>3, <2>1, <2>2
<1>7. Save(o, updated, to)
  BY <1>12
<1> HIDE DEF updated
<1>8. /\ filled' \subseteq Record /\ filled \subseteq filled'
      /\ mark' \in [Origin -> Nat]
      /\ \A q \in Origin : mark[q] <= mark'[q]
      /\ MarkHonest'
  BY <1>1, <1>3, <1>4, <1>5, <1>6, <1>7, SaveHonest
<1>9. ExtractionTypeOK'
  BY <1>1, <1>8 DEF Inductive, ExtractionTypeOK
<1>10. Behind'
  BY <1>1, <1>8 DEF Inductive, ExtractionTypeOK, Behind
<1>11. InHand'
  BY <1>1, <1>8 DEF Inductive, InHand, Readable
<1> QED BY <1>8, <1>9, <1>10, <1>11 DEF Inductive

LEMMA NextInductive == Inductive /\ [Next]_extraction => Inductive'
<1> SUFFICES ASSUME Inductive, [Next]_extraction PROVE Inductive'
  OBVIOUS
<1>1. CASE Ingest \/ \E o \in Origin : Receive(o)
  BY <1>1, ArrivalInductive
<1>2. CASE Upgrade
  BY <1>2, UpgradeInductive
<1>3. CASE ReadVector
  BY <1>3, ReadVectorInductive
<1>4. CASE ReadMarks
  BY <1>4, ReadMarksInductive
<1>5. CASE ReadBatch
  BY <1>5, ReadBatchInductive
<1>6. CASE SaveExtracted
  BY <1>6, SaveExtractedInductive
<1>7. CASE NextOrigin
  BY <1>7, NextOriginInductive
<1>8. CASE Abandon
  BY <1>8, AbandonInductive
<1>9. CASE \E o \in Origin : Command(o)
  BY <1>9, CommandInductive
<1>10. CASE UNCHANGED extraction
  <2>1. UNCHANGED <<held, filled, mark, build, step, vector, after, origin, rows, upTo, faults>>
    BY <1>10 DEF extraction, archive, pass
  <2> QED BY <2>1
          DEF Inductive, ExtractionTypeOK, MarkHonest, Behind, InHand, Readable
<1> QED BY <1>1, <1>2, <1>3, <1>4, <1>5, <1>6, <1>7, <1>8, <1>9, <1>10
        DEF Next, ExtractionNext, Pass

----------------------------------------------------------------------------
LEMMA AlwaysInductive == Spec => []Inductive
  BY InitInductive, NextInductive, PTL DEF Spec

\* The archive, its marks and the pass keep their types.
THEOREM ExtractionTyped == Spec => []TypeOK
<1>1. Inductive => TypeOK
  BY DEF Inductive, TypeOK
<1> QED BY <1>1, AlwaysInductive, PTL

\* However the passes of the daemon and of the command interleave, and wherever
\* either dies, no mark is ahead of the work it stands for (SaveExtracted,
\* Reprocessor.Run).
THEOREM MarksAreHonest == Spec => []MarkHonest
<1>1. Inductive => MarkHonest
  BY DEF Inductive
<1> QED BY <1>1, AlwaysInductive, PTL

----------------------------------------------------------------------------
(* The fold by request, and what a record costs.                            *)
\* What is known of records: keys are unique, and what is billed has a usage.
Archived(all) ==
    /\ IsFiniteSet(all)
    /\ \A r \in all : /\ r.origin \in Nat /\ r.seq \in Nat
                      /\ r.request # None => r.usage \in [Tokens -> Nat]
    /\ \A r, q \in all : r.origin = q.origin /\ r.seq = q.seq => r = q

\* The fold keeps exactly one row of every request.
LEMMA FoldedOnce ==
    ASSUME NEW all, Archived(all)
    PROVE  /\ folded(all) \in SUBSET all /\ IsFiniteSet(folded(all))
           /\ \A r, q \in folded(all) : r.request = q.request => r = q
           /\ \A q \in all : q.request # None => \E r \in folded(all) : r.request = q.request
<1>1. folded(all) \in SUBSET all /\ IsFiniteSet(folded(all))
  BY FS_Subset DEF folded, Archived
<1>2. ASSUME NEW r \in folded(all), NEW q \in folded(all), r.request = q.request
      PROVE  r = q
  <2>1. r \in all /\ q \in all /\ ~Before(r, q) /\ ~Before(q, r)
    BY <1>2 DEF folded
  <2>2. r.origin \in Nat /\ q.origin \in Nat /\ r.seq \in Nat /\ q.seq \in Nat
    BY <2>1 DEF Archived
  <2>3. r.origin = q.origin /\ r.seq = q.seq
    BY <2>1, <2>2 DEF Before
  <2> QED BY <2>1, <2>3 DEF Archived
<1>3. ASSUME NEW q \in all, q.request # None
      PROVE  \E r \in folded(all) : r.request = q.request
  <2> DEFINE same == {r \in all : r.request = q.request}
             origins == {r.origin : r \in same}
  <2>1. PICK o \in origins : \A p \in origins : o <= p
    <3>1. origins \in SUBSET Nat /\ origins # {}
      BY DEF Archived
    <3> HIDE DEF origins
    <3> QED BY <3>1, LeastNumber
  <2> DEFINE seqs == {r.seq : r \in {x \in same : x.origin = o}}
  <2>2. PICK s \in seqs : \A p \in seqs : s <= p
    <3>1. seqs \in SUBSET Nat /\ seqs # {}
      BY DEF Archived
    <3> HIDE DEF seqs
    <3> QED BY <3>1, LeastNumber
  <2>3. PICK r \in same : r.origin = o /\ r.seq = s
    BY <2>2
  <2>4. ASSUME NEW x \in same PROVE ~Before(x, r)
    <3>1. /\ x.origin \in Nat /\ x.seq \in Nat /\ r.origin \in Nat /\ r.seq \in Nat
          /\ r.origin <= x.origin
      BY <2>1, <2>3 DEF Archived
    <3>2. x.origin = r.origin => r.seq <= x.seq
      BY <2>2, <2>3
    <3> QED BY <3>1, <3>2 DEF Before
  <2>5. r \in folded(all)
    BY <1>3, <2>3, <2>4 DEF folded
  <2> QED BY <2>3, <2>5
<1> QED BY <1>1, <1>2, <1>3

\* Rates and charges are never negative.
LEMMA RateType ==
    ASSUME NEW model, Priced(model)
    PROVE  Rate(model) \in [Tokens -> Nat]
<1> DEFINE row == Price[Normalize(model)]
<1>1. row \in [Tokens -> Nat]
  BY PriceAssumption DEF Priced
<1>2. row.input \in Nat /\ row.cache_read \in Nat /\ row.cache_write_5m \in Nat
      /\ row.cache_write_1h \in Nat
  BY <1>1 DEF Tokens
<1> HIDE DEF row
<1>3. row.input \div 10 \in Nat /\ (row.input * 5) \div 4 \in Nat /\ row.input * 2 \in Nat
  BY <1>2
<1>4. PICK a \in Nat, b \in Nat, c \in Nat :
        Rate(model) = [row EXCEPT !.cache_read = a, !.cache_write_5m = b, !.cache_write_1h = c]
  BY <1>2, <1>3 DEF Rate, row
<1> QED BY <1>1, <1>4 DEF Tokens

\* A cost is never negative.
LEMMA CostType ==
    ASSUME NEW model, Priced(model), NEW usage \in [Tokens -> Nat]
    PROVE  Cost(model, usage) \in Nat
<1>1. \A k \in Tokens : Rate(model)[k] \in Nat /\ usage[k] \in Nat
  BY RateType
<1>2. \A k \in Tokens : usage[k] * Rate(model)[k] \in Nat
  BY <1>1
<1>3. /\ usage.input * Rate(model).input \in Nat
      /\ usage.output * Rate(model).output \in Nat
      /\ usage.cache_read * Rate(model).cache_read \in Nat
      /\ usage.cache_write_5m * Rate(model).cache_write_5m \in Nat
      /\ usage.cache_write_1h * Rate(model).cache_write_1h \in Nat
  BY <1>2 DEF Tokens
<1> QED BY <1>3 DEF Cost

\* Nor is what a folded record charges.
LEMMA ChargeType ==
    ASSUME NEW all, Archived(all), NEW r \in folded(all)
    PROVE  Charge(r) \in Nat
<1>1. r.usage \in [Tokens -> Nat]
  BY DEF folded, Archived
<1> QED BY <1>1, CostType DEF Charge

----------------------------------------------------------------------------
(* Stacks: each divides what a day cost.                                    *)
\* Cells whose charge can be divided among their keys without a rest.
Divided(cells) ==
    /\ IsFiniteSet(cells)
    /\ \A c \in cells : /\ c.charge \in Nat
                        /\ IsFiniteSet(c.keys) /\ evenly(c.keys) \in Nat
                        /\ evenly(c.keys) * Cardinality(c.keys) = Whole

\* An even share, taken once for each key, makes the whole.
LEMMA EvenlyWhole ==
    ASSUME NEW keys, IsFiniteSet(keys), keys # {}, Whole % Cardinality(keys) = 0
    PROVE  evenly(keys) \in Nat /\ evenly(keys) * Cardinality(keys) = Whole
<1>1. Cardinality(keys) \in Nat \ {0} /\ Whole \in Nat
  BY FS_CardinalityType, FS_EmptySet, PriceAssumption
<1>2. ASSUME NEW n \in Nat \ {0}, NEW w \in Nat, w % n = 0
      PROVE  w \div n \in Nat /\ (w \div n) * n = w
  BY <1>2
<1> QED BY <1>1, <1>2 DEF evenly

\* The totals of the keys of some cells.
LEMMA PerKeyType ==
    ASSUME NEW cells, Divided(cells)
    PROVE  /\ IsFiniteSet(UNION {c.keys : c \in cells})
           /\ DOMAIN PerKey(cells) = UNION {c.keys : c \in cells}
           /\ \A key \in UNION {c.keys : c \in cells} :
                 /\ PerKey(cells)[key] =
                       SumFunctionOnSet([c \in cells |-> c.charge * evenly(c.keys)],
                                        {c \in cells : key \in c.keys})
                 /\ PerKey(cells)[key] \in Nat
<1> DEFINE keys == UNION {c.keys : c \in cells}
           part == [c \in cells |-> c.charge * evenly(c.keys)]
<1>1. IsFiniteSet(keys)
  <2>1. IsFiniteSet({c.keys : c \in cells})
    <3> DEFINE h == [c \in cells |-> c.keys]
    <3>1. h \in Surjection(cells, {c.keys : c \in cells})
      BY DEF Surjection
    <3> HIDE DEF h
    <3> QED BY <3>1, FS_Surjection DEF Divided
  <2> QED BY <2>1, FS_UNION DEF Divided
<1>2. \A c \in cells : part[c] \in Nat
  <2> SUFFICES ASSUME NEW c \in cells PROVE c.charge * evenly(c.keys) \in Nat
    OBVIOUS
  <2>1. c.charge \in Nat /\ evenly(c.keys) \in Nat
    BY DEF Divided
  <2> QED BY <2>1
<1>3. \A key \in keys : PerKey(cells)[key] = SumFunctionOnSet(part, {c \in cells : key \in c.keys})
  BY DEF PerKey, SumOver
<1> HIDE DEF part
<1>4. \A key \in keys : PerKey(cells)[key] \in Nat
  <2> SUFFICES ASSUME NEW key \in keys
               PROVE  SumFunctionOnSet(part, {c \in cells : key \in c.keys}) \in Nat
    BY <1>3
  <2>1. IsFiniteSet({c \in cells : key \in c.keys})
    BY FS_Subset DEF Divided
  <2> QED BY <1>2, <2>1, SumType
<1>5. DOMAIN PerKey(cells) = keys
  BY DEF PerKey
<1> QED BY <1>1, <1>3, <1>4, <1>5 DEF part

\* What the keys of some cells cost together is what the cells cost.
LEMMA PerKeyWhole ==
    ASSUME NEW cells, Divided(cells),
           NEW charges, \A c \in cells : charges[c] = c.charge
    PROVE  SumFunctionOnSet(PerKey(cells), DOMAIN PerKey(cells))
              = Whole * SumFunctionOnSet(charges, cells)
<1> DEFINE keys == UNION {c.keys : c \in cells}
           part == [c \in cells |-> c.charge * evenly(c.keys)]
           holders == [key \in keys |-> {c \in cells : key \in c.keys}]
           full == [c \in cells |-> Whole * c.charge]
<1>1. /\ IsFiniteSet(cells) /\ IsFiniteSet(keys) /\ Whole \in Nat
      /\ \A c \in cells : /\ c.charge \in Nat /\ evenly(c.keys) \in Nat
                          /\ evenly(c.keys) * Cardinality(c.keys) = Whole
                          /\ Cardinality(c.keys) \in Nat
  BY PerKeyType, PriceAssumption, FS_CardinalityType DEF Divided
<1>2. \A x, y, z \in Nat : x * y \in Nat /\ (x * y) * z = (y * z) * x
  OBVIOUS
<1>3. \A c \in cells : part[c] \in Nat /\ full[c] \in Nat
  BY <1>1, <1>2
<1>4. ASSUME NEW c \in cells
      PROVE  full[c] = part[c] * Cardinality({key \in keys : c \in holders[key]})
  <2>1. {key \in keys : c \in holders[key]} = c.keys
    OBVIOUS
  <2>2. full[c] = (evenly(c.keys) * Cardinality(c.keys)) * c.charge
    BY <1>1
  <2>3. part[c] = c.charge * evenly(c.keys)
    OBVIOUS
  <2>4. (c.charge * evenly(c.keys)) * Cardinality(c.keys)
          = (evenly(c.keys) * Cardinality(c.keys)) * c.charge
    BY <1>1, <1>2
  <2> HIDE DEF part, full, holders, keys
  <2> QED BY <2>1, <2>2, <2>3, <2>4
<1>5. \A key \in keys : PerKey(cells)[key] = SumFunctionOnSet(part, holders[key])
  BY PerKeyType
<1>6. \A key \in keys : holders[key] \in SUBSET cells
  OBVIOUS
<1>7. DOMAIN PerKey(cells) = keys
  BY PerKeyType
<1>8. \A c \in cells : charges[c] \in Nat /\ full[c] = Whole * charges[c]
  BY <1>1
<1> HIDE DEF part, full, holders, keys
<1>9. SumFunctionOnSet(PerKey(cells), keys) = SumFunctionOnSet(full, cells)
  BY <1>1, <1>3, <1>4, <1>5, <1>6, SumTaken
<1>10. SumFunctionOnSet(full, cells) = Whole * SumFunctionOnSet(charges, cells)
  BY <1>1, <1>8, SumScale
<1> QED BY <1>7, <1>9, <1>10

\* A part of the cells costs no more per key than all of them.
LEMMA PerKeyPart ==
    ASSUME NEW cells, Divided(cells), NEW some \in SUBSET cells
    PROVE  /\ Divided(some) /\ DOMAIN PerKey(some) \subseteq DOMAIN PerKey(cells)
           /\ \A key \in DOMAIN PerKey(some) : PerKey(some)[key] <= PerKey(cells)[key]
<1>1. Divided(some)
  BY FS_Subset DEF Divided
<1>2. DOMAIN PerKey(some) \subseteq DOMAIN PerKey(cells)
  BY DEF PerKey
<1>3. ASSUME NEW key \in DOMAIN PerKey(some) PROVE PerKey(some)[key] <= PerKey(cells)[key]
  <2> DEFINE part == [c \in cells |-> c.charge * evenly(c.keys)]
             of == [c \in some |-> c.charge * evenly(c.keys)]
             mine == {c \in some : key \in c.keys}
             theirs == {c \in cells : key \in c.keys}
  <2>1. /\ PerKey(some)[key] = SumFunctionOnSet(of, mine)
        /\ PerKey(cells)[key] = SumFunctionOnSet(part, theirs)
    BY <1>1, <1>2, PerKeyType
  <2>2. mine \in SUBSET theirs /\ IsFiniteSet(theirs) /\ IsFiniteSet(mine)
    BY FS_Subset DEF Divided
  <2>3. \A c \in cells : part[c] \in Nat
    <3> SUFFICES ASSUME NEW c \in cells PROVE c.charge * evenly(c.keys) \in Nat
      OBVIOUS
    <3>1. c.charge \in Nat /\ evenly(c.keys) \in Nat
      BY DEF Divided
    <3> QED BY <3>1
  <2>4. /\ \A c \in mine : of[c] = part[c] /\ of[c] \in Nat
        /\ \A c \in theirs : part[c] \in Nat
    BY <2>3
  <2> HIDE DEF part, of, mine, theirs
  <2>5. SumFunctionOnSet(of, mine) = SumFunctionOnSet(part, mine)
    BY <2>2, <2>4, SumEqual
  <2>6. SumFunctionOnSet(part, mine) <= SumFunctionOnSet(part, theirs)
    BY <2>2, <2>4, SumPart
  <2> QED BY <2>1, <2>5, <2>6
<1> QED BY <1>1, <1>2, <1>3

\* A day's segments divide what the day's keys cost, whole: what is not kept is
\* in Other, and a legend without Other has nothing left over on any day.
LEMMA FoldKeeps ==
    ASSUME NEW stack, NEW totals, IsFiniteSet(DOMAIN totals),
           \A k \in DOMAIN totals : totals[k] \in Nat,
           NEW byKey, DOMAIN byKey \subseteq DOMAIN totals,
           \A k \in DOMAIN byKey : byKey[k] \in Nat /\ byKey[k] <= totals[k]
    PROVE  SumFunctionOnSet(fold(stack, byKey, totals), DOMAIN fold(stack, byKey, totals))
              = SumFunctionOnSet(byKey, DOMAIN byKey)
<1> DEFINE K == Kept(stack, totals)
           T == DOMAIN totals
           D == DOMAIN byKey
           L == Legend(stack, totals)
           Share(segment) ==
               IF segment = OtherKey THEN SumFunctionOnSet(byKey, D \ K)
               ELSE IF segment \in D THEN byKey[segment] ELSE 0
           share == [segment \in L |-> Share(segment)]
           f == fold(stack, byKey, totals)
           F == {s \in L : share[s] > 0}
<1>1. /\ K \in SUBSET T /\ OtherKey \notin K
      /\ L = K \cup (IF SumFunctionOnSet(totals, T \ K) > 0 THEN {OtherKey} ELSE {})
  BY DEF Kept, Legend, SumOver
<1>2. DOMAIN f = F /\ \A s \in F : f[s] = share[s]
  BY DEF fold, SumOver
<1>3. /\ IsFiniteSet(K) /\ IsFiniteSet(D) /\ IsFiniteSet(D \ K) /\ IsFiniteSet(T \ K)
      /\ IsFiniteSet(D \cap K)
  <2>1. IsFiniteSet(K) /\ IsFiniteSet(D)
    BY <1>1, FS_Subset
  <2>2. IsFiniteSet(T \ K)
    BY FS_Difference
  <2> QED BY <2>1, <2>2, FS_Difference, FS_Intersection
<1>4. IsFiniteSet(L)
  <2>1. IsFiniteSet(K \cup {OtherKey})
    BY <1>3, FS_AddElement
  <2>2. L \in SUBSET (K \cup {OtherKey})
    BY <1>1
  <2> HIDE DEF K, L
  <2> QED BY <2>1, <2>2, FS_Subset
<1>5. SumFunctionOnSet(byKey, D \ K) \in Nat
  BY <1>3, SumType
<1>6. \A s \in L : share[s] \in Nat
  BY <1>5
<1>7. \A s \in K : share[s] = IF s \in D THEN byKey[s] ELSE 0
  BY <1>1
<1>8. OtherKey \in L => share[OtherKey] = SumFunctionOnSet(byKey, D \ K)
  OBVIOUS
<1>9. D \in SUBSET T /\ \A k \in D : byKey[k] \in Nat /\ byKey[k] <= totals[k]
  OBVIOUS
<1>10. \A k \in T : totals[k] \in Nat
  OBVIOUS
<1> HIDE DEF K, T, D, L, share
<1>11. SumFunctionOnSet(f, F) = SumFunctionOnSet(share, L)
  <2>1. F \in SUBSET L /\ IsFiniteSet(F) /\ \A s \in L \ F : share[s] = 0
    BY <1>4, <1>6, FS_Subset
  <2>2. \A s \in F : f[s] = share[s] /\ f[s] \in Nat
    BY <1>2, <1>6
  <2> HIDE DEF f, F
  <2>3. SumFunctionOnSet(f, F) = SumFunctionOnSet(share, F)
    BY <2>1, <2>2, SumEqual
  <2>4. SumFunctionOnSet(share, F) = SumFunctionOnSet(share, L)
    BY <1>4, <1>6, <2>1, SumPart
  <2> QED BY <2>3, <2>4
<1>12. SumFunctionOnSet(share, K) = SumFunctionOnSet(byKey, D \cap K)
  <2>1. \A s \in K : share[s] \in Nat
    BY <1>1, <1>6
  <2>2. D \cap K \in SUBSET K /\ \A s \in K \ (D \cap K) : share[s] = 0
    BY <1>7
  <2>3. SumFunctionOnSet(share, D \cap K) = SumFunctionOnSet(share, K)
    BY <1>3, <2>1, <2>2, SumPart
  <2>4. \A s \in D \cap K : byKey[s] = share[s] /\ byKey[s] \in Nat
    BY <1>7, <1>9
  <2>5. SumFunctionOnSet(byKey, D \cap K) = SumFunctionOnSet(share, D \cap K)
    BY <1>3, <2>4, SumEqual
  <2> QED BY <2>3, <2>5
<1>13. SumFunctionOnSet(share, L \ K) = SumFunctionOnSet(byKey, D \ K)
  <2>1. CASE SumFunctionOnSet(totals, T \ K) > 0
    <3>1. L \ K = {} \cup {OtherKey} /\ OtherKey \in L
      BY <1>1, <2>1
    <3>2. SumFunctionOnSet(share, {} \cup {OtherKey})
            = share[OtherKey] + SumFunctionOnSet(share, {})
      BY <1>6, <3>1, FS_EmptySet, SumAdd
    <3>3. SumFunctionOnSet(share, {}) = 0
      BY SumEmpty
    <3>4. SumFunctionOnSet(share, {} \cup {OtherKey}) = SumFunctionOnSet(byKey, D \ K)
      BY <1>5, <1>8, <3>1, <3>2, <3>3
    <3> QED BY <3>1, <3>4
  <2>2. CASE ~(SumFunctionOnSet(totals, T \ K) > 0)
    <3>1. L \ K = {}
      BY <1>1, <2>2
    <3>2. SumFunctionOnSet(byKey, D \ K) <= SumFunctionOnSet(totals, D \ K)
      BY <1>3, <1>9, <1>10, SumLeq
    <3>3. SumFunctionOnSet(totals, D \ K) <= SumFunctionOnSet(totals, T \ K)
      <4>1. D \ K \in SUBSET (T \ K) /\ \A k \in T \ K : totals[k] \in Nat
        BY <1>9, <1>10
      <4> QED BY <1>3, <4>1, SumPart
    <3>4. SumFunctionOnSet(totals, T \ K) \in Nat /\ SumFunctionOnSet(totals, D \ K) \in Nat
      BY <1>3, <1>9, <1>10, SumType
    <3> QED BY <1>5, <2>2, <3>1, <3>2, <3>3, <3>4, SumEmpty
  <2> QED BY <2>1, <2>2
<1>14. SumFunctionOnSet(share, L)
         = SumFunctionOnSet(share, K) + SumFunctionOnSet(share, L \ K)
  <2>1. K \in SUBSET L
    BY <1>1
  <2> QED BY <1>4, <1>6, <2>1, SumSplit
<1>15. SumFunctionOnSet(byKey, D)
         = SumFunctionOnSet(byKey, D \cap K) + SumFunctionOnSet(byKey, D \ K)
  <2>1. D \cap K \in SUBSET D /\ D \ (D \cap K) = D \ K
    OBVIOUS
  <2> QED BY <1>3, <1>9, <2>1, SumSplit
<1> QED BY <1>2, <1>11, <1>12, <1>13, <1>14, <1>15 DEF D

\* A unit of money divides evenly among the pull requests of any session.
Divides(all) ==
    \A session : \A n \in 1..Cardinality(pullRequests(sessionLinks(all), session)) :
        Whole % n = 0

\* What is made of the members of a finite set is finite.
LEMMA ImageFinite ==
    ASSUME NEW h, NEW S, IsFiniteSet(S)
    PROVE  IsFiniteSet({h[x] : x \in S})
<1> DEFINE g == [x \in S |-> h[x]]
<1>1. g \in Surjection(S, {h[x] : x \in S})
  BY DEF Surjection
<1> HIDE DEF g
<1> QED BY <1>1, FS_Surjection

\* The links of the archive, and the pull requests of one session, are finitely
\* many.
LEMMA LinksFinite ==
    ASSUME NEW all, Archived(all)
    PROVE  /\ IsFiniteSet(sessionLinks(all))
           /\ \A session : IsFiniteSet(pullRequests(sessionLinks(all), session))
<1> DEFINE links == sessionLinks(all)
           linked == {q \in all : q.pr # None /\ q.session # None}
           h == [r \in linked |-> [session |-> r.session, pr |-> r.pr]]
<1>1. IsFiniteSet(linked)
  BY FS_Subset DEF Archived
<1>2. links = {h[r] : r \in linked}
  BY DEF sessionLinks
<1>3. IsFiniteSet(links)
  <2> HIDE DEF h, linked, links
  <2> QED BY <1>1, <1>2, ImageFinite
<1>4. ASSUME NEW session PROVE IsFiniteSet(pullRequests(links, session))
  <2> DEFINE mine == {k \in links : k.session = session}
             p == [l \in mine |-> l.pr]
  <2>1. pullRequests(links, session) = {p[l] : l \in mine}
    BY DEF pullRequests
  <2>2. IsFiniteSet(mine)
    BY <1>3, FS_Subset
  <2> HIDE DEF p, mine
  <2> QED BY <2>1, <2>2, ImageFinite
<1> QED BY <1>3, <1>4

\* Whatever the stack, a row's keys share it without a rest.
LEMMA StackingsDivide ==
    ASSUME NEW all, Archived(all), Divides(all), NEW stack \in Stack, NEW projects, NEW row
    PROVE  LET keys == stackings(stack, sessionLinks(all), projects, row)
           IN  /\ IsFiniteSet(keys) /\ evenly(keys) \in Nat
               /\ evenly(keys) * Cardinality(keys) = Whole
<1> DEFINE prs == pullRequests(sessionLinks(all), row.session)
           keys == stackings(stack, sessionLinks(all), projects, row)
<1>1. ASSUME NEW x PROVE IsFiniteSet({x}) /\ Cardinality({x}) = 1
  BY FS_Singleton
<1>2. \E x : keys = {x} \/ (keys = prs /\ prs # {})
  <2>1. CASE stack = "model"
    BY <2>1 DEF stackings, OrNone
  <2>2. CASE stack = "project"
    BY <2>2 DEF stackings, OrNone
  <2>3. CASE stack = "branch"
    BY <2>3 DEF stackings, OrNone
  <2>4. CASE stack = "pull_request"
    BY <2>4 DEF stackings, OrNone
  <2>5. CASE stack = "session"
    BY <2>5 DEF stackings, OrNone
  <2>6. CASE stack = "peer"
    BY <2>6 DEF stackings, OrNone
  <2> QED BY <2>1, <2>2, <2>3, <2>4, <2>5, <2>6 DEF Stack
<1> HIDE DEF keys
<1>3. CASE \E x : keys = {x}
  <2>1. IsFiniteSet(keys) /\ Cardinality(keys) = 1 /\ keys # {}
    BY <1>1, <1>3
  <2>2. Whole % 1 = 0
    BY PriceAssumption
  <2> QED BY <2>1, <2>2, EvenlyWhole DEF keys
<1>4. CASE keys = prs /\ prs # {}
  <2>1. IsFiniteSet(prs)
    BY LinksFinite
  <2>2. Cardinality(prs) \in Nat /\ Cardinality(prs) # 0
    BY <1>4, <2>1, FS_CardinalityType, FS_EmptySet
  <2>3. Cardinality(prs) \in 1..Cardinality(prs)
    BY <2>2
  <2>4. Whole % Cardinality(prs) = 0
    BY <2>3 DEF Divides
  <2> QED BY <1>4, <2>1, <2>4, EvenlyWhole DEF keys
<1> QED BY <1>2, <1>3, <1>4

\* The cells of a day charge what the day cost: a row that is not priced
\* charges nothing.
LEMMA CellsCharge ==
    ASSUME NEW all, Archived(all), NEW stack, NEW links, NEW projects, NEW day,
           NEW some \in SUBSET folded(all)
    PROVE  LET cells == Cells(stack, links, some, projects)
           IN  SumFunctionOnSet([c \in cells |-> c.charge], cells) = ChargeOf(some)
<1> DEFINE priced == {q \in some : Priced(q.model)}
           cell == [r \in priced |-> [row |-> r, charge |-> Charge(r),
                                      keys |-> stackings(stack, links, projects, r)]]
           cells == Cells(stack, links, some, projects)
           charge == [r \in some |-> Charge(r)]
           charges == [c \in cells |-> c.charge]
<1>1. IsFiniteSet(some) /\ IsFiniteSet(priced) /\ priced \in SUBSET some
  BY FoldedOnce, FS_Subset
<1>2. cells = {cell[r] : r \in priced}
  BY DEF Cells
<1>3. \A r \in some : charge[r] \in Nat
  BY ChargeType
<1>4. \A r \in some \ priced : charge[r] = 0
  BY DEF Charge
<1>5. \A r, q \in priced : cell[r] = cell[q] => r = q
  <2> SUFFICES ASSUME NEW r \in priced, NEW q \in priced, cell[r] = cell[q] PROVE r = q
    OBVIOUS
  <2>1. cell[r].row = r /\ cell[q].row = q
    OBVIOUS
  <2> QED BY <2>1
<1>6. \A r \in priced : charges[cell[r]] = charge[r]
  <2> SUFFICES ASSUME NEW r \in priced PROVE charges[cell[r]] = charge[r]
    OBVIOUS
  <2>1. cell[r] \in cells /\ cell[r].charge = Charge(r)
    BY <1>2
  <2> QED BY <2>1
<1>7. ChargeOf(some) = SumFunctionOnSet(charge, some)
  BY DEF ChargeOf, SumOver
<1> HIDE DEF priced, cell, cells, charge, charges
<1>8. \A r \in priced : charge[r] \in Nat /\ charges[cell[r]] = charge[r]
  BY <1>1, <1>3, <1>6
<1>9. SumFunctionOnSet(charges, {cell[r] : r \in priced}) = SumFunctionOnSet(charge, priced)
  BY <1>1, <1>5, <1>8, SumImage
<1>10. SumFunctionOnSet(charge, priced) = SumFunctionOnSet(charge, some)
  BY <1>1, <1>3, <1>4, SumPart
<1> QED BY <1>2, <1>7, <1>9, <1>10 DEF cells, charges

\* The cells of folded rows can be divided.
LEMMA CellsDivided ==
    ASSUME NEW all, Archived(all), Divides(all), NEW stack \in Stack, NEW projects,
           NEW some \in SUBSET folded(all)
    PROVE  Divided(Cells(stack, sessionLinks(all), some, projects))
<1> DEFINE links == sessionLinks(all)
           priced == {q \in some : Priced(q.model)}
           cell == [r \in priced |-> [row |-> r, charge |-> Charge(r),
                                      keys |-> stackings(stack, links, projects, r)]]
           cells == Cells(stack, links, some, projects)
<1>1. cells = {cell[r] : r \in priced}
  BY DEF Cells
<1>2. IsFiniteSet(priced)
  BY FoldedOnce, FS_Subset
<1>3. IsFiniteSet(cells)
  <2> HIDE DEF priced, cell, cells
  <2> QED BY <1>1, <1>2, ImageFinite
<1>4. ASSUME NEW c \in cells
      PROVE  /\ c.charge \in Nat
             /\ IsFiniteSet(c.keys) /\ evenly(c.keys) \in Nat
             /\ evenly(c.keys) * Cardinality(c.keys) = Whole
  <2>1. PICK r \in priced : c.charge = Charge(r) /\ c.keys = stackings(stack, links, projects, r)
    BY DEF Cells
  <2>2. Charge(r) \in Nat
    BY ChargeType
  <2>3. LET keys == stackings(stack, links, projects, r)
        IN  /\ IsFiniteSet(keys) /\ evenly(keys) \in Nat
            /\ evenly(keys) * Cardinality(keys) = Whole
    BY StackingsDivide
  <2> QED BY <2>1, <2>2, <2>3
<1> QED BY <1>3, <1>4 DEF Divided

\* Every stack of every day divides that day's cost, whole.
LEMMA StacksBalance ==
    ASSUME NEW all, Archived(all), Divides(all)
    PROVE  StacksSum(Daily(all))
<1> DEFINE grid == dailyGrid(all)
           links == sessionLinks(all)
           projects == projectsOf(links, grid)
<1>1. SUFFICES ASSUME NEW day \in Days(grid), NEW stack \in Stack
               PROVE  LET shares == Daily(all).stacks[stack].shares[day]
                      IN  SumFunctionOnSet(shares, DOMAIN shares) = ChargeOf(OfDay(grid, day)) * Whole
  BY DEF StacksSum, Daily, SumOver
<1> DEFINE cells == Cells(stack, links, grid, projects)
           today == {c \in cells : c.row.day = day}
           totals == PerKey(cells)
           byKey == PerKey(today)
<1>2. Daily(all).stacks[stack].shares[day] = fold(stack, byKey, totals)
  BY DEF Daily
<1>3. grid \in SUBSET folded(all) /\ OfDay(grid, day) \in SUBSET folded(all)
  BY DEF dailyGrid, OfDay
<1>4. today = Cells(stack, links, OfDay(grid, day), projects)
  BY DEF Cells, OfDay
<1>5. Divided(cells) /\ Divided(today)
  BY <1>3, <1>4, CellsDivided
<1>6. today \in SUBSET cells
  OBVIOUS
<1> DEFINE charges == [c \in today |-> c.charge]
<1>7. SumFunctionOnSet(charges, today) = ChargeOf(OfDay(grid, day))
  <2> DEFINE same == Cells(stack, links, OfDay(grid, day), projects)
  <2>1. SumFunctionOnSet([c \in same |-> c.charge], same) = ChargeOf(OfDay(grid, day))
    BY <1>3, CellsCharge
  <2>2. today = same
    BY <1>4
  <2> HIDE DEF today, same
  <2> QED BY <2>1, <2>2
<1>8. \A c \in today : charges[c] = c.charge
  OBVIOUS
<1>9. ChargeOf(OfDay(grid, day)) \in Nat
  <2>1. IsFiniteSet(OfDay(grid, day)) /\ \A r \in OfDay(grid, day) : Charge(r) \in Nat
    BY <1>3, FoldedOnce, FS_Subset, ChargeType
  <2> DEFINE charge == [r \in OfDay(grid, day) |-> Charge(r)]
  <2>2. \A r \in OfDay(grid, day) : charge[r] \in Nat
    BY <2>1
  <2>3. ChargeOf(OfDay(grid, day)) = SumFunctionOnSet(charge, OfDay(grid, day))
    BY DEF ChargeOf, SumOver
  <2> HIDE DEF charge
  <2> QED BY <2>1, <2>2, <2>3, SumType
<1> HIDE DEF cells, today, charges
<1>10. SumFunctionOnSet(byKey, DOMAIN byKey) = Whole * SumFunctionOnSet(charges, today)
  BY <1>5, <1>8, PerKeyWhole
<1>11. /\ DOMAIN byKey \subseteq DOMAIN totals
       /\ \A k \in DOMAIN byKey : byKey[k] <= totals[k]
  BY <1>5, <1>6, PerKeyPart
<1>12. \A k \in DOMAIN byKey : byKey[k] \in Nat
  BY <1>5, PerKeyType
<1>13. IsFiniteSet(DOMAIN totals) /\ \A k \in DOMAIN totals : totals[k] \in Nat
  BY <1>5, PerKeyType
<1> HIDE DEF totals, byKey
<1>14. SumFunctionOnSet(fold(stack, byKey, totals), DOMAIN fold(stack, byKey, totals))
          = SumFunctionOnSet(byKey, DOMAIN byKey)
  BY <1>11, <1>12, <1>13, FoldKeeps
<1>15. \A x, y \in Nat : x * y = y * x
  OBVIOUS
<1>16. Whole \in Nat
  BY PriceAssumption
<1> QED BY <1>2, <1>7, <1>9, <1>10, <1>14, <1>15, <1>16

----------------------------------------------------------------------------
(* Bills: pull requests share out no more than was spent.                   *)
\* Cut to whole tokens and priced, a share costs no more than its tokens did.
LEMMA KindCut ==
    ASSUME NEW a \in Nat, NEW rate \in Nat
    PROVE  /\ a \div Whole \in Nat
           /\ Whole * ((a \div Whole) * rate) \in Nat
           /\ Whole * ((a \div Whole) * rate) <= rate * a
<1> DEFINE d == a \div Whole
<1>1. Whole \in Nat \ {0}
  BY PriceAssumption
<1>2. d \in Nat /\ Whole * d <= a
  BY <1>1
<1> HIDE DEF d
<1>3. \A w, x, r, b \in Nat : w * x <= b => (w * x) * r <= b * r
  OBVIOUS
<1>4. \A w, x, r \in Nat : (w * x) * r = w * (x * r) /\ w * (x * r) \in Nat /\ w * x \in Nat
  OBVIOUS
<1>5. (Whole * d) * rate <= a * rate
  BY <1>1, <1>2, <1>3
<1>6. (Whole * d) * rate = Whole * (d * rate) /\ Whole * (d * rate) \in Nat
  BY <1>1, <1>2, <1>4
<1>7. \A x, y \in Nat : x * y = y * x
  OBVIOUS
<1> QED BY <1>2, <1>5, <1>6, <1>7 DEF d

\* A multiple of a cost is the cost of that multiple of its tokens.
LEMMA CostScaled ==
    ASSUME NEW model, Priced(model), NEW usage \in [Tokens -> Nat], NEW e \in Nat
    PROVE  LET rate == Rate(model) IN
           Cost(model, usage) * e
              = rate.input * (usage.input * e) + rate.output * (usage.output * e)
                  + rate.cache_read * (usage.cache_read * e)
                  + rate.cache_write_5m * (usage.cache_write_5m * e)
                  + rate.cache_write_1h * (usage.cache_write_1h * e)
<1> DEFINE rate == Rate(model)
<1>1. /\ \A u, r \in Nat : (u * r) * e = r * (u * e) /\ u * r \in Nat
      /\ \A a1, a2, a3, a4, a5 \in Nat :
            (a1 + a2 + a3 + a4 + a5) * e = a1 * e + a2 * e + a3 * e + a4 * e + a5 * e
  OBVIOUS
<1>2. /\ rate.input \in Nat /\ rate.output \in Nat /\ rate.cache_read \in Nat
      /\ rate.cache_write_5m \in Nat /\ rate.cache_write_1h \in Nat
      /\ usage.input \in Nat /\ usage.output \in Nat /\ usage.cache_read \in Nat
      /\ usage.cache_write_5m \in Nat /\ usage.cache_write_1h \in Nat
  BY RateType DEF Tokens
<1>3. Cost(model, usage) = usage.input * rate.input + usage.output * rate.output
            + usage.cache_read * rate.cache_read
            + usage.cache_write_5m * rate.cache_write_5m
            + usage.cache_write_1h * rate.cache_write_1h
  BY DEF Cost
<1> HIDE DEF rate
<1>4. Cost(model, usage) * e
              = rate.input * (usage.input * e) + rate.output * (usage.output * e)
                  + rate.cache_read * (usage.cache_read * e)
                  + rate.cache_write_5m * (usage.cache_write_5m * e)
                  + rate.cache_write_1h * (usage.cache_write_1h * e)
  <2>1. PICK a1 \in Nat, a2 \in Nat, a3 \in Nat, a4 \in Nat, a5 \in Nat :
          /\ a1 = usage.input * rate.input /\ a2 = usage.output * rate.output
          /\ a3 = usage.cache_read * rate.cache_read
          /\ a4 = usage.cache_write_5m * rate.cache_write_5m
          /\ a5 = usage.cache_write_1h * rate.cache_write_1h
    BY <1>1, <1>2
  <2>2. Cost(model, usage) * e = a1 * e + a2 * e + a3 * e + a4 * e + a5 * e
    BY <1>1, <1>3, <2>1
  <2>3. /\ a1 * e = rate.input * (usage.input * e)
        /\ a2 * e = rate.output * (usage.output * e)
        /\ a3 * e = rate.cache_read * (usage.cache_read * e)
        /\ a4 * e = rate.cache_write_5m * (usage.cache_write_5m * e)
        /\ a5 * e = rate.cache_write_1h * (usage.cache_write_1h * e)
    BY <1>1, <1>2, <2>1
  <2> QED BY <2>2, <2>3
<1> QED BY <1>4 DEF rate

\* The tokens of some rows of one model, each row's divided by its share, cost
\* no more, cut to whole tokens, than the rows' shares of what they cost.
LEMMA ModelBilled ==
    ASSUME NEW model, Priced(model), NEW B, IsFiniteSet(B),
           \A r \in B : r.usage \in [Tokens -> Nat],
           NEW share, \A r \in B : share[r] \in Nat,
           NEW part, \A r \in B : part[r] = Cost(model, r.usage) * share[r]
    PROVE  LET cut == [kind \in Tokens |->
                          SumFunctionOnSet([r \in B |-> r.usage[kind] * share[r]], B) \div Whole]
           IN  /\ cut \in [Tokens -> Nat]
               /\ Whole * Cost(model, cut) <= SumFunctionOnSet(part, B)
<1> DEFINE rate == Rate(model)
           p == [kind \in Tokens |-> [r \in B |-> r.usage[kind] * share[r]]]
           a == [kind \in Tokens |-> SumFunctionOnSet(p[kind], B)]
           q == [kind \in Tokens |-> [r \in B |-> rate[kind] * p[kind][r]]]
           cut == [kind \in Tokens |-> a[kind] \div Whole]
<1>0. \A x, y \in Nat : x * y \in Nat
  OBVIOUS
<1>1. \A kind \in Tokens : rate[kind] \in Nat
  BY RateType
<1>2. \A kind \in Tokens, r \in B : p[kind][r] = r.usage[kind] * share[r] /\ p[kind][r] \in Nat
  <2> SUFFICES ASSUME NEW kind \in Tokens, NEW r \in B
               PROVE  r.usage[kind] * share[r] \in Nat
    OBVIOUS
  <2>1. r.usage[kind] \in Nat /\ share[r] \in Nat
    OBVIOUS
  <2> QED BY <1>0, <2>1
<1>3. \A kind \in Tokens, r \in B : q[kind][r] = rate[kind] * p[kind][r]
  OBVIOUS
<1>4. \A kind \in Tokens : a[kind] = SumFunctionOnSet(p[kind], B) /\ cut[kind] = a[kind] \div Whole
  OBVIOUS
<1>5. cut = [kind \in Tokens |-> SumFunctionOnSet([r \in B |-> r.usage[kind] * share[r]], B) \div Whole]
  OBVIOUS
<1>6. DOMAIN cut = Tokens /\ cut = [kind \in Tokens |-> cut[kind]]
  OBVIOUS
<1> HIDE DEF p, q, a, cut, rate
<1>7. ASSUME NEW kind \in Tokens
      PROVE  /\ a[kind] \in Nat /\ \A r \in B : q[kind][r] \in Nat
             /\ SumFunctionOnSet(q[kind], B) = rate[kind] * a[kind]
  <2>1. \A r \in B : p[kind][r] \in Nat /\ q[kind][r] = rate[kind] * p[kind][r]
    BY <1>2, <1>3
  <2>2. a[kind] \in Nat
    BY <1>4, <2>1, SumType
  <2>3. SumFunctionOnSet(q[kind], B) = rate[kind] * SumFunctionOnSet(p[kind], B)
    <3>0. PICK c \in Nat : c = rate[kind]
      BY <1>1
    <3>1. PICK f, g : c = rate[kind] /\ f = p[kind] /\ g = q[kind]
      BY <3>0
    <3>2. \A r \in B : f[r] \in Nat /\ g[r] = c * f[r]
      BY <2>1, <3>1
    <3>3. SumFunctionOnSet(g, B) = c * SumFunctionOnSet(f, B)
      BY <3>2, SumScale
    <3> QED BY <3>1, <3>3
  <2>4. \A r \in B : q[kind][r] \in Nat
    BY <1>0, <1>1, <2>1
  <2> QED BY <1>4, <2>2, <2>3, <2>4
<1>8. ASSUME NEW kind \in Tokens
      PROVE  /\ cut[kind] \in Nat /\ Whole * (cut[kind] * rate[kind]) \in Nat
             /\ Whole * (cut[kind] * rate[kind]) <= SumFunctionOnSet(q[kind], B)
  BY <1>1, <1>4, <1>7, KindCut
<1>9. cut \in [Tokens -> Nat]
  BY <1>6, <1>8
<1>10. Whole * Cost(model, cut)
         = Whole * (cut["input"] * rate["input"]) + Whole * (cut["output"] * rate["output"])
             + Whole * (cut["cache_read"] * rate["cache_read"])
             + Whole * (cut["cache_write_5m"] * rate["cache_write_5m"])
             + Whole * (cut["cache_write_1h"] * rate["cache_write_1h"])
  <2>1. \A w, x1, x2, x3, x4, x5 \in Nat :
          w * (x1 + x2 + x3 + x4 + x5) = w * x1 + w * x2 + w * x3 + w * x4 + w * x5
    OBVIOUS
  <2>2. \A kind \in Tokens : cut[kind] * rate[kind] \in Nat
    BY <1>0, <1>1, <1>8
  <2>3. Whole \in Nat
    BY PriceAssumption
  <2>4. Cost(model, cut)
          = cut["input"] * rate["input"] + cut["output"] * rate["output"]
             + cut["cache_read"] * rate["cache_read"]
             + cut["cache_write_5m"] * rate["cache_write_5m"]
             + cut["cache_write_1h"] * rate["cache_write_1h"]
    BY DEF Cost, rate
  <2> QED BY <2>1, <2>2, <2>3, <2>4 DEF Tokens
<1> DEFINE h2 == [r \in B |-> q["input"][r] + q["output"][r]]
           h3 == [r \in B |-> h2[r] + q["cache_read"][r]]
           h4 == [r \in B |-> h3[r] + q["cache_write_5m"][r]]
<1>11. \A r \in B : /\ q["input"][r] \in Nat /\ q["output"][r] \in Nat
                    /\ q["cache_read"][r] \in Nat /\ q["cache_write_5m"][r] \in Nat
                    /\ q["cache_write_1h"][r] \in Nat
  BY <1>7 DEF Tokens
<1>12. \A r \in B : /\ h2[r] = q["input"][r] + q["output"][r] /\ h2[r] \in Nat
                    /\ h3[r] = h2[r] + q["cache_read"][r] /\ h3[r] \in Nat
                    /\ h4[r] = h3[r] + q["cache_write_5m"][r] /\ h4[r] \in Nat
  BY <1>11
<1>13. \A r \in B : part[r] = h4[r] + q["cache_write_1h"][r]
  <2> SUFFICES ASSUME NEW r \in B PROVE part[r] = h4[r] + q["cache_write_1h"][r]
    OBVIOUS
  <2>1. part[r] = rate.input * (r.usage.input * share[r])
                  + rate.output * (r.usage.output * share[r])
                  + rate.cache_read * (r.usage.cache_read * share[r])
                  + rate.cache_write_5m * (r.usage.cache_write_5m * share[r])
                  + rate.cache_write_1h * (r.usage.cache_write_1h * share[r])
    BY CostScaled DEF rate
  <2>2. \A kind \in Tokens : q[kind][r] = rate[kind] * (r.usage[kind] * share[r])
    BY <1>2, <1>3
  <2>3. part[r] = q["input"][r] + q["output"][r] + q["cache_read"][r]
                    + q["cache_write_5m"][r] + q["cache_write_1h"][r]
    BY <2>1, <2>2 DEF Tokens
  <2> QED BY <1>11, <1>12, <2>3
<1> HIDE DEF h2, h3, h4
<1>14. /\ SumFunctionOnSet(h2, B) = SumFunctionOnSet(q["input"], B) + SumFunctionOnSet(q["output"], B)
       /\ SumFunctionOnSet(h3, B) = SumFunctionOnSet(h2, B) + SumFunctionOnSet(q["cache_read"], B)
       /\ SumFunctionOnSet(h4, B) = SumFunctionOnSet(h3, B) + SumFunctionOnSet(q["cache_write_5m"], B)
       /\ SumFunctionOnSet(part, B)
             = SumFunctionOnSet(h4, B) + SumFunctionOnSet(q["cache_write_1h"], B)
  <2>1. SumFunctionOnSet(h2, B) = SumFunctionOnSet(q["input"], B) + SumFunctionOnSet(q["output"], B)
    BY <1>11, <1>12, SumPlus
  <2>2. SumFunctionOnSet(h3, B) = SumFunctionOnSet(h2, B) + SumFunctionOnSet(q["cache_read"], B)
    BY <1>11, <1>12, SumPlus
  <2>3. SumFunctionOnSet(h4, B) = SumFunctionOnSet(h3, B) + SumFunctionOnSet(q["cache_write_5m"], B)
    BY <1>11, <1>12, SumPlus
  <2>4. SumFunctionOnSet(part, B)
             = SumFunctionOnSet(h4, B) + SumFunctionOnSet(q["cache_write_1h"], B)
    BY <1>11, <1>12, <1>13, SumPlus
  <2> QED BY <2>1, <2>2, <2>3, <2>4
<1>15. \A kind \in Tokens : SumFunctionOnSet(q[kind], B) \in Nat
  BY <1>7, SumType
<1>16. Whole * Cost(model, cut) <= SumFunctionOnSet(part, B)
  BY <1>8, <1>10, <1>14, <1>15 DEF Tokens
<1> QED BY <1>5, <1>9, <1>16

\* A session's pull requests share its cost without a rest.
LEMMA SharesDivide ==
    ASSUME NEW all, Archived(all), Divides(all), NEW session,
           pullRequests(sessionLinks(all), session) # {}
    PROVE  LET prs == pullRequests(sessionLinks(all), session)
           IN  /\ IsFiniteSet(prs) /\ evenly(prs) \in Nat
               /\ evenly(prs) * Cardinality(prs) = Whole
<1> DEFINE prs == pullRequests(sessionLinks(all), session)
<1>1. IsFiniteSet(prs)
  BY LinksFinite
<1>2. Cardinality(prs) \in Nat /\ Cardinality(prs) # 0
  BY <1>1, FS_CardinalityType, FS_EmptySet
<1>3. Cardinality(prs) \in 1..Cardinality(prs)
  BY <1>2
<1>4. Whole % Cardinality(prs) = 0
  BY <1>3 DEF Divides
<1> QED BY <1>1, <1>4, EvenlyWhole

\* What a pull request is billed is no more than its shares of the rows.
LEMMA PullBilled ==
    ASSUME NEW all, Archived(all), Divides(all), NEW B \in SUBSET folded(all),
           \A r \in B : pullRequests(sessionLinks(all), r.session) # {},
           NEW part, \A r \in B :
              part[r] = Charge(r) * evenly(pullRequests(sessionLinks(all), r.session))
    PROVE  /\ BilledCost(sessionLinks(all), B) \in Nat
           /\ Whole * BilledCost(sessionLinks(all), B) <= SumFunctionOnSet(part, B)
<1> DEFINE links == sessionLinks(all)
           models == {r.model : r \in B}
           of == [model \in models |-> {r \in B : r.model = model}]
           cost == [model \in models |-> CostOfModel(links, B, model)]
           whole == [model \in models |-> Whole * cost[model]]
           mine == [model \in models |-> SumFunctionOnSet(part, of[model])]
           share == [r \in B |-> evenly(pullRequests(links, r.session))]
<1>1. IsFiniteSet(B) /\ \A r \in B : r.usage \in [Tokens -> Nat]
  <2>1. IsFiniteSet(B)
    BY FoldedOnce, FS_Subset
  <2>2. \A r \in folded(all) : r.usage \in [Tokens -> Nat]
    BY DEF folded, Archived
  <2> QED BY <2>1, <2>2
<1>2. IsFiniteSet(models)
  <2> DEFINE h == [r \in B |-> r.model]
  <2>1. models = {h[r] : r \in B}
    OBVIOUS
  <2> HIDE DEF h, models
  <2> QED BY <1>1, <2>1, ImageFinite
<1>3. \A r \in B : share[r] \in Nat /\ Charge(r) \in Nat
  <2> SUFFICES ASSUME NEW r \in B
               PROVE  evenly(pullRequests(links, r.session)) \in Nat /\ Charge(r) \in Nat
    OBVIOUS
  <2>1. pullRequests(links, r.session) # {}
    OBVIOUS
  <2> QED BY <2>1, SharesDivide, ChargeType
<1>4. \A r \in B : part[r] = Charge(r) * share[r] /\ part[r] \in Nat
  <2>1. \A x, y \in Nat : x * y \in Nat
    OBVIOUS
  <2>2. \A r \in B : part[r] = Charge(r) * share[r]
    OBVIOUS
  <2> HIDE DEF share
  <2> QED BY <1>3, <2>1, <2>2
<1>5. \A model \in models : /\ of[model] = {r \in B : r.model = model}
                            /\ of[model] \in SUBSET B /\ IsFiniteSet(of[model])
  <2>1. \A model \in models : of[model] \in SUBSET B
    OBVIOUS
  <2> HIDE DEF of
  <2>2. \A model \in models : IsFiniteSet(of[model])
    BY <1>1, <2>1, FS_Subset
  <2> QED BY <2>1, <2>2 DEF of
<1>6. ASSUME NEW model \in models
      PROVE  /\ cost[model] \in Nat
             /\ Whole * cost[model] <= SumFunctionOnSet(part, of[model])
  <2>1. \A r \in of[model] : part[r] \in Nat
    BY <1>4, <1>5
  <2>2. SumFunctionOnSet(part, of[model]) \in Nat
    BY <1>5, <2>1, SumType
  <2>3. cost[model] = IF Priced(model) THEN Cost(model, ShareOfTokens(links, of[model])) ELSE 0
    BY <1>5 DEF CostOfModel
  <2>4. CASE ~Priced(model)
    <3>1. cost[model] = 0 /\ Whole * 0 = 0
      BY <2>3, <2>4, PriceAssumption
    <3> HIDE DEF cost, of
    <3> QED BY <2>2, <3>1
  <2>5. CASE Priced(model)
    <3> DEFINE R == of[model]
               cut == [kind \in Tokens |->
                          SumFunctionOnSet([r \in R |-> r.usage[kind] * share[r]], R) \div Whole]
    <3>1. ShareOfTokens(links, R) = cut
      <4>1. \A kind \in Tokens :
              [r \in R |-> r.usage[kind] * evenly(pullRequests(links, r.session))]
                = [r \in R |-> r.usage[kind] * share[r]]
        <5>1. \A r \in R : share[r] = evenly(pullRequests(links, r.session))
          BY <1>5
        <5> HIDE DEF share, R
        <5> QED BY <5>1
      <4> HIDE DEF share, R
      <4> QED BY <4>1 DEF ShareOfTokens, SumOver
    <3>2. /\ IsFiniteSet(R)
          /\ \A r \in R : r.usage \in [Tokens -> Nat] /\ share[r] \in Nat
      BY <1>1, <1>3, <1>5
    <3>3. \A r \in R : part[r] = Cost(model, r.usage) * share[r]
      <4>1. \A r \in R : r.model = model /\ r \in B
        BY <1>5
      <4>2. \A r \in R : Charge(r) = Cost(model, r.usage)
        BY <2>5, <4>1 DEF Charge
      <4> HIDE DEF share, R
      <4> QED BY <1>4, <4>1, <4>2
    <3> HIDE DEF share, R
    <3>4. /\ cut \in [Tokens -> Nat]
          /\ Whole * Cost(model, cut) <= SumFunctionOnSet(part, R)
      BY <2>5, <3>2, <3>3, ModelBilled
    <3> HIDE DEF cut, cost
    <3>5. cost[model] = Cost(model, cut)
      BY <2>3, <2>5, <3>1 DEF R
    <3> QED BY <2>5, <3>4, <3>5, CostType DEF R
  <2> QED BY <2>4, <2>5
<1>7. BilledCost(links, B) = SumFunctionOnSet(cost, models)
  BY DEF BilledCost, SumOver
<1>8. \A model \in models : /\ whole[model] = Whole * cost[model]
                            /\ mine[model] = SumFunctionOnSet(part, of[model])
  OBVIOUS
<1>9. \A r \in B : Cardinality({model \in models : r \in of[model]}) = 1
  <2> SUFFICES ASSUME NEW r \in B
               PROVE  Cardinality({model \in models : r \in of[model]}) = 1
    OBVIOUS
  <2>1. {model \in models : r \in of[model]} = {r.model}
    OBVIOUS
  <2> QED BY <2>1, FS_Singleton
<1>10. Whole \in Nat
  BY PriceAssumption
<1> HIDE DEF models, of, cost, whole, mine, share
<1>11. SumFunctionOnSet(cost, models) \in Nat
  BY <1>2, <1>6, SumType
<1>12. SumFunctionOnSet(whole, models) = Whole * SumFunctionOnSet(cost, models)
  BY <1>2, <1>6, <1>8, <1>10, SumScale
<1>13. \A model \in models : whole[model] \in Nat /\ mine[model] \in Nat
  <2>1. \A x, y \in Nat : x * y \in Nat
    OBVIOUS
  <2>2. \A model \in models : mine[model] \in Nat
    <3> SUFFICES ASSUME NEW model \in models PROVE SumFunctionOnSet(part, of[model]) \in Nat
      BY <1>8
    <3>1. \A r \in of[model] : part[r] \in Nat
      BY <1>4, <1>5
    <3> QED BY <1>5, <3>1, SumType
  <2> QED BY <1>6, <1>8, <1>10, <2>1, <2>2
<1>14. SumFunctionOnSet(whole, models) <= SumFunctionOnSet(mine, models)
  <2>1. \A model \in models : whole[model] <= mine[model]
    BY <1>6, <1>8
  <2> QED BY <1>2, <1>13, <2>1, SumLeq
<1>15. SumFunctionOnSet(mine, models) = SumFunctionOnSet(part, B)
  <2>1. \A r \in B : part[r] \in Nat
    BY <1>4
  <2>2. \A model \in models : of[model] \in SUBSET B
    BY <1>5
  <2>4. \A model \in models : mine[model] = SumFunctionOnSet(part, of[model])
    BY <1>8
  <2> QED BY <1>1, <1>2, <1>9, <2>1, <2>2, <2>4, SumParted
<1> QED BY <1>7, <1>11, <1>12, <1>14, <1>15

\* What folded rows charge, as a sum.
LEMMA ChargesSum ==
    ASSUME NEW all, Archived(all), NEW some \in SUBSET folded(all),
           NEW charge, \A r \in some : charge[r] = Charge(r)
    PROVE  /\ IsFiniteSet(some) /\ \A r \in some : charge[r] \in Nat
           /\ ChargeOf(some) = SumFunctionOnSet(charge, some) /\ ChargeOf(some) \in Nat
<1>1. IsFiniteSet(some)
  BY FoldedOnce, FS_Subset
<1>2. \A r \in some : charge[r] \in Nat
  BY ChargeType
<1> DEFINE own == [r \in some |-> Charge(r)]
<1>3. \A r \in some : own[r] = charge[r] /\ own[r] \in Nat
  BY <1>2
<1>4. ChargeOf(some) = SumFunctionOnSet(own, some)
  BY DEF ChargeOf, SumOver
<1> HIDE DEF own
<1>5. SumFunctionOnSet(own, some) = SumFunctionOnSet(charge, some)
  BY <1>1, <1>3, SumEqual
<1>6. SumFunctionOnSet(charge, some) \in Nat
  BY <1>1, <1>2, SumType
<1> QED BY <1>1, <1>2, <1>4, <1>5, <1>6

\* The requests of the summary are those of the archive.
LEMMA RequestsCounted ==
    ASSUME NEW all, Archived(all)
    PROVE  Cardinality(folded(all)) = Cardinality({r.request : r \in all} \ {None})
<1> DEFINE requests == {r.request : r \in all} \ {None}
           f == [r \in folded(all) |-> r.request]
<1>1. \A r \in folded(all) : r \in all /\ r.request # None
  BY DEF folded
<1>2. f \in Surjection(folded(all), requests)
  <2>1. f \in [folded(all) -> requests]
    BY <1>1
  <2>2. \A q \in requests : \E r \in folded(all) : f[r] = q
    BY FoldedOnce
  <2> QED BY <2>1, <2>2 DEF Surjection
<1>3. f \in Injection(folded(all), requests)
  <2>1. f \in [folded(all) -> requests]
    BY <1>1
  <2>2. \A r, q \in folded(all) : f[r] = f[q] => r = q
    BY FoldedOnce
  <2> QED BY <2>1, <2>2 DEF Injection, IsInjective
<1> HIDE DEF f, requests
<1>4. IsFiniteSet(folded(all))
  BY FoldedOnce
<1>5. /\ Cardinality(requests) <= Cardinality(folded(all))
      /\ (Cardinality(requests) = Cardinality(folded(all))) <=> (f \in Injection(folded(all), requests))
  BY <1>2, <1>4, FS_Surjection
<1> QED BY <1>3, <1>5 DEF requests

\* What the summary spends is what the days cost, and what has no day.
LEMMA DaysCounted ==
    ASSUME NEW all, Archived(all)
    PROVE  LET cost == Daily(all).cost
           IN  /\ Summarize(all).total = ChargeOf({r \in folded(all) : r.day = None})
                                            + SumFunctionOnSet(cost, DOMAIN cost)
               /\ Summarize(all).total = ChargeOf(folded(all))
<1> DEFINE requests == folded(all)
           priced == {r \in requests : Priced(r.model)}
           undated == {r \in requests : r.day = None}
           grid == dailyGrid(all)
           days == Days(grid)
           of == [day \in days |-> OfDay(grid, day)]
           cost == Daily(all).cost
           charge == [r \in requests |-> Charge(r)]
<1>1. Summarize(all).total = ChargeOf(priced)
  BY DEF Summarize
<1>2. cost = [day \in days |-> ChargeOf(OfDay(grid, day))]
  BY DEF Daily
<1>3. grid \in SUBSET requests /\ requests \ grid = undated /\ priced \in SUBSET requests
  BY DEF dailyGrid
<1>4. \A r \in requests : charge[r] = Charge(r)
  OBVIOUS
<1>5. \A r \in requests \ priced : charge[r] = 0
  BY DEF Charge
<1>6. DOMAIN cost = days /\ \A day \in days : cost[day] = ChargeOf(of[day])
  BY <1>2
<1>7. \A day \in days : of[day] \in SUBSET grid
  BY DEF OfDay
<1>8. \A r \in grid : Cardinality({day \in days : r \in of[day]}) = 1
  <2> SUFFICES ASSUME NEW r \in grid PROVE Cardinality({day \in days : r \in of[day]}) = 1
    OBVIOUS
  <2>1. {day \in days : r \in of[day]} = {r.day}
    BY DEF Days, OfDay
  <2> QED BY <2>1, FS_Singleton
<1>9. IsFiniteSet(days)
  <2> DEFINE h == [r \in grid |-> r.day]
  <2>1. days = {h[r] : r \in grid}
    BY DEF Days
  <2>2. IsFiniteSet(grid)
    BY <1>3, FoldedOnce, FS_Subset
  <2> HIDE DEF h, grid, days
  <2> QED BY <2>1, <2>2, ImageFinite
<1> HIDE DEF priced, undated, grid, days, of, cost, charge
<1>10. /\ IsFiniteSet(requests) /\ \A r \in requests : charge[r] \in Nat
       /\ ChargeOf(priced) = SumFunctionOnSet(charge, priced)
       /\ ChargeOf(undated) = SumFunctionOnSet(charge, undated)
       /\ ChargeOf(grid) = SumFunctionOnSet(charge, grid) /\ IsFiniteSet(grid)
       /\ ChargeOf(requests) = SumFunctionOnSet(charge, requests)
  <2>1. undated \in SUBSET requests /\ requests \in SUBSET requests
    BY DEF undated
  <2> QED BY <1>3, <1>4, <2>1, ChargesSum
<1>11. SumFunctionOnSet(charge, priced) = SumFunctionOnSet(charge, requests)
  BY <1>3, <1>5, <1>10, SumPart
<1>12. SumFunctionOnSet(charge, requests)
         = SumFunctionOnSet(charge, grid) + SumFunctionOnSet(charge, requests \ grid)
  BY <1>3, <1>10, SumSplit
<1>13. SumFunctionOnSet(cost, days) = SumFunctionOnSet(charge, grid)
  <2>1. \A day \in days : cost[day] = SumFunctionOnSet(charge, of[day])
    <3> SUFFICES ASSUME NEW day \in days PROVE cost[day] = SumFunctionOnSet(charge, of[day])
      OBVIOUS
    <3>1. of[day] \in SUBSET requests
      BY <1>3, <1>7
    <3> QED BY <1>4, <1>6, <3>1, ChargesSum
  <2>2. \A r \in grid : charge[r] \in Nat
    BY <1>3, <1>10
  <2> QED BY <1>7, <1>8, <1>9, <1>10, <2>1, <2>2, SumParted
<1>14. /\ SumFunctionOnSet(charge, grid) \in Nat
       /\ SumFunctionOnSet(charge, undated) \in Nat
  <2>1. IsFiniteSet(undated)
    BY <1>10, FS_Subset DEF undated
  <2>2. \A r \in undated : charge[r] \in Nat
    BY <1>10 DEF undated
  <2>3. \A r \in grid : charge[r] \in Nat
    BY <1>3, <1>10
  <2> QED BY <1>10, <2>1, <2>2, <2>3, SumType
<1>15. Summarize(all).total = ChargeOf(undated) + SumFunctionOnSet(cost, DOMAIN cost)
  BY <1>1, <1>3, <1>6, <1>10, <1>11, <1>12, <1>13, <1>14
<1>16. Summarize(all).total = ChargeOf(requests)
  BY <1>1, <1>10, <1>11
<1> QED BY <1>15, <1>16 DEF undated, cost

\* The pull requests that are billed, and the rows they are billed for.
BilledPulls(all) ==
    {pr \in {l.pr : l \in sessionLinks(all)} :
        Billed(sessionLinks(all), folded(all), pr) # {}}
BilledRows(all) ==
    UNION {Billed(sessionLinks(all), folded(all), pr) : pr \in BilledPulls(all)}

\* A row is billed to the pull requests its session opened, to all of them; and
\* a row of a linked session is billed.
LEMMA BilledTo ==
    ASSUME NEW all, NEW r \in folded(all)
    PROVE  /\ r \in BilledRows(all) <=>
                 \E l \in sessionLinks(all) : l.session = r.session
           /\ r \in BilledRows(all) =>
                 /\ pullRequests(sessionLinks(all), r.session) # {}
                 /\ {pr \in BilledPulls(all) : r \in Billed(sessionLinks(all), folded(all), pr)}
                       = pullRequests(sessionLinks(all), r.session)
<1> DEFINE links == sessionLinks(all)
           prs == pullRequests(links, r.session)
<1>1. \A l \in links : l.session # None
  BY DEF sessionLinks
<1>2. prs = {l.pr : l \in {k \in links : k.session = r.session}}
  BY DEF pullRequests
<1>3. \A pr : r \in Billed(links, folded(all), pr) <=> r.session # None /\ pr \in prs
  BY DEF Billed
<1>4. \A pr \in prs : \E l \in links : l.pr = pr /\ l.session = r.session
  BY <1>2
<1>5. r.session # None => prs \subseteq BilledPulls(all)
  BY <1>3, <1>4 DEF BilledPulls
<1>6. ASSUME \E l \in links : l.session = r.session PROVE r \in BilledRows(all)
  <2>1. PICK l \in links : l.session = r.session
    BY <1>6
  <2>2. r.session # None /\ l.pr \in prs
    BY <1>1, <1>2, <2>1
  <2> QED BY <1>3, <1>5, <2>2 DEF BilledRows
<1>7. ASSUME r \in BilledRows(all)
      PROVE  /\ r.session # None /\ prs # {}
             /\ \E l \in links : l.session = r.session
  BY <1>3, <1>4, <1>7 DEF BilledRows
<1>8. ASSUME r \in BilledRows(all)
      PROVE  {pr \in BilledPulls(all) : r \in Billed(links, folded(all), pr)} = prs
  BY <1>3, <1>5, <1>7, <1>8
<1> QED BY <1>6, <1>7, <1>8

\* Pull requests share out no more than was spent.
LEMMA BillsBounded ==
    ASSUME NEW all, Archived(all), Divides(all),
           NEW cost, \A pr \in BilledPulls(all) :
              cost[pr] = BilledCost(sessionLinks(all), Billed(sessionLinks(all), folded(all), pr))
    PROVE  SumFunctionOnSet(cost, BilledPulls(all)) <= ChargeOf(folded(all))
<1> DEFINE links == sessionLinks(all)
           requests == folded(all)
           prs == BilledPulls(all)
           R == BilledRows(all)
           of == [pr \in prs |-> Billed(links, requests, pr)]
           part == [r \in R |-> Charge(r) * evenly(pullRequests(links, r.session))]
           mine == [pr \in prs |-> SumFunctionOnSet(part, of[pr])]
           whole == [pr \in prs |-> Whole * cost[pr]]
           charge == [r \in requests |-> Charge(r)]
           full == [r \in requests |-> Whole * charge[r]]
<1>1. R \in SUBSET requests /\ \A pr \in prs : of[pr] \in SUBSET R
  BY DEF BilledRows, Billed
<1>2. IsFiniteSet(requests) /\ IsFiniteSet(R)
  BY <1>1, FoldedOnce, FS_Subset
<1>3. IsFiniteSet(prs)
  <2> DEFINE h == [l \in links |-> l.pr]
  <2>1. prs \in SUBSET {h[l] : l \in links}
    BY DEF BilledPulls
  <2>2. IsFiniteSet(links)
    BY LinksFinite
  <2> HIDE DEF h, links, prs
  <2>3. IsFiniteSet({h[l] : l \in links})
    BY <2>2, ImageFinite
  <2> QED BY <2>1, <2>3, FS_Subset
<1>4. Whole \in Nat \ {0}
  BY PriceAssumption
<1>5. \A x, y, z \in Nat : /\ x * y \in Nat /\ (x * y) * z = (y * z) * x
                           /\ x * y = y * x
  OBVIOUS
<1>6. \A r \in requests : charge[r] = Charge(r)
  OBVIOUS
<1>7. (\A r \in requests : charge[r] \in Nat) /\ ChargeOf(requests) = SumFunctionOnSet(charge, requests)
      /\ ChargeOf(requests) \in Nat
  <2>1. requests \in SUBSET requests
    OBVIOUS
  <2> HIDE DEF charge
  <2> QED BY <1>6, <2>1, ChargesSum
<1>8. ASSUME NEW r \in R
      PROVE  /\ part[r] \in Nat
             /\ full[r] = part[r] * Cardinality({pr \in prs : r \in of[pr]})
  <2> DEFINE own == pullRequests(links, r.session)
  <2>1. /\ own # {}
        /\ {pr \in prs : r \in Billed(links, requests, pr)} = own
    BY <1>1, BilledTo
  <2>2. /\ IsFiniteSet(own) /\ evenly(own) \in Nat
        /\ evenly(own) * Cardinality(own) = Whole
    BY <2>1, SharesDivide
  <2>3. Cardinality(own) \in Nat
    BY <2>2, FS_CardinalityType
  <2>4. {pr \in prs : r \in of[pr]} = {pr \in prs : r \in Billed(links, requests, pr)}
    OBVIOUS
  <2>5. charge[r] \in Nat /\ r \in requests /\ charge[r] = Charge(r)
    BY <1>1, <1>7
  <2>6. part[r] = charge[r] * evenly(own) /\ full[r] = Whole * charge[r]
    BY <2>5
  <2> HIDE DEF own, part, full, charge, of, prs
  <2>7. part[r] \in Nat
    BY <1>5, <2>2, <2>5, <2>6
  <2>8. (charge[r] * evenly(own)) * Cardinality(own) = (evenly(own) * Cardinality(own)) * charge[r]
    BY <1>5, <2>2, <2>3, <2>5
  <2>9. full[r] = part[r] * Cardinality(own)
    BY <2>2, <2>6, <2>8
  <2> QED BY <2>1, <2>4, <2>7, <2>9
<1>9. ASSUME NEW pr \in prs
      PROVE  /\ cost[pr] \in Nat
             /\ Whole * cost[pr] <= SumFunctionOnSet(part, of[pr])
  <2> DEFINE B == Billed(links, requests, pr)
  <2>1. of[pr] = B /\ B \in SUBSET R /\ B \in SUBSET requests
    BY <1>1
  <2>2. \A r \in B : pullRequests(links, r.session) # {}
    BY DEF Billed
  <2>3. \A r \in B : part[r] = Charge(r) * evenly(pullRequests(links, r.session))
    BY <2>1
  <2>4. cost[pr] = BilledCost(links, B)
    OBVIOUS
  <2> HIDE DEF B, part, of
  <2>5. /\ BilledCost(links, B) \in Nat
        /\ Whole * BilledCost(links, B) <= SumFunctionOnSet(part, B)
    BY <2>1, <2>2, <2>3, PullBilled
  <2> QED BY <2>1, <2>4, <2>5
<1>10. \A pr \in prs : /\ mine[pr] = SumFunctionOnSet(part, of[pr])
                       /\ whole[pr] = Whole * cost[pr]
  OBVIOUS
<1>11. \A r \in requests : full[r] = Whole * charge[r]
  OBVIOUS
<1> HIDE DEF prs, R, of, part, mine, whole, charge, full, requests
<1>12. SumFunctionOnSet(whole, prs) = Whole * SumFunctionOnSet(cost, prs)
  BY <1>3, <1>4, <1>9, <1>10, SumScale
<1>13. \A pr \in prs : mine[pr] \in Nat /\ whole[pr] \in Nat /\ whole[pr] <= mine[pr]
  <2>1. ASSUME NEW pr \in prs PROVE SumFunctionOnSet(part, of[pr]) \in Nat
    <3>1. IsFiniteSet(of[pr]) /\ \A r \in of[pr] : part[r] \in Nat
      BY <1>1, <1>2, <1>8, FS_Subset
    <3> QED BY <3>1, SumType
  <2> QED BY <1>4, <1>5, <1>9, <1>10, <2>1
<1>14. SumFunctionOnSet(whole, prs) <= SumFunctionOnSet(mine, prs)
  BY <1>3, <1>13, SumLeq
<1>15. SumFunctionOnSet(mine, prs) = SumFunctionOnSet(full, R)
  <2>1. \A r \in R : part[r] \in Nat
    BY <1>8
  <2>2. \A r \in R : full[r] = part[r] * Cardinality({pr \in prs : r \in of[pr]})
    BY <1>8
  <2>3. \A pr \in prs : of[pr] \in SUBSET R
    BY <1>1
  <2>4. \A pr \in prs : mine[pr] = SumFunctionOnSet(part, of[pr])
    BY <1>10
  <2> QED BY <1>2, <1>3, <2>1, <2>2, <2>3, <2>4, SumTaken, Z3
<1>16. SumFunctionOnSet(full, R) <= SumFunctionOnSet(full, requests)
  <2>1. \A r \in requests : full[r] \in Nat
    BY <1>4, <1>5, <1>7, <1>11
  <2> QED BY <1>1, <1>2, <2>1, SumPart
<1>17. SumFunctionOnSet(full, requests) = Whole * SumFunctionOnSet(charge, requests)
  BY <1>2, <1>4, <1>7, <1>11, SumScale
<1>18. SumFunctionOnSet(cost, prs) \in Nat
  BY <1>3, <1>9, SumType
<1>19. Whole * SumFunctionOnSet(cost, prs) <= Whole * ChargeOf(requests)
  <2>1. \A x, y \in Nat : x * y \in Nat
    OBVIOUS
  <2>2. Whole * SumFunctionOnSet(cost, prs) \in Nat /\ Whole * ChargeOf(requests) \in Nat
    BY <1>4, <1>7, <1>18, <2>1
  <2>3. SumFunctionOnSet(mine, prs) \in Nat
    BY <1>3, <1>13, SumType
  <2> QED BY <1>7, <1>12, <1>14, <1>15, <1>16, <1>17, <2>2, <2>3
<1>20. \A w \in Nat \ {0}, x, y \in Nat : w * x <= w * y => x <= y
  OBVIOUS
<1>21. SumFunctionOnSet(cost, prs) <= ChargeOf(requests)
  BY <1>4, <1>7, <1>18, <1>19, <1>20
<1> QED BY <1>21 DEF prs, requests

\* The summary, the daily report and the pull requests agree.
LEMMA AccountsAgree ==
    ASSUME NEW all, Archived(all), Divides(all)
    PROVE  ReportsAgree(all, Daily(all))
<1> DEFINE requests == folded(all)
           links == sessionLinks(all)
           bills == Deliveries(all)
           prs == BilledPulls(all)
           report == Daily(all)
           linked == {r \in requests : \E l \in links : l.session = r.session}
<1>1. /\ DOMAIN bills.cost = prs
      /\ \A pr \in prs : bills.cost[pr] = BilledCost(links, Billed(links, requests, pr))
      /\ bills.billed = BilledRows(all)
      /\ bills.attributed = Cardinality(linked)
  BY DEF Deliveries, BilledPulls, BilledRows
<1>2. Summarize(all).requests = Cardinality({r.request : r \in all} \ {None})
  <2>1. Summarize(all).requests = Cardinality(requests)
    BY DEF Summarize
  <2> QED BY <2>1, RequestsCounted
<1>3. /\ Summarize(all).total = ChargeOf({r \in folded(all) : r.day = None})
            + SumFunctionOnSet(report.cost, DOMAIN report.cost)
      /\ Summarize(all).total = ChargeOf(requests)
  BY DaysCounted
<1>4. SumFunctionOnSet(bills.cost, prs) <= ChargeOf(requests)
  <2> HIDE DEF bills
  <2> QED BY <1>1, BillsBounded
<1>5. linked = BilledRows(all)
  <2>1. BilledRows(all) \in SUBSET requests
    BY DEF BilledRows, Billed
  <2> QED BY <2>1, BilledTo
<1> HIDE DEF bills, report, linked, prs
<1>6. bills.attributed = Cardinality(bills.billed)
  BY <1>1, <1>5
<1> QED BY <1>1, <1>2, <1>3, <1>4, <1>6 DEF ReportsAgree, SumOver, bills, report

----------------------------------------------------------------------------
\* What a stored record says, filled in or not.
LEMMA StoredFields ==
    ASSUME NEW r, NEW complete
    PROVE  LET stored == Stored(r, complete)
               read == Identify(Line[r[1]][r[2]])
           IN  /\ stored.origin = r[1] /\ stored.seq = r[2]
               /\ stored.session = read.session /\ stored.pr = read.pr
               /\ stored.request = read.request /\ stored.usage = read.usage
  BY DEF Stored

\* There are finitely many records.
LEMMA RecordsFinite == IsFiniteSet(Record)
<1> DEFINE of == [o \in Origin |-> {o} \X (1..Length[o])]
<1>1. Record = UNION {of[o] : o \in Origin}
  BY DEF Record
<1>2. ASSUME NEW o \in Origin PROVE IsFiniteSet({o} \X (1..Length[o]))
  <2>1. IsFiniteSet({o}) /\ Length[o] \in Nat
    BY ExtractionAssumption, FS_Singleton
  <2>2. IsFiniteSet(1..Length[o])
    BY <2>1, FS_Interval
  <2> QED BY <2>1, <2>2, FS_Product
<1>3. \A o \in Origin : IsFiniteSet(of[o])
  BY <1>2
<1> HIDE DEF of
<1>4. IsFiniteSet({of[o] : o \in Origin})
  BY ExtractionAssumption, ImageFinite
<1> QED BY <1>1, <1>3, <1>4, FS_UNION

\* The records of a node are an archive the reports can be read over.
LEMMA RecordsArchived ==
    ASSUME TypeOK
    PROVE  Archived(records) /\ Divides(records)
<1> DEFINE stored == [r \in Held |-> Stored(r, r \in filled)]
           whole == {Stored(r, TRUE) : r \in Record}
<1>1. Held \in SUBSET Record /\ IsFiniteSet(Held)
  <2>1. Held \in SUBSET Record
    BY DEF Held
  <2> QED BY <2>1, RecordsFinite, FS_Subset
<1>2. records = {stored[r] : r \in Held}
  BY DEF records
<1>3. IsFiniteSet(records)
  <2> HIDE DEF stored
  <2> QED BY <1>1, <1>2, ImageFinite
<1>4. \A r \in Record : r[1] \in Nat /\ r[2] \in Nat /\ r = <<r[1], r[2]>>
  BY ExtractionAssumption DEF Record
<1>5. ASSUME NEW q \in records
      PROVE  \E r \in Record :
                LET read == Identify(Line[r[1]][r[2]])
                IN  /\ q.origin = r[1] /\ q.seq = r[2]
                    /\ q.session = read.session /\ q.pr = read.pr
                    /\ q.request = read.request /\ q.usage = read.usage
                    /\ q = Stored(r, r \in filled)
  <2>1. PICK r \in Held : q = Stored(r, r \in filled)
    BY DEF records
  <2> QED BY <1>1, <2>1, StoredFields
<1>6. ASSUME NEW q \in records
      PROVE  /\ q.origin \in Nat /\ q.seq \in Nat
             /\ q.request # None => q.usage \in [Tokens -> Nat]
  <2>1. PICK r \in Record :
                LET read == Identify(Line[r[1]][r[2]])
                IN  /\ q.origin = r[1] /\ q.seq = r[2]
                    /\ q.request = read.request /\ q.usage = read.usage
    BY <1>5
  <2> DEFINE line == Line[r[1]][r[2]]
  <2>2. line.usage \in [Tokens -> Nat] \cup {None}
    BY LineAssumption
  <2> HIDE DEF line
  <2>3. Identify(line).request # None => Identify(line).usage = line.usage /\ line.usage # None
    BY DEF Identify
  <2> QED BY <1>4, <2>1, <2>2, <2>3 DEF line
<1>7. ASSUME NEW p \in records, NEW q \in records, p.origin = q.origin, p.seq = q.seq
      PROVE  p = q
  <2>1. PICK r \in Record : p.origin = r[1] /\ p.seq = r[2] /\ p = Stored(r, r \in filled)
    BY <1>5
  <2>2. PICK s \in Record : q.origin = s[1] /\ q.seq = s[2] /\ q = Stored(s, s \in filled)
    BY <1>5
  <2>3. r = s
    BY <1>4, <1>7, <2>1, <2>2
  <2> QED BY <2>1, <2>2, <2>3
<1>8. Archived(records)
  BY <1>3, <1>6, <1>7 DEF Archived
<1>9. sessionLinks(records) \in SUBSET sessionLinks(whole)
  <2> SUFFICES ASSUME NEW q \in records, q.pr # None, q.session # None
               PROVE  \E w \in whole : /\ w.pr # None /\ w.session # None
                                       /\ [session |-> q.session, pr |-> q.pr]
                                            = [session |-> w.session, pr |-> w.pr]
    BY DEF sessionLinks
  <2>1. PICK r \in Record :
                LET read == Identify(Line[r[1]][r[2]])
                IN  q.session = read.session /\ q.pr = read.pr
    BY <1>5
  <2>2. Stored(r, TRUE).session = q.session /\ Stored(r, TRUE).pr = q.pr
    BY <2>1, StoredFields
  <2> QED BY <2>2
<1>10. IsFiniteSet(sessionLinks(whole))
  <2> DEFINE mine == {q \in whole : q.pr # None /\ q.session # None}
             h == [q \in mine |-> [session |-> q.session, pr |-> q.pr]]
             g == [r \in Record |-> Stored(r, TRUE)]
  <2>1. whole = {g[r] : r \in Record} /\ mine \in SUBSET whole
    OBVIOUS
  <2>2. sessionLinks(whole) = {h[q] : q \in mine}
    BY DEF sessionLinks
  <2> HIDE DEF g, h, whole, mine
  <2>3. IsFiniteSet(whole)
    BY <2>1, RecordsFinite, ImageFinite
  <2>4. IsFiniteSet(mine)
    BY <2>1, <2>3, FS_Subset
  <2> QED BY <2>2, <2>4, ImageFinite
<1>11. Divides(records)
  <2> SUFFICES ASSUME NEW session,
                      NEW n \in 1..Cardinality(pullRequests(sessionLinks(records), session))
               PROVE  Whole % n = 0
    BY DEF Divides
  <2> DEFINE some == pullRequests(sessionLinks(records), session)
             prs == pullRequests(sessionLinks(whole), session)
             of == {k \in sessionLinks(whole) : k.session = session}
             p == [l \in of |-> l.pr]
  <2>1. prs = {p[l] : l \in of} /\ some \in SUBSET prs
    BY <1>9 DEF pullRequests
  <2>2. IsFiniteSet(of)
    BY <1>10, FS_Subset
  <2>3. IsFiniteSet(prs)
    <3> HIDE DEF p, of, prs
    <3> QED BY <2>1, <2>2, ImageFinite
  <2>4. /\ IsFiniteSet(some) /\ Cardinality(some) <= Cardinality(prs)
        /\ Cardinality(some) \in Nat /\ Cardinality(prs) \in Nat
    <3> HIDE DEF some, prs
    <3> QED BY <2>1, <2>3, FS_Subset, FS_CardinalityType
  <2>5. n \in 1..Cardinality(prs) /\ Cardinality(prs) # 0
    BY <2>4
  <2>6. PICK l \in sessionLinks(whole) : l.session = session
    <3>1. prs # {}
      BY <2>5, FS_EmptySet
    <3> QED BY <3>1 DEF pullRequests
  <2> QED BY <2>5, <2>6, WholeAssumption
<1> QED BY <1>8, <1>11

\* Whatever part of the archive has arrived, and been filled in, every stack of
\* every day divides that day's cost whole, and the three reports agree.
THEOREM ReportsBalance == Spec => []Balanced
<1>1. TypeOK => Balanced
  BY RecordsArchived, StacksBalance, AccountsAgree DEF Balanced
<1> QED BY <1>1, ExtractionTyped, PTL

----------------------------------------------------------------------------
(* Directories: the pass over them, shortest first.                         *)
\* One step of pathSegments, and what it has of every set of positions.
Passed(segs, name) == IF name \in {<<>>, <<".">>} THEN segs ELSE Append(segs, name)
Passes(g, path) ==
    g = [s \in SUBSET DOMAIN path |->
            IF s = {} THEN <<>> ELSE Passed(g[s \ {Max(s)}], path[Max(s)])]

\* What the loop over a path returns, without the fold.
LEMMA PathUnfolds ==
    ASSUME NEW path
    PROVE  pathSegments(path) = (CHOOSE g : Passes(g, path))[DOMAIN path]
  BY DEF pathSegments, FoldLeft, MapThenFoldSet, Passes, Passed

\* The greatest of some numbers.
LEMMA GreatestNumber ==
    ASSUME NEW S \in SUBSET Nat, IsFiniteSet(S), S # {}
    PROVE  Max(S) \in S /\ \A y \in S : y <= Max(S)
<1> DEFINE P == {T \in SUBSET S : T = {} \/ \E x \in T : \A y \in T : x >= y}
<1>1. {} \in P
  OBVIOUS
<1>2. ASSUME NEW T \in P, NEW x \in S \ T PROVE T \cup {x} \in P
  <2>1. CASE T = {}
    BY <2>1
  <2>2. CASE T # {}
    <3>1. PICK m \in T : \A y \in T : m >= y
      BY <2>2
    <3>2. m \in Nat /\ x \in Nat /\ \A y \in T : y \in Nat
      BY <3>1
    <3>3. CASE x >= m
      BY <3>1, <3>2, <3>3
    <3>4. CASE ~(x >= m)
      BY <3>1, <3>2, <3>4
    <3> QED BY <3>3, <3>4
  <2> QED BY <2>1, <2>2
<1>3. P = SUBSET S
  <2> HIDE DEF P
  <2>1. P \in SUBSET (SUBSET S)
    BY DEF P
  <2> QED BY <1>1, <1>2, <2>1, SetInduction
<1>4. \E x \in S : \A y \in S : x >= y
  BY <1>3
<1> QED BY <1>4 DEF Max

\* The segments of a path are a sequence of names.
LEMMA PathSegmentsSequence ==
    ASSUME NEW Name, NEW path \in Seq(Name)
    PROVE  pathSegments(path) \in Seq(Name)
<1> DEFINE D == DOMAIN path
           A == Seq(Name)
           pick == [s \in SUBSET D |-> Max(s)]
           next == [i \in D |-> [a \in A |-> Passed(a, path[i])]]
           g == CHOOSE h : Passes(h, path)
<1>1. IsFiniteSet(D) /\ D \in SUBSET Nat
  <2>1. D = 1..Len(path) /\ Len(path) \in Nat
    OBVIOUS
  <2> QED BY <2>1, FS_Interval
<1>2. Picks(pick, D)
  <2> SUFFICES ASSUME NEW s \in SUBSET D, s # {} PROVE Max(s) \in s
    BY DEF Picks
  <2> QED BY <1>1, FS_Subset, GreatestNumber
<1>3. \A i \in D, a \in A : Passed(a, path[i]) \in A
  BY DEF Passed
<1>4. \A i \in D, a \in A : next[i][a] = Passed(a, path[i])
  OBVIOUS
<1>5. <<>> \in A
  OBVIOUS
<1>6. \A s \in SUBSET D : pick[s] = Max(s)
  OBVIOUS
<1> HIDE DEF A, next, pick
<1>7. PICK h \in [SUBSET D -> A] : \A s \in SUBSET D :
         h[s] = IF s = {} THEN <<>> ELSE next[pick[s]][h[s \ {pick[s]}]]
  <2>1. Steps(next, D, A)
    BY <1>3, <1>4 DEF Steps
  <2> HIDE DEF D
  <2>2. PICK base \in A : base = <<>>
    BY <1>5
  <2>3. \E h \in [SUBSET D -> A] : Folds(h, base, next, pick, D)
    <3>1. IsFiniteSet(D)
      BY <1>1
    <3> QED BY <1>2, <2>1, <3>1, FoldsExist
  <2> QED BY <2>2, <2>3 DEF Folds
<1>8. ASSUME NEW s \in SUBSET D
      PROVE  h[s] = IF s = {} THEN <<>> ELSE Passed(h[s \ {Max(s)}], path[Max(s)])
  <2>1. CASE s = {}
    BY <1>7, <2>1
  <2>2. CASE s # {}
    <3>1. Max(s) \in D /\ s \ {Max(s)} \in SUBSET D
      BY <1>2, <1>6, <2>2 DEF Picks
    <3> QED BY <1>4, <1>6, <1>7, <2>2, <3>1
  <2> QED BY <2>1, <2>2
<1>9. h = [s \in SUBSET D |-> h[s]]
  BY <1>7
<1>10. Passes(h, path)
  <2>1. [s \in SUBSET D |-> h[s]]
          = [s \in SUBSET D |-> IF s = {} THEN <<>> ELSE Passed(h[s \ {Max(s)}], path[Max(s)])]
    BY <1>8
  <2> QED BY <1>9, <2>1 DEF Passes
<1>11. Passes(g, path)
  BY <1>10
<1> DEFINE P == {s \in SUBSET D : g[s] \in A}
<1>12. {} \in P
  BY <1>5, <1>11 DEF Passes
<1>13. ASSUME NEW s \in SUBSET D, s # {}, s \ {pick[s]} \in P
       PROVE  s \in P
  <2>1. g[s] = Passed(g[s \ {Max(s)}], path[Max(s)])
    BY <1>11, <1>13 DEF Passes
  <2>2. Max(s) \in D /\ pick[s] = Max(s)
    BY <1>2, <1>6, <1>13 DEF Picks
  <2>3. g[s \ {Max(s)}] \in A
    BY <1>13, <2>2
  <2> HIDE DEF g
  <2> QED BY <1>3, <2>1, <2>2, <2>3
<1>14. P = SUBSET D
  <2> HIDE DEF P
  <2>1. P \in SUBSET (SUBSET D)
    BY DEF P
  <2>2. \A s \in SUBSET D : s # {} /\ s \ {pick[s]} \in P => s \in P
    BY <1>13
  <2>3. IsFiniteSet(D)
    BY <1>1
  <2> HIDE DEF D
  <2> QED BY <1>2, <1>12, <2>1, <2>2, <2>3, PickInduction, Z3
<1> QED BY <1>14, PathUnfolds DEF A

\* The least of some numbers.
LEMMA LeastMin ==
    ASSUME NEW S \in SUBSET Nat, S # {}
    PROVE  Min(S) \in S /\ \A y \in S : Min(S) <= y
<1>1. \E x \in S : \A y \in S : x <= y
  BY LeastNumber
<1>2. \E x \in S : \A y \in S : x =< y
  BY <1>1
<1> QED BY <1>2 DEF Min

\* The segments of a directory.
LEMMA SegmentsSequence ==
    ASSUME NEW Name, NEW path \in Seq(Name)
    PROVE  Segments(path) \in Seq(Name)
<1> DEFINE segs == pathSegments(path)
           nested == {i \in 2..(Len(segs) - 1) : segs[i] = Marker /\ segs[i + 1] = Child}
<1>1. segs \in Seq(Name)
  BY PathSegmentsSequence
<1>2. Segments(path) = IF nested = {} THEN segs ELSE SubSeq(segs, 1, Min(nested) - 1)
  BY DEF Segments, stripWorktree, UpTo
<1>3. CASE nested = {}
  BY <1>1, <1>2, <1>3
<1>4. CASE nested # {}
  <2>1. Len(segs) \in Nat
    BY <1>1
  <2>2. nested \in SUBSET Nat
    BY <2>1
  <2>3. Min(nested) \in nested
    BY <1>4, <2>2, LeastMin
  <2>4. PICK n \in Nat : n = Min(nested) - 1 /\ n <= Len(segs)
    <3>1. PICK m \in nested : m = Min(nested)
      BY <2>3
    <3>2. m \in Int /\ 2 <= m /\ m <= Len(segs) - 1
      BY <2>1
    <3> HIDE DEF nested, segs
    <3>3. m - 1 \in Nat /\ m - 1 <= Len(segs)
      BY <2>1, <3>2
    <3> QED BY <3>1, <3>3
  <2> HIDE DEF segs, nested
  <2>5. SubSeq(segs, 1, n) \in Seq(Name)
    BY <1>1, <2>1, <2>4
  <2> QED BY <1>2, <1>4, <2>4, <2>5
<1> QED BY <1>3, <1>4

\* A key has a length of its segments', and its beginnings are the keys of theirs.
LEMMA KeyPrefixes ==
    ASSUME NEW Name, NEW segs \in Seq(Name), NEW n \in 0..Len(segs)
    PROVE  /\ Len(UpTo(segs, n)) = n /\ UpTo(segs, n) \in Seq(Name)
           /\ Len(segmentKey(segs)) = Len(segs)
           /\ segmentKey(segs) \in Seq({FoldCase(name) : name \in Name})
           /\ segmentKey(UpTo(segs, n)) = SubSeq(segmentKey(segs), 1, n)
<1> DEFINE key == segmentKey(segs)
           Fold == {FoldCase(name) : name \in Name}
           init == UpTo(segs, n)
<1>1. Len(segs) \in Nat /\ DOMAIN segs = 1..Len(segs) /\ n \in Nat /\ n <= Len(segs)
  OBVIOUS
<1>2. /\ init \in Seq(Name) /\ Len(init) = n /\ DOMAIN init = 1..n
      /\ \A i \in 1..n : init[i] = segs[i]
  BY <1>1 DEF UpTo
<1>3. key = [i \in 1..Len(segs) |-> FoldCase(segs[i])]
  BY <1>1 DEF segmentKey
<1>4. key \in Seq(Fold) /\ Len(key) = Len(segs) /\ \A i \in 1..Len(segs) : key[i] = FoldCase(segs[i])
  <2>1. \A i \in 1..Len(segs) : FoldCase(segs[i]) \in Fold
    BY <1>1
  <2> HIDE DEF Fold, key
  <2> QED BY <1>1, <1>3, <2>1
<1>5. segmentKey(init) = [i \in 1..n |-> FoldCase(segs[i])]
  <2> HIDE DEF init
  <2> QED BY <1>2 DEF segmentKey
<1>6. SubSeq(key, 1, n) = [i \in 1..n |-> key[i]]
  <2> HIDE DEF key, Fold
  <2> QED BY <1>1, <1>4
<1>7. [i \in 1..n |-> key[i]] = [i \in 1..n |-> FoldCase(segs[i])]
  <2> HIDE DEF key
  <2> QED BY <1>1, <1>4
<1> QED BY <1>2, <1>4, <1>5, <1>6, <1>7

\* One directory encloses another when its key is that of the first segments of
\* the other, and not of all.
LEMMA EnclosesWhen ==
    ASSUME NEW M, NEW N, NEW e, NEW d, Segments(e) \in Seq(M), Segments(d) \in Seq(N)
    PROVE  Encloses(e, d) <=>
              /\ Len(Segments(e)) < Len(Segments(d))
              /\ segmentKey(Segments(e)) = segmentKey(UpTo(Segments(d), Len(Segments(e))))
<1> DEFINE se == Segments(e)
           sd == Segments(d)
           ke == segmentKey(se)
           kd == segmentKey(sd)
<1>1. Len(se) \in Nat /\ Len(sd) \in Nat
  OBVIOUS
<1>2. /\ Len(ke) = Len(se) /\ Len(kd) = Len(sd)
      /\ ke = SubSeq(ke, 1, Len(ke))
      /\ kd = SubSeq(kd, 1, Len(kd))
  <2>1. Len(se) \in 0..Len(se) /\ Len(sd) \in 0..Len(sd)
    BY <1>1
  <2>2. PICK F, G : ke \in Seq(F) /\ kd \in Seq(G)
    BY <2>1, KeyPrefixes
  <2>3. Len(ke) = Len(se) /\ Len(kd) = Len(sd)
    BY <2>1, KeyPrefixes
  <2> HIDE DEF ke, kd
  <2> QED BY <2>2, <2>3
<1>3. Len(se) <= Len(sd) => segmentKey(UpTo(sd, Len(se))) = SubSeq(kd, 1, Len(se))
  <2> SUFFICES ASSUME Len(se) <= Len(sd)
               PROVE  segmentKey(UpTo(sd, Len(se))) = SubSeq(kd, 1, Len(se))
    OBVIOUS
  <2>1. Len(se) \in 0..Len(sd)
    BY <1>1
  <2> QED BY <2>1, KeyPrefixes
<1>4. Encloses(e, d) <=> Len(ke) <= Len(kd) /\ SubSeq(ke, 1, Len(ke)) = SubSeq(kd, 1, Len(ke))
                            /\ ke # kd
  BY DEF Encloses, IsStrictPrefix, IsPrefix
<1> HIDE DEF se, sd, ke, kd
<1>5. ASSUME Encloses(e, d)
      PROVE  Len(se) < Len(sd) /\ ke = segmentKey(UpTo(sd, Len(se)))
  <2>1. Len(se) # Len(sd)
    BY <1>2, <1>4, <1>5
  <2>2. Len(se) < Len(sd)
    <3>1. Len(ke) <= Len(kd)
      BY <1>4, <1>5
    <3>2. Len(se) <= Len(sd)
      BY <1>2, <3>1
    <3> QED BY <1>1, <2>1, <3>2
  <2>3. SubSeq(ke, 1, Len(ke)) = SubSeq(kd, 1, Len(se))
    BY <1>2, <1>4, <1>5
  <2>4. segmentKey(UpTo(sd, Len(se))) = SubSeq(kd, 1, Len(se))
    BY <1>1, <1>3, <2>2
  <2> QED BY <1>2, <2>2, <2>3, <2>4
<1>6. ASSUME Len(se) < Len(sd), ke = segmentKey(UpTo(sd, Len(se)))
      PROVE  Encloses(e, d)
  BY <1>1, <1>2, <1>3, <1>4, <1>6
<1> QED BY <1>5, <1>6 DEF se, sd, ke

\* What a directory is of its own account, how deep it lies, and its key.
Own(shipped, d) ==
    IF shipped[d] = {} THEN Unnamed ELSE shippedProject(Segments(d), shipped[d])
Size(d) == Len(Segments(d))
Key(d) == segmentKey(Segments(d))

\* What the pass knows once it has walked some directories: what they are, and
\* of every key what the projects among them with that key are called.
Resolved(some, shipped, acc) ==
    /\ DOMAIN acc.out = some
    /\ \A e \in some : acc.out[e] # Unnamed => Key(e) \in DOMAIN acc.projects
    /\ \A k \in DOMAIN acc.projects :
          \E e \in some : acc.out[e] # Unnamed /\ Key(e) = k /\ acc.projects[k] = acc.out[e]
    /\ \A e \in some : Segments(e) = <<>> => acc.out[e] = Unnamed
    /\ ResolvedByContainment(some, shipped, acc.out)

\* The directories around one that are projects, and the innermost of them.
Around(some, out, d) == {e \in some : Encloses(e, d) /\ out[e] # Unnamed}
Innermost(some, out, d) ==
    {e \in Around(some, out, d) : \A f \in Around(some, out, d) : ~Encloses(e, f)}

\* What resolve promises, in the terms of this argument.
LEMMA ContainmentMeans ==
    ASSUME NEW some, NEW shipped, NEW out
    PROVE  ResolvedByContainment(some, shipped, out) <=>
             \A d \in some :
                out[d] \in IF Own(shipped, d) # Unnamed THEN {Own(shipped, d)}
                           ELSE IF Innermost(some, out, d) # {}
                                THEN {out[e] : e \in Innermost(some, out, d)}
                                ELSE {nameProject(Segments(d))}
  BY DEF ResolvedByContainment, Own, Innermost, Around

\* The segments of a directory are a sequence, and so is its key.
LEMMA DirectorySegments ==
    ASSUME NEW d \in Range(Directory)
    PROVE  /\ Segments(d) \in Seq(Range(d)) /\ Size(d) \in Nat
           /\ Len(Key(d)) = Size(d)
           /\ Size(d) = 0 <=> Segments(d) = <<>>
<1>1. Segments(d) \in Seq(Range(d))
  BY DirectoryAssumption, SegmentsSequence
<1>2. Size(d) \in Nat /\ (Size(d) = 0 <=> Segments(d) = <<>>)
  BY <1>1 DEF Size
<1>3. Len(Key(d)) = Size(d)
  <2>1. Size(d) \in 0..Len(Segments(d))
    BY <1>2 DEF Size
  <2> QED BY <1>1, <2>1, KeyPrefixes DEF Size, Key
<1> QED BY <1>1, <1>2, <1>3

\* A directory that encloses another is the shorter of the two.
LEMMA EnclosesSize ==
    ASSUME NEW e \in Range(Directory), NEW d \in Range(Directory)
    PROVE  /\ Encloses(e, d) <=>
                 Size(e) < Size(d) /\ Key(e) = segmentKey(UpTo(Segments(d), Size(e)))
           /\ ~Encloses(d, d)
<1>1. Segments(e) \in Seq(Range(e)) /\ Segments(d) \in Seq(Range(d)) /\ Size(d) \in Nat
  BY DirectorySegments
<1>2. Encloses(e, d) <=>
                 Size(e) < Size(d) /\ Key(e) = segmentKey(UpTo(Segments(d), Size(e)))
  BY <1>1, EnclosesWhen DEF Size, Key
<1>3. Encloses(d, d) => Size(d) < Size(d)
  BY <1>1, EnclosesWhen DEF Size
<1> QED BY <1>1, <1>2, <1>3

\* What a directory inherits is what the innermost project around it is called,
\* if there is one.
LEMMA AncestorInnermost ==
    ASSUME NEW some \in SUBSET Range(Directory), NEW d \in Range(Directory),
           NEW shipped, NEW acc, Resolved(some, shipped, acc)
    PROVE  LET anc == ancestorProject(Segments(d), acc.projects)
           IN  /\ Innermost(some, acc.out, d) = {} => anc = Unnamed
               /\ Innermost(some, acc.out, d) # {} =>
                     /\ anc # Unnamed
                     /\ \E e \in Innermost(some, acc.out, d) : anc = acc.out[e]
<1> DEFINE segs == Segments(d)
           anc == ancestorProject(segs, acc.projects)
           cuts == {n \in 1..(Len(segs) - 1) : segmentKey(UpTo(segs, n)) \in DOMAIN acc.projects}
           around == Around(some, acc.out, d)
           inner == Innermost(some, acc.out, d)
<1>1. segs \in Seq(Range(d)) /\ Len(segs) \in Nat /\ Size(d) = Len(segs)
  BY DirectorySegments DEF Size
<1>2. anc = IF cuts = {} THEN Unnamed ELSE acc.projects[segmentKey(UpTo(segs, Max(cuts)))]
  BY DEF ancestorProject
<1>3. ASSUME NEW e \in around
      PROVE  /\ e \in some /\ e \in Range(Directory) /\ Encloses(e, d)
             /\ acc.out[e] # Unnamed /\ Size(e) \in cuts
  <2>1. e \in some /\ e \in Range(Directory) /\ Encloses(e, d) /\ acc.out[e] # Unnamed
    BY DEF Around
  <2>2. Segments(e) # <<>> /\ Key(e) \in DOMAIN acc.projects
    BY <2>1 DEF Resolved
  <2>3. Size(e) \in Nat /\ Size(e) # 0
    BY <2>1, <2>2, DirectorySegments
  <2>4. Size(e) < Len(segs) /\ Key(e) = segmentKey(UpTo(segs, Size(e)))
    BY <1>1, <2>1, EnclosesSize
  <2>5. Size(e) \in 1..(Len(segs) - 1)
    BY <1>1, <2>3, <2>4
  <2> QED BY <2>1, <2>2, <2>4, <2>5
<1>4. CASE cuts = {}
  <2>1. around = {}
    BY <1>3, <1>4
  <2>2. inner = {}
    BY <2>1 DEF Innermost
  <2> QED BY <1>2, <1>4, <2>2
<1>5. CASE cuts # {}
  <2>1. cuts \in SUBSET Nat /\ IsFiniteSet(cuts)
    <3>1. IsFiniteSet(1..(Len(segs) - 1))
      BY <1>1, FS_Interval
    <3>2. cuts \in SUBSET (1..(Len(segs) - 1))
      OBVIOUS
    <3> HIDE DEF cuts, segs
    <3>3. 1..(Len(segs) - 1) \in SUBSET Nat
      BY <1>1
    <3> QED BY <3>1, <3>2, <3>3, FS_Subset
  <2>2. PICK k \in cuts : k = Max(cuts) /\ \A n \in cuts : n <= k
    <3> HIDE DEF cuts
    <3> QED BY <1>5, <2>1, GreatestNumber
  <2>3. k \in Nat /\ 1 <= k /\ k < Len(segs) /\ segmentKey(UpTo(segs, k)) \in DOMAIN acc.projects
    BY <1>1
  <2>4. anc = acc.projects[segmentKey(UpTo(segs, k))]
    BY <1>2, <1>5, <2>2
  <2>5. PICK e \in some : /\ acc.out[e] # Unnamed /\ Key(e) = segmentKey(UpTo(segs, k))
                          /\ anc = acc.out[e]
    BY <2>3, <2>4 DEF Resolved
  <2>6. Size(e) = k
    <3>1. Len(UpTo(segs, k)) = k /\ UpTo(segs, k) \in Seq(Range(d))
      <4>1. k \in 0..Len(segs)
        BY <1>1, <2>3
      <4> QED BY <1>1, <4>1, KeyPrefixes
    <3>2. Len(segmentKey(UpTo(segs, k))) = k
      <4>1. Len(UpTo(segs, k)) \in 0..Len(UpTo(segs, k))
        BY <2>3, <3>1
      <4> HIDE DEF segs
      <4> QED BY <3>1, <4>1, KeyPrefixes
    <3>3. Len(Key(e)) = Size(e)
      BY <2>5, DirectorySegments
    <3> QED BY <2>5, <3>2, <3>3
  <2>7. Encloses(e, d)
    <3>1. Size(e) < Size(d) /\ Key(e) = segmentKey(UpTo(segs, Size(e))) /\ e \in Range(Directory)
      BY <1>1, <2>3, <2>5, <2>6
    <3> QED BY <3>1, EnclosesSize
  <2>8. e \in around
    BY <2>5, <2>7 DEF Around
  <2>9. ASSUME NEW f \in around PROVE ~Encloses(e, f)
    <3>1. Size(f) \in cuts /\ f \in Range(Directory) /\ e \in Range(Directory)
      BY <1>3, <2>8
    <3>2. Size(f) <= k /\ Size(f) \in Nat
      BY <2>2, <3>1, DirectorySegments
    <3>3. ~(Size(e) < Size(f))
      BY <2>3, <2>6, <3>2
    <3> QED BY <3>1, <3>3, EnclosesSize
  <2>10. e \in inner
    BY <2>8, <2>9 DEF Innermost
  <2> QED BY <2>5, <2>10
<1> QED BY <1>4, <1>5

\* One more directory, no shorter than those before it.
LEMMA ClaimResolves ==
    ASSUME NEW some \in SUBSET Range(Directory), NEW i \in DOMAIN Directory,
           Directory[i] \notin some,
           \A e \in some : Size(e) <= Size(Directory[i]),
           NEW shipped, Segments(Directory[i]) = <<>> => shipped[Directory[i]] = {},
           NEW acc, Resolved(some, shipped, acc)
    PROVE  Resolved(some \cup {Directory[i]}, shipped, Claim(shipped, i, acc))
<1> DEFINE d == Directory[i]
           all == some \cup {d}
           segs == Segments(d)
           own == Own(shipped, d)
           anc == ancestorProject(segs, acc.projects)
           project == Either(Either(own, anc), nameProject(segs))
           new == Claim(shipped, i, acc)
<1>1. d \in Range(Directory) /\ all \in SUBSET Range(Directory)
  BY DEF Range
<1>2. /\ new.out = Entered(acc.out, d, project)
      /\ new.projects = IF project = Unnamed THEN acc.projects
                        ELSE Entered(acc.projects, Key(d), project)
  BY DEF Claim, Own, Key
<1>3. DOMAIN acc.out = some
  BY DEF Resolved
<1>4. /\ DOMAIN new.out = all /\ new.out[d] = project
      /\ \A e \in some : new.out[e] = acc.out[e]
  BY <1>2, <1>3 DEF Entered
<1>5. ASSUME NEW e \in some PROVE ~Encloses(d, e)
  <2>1. Size(e) <= Size(d) /\ Size(e) \in Nat /\ Size(d) \in Nat /\ e \in Range(Directory)
    BY <1>1, DirectorySegments
  <2> HIDE DEF d
  <2> QED BY <1>1, <2>1, EnclosesSize
<1>6. ~Encloses(d, d)
  <2> HIDE DEF d
  <2> QED BY <1>1, EnclosesSize
<1>7. segs = <<>> => project = Unnamed
  <2> SUFFICES ASSUME segs = <<>> PROVE project = Unnamed
    OBVIOUS
  <2>1. own = Unnamed
    BY DEF Own
  <2>2. anc = Unnamed
    <3>1. Len(segs) = 0
      OBVIOUS
    <3>2. 1..(Len(segs) - 1) = {}
      BY <3>1
    <3> HIDE DEF segs
    <3> QED BY <3>2 DEF ancestorProject
  <2>3. nameProject(segs) = Unnamed
    BY DEF nameProject
  <2> HIDE DEF own, anc, segs
  <2> QED BY <2>1, <2>2, <2>3 DEF Either
<1> HIDE DEF new
<1>8. \A e \in all : Segments(e) = <<>> => new.out[e] = Unnamed
  <2>1. \A e \in some : Segments(e) = <<>> => acc.out[e] = Unnamed
    BY DEF Resolved
  <2> HIDE DEF project
  <2> QED BY <1>4, <1>7, <2>1
<1>9. DOMAIN acc.projects \subseteq DOMAIN new.projects
      /\ \A k \in DOMAIN acc.projects : new.projects[k] = acc.projects[k]
  BY <1>2 DEF Entered
<1>10. ASSUME NEW e \in all, new.out[e] # Unnamed PROVE Key(e) \in DOMAIN new.projects
  <2>1. CASE e \in some
    BY <1>4, <1>9, <1>10, <2>1 DEF Resolved
  <2>2. CASE e = d
    <3>1. project # Unnamed
      BY <1>4, <1>10, <2>2
    <3> HIDE DEF project, d
    <3> QED BY <1>2, <2>2, <3>1 DEF Entered
  <2> QED BY <2>1, <2>2
<1>11. ASSUME NEW k \in DOMAIN new.projects
       PROVE  \E e \in all : new.out[e] # Unnamed /\ Key(e) = k /\ new.projects[k] = new.out[e]
  <2>1. CASE k \in DOMAIN acc.projects
    <3>1. PICK e \in some : acc.out[e] # Unnamed /\ Key(e) = k /\ acc.projects[k] = acc.out[e]
      BY <2>1 DEF Resolved
    <3> QED BY <1>4, <1>9, <2>1, <3>1
  <2>2. CASE k \notin DOMAIN acc.projects
    <3>1. project # Unnamed /\ k = Key(d) /\ new.projects[k] = project
      BY <1>2, <2>2 DEF Entered
    <3> HIDE DEF project, d
    <3> QED BY <1>4, <3>1
  <2> QED BY <2>1, <2>2
<1>12. ASSUME NEW e \in all
       PROVE  /\ Around(all, new.out, e) = Around(some, acc.out, e)
              /\ Innermost(all, new.out, e) = Innermost(some, acc.out, e)
  <2>1. ~Encloses(d, e)
    BY <1>5, <1>6
  <2>2. Around(all, new.out, e) = Around(some, acc.out, e)
    <3> HIDE DEF d
    <3> QED BY <1>4, <2>1 DEF Around
  <2> QED BY <2>2 DEF Innermost
<1>13. \A e \in all : {new.out[f] : f \in Innermost(all, new.out, e)}
                        = {acc.out[f] : f \in Innermost(some, acc.out, e)}
  <2> SUFFICES ASSUME NEW e \in all
               PROVE  {new.out[f] : f \in Innermost(all, new.out, e)}
                        = {acc.out[f] : f \in Innermost(some, acc.out, e)}
    OBVIOUS
  <2>1. Innermost(some, acc.out, e) \subseteq some
    BY DEF Innermost, Around
  <2>2. \A f \in Innermost(some, acc.out, e) : new.out[f] = acc.out[f]
    BY <1>4, <2>1
  <2> QED BY <1>12, <2>2
<1>14. ASSUME NEW e \in all
       PROVE  new.out[e] \in IF Own(shipped, e) # Unnamed THEN {Own(shipped, e)}
                             ELSE IF Innermost(all, new.out, e) # {}
                                  THEN {new.out[f] : f \in Innermost(all, new.out, e)}
                                  ELSE {nameProject(Segments(e))}
  <2>1. CASE e \in some
    <3>1. acc.out[e] \in IF Own(shipped, e) # Unnamed THEN {Own(shipped, e)}
                         ELSE IF Innermost(some, acc.out, e) # {}
                              THEN {acc.out[f] : f \in Innermost(some, acc.out, e)}
                              ELSE {nameProject(Segments(e))}
      BY <2>1, ContainmentMeans DEF Resolved
    <3> QED BY <1>4, <1>12, <1>13, <2>1, <3>1
  <2>2. CASE e = d
    <3>1. /\ Innermost(some, acc.out, d) = {} => anc = Unnamed
          /\ Innermost(some, acc.out, d) # {} =>
                /\ anc # Unnamed
                /\ \E f \in Innermost(some, acc.out, d) : anc = acc.out[f]
      <4> HIDE DEF d
      <4> QED BY <1>1, AncestorInnermost
    <3>2. project = IF own # Unnamed THEN own ELSE IF anc # Unnamed THEN anc ELSE nameProject(segs)
      BY DEF Either
    <3>3. new.out[d] = project
      BY <1>4
    <3>4. /\ Innermost(all, new.out, d) = Innermost(some, acc.out, d)
          /\ {new.out[f] : f \in Innermost(all, new.out, d)}
                = {acc.out[f] : f \in Innermost(some, acc.out, d)}
      BY <1>12, <1>13
    <3> HIDE DEF project, anc
    <3>5. new.out[d] \in IF Own(shipped, d) # Unnamed THEN {Own(shipped, d)}
                         ELSE IF Innermost(all, new.out, d) # {}
                              THEN {new.out[f] : f \in Innermost(all, new.out, d)}
                              ELSE {nameProject(Segments(d))}
      BY <3>1, <3>2, <3>3, <3>4
    <3> QED BY <2>2, <3>5
  <2> QED BY <2>1, <2>2
<1>15. ResolvedByContainment(all, shipped, new.out)
  BY <1>14, ContainmentMeans
<1>16. Resolved(all, shipped, new)
  BY <1>4, <1>8, <1>10, <1>11, <1>15 DEF Resolved
<1> QED BY <1>16 DEF new

\* The last of some directories in the order they are walked.
LEMMA WalkedLast ==
    ASSUME NEW S \in SUBSET DOMAIN Directory, S # {}
    PROVE  /\ Walked(S) \in S
           /\ \A j \in S : Size(Directory[j]) <= Size(Directory[Walked(S)])
<1> DEFINE Later(i, j) == \/ Size(Directory[j]) < Size(Directory[i])
                          \/ Size(Directory[j]) = Size(Directory[i]) /\ j <= i
           P == {T \in SUBSET S : T = {} \/ \E i \in T : \A j \in T : Later(i, j)}
<1>1. /\ IsFiniteSet(S)
      /\ \A i \in S : i \in Nat /\ Size(Directory[i]) \in Nat
  <2>1. DOMAIN Directory = 1..Len(Directory) /\ Len(Directory) \in Nat
    BY DirectoryAssumption
  <2>2. IsFiniteSet(1..Len(Directory))
    BY <2>1, FS_Interval
  <2>3. \A i \in S : Directory[i] \in Range(Directory)
    BY DEF Range
  <2>4. \A i \in S : i \in Nat
    BY <2>1
  <2> QED BY <2>1, <2>2, <2>3, <2>4, FS_Subset, DirectorySegments
<1>2. {} \in P
  OBVIOUS
<1>3. ASSUME NEW T \in P, NEW x \in S \ T PROVE T \cup {x} \in P
  <2>1. CASE T = {}
    <3>1. Later(x, x)
      BY <1>1
    <3> HIDE DEF Later
    <3> QED BY <2>1, <3>1
  <2>2. CASE T # {}
    <3>1. PICK i \in T : \A j \in T : Later(i, j)
      BY <2>2
    <3>2. \A j \in T : j \in S
      OBVIOUS
    <3>3. CASE Later(i, x)
      <4> HIDE DEF Later
      <4>1. \A j \in T \cup {x} : Later(i, j)
        BY <3>1, <3>3
      <4> QED BY <4>1
    <3>4. CASE ~Later(i, x)
      <4>1. \A j \in T : Later(x, j)
        <5> SUFFICES ASSUME NEW j \in T PROVE Later(x, j)
          OBVIOUS
        <5>1. Later(i, j) /\ i \in S /\ j \in S /\ x \in S
          BY <3>1
        <5> QED BY <1>1, <3>4, <5>1
      <4>2. Later(x, x)
        BY <1>1
      <4> HIDE DEF Later
      <4>3. \A j \in T \cup {x} : Later(x, j)
        BY <4>1, <4>2
      <4> QED BY <4>3
    <3> QED BY <3>3, <3>4
  <2> QED BY <2>1, <2>2
<1>4. P = SUBSET S
  <2> HIDE DEF P
  <2>1. P \in SUBSET (SUBSET S)
    BY DEF P
  <2> QED BY <1>1, <1>2, <1>3, <2>1, SetInduction
<1>5. \E i \in S : \A j \in S : Later(i, j)
  <2> HIDE DEF Later
  <2> QED BY <1>4
<1>6. Walked(S) \in S /\ \A j \in S : Later(Walked(S), j)
  BY <1>5 DEF Walked, Size
<1>7. \A j \in S : Size(Directory[j]) <= Size(Directory[Walked(S)])
  BY <1>1, <1>6
<1> QED BY <1>6, <1>7

Nothing == [out |-> <<>>, projects |-> <<>>]

\* g is what the pass knows after each set of directories.
KnownAt(g, shipped, s) ==
    IF s = {} THEN Nothing ELSE Claim(shipped, Walked(s), g[s \ {Walked(s)}])
Walks(g, shipped, S) ==
    g = [s \in SUBSET S |->
            IF s = {} THEN Nothing ELSE Claim(shipped, Walked(s), g[s \ {Walked(s)}])]

\* What the pass over the directories returns, without the fold.
LEMMA ResolveUnfolds ==
    ASSUME NEW dirs, NEW shipped
    PROVE  LET S == {i \in DOMAIN Directory : Directory[i] \in dirs}
           IN  resolve(dirs, shipped) = (CHOOSE g : Walks(g, shipped, S))[S].out
  BY DEF resolve, MapThenFoldSet, Walks, Nothing

\* The pass is well defined.
LEMMA WalksExist ==
    ASSUME NEW shipped, NEW S \in SUBSET DOMAIN Directory, IsFiniteSet(S)
    PROVE  \E g : Walks(g, shipped, S)
<1> DEFINE Small(n) == {s \in SUBSET S : Cardinality(s) <= n}
           Upto(g, n) == /\ g = [s \in Small(n) |-> g[s]]
                         /\ \A s \in Small(n) : g[s] = KnownAt(g, shipped, s)
           P == {n \in Nat : \E g : Upto(g, n)}
<1>1. \A s \in SUBSET S : IsFiniteSet(s) /\ Cardinality(s) \in Nat
  BY FS_Subset, FS_CardinalityType
<1>2. ASSUME NEW s \in SUBSET S, s # {}
      PROVE  /\ s \ {Walked(s)} \in SUBSET S
             /\ Cardinality(s \ {Walked(s)}) = Cardinality(s) - 1
             /\ Cardinality(s) # 0
  <2>1. Walked(s) \in s
    BY <1>2, WalkedLast
  <2> QED BY <1>1, <1>2, <2>1, FS_RemoveElement, FS_EmptySet
<1>3. 0 \in P
  <2> DEFINE g == [s \in Small(0) |-> Nothing]
  <2>1. ASSUME NEW s \in Small(0) PROVE s = {}
    <3>1. Cardinality(s) \in Nat /\ Cardinality(s) <= 0
      BY <1>1
    <3>2. Cardinality(s) = 0
      BY <3>1
    <3> QED BY <1>2, <3>2
  <2>2. \A s \in Small(0) : g[s] = KnownAt(g, shipped, s)
    BY <2>1 DEF KnownAt
  <2>3. Upto(g, 0)
    BY <2>2
  <2> QED BY <2>3
<1>4. ASSUME NEW n \in P PROVE n + 1 \in P
  <2>1. PICK g : Upto(g, n)
    OBVIOUS
  <2> DEFINE h == [s \in Small(n + 1) |->
                      IF s \in Small(n) THEN g[s] ELSE KnownAt(g, shipped, s)]
  <2>2. Small(n) \subseteq Small(n + 1)
    BY <1>1
  <2>3. ASSUME NEW s \in Small(n + 1) PROVE h[s] = KnownAt(h, shipped, s)
    <3>1. h[s] = KnownAt(g, shipped, s)
      BY <2>1
    <3>2. CASE s = {}
      BY <3>1, <3>2 DEF KnownAt
    <3>3. CASE s # {}
      <4>1. s \ {Walked(s)} \in Small(n)
        BY <1>1, <1>2, <3>3
      <4>2. h[s \ {Walked(s)}] = g[s \ {Walked(s)}]
        BY <2>2, <4>1
      <4> HIDE DEF h, Small
      <4> QED BY <3>1, <3>3, <4>2 DEF KnownAt
    <3> QED BY <3>2, <3>3
  <2>4. h = [s \in Small(n + 1) |-> h[s]]
    OBVIOUS
  <2> HIDE DEF h, Small
  <2>5. Upto(h, n + 1)
    BY <2>3, <2>4
  <2> HIDE DEF Upto
  <2> QED BY <2>5
<1>5. P = Nat
  <2> HIDE DEF P
  <2>1. P \in SUBSET Nat
    BY DEF P
  <2> QED BY <1>3, <1>4, <2>1, NumberInduction
<1>6. Cardinality(S) \in Nat /\ Small(Cardinality(S)) = SUBSET S
  BY <1>1, FS_Subset
<1> HIDE DEF Upto
<1>7. PICK g : Upto(g, Cardinality(S))
  BY <1>5, <1>6
<1>8. \A s \in SUBSET S : g[s] = KnownAt(g, shipped, s)
  BY <1>6, <1>7 DEF Upto
<1>9. g = [s \in SUBSET S |-> g[s]]
  BY <1>6, <1>7 DEF Upto
<1>10. [s \in SUBSET S |-> g[s]] = [s \in SUBSET S |-> KnownAt(g, shipped, s)]
  BY <1>8
<1> QED BY <1>9, <1>10 DEF Walks, KnownAt

\* Whatever shipped where, and whatever the directories, what resolve makes of
\* them is decided by what lies around each.
LEMMA ResolveContains ==
    ASSUME NEW dirs \in SUBSET Range(Directory), NEW shipped, ~Panics(dirs, shipped)
    PROVE  ResolvedByContainment(dirs, shipped, resolve(dirs, shipped))
<1> DEFINE S == {i \in DOMAIN Directory : Directory[i] \in dirs}
           g == CHOOSE h : Walks(h, shipped, S)
           Dirs(s) == {Directory[i] : i \in s}
           pick == [s \in SUBSET S |-> Walked(s)]
           P == {s \in SUBSET S : Resolved(Dirs(s), shipped, g[s])}
<1>1. IsFiniteSet(S) /\ S \in SUBSET DOMAIN Directory
  <2>1. DOMAIN Directory = 1..Len(Directory) /\ Len(Directory) \in Nat
    BY DirectoryAssumption
  <2>2. IsFiniteSet(DOMAIN Directory)
    BY <2>1, FS_Interval
  <2> QED BY <2>2, FS_Subset
<1>2. Walks(g, shipped, S)
  <2> HIDE DEF S
  <2> QED BY <1>1, WalksExist
<1>3. Picks(pick, S) /\ \A s \in SUBSET S : pick[s] = Walked(s)
  BY <1>1, WalkedLast DEF Picks
<1>4. {} \in P
  <2>1. g[{}] = Nothing
    BY <1>2 DEF Walks
  <2>2. DOMAIN Nothing.out = {} /\ DOMAIN Nothing.projects = {}
    BY DEF Nothing
  <2>3. Dirs({}) = {}
    OBVIOUS
  <2>4. Resolved({}, shipped, Nothing)
    BY <2>2 DEF Resolved, ResolvedByContainment
  <2> QED BY <2>1, <2>3, <2>4
<1>5. ASSUME NEW s \in SUBSET S, s # {}, s \ {pick[s]} \in P
      PROVE  s \in P
  <2> DEFINE i == Walked(s)
             t == s \ {i}
  <2>1. i \in s /\ i \in DOMAIN Directory /\ Directory[i] \in dirs /\ pick[s] = i
        /\ \A j \in s : Size(Directory[j]) <= Size(Directory[i])
    BY <1>1, <1>3, <1>5, WalkedLast
  <2>2. g[s] = Claim(shipped, i, g[t])
    BY <1>2, <1>5 DEF Walks
  <2>3. Resolved(Dirs(t), shipped, g[t]) /\ t \in SUBSET S
    BY <1>5, <2>1
  <2>4. Directory[i] \notin Dirs(t)
    BY <1>1, <2>1, DirectoryAssumption DEF IsInjective
  <2>5. \A e \in Dirs(t) : Size(e) <= Size(Directory[i])
    BY <2>1
  <2>6. Dirs(t) \in SUBSET Range(Directory)
    BY <1>1 DEF Range
  <2>7. Segments(Directory[i]) = <<>> => shipped[Directory[i]] = {}
    BY <2>1 DEF Panics
  <2>8. Dirs(s) = Dirs(t) \cup {Directory[i]}
    BY <2>1
  <2> HIDE DEF g, t, i, Dirs
  <2>9. Resolved(Dirs(t) \cup {Directory[i]}, shipped, Claim(shipped, i, g[t]))
    BY <2>1, <2>3, <2>4, <2>5, <2>6, <2>7, ClaimResolves
  <2> QED BY <2>2, <2>8, <2>9
<1>6. P = SUBSET S
  <2> HIDE DEF P
  <2>1. P \in SUBSET (SUBSET S)
    BY DEF P
  <2>2. \A s \in SUBSET S : s # {} /\ s \ {pick[s]} \in P => s \in P
    BY <1>5
  <2>3. Picks(pick, S)
    BY <1>3
  <2>4. IsFiniteSet(S)
    BY <1>1
  <2> HIDE DEF S, pick
  <2> QED BY <1>4, <2>1, <2>2, <2>3, <2>4, PickInduction, Z3
<1>7. Dirs(S) = dirs
  BY DEF Range
<1>8. resolve(dirs, shipped) = g[S].out
  BY ResolveUnfolds
<1>9. Resolved(dirs, shipped, g[S])
  BY <1>6, <1>7
<1> HIDE DEF g, S
<1> QED BY <1>8, <1>9 DEF Resolved

----------------------------------------------------------------------------
\* A stored record names a directory there is, or none.
LEMMA DirectoriesKnown ==
    TypeOK => DOMAIN Shipped(records) \in SUBSET Range(Directory)
<1> SUFFICES ASSUME TypeOK, NEW dir \in DOMAIN Shipped(records)
             PROVE  dir \in Range(Directory)
  OBVIOUS
<1>1. dir \in Directories(dailyGrid(records))
  BY DEF Shipped, shippedByDirectory
<1>2. PICK q \in records : q.cwd = dir
  BY <1>1 DEF Directories, dailyGrid, folded
<1>3. PICK r \in Record : q = Stored(r, r \in filled)
  BY <1>2 DEF records, Held
<1> DEFINE line == Line[r[1]][r[2]]
<1>4. line.cwd \in Range(Directory) /\ <<>> \in Range(Directory)
  BY LineAssumption
<1>5. q.cwd = IF r \in filled THEN line.cwd ELSE <<>>
  <2>1. q.cwd = IF r \in filled THEN Identify(line).cwd ELSE <<>>
    BY <1>3 DEF Stored
  <2> HIDE DEF line
  <2>2. Identify(line).cwd = line.cwd
    BY DEF Identify
  <2> QED BY <2>1, <2>2
<1> HIDE DEF line
<1> QED BY <1>2, <1>4, <1>5

\* Whatever directories are known so far, each belongs to the innermost project
\* around it unless it shipped something itself: the one pass over sorted
\* directories (derive/project.go, resolve) reads no project that a later one
\* would have changed.
THEOREM InnermostProject == Spec => []Contained
<1>1. TypeOK => Contained
  BY DirectoriesKnown, ResolveContains DEF Contained
<1> QED BY <1>1, ExtractionTyped, PTL

\* The records, and so every report made of them, are what they would be had this
\* build collected them all, as soon as each origin it can read is walked to what
\* is held of it, whoever walked it, what failed on the way, and whatever lies
\* behind an origin it cannot read (Reprocessor.Run, SaveExtracted).
THEOREM WalkedIsHealed ==
    Spec => []((\A o \in Origin \ Sealed : mark[o] = held[o]) => records = Reread)
<1>1. ASSUME TypeOK, MarkHonest, \A o \in Origin \ Sealed : mark[o] = held[o]
      PROVE  records = Reread
  <2>1. ASSUME NEW r \in Held, Readable(r) PROVE r \in filled
    <3>1. PICK o \in Origin : \E s \in 1..Length[o] : r = <<o, s>>
      BY DEF Held, Record
    <3>2. PICK s \in 1..Length[o] : r = <<o, s>>
      BY <3>1
    <3>3. s <= held[o] /\ s \in Nat /\ 1 <= s
      <4>1. Length[o] \in Nat /\ r[1] = o /\ r[2] = s /\ r[2] <= held[r[1]]
        BY <3>2, ExtractionAssumption DEF Held
      <4> QED BY <4>1
    <3>6. held[o] \in Nat
      BY <1>1 DEF TypeOK, ExtractionTypeOK
    <3>4. o \notin Sealed
      BY <2>1, <3>2 DEF Readable
    <3>5. s \in 1..mark[o] /\ Readable(<<o, s>>)
      BY <1>1, <2>1, <3>2, <3>3, <3>4, <3>6
    <3> QED BY <1>1, <3>2, <3>5 DEF MarkHonest
  <2>2. \A r \in Held : (Readable(r) \/ r \in filled) = (r \in filled)
    BY <2>1
  <2>3. \A r \in Held : Stored(r, Readable(r) \/ r \in filled) = Stored(r, r \in filled)
    BY <2>2
  <2> QED BY <2>3 DEF records, Reread
<1> QED BY <1>1, ExtractionTyped, MarksAreHonest, PTL
=============================================================================
