------------------------------ MODULE Archive ------------------------------
(***************************************************************************)
(* The `records` table of one node (internal/store) and the pure queries   *)
(* anti-entropy makes of it.  A table is a set of records; a record keeps  *)
(* the identity the code tells records apart by: the origin that issued    *)
(* it, its sequence number there, and its line.                            *)
(*                                                                         *)
(* A Line stands for what the semantic indexes and the content hash see of *)
(* a transcript line: two records of one origin with equal lines collide   *)
(* in records_semantic_uuid (or records_semantic_hash), and two records    *)
(* have equal content hashes exactly when their lines are equal.  The      *)
(* sealed body and the extracted columns ride along and are left out.      *)
(***************************************************************************)
EXTENDS Integers, FiniteSets, FiniteSetsExt, Sequences

CONSTANTS
    Origin,      \* origin ids
    Line,        \* transcript lines
    BucketSize   \* sequence numbers covered by one digest (1000 in the code)

ASSUME BucketSizeAssumption == BucketSize \in Nat \ {0}

Record == [origin : Origin, seq : Nat \ {0}, line : Line]

OfOrigin(table, o) == {r \in table : r.origin = o}

Seqs(table, o) == {r.seq : r \in OfOrigin(table, o)}

\* The entry of the version vector: max(seq), and 0 for an origin not held.
Watermark(table, o) == Max({0} \cup Seqs(table, o))

\* (mutant) Without ORDER BY: any records above, here the newest.
SinceUnordered(table, o, after, limit) ==
    LET above == {r \in OfOrigin(table, o) : r.seq > after}
    IN  {r \in above : Cardinality({q \in above : q.seq > r.seq}) < limit}

\* The first `limit` records of an origin above a sequence number.
Since(table, o, after, limit) ==
    LET above == {r \in OfOrigin(table, o) : r.seq > after}
    IN  {r \in above : Cardinality({q \in above : q.seq < r.seq}) < limit}

\* What tables are like when nothing went wrong: no hole below a record.
Has(table, o, q) == \E r \in table : r.origin = o /\ r.seq = q

Dense(table) == \A r \in table : \A q \in 1..r.seq : Has(table, r.origin, q)

----------------------------------------------------------------------------
(* Appending *)

\* (mutant) A counter that starts at 0.
WithLocalFromZero(table, o, lines) ==
    table \cup
    {[origin |-> o, seq |-> Watermark(table, o) + i - 1, line |-> lines[i]] :
        i \in DOMAIN lines}

\* (mutant) The last sequence number is issued again, and replaces its record.
WithLocalReused(table, o, lines) ==
    LET next == Max({1, Watermark(table, o)})
    IN  {r \in table : r.origin = o => r.seq < next} \cup
        {[origin |-> o, seq |-> next + i - 1, line |-> lines[i]] : i \in DOMAIN lines}

\* A local append: consecutive sequence numbers from max(seq) + 1 up.  The
\* lines are those of the batch that are not held yet, in order: a line already
\* held consumes no sequence number.
WithLocal(table, o, lines) ==
    table \cup
    {[origin |-> o, seq |-> Watermark(table, o) + i, line |-> lines[i]] :
        i \in DOMAIN lines}

\* (mutant) A conflicting record is discarded.
ForkEvidenceDiscarded(table, batch) == {}

\* A remote append looks each record of the batch up by (origin, seq).
\* Held with another hash: fork evidence, for the quarantine.
ForkEvidence(table, batch) ==
    {r \in batch : \E h \in table :
        h.origin = r.origin /\ h.seq = r.seq /\ h.line # r.line}

\* (mutant) Only an exact duplicate is refused.
InsertableMerging(table, batch) == batch \ table

\* Not held, and no unique index objects: inserted.  A batch is what Since
\* returned from a table with the same indexes, so no two of its records
\* collide with each other and the order of the inserts does not matter.
Insertable(table, batch) ==
    {r \in batch : \A h \in table :
        h.origin = r.origin => h.seq # r.seq /\ h.line # r.line}

----------------------------------------------------------------------------
(* Digests *)

Bucket(r) == (r.seq - 1) \div BucketSize

InBucket(table, o, b) == {r \in OfOrigin(table, o) : Bucket(r) = b}

\* Buckets both tables hold the same number of records of, but not the same
\* records.  The bucket's contents stand for its "count:hash" digest.
Mismatched(mine, theirs, o) ==
    {b \in {Bucket(r) : r \in OfOrigin(mine, o)} :
        /\ InBucket(mine, o, b) # InBucket(theirs, o, b)
        /\ Cardinality(InBucket(mine, o, b)) = Cardinality(InBucket(theirs, o, b))}

\* The sequence just below the lowest mismatched bucket, or -1.
FirstMismatch(mine, theirs, o) ==
    IF Mismatched(mine, theirs, o) = {} THEN -1
    ELSE Min(Mismatched(mine, theirs, o)) * BucketSize

\* (mutant) The watermark alone decides.
ResendFromWatermark(mine, theirs, o) ==
    IF Watermark(theirs, o) < Watermark(mine, o) THEN Watermark(theirs, o) ELSE -1

\* The sequence to send above, or -1 to send nothing.
ResendFrom(mine, theirs, o) ==
    LET peerSeq == Watermark(theirs, o)
        from    == FirstMismatch(mine, theirs, o)
    IN  IF peerSeq < Watermark(mine, o) /\ ~(0 <= from /\ from < peerSeq)
        THEN peerSeq
        ELSE from

----------------------------------------------------------------------------
(* A node's copy of an origin is its records of it in order; entry i is the  *)
(* set of lines held at i, one line if no hole and no fork is there.         *)

Copy(table, o) ==
    [i \in 1..Watermark(table, o) |->
        {r.line : r \in {q \in OfOrigin(table, o) : q.seq = i}}]
=============================================================================
