----------------------------- MODULE Extraction -----------------------------
(***************************************************************************)
(* Filling in the columns of archived records (ingest.Writer,              *)
(* ingest.Reprocessor, store/extraction.go).  A build that does not read   *)
(* the working directory and the branch out of a line, this node's before  *)
(* its upgrade or a peer's, leaves records without them; passes walk each  *)
(* origin from a mark and fill them in from the sealed body.  The passes   *)
(* of the daemon are modelled step by step; those of the reprocess         *)
(* command, which runs beside it, by the transactions they commit.         *)
(***************************************************************************)
EXTENDS Naturals, FiniteSets

CONSTANTS
    Origin,     \* origins, in the order they are walked: numbers
    Self,       \* this node's
    Sealed,     \* origins whose bodies this node has no key for
    Length,     \* origin -> how many records there will ever be
    Older,      \* records a peer of an older build sends, without the columns
    BatchSize,  \* records one transaction re-extracts
    MaxFaults   \* failures, cancellations and crashes of a pass

ASSUME ExtractionAssumption ==
    /\ Origin \subseteq Nat /\ IsFiniteSet(Origin)
    /\ Self \in Origin /\ Sealed \subseteq Origin \ {Self}
    /\ Length \in [Origin -> Nat] /\ BatchSize \in Nat \ {0}
    /\ MaxFaults \in Nat

Record == UNION {{o} \X (1..Length[o]) : o \in Origin}

\* vector: the version vector is read, the marks are not; batch: a batch is read
\* and re-extracted, and not yet saved
Step == {"idle", "vector", "walking", "batch"}

VARIABLES
    held,    \* origin -> the last sequence number held
    filled,  \* records whose columns are what their body says
    mark,    \* origin -> how far extraction has walked, 0 for no mark
    build,   \* what the daemon runs, old or new
    step,    \* where its pass is
    vector,  \* origin -> what the version vector it read said
    after,   \* origin -> the sequence it walks that origin from
    origin,  \* the origin it walks
    rows,    \* the records to update in its batch
    upTo,    \* the last sequence of its batch
    faults

archive == <<held, filled, mark>>
pass == <<step, vector, after, origin, rows, upTo>>
extraction == <<archive, build, pass, faults>>

First == CHOOSE o \in Origin : \A q \in Origin : o <= q
Zero == [o \in Origin |-> 0]

ExtractionInit ==
    /\ held = Zero /\ filled = {} /\ mark = Zero /\ build = "old"
    /\ step = "idle" /\ vector = Zero /\ after = Zero /\ origin = First
    /\ rows = {} /\ upTo = 0
    /\ faults = 0

Readable(r) == r[1] \notin Sealed
Least(a, b) == IF a <= b THEN a ELSE b
Greatest(a, b) == IF a >= b THEN a ELSE b

----------------------------------------------------------------------------
Store(o, complete) ==
    /\ held[o] < Length[o]
    /\ held' = [held EXCEPT ![o] = @ + 1]
    /\ filled' = IF complete THEN filled \cup {<<o, held[o] + 1>>} ELSE filled
    /\ UNCHANGED <<mark, build, pass, faults>>

\* The collector's line, with the columns its build reads out of it.
Ingest == Store(Self, build = "new")

\* A peer's record, with the columns the peer sent.
Receive(o) == o # Self /\ Store(o, <<o, held[o] + 1>> \notin Older)

\* The daemon is stopped and the new build started.
Upgrade ==
    /\ build = "old" /\ build' = "new"
    /\ UNCHANGED <<archive, pass, faults>>

----------------------------------------------------------------------------
\* Only a build that knows how runs passes.  What is held and what is marked
\* are read one after the other.
ReadVector ==
    /\ step = "idle" /\ build = "new"
    /\ step' = "vector" /\ vector' = held
    /\ UNCHANGED <<archive, build, after, origin, rows, upTo, faults>>

\* An origin without a mark is walked from its start.  The mutant takes it for
\* one whose records are all of this build.
ReadMarksKnown ==
    /\ step = "vector"
    /\ step' = "walking" /\ after' = [o \in Origin |-> IF mark[o] = 0 THEN vector[o] ELSE mark[o]]
    /\ UNCHANGED <<archive, build, vector, origin, rows, upTo, faults>>
ReadMarks ==
    /\ step = "vector"
    /\ step' = "walking" /\ after' = mark
    /\ UNCHANGED <<archive, build, vector, origin, rows, upTo, faults>>

\* Since reads what is held now, which may be more than the vector said.  The
\* mutant asks for a whole batch whatever is held.
SinceWhole(o, from) == {<<o, s>> : s \in (from + 1)..(from + BatchSize)}
Since(o, from) == {<<o, s>> : s \in (from + 1)..Least(from + BatchSize, held[o])}

\* Only what disagrees with its body, and what cannot be read is passed over.
Reextract(batch) == {r \in batch : Readable(r)} \ filled

\* The last record examined.  The mutant marks what the vector promised.
LastPromised(batch) == vector[origin]
LastExamined(batch) == after[origin] + Cardinality(batch)

ReadBatch ==
    /\ step = "walking" /\ after[origin] < vector[origin]
    /\ LET batch == Since(origin, after[origin]) IN
        rows' = Reextract(batch) /\ upTo' = LastExamined(batch)
    /\ step' = "batch"
    /\ UNCHANGED <<archive, build, vector, after, origin, faults>>

\* One transaction.
Save(o, updated, to) ==
    /\ filled' = filled \cup updated
    /\ mark' = [mark EXCEPT ![o] = Greatest(@, to)]

SaveExtracted ==
    /\ step = "batch"
    /\ Save(origin, rows, upTo)
    /\ after' = [after EXCEPT ![origin] = upTo]
    /\ rows' = {} /\ upTo' = 0 /\ step' = "walking"
    /\ UNCHANGED <<held, build, vector, origin, faults>>

Forget == step' = "idle" /\ vector' = Zero /\ after' = Zero /\ origin' = First
          /\ rows' = {} /\ upTo' = 0

\* What the pass knew of an origin it has walked is forgotten.
NextOrigin ==
    /\ step = "walking" /\ after[origin] >= vector[origin]
    /\ UNCHANGED <<archive, build, faults>>
    /\ IF \E o \in Origin : o > origin
       THEN /\ origin' = CHOOSE o \in Origin :
                            o > origin /\ \A q \in Origin : q > origin => o <= q
            /\ vector' = [vector EXCEPT ![origin] = 0]
            /\ after' = [after EXCEPT ![origin] = 0]
            /\ UNCHANGED <<step, rows, upTo>>
       ELSE Forget

\* An error, a cancelled context or a death: the next tick or start begins again.
Abandon ==
    /\ step # "idle" /\ faults < MaxFaults
    /\ faults' = faults + 1 /\ Forget
    /\ UNCHANGED <<archive, build>>

\* A transaction of the command.  It walks from a mark it read, or from where it
\* saved: from no later than the mark is now; and its batch is one that was held
\* when it read it.
Command(o) ==
    /\ \E from \in 0..mark[o] : \E to \in (from + 1)..Least(from + BatchSize, held[o]) :
        Save(o, {r \in {o} \X ((from + 1)..to) : Readable(r)}, to)
    /\ UNCHANGED <<held, build, pass, faults>>

Pass == ReadVector \/ ReadMarks \/ ReadBatch \/ SaveExtracted \/ NextOrigin

ExtractionNext ==
    \/ Ingest \/ Upgrade \/ Pass \/ Abandon
    \/ \E o \in Origin : Receive(o) \/ Command(o)

\* Lines and records arrive while there are any; the node is upgraded, and its
\* daemon passes again and again.  Nobody need ever run the command.
ExtractionFairness ==
    /\ WF_extraction(Ingest) /\ \A o \in Origin : WF_extraction(Receive(o))
    /\ WF_extraction(Upgrade) /\ WF_extraction(Pass)

----------------------------------------------------------------------------
\* The archive, its marks and the pass keep their types.
ExtractionTypeOK ==
    /\ held \in [Origin -> Nat] /\ \A o \in Origin : held[o] <= Length[o]
    /\ filled \subseteq Record /\ mark \in [Origin -> Nat]
    /\ build \in {"old", "new"}
    /\ step \in Step /\ origin \in Origin
    /\ vector \in [Origin -> Nat] /\ after \in [Origin -> Nat]
    /\ rows \subseteq Record /\ upTo \in Nat
    /\ faults \in 0..MaxFaults

\* A mark is never ahead of the work it stands for: every record up to it that
\* this node can read has the columns of its body, with two processes walking
\* at once and a death at any point; and no mark passes what is held
\* (SaveExtracted, 0006_extraction.sql).
MarkHonest ==
    \A o \in Origin :
        /\ mark[o] <= held[o]
        /\ \A s \in 1..mark[o] : Readable(<<o, s>>) => <<o, s>> \in filled
=============================================================================
