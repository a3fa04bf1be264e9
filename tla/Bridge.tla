------------------------------- MODULE Bridge -------------------------------
(***************************************************************************)
(* Replication through a shared folder (internal/bridge over fsbackend):   *)
(* a node publishes its own records as bundles and applies the bundles of  *)
(* everyone else.  The folder is a network share, one place for all, or a  *)
(* folder that a sync client copies from place to place, bundle by bundle  *)
(* and in no order.                                                        *)
(*                                                                         *)
(* The mesh runs beside it and is what Replicas promises of it: a node's   *)
(* copy of an origin grows to a longer prefix of another node's.           *)
(***************************************************************************)
EXTENDS Archive

CONSTANTS
    Node,        \* archives
    OriginOf,    \* the origin id in a node's database
    Transcript,  \* the lines of a node's transcript files
    Place,       \* replicas of the folder
    Folder,      \* the replica a node is configured with
    Meshed,      \* <<n, m>>: n also replicates from m in the mesh
    BundleSize,  \* records per bundle (5000 in the code)
    LocalLimit,  \* records an archive collects (bounds AppendLocal)
    MaxFaults    \* failed syncs and crashes in a behaviour

ASSUME BridgeOriginAssumption == OriginOf \in [Node -> Origin]
ASSUME BridgeTranscriptAssumption == Transcript \in [Node -> SUBSET Line]
ASSUME FolderAssumption == Folder \in [Node -> Place]
ASSUME MeshedAssumption == Meshed \subseteq Node \X Node
ASSUME BundleAssumption == BundleSize \in Nat \ {0}
ASSUME LimitAssumption == LocalLimit \in Nat /\ MaxFaults \in Nat

\* A bundle is named for its origin and the sequence numbers it contains; the
\* name is all that a listing tells.
Bundle == [origin : Origin, first : Nat \ {0}, last : Nat, rows : SUBSET Record]

\* idle:        between two syncs
\* publishing:  walking its own sequence numbers in steps of BundleSize
\* listed:      Fetch has its listing, and not yet the version vector
\* fetching:    applying the bundles listed
Phase == {"idle", "publishing", "listed", "fetching"}

VARIABLES
    rows,        \* node -> its records table
    quarantine,  \* node -> fork evidence
    objects,     \* place -> the bundles there
    phase,       \* node -> where its Sync is
    have,        \* node -> own records when Publish began
    existing,    \* node -> the bundles of its own that Publish listed
    next,        \* node -> first sequence number of the bundle to publish next
    todo,        \* node -> bundles Fetch has listed and not looked at
    vec,         \* node -> origin -> the version vector Fetch works from
    faults       \* errors so far

archives == <<rows, quarantine>>
publish == <<have, existing, next>>
fetch == <<todo, vec>>
vars == <<rows, quarantine, objects, phase, have, existing, next, todo, vec, faults>>

NoVector == [o \in Origin |-> 0]

Init ==
    /\ rows = [n \in Node |-> {}]
    /\ quarantine = [n \in Node |-> {}]
    /\ objects = [q \in Place |-> {}]
    /\ phase = [n \in Node |-> "idle"]
    /\ have = [n \in Node |-> 0]
    /\ existing = [n \in Node |-> {}]
    /\ next = [n \in Node |-> 1]
    /\ todo = [n \in Node |-> {}]
    /\ vec = [n \in Node |-> NoVector]
    /\ faults = 0

----------------------------------------------------------------------------
(* What runs beside the bridge *)

\* The collector stores a line that is not held.
AppendLocal(n, l) ==
    /\ Watermark(rows[n], OriginOf[n]) < LocalLimit
    /\ \A r \in OfOrigin(rows[n], OriginOf[n]) : r.line # l
    /\ rows' = [rows EXCEPT ![n] = WithLocal(@, OriginOf[n], <<l>>)]
    /\ UNCHANGED <<quarantine, objects, phase, publish, fetch, faults>>

\* Replicas!CatchUp.
MeshCatchUp(n, m, o, k) ==
    /\ <<n, m>> \in Meshed
    /\ Watermark(rows[n], o) < k
    /\ rows' = [rows EXCEPT ![n] = {r \in @ : r.origin # o} \cup
                    {r \in OfOrigin(rows[m], o) : r.seq <= k}]
    /\ UNCHANGED <<quarantine, objects, phase, publish, fetch, faults>>

\* The sync client copies a bundle, whichever it pleases.
Deliver(from, to, b) ==
    /\ b \in objects[from] \ objects[to]
    /\ objects' = [objects EXCEPT ![to] = @ \cup {b}]
    /\ UNCHANGED <<archives, phase, publish, fetch, faults>>

----------------------------------------------------------------------------
(* Publish *)

\* The watermark, then the listing; nobody else publishes under this origin.
StartSync(n) ==
    /\ phase[n] = "idle"
    /\ have' = [have EXCEPT ![n] = Watermark(rows[n], OriginOf[n])]
    /\ existing' = [existing EXCEPT ![n] =
                       {b \in objects[Folder[n]] : b.origin = OriginOf[n]}]
    /\ next' = [next EXCEPT ![n] = 1]
    /\ phase' = [phase EXCEPT ![n] = "publishing"]
    /\ UNCHANGED <<archives, objects, fetch, faults>>

\* Last sequence number of the bundle at `next`, as the code counts on it.
Span(n) == Min({next[n] + BundleSize - 1, have[n]})

\* (mutant) Whatever starts there counts as published.
CoveredByStart(n) == \E b \in existing[n] : b.first = next[n]

Covered(n) == \E b \in existing[n] : b.first = next[n] /\ b.last >= Span(n)

Skip(n) ==
    /\ phase[n] = "publishing"
    /\ next[n] <= have[n]
    /\ Covered(n)
    /\ next' = [next EXCEPT ![n] = @ + BundleSize]
    /\ UNCHANGED <<archives, objects, phase, have, existing, fetch, faults>>

\* The object for a batch, named for what it contains, appears whole.
PutObject(n, batch) ==
    objects' = [objects EXCEPT ![Folder[n]] = @ \cup
        {[origin |-> OriginOf[n], first |-> next[n],
          last |-> Watermark(batch, OriginOf[n]), rows |-> batch]}]

\* (mutant) The query starts at `first`, not below it.
PutBundleAfterFirst(n) ==
    /\ phase[n] = "publishing"
    /\ next[n] <= have[n]
    /\ ~Covered(n)
    /\ PutObject(n, Since(rows[n], OriginOf[n], next[n], BundleSize))
    /\ next' = [next EXCEPT ![n] = @ + BundleSize]
    /\ UNCHANGED <<archives, phase, have, existing, fetch, faults>>

\* One object, written atomically.  The query runs on the live table and may
\* find more than `have`.
PutBundle(n) ==
    /\ phase[n] = "publishing"
    /\ next[n] <= have[n]
    /\ ~Covered(n)
    /\ PutObject(n, Since(rows[n], OriginOf[n], next[n] - 1, BundleSize))
    /\ next' = [next EXCEPT ![n] = @ + BundleSize]
    /\ UNCHANGED <<archives, phase, have, existing, fetch, faults>>

----------------------------------------------------------------------------
(* Fetch *)

List(n) ==
    /\ phase[n] = "publishing"
    /\ next[n] > have[n]
    /\ existing' = [existing EXCEPT ![n] = {}]
    /\ next' = [next EXCEPT ![n] = 1]
    /\ todo' = [todo EXCEPT ![n] =
                   {b \in objects[Folder[n]] : b.origin # OriginOf[n]}]
    /\ phase' = [phase EXCEPT ![n] = "listed"]
    /\ UNCHANGED <<archives, objects, have, vec, faults>>

ReadVector(n) ==
    /\ phase[n] = "listed"
    /\ vec' = [vec EXCEPT ![n] = [o \in Origin |-> Watermark(rows[n], o)]]
    /\ phase' = [phase EXCEPT ![n] = "fetching"]
    /\ UNCHANGED <<archives, objects, publish, todo, faults>>

\* Names sort by first and last sequence number within an origin; the order of
\* the origins is that of their ids, here any.
Precedes(b, d) ==
    b.origin = d.origin /\ (b.first < d.first \/ (b.first = d.first /\ b.last < d.last))

\* (mutant) The listing is not sorted.
NextUpUnsorted(n, b) == b \in todo[n]

NextUp(n, b) == b \in todo[n] /\ \A d \in todo[n] : ~Precedes(d, b)

PassOver(n, b) ==
    /\ phase[n] = "fetching"
    /\ NextUp(n, b)
    /\ vec[n][b.origin] >= b.last
    /\ todo' = [todo EXCEPT ![n] = @ \ {b}]
    /\ UNCHANGED <<archives, objects, phase, publish, vec, faults>>

\* One transaction of AppendRemote.
Apply(n, b) ==
    /\ phase[n] = "fetching"
    /\ NextUp(n, b)
    /\ vec[n][b.origin] < b.last
    /\ rows' = [rows EXCEPT ![n] = @ \cup Insertable(@, b.rows)]
    /\ quarantine' = [quarantine EXCEPT ![n] = @ \cup ForkEvidence(rows[n], b.rows)]
    /\ todo' = [todo EXCEPT ![n] = @ \ {b}]
    /\ UNCHANGED <<objects, phase, publish, vec, faults>>

\* Sync returns, and what it worked from is gone.
Return(n) ==
    /\ phase' = [phase EXCEPT ![n] = "idle"]
    /\ have' = [have EXCEPT ![n] = 0]
    /\ existing' = [existing EXCEPT ![n] = {}]
    /\ next' = [next EXCEPT ![n] = 1]
    /\ todo' = [todo EXCEPT ![n] = {}]
    /\ vec' = [vec EXCEPT ![n] = NoVector]
    /\ UNCHANGED <<archives, objects>>

EndSync(n) ==
    /\ phase[n] = "fetching"
    /\ todo[n] = {}
    /\ Return(n)
    /\ UNCHANGED faults

\* The folder is absent, the database fails, or the process dies: the next
\* sync starts over.
Fail(n) ==
    /\ phase[n] # "idle"
    /\ faults < MaxFaults
    /\ faults' = faults + 1
    /\ Return(n)

\* A bundle that cannot be read or opened is logged and passed over.
SkipUnreadable(n, b) ==
    /\ phase[n] = "fetching"
    /\ NextUp(n, b)
    /\ vec[n][b.origin] < b.last
    /\ faults < MaxFaults
    /\ faults' = faults + 1
    /\ todo' = [todo EXCEPT ![n] = @ \ {b}]
    /\ UNCHANGED <<archives, objects, phase, publish, vec>>

----------------------------------------------------------------------------

Sync(n) ==
    \/ StartSync(n) \/ Skip(n) \/ PutBundle(n)
    \/ List(n) \/ ReadVector(n) \/ EndSync(n)
    \/ \E b \in todo[n] : PassOver(n, b) \/ Apply(n, b)

Next ==
    \/ \E n \in Node : \E l \in Transcript[n] : AppendLocal(n, l)
    \/ \E n, m \in Node, o \in Origin :
          \E k \in 1..Watermark(rows[m], o) : MeshCatchUp(n, m, o, k)
    \/ \E n \in Node : Sync(n) \/ Fail(n)

\* A share that everyone sees alike and whose bundles can all be read.
Spec == Init /\ [][Next]_vars

\* Each node's daemon syncs on an interval, and nothing blocks a sync for ever.
Fairness == \A n \in Node : WF_vars(Sync(n))

FairSpec == Spec /\ Fairness

\* A sync client between the places, and bundles that cannot be read.
Disorder ==
    \/ \E from, to \in Place : \E b \in objects[from] : Deliver(from, to, b)
    \/ \E n \in Node : \E b \in todo[n] : SkipUnreadable(n, b)

DisorderlySpec == Init /\ [][Next \/ Disorder]_vars

----------------------------------------------------------------------------
(* Properties *)

\* One type for every variable.
TypeOK ==
    /\ rows \in [Node -> SUBSET Record]
    /\ quarantine \in [Node -> SUBSET Record]
    /\ objects \in [Place -> SUBSET Bundle]
    /\ phase \in [Node -> Phase]
    /\ have \in [Node -> Nat]
    /\ existing \in [Node -> SUBSET Bundle]
    /\ next \in [Node -> Nat \ {0}]
    /\ todo \in [Node -> SUBSET Bundle]
    /\ vec \in [Node -> [Origin -> Nat]]
    /\ faults \in Nat

\* No two databases share an origin id.
OriginsDistinct == IsInjective(OriginOf)

\* Bundles of any sizes, overlapping each other and what the mesh brings in the
\* middle of a fetch, never leave a hole below a watermark (AGENT.md:
\* "Sequence numbers are gap-free").
GapFree == \A n \in Node : Dense(rows[n])

\* Overlapping bundles -- a range cut short and published again, longer, under
\* another name -- are never taken for a fork.
NoFalseFork == \A n \in Node : quarantine[n] = {}

\* Publishing keeps no state but the names in the folder; all the same, once a
\* sync gets to its fetch, every record the node had when it began is in the
\* folder, whatever earlier syncs failed half-way and was collected meanwhile.
Published ==
    \A n \in Node : phase[n] \in {"listed", "fetching"} =>
        \A q \in 1..have[n] :
            \E b \in objects[Folder[n]] : Has(b.rows, OriginOf[n], q)

\* A name tells exactly what a bundle holds, which is all that publishing and
\* fetching ever look at.
Named ==
    \A q \in Place : \A b \in objects[q] :
        b.rows # {} /\ Seqs(b.rows, b.origin) = b.first..b.last

\* What any node collects reaches every node through the folder alone, though
\* syncs fail on the way.
Bridged ==
    \A m \in Node, l \in Line :
        (\E r \in rows[m] : r.origin = OriginOf[m] /\ r.line = l) ~>
            \A n \in Node : \E r \in rows[n] : r.origin = OriginOf[m] /\ r.line = l

----------------------------------------------------------------------------
(* The abstract specification, which the mesh implements too. *)

Abstract == INSTANCE Replicas WITH
    copy    <- [n \in Node |-> [o \in Origin |-> Copy(rows[n], o)]],
    Batches <- {<<{l}>> : l \in Line}

\* The folder implements the promise as well: whatever bundles a fetch applies,
\* a copy only grows to a longer prefix of another.
ImplementsReplicas == Abstract!Spec
=============================================================================
