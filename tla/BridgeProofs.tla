---------------------------- MODULE BridgeProofs ----------------------------
(* The safety of replication through a folder that everyone sees alike,    *)
(* between nodes that share no origin id: for any number of nodes, bundle  *)
(* sizes, faults, and whatever the mesh brings meanwhile.  And what is left *)
(* of it when a sync client copies the folder in any order.                *)
EXTENDS Bridge, ArchiveProofs

----------------------------------------------------------------------------
(* The inductive invariant *)

\* Tables have no hole, every record is its own node's, and no table has two
\* records with one number or one line of an origin.
Tables ==
    \A n \in Node :
        /\ IsFiniteSet(rows[n]) /\ Dense(rows[n])
        /\ \A r \in rows[n] : \E m \in Node : OriginOf[m] = r.origin /\ r \in rows[m]
        /\ \A r, s \in rows[n] :
              r.origin = s.origin /\ (r.seq = s.seq \/ r.line = s.line) => r = s

\* A bundle that comes before another has a number the other starts above.
Earlier(bundles, b, q) ==
    \E d \in bundles : Precedes(d, b) /\ Has(d.rows, b.origin, q)

\* Bundles hold records of the node that published them, and what lies below a
\* bundle is in bundles that precede it.
Bundles ==
    \A q \in Place : \A b \in objects[q] :
        /\ \A r \in b.rows : r.origin = b.origin
        /\ \E m \in Node :
              OriginOf[m] = b.origin /\ Folder[m] = q /\ b.rows \subseteq rows[m]
        /\ \A s \in 1..(b.first - 1) : Earlier(objects[q], b, s)

\* A number below `next` that was to be published is in a bundle.
Covers(n, s) ==
    \E d \in objects[Folder[n]] :
        d.origin = OriginOf[n] /\ d.first < next[n] /\ Has(d.rows, OriginOf[n], s)

\* Publishing knows of nothing that is not so, and leaves nothing out.
PublishingAt(n) ==
    /\ phase[n] # "idle" => have[n] <= Watermark(rows[n], OriginOf[n])
    /\ phase[n] = "publishing" =>
          /\ existing[n] \subseteq {b \in objects[Folder[n]] : b.origin = OriginOf[n]}
          /\ \A s \in 1..(next[n] - 1) : s <= have[n] => Covers(n, s)

Publishing == \A n \in Node : PublishingAt(n)

\* What lies below a bundle that is still to be looked at is held, or in one
\* that will be looked at before it.
FetchingAt(n) ==
    /\ todo[n] \subseteq objects[Folder[n]]
    /\ \A b \in todo[n] : \A s \in 1..(b.first - 1) :
          Has(rows[n], b.origin, s) \/ Earlier(todo[n], b, s)
    /\ phase[n] = "fetching" =>
          \A o \in Origin : vec[n][o] <= Watermark(rows[n], o)

Fetching == \A n \in Node : FetchingAt(n)

Inductive ==
    /\ TypeOK /\ Tables /\ Bundles /\ Publishing /\ Fetching
    /\ NoFalseFork /\ Named /\ Published

----------------------------------------------------------------------------
(* Tables *)

\* Records of two tables with one origin and one number, or one line, are equal.
LEMMA SameKey ==
    ASSUME OriginsDistinct, Tables,
           NEW n \in Node, NEW m \in Node, NEW r \in rows[n], NEW s \in rows[m],
           r.origin = s.origin, r.seq = s.seq \/ r.line = s.line
    PROVE  r = s
<1>1. PICK i \in Node : OriginOf[i] = r.origin /\ r \in rows[i]
  BY DEF Tables
<1>2. PICK j \in Node : OriginOf[j] = s.origin /\ s \in rows[j]
  BY DEF Tables
<1>3. i = j
  BY <1>1, <1>2, BridgeOriginAssumption DEF OriginsDistinct, IsInjective
<1> QED BY <1>1, <1>2, <1>3 DEF Tables

\* A record that another node holds, whose number is held here, is held here.
LEMMA HeldHere ==
    ASSUME OriginsDistinct, Tables,
           NEW n \in Node, NEW m \in Node, NEW r \in rows[m],
           Has(rows[n], r.origin, r.seq)
    PROVE  r \in rows[n]
  BY SameKey DEF Has

\* A watermark stays or rises as a table grows.
LEMMA WatermarkGrows ==
    ASSUME NEW table \in SUBSET Record, IsFiniteSet(table), Dense(table),
           NEW grown \in SUBSET Record, IsFiniteSet(grown), Dense(grown),
           table \subseteq grown, NEW o
    PROVE  Watermark(table, o) <= Watermark(grown, o)
<1> DEFINE low == Watermark(table, o)
           high == Watermark(grown, o)
<1>1. low \in Nat /\ Seqs(table, o) = 1..low
  BY DenseWatermark
<1>2. high \in Nat /\ Seqs(grown, o) = 1..high
  BY DenseWatermark
<1>3. Seqs(table, o) \subseteq Seqs(grown, o)
  BY DEF Seqs, OfOrigin
<1> HIDE DEF low, high
<1>4. low <= high
  BY <1>1, <1>2, <1>3
<1> QED BY <1>4 DEF low, high

\* The numbers below a watermark are held, and no others.
LEMMA HasBelow ==
    ASSUME NEW table \in SUBSET Record, IsFiniteSet(table), Dense(table), NEW o, NEW q
    PROVE  /\ Watermark(table, o) \in Nat
           /\ Has(table, o, q) <=> q \in 1..Watermark(table, o)
<1>1. Has(table, o, q) <=> q \in Seqs(table, o)
  BY DEF Has, Seqs, OfOrigin
<1> QED BY <1>1, DenseWatermark

\* The table of a node grows, the others stay: the tables stay sound if what is
\* new is held by its own node.
LEMMA TablesGrow ==
    ASSUME OriginsDistinct, TypeOK, Tables,
           NEW n \in Node, NEW table \in SUBSET Record,
           rows' = [rows EXCEPT ![n] = table], rows[n] \subseteq table,
           IsFiniteSet(table), Dense(table),
           \A r \in table : \/ OriginOf[n] = r.origin
                            \/ \E m \in Node : r \in rows[m],
           \A r, s \in table :
              r.origin = s.origin /\ (r.seq = s.seq \/ r.line = s.line) => r = s
    PROVE  /\ Tables'
           /\ rows' \in [Node -> SUBSET Record]
           /\ \A m \in Node : rows[m] \subseteq rows'[m]
<1>1. /\ rows' \in [Node -> SUBSET Record] /\ rows'[n] = table
      /\ \A m \in Node : m # n => rows'[m] = rows[m]
      /\ \A m \in Node : rows[m] \subseteq rows'[m]
  BY DEF TypeOK
<1>2. ASSUME NEW i \in Node, NEW r \in rows[i]
      PROVE  \E m \in Node : OriginOf[m] = r.origin /\ r \in rows'[m]
  BY <1>1, <1>2 DEF Tables
<1>3. ASSUME NEW i \in Node, NEW r \in rows'[i]
      PROVE  \E m \in Node : OriginOf[m] = r.origin /\ r \in rows'[m]
  BY <1>1, <1>2, <1>3
<1> QED BY <1>1, <1>3 DEF Tables

\* One record more, above all others of its origin.
LEMMA OneAppended ==
    ASSUME NEW table \in SUBSET Record, IsFiniteSet(table), Dense(table),
           NEW o \in Origin, NEW l \in Line
    PROVE  LET new == [origin |-> o, seq |-> Watermark(table, o) + 1, line |-> l] IN
           /\ WithLocal(table, o, <<l>>) = table \cup {new}
           /\ WithLocal(table, o, <<l>>) \in SUBSET Record
           /\ IsFiniteSet(WithLocal(table, o, <<l>>))
           /\ Dense(WithLocal(table, o, <<l>>))
           /\ \A r \in table : r.origin = o => r.seq # new.seq
<1>1. DOMAIN <<l>> = 1..1 /\ <<l>>[1] = l /\ <<l>> \in [1..1 -> Line]
  OBVIOUS
<1>2. WithLocal(table, o, <<l>>) =
         table \cup {[origin |-> o, seq |-> Watermark(table, o) + 1, line |-> l]}
  BY <1>1 DEF WithLocal
<1>3. /\ WithLocal(table, o, <<l>>) \in SUBSET Record
      /\ IsFiniteSet(WithLocal(table, o, <<l>>))
      /\ Dense(WithLocal(table, o, <<l>>))
  BY <1>1, WithLocalDense
<1>4. Watermark(table, o) \in Nat /\ Seqs(table, o) = 1..Watermark(table, o)
  BY DenseWatermark
<1>5. ASSUME NEW r \in table, r.origin = o
      PROVE  r.seq # Watermark(table, o) + 1
  <2>1. r.seq \in Seqs(table, o)
    BY <1>5 DEF Seqs, OfOrigin
  <2> QED BY <1>4, <2>1
<1> QED BY <1>2, <1>3, <1>5

\* A batch of a table that reaches above `after` starts there, has no hole, and
\* ends at its limit or with the table.
LEMMA BatchNumbers ==
    ASSUME NEW table \in SUBSET Record, IsFiniteSet(table), Dense(table), NEW o,
           \A r, s \in table : r.origin = s.origin /\ r.seq = s.seq => r = s,
           NEW after \in Nat, NEW limit \in Nat \ {0}, after < Watermark(table, o)
    PROVE  LET batch == Since(table, o, after, limit) IN
           /\ batch # {} /\ batch \subseteq OfOrigin(table, o)
           /\ Watermark(batch, o) \in Nat
           /\ Seqs(batch, o) = (after + 1)..Watermark(batch, o)
<1> DEFINE batch == Since(table, o, after, limit)
           above == {r \in OfOrigin(table, o) : r.seq > after}
           w == Watermark(table, o)
           last == Watermark(batch, o)
<1>1. w \in Nat /\ Seqs(table, o) = 1..w
  BY DenseWatermark
<1>2. batch \subseteq OfOrigin(table, o) /\ \A r \in batch : r.seq > after
  BY DEF Since
<1>3. PICK r \in table : r.origin = o /\ r.seq = after + 1
  <2>1. after + 1 \in Seqs(table, o)
    BY <1>1
  <2> QED BY <2>1 DEF Seqs, OfOrigin
<1>4. r \in batch
  <2>1. r \in above
    BY <1>3 DEF OfOrigin
  <2>2. {q \in above : q.seq < r.seq} = {}
    BY <1>3 DEF OfOrigin, Record
  <2>3. Cardinality({q \in above : q.seq < r.seq}) < limit
    BY <2>2, FS_EmptySet
  <2> QED BY <2>1, <2>3 DEF Since
<1>5. /\ last \in Nat /\ \A s \in OfOrigin(batch, o) : s.seq <= last
      /\ last = 0 \/ Has(batch, o, last)
  BY <1>2, WatermarkOfPart DEF OfOrigin
<1> HIDE DEF batch, w
<1>6. after + 1 <= last
  BY <1>3, <1>4, <1>5 DEF OfOrigin
<1>7. PICK top \in batch : top.origin = o /\ top.seq = last
  BY <1>5, <1>6 DEF Has
<1>8. ASSUME NEW q \in (after + 1)..last
      PROVE  q \in Seqs(batch, o)
  <2>1. PICK s \in table : s.origin = o /\ s.seq = q
    BY <1>2, <1>5, <1>7 DEF Dense, Has, OfOrigin
  <2>2. s \in batch
    BY <1>5, <1>7, <2>1, SinceInOrder DEF OfOrigin, batch
  <2> QED BY <2>1, <2>2 DEF Seqs, OfOrigin
<1>9. Seqs(batch, o) \subseteq (after + 1)..last
  BY <1>2, <1>5 DEF Seqs, OfOrigin, Record
<1> HIDE DEF last
<1>10. Seqs(batch, o) = (after + 1)..last
  BY <1>8, <1>9
<1> QED BY <1>2, <1>4, <1>5, <1>10 DEF batch, last

\* It has every number of the table up to its limit.
LEMMA BatchFull ==
    ASSUME NEW table \in SUBSET Record, IsFiniteSet(table), Dense(table), NEW o,
           \A r, s \in table : r.origin = s.origin /\ r.seq = s.seq => r = s,
           NEW after \in Nat, NEW limit \in Nat \ {0},
           NEW q \in (after + 1)..(after + limit), q <= Watermark(table, o)
    PROVE  Has(Since(table, o, after, limit), o, q)
<1> DEFINE above == {r \in OfOrigin(table, o) : r.seq > after}
           below == {r \in above : r.seq < q}
           f == [r \in below |-> r.seq]
<1>1. PICK s \in table : s.origin = o /\ s.seq = q
  <2>1. q \in Seqs(table, o)
    BY DenseWatermark
  <2> QED BY <2>1 DEF Seqs, OfOrigin
<1>2. \A r \in below : r \in table /\ r.origin = o /\ r.seq \in (after + 1)..(q - 1)
  BY DEF OfOrigin, Record
<1>3. f \in Injection(below, (after + 1)..(q - 1))
  <2>1. f \in [below -> (after + 1)..(q - 1)]
    BY <1>2
  <2>2. ASSUME NEW r \in below, NEW t \in below, r.seq = t.seq
        PROVE  r = t
    BY <1>2, <2>2
  <2> QED BY <2>1, <2>2 DEF Injection, IsInjective
<1>4. /\ IsFiniteSet((after + 1)..(q - 1))
      /\ Cardinality((after + 1)..(q - 1)) = q - 1 - after
  <2>1. after + 1 \in Int /\ q - 1 \in Int
    OBVIOUS
  <2>2. /\ IsFiniteSet((after + 1)..(q - 1))
        /\ Cardinality((after + 1)..(q - 1)) =
              IF after + 1 > q - 1 THEN 0 ELSE (q - 1) - (after + 1) + 1
    BY ONLY <2>1, FS_Interval
  <2> QED BY <2>2
<1>5. IsFiniteSet(below) /\ Cardinality(below) <= q - 1 - after
  <2> HIDE DEF below, f
  <2> QED BY <1>3, <1>4, FS_Injection
<1>6. Cardinality(below) < limit
  <2>1. Cardinality(below) \in Nat
    BY <1>5, FS_CardinalityType
  <2> HIDE DEF below
  <2> QED BY <1>5, <2>1
<1>7. s \in above /\ {r \in above : r.seq < s.seq} = below
  BY <1>1 DEF OfOrigin
<1>8. s \in Since(table, o, after, limit)
  BY <1>6, <1>7 DEF Since
<1> QED BY <1>1, <1>8 DEF Has

----------------------------------------------------------------------------
(* What stays true while tables grow and nothing else a part looks at changes *)

\* Tables that grow keep their watermarks or raise them.
LEMMA WatermarksGrow ==
    ASSUME TypeOK, Tables, Tables', rows' \in [Node -> SUBSET Record],
           NEW n \in Node, rows[n] \subseteq rows'[n], NEW o
    PROVE  /\ Watermark(rows[n], o) \in Nat /\ Watermark(rows'[n], o) \in Nat
           /\ Watermark(rows[n], o) <= Watermark(rows'[n], o)
<1>1. /\ rows[n] \in SUBSET Record /\ IsFiniteSet(rows[n]) /\ Dense(rows[n])
      /\ rows'[n] \in SUBSET Record /\ IsFiniteSet(rows'[n]) /\ Dense(rows'[n])
  BY DEF TypeOK, Tables
<1> QED BY <1>1, WatermarkGrows, HasBelow

\* Bundles are not looked into again.
LEMMA BundlesKept ==
    ASSUME Bundles, \A n \in Node : rows[n] \subseteq rows'[n], UNCHANGED objects
    PROVE  Bundles'
<1>1. ASSUME NEW q \in Place, NEW b \in objects[q]
      PROVE  \E m \in Node :
                OriginOf[m] = b.origin /\ Folder[m] = q /\ b.rows \subseteq rows'[m]
  BY DEF Bundles
<1> QED BY <1>1 DEF Bundles, Earlier

\* Publishing looks at the folder and at its own watermark.
LEMMA PublishingKept ==
    ASSUME TypeOK, Tables, Tables', rows' \in [Node -> SUBSET Record], Publishing,
           \A q \in Place : objects[q] \subseteq objects'[q],
           NEW n \in Node, rows[n] \subseteq rows'[n],
           UNCHANGED <<phase[n], have[n], existing[n], next[n]>>
    PROVE  PublishingAt(n)'
<1>1. ASSUME phase'[n] # "idle"
      PROVE  have'[n] <= Watermark(rows'[n], OriginOf[n])
  <2>1. have[n] \in Nat /\ have[n] <= Watermark(rows[n], OriginOf[n])
    BY <1>1 DEF Publishing, PublishingAt, TypeOK
  <2>2. /\ Watermark(rows[n], OriginOf[n]) \in Nat
        /\ Watermark(rows'[n], OriginOf[n]) \in Nat
        /\ Watermark(rows[n], OriginOf[n]) <= Watermark(rows'[n], OriginOf[n])
    BY WatermarksGrow
  <2> QED BY <2>1, <2>2
<1>2. objects[Folder[n]] \subseteq objects'[Folder[n]]
  BY FolderAssumption
<1>3. ASSUME phase'[n] = "publishing"
      PROVE  /\ existing'[n] \subseteq {b \in objects'[Folder[n]] : b.origin = OriginOf[n]}
             /\ \A s \in 1..(next'[n] - 1) : s <= have'[n] => Covers(n, s)'
  BY <1>2, <1>3 DEF Publishing, PublishingAt, Covers
<1> QED BY <1>1, <1>3 DEF PublishingAt

\* Fetching looks at the listing, and at tables that only grow.
LEMMA FetchingKept ==
    ASSUME TypeOK, Tables, Tables', rows' \in [Node -> SUBSET Record], Fetching,
           \A q \in Place : objects[q] \subseteq objects'[q],
           NEW n \in Node, rows[n] \subseteq rows'[n],
           UNCHANGED <<todo[n], phase[n], vec[n]>>
    PROVE  FetchingAt(n)'
<1>1. todo'[n] \subseteq objects'[Folder[n]]
  BY FolderAssumption DEF Fetching, FetchingAt
<1>2. ASSUME NEW b \in todo[n], NEW s \in 1..(b.first - 1)
      PROVE  Has(rows'[n], b.origin, s) \/ Earlier(todo[n], b, s)
  BY <1>2 DEF Fetching, FetchingAt, Has
<1>3. ASSUME phase[n] = "fetching", NEW o \in Origin
      PROVE  vec[n][o] <= Watermark(rows'[n], o)
  <2>1. vec[n][o] \in Nat /\ vec[n][o] <= Watermark(rows[n], o)
    BY <1>3 DEF Fetching, FetchingAt, TypeOK
  <2>2. /\ Watermark(rows[n], o) \in Nat /\ Watermark(rows'[n], o) \in Nat
        /\ Watermark(rows[n], o) <= Watermark(rows'[n], o)
    BY WatermarksGrow
  <2> QED BY <2>1, <2>2
<1>4. \A b \in todo'[n] : \A s \in 1..(b.first - 1) :
         Has(rows'[n], b.origin, s) \/ Earlier(todo'[n], b, s)
  BY <1>2 DEF Earlier
<1> QED BY <1>1, <1>3, <1>4 DEF FetchingAt

\* What a sync has published stays in the folder.
LEMMA PublishedKept ==
    ASSUME Published, \A q \in Place : objects[q] \subseteq objects'[q],
           NEW n \in Node, UNCHANGED <<phase[n], have[n]>>,
           phase[n] \in {"listed", "fetching"}, NEW q \in 1..have[n]
    PROVE  \E b \in objects'[Folder[n]] : Has(b.rows, OriginOf[n], q)
  BY FolderAssumption DEF Published

\* A step that only lets tables grow.
LEMMA GrowthStep ==
    ASSUME Inductive, Tables', rows' \in [Node -> SUBSET Record],
           \A n \in Node : rows[n] \subseteq rows'[n],
           UNCHANGED <<quarantine, objects, phase, publish, fetch, faults>>
    PROVE  Inductive'
<1> USE DEF Inductive
<1>1. TypeOK'
  BY DEF TypeOK, publish, fetch
<1>2. \A q \in Place : objects[q] \subseteq objects'[q]
  OBVIOUS
<1>3. Bundles'
  BY BundlesKept
<1>4. Publishing'
  <2>1. \A n \in Node : UNCHANGED <<phase[n], have[n], existing[n], next[n]>>
    BY DEF publish
  <2> QED BY <1>2, <2>1, PublishingKept DEF Publishing
<1>5. Fetching'
  <2>1. \A n \in Node : UNCHANGED <<todo[n], phase[n], vec[n]>>
    BY DEF fetch
  <2> QED BY <1>2, <2>1, FetchingKept DEF Fetching
<1>6. NoFalseFork' /\ Named' /\ Published'
  BY DEF NoFalseFork, Named, Published, publish
<1> QED BY <1>1, <1>3, <1>4, <1>5, <1>6

----------------------------------------------------------------------------
(* What runs beside the bridge *)

LEMMA AppendLocalStep ==
    ASSUME OriginsDistinct, Inductive, NEW n \in Node, NEW l \in Transcript[n],
           AppendLocal(n, l)
    PROVE  Inductive'
<1> DEFINE o == OriginOf[n]
           table == WithLocal(rows[n], o, <<l>>)
           new == [origin |-> o, seq |-> Watermark(rows[n], o) + 1, line |-> l]
<1>1. /\ rows[n] \in SUBSET Record /\ IsFiniteSet(rows[n]) /\ Dense(rows[n])
      /\ o \in Origin /\ l \in Line
  BY BridgeOriginAssumption, BridgeTranscriptAssumption DEF Inductive, TypeOK, Tables
<1>2. /\ table = rows[n] \cup {new}
      /\ table \in SUBSET Record /\ IsFiniteSet(table) /\ Dense(table)
      /\ \A r \in rows[n] : r.origin = o => r.seq # new.seq
  <2> HIDE DEF o
  <2> QED BY <1>1, OneAppended
<1>3. rows' = [rows EXCEPT ![n] = table]
  BY DEF AppendLocal
<1>4. new.origin = o /\ new.line = l /\ \A r \in rows[n] : r.origin = o => r.line # l
  BY DEF AppendLocal, OfOrigin
<1> HIDE DEF o, table, new
<1>5. \A r, s \in table :
         r.origin = s.origin /\ (r.seq = s.seq \/ r.line = s.line) => r = s
  BY <1>2, <1>4 DEF Inductive, Tables
<1>6. \A r \in table : OriginOf[n] = r.origin \/ \E m \in Node : r \in rows[m]
  BY <1>2, <1>4 DEF o
<1>7. /\ Tables' /\ rows' \in [Node -> SUBSET Record]
      /\ \A m \in Node : rows[m] \subseteq rows'[m]
  BY <1>2, <1>3, <1>5, <1>6, TablesGrow DEF Inductive
<1> QED BY <1>7, GrowthStep DEF AppendLocal

LEMMA MeshCatchUpStep ==
    ASSUME OriginsDistinct, Inductive, NEW n \in Node, NEW m \in Node,
           NEW o \in Origin, NEW k \in 1..Watermark(rows[m], o),
           MeshCatchUp(n, m, o, k)
    PROVE  Inductive'
<1> DEFINE kept == {r \in rows[n] : r.origin # o}
           taken == {r \in OfOrigin(rows[m], o) : r.seq <= k}
           table == kept \cup taken
<1>1. /\ rows[n] \in SUBSET Record /\ IsFiniteSet(rows[n]) /\ Dense(rows[n])
      /\ rows[m] \in SUBSET Record /\ IsFiniteSet(rows[m]) /\ Dense(rows[m])
  BY DEF Inductive, TypeOK, Tables
<1>2. /\ Watermark(rows[n], o) \in Nat /\ Watermark(rows[m], o) \in Nat
      /\ Watermark(rows[n], o) < k /\ k \in Nat
  BY <1>1, HasBelow DEF MeshCatchUp
<1>3. kept \subseteq rows[n] /\ taken \subseteq rows[m]
  BY DEF OfOrigin
<1>4. ASSUME NEW r \in rows[n], r.origin = o
      PROVE  r \in taken
  <2>1. r.seq \in 1..Watermark(rows[n], o)
    BY <1>1, <1>4, HasBelow DEF Has
  <2>2. r.seq \in 1..Watermark(rows[m], o)
    BY <1>2, <2>1
  <2>3. Has(rows[m], r.origin, r.seq)
    BY <1>1, <1>4, <2>2, HasBelow
  <2>4. r \in rows[m]
    BY <2>3, HeldHere DEF Inductive
  <2> QED BY <1>2, <1>4, <2>1, <2>4 DEF OfOrigin
<1>5. rows[n] \subseteq table
  BY <1>4
<1>6. IsFiniteSet(table) /\ table \in SUBSET Record
  <2>1. IsFiniteSet(kept) /\ IsFiniteSet(taken)
    BY <1>1, <1>3, FS_Subset
  <2> QED BY <1>1, <1>3, <2>1, FS_Union
<1>7. Dense(table)
  <2> SUFFICES ASSUME NEW r \in table, NEW q \in 1..r.seq
               PROVE  \E h \in table : h.origin = r.origin /\ h.seq = q
    BY DEF Dense, Has
  <2>1. CASE r \in kept
    <3>1. PICK h \in rows[n] : h.origin = r.origin /\ h.seq = q
      BY <1>1, <2>1 DEF Dense, Has
    <3> QED BY <2>1, <3>1
  <2>2. CASE r \in taken
    <3>1. r \in rows[m] /\ r.origin = o /\ r.seq \in Nat /\ r.seq <= k
      BY <1>1, <2>2 DEF OfOrigin, Record
    <3>2. PICK h \in rows[m] : h.origin = r.origin /\ h.seq = q
      BY <1>1, <3>1 DEF Dense, Has
    <3>3. h \in taken
      BY <1>2, <3>1, <3>2 DEF OfOrigin
    <3> QED BY <3>2, <3>3
  <2> QED BY <2>1, <2>2
<1>8. \A r, s \in table :
         r.origin = s.origin /\ (r.seq = s.seq \/ r.line = s.line) => r = s
  BY <1>3, SameKey DEF Inductive
<1>9. \A r \in table : \E i \in Node : r \in rows[i]
  BY <1>3
<1>10. rows' = [rows EXCEPT ![n] = table]
  BY DEF MeshCatchUp
<1> HIDE DEF table
<1>11. /\ Tables' /\ rows' \in [Node -> SUBSET Record]
       /\ \A i \in Node : rows[i] \subseteq rows'[i]
  BY <1>5, <1>6, <1>7, <1>8, <1>9, <1>10, TablesGrow DEF Inductive
<1> QED BY <1>11, GrowthStep DEF MeshCatchUp

----------------------------------------------------------------------------
(* Publishing *)

\* Steps of the bridge itself leave the tables alone, but for Apply.
LEMMA TablesStay ==
    ASSUME TypeOK, Tables, UNCHANGED rows
    PROVE  /\ Tables' /\ rows' \in [Node -> SUBSET Record]
           /\ \A n \in Node : rows[n] \subseteq rows'[n]
  BY DEF TypeOK, Tables

LEMMA StartSyncStep ==
    ASSUME Inductive, NEW n \in Node, StartSync(n)
    PROVE  Inductive'
<1> USE DEF Inductive, archives, fetch
<1>1. rows[n] \in SUBSET Record /\ IsFiniteSet(rows[n]) /\ Dense(rows[n])
  BY DEF TypeOK, Tables
<1>2. Watermark(rows[n], OriginOf[n]) \in Nat
  BY <1>1, HasBelow
<1>3. TypeOK'
  <2>1. {b \in objects[Folder[n]] : b.origin = OriginOf[n]} \in SUBSET Bundle
    BY FolderAssumption DEF TypeOK
  <2> QED BY <1>2, <2>1 DEF StartSync, TypeOK, Phase
<1>4. /\ Tables' /\ rows' \in [Node -> SUBSET Record]
      /\ \A m \in Node : rows[m] \subseteq rows'[m]
  BY TablesStay DEF StartSync
<1>5. Bundles'
  BY <1>4, BundlesKept DEF StartSync
<1>6. Publishing'
  <2>1. /\ have'[n] = Watermark(rows[n], OriginOf[n]) /\ next'[n] = 1
        /\ existing'[n] = {b \in objects[Folder[n]] : b.origin = OriginOf[n]}
        /\ UNCHANGED <<rows, objects>>
    BY DEF StartSync, TypeOK
  <2>2. PublishingAt(n)'
    BY <1>2, <2>1 DEF PublishingAt
  <2>3. ASSUME NEW m \in Node, m # n
        PROVE  PublishingAt(m)'
    <3>1. UNCHANGED <<phase[m], have[m], existing[m], next[m], objects>>
      BY <2>3 DEF StartSync, TypeOK
    <3> QED BY <1>4, <3>1, PublishingKept
  <2> QED BY <2>2, <2>3 DEF Publishing
<1>7. Fetching'
  <2>1. ASSUME NEW m \in Node
        PROVE  /\ UNCHANGED <<todo[m], vec[m], rows[m], objects>>
               /\ phase'[m] = "fetching" => phase[m] = "fetching"
    BY DEF StartSync, TypeOK
  <2> QED BY <2>1 DEF Fetching, FetchingAt, Earlier
<1>8. Published'
  <2>1. ASSUME NEW m \in Node, phase'[m] \in {"listed", "fetching"}
        PROVE  phase[m] \in {"listed", "fetching"} /\ have'[m] = have[m]
    BY <2>1 DEF StartSync, TypeOK
  <2> QED BY <2>1 DEF StartSync, Published
<1>9. NoFalseFork' /\ Named'
  BY DEF StartSync, NoFalseFork, Named
<1> QED BY <1>3, <1>4, <1>5, <1>6, <1>7, <1>8, <1>9

\* The last number that Publish expects in the next bundle.
LEMMA SpanReached ==
    ASSUME TypeOK, NEW n \in Node, NEW s \in Nat,
           s <= next[n] + BundleSize - 1, s <= have[n]
    PROVE  s <= Span(n)
<1> DEFINE ends == {next[n] + BundleSize - 1, have[n]}
<1>1. ends \in SUBSET Nat /\ ends # {}
  BY BundleAssumption DEF TypeOK
<1>2. Min(ends) \in ends
  <2> HIDE DEF ends
  <2> QED BY <1>1, MinProperty
<1> QED BY <1>2 DEF Span

LEMMA SkipStep ==
    ASSUME Inductive, NEW n \in Node, Skip(n)
    PROVE  Inductive'
<1> USE DEF Inductive, archives, fetch
<1>1. /\ next[n] \in Nat \ {0} /\ have[n] \in Nat /\ BundleSize \in Nat \ {0}
      /\ next'[n] = next[n] + BundleSize
      /\ \A m \in Node : m # n => next'[m] = next[m]
      /\ next' \in [Node -> Nat \ {0}]
  BY BundleAssumption DEF Skip, TypeOK
<1>2. TypeOK'
  BY <1>1 DEF Skip, TypeOK
<1>3. /\ Tables' /\ rows' \in [Node -> SUBSET Record]
      /\ \A m \in Node : rows[m] \subseteq rows'[m]
  BY TablesStay DEF Skip
<1>4. Bundles'
  BY <1>3, BundlesKept DEF Skip
<1>5. PublishingAt(n)'
  <2>1. PICK b \in existing[n] : b.first = next[n] /\ b.last >= Span(n)
    BY DEF Skip, Covered
  <2>2. /\ b \in objects[Folder[n]] /\ b.origin = OriginOf[n]
        /\ Folder[n] \in Place /\ b \in Bundle
    BY FolderAssumption DEF Skip, Publishing, PublishingAt, TypeOK
  <2>3. Seqs(b.rows, b.origin) = b.first..b.last
    BY <2>2 DEF Named
  <2>4. ASSUME NEW s \in 1..(next'[n] - 1), s <= have[n]
        PROVE  Covers(n, s)'
    <3>1. CASE s < next[n]
      <4>1. Covers(n, s)
        BY <1>1, <3>1, <2>4 DEF Skip, Publishing, PublishingAt
      <4> QED BY <1>1, <4>1, <2>2 DEF Skip, Covers, TypeOK, Bundle
    <3>2. CASE s >= next[n]
      <4>1. s <= Span(n) /\ s \in Nat
        BY <1>1, <2>4, SpanReached
      <4>2. Span(n) \in Nat
        <5>1. {next[n] + BundleSize - 1, have[n]} \in SUBSET Nat
          BY <1>1
        <5> QED BY <5>1, MinProperty DEF Span
      <4>3. s \in b.first..b.last
        BY <1>1, <2>1, <2>2, <3>2, <4>1, <4>2 DEF Bundle
      <4>4. Has(b.rows, OriginOf[n], s)
        BY <2>2, <2>3, <4>3 DEF Seqs, OfOrigin, Has
      <4>5. b.first < next'[n]
        BY <1>1, <2>1
      <4> QED BY <2>2, <4>4, <4>5 DEF Skip, Covers
    <3> QED BY <1>1, <2>4, <3>1, <3>2
  <2> QED BY <2>4 DEF Skip, Publishing, PublishingAt
<1>6. Publishing'
  <2>1. ASSUME NEW m \in Node, m # n
        PROVE  PublishingAt(m)'
    <3>1. UNCHANGED <<phase[m], have[m], existing[m], next[m], objects>>
      BY <1>1, <2>1 DEF Skip
    <3> QED BY <1>3, <3>1, PublishingKept
  <2> QED BY <1>5, <2>1 DEF Publishing
<1>7. Fetching'
  <2>1. ASSUME NEW m \in Node
        PROVE  FetchingAt(m)'
    BY <1>3, FetchingKept DEF Skip
  <2> QED BY <2>1 DEF Fetching
<1>8. NoFalseFork' /\ Named' /\ Published'
  BY DEF Skip, NoFalseFork, Named, Published
<1> QED BY <1>2, <1>3, <1>4, <1>6, <1>7, <1>8

LEMMA PutBundleStep ==
    ASSUME OriginsDistinct, Inductive, NEW n \in Node, PutBundle(n)
    PROVE  Inductive'
<1> USE DEF Inductive, archives, fetch
<1> DEFINE o == OriginOf[n]
           after == next[n] - 1
           batch == Since(rows[n], o, after, BundleSize)
           new == [origin |-> o, first |-> next[n], last |-> Watermark(batch, o),
                   rows |-> batch]
<1>1. /\ next[n] \in Nat \ {0} /\ have[n] \in Nat /\ BundleSize \in Nat \ {0}
      /\ next'[n] = next[n] + BundleSize /\ next[n] <= have[n]
      /\ \A m \in Node : m # n => next'[m] = next[m]
      /\ next' \in [Node -> Nat \ {0}]
      /\ o \in Origin /\ Folder[n] \in Place
  <2>1. next' = [next EXCEPT ![n] = @ + BundleSize] /\ next[n] <= have[n]
    BY DEF PutBundle
  <2>2. next \in [Node -> Nat \ {0}] /\ have \in [Node -> Nat]
    BY DEF TypeOK
  <2> QED BY <2>1, <2>2, BundleAssumption, BridgeOriginAssumption, FolderAssumption
<1>2. /\ objects' = [objects EXCEPT ![Folder[n]] = @ \cup {new}]
      /\ phase[n] = "publishing"
      /\ UNCHANGED <<rows, quarantine, phase, have, existing, todo, vec, faults>>
  BY DEF PutBundle, PutObject
<1>3. /\ rows[n] \in SUBSET Record /\ IsFiniteSet(rows[n]) /\ Dense(rows[n])
      /\ \A r, s \in rows[n] : r.origin = s.origin /\ r.seq = s.seq => r = s
  BY DEF TypeOK, Tables
<1>4. /\ Watermark(rows[n], o) \in Nat
      /\ have[n] <= Watermark(rows[n], o)
      /\ \A s \in 1..(next[n] - 1) : s <= have[n] => Covers(n, s)
  BY <1>2, <1>3, HasBelow DEF Publishing, PublishingAt
<1>5. after \in Nat /\ after < Watermark(rows[n], o) /\ after + 1 = next[n]
  BY <1>1, <1>4
<1>6. /\ batch # {} /\ batch \subseteq OfOrigin(rows[n], o)
      /\ Watermark(batch, o) \in Nat
      /\ Seqs(batch, o) = next[n]..Watermark(batch, o)
  <2> HIDE DEF o, after
  <2> QED BY <1>1, <1>3, <1>5, BatchNumbers
<1>7. ASSUME NEW s \in next[n]..(next'[n] - 1), s <= have[n]
      PROVE  Has(batch, o, s)
  <2>1. s \in (after + 1)..(after + BundleSize)
    BY <1>1, <1>5
  <2>2. s <= Watermark(rows[n], o)
    BY <1>1, <1>4, <1>7
  <2> HIDE DEF o, after
  <2> QED BY <1>1, <1>3, <1>5, <2>1, <2>2, BatchFull
<1>8. /\ new.origin = o /\ new.first = next[n] /\ new.last = Watermark(batch, o)
      /\ new.rows = batch /\ new \in Bundle
  BY <1>1, <1>3, <1>6 DEF Bundle, OfOrigin
<1> HIDE DEF batch, new, after
<1>9. /\ \A q \in Place : objects[q] \subseteq objects'[q]
      /\ \A q \in Place : \A b \in objects'[q] :
            b \in objects[q] \/ (q = Folder[n] /\ b = new)
      /\ new \in objects'[Folder[n]]
      /\ objects' \in [Place -> SUBSET Bundle]
  BY <1>1, <1>2, <1>8 DEF TypeOK
<1>10. TypeOK'
  BY <1>1, <1>2, <1>9 DEF TypeOK
<1>11. /\ Tables' /\ rows' \in [Node -> SUBSET Record]
       /\ \A m \in Node : rows[m] \subseteq rows'[m]
  BY <1>2, TablesStay
<1>12. Bundles'
  <2>1. ASSUME NEW q \in Place, NEW b \in objects[q]
        PROVE  /\ \A r \in b.rows : r.origin = b.origin
               /\ \E m \in Node :
                     OriginOf[m] = b.origin /\ Folder[m] = q /\ b.rows \subseteq rows'[m]
               /\ \A s \in 1..(b.first - 1) : Earlier(objects'[q], b, s)
    <3>1. \A s \in 1..(b.first - 1) : Earlier(objects[q], b, s)
      BY DEF Bundles
    <3>2. \A s \in 1..(b.first - 1) : Earlier(objects'[q], b, s)
      BY <1>9, <3>1 DEF Earlier
    <3> QED BY <1>2, <3>2 DEF Bundles
  <2>2. \A r \in new.rows : r.origin = new.origin
    BY <1>6, <1>8 DEF OfOrigin
  <2>3. OriginOf[n] = new.origin /\ new.rows \subseteq rows'[n]
    BY <1>2, <1>6, <1>8 DEF OfOrigin
  <2>4. ASSUME NEW s \in 1..(new.first - 1)
        PROVE  Earlier(objects'[Folder[n]], new, s)
    <3>1. Covers(n, s)
      BY <1>1, <1>4, <1>8
    <3>2. PICK d \in objects[Folder[n]] :
             d.origin = o /\ d.first < next[n] /\ Has(d.rows, o, s)
      BY <3>1 DEF Covers
    <3> QED BY <1>1, <1>8, <1>9, <3>2 DEF Earlier, Precedes
  <2> QED BY <1>9, <2>1, <2>2, <2>3, <2>4 DEF Bundles
<1>13. PublishingAt(n)'
  <2>1. ASSUME NEW s \in 1..(next'[n] - 1), s <= have[n]
        PROVE  Covers(n, s)'
    <3>1. CASE s < next[n]
      <4>1. PICK d \in objects[Folder[n]] :
               d.origin = o /\ d.first < next[n] /\ Has(d.rows, o, s)
        BY <1>1, <1>4, <2>1, <3>1 DEF Covers
      <4>2. d.first \in Nat /\ d \in objects'[Folder[n]]
        BY <1>1, <1>9, <4>1 DEF TypeOK, Bundle
      <4>3. d.first < next'[n]
        BY <1>1, <4>1, <4>2
      <4> QED BY <4>1, <4>2, <4>3 DEF Covers
    <3>2. CASE s >= next[n]
      <4>1. Has(batch, o, s)
        BY <1>1, <1>7, <2>1, <3>2
      <4>2. new.first < next'[n]
        BY <1>1, <1>8
      <4> QED BY <1>8, <1>9, <4>1, <4>2 DEF Covers
    <3> QED BY <1>1, <2>1, <3>1, <3>2
  <2>2. existing'[n] \subseteq {b \in objects'[Folder[n]] : b.origin = OriginOf[n]}
    BY <1>1, <1>2, <1>9 DEF Publishing, PublishingAt
  <2> QED BY <1>2, <1>4, <2>1, <2>2 DEF PublishingAt
<1>14. Publishing'
  <2>1. ASSUME NEW m \in Node, m # n
        PROVE  PublishingAt(m)'
    BY <1>1, <1>2, <1>9, <1>11, <2>1, PublishingKept
  <2> QED BY <1>13, <2>1 DEF Publishing
<1>15. Fetching'
  <2>1. ASSUME NEW m \in Node
        PROVE  FetchingAt(m)'
    BY <1>2, <1>9, <1>11, FetchingKept
  <2> QED BY <2>1 DEF Fetching
<1>16. Named'
  BY <1>6, <1>8, <1>9 DEF Named
<1>17. Published'
  BY <1>2, <1>9, FolderAssumption DEF Published
<1>18. NoFalseFork'
  BY <1>2 DEF NoFalseFork
<1> QED BY <1>10, <1>11, <1>12, <1>14, <1>15, <1>16, <1>17, <1>18

----------------------------------------------------------------------------
(* Fetching *)

LEMMA ListStep ==
    ASSUME Inductive, NEW n \in Node, List(n)
    PROVE  Inductive'
<1> USE DEF Inductive, archives
<1> DEFINE listing == {b \in objects[Folder[n]] : b.origin # OriginOf[n]}
<1>1. /\ phase[n] = "publishing" /\ next[n] > have[n]
      /\ phase' = [phase EXCEPT ![n] = "listed"] /\ next' = [next EXCEPT ![n] = 1]
      /\ existing' = [existing EXCEPT ![n] = {}] /\ todo' = [todo EXCEPT ![n] = listing]
      /\ UNCHANGED <<rows, quarantine, objects, have, vec, faults>>
  BY DEF List
<1>2. listing \in SUBSET Bundle /\ Folder[n] \in Place
  BY FolderAssumption DEF TypeOK
<1>3. TypeOK'
  BY <1>1, <1>2 DEF TypeOK, Phase
<1>4. /\ Tables' /\ rows' \in [Node -> SUBSET Record]
      /\ \A m \in Node : rows[m] \subseteq rows'[m]
  BY <1>1, TablesStay
<1>5. Bundles'
  BY <1>1, <1>4, BundlesKept
<1>6. /\ phase'[n] = "listed" /\ todo'[n] = listing
      /\ \A m \in Node : m # n =>
            UNCHANGED <<phase[m], have[m], existing[m], next[m], todo[m], vec[m]>>
  BY <1>1 DEF TypeOK
<1>7. Publishing'
  <2>1. PublishingAt(n)'
    BY <1>1, <1>6 DEF Publishing, PublishingAt
  <2>2. ASSUME NEW m \in Node, m # n
        PROVE  PublishingAt(m)'
    BY <1>1, <1>4, <1>6, <2>2, PublishingKept
  <2> QED BY <2>1, <2>2 DEF Publishing
<1>8. Fetching'
  <2>1. ASSUME NEW b \in listing, NEW s \in 1..(b.first - 1)
        PROVE  Earlier(listing, b, s)
    <3>1. Earlier(objects[Folder[n]], b, s)
      BY <1>2 DEF Bundles
    <3> QED BY <3>1 DEF Earlier, Precedes
  <2>2. FetchingAt(n)'
    <3>1. \A b \in todo'[n] : \A s \in 1..(b.first - 1) : Earlier(todo'[n], b, s)
      BY <1>6, <2>1 DEF Earlier
    <3> QED BY <1>1, <1>6, <3>1 DEF FetchingAt, Earlier
  <2>3. ASSUME NEW m \in Node, m # n
        PROVE  FetchingAt(m)'
    BY <1>1, <1>4, <1>6, <2>3, FetchingKept
  <2> QED BY <2>2, <2>3 DEF Fetching
<1>9. Published'
  <2>1. ASSUME NEW q \in 1..have[n]
        PROVE  \E b \in objects[Folder[n]] : Has(b.rows, OriginOf[n], q)
    <3>1. q \in 1..(next[n] - 1) /\ q <= have[n]
      BY <1>1 DEF TypeOK
    <3>2. Covers(n, q)
      BY <1>1, <3>1 DEF Publishing, PublishingAt
    <3> QED BY <3>2 DEF Covers
  <2>2. ASSUME NEW m \in Node, m # n
        PROVE  phase'[m] = phase[m] /\ have'[m] = have[m]
    BY <1>6, <2>2
  <2> QED BY <1>1, <2>1, <2>2 DEF Published
<1>10. NoFalseFork' /\ Named'
  BY <1>1 DEF NoFalseFork, Named
<1> QED BY <1>3, <1>4, <1>5, <1>7, <1>8, <1>9, <1>10

LEMMA ReadVectorStep ==
    ASSUME Inductive, NEW n \in Node, ReadVector(n)
    PROVE  Inductive'
<1> USE DEF Inductive, archives, publish
<1>1. /\ phase[n] = "listed" /\ phase' = [phase EXCEPT ![n] = "fetching"]
      /\ vec' = [vec EXCEPT ![n] = [o \in Origin |-> Watermark(rows[n], o)]]
      /\ UNCHANGED <<rows, quarantine, objects, have, existing, next, todo, faults>>
  BY DEF ReadVector
<1>2. \A o \in Origin : Watermark(rows[n], o) \in Nat
  <2>1. rows[n] \in SUBSET Record /\ IsFiniteSet(rows[n]) /\ Dense(rows[n])
    BY DEF TypeOK, Tables
  <2> QED BY <2>1, HasBelow
<1>3. TypeOK'
  <2>1. [o \in Origin |-> Watermark(rows[n], o)] \in [Origin -> Nat]
    BY <1>2
  <2> QED BY <1>1, <2>1 DEF TypeOK, Phase
<1>4. /\ Tables' /\ rows' \in [Node -> SUBSET Record]
      /\ \A m \in Node : rows[m] \subseteq rows'[m]
  BY <1>1, TablesStay
<1>5. Bundles'
  BY <1>1, <1>4, BundlesKept
<1>6. /\ phase'[n] = "fetching"
      /\ \A o \in Origin : vec'[n][o] = Watermark(rows[n], o)
      /\ \A m \in Node : m # n => UNCHANGED <<phase[m], vec[m]>>
  BY <1>1 DEF TypeOK
<1>7. Publishing'
  <2>1. PublishingAt(n)'
    BY <1>1, <1>6 DEF Publishing, PublishingAt
  <2>2. ASSUME NEW m \in Node, m # n
        PROVE  PublishingAt(m)'
    BY <1>1, <1>4, <1>6, <2>2, PublishingKept
  <2> QED BY <2>1, <2>2 DEF Publishing
<1>8. Fetching'
  <2>1. FetchingAt(n)'
    <3>1. \A o \in Origin : vec'[n][o] <= Watermark(rows'[n], o)
      BY <1>1, <1>2, <1>6
    <3>2. UNCHANGED <<rows, objects, todo>>
      BY <1>1
    <3> QED BY <3>1, <3>2 DEF Fetching, FetchingAt, Earlier
  <2>2. ASSUME NEW m \in Node, m # n
        PROVE  FetchingAt(m)'
    BY <1>1, <1>4, <1>6, <2>2, FetchingKept
  <2> QED BY <2>1, <2>2 DEF Fetching
<1>9. Published'
  <2>1. ASSUME NEW m \in Node, phase'[m] \in {"listed", "fetching"}
        PROVE  phase[m] \in {"listed", "fetching"}
    BY <1>1, <1>6, <2>1
  <2> QED BY <1>1, <2>1 DEF Published
<1>10. NoFalseFork' /\ Named'
  BY <1>1 DEF NoFalseFork, Named
<1> QED BY <1>3, <1>4, <1>5, <1>7, <1>8, <1>9, <1>10

LEMMA PassOverStep ==
    ASSUME Inductive, NEW n \in Node, NEW b \in todo[n], PassOver(n, b)
    PROVE  Inductive'
<1> USE DEF Inductive, archives, publish
<1>1. /\ phase[n] = "fetching" /\ vec[n][b.origin] >= b.last
      /\ todo' = [todo EXCEPT ![n] = @ \ {b}]
      /\ UNCHANGED <<rows, quarantine, objects, phase, have, existing, next, vec, faults>>
  BY DEF PassOver
<1>2. /\ todo'[n] = todo[n] \ {b} /\ todo[n] \subseteq objects[Folder[n]]
      /\ \A m \in Node : m # n => todo'[m] = todo[m]
      /\ Folder[n] \in Place /\ b \in Bundle
  BY <1>1, FolderAssumption DEF TypeOK, Fetching, FetchingAt
<1>3. TypeOK'
  <2>1. todo[n] \ {b} \in SUBSET Bundle
    BY DEF TypeOK
  <2> QED BY <1>1, <2>1 DEF TypeOK
<1>4. /\ Tables' /\ rows' \in [Node -> SUBSET Record]
      /\ \A m \in Node : rows[m] \subseteq rows'[m]
  BY <1>1, TablesStay
<1>5. Bundles'
  BY <1>1, <1>4, BundlesKept
<1>6. Publishing'
  <2>1. ASSUME NEW m \in Node
        PROVE  PublishingAt(m)'
    BY <1>1, <1>4, PublishingKept
  <2> QED BY <2>1 DEF Publishing
<1>7. ASSUME NEW s, Has(b.rows, b.origin, s)
      PROVE  Has(rows[n], b.origin, s)
  <2>1. s \in b.first..b.last
    BY <1>2, <1>7 DEF Named, Has, Seqs, OfOrigin
  <2>2. /\ rows[n] \in SUBSET Record /\ IsFiniteSet(rows[n]) /\ Dense(rows[n])
        /\ b.first \in Nat \ {0} /\ b.last \in Nat /\ b.origin \in Origin
        /\ vec[n][b.origin] \in Nat
        /\ vec[n][b.origin] <= Watermark(rows[n], b.origin)
    BY <1>1, <1>2 DEF TypeOK, Tables, Bundle, Fetching, FetchingAt
  <2>3. Watermark(rows[n], b.origin) \in Nat
    BY <2>2, HasBelow
  <2>4. s \in 1..Watermark(rows[n], b.origin)
    BY <1>1, <2>1, <2>2, <2>3
  <2> QED BY <2>2, <2>4, HasBelow
<1>8. Fetching'
  <2>1. ASSUME NEW d \in todo'[n], NEW s \in 1..(d.first - 1)
        PROVE  Has(rows[n], d.origin, s) \/ Earlier(todo'[n], d, s)
    <3>1. CASE Has(rows[n], d.origin, s)
      BY <3>1
    <3>2. CASE Earlier(todo[n], d, s)
      <4>1. PICK c \in todo[n] : Precedes(c, d) /\ Has(c.rows, d.origin, s)
        BY <3>2 DEF Earlier
      <4>2. CASE c = b
        BY <1>7, <4>1, <4>2 DEF Precedes
      <4>3. CASE c # b
        BY <1>2, <4>1, <4>3 DEF Earlier
      <4> QED BY <4>2, <4>3
    <3> QED BY <1>2, <2>1, <3>1, <3>2 DEF Fetching, FetchingAt
  <2>2. FetchingAt(n)'
    <3>1. \A d \in todo'[n] : \A s \in 1..(d.first - 1) :
             Has(rows'[n], d.origin, s) \/ Earlier(todo'[n], d, s)
      BY <1>1, <2>1
    <3>2. todo'[n] \subseteq objects'[Folder[n]]
      BY <1>1, <1>2
    <3>3. phase'[n] = "fetching" =>
             \A o \in Origin : vec'[n][o] <= Watermark(rows'[n], o)
      BY <1>1 DEF Fetching, FetchingAt
    <3> QED BY <3>1, <3>2, <3>3 DEF FetchingAt, Earlier
  <2>3. ASSUME NEW m \in Node, m # n
        PROVE  FetchingAt(m)'
    BY <1>1, <1>2, <1>4, <2>3, FetchingKept
  <2> QED BY <2>2, <2>3 DEF Fetching
<1>9. NoFalseFork' /\ Named' /\ Published'
  BY <1>1 DEF NoFalseFork, Named, Published
<1> QED BY <1>3, <1>4, <1>5, <1>6, <1>8, <1>9

LEMMA ApplyStep ==
    ASSUME OriginsDistinct, Inductive, NEW n \in Node, NEW b \in todo[n], Apply(n, b)
    PROVE  Inductive'
<1> USE DEF Inductive, publish
<1> DEFINE table == rows[n] \cup Insertable(rows[n], b.rows)
<1>1. /\ phase[n] = "fetching" /\ \A d \in todo[n] : ~Precedes(d, b)
      /\ rows' = [rows EXCEPT ![n] = table]
      /\ quarantine' = [quarantine EXCEPT ![n] = @ \cup ForkEvidence(rows[n], b.rows)]
      /\ todo' = [todo EXCEPT ![n] = @ \ {b}]
      /\ UNCHANGED <<objects, phase, have, existing, next, vec, faults>>
  BY DEF Apply, NextUp
<1>2. /\ todo'[n] = todo[n] \ {b} /\ todo[n] \subseteq objects[Folder[n]]
      /\ \A m \in Node : m # n => todo'[m] = todo[m]
      /\ Folder[n] \in Place /\ b \in Bundle /\ b \in objects[Folder[n]]
  BY <1>1, FolderAssumption DEF TypeOK, Fetching, FetchingAt
<1>3. PICK w \in Node : OriginOf[w] = b.origin /\ b.rows \subseteq rows[w]
  BY <1>2 DEF Bundles
<1>4. /\ \A r \in b.rows : r.origin = b.origin
      /\ Seqs(b.rows, b.origin) = b.first..b.last
  BY <1>2 DEF Bundles, Named
<1>5. \A s \in 1..(b.first - 1) : Has(rows[n], b.origin, s)
  BY <1>1 DEF Fetching, FetchingAt, Earlier
<1>6. /\ rows[n] \in SUBSET Record /\ IsFiniteSet(rows[n]) /\ Dense(rows[n])
      /\ rows[w] \in SUBSET Record /\ IsFiniteSet(rows[w])
  BY DEF TypeOK, Tables
<1>7. ASSUME NEW r \in b.rows, NEW h \in rows[n],
             h.origin = r.origin, h.seq = r.seq \/ h.line = r.line
      PROVE  r = h
  BY <1>3, <1>7, SameKey
<1>8. ForkEvidence(rows[n], b.rows) = {}
  BY <1>7 DEF ForkEvidence
<1>9. quarantine' = quarantine
  BY <1>1, <1>8 DEF TypeOK
<1>10. table = rows[n] \cup b.rows
  BY <1>7 DEF Insertable
<1> HIDE DEF table
<1>11. IsFiniteSet(table) /\ table \in SUBSET Record
  <2>1. IsFiniteSet(b.rows)
    BY <1>3, <1>6, FS_Subset
  <2> QED BY <1>3, <1>6, <1>10, <2>1, FS_Union
<1>12. Dense(table)
  <2> SUFFICES ASSUME NEW r \in table, NEW q \in 1..r.seq
               PROVE  Has(table, r.origin, q)
    BY DEF Dense
  <2>1. CASE r \in rows[n]
    <3>1. Has(rows[n], r.origin, q)
      BY <1>6, <2>1 DEF Dense
    <3> QED BY <1>10, <3>1 DEF Has
  <2>2. CASE r \in b.rows
    <3>1. /\ r.origin = b.origin /\ r.seq \in b.first..b.last
          /\ b.first \in Nat /\ b.last \in Nat
      BY <1>2, <1>4, <2>2 DEF Seqs, OfOrigin, Bundle
    <3>2. CASE q < b.first
      <4>1. Has(rows[n], b.origin, q)
        BY <1>5, <3>1, <3>2
      <4> QED BY <1>10, <3>1, <4>1 DEF Has
    <3>3. CASE q >= b.first
      <4>1. q \in Seqs(b.rows, b.origin)
        BY <1>4, <3>1, <3>3
      <4> QED BY <1>10, <3>1, <4>1 DEF Has, Seqs, OfOrigin
    <3> QED BY <3>1, <3>2, <3>3
  <2> QED BY <1>10, <2>1, <2>2
<1>13. \A r, s \in table :
          r.origin = s.origin /\ (r.seq = s.seq \/ r.line = s.line) => r = s
  BY <1>3, <1>10, SameKey
<1>14. \A r \in table : \E m \in Node : r \in rows[m]
  BY <1>3, <1>10
<1>15. /\ Tables' /\ rows' \in [Node -> SUBSET Record]
       /\ \A m \in Node : rows[m] \subseteq rows'[m]
  BY <1>1, <1>10, <1>11, <1>12, <1>13, <1>14, TablesGrow
<1>16. TypeOK'
  <2>1. todo[n] \ {b} \in SUBSET Bundle
    BY DEF TypeOK
  <2> QED BY <1>1, <1>9, <1>15, <2>1 DEF TypeOK
<1>17. Bundles'
  BY <1>1, <1>15, BundlesKept
<1>18. Publishing'
  <2>1. ASSUME NEW m \in Node
        PROVE  PublishingAt(m)'
    BY <1>1, <1>15, PublishingKept
  <2> QED BY <2>1 DEF Publishing
<1>19. Fetching'
  <2>1. rows'[n] = table
    BY <1>1 DEF TypeOK
  <2>2. ASSUME NEW d \in todo'[n], NEW s \in 1..(d.first - 1)
        PROVE  Has(rows'[n], d.origin, s) \/ Earlier(todo'[n], d, s)
    <3>1. CASE Has(rows[n], d.origin, s)
      BY <1>10, <2>1, <3>1 DEF Has
    <3>2. CASE Earlier(todo[n], d, s)
      <4>1. PICK c \in todo[n] : Precedes(c, d) /\ Has(c.rows, d.origin, s)
        BY <3>2 DEF Earlier
      <4>2. CASE c = b
        BY <1>10, <2>1, <4>1, <4>2 DEF Has
      <4>3. CASE c # b
        BY <1>2, <4>1, <4>3 DEF Earlier
      <4> QED BY <4>2, <4>3
    <3> QED BY <1>2, <2>2, <3>1, <3>2 DEF Fetching, FetchingAt
  <2>3. ASSUME NEW o \in Origin
        PROVE  vec'[n][o] <= Watermark(rows'[n], o)
    <3>1. vec[n][o] \in Nat /\ vec[n][o] <= Watermark(rows[n], o)
      BY <1>1 DEF Fetching, FetchingAt, TypeOK
    <3>2. /\ Watermark(rows[n], o) \in Nat /\ Watermark(rows'[n], o) \in Nat
          /\ Watermark(rows[n], o) <= Watermark(rows'[n], o)
      BY <1>15, WatermarksGrow
    <3> QED BY <1>1, <3>1, <3>2
  <2>4. FetchingAt(n)'
    <3>1. \A d \in todo'[n] : \A s \in 1..(d.first - 1) :
             Has(rows'[n], d.origin, s) \/ Earlier(todo'[n], d, s)
      BY <2>2
    <3>2. todo'[n] \subseteq objects'[Folder[n]]
      BY <1>1, <1>2
    <3> QED BY <2>3, <3>1, <3>2 DEF FetchingAt, Earlier
  <2>5. ASSUME NEW m \in Node, m # n
        PROVE  FetchingAt(m)'
    BY <1>1, <1>2, <1>15, <2>5, FetchingKept
  <2> QED BY <2>4, <2>5 DEF Fetching
<1>20. NoFalseFork' /\ Named' /\ Published'
  BY <1>1, <1>9 DEF NoFalseFork, Named, Published
<1> QED BY <1>15, <1>16, <1>17, <1>18, <1>19, <1>20

\* However a sync ends.
LEMMA ReturnStep ==
    ASSUME Inductive, NEW n \in Node, Return(n), faults' \in Nat
    PROVE  Inductive'
<1> USE DEF Inductive, archives
<1>1. /\ phase' = [phase EXCEPT ![n] = "idle"] /\ have' = [have EXCEPT ![n] = 0]
      /\ existing' = [existing EXCEPT ![n] = {}] /\ next' = [next EXCEPT ![n] = 1]
      /\ todo' = [todo EXCEPT ![n] = {}] /\ vec' = [vec EXCEPT ![n] = NoVector]
      /\ UNCHANGED <<rows, quarantine, objects>>
  BY DEF Return
<1>2. TypeOK'
  <2>1. NoVector \in [Origin -> Nat]
    BY DEF NoVector
  <2> QED BY <1>1, <2>1 DEF TypeOK, Phase
<1>3. /\ Tables' /\ rows' \in [Node -> SUBSET Record]
      /\ \A m \in Node : rows[m] \subseteq rows'[m]
  BY <1>1, TablesStay
<1>4. Bundles'
  BY <1>1, <1>3, BundlesKept
<1>5. /\ phase'[n] = "idle" /\ todo'[n] = {}
      /\ \A m \in Node : m # n =>
            UNCHANGED <<phase[m], have[m], existing[m], next[m], todo[m], vec[m]>>
  BY <1>1 DEF TypeOK
<1>6. Publishing'
  <2>1. PublishingAt(n)'
    BY <1>5 DEF PublishingAt
  <2>2. ASSUME NEW m \in Node, m # n
        PROVE  PublishingAt(m)'
    BY <1>1, <1>3, <1>5, <2>2, PublishingKept
  <2> QED BY <2>1, <2>2 DEF Publishing
<1>7. Fetching'
  <2>1. FetchingAt(n)'
    BY <1>5 DEF FetchingAt
  <2>2. ASSUME NEW m \in Node, m # n
        PROVE  FetchingAt(m)'
    BY <1>1, <1>3, <1>5, <2>2, FetchingKept
  <2> QED BY <2>1, <2>2 DEF Fetching
<1>8. Published'
  <2>1. ASSUME NEW m \in Node, phase'[m] \in {"listed", "fetching"}
        PROVE  phase[m] \in {"listed", "fetching"} /\ have'[m] = have[m]
    BY <1>5, <2>1
  <2> QED BY <1>1, <2>1 DEF Published
<1>9. NoFalseFork' /\ Named'
  BY <1>1 DEF NoFalseFork, Named
<1> QED BY <1>2, <1>3, <1>4, <1>6, <1>7, <1>8, <1>9

----------------------------------------------------------------------------
(* The theorems *)

LEMMA InitInductive ==
    ASSUME Init
    PROVE  Inductive
<1> USE DEF Init
<1>1. TypeOK
  <2>1. NoVector \in [Origin -> Nat]
    BY DEF NoVector
  <2> QED BY <2>1 DEF TypeOK, Phase
<1>2. Tables
  BY FS_EmptySet DEF Tables, Dense
<1>3. Bundles /\ Named /\ NoFalseFork
  BY DEF Bundles, Named, NoFalseFork
<1>4. Publishing /\ Fetching /\ Published
  BY DEF Publishing, PublishingAt, Fetching, FetchingAt, Published
<1> QED BY <1>1, <1>2, <1>3, <1>4 DEF Inductive

LEMMA StutterStep ==
    ASSUME Inductive, UNCHANGED vars
    PROVE  Inductive'
<1>1. /\ rows' \in [Node -> SUBSET Record] /\ Tables'
      /\ \A n \in Node : rows[n] \subseteq rows'[n]
  BY TablesStay DEF vars, Inductive
<1> QED BY <1>1, GrowthStep DEF vars, publish, fetch

LEMMA NextInductive ==
    ASSUME OriginsDistinct, Inductive, [Next]_vars
    PROVE  Inductive'
<1>1. CASE \E n \in Node : \E l \in Transcript[n] : AppendLocal(n, l)
  BY <1>1, AppendLocalStep
<1>2. CASE \E n, m \in Node, o \in Origin :
              \E k \in 1..Watermark(rows[m], o) : MeshCatchUp(n, m, o, k)
  BY <1>2, MeshCatchUpStep
<1>3. ASSUME NEW n \in Node, Sync(n)
      PROVE  Inductive'
  <2>1. CASE StartSync(n) \/ Skip(n) \/ PutBundle(n)
    BY <2>1, StartSyncStep, SkipStep, PutBundleStep
  <2>2. CASE List(n) \/ ReadVector(n)
    BY <2>2, ListStep, ReadVectorStep
  <2>3. CASE EndSync(n)
    <3>1. Return(n) /\ faults' \in Nat
      BY <2>3 DEF EndSync, Inductive, TypeOK
    <3> QED BY <3>1, ReturnStep
  <2>4. CASE \E b \in todo[n] : PassOver(n, b) \/ Apply(n, b)
    BY <2>4, PassOverStep, ApplyStep
  <2> QED BY <1>3, <2>1, <2>2, <2>3, <2>4 DEF Sync
<1>4. ASSUME NEW n \in Node, Fail(n)
      PROVE  Inductive'
  <2>1. Return(n) /\ faults' \in Nat
    BY <1>4 DEF Fail, Inductive, TypeOK
  <2> QED BY <2>1, ReturnStep
<1>5. CASE UNCHANGED vars
  BY <1>5, StutterStep
<1> QED BY <1>1, <1>2, <1>3, <1>4, <1>5 DEF Next

\* The invariant the others follow from holds in every behaviour of nodes that
\* share a folder, of any number, whatever fails and whatever the mesh brings.
THEOREM FolderInvariant ==
    ASSUME OriginsDistinct
    PROVE  Spec => []Inductive
<1>1. Init => Inductive
  BY InitInductive
<1>2. Inductive /\ [Next]_vars => Inductive'
  BY NextInductive
<1> QED BY <1>1, <1>2, PTL DEF Spec

\* Type correctness of the bridge.
THEOREM BridgeTyped ==
    ASSUME OriginsDistinct
    PROVE  Spec => []TypeOK
<1>1. Inductive => TypeOK
  BY DEF Inductive
<1> QED BY <1>1, FolderInvariant, PTL

\* Bundles of any sizes, applied by name in the middle of whatever the mesh
\* brings, leave no hole below a watermark.
THEOREM BundlesLeaveNoHole ==
    ASSUME OriginsDistinct
    PROVE  Spec => []GapFree
<1>1. Inductive => GapFree
  BY DEF Inductive, Tables, GapFree
<1> QED BY <1>1, FolderInvariant, PTL

\* Overlapping bundles are never taken for a fork.
THEOREM BundlesRaiseNoAlarm ==
    ASSUME OriginsDistinct
    PROVE  Spec => []NoFalseFork
<1>1. Inductive => NoFalseFork
  BY DEF Inductive
<1> QED BY <1>1, FolderInvariant, PTL

\* A name tells exactly what a bundle holds.
THEOREM NamesTell ==
    ASSUME OriginsDistinct
    PROVE  Spec => []Named
<1>1. Inductive => Named
  BY DEF Inductive
<1> QED BY <1>1, FolderInvariant, PTL

\* Once a sync fetches, all that its node had when it began is in the folder.
THEOREM PublishingComplete ==
    ASSUME OriginsDistinct
    PROVE  Spec => []Published
<1>1. Inductive => Published
  BY DEF Inductive
<1> QED BY <1>1, FolderInvariant, PTL

----------------------------------------------------------------------------
(* What the folder promises *)

\* What the abstract specification sees of the tables.
copies == [n \in Node |-> [o \in Origin |-> Copy(rows[n], o)]]

\* A node's copy of one origin becomes a longer prefix of another node's, and
\* all other copies stay: CatchUp.
LEMMA PrefixTaken ==
    ASSUME OriginsDistinct, TypeOK, Tables, Tables', rows' \in [Node -> SUBSET Record],
           NEW n \in Node, NEW m \in Node, NEW o \in Origin,
           NEW k \in 1..Watermark(rows[m], o),
           \A i \in Node : i # n => rows'[i] = rows[i],
           \A p \in Origin : p # o => OfOrigin(rows'[n], p) = OfOrigin(rows[n], p),
           OfOrigin(rows'[n], o) \subseteq rows[m],
           Watermark(rows'[n], o) = k, Watermark(rows[n], o) < k
    PROVE  Abstract!CatchUp(n, m, o, k) /\ k \in 1..Len(copies[m][o])
<1>1. /\ rows'[n] \in SUBSET Record /\ IsFiniteSet(rows'[n]) /\ Dense(rows'[n])
      /\ rows[n] \in SUBSET Record /\ IsFiniteSet(rows[n]) /\ Dense(rows[n])
      /\ rows[m] \in SUBSET Record /\ IsFiniteSet(rows[m]) /\ Dense(rows[m])
      /\ \A r, s \in rows[m] : r.origin = s.origin /\ r.seq = s.seq => r = s
  BY DEF TypeOK, Tables
<1>2. Copy(rows'[n], o) = SubSeq(Copy(rows[m], o), 1, k)
  BY <1>1, CopyOfPart
<1>3. /\ Len(Copy(rows[n], o)) = Watermark(rows[n], o)
      /\ Len(Copy(rows[m], o)) = Watermark(rows[m], o)
  BY <1>1, CopyLength
<1>4. ASSUME NEW i \in Node, NEW p \in Origin, i # n \/ p # o
      PROVE  Copy(rows'[i], p) = Copy(rows[i], p)
  <2>1. OfOrigin(rows'[i], p) = OfOrigin(rows[i], p)
    BY <1>4
  <2> QED BY <2>1, CopyOfOrigin
<1>5. copies' = [copies EXCEPT ![n][o] = SubSeq(copies[m][o], 1, k)]
  BY <1>2, <1>4 DEF copies
<1>6. k > Len(copies[n][o]) /\ k \in 1..Len(copies[m][o])
  BY <1>3 DEF copies
<1> QED BY <1>5, <1>6 DEF Abstract!CatchUp, copies

\* A local line extends the node's own log.
LEMMA AppendLocalExtends ==
    ASSUME OriginsDistinct, Inductive, NEW n \in Node, NEW l \in Transcript[n],
           AppendLocal(n, l)
    PROVE  Abstract!Next
<1> DEFINE o == OriginOf[n]
           table == WithLocal(rows[n], o, <<l>>)
<1>1. /\ rows[n] \in SUBSET Record /\ IsFiniteSet(rows[n]) /\ Dense(rows[n])
      /\ o \in Origin /\ l \in Line
  BY BridgeOriginAssumption, BridgeTranscriptAssumption DEF Inductive, TypeOK, Tables
<1>2. rows'[n] = table /\ \A i \in Node : i # n => rows'[i] = rows[i]
  BY DEF AppendLocal, Inductive, TypeOK
<1>3. /\ Copy(table, o) = Copy(rows[n], o) \o <<{l}>>
      /\ \A p : p # o => OfOrigin(table, p) = OfOrigin(rows[n], p)
  <2>1. 1 \in Nat /\ <<l>> \in [1..1 -> Line]
    BY <1>1
  <2>2. [i \in 1..1 |-> {<<l>>[i]}] = <<{l}>>
    OBVIOUS
  <2> HIDE DEF o
  <2>3. /\ Copy(table, o) = Copy(rows[n], o) \o [i \in 1..1 |-> {<<l>>[i]}]
        /\ \A p : p # o => OfOrigin(table, p) = OfOrigin(rows[n], p)
    BY <1>1, <2>1, CopyAppended
  <2> QED BY <2>2, <2>3
<1> HIDE DEF table
<1>4. ASSUME NEW i \in Node, NEW p \in Origin, i # n \/ p # o
      PROVE  Copy(rows'[i], p) = Copy(rows[i], p)
  <2>1. OfOrigin(rows'[i], p) = OfOrigin(rows[i], p)
    BY <1>2, <1>3, <1>4
  <2> QED BY <2>1, CopyOfOrigin
<1>5. copies' = [copies EXCEPT ![n][OriginOf[n]] = @ \o <<{l}>>]
  BY <1>1, <1>2, <1>3, <1>4 DEF copies
<1>6. Abstract!Extend(n, <<{l}>>)
  BY <1>5 DEF Abstract!Extend, copies
<1>7. <<{l}>> \in {<<{x}>> : x \in Line}
  BY <1>1
<1> QED BY <1>6, <1>7 DEF Abstract!Next

\* What the mesh brings is the prefix it says.
LEMMA MeshCatchUpTakesPrefix ==
    ASSUME OriginsDistinct, Inductive, NEW n \in Node, NEW m \in Node,
           NEW o \in Origin, NEW k \in 1..Watermark(rows[m], o),
           MeshCatchUp(n, m, o, k), Tables', rows' \in [Node -> SUBSET Record]
    PROVE  Abstract!Next
<1> DEFINE taken == {r \in OfOrigin(rows[m], o) : r.seq <= k}
<1>1. /\ rows'[n] = {r \in rows[n] : r.origin # o} \cup taken
      /\ \A i \in Node : i # n => rows'[i] = rows[i]
      /\ Watermark(rows[n], o) < k
  BY DEF MeshCatchUp, Inductive, TypeOK
<1>2. /\ rows[m] \in SUBSET Record /\ IsFiniteSet(rows[m]) /\ Dense(rows[m])
      /\ rows'[n] \in SUBSET Record /\ IsFiniteSet(rows'[n]) /\ Dense(rows'[n])
  BY DEF Inductive, TypeOK, Tables
<1>3. OfOrigin(rows'[n], o) = taken
  BY <1>1 DEF OfOrigin
<1>4. Watermark(rows'[n], o) = k
  <2>1. /\ Watermark(rows[m], o) \in Nat
        /\ Seqs(rows[m], o) = 1..Watermark(rows[m], o)
        /\ Watermark(rows'[n], o) \in Nat
        /\ Seqs(rows'[n], o) = 1..Watermark(rows'[n], o)
    BY <1>2, DenseWatermark
  <2>2. Seqs(rows'[n], o) = {q \in Seqs(rows[m], o) : q <= k}
    BY <1>3 DEF Seqs
  <2> DEFINE high == Watermark(rows[m], o)
             now == Watermark(rows'[n], o)
  <2>3. k \in Nat /\ k <= high /\ k >= 1
    BY <2>1
  <2> HIDE DEF high, now
  <2>4. 1..now = 1..k
    BY <2>1, <2>2, <2>3 DEF high, now
  <2>5. now \in Nat
    BY <2>1 DEF now
  <2>6. now = k
    BY <2>3, <2>4, <2>5
  <2> QED BY <2>6 DEF now
<1>5. \A p \in Origin : p # o => OfOrigin(rows'[n], p) = OfOrigin(rows[n], p)
  BY <1>1 DEF OfOrigin
<1>6. OfOrigin(rows'[n], o) \subseteq rows[m]
  BY <1>3 DEF OfOrigin
<1>7. Abstract!CatchUp(n, m, o, k) /\ k \in 1..Len(copies[m][o])
  BY <1>1, <1>4, <1>5, <1>6, PrefixTaken DEF Inductive
<1> QED BY <1>7 DEF Abstract!Next, copies

\* A bundle was in the table of the origin's own node, and makes the copy a longer
\* prefix of the copy there, or leaves it as it is.
LEMMA ApplyTakesPrefix ==
    ASSUME OriginsDistinct, Inductive, NEW n \in Node, NEW b \in todo[n], Apply(n, b),
           Tables', rows' \in [Node -> SUBSET Record]
    PROVE  Abstract!Next \/ UNCHANGED copies
<1> DEFINE o == b.origin
           new == Insertable(rows[n], b.rows)
           k == Watermark(rows'[n], o)
<1>1. /\ rows'[n] = rows[n] \cup new
      /\ \A i \in Node : i # n => rows'[i] = rows[i]
  BY DEF Apply, Inductive, TypeOK
<1>2. b \in objects[Folder[n]] /\ Folder[n] \in Place /\ o \in Origin
  BY FolderAssumption DEF Inductive, Fetching, FetchingAt, TypeOK, Bundle
<1>3. PICK w \in Node : OriginOf[w] = o /\ b.rows \subseteq rows[w]
  BY <1>2 DEF Inductive, Bundles
<1>4. \A r \in new : r.origin = o /\ r \in rows[w]
  BY <1>2, <1>3 DEF Inductive, Bundles, Insertable
<1>5. /\ rows[n] \in SUBSET Record /\ IsFiniteSet(rows[n]) /\ Dense(rows[n])
      /\ rows'[n] \in SUBSET Record /\ IsFiniteSet(rows'[n]) /\ Dense(rows'[n])
      /\ rows[w] \in SUBSET Record /\ IsFiniteSet(rows[w]) /\ Dense(rows[w])
      /\ \A r, s \in rows[w] : r.origin = s.origin /\ r.seq = s.seq => r = s
  BY DEF Inductive, TypeOK, Tables
<1>6. OfOrigin(rows[n], o) \subseteq rows[w]
  <2> SUFFICES ASSUME NEW r \in rows[n], r.origin = o
               PROVE  r \in rows[w]
    BY DEF OfOrigin
  <2>1. PICK i \in Node : OriginOf[i] = o /\ r \in rows[i]
    BY DEF Inductive, Tables
  <2>2. i = w
    BY <1>3, <2>1, BridgeOriginAssumption DEF OriginsDistinct, IsInjective
  <2> QED BY <2>1, <2>2
<1>7. OfOrigin(rows'[n], o) \subseteq rows[w]
  BY <1>1, <1>4, <1>6 DEF OfOrigin
<1>8. \A p \in Origin : p # o => OfOrigin(rows'[n], p) = OfOrigin(rows[n], p)
  BY <1>1, <1>4 DEF OfOrigin
<1>9. /\ Watermark(rows[n], o) \in Nat /\ k \in Nat /\ Watermark(rows[w], o) \in Nat
      /\ Watermark(rows[n], o) <= k /\ k <= Watermark(rows[w], o)
  <2>1. Watermark(rows[n], o) \in Nat /\ k \in Nat /\ Watermark(rows[w], o) \in Nat
    BY <1>5, DenseWatermark
  <2>2. Watermark(rows[n], o) <= k
    BY <1>1, <1>5, WatermarkGrows
  <2> QED BY <1>5, <1>7, <2>1, <2>2, CopyOfPart
<1>10. CASE Watermark(rows[n], o) < k
  <2>1. k \in 1..Watermark(rows[w], o)
    BY <1>9, <1>10
  <2>2. Abstract!CatchUp(n, w, o, k) /\ k \in 1..Len(copies[w][o])
    <3> HIDE DEF o
    <3> QED BY <1>1, <1>2, <1>7, <1>8, <1>10, <2>1, PrefixTaken DEF Inductive
  <2> QED BY <1>2, <2>2 DEF Abstract!Next, copies
<1>11. CASE Watermark(rows[n], o) = k
  <2>1. Copy(rows'[n], o) = Copy(rows[n], o)
    <3>1. Copy(rows'[n], o) = SubSeq(Copy(rows[w], o), 1, k)
      BY <1>5, <1>7, CopyOfPart
    <3>2. Copy(rows[n], o) = SubSeq(Copy(rows[w], o), 1, Watermark(rows[n], o))
      BY <1>5, <1>6, CopyOfPart
    <3> QED BY <1>11, <3>1, <3>2
  <2>2. ASSUME NEW i \in Node, NEW p \in Origin
        PROVE  Copy(rows'[i], p) = Copy(rows[i], p)
    <3>1. CASE i = n /\ p = o
      BY <2>1, <3>1
    <3>2. CASE i # n \/ p # o
      <4>1. OfOrigin(rows'[i], p) = OfOrigin(rows[i], p)
        BY <1>1, <1>8, <3>2
      <4> QED BY <4>1, CopyOfOrigin
    <3> QED BY <3>1, <3>2
  <2> QED BY <2>2 DEF copies
<1> QED BY <1>9, <1>10, <1>11

\* Every step maps to one of the promise, or to none.
LEMMA StepImplements ==
    ASSUME OriginsDistinct, Inductive, [Next]_vars
    PROVE  Abstract!Next \/ UNCHANGED copies
<1>1. Tables' /\ rows' \in [Node -> SUBSET Record]
  BY NextInductive DEF Inductive, TypeOK
<1>2. CASE \E n \in Node : \E l \in Transcript[n] : AppendLocal(n, l)
  BY <1>1, <1>2, AppendLocalExtends
<1>3. CASE \E n, m \in Node, o \in Origin :
              \E k \in 1..Watermark(rows[m], o) : MeshCatchUp(n, m, o, k)
  BY <1>1, <1>3, MeshCatchUpTakesPrefix
<1>4. CASE \E n \in Node : \E b \in todo[n] : Apply(n, b)
  BY <1>1, <1>4, ApplyTakesPrefix
<1>5. ASSUME UNCHANGED rows
      PROVE  UNCHANGED copies
  BY <1>5 DEF copies
<1>6. CASE \E n \in Node :
              \/ StartSync(n) \/ Skip(n) \/ PutBundle(n) \/ List(n) \/ ReadVector(n)
              \/ EndSync(n) \/ Fail(n) \/ \E b \in todo[n] : PassOver(n, b)
  BY <1>5, <1>6 DEF StartSync, Skip, PutBundle, List, ReadVector, EndSync, Fail,
                    Return, PassOver, archives
<1>7. CASE UNCHANGED vars
  BY <1>5, <1>7 DEF vars
<1> QED BY <1>2, <1>3, <1>4, <1>6, <1>7 DEF Next, Sync

\* Empty tables are empty copies.
LEMMA InitImplements ==
    ASSUME Init
    PROVE  Abstract!Init
<1>1. \A o : Copy({}, o) = <<>>
  BY CopyOfNothing
<1> QED BY <1>1 DEF Init, Abstract!Init

\* The folder and what the mesh promises together keep the promise: a copy only
\* ever grows to a longer prefix of another, whatever the bundles and the faults.
THEOREM FolderImplementsReplicas ==
    ASSUME OriginsDistinct
    PROVE  Spec => ImplementsReplicas
<1>1. Init => Abstract!Init
  BY InitImplements
<1>2. Inductive /\ [Next]_vars => [Abstract!Next]_copies
  BY StepImplements
<1> QED BY <1>1, <1>2, FolderInvariant, PTL DEF Spec, ImplementsReplicas, Abstract!Spec, copies

----------------------------------------------------------------------------
(* A folder in disorder: copied bundle by bundle, and unreadable at times *)

\* A record that the node with its origin id holds.
Genuine(r) == \E m \in Node : OriginOf[m] = r.origin /\ r \in rows[m]

\* What a node has issued has a highest number, and one line for each.
Issued ==
    \A n \in Node :
        /\ \E b \in Nat : \A r \in OfOrigin(rows[n], OriginOf[n]) : r.seq <= b
        /\ \A r, s \in OfOrigin(rows[n], OriginOf[n]) :
              r.seq = s.seq \/ r.line = s.line => r = s

\* Whatever is held, and whatever bundle is wherever it is, is genuine.  Nothing
\* is said of numbers that are missing.
Disordered ==
    /\ rows \in [Node -> SUBSET Record]
    /\ quarantine = [n \in Node |-> {}]
    /\ objects = [q \in Place |-> objects[q]] /\ todo = [n \in Node |-> todo[n]]
    /\ Issued
    /\ \A n \in Node : \A r \in rows[n] : Genuine(r)
    /\ \A q \in Place : \A b \in objects[q] : \A r \in b.rows : Genuine(r)
    /\ \A n \in Node : \A b \in todo[n] : \A r \in b.rows : Genuine(r)

\* What is genuine is held by its author.
LEMMA AuthorHolds ==
    ASSUME OriginsDistinct, NEW n \in Node, NEW r, Genuine(r), r.origin = OriginOf[n]
    PROVE  r \in rows[n]
  BY BridgeOriginAssumption DEF OriginsDistinct, IsInjective, Genuine

\* Genuine records with one number, or one line, of an origin are one.
LEMMA OneAuthor ==
    ASSUME OriginsDistinct, Issued, NEW r, NEW s, Genuine(r), Genuine(s),
           r.origin = s.origin, r.seq = s.seq \/ r.line = s.line
    PROVE  r = s
<1>1. PICK m \in Node : OriginOf[m] = r.origin /\ r \in rows[m]
  BY DEF Genuine
<1>2. s \in rows[m]
  BY <1>1, AuthorHolds
<1> QED BY <1>1, <1>2 DEF Issued, OfOrigin

\* Authors lose nothing of their own: what is genuine stays so.
LEMMA GenuineStays ==
    ASSUME \A n \in Node : OfOrigin(rows[n], OriginOf[n]) \subseteq rows'[n]
    PROVE  \A r : Genuine(r) => Genuine(r)'
  BY DEF Genuine, OfOrigin

\* A bundle is what its node held, or was somewhere before.
LEMMA BundlesCarried ==
    ASSUME Disordered, [Next \/ Disorder]_vars
    PROVE  /\ objects' = [q \in Place |-> objects'[q]] /\ todo' = [n \in Node |-> todo'[n]]
           /\ \A q \in Place : \A b \in objects'[q] :
                 \/ \E p \in Place : b \in objects[p]
                 \/ \E n \in Node : b.rows \subseteq rows[n]
           /\ \A n \in Node : \A b \in todo'[n] :
                 b \in todo[n] \/ \E p \in Place : b \in objects[p]
<1> DEFINE Put == /\ objects' = [q \in Place |-> objects'[q]]
                  /\ \A q \in Place : \A b \in objects'[q] :
                        \/ \E p \in Place : b \in objects[p]
                        \/ \E n \in Node : b.rows \subseteq rows[n]
           Listed == /\ todo' = [n \in Node |-> todo'[n]]
                     /\ \A n \in Node : \A b \in todo'[n] :
                           b \in todo[n] \/ \E p \in Place : b \in objects[p]
<1> SUFFICES Put /\ Listed
  OBVIOUS
<1>1. objects = [q \in Place |-> objects[q]] /\ todo = [n \in Node |-> todo[n]]
  BY DEF Disordered
<1>2. ASSUME objects' = objects PROVE Put
  BY <1>1, <1>2
<1>3. ASSUME todo' = todo PROVE Listed
  BY <1>1, <1>3
<1>4. ASSUME NEW n \in Node, NEW some \in SUBSET todo[n], todo' = [todo EXCEPT ![n] = some]
      PROVE  Listed
  BY <1>1, <1>4
<1>5. ASSUME NEW n \in Node, PutBundle(n) PROVE Put /\ Listed
  <2> DEFINE batch == Since(rows[n], OriginOf[n], next[n] - 1, BundleSize)
             new == [origin |-> OriginOf[n], first |-> next[n],
                     last |-> Watermark(batch, OriginOf[n]), rows |-> batch]
  <2>1. objects' = [objects EXCEPT ![Folder[n]] = @ \cup {new}] /\ todo' = todo
    BY <1>5 DEF PutBundle, PutObject, fetch
  <2>2. batch \subseteq rows[n] /\ new.rows = batch
    BY DEF Since, OfOrigin
  <2> HIDE DEF batch, new
  <2>3. Put
    BY <1>1, <2>1, <2>2
  <2> QED BY <1>3, <2>1, <2>3
<1>6. ASSUME NEW n \in Node, List(n) PROVE Put /\ Listed
  <2> DEFINE listed == {b \in objects[Folder[n]] : b.origin # OriginOf[n]}
  <2>1. objects' = objects /\ todo' = [todo EXCEPT ![n] = listed]
    BY <1>6 DEF List
  <2>2. listed \subseteq objects[Folder[n]] /\ Folder[n] \in Place
    BY FolderAssumption
  <2> HIDE DEF listed
  <2>3. Listed
    BY <1>1, <2>1, <2>2
  <2> QED BY <1>2, <2>1, <2>3
<1>7. ASSUME NEW n \in Node, NEW b, PassOver(n, b) \/ Apply(n, b) \/ SkipUnreadable(n, b)
      PROVE  Put /\ Listed
  <2>1. objects' = objects /\ todo' = [todo EXCEPT ![n] = @ \ {b}]
    BY <1>7 DEF PassOver, Apply, SkipUnreadable
  <2>2. todo' = [todo EXCEPT ![n] = todo[n] \ {b}] /\ todo[n] \ {b} \in SUBSET todo[n]
    BY <2>1
  <2> QED BY <1>2, <1>4, <2>1, <2>2
<1>8. ASSUME NEW n \in Node, Return(n) PROVE Put /\ Listed
  <2>1. objects' = objects /\ todo' = [todo EXCEPT ![n] = {}]
    BY <1>8 DEF Return
  <2> QED BY <1>2, <1>4, <2>1
<1>9. ASSUME NEW n \in Node, StartSync(n) \/ Skip(n) \/ ReadVector(n) PROVE Put /\ Listed
  <2>1. objects' = objects /\ todo' = todo
    BY <1>9 DEF StartSync, Skip, ReadVector, fetch
  <2> QED BY <1>2, <1>3, <2>1
<1>10. ASSUME NEW from \in Place, NEW to \in Place, NEW b \in objects[from], Deliver(from, to, b)
       PROVE  Put /\ Listed
  <2>1. objects' = [objects EXCEPT ![to] = @ \cup {b}] /\ todo' = todo
    BY <1>10 DEF Deliver, fetch
  <2>2. Put
    BY <1>1, <2>1
  <2> QED BY <1>3, <2>1, <2>2
<1>11. ASSUME NEW n \in Node, NEW l, AppendLocal(n, l) PROVE Put /\ Listed
  BY <1>2, <1>3, <1>11 DEF AppendLocal, fetch
<1>12. ASSUME NEW n, NEW m, NEW o, NEW k, MeshCatchUp(n, m, o, k) PROVE Put /\ Listed
  BY <1>2, <1>3, <1>12 DEF MeshCatchUp, fetch
<1>13. CASE UNCHANGED vars
  BY <1>2, <1>3, <1>13 DEF vars
<1> HIDE DEF Put, Listed
<1>14. ASSUME NEW n \in Node, Sync(n) \/ Fail(n) PROVE Put /\ Listed
  BY <1>5, <1>6, <1>7, <1>8, <1>9, <1>14 DEF Sync, Fail, EndSync
<1>15. ASSUME Disorder PROVE Put /\ Listed
  BY <1>7, <1>10, <1>15 DEF Disorder
<1> QED BY <1>11, <1>12, <1>13, <1>14, <1>15 DEF Next

\* A local append is numbered above all its node has issued.
LEMMA AppendIssues ==
    ASSUME Disordered, OriginsDistinct, NEW n \in Node, NEW l \in Transcript[n], AppendLocal(n, l)
    PROVE  /\ rows' \in [Node -> SUBSET Record] /\ quarantine' = quarantine /\ Issued'
           /\ \A m \in Node : rows[m] \subseteq rows'[m]
           /\ \A m \in Node : \A r \in rows'[m] : r \in rows[m] \/ r.origin = OriginOf[m]
<1> DEFINE o == OriginOf[n]
           w == Watermark(rows[n], o)
           new == [origin |-> o, seq |-> w + 1, line |-> l]
<1>1. PICK b \in Nat : \A r \in OfOrigin(rows[n], o) : r.seq <= b
  BY DEF Disordered, Issued
<1>2. w \in Nat /\ \A r \in OfOrigin(rows[n], o) : r.seq <= w
  <2>1. rows[n] \in SUBSET Record
    BY DEF Disordered
  <2> QED BY <1>1, <2>1, WatermarkBounded
<1>3. o \in Origin /\ l \in Line
  BY BridgeOriginAssumption, BridgeTranscriptAssumption
<1>4. WithLocal(rows[n], o, <<l>>) = rows[n] \cup {new}
  <2>1. DOMAIN <<l>> = {1} /\ <<l>>[1] = l
    OBVIOUS
  <2> QED BY <2>1 DEF WithLocal
<1>5. /\ rows' = [rows EXCEPT ![n] = rows[n] \cup {new}] /\ quarantine' = quarantine
      /\ \A r \in OfOrigin(rows[n], o) : r.line # l
  BY <1>4 DEF AppendLocal
<1>6. new \in Record /\ new.origin = o /\ new.seq = w + 1 /\ new.line = l
  BY <1>2, <1>3 DEF Record
<1> HIDE DEF new, w, o
<1>7. rows \in [Node -> SUBSET Record] /\ \A r \in Record : r.seq \in Nat
  BY DEF Disordered, Record
<1>8. /\ rows' \in [Node -> SUBSET Record]
      /\ rows'[n] = rows[n] \cup {new}
      /\ \A m \in Node : m # n => rows'[m] = rows[m]
  BY <1>5, <1>6, <1>7
<1>9. OfOrigin(rows'[n], o) = OfOrigin(rows[n], o) \cup {new}
  BY <1>6, <1>8 DEF OfOrigin
<1>10. \A r \in OfOrigin(rows'[n], o) : r.seq <= w + 1
  BY <1>2, <1>6, <1>7, <1>9 DEF OfOrigin
<1>11. ASSUME NEW r \in OfOrigin(rows'[n], o), NEW s \in OfOrigin(rows'[n], o),
              r.seq = s.seq \/ r.line = s.line
       PROVE  r = s
  <2>1. CASE r \in OfOrigin(rows[n], o) /\ s \in OfOrigin(rows[n], o)
    BY <1>11, <2>1 DEF Disordered, Issued, o
  <2>2. \A q \in OfOrigin(rows[n], o) : q.seq # w + 1 /\ q.line # l
    BY <1>2, <1>5, <1>7 DEF OfOrigin
  <2> QED BY <1>6, <1>9, <1>11, <2>1, <2>2
<1>12. Issued'
  <2> SUFFICES ASSUME NEW m \in Node
               PROVE  /\ \E c \in Nat : \A r \in OfOrigin(rows'[m], OriginOf[m]) : r.seq <= c
                      /\ \A r, s \in OfOrigin(rows'[m], OriginOf[m]) :
                            r.seq = s.seq \/ r.line = s.line => r = s
    BY DEF Issued
  <2>1. CASE m = n
    <3>1. w + 1 \in Nat
      BY <1>2
    <3> QED BY <1>10, <1>11, <2>1, <3>1 DEF o
  <2>2. CASE m # n
    BY <1>8, <2>2 DEF Disordered, Issued
  <2> QED BY <2>1, <2>2
<1> QED BY <1>5, <1>6, <1>8, <1>12 DEF o

\* A mesh has nothing to offer a node of what the node itself issued.
LEMMA MeshBringsOthers ==
    ASSUME Disordered, OriginsDistinct, NEW n \in Node, NEW m \in Node,
           NEW k \in 1..Watermark(rows[m], OriginOf[n]),
           Watermark(rows[n], OriginOf[n]) < k
    PROVE  FALSE
<1> DEFINE o == OriginOf[n]
           high == Watermark(rows[m], o)
           low == Watermark(rows[n], o)
<1>1. OfOrigin(rows[m], o) \subseteq OfOrigin(rows[n], o)
  BY AuthorHolds DEF Disordered, OfOrigin
<1>2. PICK b \in Nat : \A r \in OfOrigin(rows[n], o) : r.seq <= b
  BY DEF Disordered, Issued
<1>3. rows[n] \in SUBSET Record /\ rows[m] \in SUBSET Record
  BY DEF Disordered
<1>4. low \in Nat /\ \A r \in OfOrigin(rows[n], o) : r.seq <= low
  BY <1>2, <1>3, WatermarkBounded
<1>5. high \in Nat /\ (high = 0 \/ Has(rows[m], o, high))
  BY <1>1, <1>2, <1>3, WatermarkBounded
<1>6. Has(rows[m], o, high) => high <= low
  BY <1>1, <1>4 DEF Has, OfOrigin
<1> HIDE DEF high, low
<1>7. high <= low
  BY <1>4, <1>5, <1>6
<1>8. k \in Nat /\ k <= high /\ low < k
  BY <1>5 DEF high, low
<1> QED BY <1>4, <1>5, <1>7, <1>8

\* A table changes by what its node writes, or by genuine records, and loses none
\* its node wrote; nothing is quarantined.
LEMMA TablesDisordered ==
    ASSUME Disordered, OriginsDistinct, [Next \/ Disorder]_vars
    PROVE  /\ rows' \in [Node -> SUBSET Record] /\ quarantine' = quarantine /\ Issued'
           /\ \A n \in Node : OfOrigin(rows[n], OriginOf[n]) \subseteq rows'[n]
           /\ \A n \in Node : \A r \in rows'[n] : Genuine(r) \/ r.origin = OriginOf[n]
<1> DEFINE Sound ==
           /\ rows' \in [Node -> SUBSET Record] /\ quarantine' = quarantine /\ Issued'
           /\ \A n \in Node : OfOrigin(rows[n], OriginOf[n]) \subseteq rows'[n]
           /\ \A n \in Node : \A r \in rows'[n] : Genuine(r) \/ r.origin = OriginOf[n]
<1> SUFFICES Sound
  OBVIOUS
<1>0. /\ rows \in [Node -> SUBSET Record] /\ Issued
      /\ \A n \in Node : \A r \in rows[n] : Genuine(r)
      /\ \A n \in Node : \A b \in todo[n] : \A r \in b.rows : Genuine(r)
      /\ quarantine = [n \in Node |-> {}]
  BY DEF Disordered
<1>1. ASSUME UNCHANGED archives PROVE Sound
  <2>1. rows' = rows /\ quarantine' = quarantine
    BY <1>1 DEF archives
  <2>2. Issued'
    BY <1>0, <2>1 DEF Issued
  <2> QED BY <1>0, <2>1, <2>2 DEF OfOrigin
<1>2. ASSUME rows' \in [Node -> SUBSET Record], quarantine' = quarantine,
             \A m \in Node : OfOrigin(rows'[m], OriginOf[m]) = OfOrigin(rows[m], OriginOf[m]),
             \A m \in Node : \A r \in rows'[m] : Genuine(r)
      PROVE  Sound
  <2>1. Issued'
    BY <1>0, <1>2 DEF Issued
  <2>2. \A m \in Node : OfOrigin(rows[m], OriginOf[m]) \subseteq rows'[m]
    BY <1>2 DEF OfOrigin
  <2> QED BY <1>2, <2>1, <2>2
<1>3. ASSUME NEW n \in Node, NEW l \in Transcript[n], AppendLocal(n, l) PROVE Sound
  BY <1>0, <1>3, AppendIssues DEF OfOrigin
<1>4. ASSUME NEW n \in Node, NEW m \in Node, NEW o \in Origin,
             NEW k \in 1..Watermark(rows[m], o), MeshCatchUp(n, m, o, k)
      PROVE  Sound
  <2> DEFINE new == {r \in rows[n] : r.origin # o} \cup {r \in OfOrigin(rows[m], o) : r.seq <= k}
  <2>1. rows' = [rows EXCEPT ![n] = new] /\ quarantine' = quarantine
    BY <1>4 DEF MeshCatchUp
  <2>2. o # OriginOf[n]
    BY <1>4, MeshBringsOthers DEF MeshCatchUp
  <2>3. new \subseteq rows[n] \cup rows[m]
    BY DEF OfOrigin
  <2>4. OfOrigin(new, OriginOf[n]) = OfOrigin(rows[n], OriginOf[n])
    BY <2>2 DEF OfOrigin
  <2> HIDE DEF new, Sound
  <2>5. rows' \in [Node -> SUBSET Record]
        /\ \A i \in Node : rows'[i] = IF i = n THEN new ELSE rows[i]
    BY <1>0, <2>1, <2>3
  <2>6. \A i \in Node : OfOrigin(rows'[i], OriginOf[i]) = OfOrigin(rows[i], OriginOf[i])
    BY <2>4, <2>5
  <2>7. \A i \in Node : \A r \in rows'[i] : Genuine(r)
    BY <1>0, <2>3, <2>5
  <2> QED BY <1>2, <2>1, <2>5, <2>6, <2>7
<1>5. ASSUME NEW n \in Node, NEW b \in todo[n], Apply(n, b) PROVE Sound
  <2> DEFINE added == Insertable(rows[n], b.rows)
  <2>1. /\ rows' = [rows EXCEPT ![n] = rows[n] \cup added]
        /\ quarantine' = [quarantine EXCEPT ![n] = @ \cup ForkEvidence(rows[n], b.rows)]
    BY <1>5 DEF Apply
  <2>2. \A r \in b.rows : Genuine(r)
    BY <1>0
  <2>3. ForkEvidence(rows[n], b.rows) = {}
    <3> SUFFICES ASSUME NEW r \in b.rows, NEW h \in rows[n],
                        h.origin = r.origin, h.seq = r.seq
                 PROVE  h.line = r.line
      BY DEF ForkEvidence
    <3>1. Genuine(r) /\ Genuine(h)
      BY <1>0, <2>2
    <3> QED BY <1>0, <3>1, OneAuthor
  <2>4. quarantine' = quarantine
    BY <1>0, <2>1, <2>3
  <2>5. \A r \in added : Genuine(r)
    BY <2>2 DEF Insertable
  <2>6. added \subseteq Record
    BY <1>0, <2>5 DEF Genuine
  <2>7. \A r \in added : r.origin = OriginOf[n] => r \in rows[n]
    BY <2>5, AuthorHolds
  <2> HIDE DEF added, Sound
  <2>8. rows' \in [Node -> SUBSET Record]
        /\ \A i \in Node : rows'[i] = IF i = n THEN rows[n] \cup added ELSE rows[i]
    BY <1>0, <2>1, <2>6
  <2>9. \A i \in Node : OfOrigin(rows'[i], OriginOf[i]) = OfOrigin(rows[i], OriginOf[i])
    BY <2>7, <2>8 DEF OfOrigin
  <2>10. \A i \in Node : \A r \in rows'[i] : Genuine(r)
    BY <1>0, <2>5, <2>8
  <2> QED BY <1>2, <2>4, <2>8, <2>9, <2>10
<1> HIDE DEF Sound
<1>6. ASSUME NEW n \in Node, NEW b, PassOver(n, b) \/ SkipUnreadable(n, b) PROVE Sound
  BY <1>1, <1>6 DEF PassOver, SkipUnreadable
<1>7. ASSUME NEW n \in Node,
             \/ StartSync(n) \/ Skip(n) \/ PutBundle(n) \/ List(n) \/ ReadVector(n)
             \/ EndSync(n) \/ Fail(n)
      PROVE  Sound
  BY <1>1, <1>7 DEF StartSync, Skip, PutBundle, List, ReadVector, EndSync, Fail, Return
<1>8. ASSUME NEW n \in Node, Sync(n) \/ Fail(n) PROVE Sound
  BY <1>5, <1>6, <1>7, <1>8 DEF Sync
<1>9. ASSUME Disorder PROVE Sound
  BY <1>1, <1>6, <1>9 DEF Disorder, Deliver
<1>10. CASE UNCHANGED vars
  BY <1>1, <1>10 DEF vars, archives
<1> QED BY <1>3, <1>4, <1>8, <1>9, <1>10 DEF Next

\* No step brings a record its author does not hold.
LEMMA DisorderedStep ==
    ASSUME Disordered, OriginsDistinct, [Next \/ Disorder]_vars
    PROVE  Disordered'
<1>1. /\ rows' \in [Node -> SUBSET Record] /\ quarantine' = [n \in Node |-> {}] /\ Issued'
      /\ \A r : Genuine(r) => Genuine(r)'
      /\ \A n \in Node : \A r \in rows'[n] : Genuine(r) \/ r.origin = OriginOf[n]
  BY TablesDisordered, GenuineStays DEF Disordered
<1>2. \A n \in Node : \A r \in rows'[n] : Genuine(r)'
  BY <1>1 DEF Genuine
<1>3. /\ objects' = [q \in Place |-> objects'[q]] /\ todo' = [n \in Node |-> todo'[n]]
      /\ \A q \in Place : \A b \in objects'[q] : \A r \in b.rows : Genuine(r)
      /\ \A n \in Node : \A b \in todo'[n] : \A r \in b.rows : Genuine(r)
  BY BundlesCarried DEF Disordered
<1> QED BY <1>1, <1>2, <1>3 DEF Disordered

\* Whatever order a sync client copies the folder in, whatever bundles cannot be
\* read, and whatever holes that leaves, nothing is taken for a fork, and nobody
\* holds a record under a node's origin that the node did not write (Fetch,
\* AppendRemote): what is late is missing, never wrong.
THEOREM DisorderIsHarmless ==
    ASSUME OriginsDistinct
    PROVE  DisorderlySpec =>
              []( /\ NoFalseFork
                  /\ \A n, m \in Node : OfOrigin(rows[n], OriginOf[m]) \subseteq rows[m])
<1>1. Init => Disordered
  BY DEF Init, Disordered, Issued, OfOrigin
<1>2. Disordered /\ [Next \/ Disorder]_vars => Disordered'
  BY DisorderedStep
<1>3. Disordered => /\ NoFalseFork
                    /\ \A n, m \in Node : OfOrigin(rows[n], OriginOf[m]) \subseteq rows[m]
  BY AuthorHolds DEF Disordered, NoFalseFork, OfOrigin
<1> QED BY <1>1, <1>2, <1>3, PTL DEF DisorderlySpec
=============================================================================
