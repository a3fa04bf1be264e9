------------------------- MODULE AntiEntropyProofs -------------------------
(* The safety of anti-entropy, for any number of nodes, connections, lines *)
(* and faults.  Whatever origin ids the nodes have: types, unique keys,    *)
(* and forks that surface.  For nodes that share none: the invariant       *)
(* Inductive of module AntiEntropy is inductive and implies the others.    *)
EXTENDS AntiEntropy, ArchiveProofs, SequenceTheorems

----------------------------------------------------------------------------
(* Frames *)

\* Reading ahead finds only what the table or a frame holds.
LEMMA ReachedMember ==
    ASSUME NEW table, NEW frames, NEW i, NEW r
    PROVE  r \in Reached(table, frames, i) <=>
              \/ r \in table
              \/ \E j \in 1..i : frames[j].kind = "records" /\ r \in frames[j].rows
  BY DEF Reached

\* A frame at the end of the queue adds its records to what is reached last.
LEMMA ReachedAppend ==
    ASSUME NEW table, NEW frames \in Seq(Frame), NEW f \in Frame
    PROVE  LET longer == Append(frames, f)
               k      == Len(frames) IN
           /\ \A i \in 0..k : Reached(table, longer, i) = Reached(table, frames, i)
           /\ Reached(table, longer, k + 1) =
                 Reached(table, frames, k) \cup (IF f.kind = "records" THEN f.rows ELSE {})
<1> DEFINE longer == Append(frames, f)
           k == Len(frames)
<1>1. /\ longer \in Seq(Frame) /\ k \in Nat
      /\ \A j \in 1..k : longer[j] = frames[j]
      /\ longer[k + 1] = f
  BY AppendProperties
<1> HIDE DEF longer, k
<1>2. ASSUME NEW i \in 0..k
      PROVE  Reached(table, longer, i) = Reached(table, frames, i)
  <2>1. \A j \in 1..i : longer[j] = frames[j]
    BY <1>1
  <2> QED BY <2>1 DEF Reached
<1>3. ASSUME NEW r
      PROVE  r \in Reached(table, longer, k + 1) <=>
                \/ r \in Reached(table, frames, k)
                \/ f.kind = "records" /\ r \in f.rows
  <2>1. \A j \in 1..(k + 1) : j \in 1..k \/ j = k + 1
    BY <1>1
  <2>2. 1..k \subseteq 1..(k + 1) /\ k + 1 \in 1..(k + 1)
    BY <1>1
  <2> QED BY <1>1, <2>1, <2>2, ReachedMember
<1>4. Reached(table, longer, k + 1) =
         Reached(table, frames, k) \cup (IF f.kind = "records" THEN f.rows ELSE {})
  BY <1>3
<1> QED BY <1>2, <1>4 DEF longer, k

\* Reading the first frame changes nothing of what is reached after the next.
LEMMA ReachedTail ==
    ASSUME NEW table, NEW frames \in Seq(Frame), frames # <<>>
    PROVE  LET f     == Head(frames)
               after == table \cup (IF f.kind = "records" THEN f.rows ELSE {}) IN
           /\ Len(Tail(frames)) = Len(frames) - 1
           /\ \A i \in 1..Len(Tail(frames)) : Tail(frames)[i] = frames[i + 1]
           /\ \A i \in 0..Len(Tail(frames)) :
                 Reached(after, Tail(frames), i) = Reached(table, frames, i + 1)
<1> DEFINE rest == Tail(frames)
           f == Head(frames)
           after == table \cup (IF f.kind = "records" THEN f.rows ELSE {})
<1>1. /\ rest \in Seq(Frame) /\ Len(rest) \in Nat /\ Len(rest) = Len(frames) - 1
      /\ \A i \in 1..Len(rest) : rest[i] = frames[i + 1]
      /\ f = frames[1]
  BY HeadTailProperties
<1> HIDE DEF rest, f
<1>2. ASSUME NEW i \in 0..Len(rest), NEW r
      PROVE  r \in Reached(after, rest, i) <=> r \in Reached(table, frames, i + 1)
  <2>1. r \in after <=> r \in table \/ (frames[1].kind = "records" /\ r \in frames[1].rows)
    BY <1>1
  <2> HIDE DEF after
  <2>2. ASSUME NEW j \in 1..i
        PROVE  j + 1 \in 1..(i + 1) /\ rest[j] = frames[j + 1]
    BY <1>1
  <2>3. ASSUME NEW j \in 1..(i + 1), j # 1
        PROVE  \E m \in 1..i : rest[m] = frames[j]
    <3>1. j - 1 \in 1..i /\ j - 1 \in 1..Len(rest) /\ (j - 1) + 1 = j
      BY <1>1, <2>3
    <3> QED BY <1>1, <3>1
  <2>4. 1 \in 1..(i + 1)
    BY <1>1
  <2>5. (\E j \in 1..(i + 1) : frames[j].kind = "records" /\ r \in frames[j].rows)
          <=> \/ frames[1].kind = "records" /\ r \in frames[1].rows
              \/ \E j \in 1..i : rest[j].kind = "records" /\ r \in rest[j].rows
    BY <2>2, <2>3, <2>4
  <2> QED BY <2>1, <2>5, ReachedMember
<1>3. \A i \in 0..Len(rest) : Reached(after, rest, i) = Reached(table, frames, i + 1)
  BY <1>2
<1> HIDE DEF after
<1> QED BY <1>1, <1>3 DEF rest, f, after

\* A table that grows reaches more, and reaches it without a hole if it has none.
LEMMA ReachedGrows ==
    ASSUME NEW table, NEW grown, table \subseteq grown, NEW frames, NEW i
    PROVE  /\ Reached(table, frames, i) \subseteq Reached(grown, frames, i)
           /\ Dense(grown) /\ Dense(Reached(table, frames, i))
                 => Dense(Reached(grown, frames, i))
<1>1. Reached(grown, frames, i) = grown \cup Reached(table, frames, i)
  BY DEF Reached
<1> QED BY <1>1, UnionDense

----------------------------------------------------------------------------
(* Any origin ids: unique keys *)

\* Every table and every frame on its way is one a table with the primary key
\* and the semantic indexes can hold, and has a highest sequence number.
Keyable(table) == Keyed(table) /\ \E b \in Nat : \A r \in table : r.seq <= b

KeysInductive ==
    /\ rows \in [Node -> SUBSET Record]
    /\ wire \in [Conn -> [Node -> Seq(Frame)]]
    /\ \A n \in Node : Keyable(rows[n])
    /\ \A c \in Conn, n \in Node : \A i \in 1..Len(wire[c][n]) : Keyable(wire[c][n][i].rows)

\* Any part of a table is as good as the table.
LEMMA KeyablePart ==
    ASSUME NEW table, NEW part \in SUBSET table, Keyable(table)
    PROVE  Keyable(part)
  BY DEF Keyable, Keyed

\* What the indexes let in leaves the table unique.
LEMMA KeyableInsert ==
    ASSUME NEW table \in SUBSET Record, NEW batch \in SUBSET Record,
           Keyable(table), Keyable(batch)
    PROVE  Keyable(table \cup Insertable(table, batch))
<1>1. Keyed(table \cup Insertable(table, batch))
  BY DEF Keyable, Keyed, Insertable
<1>2. PICK b1 \in Nat : \A r \in table : r.seq <= b1
  BY DEF Keyable
<1>3. PICK b2 \in Nat : \A r \in batch : r.seq <= b2
  BY DEF Keyable
<1>4. \A r \in table \cup batch : r.seq \in Nat
  BY DEF Record
<1>5. b1 + b2 \in Nat /\ \A r \in table \cup Insertable(table, batch) : r.seq <= b1 + b2
  BY <1>2, <1>3, <1>4 DEF Insertable
<1> QED BY <1>1, <1>5 DEF Keyable

\* A local append issues numbers above all it holds, and lines it does not hold.
LEMMA KeyableLocal ==
    ASSUME NEW n \in Node, rows[n] \in SUBSET Record, Keyable(rows[n]),
           NEW lines \in LocalBatch(n), AppendLocal(n, lines)
    PROVE  LET new == WithLocal(rows[n], OriginOf[n], lines) IN
           new \in SUBSET Record /\ Keyable(new)
<1> DEFINE o == OriginOf[n]
           w == Watermark(rows[n], o)
           new == WithLocal(rows[n], o, lines)
<1>1. PICK k \in 1..LocalLimit : lines \in [1..k -> Transcript[n]] /\ IsInjective(lines)
  BY DEF LocalBatch
<1>2. /\ k \in Nat /\ lines \in [1..k -> Line] /\ o \in Origin
      /\ \A i, j \in 1..k : lines[i] = lines[j] => i = j
  BY <1>1, BoundAssumption, TranscriptAssumption, OriginAssumption DEF IsInjective
<1>3. PICK b \in Nat : \A r \in rows[n] : r.seq <= b
  BY DEF Keyable
<1>4. /\ w \in Nat
      /\ \A r \in rows[n] : r.seq \in Nat /\ (r.origin = o => r.seq <= w)
  BY <1>3, WatermarkBounded DEF OfOrigin, Record
<1>5. \A r \in new : r \in rows[n] \/
         \E i \in 1..k : r = [origin |-> o, seq |-> w + i, line |-> lines[i]]
  BY <1>2 DEF WithLocal
<1>6. \A i \in 1..k : \A r \in rows[n] :
         r.origin = o => r.seq # w + i /\ r.line # lines[i]
  BY <1>2, <1>4 DEF AppendLocal, HoldsLine
<1> HIDE DEF new, w
<1>7. Keyed(new)
  <2> SUFFICES ASSUME NEW r \in new, NEW s \in new, r.origin = s.origin,
                      r.seq = s.seq \/ r.line = s.line
               PROVE  r = s
    BY DEF Keyed
  <2>1. CASE r \in rows[n] /\ s \in rows[n]
    BY <2>1 DEF Keyable, Keyed
  <2>2. CASE r \in rows[n] /\ s \notin rows[n]
    BY <1>5, <1>6, <2>2
  <2>3. CASE r \notin rows[n] /\ s \in rows[n]
    BY <1>5, <1>6, <2>3
  <2>4. CASE r \notin rows[n] /\ s \notin rows[n]
    <3>1. PICK i \in 1..k : r = [origin |-> o, seq |-> w + i, line |-> lines[i]]
      BY <1>5, <2>4
    <3>2. PICK j \in 1..k : s = [origin |-> o, seq |-> w + j, line |-> lines[j]]
      BY <1>5, <2>4
    <3>3. i = j
      BY <1>2, <1>4, <3>1, <3>2
    <3> QED BY <3>1, <3>2, <3>3
  <2> QED BY <2>1, <2>2, <2>3, <2>4
<1>8. b + w + k \in Nat /\ \A r \in new : r.seq <= b + w + k
  BY <1>2, <1>3, <1>4, <1>5
<1>9. new \in SUBSET Record
  BY <1>2, <1>4, <1>5 DEF Record
<1> QED BY <1>7, <1>8, <1>9 DEF Keyable, new

\* A frame written keeps the wires sound.
LEMMA KeysAfterPost ==
    ASSUME KeysInductive, rows' = rows, NEW c \in Conn, NEW p \in Node,
           NEW f \in Frame, Keyable(f.rows), Post(c, p, f)
    PROVE  KeysInductive'
<1> DEFINE frames == wire[c][p]
           longer == Append(frames, f)
<1>1. frames \in Seq(Frame) /\ Len(frames) \in Nat
  BY DEF KeysInductive
<1>2. /\ longer \in Seq(Frame) /\ Len(longer) = Len(frames) + 1
      /\ longer[Len(frames) + 1] = f
      /\ \A i \in 1..Len(frames) : longer[i] = frames[i]
  BY <1>1, AppendProperties
<1>3. \A i \in 1..Len(longer) : Keyable(longer[i].rows)
  <2> TAKE i \in 1..Len(longer)
  <2>1. i \in 1..Len(frames) \/ i = Len(frames) + 1
    BY <1>1, <1>2
  <2> QED BY <1>2, <2>1 DEF KeysInductive
<1> HIDE DEF longer
<1>4. wire' \in [Conn -> [Node -> Seq(Frame)]]
  BY <1>2 DEF KeysInductive, Post, longer
<1>5. \A d \in Conn, m \in Node :
         wire'[d][m] = wire[d][m] \/ wire'[d][m] = longer
  BY DEF KeysInductive, Post, longer
<1>6. \A d \in Conn, m \in Node : \A i \in 1..Len(wire'[d][m]) :
         Keyable(wire'[d][m][i].rows)
  BY <1>3, <1>5 DEF KeysInductive
<1> QED BY <1>4, <1>6 DEF KeysInductive

\* A frame read leaves what is behind it.
LEMMA KeysAfterRead ==
    ASSUME KeysInductive, rows' \in [Node -> SUBSET Record],
           \A m \in Node : Keyable(rows'[m]),
           NEW c \in Conn, NEW n \in Node, wire[c][n] # <<>>,
           wire' = [wire EXCEPT ![c][n] = Tail(@)]
    PROVE  KeysInductive'
<1> DEFINE frames == wire[c][n]
           rest == Tail(frames)
<1>1. /\ frames \in Seq(Frame) /\ rest \in Seq(Frame) /\ Len(rest) \in Nat
      /\ Len(rest) = Len(frames) - 1
      /\ \A i \in 1..Len(rest) : rest[i] = frames[i + 1]
  <2>1. frames \in Seq(Frame)
    BY DEF KeysInductive
  <2> QED BY <2>1, HeadTailProperties
<1>2. \A i \in 1..Len(rest) : Keyable(rest[i].rows)
  <2> TAKE i \in 1..Len(rest)
  <2>1. i + 1 \in 1..Len(frames)
    BY <1>1
  <2> QED BY <1>1, <2>1 DEF KeysInductive
<1> HIDE DEF rest
<1>3. wire' \in [Conn -> [Node -> Seq(Frame)]]
  BY <1>1 DEF KeysInductive, rest
<1>4. \A d \in Conn, m \in Node :
         wire'[d][m] = wire[d][m] \/ wire'[d][m] = rest
  BY DEF KeysInductive, rest
<1>5. \A d \in Conn, m \in Node : \A i \in 1..Len(wire'[d][m]) :
         Keyable(wire'[d][m][i].rows)
  BY <1>2, <1>4 DEF KeysInductive
<1> QED BY <1>3, <1>5 DEF KeysInductive

\* No step adds a record the indexes object to.
LEMMA NextKeys ==
    ASSUME KeysInductive, [Next]_vars
    PROVE  KeysInductive'
<1>1. \A n \in Node : rows[n] \in SUBSET Record /\ Keyable(rows[n])
  BY DEF KeysInductive
<1>2. ASSUME NEW n \in Node, NEW lines \in LocalBatch(n), AppendLocal(n, lines)
      PROVE  KeysInductive'
  <2> DEFINE new == WithLocal(rows[n], OriginOf[n], lines)
  <2>1. new \in SUBSET Record /\ Keyable(new)
    BY <1>1, <1>2, KeyableLocal
  <2>2. rows' = [rows EXCEPT ![n] = new] /\ wire' = wire
    BY <1>2 DEF AppendLocal
  <2> HIDE DEF new
  <2> QED BY <2>1, <2>2 DEF KeysInductive
<1>3. ASSUME NEW c \in Conn, NEW pair \in Pair, Connect(c, pair)
      PROVE  KeysInductive'
  <2>1. wire' \in [Conn -> [Node -> Seq(Frame)]]
    BY <1>3, EmptySeq DEF KeysInductive, Connect
  <2>2. \A d \in Conn, m \in Node : wire'[d][m] = wire[d][m] \/ wire'[d][m] = <<>>
    BY <1>3 DEF KeysInductive, Connect
  <2>3. \A i \in 1..Len(<<>>) : FALSE
    BY EmptySeq
  <2> QED BY <1>3, <2>1, <2>2, <2>3 DEF KeysInductive, Connect, archives
<1>4. ASSUME NEW c \in Conn, NEW n \in Node, NEW p \in Node, Announce(c, n, p)
      PROVE  KeysInductive'
  <2> DEFINE f == [kind |-> "vector", rows |-> rows[n]]
  <2>1. f \in Frame /\ f.rows = rows[n] /\ Post(c, p, f) /\ rows' = rows
    BY <1>1, <1>4 DEF Announce, Frame, archives
  <2> HIDE DEF f
  <2> QED BY <1>1, <2>1, KeysAfterPost
<1>5. ASSUME NEW c \in Conn, NEW n \in Node, NEW p \in Node, NEW o \in Origin,
             SendBatch(c, n, p, o)
      PROVE  KeysInductive'
  <2> DEFINE batch == Since(rows[n], o, plan[c][n][o], BatchSize)
             f == [kind |-> "records", rows |-> batch]
  <2>1. batch \in SUBSET rows[n]
    BY DEF Since, OfOrigin
  <2>2. Post(c, p, f) /\ rows' = rows
    BY <1>5 DEF SendBatch, archives
  <2>3. Keyable(batch) /\ batch \in SUBSET Record
    BY <1>1, <2>1, KeyablePart
  <2> HIDE DEF batch
  <2>4. f \in Frame /\ f.rows = batch
    BY <2>3 DEF Frame
  <2> HIDE DEF f
  <2> QED BY <2>2, <2>3, <2>4, KeysAfterPost
<1>6. ASSUME NEW c \in Conn, NEW n \in Node, NEW p \in Node, SendDone(c, n, p)
      PROVE  KeysInductive'
  <2> DEFINE f == [kind |-> "done", rows |-> {}]
  <2>1. f \in Frame /\ f.rows = {} /\ Post(c, p, f) /\ rows' = rows
    BY <1>6 DEF SendDone, Frame, archives
  <2>2. Keyable({})
    BY DEF Keyable, Keyed
  <2> HIDE DEF f
  <2> QED BY <2>1, <2>2, KeysAfterPost
<1>7. ASSUME NEW c \in Conn, NEW n \in Node, ReceiveRecords(c, n)
      PROVE  KeysInductive'
  <2> DEFINE f == Head(wire[c][n])
             grown == rows[n] \cup Insertable(rows[n], f.rows)
  <2>1. wire[c][n] \in Seq(Frame) /\ wire[c][n] # <<>>
    BY <1>7 DEF KeysInductive, ReceiveRecords, Incoming
  <2>2. f \in Frame /\ f = wire[c][n][1] /\ 1 \in 1..Len(wire[c][n])
    BY <2>1, HeadTailProperties, EmptySeq
  <2>3. f.rows \in SUBSET Record /\ Keyable(f.rows)
    BY <2>2 DEF KeysInductive, Frame
  <2>4. /\ wire' = [wire EXCEPT ![c][n] = Tail(@)]
        /\ rows' = [rows EXCEPT ![n] = grown]
    BY <1>7 DEF ReceiveRecords, Incoming
  <2> HIDE DEF f
  <2>5. grown \in SUBSET Record /\ Keyable(grown)
    BY <1>1, <2>3, KeyableInsert DEF Insertable
  <2> HIDE DEF grown
  <2>6. rows' \in [Node -> SUBSET Record] /\ \A m \in Node : Keyable(rows'[m])
    BY <1>1, <2>4, <2>5 DEF KeysInductive
  <2> QED BY <2>1, <2>4, <2>6, KeysAfterRead
<1>8. ASSUME NEW c \in Conn, NEW n \in Node, ReceiveVector(c, n) \/ ReceiveDone(c, n)
      PROVE  KeysInductive'
  <2>1. rows' = rows /\ wire[c][n] # <<>> /\ wire' = [wire EXCEPT ![c][n] = Tail(@)]
    BY <1>8 DEF ReceiveVector, ReceiveDone, Incoming, archives
  <2>2. rows' \in [Node -> SUBSET Record] /\ \A m \in Node : Keyable(rows'[m])
    BY <1>1, <2>1 DEF KeysInductive
  <2> QED BY <2>1, <2>2, KeysAfterRead
<1>9. ASSUME NEW c \in Conn, NEW n \in Node, Abort(c, n) \/ Leave(c, n)
      PROVE  KeysInductive'
  <2>1. rows' = rows /\ wire' = [wire EXCEPT ![c][n] = <<>>]
    BY <1>9 DEF Abort, Leave, Hangup, archives
  <2>2. wire' \in [Conn -> [Node -> Seq(Frame)]]
    BY <2>1, EmptySeq DEF KeysInductive
  <2>3. \A d \in Conn, m \in Node : wire'[d][m] = wire[d][m] \/ wire'[d][m] = <<>>
    BY <2>1 DEF KeysInductive
  <2>4. \A i \in 1..Len(<<>>) : FALSE
    BY EmptySeq
  <2> QED BY <2>1, <2>2, <2>3, <2>4 DEF KeysInductive
<1>10. ASSUME rows' = rows, wire' = wire PROVE KeysInductive'
  BY <1>10 DEF KeysInductive
<1>11. ASSUME NEW c \in Conn, NEW n \in Node, NEW p \in Node, NEW o \in Origin,
              \/ StartSend(c, n) \/ EndOrigin(c, n, o)
              \/ WriteDeadline(c, n, p) \/ WriteError(c, n, p)
       PROVE  rows' = rows /\ wire' = wire
  BY <1>11 DEF StartSend, EndOrigin, WriteDeadline, WriteError, archives
<1>12. ASSUME NEW c \in Conn, NEW n \in Node, NEW p \in Node,
              ReceiveEOF(c, n, p) \/ ReadDeadline(c, n, p) \/ ReadError(c, n)
       PROVE  rows' = rows /\ wire' = wire
  BY <1>12 DEF ReceiveEOF, ReadDeadline, ReadError, archives
<1>13. ASSUME NEW c \in Conn, NEW n \in Node, Sender(c, n)
       PROVE  KeysInductive'
  <2>1. OriginOf[n] \in Origin
    BY OriginAssumption
  <2> QED BY <1>4, <1>5, <1>6, <1>10, <1>11, <1>13, <2>1 DEF Sender
<1>14. ASSUME NEW c \in Conn, NEW n \in Node, Receiver(c, n)
       PROVE  KeysInductive'
  BY <1>7, <1>8, <1>10, <1>12, <1>14 DEF Receiver
<1>15. ASSUME NEW c \in Conn, NEW n \in Node, Failure(c, n) \/ Leave(c, n)
       PROVE  KeysInductive'
  <2>1. OriginOf[n] \in Origin
    BY OriginAssumption
  <2> QED BY <1>9, <1>10, <1>11, <1>12, <1>15, <2>1 DEF Failure
<1>16. CASE UNCHANGED vars
  BY <1>10, <1>16 DEF vars
<1> QED BY <1>2, <1>3, <1>13, <1>14, <1>15, <1>16 DEF Next

\* Whatever origin ids are shared, no table ever holds two lines under one
\* number of an origin, or a line twice.
THEOREM KeysUnique == Spec => []UniqueKeys
<1>1. Init => KeysInductive
  <2> SUFFICES ASSUME Init PROVE KeysInductive
    OBVIOUS
  <2>1. \A i \in 1..Len(<<>>) : FALSE
    BY EmptySeq
  <2>2. wire \in [Conn -> [Node -> Seq(Frame)]]
    BY EmptySeq DEF Init
  <2>3. Keyable({})
    BY DEF Keyable, Keyed
  <2> QED BY <2>1, <2>2, <2>3 DEF Init, KeysInductive
<1>2. KeysInductive /\ [Next]_vars => KeysInductive'
  BY NextKeys
<1>3. KeysInductive => UniqueKeys
  BY DEF KeysInductive, Keyable, UniqueKeys
<1> QED BY <1>1, <1>2, <1>3, PTL DEF Spec

----------------------------------------------------------------------------
(* Any origin ids: types *)

\* An announcement is a snapshot of a table, so it has a highest number too.
Announcements ==
    \A c \in Conn, n \in Node : Keyable(mine[c][n]) /\ Keyable(theirs[c][n])

Typed == TypeOK /\ KeysInductive /\ Announcements

\* The types of all that KeysInductive does not speak of.
Kinds ==
    /\ quarantine \in [Node -> SUBSET Record]
    /\ ends \in [Conn -> SUBSET Node] /\ open \in [Conn -> SUBSET Node]
    /\ tx \in [Conn -> [Node -> TxState]] /\ rx \in [Conn -> [Node -> RxState]]
    /\ mine \in [Conn -> [Node -> SUBSET Record]]
    /\ theirs \in [Conn -> [Node -> SUBSET Record]]
    /\ plan \in [Conn -> [Node -> [Origin -> Int]]]
    /\ faults \in Nat /\ Announcements

\* The watermark of a table that can exist is the number of one of its records.
LEMMA KeyableWatermark ==
    ASSUME NEW table \in SUBSET Record, Keyable(table), NEW o
    PROVE  /\ Watermark(table, o) \in Nat
           /\ \A r \in OfOrigin(table, o) : r.seq <= Watermark(table, o)
           /\ Watermark(table, o) = 0 \/ Has(table, o, Watermark(table, o))
<1>1. PICK b \in Nat : \A r \in table : r.seq <= b
  BY DEF Keyable
<1>2. \A r \in OfOrigin(table, o) : r.seq <= b
  BY <1>1 DEF OfOrigin
<1> QED BY <1>2, WatermarkBounded

\* The lowest mismatched bucket begins below some record of it.
LEMMA FirstMismatchType ==
    ASSUME NEW my \in SUBSET Record, NEW known, NEW o
    PROVE  /\ Mismatched(my, known, o) \in SUBSET Nat
           /\ FirstMismatch(my, known, o) = -1 \/ FirstMismatch(my, known, o) \in Nat
           /\ \A b \in Mismatched(my, known, o) :
                 0 <= FirstMismatch(my, known, o) /\ FirstMismatch(my, known, o) <= b * BucketSize
<1> DEFINE M == Mismatched(my, known, o)
<1>1. \A r \in OfOrigin(my, o) : Bucket(r) \in Nat
  <2> TAKE r \in OfOrigin(my, o)
  <2>1. r.seq \in Nat \ {0}
    BY DEF OfOrigin, Record
  <2> QED BY <2>1, BucketSizeAssumption DEF Bucket
<1>2. M \in SUBSET Nat
  BY <1>1 DEF Mismatched
<1>3. CASE M = {}
  BY <1>2, <1>3 DEF FirstMismatch
<1>4. CASE M # {}
  <2>1. FirstMismatch(my, known, o) = Min(M) * BucketSize
    BY <1>4 DEF FirstMismatch
  <2> HIDE DEF M
  <2>2. Min(M) \in M /\ \A b \in M : Min(M) <= b
    BY <1>2, <1>4, MinProperty
  <2> DEFINE low == Min(M)
  <2>3. low \in Nat /\ \A b \in M : b \in Nat /\ low <= b
    BY <1>2, <2>2
  <2> HIDE DEF low
  <2>4. ASSUME NEW b \in Nat, low <= b
        PROVE  low * BucketSize <= b * BucketSize
    BY <2>3, <2>4, BucketSizeAssumption
  <2>5. low * BucketSize \in Nat
    BY <2>3, BucketSizeAssumption
  <2>6. FirstMismatch(my, known, o) = low * BucketSize
    BY <2>1 DEF low
  <2>7. \A b \in M : low * BucketSize <= b * BucketSize
    BY <2>3, <2>4
  <2> QED BY <1>2, <2>5, <2>6, <2>7 DEF M
<1> QED BY <1>3, <1>4

\* Where to start sending is always a number.
LEMMA ResendFromType ==
    ASSUME NEW my \in SUBSET Record, NEW known \in SUBSET Record,
           Keyable(known), NEW o
    PROVE  ResendFrom(my, known, o) \in Int
<1>1. Watermark(known, o) \in Nat
  BY KeyableWatermark
<1>2. FirstMismatch(my, known, o) \in Int
  BY FirstMismatchType
<1> QED BY <1>1, <1>2 DEF ResendFrom

\* Where the contents of a bucket differ though the counts agree, the sender
\* starts below the bucket.
LEMMA ResendFromMismatch ==
    ASSUME NEW my \in SUBSET Record, NEW known \in SUBSET Record,
           Keyable(my), Keyable(known), NEW r \in my,
           InBucket(my, r.origin, Bucket(r)) # InBucket(known, r.origin, Bucket(r)),
           Cardinality(InBucket(my, r.origin, Bucket(r)))
               = Cardinality(InBucket(known, r.origin, Bucket(r)))
    PROVE  0 <= ResendFrom(my, known, r.origin) /\ r.seq > ResendFrom(my, known, r.origin)
<1> DEFINE o == r.origin
           from == FirstMismatch(my, known, o)
           b == Bucket(r)
<1>1. r.seq \in Nat \ {0} /\ r \in OfOrigin(my, o)
  BY DEF OfOrigin, Record
<1>2. b \in Nat /\ b * BucketSize < r.seq
  BY <1>1, BucketSizeAssumption DEF Bucket
<1>3. b \in Mismatched(my, known, o)
  BY <1>1 DEF Mismatched
<1>4. 0 <= from /\ from <= b * BucketSize /\ from \in Int
  BY <1>3, FirstMismatchType
<1>5. b * BucketSize \in Nat
  BY <1>2, BucketSizeAssumption
<1>6. Watermark(known, o) \in Nat /\ Watermark(my, o) \in Nat
  BY KeyableWatermark
<1> HIDE DEF from, b
<1>7. from < r.seq
  BY <1>1, <1>2, <1>4, <1>5
<1> QED BY <1>1, <1>4, <1>6, <1>7 DEF ResendFrom, from

\* To a peer that announced nothing everything is sent.
LEMMA ResendFromNothing ==
    ASSUME NEW my \in SUBSET Record, IsFiniteSet(my), Keyable(my), NEW r \in my
    PROVE  ResendFrom(my, {}, r.origin) = 0
<1> DEFINE o == r.origin
<1>1. r.seq \in Nat \ {0} /\ r \in OfOrigin(my, o)
  BY DEF OfOrigin, Record
<1>2. Watermark(my, o) \in Nat /\ r.seq <= Watermark(my, o)
  BY <1>1, KeyableWatermark
<1>3. Watermark({}, o) = 0
  <2>1. {} \in SUBSET Record /\ Keyable({})
    BY DEF Keyable, Keyed
  <2>2. ~ Has({}, o, Watermark({}, o))
    BY DEF Has
  <2> QED BY <2>1, <2>2, KeyableWatermark
<1>4. Mismatched(my, {}, o) = {}
  <2> SUFFICES ASSUME NEW q \in OfOrigin(my, o)
               PROVE  Cardinality(InBucket(my, o, Bucket(q)))
                         # Cardinality(InBucket({}, o, Bucket(q)))
    BY DEF Mismatched
  <2>1. InBucket({}, o, Bucket(q)) = {}
    BY DEF InBucket, OfOrigin
  <2>2. q \in InBucket(my, o, Bucket(q)) /\ IsFiniteSet(InBucket(my, o, Bucket(q)))
    BY FS_Subset DEF InBucket, OfOrigin
  <2> QED BY <2>1, <2>2, FS_EmptySet
<1>5. FirstMismatch(my, {}, o) = -1
  BY <1>4 DEF FirstMismatch
<1> QED BY <1>1, <1>2, <1>3, <1>5 DEF ResendFrom

\* Empty tables and no connection.
LEMMA TypedInit == Init => Typed
<1> SUFFICES ASSUME Init PROVE Typed
  OBVIOUS
<1>1. TypeOK
  BY EmptySeq DEF Init, TypeOK, TxState, RxState, Idle
<1>2. Keyable({})
  BY DEF Keyable, Keyed
<1>3. \A i \in 1..Len(<<>>) : FALSE
  BY EmptySeq
<1>4. KeysInductive
  BY <1>1, <1>2, <1>3 DEF Init, KeysInductive, TypeOK
<1> QED BY <1>1, <1>2, <1>4 DEF Init, Typed, Announcements

\* Types are kept whatever origin ids the nodes have.
LEMMA TypedNext ==
    ASSUME Typed, [Next]_vars
    PROVE  Typed'
<1>0. TypeOK /\ KeysInductive /\ Announcements
  BY DEF Typed
<1> USE <1>0
<1>1. KeysInductive'
  BY NextKeys
<1>2. rows' \in [Node -> SUBSET Record] /\ wire' \in [Conn -> [Node -> Seq(Frame)]]
  BY <1>1 DEF KeysInductive
<1>3. Keyable({})
  BY DEF Keyable, Keyed
<1>4. ASSUME NEW n \in Node, NEW lines \in LocalBatch(n), AppendLocal(n, lines)
      PROVE  Kinds'
  BY <1>4 DEF AppendLocal, TypeOK, Kinds, Announcements
<1>5. ASSUME NEW c \in Conn, NEW pair \in Pair, Connect(c, pair)
      PROVE  Kinds'
  <2>1. pair \in SUBSET Node
    BY ReachableAssumption DEF Pair
  <2>2. /\ Idle \in [Origin -> Int] /\ "connected" \in TxState /\ "waiting" \in RxState
    BY DEF Idle, TxState, RxState
  <2>3. Announcements'
    BY <1>3, <1>5 DEF Announcements, Connect, TypeOK
  <2>4. quarantine' = quarantine /\ faults' = faults
    BY <1>5 DEF Connect, archives
  <2>5. /\ ends' \in [Conn -> SUBSET Node] /\ open' \in [Conn -> SUBSET Node]
        /\ tx' \in [Conn -> [Node -> TxState]]
        /\ rx' \in [Conn -> [Node -> RxState]]
    BY <1>5, <2>1, <2>2 DEF Connect, TypeOK
  <2>6. /\ mine' \in [Conn -> [Node -> SUBSET Record]]
        /\ theirs' \in [Conn -> [Node -> SUBSET Record]]
        /\ plan' \in [Conn -> [Node -> [Origin -> Int]]]
    BY <1>5, <2>1, <2>2 DEF Connect, TypeOK
  <2> QED BY <2>3, <2>4, <2>5, <2>6 DEF TypeOK, Kinds, Announcements
<1>6. ASSUME NEW c \in Conn, NEW n \in Node, NEW p \in Node, Announce(c, n, p)
      PROVE  Kinds'
  <2>1. Keyable(rows[n]) /\ rows[n] \in SUBSET Record /\ "announced" \in TxState
    BY DEF KeysInductive, TxState
  <2>2. /\ mine' = [mine EXCEPT ![c][n] = rows[n]]
        /\ tx' = [tx EXCEPT ![c][n] = "announced"]
        /\ UNCHANGED <<quarantine, ends, open, rx, theirs, plan, faults>>
    BY <1>6 DEF Announce, archives
  <2>3. Announcements'
    BY <2>1, <2>2 DEF Announcements, TypeOK
  <2> QED BY <2>1, <2>2, <2>3 DEF TypeOK, Kinds, Announcements
<1>7. ASSUME NEW c \in Conn, NEW n \in Node, StartSend(c, n)
      PROVE  Kinds'
  <2>1. [o \in Origin |-> ResendFrom(mine[c][n], theirs[c][n], o)] \in [Origin -> Int]
    <3>1. /\ mine[c][n] \in SUBSET Record /\ theirs[c][n] \in SUBSET Record
          /\ Keyable(theirs[c][n])
      BY DEF TypeOK, Announcements
    <3>2. \A o \in Origin : ResendFrom(mine[c][n], theirs[c][n], o) \in Int
      BY <3>1, ResendFromType
    <3> QED BY <3>2
  <2>2. "sending" \in TxState
    BY DEF TxState
  <2> QED BY <1>7, <2>1, <2>2 DEF StartSend, archives, TypeOK, Kinds, Announcements
<1>8. ASSUME NEW c \in Conn, NEW n \in Node, NEW o \in Origin, EndOrigin(c, n, o)
      PROVE  Kinds'
  BY <1>8 DEF EndOrigin, archives, TypeOK, Kinds, Announcements
<1>9. ASSUME NEW c \in Conn, NEW n \in Node, NEW p \in Node, NEW o \in Origin,
             SendBatch(c, n, p, o)
      PROVE  Kinds'
  <2> DEFINE batch == Since(rows[n], o, plan[c][n][o], BatchSize)
  <2>1. batch \in SUBSET rows[n] /\ rows[n] \in SUBSET Record /\ Keyable(rows[n])
    BY DEF Since, OfOrigin, KeysInductive
  <2>2. plan' = [plan EXCEPT ![c][n][o] = Watermark(batch, o)]
    BY <1>9 DEF SendBatch
  <2> HIDE DEF batch
  <2>3. Watermark(batch, o) \in Int
    <3>1. Keyable(batch) /\ batch \in SUBSET Record
      BY <2>1, KeyablePart
    <3> QED BY <3>1, KeyableWatermark
  <2> QED BY <1>9, <2>2, <2>3 DEF SendBatch, archives, TypeOK, Kinds, Announcements
<1>10. ASSUME NEW c \in Conn, NEW n \in Node, NEW p \in Node,
              SendDone(c, n, p) \/ WriteError(c, n, p) \/ WriteDeadline(c, n, p)
       PROVE  Kinds'
  <2>1. "done" \in TxState /\ "failed" \in TxState
    BY DEF TxState
  <2>2. /\ UNCHANGED <<quarantine, ends, open, rx, mine, theirs, plan>>
        /\ tx' = [tx EXCEPT ![c][n] = "done"] \/ tx' = [tx EXCEPT ![c][n] = "failed"]
    BY <1>10 DEF SendDone, WriteError, WriteDeadline, archives
  <2>3. faults' \in Nat
    BY <1>10 DEF SendDone, WriteError, WriteDeadline, Fault, TypeOK
  <2>4. tx' \in [Conn -> [Node -> TxState]]
    <3>1. tx \in [Conn -> [Node -> TxState]]
      BY DEF TypeOK
    <3> QED BY <2>1, <2>2, <3>1
  <2> QED BY <2>2, <2>3, <2>4 DEF TypeOK, Kinds, Announcements
<1>11. ASSUME NEW c \in Conn, NEW n \in Node, ReceiveVector(c, n)
       PROVE  Kinds'
  <2> DEFINE f == Head(wire[c][n])
  <2>1. wire[c][n] \in Seq(Frame) /\ wire[c][n] # <<>>
    BY <1>11 DEF TypeOK, ReceiveVector, Incoming
  <2>2. f \in Frame /\ f = wire[c][n][1] /\ 1 \in 1..Len(wire[c][n])
    BY <2>1, HeadTailProperties, EmptySeq
  <2>3. f.rows \in SUBSET Record /\ Keyable(f.rows)
    BY <2>2 DEF KeysInductive, Frame
  <2>4. theirs' = [theirs EXCEPT ![c][n] = f.rows]
    BY <1>11 DEF ReceiveVector
  <2> HIDE DEF f
  <2>5. "reading" \in RxState
    BY DEF RxState
  <2>6. Announcements'
    BY <1>11, <2>3, <2>4 DEF Announcements, ReceiveVector, TypeOK
  <2>7. theirs' \in [Conn -> [Node -> SUBSET Record]]
    BY <2>3, <2>4 DEF TypeOK
  <2>8. /\ UNCHANGED <<quarantine, ends, open, tx, mine, plan, faults>>
        /\ rx' = [rx EXCEPT ![c][n] = "reading"]
    BY <1>11 DEF ReceiveVector, archives
  <2>9. rx' \in [Conn -> [Node -> RxState]]
    BY <2>5, <2>8 DEF TypeOK
  <2> QED BY <2>6, <2>7, <2>8, <2>9 DEF TypeOK, Kinds
<1>12. ASSUME NEW c \in Conn, NEW n \in Node, ReceiveRecords(c, n)
       PROVE  Kinds'
  <2>1. wire[c][n] \in Seq(Frame) /\ wire[c][n] # <<>>
    BY <1>12 DEF TypeOK, ReceiveRecords, Incoming
  <2>2. Head(wire[c][n]).rows \in SUBSET Record
    <3>1. Head(wire[c][n]) \in Frame
      BY <2>1, HeadTailProperties
    <3> QED BY <3>1 DEF Frame
  <2>3. ForkEvidence(rows[n], Head(wire[c][n]).rows) \in SUBSET Record
    BY <2>2 DEF ForkEvidence
  <2> QED BY <1>12, <2>3 DEF ReceiveRecords, TypeOK, Kinds, Announcements
<1>13. ASSUME NEW c \in Conn, NEW n \in Node, NEW p \in Node,
              ReceiveDone(c, n) \/ ReceiveEOF(c, n, p) \/ ReadDeadline(c, n, p) \/ ReadError(c, n)
       PROVE  Kinds'
  <2>1. "done" \in RxState /\ "eof" \in RxState /\ "failed" \in RxState
    BY DEF RxState
  <2>2. /\ UNCHANGED <<quarantine, ends, open, tx, mine, theirs, plan>>
        /\ \/ rx' = [rx EXCEPT ![c][n] = "done"] \/ rx' = [rx EXCEPT ![c][n] = "eof"]
           \/ rx' = [rx EXCEPT ![c][n] = "failed"]
    BY <1>13 DEF ReceiveDone, ReceiveEOF, ReadDeadline, ReadError, archives
  <2>3. faults' \in Nat
    BY <1>13 DEF ReceiveDone, ReceiveEOF, ReadDeadline, ReadError, Fault, TypeOK
  <2>4. rx' \in [Conn -> [Node -> RxState]]
    <3>1. rx \in [Conn -> [Node -> RxState]]
      BY DEF TypeOK
    <3> QED BY <2>1, <2>2, <3>1
  <2> QED BY <2>2, <2>3, <2>4 DEF TypeOK, Kinds, Announcements
<1>14. ASSUME NEW c \in Conn, NEW n \in Node, Abort(c, n) \/ Leave(c, n)
       PROVE  Kinds'
  <2>1. "failed" \in TxState /\ "failed" \in RxState /\ Idle \in [Origin -> Int]
    BY DEF TxState, RxState, Idle
  <2>2. /\ UNCHANGED <<quarantine, ends, mine>> /\ faults' \in Nat
        /\ open' = [open EXCEPT ![c] = @ \ {n}]
        /\ theirs' = [theirs EXCEPT ![c][n] = {}]
        /\ plan' = [plan EXCEPT ![c][n] = Idle]
        /\ tx' = tx \/ tx' = [tx EXCEPT ![c][n] = "failed"]
        /\ rx' = rx \/ rx' = [rx EXCEPT ![c][n] = "failed"]
    BY <1>14 DEF Abort, Leave, Hangup, Fault, archives, TypeOK
  <2>3. Announcements'
    BY <1>3, <2>2 DEF Announcements, TypeOK
  <2>4. tx' \in [Conn -> [Node -> TxState]] /\ rx' \in [Conn -> [Node -> RxState]]
    <3>1. tx \in [Conn -> [Node -> TxState]] /\ rx \in [Conn -> [Node -> RxState]]
      BY DEF TypeOK
    <3>2. [tx EXCEPT ![c][n] = "failed"] \in [Conn -> [Node -> TxState]]
      BY <2>1, <3>1
    <3>3. [rx EXCEPT ![c][n] = "failed"] \in [Conn -> [Node -> RxState]]
      BY <2>1, <3>1
    <3> QED BY <2>2, <3>1, <3>2, <3>3
  <2>5. quarantine' \in [Node -> SUBSET Record] /\ ends' \in [Conn -> SUBSET Node]
        /\ mine' \in [Conn -> [Node -> SUBSET Record]]
    BY <2>2 DEF TypeOK
  <2>6. open' \in [Conn -> SUBSET Node]
    BY <2>2 DEF TypeOK
  <2>7. theirs' \in [Conn -> [Node -> SUBSET Record]]
    BY <2>2 DEF TypeOK
  <2>8. plan' \in [Conn -> [Node -> [Origin -> Int]]]
    BY <2>1, <2>2 DEF TypeOK
  <2> QED BY <2>2, <2>3, <2>4, <2>5, <2>6, <2>7, <2>8 DEF Kinds
<1>15. ASSUME UNCHANGED vars
       PROVE  Kinds'
  BY <1>15 DEF vars, TypeOK, Kinds, Announcements
<1>16. ASSUME NEW c \in Conn, NEW n \in Node,
              Sender(c, n) \/ Receiver(c, n) \/ Failure(c, n) \/ Leave(c, n)
       PROVE  Kinds'
  <2>1. CASE Sender(c, n)
    BY <1>6, <1>7, <1>8, <1>9, <1>10, <2>1 DEF Sender
  <2>2. CASE Receiver(c, n)
    BY <1>11, <1>12, <1>13, <2>2 DEF Receiver
  <2>3. CASE Failure(c, n) \/ Leave(c, n)
    BY <1>10, <1>13, <1>14, <2>3 DEF Failure
  <2> QED BY <1>16, <2>1, <2>2, <2>3
<1>17. Kinds'
  BY <1>4, <1>5, <1>15, <1>16 DEF Next
<1>18. TypeOK'
  BY <1>2, <1>17 DEF Kinds, TypeOK
<1> QED BY <1>1, <1>17, <1>18 DEF Kinds, Typed

\* Tables, queues and plans keep their types, whatever origin ids the nodes share:
\* clones of one database exchange records as well as anybody.
THEOREM TypeCorrect == Spec => []TypeOK
<1>1. Init => Typed
  BY TypedInit
<1>2. Typed /\ [Next]_vars => Typed'
  BY TypedNext
<1>3. Typed => TypeOK
  BY DEF Typed
<1> QED BY <1>1, <1>2, <1>3, PTL DEF Spec

----------------------------------------------------------------------------
(* Any origin ids: forks surface *)

\* Nodes that share an origin id collect different lines.
LinesApart ==
    \A n, m \in Node :
        n # m /\ OriginOf[n] = OriginOf[m] => Transcript[n] \cap Transcript[m] = {}

\* A record was written by a node that owns its origin and its line.
Authored ==
    \A n \in Node : \A r \in rows[n] : \E m \in Node :
        OriginOf[m] = r.origin /\ r.line \in Transcript[m] /\ r \in rows[m]

\* The bucket of r is one the two announcements cannot compare.
Excused(c, n, p, r) ==
    /\ tx[c][n] # "connected"
    /\ Cardinality(InBucket(mine[c][p], r.origin, Bucket(r)))
         # Cardinality(InBucket(mine[c][n], r.origin, Bucket(r)))

\* What n holds or has quarantined once i more frames have been read.
Noted(c, n, i) == Reached(rows[n] \cup quarantine[n], wire[c][n], i)

\* What n knows of p is nothing or what p announced, and what is on its way is p's.
Announced(c, n, p) ==
    /\ mine[c][p] \subseteq rows[p]
    /\ tx[c][p] = "connected" =>
          wire[c][n] = <<>> /\ theirs[c][n] = {} /\ rx[c][n] # "done"
    /\ theirs[c][n] = {} \/ theirs[c][n] = mine[c][p]
    /\ \A i \in 1..Len(wire[c][n]) :
          /\ wire[c][n][i].rows \subseteq rows[p]
          /\ wire[c][n][i].kind = "vector" => wire[c][n][i].rows = mine[c][p]

\* While p sends, a record it announced has been sent, is still to be sent, or
\* stands in a bucket the announcements cannot compare.
Underway(c, n, p) ==
    n \in open[c] /\ tx[c][p] = "sending" => \A r \in mine[c][p] :
        \/ r \in Noted(c, n, Len(wire[c][n]))
        \/ plan[c][p][r.origin] >= 0 /\ r.seq > plan[c][p][r.origin]
        \/ Excused(c, n, p, r)

\* Behind a done frame none is still to be sent.
Delivered(c, n, p) ==
    /\ rx[c][n] = "done" =>
          \A r \in mine[c][p] : r \in rows[n] \cup quarantine[n] \/ Excused(c, n, p, r)
    /\ n \in open[c] =>
          \A i \in 1..Len(wire[c][n]) : wire[c][n][i].kind = "done" =>
              \A r \in mine[c][p] : r \in Noted(c, n, i) \/ Excused(c, n, p, r)

Surfacing(c, n, p) == Announced(c, n, p) /\ Underway(c, n, p) /\ Delivered(c, n, p)

\* What holds at every step between nodes that may share an origin id.
ForkInductive ==
    /\ Typed /\ Pairs /\ Authored /\ \A n \in Node : IsFiniteSet(rows[n])
    /\ \A c \in Conn, n, p \in Node : Peers(c, n, p) => Surfacing(c, n, p)

----------------------------------------------------------------------------

\* A line of an origin has one record, wherever it is held.
LEMMA SameLine ==
    ASSUME LinesApart, Authored, KeysInductive, NEW n \in Node, NEW m \in Node,
           NEW r \in rows[n], NEW s \in rows[m], r.origin = s.origin, r.line = s.line
    PROVE  r = s
<1>1. PICK i \in Node : OriginOf[i] = r.origin /\ r.line \in Transcript[i] /\ r \in rows[i]
  BY DEF Authored
<1>2. PICK j \in Node : OriginOf[j] = s.origin /\ s.line \in Transcript[j] /\ s \in rows[j]
  BY DEF Authored
<1>3. i = j
  BY <1>1, <1>2 DEF LinesApart
<1> QED BY <1>1, <1>2, <1>3 DEF KeysInductive, Keyable, Keyed

\* A record of a batch is inserted, held, or evidence of a fork.
LEMMA BatchNoted ==
    ASSUME LinesApart, Authored, KeysInductive, NEW n \in Node, NEW p \in Node,
           NEW batch \in SUBSET rows[p], NEW r \in batch
    PROVE  r \in rows[n] \cup Insertable(rows[n], batch) \cup ForkEvidence(rows[n], batch)
<1>1. \A h \in rows[n] : h.origin = r.origin /\ h.line = r.line => h = r
  BY SameLine
<1> QED BY <1>1 DEF Insertable, ForkEvidence

\* Reading ahead with more in the tables.
LEMMA NotedGrows ==
    ASSUME NEW n \in Node, NEW frames, NEW i,
           rows[n] \subseteq rows'[n], quarantine[n] \subseteq quarantine'[n]
    PROVE  Reached(rows[n] \cup quarantine[n], frames, i)
              \subseteq Reached(rows'[n] \cup quarantine'[n], frames, i)
<1>1. rows[n] \cup quarantine[n] \subseteq rows'[n] \cup quarantine'[n]
  OBVIOUS
<1> QED BY <1>1, ReachedGrows

\* A direction neither of whose ends changes stays sound while tables grow.
LEMMA SurfacingKept ==
    ASSUME NEW c \in Conn, NEW n \in Node, NEW p \in Node, Surfacing(c, n, p),
           \A m \in Node : rows[m] \subseteq rows'[m] /\ quarantine[m] \subseteq quarantine'[m],
           n \in open'[c] => n \in open[c],
           mine'[c][p] = mine[c][p], tx'[c][p] = tx[c][p], plan'[c][p] = plan[c][p],
           theirs'[c][n] = theirs[c][n], rx'[c][n] = rx[c][n], wire'[c][n] = wire[c][n],
           tx[c][n] # "connected" => tx'[c][n] # "connected" /\ mine'[c][n] = mine[c][n]
    PROVE  Surfacing(c, n, p)'
<1>1. ASSUME NEW r, Excused(c, n, p, r)
      PROVE  Excused(c, n, p, r)'
  BY <1>1 DEF Excused
<1>2. ASSUME NEW i, NEW r \in Noted(c, n, i)
      PROVE  r \in Noted(c, n, i)'
  BY <1>2, NotedGrows DEF Noted
<1>3. Announced(c, n, p)'
  BY DEF Surfacing, Announced
<1>4. Underway(c, n, p)'
  <2> SUFFICES ASSUME n \in open'[c], tx'[c][p] = "sending", NEW r \in mine[c][p]
               PROVE  \/ r \in Noted(c, n, Len(wire[c][n]))'
                      \/ plan[c][p][r.origin] >= 0 /\ r.seq > plan[c][p][r.origin]
                      \/ Excused(c, n, p, r)'
    BY DEF Underway, Noted
  <2> QED BY <1>1, <1>2 DEF Surfacing, Underway, Noted
<1>5. Delivered(c, n, p)'
  BY <1>1, <1>2 DEF Surfacing, Delivered, Noted
<1> QED BY <1>3, <1>4, <1>5 DEF Surfacing

\* A step that touches the sender of one end and the receiver of the other.
LEMMA OneSurfacing ==
    ASSUME ForkInductive, ends' = ends, open' = open,
           \A m \in Node : rows[m] \subseteq rows'[m] /\ quarantine[m] \subseteq quarantine'[m],
           NEW c \in Conn, NEW n \in Node, NEW p \in Node, Peers(c, n, p),
           \A d \in Conn, m \in Node : d # c \/ m # p =>
               mine'[d][m] = mine[d][m] /\ tx'[d][m] = tx[d][m] /\ plan'[d][m] = plan[d][m],
           \A d \in Conn, m \in Node : d # c \/ m # n =>
               theirs'[d][m] = theirs[d][m] /\ rx'[d][m] = rx[d][m] /\ wire'[d][m] = wire[d][m],
           tx[c][p] # "connected" => tx'[c][p] # "connected" /\ mine'[c][p] = mine[c][p],
           Surfacing(c, n, p)'
    PROVE  /\ Pairs'
           /\ \A d \in Conn, k, m \in Node : Peers(d, k, m)' => Surfacing(d, k, m)'
<1>1. Pairs'
  BY DEF ForkInductive, Pairs
<1>2. ASSUME NEW d \in Conn, NEW k \in Node, NEW m \in Node, Peers(d, k, m)'
      PROVE  Surfacing(d, k, m)'
  <2>1. Peers(d, k, m) /\ Surfacing(d, k, m)
    BY <1>2 DEF Peers, ForkInductive
  <2>2. CASE d = c /\ k = n /\ m = p
    BY <2>2
  <2>3. CASE ~ (d = c /\ k = n /\ m = p)
    <3>1. (d # c \/ m # p) /\ (d # c \/ k # n)
      BY <2>1, <2>3 DEF ForkInductive, Pairs, Peers
    <3>2. /\ mine'[d][m] = mine[d][m] /\ tx'[d][m] = tx[d][m]
          /\ plan'[d][m] = plan[d][m] /\ theirs'[d][k] = theirs[d][k]
          /\ rx'[d][k] = rx[d][k] /\ wire'[d][k] = wire[d][k]
      BY <3>1
    <3>3. tx[d][k] # "connected" => tx'[d][k] # "connected" /\ mine'[d][k] = mine[d][k]
      OBVIOUS
    <3>4. k \in open'[d] => k \in open[d]
      OBVIOUS
    <3> QED BY <2>1, <3>2, <3>3, <3>4, SurfacingKept
  <2> QED BY <2>2, <2>3
<1> QED BY <1>1, <1>2

\* Both ends of a connection, seen from one.
LEMMA BothWays ==
    ASSUME ForkInductive, NEW c \in Conn, NEW n \in Node, n \in open[c]
    PROVE  \E p \in Node : /\ Peers(c, n, p) /\ Peers(c, p, n)
                           /\ Surfacing(c, n, p) /\ Surfacing(c, p, n)
  BY DEF ForkInductive, Pairs, Peers, Typed, TypeOK

\* The sender knows its end of the connection, and what is said of either way.
LEMMA JoinedSurfacing ==
    ASSUME ForkInductive, NEW c \in Conn, NEW n \in Node, NEW p \in Node, Joined(c, n, p)
    PROVE  Peers(c, p, n) /\ Surfacing(c, p, n) /\ Surfacing(c, n, p)
  BY DEF ForkInductive, Pairs, Joined, Peers

\* Tables: only a collector and a batch change them.
LEMMA TablesKept ==
    ASSUME ForkInductive, rows' = rows
    PROVE  Authored' /\ \A n \in Node : IsFiniteSet(rows'[n])
  BY DEF ForkInductive, Authored

\* A batch adds to one table what another holds.
LEMMA BatchKept ==
    ASSUME ForkInductive, NEW n \in Node, NEW p \in Node, NEW batch \in SUBSET rows[p],
           rows' = [rows EXCEPT ![n] = @ \cup Insertable(@, batch)]
    PROVE  /\ Authored' /\ \A m \in Node : IsFiniteSet(rows'[m])
           /\ \A m \in Node : rows[m] \subseteq rows'[m]
<1>1. Insertable(rows[n], batch) \in SUBSET rows[p]
  BY DEF Insertable
<1>2. \A m \in Node : rows'[m] = IF m = n THEN rows[n] \cup Insertable(rows[n], batch) ELSE rows[m]
  BY DEF ForkInductive, Typed, TypeOK
<1>3. IsFiniteSet(rows[n] \cup Insertable(rows[n], batch))
  BY <1>1, FS_Subset, FS_Union DEF ForkInductive
<1>4. \A m \in Node : IsFiniteSet(rows'[m])
  BY <1>2, <1>3 DEF ForkInductive
<1>5. \A m \in Node : rows[m] \subseteq rows'[m]
  BY <1>2
<1>6. \A m \in Node : \A r \in rows'[m] : \E k \in Node : r \in rows[k]
  BY <1>1, <1>2
<1>7. Authored'
  BY <1>5, <1>6 DEF ForkInductive, Authored
<1> QED BY <1>4, <1>5, <1>7

\* A collector adds lines of its own machine under its own origin.
LEMMA LocalKept ==
    ASSUME ForkInductive, NEW n \in Node, NEW lines \in LocalBatch(n), AppendLocal(n, lines)
    PROVE  /\ Authored' /\ \A m \in Node : IsFiniteSet(rows'[m])
           /\ \A m \in Node : rows[m] \subseteq rows'[m]
<1> DEFINE o == OriginOf[n]
           f == [i \in DOMAIN lines |->
                    [origin |-> o, seq |-> Watermark(rows[n], o) + i, line |-> lines[i]]]
           added == {f[i] : i \in DOMAIN lines}
<1>1. PICK k \in 1..LocalLimit : lines \in [1..k -> Transcript[n]]
  BY DEF LocalBatch
<1>2. k \in Nat
  BY BoundAssumption
<1>3. IsFiniteSet(added)
  <2>1. f \in Surjection(1..k, added)
    BY <1>1 DEF Surjection
  <2> HIDE DEF f, added
  <2> QED BY <1>2, <2>1, FS_Interval, FS_Surjection
<1>4. WithLocal(rows[n], o, lines) = rows[n] \cup added
  BY DEF WithLocal
<1>5. \A r \in added : r.origin = o /\ r.line \in Transcript[n]
  BY <1>1
<1> HIDE DEF added
<1>6. \A m \in Node : rows'[m] = IF m = n THEN rows[n] \cup added ELSE rows[m]
  BY <1>4 DEF AppendLocal, ForkInductive, Typed, TypeOK
<1>7. IsFiniteSet(rows[n] \cup added)
  BY <1>3, FS_Union DEF ForkInductive
<1>8. \A m \in Node : IsFiniteSet(rows'[m])
  BY <1>6, <1>7 DEF ForkInductive
<1>9. \A m \in Node : rows[m] \subseteq rows'[m]
  BY <1>6
<1>10. Authored'
  BY <1>5, <1>6, <1>9 DEF ForkInductive, Authored
<1> QED BY <1>8, <1>9, <1>10

\* A step that writes no table closes no connection and starts none.
LEMMA QuietStep ==
    ASSUME ForkInductive, [Next]_vars, rows' = rows, quarantine' = quarantine,
           ends' = ends, open' = open,
           NEW c \in Conn, NEW n \in Node, NEW p \in Node, Peers(c, n, p),
           \A d \in Conn, m \in Node : d # c \/ m # p =>
               mine'[d][m] = mine[d][m] /\ tx'[d][m] = tx[d][m] /\ plan'[d][m] = plan[d][m],
           \A d \in Conn, m \in Node : d # c \/ m # n =>
               theirs'[d][m] = theirs[d][m] /\ rx'[d][m] = rx[d][m] /\ wire'[d][m] = wire[d][m],
           tx[c][p] # "connected" => tx'[c][p] # "connected" /\ mine'[c][p] = mine[c][p],
           Surfacing(c, n, p)'
    PROVE  ForkInductive'
<1>1. Typed'
  BY TypedNext DEF ForkInductive
<1>2. Authored' /\ \A m \in Node : IsFiniteSet(rows'[m])
  BY TablesKept
<1>3. /\ Pairs'
      /\ \A d \in Conn, k, m \in Node : Peers(d, k, m)' => Surfacing(d, k, m)'
  BY OneSurfacing
<1> QED BY <1>1, <1>2, <1>3 DEF ForkInductive

\* An announcement is the first frame, and what the table holds.
LEMMA AnnounceSurfacing ==
    ASSUME ForkInductive, [Next]_vars,
           NEW c \in Conn, NEW n \in Node, NEW p \in Node, Announce(c, n, p)
    PROVE  ForkInductive'
<1> DEFINE f == [kind |-> "vector", rows |-> rows[n]]
           frames == wire[c][p]
<1>1. TypeOK /\ Peers(c, p, n) /\ Surfacing(c, p, n)
  BY JoinedSurfacing DEF ForkInductive, Typed, Announce
<1>2. f \in Frame /\ f.kind = "vector" /\ f.rows = rows[n] /\ frames \in Seq(Frame)
  BY <1>1 DEF TypeOK, Frame
<1>3. /\ rows' = rows /\ quarantine' = quarantine /\ open' = open /\ ends' = ends
      /\ rx' = rx /\ theirs' = theirs /\ plan' = plan /\ tx[c][n] = "connected"
      /\ mine'[c][n] = rows[n] /\ tx'[c][n] = "announced"
      /\ wire'[c][p] = IF p \in open[c] THEN Append(frames, f) ELSE frames
      /\ \A d \in Conn, m \in Node : d # c \/ m # n =>
            mine'[d][m] = mine[d][m] /\ tx'[d][m] = tx[d][m]
      /\ \A d \in Conn, m \in Node : d # c \/ m # p => wire'[d][m] = wire[d][m]
  BY <1>1 DEF TypeOK, Announce, Post, archives
<1>4. frames = <<>> /\ theirs[c][p] = {} /\ rx[c][p] # "done"
  BY <1>1, <1>3 DEF Surfacing, Announced
<1> HIDE DEF f
<1>5. \A i \in 1..Len(wire'[c][p]) : wire'[c][p][i] = f
  BY <1>2, <1>3, <1>4, AppendProperties, EmptySeq
<1>6. Announced(c, p, n)'
  BY <1>2, <1>3, <1>4, <1>5 DEF Announced
<1>7. Underway(c, p, n)'
  BY <1>3 DEF Underway
<1>8. Delivered(c, p, n)'
  BY <1>2, <1>3, <1>4, <1>5 DEF Delivered
<1>9. Surfacing(c, p, n)'
  BY <1>6, <1>7, <1>8 DEF Surfacing
<1> QED BY <1>1, <1>3, <1>9, QuietStep

\* At the start a record is above the plan, or in a bucket of differing counts.
LEMMA StartSendSurfacing ==
    ASSUME ForkInductive, [Next]_vars, NEW c \in Conn, NEW n \in Node, StartSend(c, n)
    PROVE  ForkInductive'
<1>1. TypeOK /\ KeysInductive /\ Announcements /\ \A m \in Node : IsFiniteSet(rows[m])
  BY DEF ForkInductive, Typed
<1>2. PICK p \in Node : /\ Peers(c, p, n) /\ Surfacing(c, p, n) /\ Surfacing(c, n, p)
  BY BothWays DEF StartSend
<1> DEFINE my == mine[c][n]
           known == theirs[c][n]
<1>3. /\ my \in SUBSET Record /\ known \in SUBSET Record /\ Keyable(my) /\ Keyable(known)
      /\ IsFiniteSet(my)
  <2>1. my \in SUBSET rows[n]
    BY <1>2 DEF Surfacing, Announced
  <2> QED BY <1>1, <2>1, FS_Subset DEF TypeOK, Announcements
<1>4. /\ rows' = rows /\ quarantine' = quarantine /\ open' = open /\ ends' = ends
      /\ mine' = mine /\ rx' = rx /\ theirs' = theirs /\ wire' = wire
      /\ tx[c][n] = "announced" /\ tx'[c][n] = "sending"
      /\ plan'[c][n] = [o \in Origin |-> ResendFrom(my, known, o)]
      /\ \A d \in Conn, m \in Node : d # c \/ m # n =>
            plan'[d][m] = plan[d][m] /\ tx'[d][m] = tx[d][m]
  BY <1>1 DEF TypeOK, StartSend, archives
<1>5. ASSUME NEW r \in my
      PROVE  \/ r \in rows[p]
             \/ 0 <= ResendFrom(my, known, r.origin) /\ r.seq > ResendFrom(my, known, r.origin)
             \/ Excused(c, p, n, r)
  <2> DEFINE here == InBucket(my, r.origin, Bucket(r))
             there == InBucket(known, r.origin, Bucket(r))
  <2>1. CASE known = {}
    <3>1. ResendFrom(my, known, r.origin) = 0
      BY <1>3, <2>1, ResendFromNothing
    <3>2. r.seq > 0
      BY <1>3 DEF Record
    <3> QED BY <3>1, <3>2
  <2>2. CASE known # {}
    <3>1. known = mine[c][p] /\ known \subseteq rows[p] /\ tx[c][p] # "connected"
      BY <1>2, <2>2 DEF Surfacing, Announced
    <3>2. CASE Cardinality(here) # Cardinality(there)
      BY <3>1, <3>2 DEF Excused
    <3>3. CASE here = there
      <4>1. r \in here
        BY DEF InBucket, OfOrigin
      <4> QED BY <3>1, <3>3, <4>1 DEF InBucket, OfOrigin
    <3>4. CASE here # there /\ Cardinality(here) = Cardinality(there)
      BY <1>3, <3>4, ResendFromMismatch
    <3> QED BY <3>2, <3>3, <3>4
  <2> QED BY <2>1, <2>2
<1> HIDE DEF my, known
<1>6. Underway(c, p, n)'
  <2> SUFFICES ASSUME NEW r \in my
               PROVE  \/ r \in Noted(c, p, Len(wire[c][p]))
                      \/ plan'[c][n][r.origin] >= 0 /\ r.seq > plan'[c][n][r.origin]
                      \/ Excused(c, p, n, r)'
    BY <1>4 DEF Underway, Noted, my
  <2>1. r.origin \in Origin
    BY <1>3 DEF Record
  <2>2. plan'[c][n][r.origin] = ResendFrom(my, known, r.origin)
    BY <1>4, <2>1
  <2>3. ResendFrom(my, known, r.origin) \in Int
    BY <1>3, ResendFromType
  <2>4. r \in rows[p] => r \in Noted(c, p, Len(wire[c][p]))
    BY DEF Noted, Reached
  <2>5. Excused(c, p, n, r) => Excused(c, p, n, r)'
    BY <1>2, <1>4 DEF Excused, Peers
  <2> QED BY <1>5, <2>2, <2>3, <2>4, <2>5
<1>7. Announced(c, p, n)' /\ Delivered(c, p, n)'
  <2>1. Announced(c, p, n)'
    BY <1>2, <1>4 DEF Surfacing, Announced
  <2>2. \A r : Excused(c, p, n, r) => Excused(c, p, n, r)'
    BY <1>2, <1>4 DEF Excused, Peers
  <2>3. Delivered(c, p, n)'
    BY <1>2, <1>4, <2>2 DEF Surfacing, Delivered, Noted
  <2> QED BY <2>1, <2>3
<1>8. Surfacing(c, p, n)'
  BY <1>6, <1>7 DEF Surfacing
<1> QED BY <1>2, <1>4, <1>8, QuietStep

\* Frame f went behind the k frames on their way to n, and nothing else changed.
PostedAt(c, n, f, k) ==
    /\ k = Len(wire[c][n]) /\ Len(wire'[c][n]) = k + 1 /\ wire'[c][n][k + 1] = f
    /\ \A i \in 1..k : wire'[c][n][i] = wire[c][n][i]
    /\ \A i \in 0..k : Noted(c, n, i)' = Noted(c, n, i)
    /\ Noted(c, n, k + 1)' =
          Noted(c, n, k) \cup (IF f.kind = "records" THEN f.rows ELSE {})

\* A frame posted by p: what was noted stays noted.
LEMMA PostedNoted ==
    ASSUME TypeOK, NEW c \in Conn, NEW n \in Node, NEW f \in Frame,
           rows' = rows, quarantine' = quarantine, wire'[c][n] = Append(wire[c][n], f)
    PROVE  \E k \in Nat : PostedAt(c, n, f, k)
<1> DEFINE table == rows[n] \cup quarantine[n]
           frames == wire[c][n]
           longer == Append(frames, f)
<1>1. frames \in Seq(Frame)
  BY DEF TypeOK
<1>2. PICK k \in Nat : k = Len(frames)
  BY <1>1
<1>3. /\ Len(longer) = k + 1 /\ longer[k + 1] = f
      /\ \A i \in 1..k : longer[i] = frames[i]
  BY <1>1, <1>2, AppendProperties
<1>4. /\ \A i \in 0..k : Reached(table, longer, i) = Reached(table, frames, i)
      /\ Reached(table, longer, k + 1) =
            Reached(table, frames, k) \cup (IF f.kind = "records" THEN f.rows ELSE {})
  <2> HIDE DEF table, frames
  <2> QED BY <1>1, <1>2, ReachedAppend
<1>5. \A i : /\ Noted(c, n, i)' = Reached(table, longer, i)
             /\ Noted(c, n, i) = Reached(table, frames, i)
  BY DEF Noted
<1>6. wire'[c][n] = longer
  OBVIOUS
<1> HIDE DEF table, longer
<1> QED BY <1>2, <1>3, <1>4, <1>5, <1>6 DEF PostedAt

\* A batch: what was to be sent is on its way, or above the new plan.
LEMMA SendBatchSurfacing ==
    ASSUME ForkInductive, [Next]_vars, NEW c \in Conn, NEW n \in Node, NEW p \in Node,
           NEW o \in Origin, SendBatch(c, n, p, o)
    PROVE  ForkInductive'
<1> DEFINE after == plan[c][n][o]
           batch == Since(rows[n], o, after, BatchSize)
           f == [kind |-> "records", rows |-> batch]
           w == Watermark(batch, o)
<1>1. /\ TypeOK /\ KeysInductive /\ \A m \in Node : IsFiniteSet(rows[m])
      /\ Peers(c, p, n) /\ Surfacing(c, p, n)
  BY JoinedSurfacing DEF ForkInductive, Typed, SendBatch
<1>2. /\ rows[n] \in SUBSET Record /\ IsFiniteSet(rows[n]) /\ Keyable(rows[n])
      /\ after \in Int /\ after >= 0 /\ BatchSize \in Nat
      /\ batch \in SUBSET rows[n] /\ mine[c][n] \subseteq rows[n]
  <2>1. rows[n] \in SUBSET Record /\ IsFiniteSet(rows[n]) /\ Keyable(rows[n])
    BY <1>1 DEF TypeOK, KeysInductive
  <2>2. after \in Int /\ after >= 0 /\ BatchSize \in Nat
    BY <1>1, BatchAssumption DEF TypeOK, SendBatch, Sending
  <2>3. batch \in SUBSET rows[n]
    BY DEF Since, OfOrigin
  <2> QED BY <1>1, <2>1, <2>2, <2>3 DEF Surfacing, Announced
<1>3. /\ w \in Nat /\ (w = 0 \/ Has(batch, o, w))
      /\ \A r \in OfOrigin(batch, o) : r.seq <= w
  <2> HIDE DEF batch
  <2>1. Keyable(batch) /\ batch \in SUBSET Record
    BY <1>2, KeyablePart
  <2> QED BY <2>1, KeyableWatermark
<1>4. /\ rows' = rows /\ quarantine' = quarantine /\ open' = open /\ ends' = ends
      /\ mine' = mine /\ rx' = rx /\ theirs' = theirs /\ tx' = tx /\ tx[c][n] = "sending"
      /\ wire'[c][p] = IF p \in open[c] THEN Append(wire[c][p], f) ELSE wire[c][p]
      /\ plan'[c][n] = [plan[c][n] EXCEPT ![o] = w]
      /\ \A d \in Conn, m \in Node : d # c \/ m # n => plan'[d][m] = plan[d][m]
      /\ \A d \in Conn, m \in Node : d # c \/ m # p => wire'[d][m] = wire[d][m]
  BY <1>1 DEF TypeOK, SendBatch, Sending, Post, archives
<1>5. ASSUME NEW r \in mine[c][n], r.origin = o, r.seq > after, ~ (r.seq > w)
      PROVE  r \in batch
  <2>1. r \in OfOrigin(rows[n], o) /\ r.seq \in Nat \ {0}
    BY <1>2, <1>5 DEF OfOrigin, Record
  <2>2. Has(batch, o, w)
    BY <1>3, <1>5, <2>1
  <2>3. PICK s \in batch : s.seq = w
    BY <2>2 DEF Has
  <2> QED BY <1>2, <1>3, <1>5, <2>1, <2>3, SinceInOrder
<1>6. f \in Frame /\ f.kind = "records" /\ f.rows = batch
  <2> HIDE DEF batch
  <2>1. batch \in SUBSET Record
    BY <1>2
  <2> QED BY <2>1 DEF Frame
<1> HIDE DEF batch, f, after, w
<1>7. \A r : Excused(c, p, n, r) => Excused(c, p, n, r)'
  BY <1>4 DEF Excused
<1>8. CASE p \notin open[c]
  <2>1. Announced(c, p, n)' /\ Underway(c, p, n)'
    BY <1>1, <1>4, <1>8 DEF Surfacing, Announced, Underway
  <2>2. Delivered(c, p, n)'
    BY <1>1, <1>4, <1>7, <1>8 DEF Surfacing, Delivered
  <2>3. Surfacing(c, p, n)'
    BY <2>1, <2>2 DEF Surfacing
  <2> QED BY <1>1, <1>4, <2>3, QuietStep
<1>9. CASE p \in open[c]
  <2>0. PICK k \in Nat : PostedAt(c, p, f, k)
    <3>1. wire'[c][p] = Append(wire[c][p], f) /\ rows' = rows /\ quarantine' = quarantine
      BY <1>4, <1>9
    <3> QED BY <1>1, <1>6, <3>1, PostedNoted
  <2>1. /\ k = Len(wire[c][p]) /\ Len(wire'[c][p]) = k + 1 /\ wire'[c][p][k + 1] = f
        /\ \A i \in 1..k : wire'[c][p][i] = wire[c][p][i]
        /\ \A i \in 0..k : Noted(c, p, i)' = Noted(c, p, i)
        /\ Noted(c, p, k + 1)' = Noted(c, p, k) \cup batch
    BY <1>6, <2>0 DEF PostedAt
  <2>2. \A i \in 1..(k + 1) : i \in 1..k \/ i = k + 1
    BY <2>1
  <2>3. \A i \in 1..k : i \in 0..k
    OBVIOUS
  <2>4. Announced(c, p, n)'
    <3>1. \A i \in 1..k : /\ wire[c][p][i].rows \subseteq rows[n]
                          /\ wire[c][p][i].kind = "vector" => wire[c][p][i].rows = mine[c][n]
      BY <1>1, <2>1 DEF Surfacing, Announced
    <3>2. \A i \in 1..(k + 1) :
             /\ wire'[c][p][i].rows \subseteq rows[n]
             /\ wire'[c][p][i].kind = "vector" => wire'[c][p][i].rows = mine[c][n]
      BY <1>2, <1>6, <2>1, <2>2, <3>1
    <3> QED BY <1>1, <1>4, <2>1, <3>2 DEF Surfacing, Announced
  <2>5. Underway(c, p, n)'
    <3> SUFFICES ASSUME NEW r \in mine[c][n]
                 PROVE  \/ r \in Noted(c, p, k + 1)'
                        \/ plan'[c][n][r.origin] >= 0 /\ r.seq > plan'[c][n][r.origin]
                        \/ Excused(c, p, n, r)'
      BY <1>4, <2>1 DEF Underway, Noted
    <3>1. \/ r \in Noted(c, p, k)
          \/ plan[c][n][r.origin] >= 0 /\ r.seq > plan[c][n][r.origin]
          \/ Excused(c, p, n, r)
      BY <1>1, <1>4, <1>9, <2>1 DEF Surfacing, Underway
    <3>2. CASE r.origin # o
      <4>1. plan'[c][n][r.origin] = plan[c][n][r.origin]
        BY <1>1, <1>2, <1>4, <3>2 DEF TypeOK, Record
      <4> QED BY <1>7, <2>1, <3>1, <4>1
    <3>3. CASE r.origin = o
      <4>1. plan'[c][n][r.origin] = w
        BY <1>1, <1>4, <3>3 DEF TypeOK
      <4>2. plan[c][n][r.origin] = after
        BY <3>3 DEF after
      <4> QED BY <1>3, <1>5, <1>7, <2>1, <3>1, <3>3, <4>1, <4>2
    <3> QED BY <3>2, <3>3
  <2>6. Delivered(c, p, n)'
    <3>1. ASSUME NEW i \in 1..(k + 1), wire'[c][p][i].kind = "done", NEW r \in mine[c][n]
          PROVE  r \in Noted(c, p, i)' \/ Excused(c, p, n, r)'
      <4>1. i \in 1..k /\ i \in 0..k /\ wire[c][p][i].kind = "done"
        BY <1>6, <2>1, <2>2, <2>3, <3>1
      <4>2. r \in Noted(c, p, i) \/ Excused(c, p, n, r)
        BY <1>1, <1>9, <2>1, <4>1 DEF Surfacing, Delivered
      <4> QED BY <1>7, <2>1, <4>1, <4>2
    <3>2. rx[c][p] = "done" =>
             \A r \in mine[c][n] : r \in rows[p] \cup quarantine[p] \/ Excused(c, p, n, r)
      BY <1>1 DEF Surfacing, Delivered
    <3> QED BY <1>4, <1>7, <2>1, <3>1, <3>2 DEF Delivered
  <2>7. Surfacing(c, p, n)'
    BY <2>4, <2>5, <2>6 DEF Surfacing
  <2> QED BY <1>1, <1>4, <2>7, QuietStep
<1> QED BY <1>8, <1>9

\* An origin ends when none of its records is above the plan.
LEMMA EndOriginSurfacing ==
    ASSUME ForkInductive, [Next]_vars, NEW c \in Conn, NEW n \in Node,
           NEW o \in Origin, EndOrigin(c, n, o)
    PROVE  ForkInductive'
<1> DEFINE after == plan[c][n][o]
<1>1. TypeOK
  BY DEF ForkInductive, Typed
<1>2. PICK p \in Node : Peers(c, p, n) /\ Surfacing(c, p, n)
  BY BothWays DEF EndOrigin
<1>3. /\ rows' = rows /\ quarantine' = quarantine /\ open' = open /\ ends' = ends
      /\ mine' = mine /\ rx' = rx /\ theirs' = theirs /\ tx' = tx /\ wire' = wire
      /\ tx[c][n] = "sending" /\ plan'[c][n] = [plan[c][n] EXCEPT ![o] = -1]
      /\ \A d \in Conn, m \in Node : d # c \/ m # n => plan'[d][m] = plan[d][m]
  BY <1>1 DEF TypeOK, EndOrigin, Sending, archives
\* Nothing is held above, so no announced record is still to be sent.
<1>4. ASSUME NEW r \in mine[c][n], r.origin = o
      PROVE  ~ (r.seq > after)
  <2>1. rows[n] \in SUBSET Record /\ after \in Int
    BY <1>1 DEF TypeOK
  <2>2. r \in OfOrigin(rows[n], o) /\ r.seq \in Nat
    BY <1>2, <1>4, <2>1 DEF Surfacing, Announced, OfOrigin, Record
  <2>3. Since(rows[n], o, after, BatchSize) = {}
    BY DEF EndOrigin
  <2>4. r.seq <= after
    BY <2>1, <2>2, <2>3, SinceExhausted, BatchAssumption
  <2> QED BY <2>1, <2>2, <2>4
<1> HIDE DEF after
<1>5. \A r : Excused(c, p, n, r) => Excused(c, p, n, r)'
  BY <1>3 DEF Excused
<1>6. Underway(c, p, n)'
  <2> SUFFICES ASSUME p \in open[c], NEW r \in mine[c][n]
               PROVE  \/ r \in Noted(c, p, Len(wire[c][p]))
                      \/ plan'[c][n][r.origin] >= 0 /\ r.seq > plan'[c][n][r.origin]
                      \/ Excused(c, p, n, r)
    BY <1>3, <1>5 DEF Underway, Noted
  <2>1. \/ r \in Noted(c, p, Len(wire[c][p]))
        \/ plan[c][n][r.origin] >= 0 /\ r.seq > plan[c][n][r.origin]
        \/ Excused(c, p, n, r)
    BY <1>2, <1>3 DEF Surfacing, Underway
  <2>2. CASE r.origin = o
    BY <1>4, <2>1, <2>2 DEF after
  <2>3. CASE r.origin # o
    <3>1. r.origin \in Origin
      BY <1>1 DEF TypeOK, Record
    <3>2. plan'[c][n][r.origin] = plan[c][n][r.origin]
      BY <1>1, <1>3, <2>3, <3>1 DEF TypeOK
    <3> QED BY <2>1, <3>2
  <2> QED BY <2>2, <2>3
<1>7. Announced(c, p, n)' /\ Delivered(c, p, n)'
  <2>1. Announced(c, p, n)'
    BY <1>2, <1>3 DEF Surfacing, Announced
  <2>2. Delivered(c, p, n)'
    BY <1>2, <1>3, <1>5 DEF Surfacing, Delivered, Noted
  <2> QED BY <2>1, <2>2
<1>8. Surfacing(c, p, n)'
  BY <1>6, <1>7 DEF Surfacing
<1> QED BY <1>2, <1>3, <1>8, QuietStep

\* The done frame goes out when no origin has any record left to send.
LEMMA SendDoneSurfacing ==
    ASSUME ForkInductive, [Next]_vars,
           NEW c \in Conn, NEW n \in Node, NEW p \in Node, SendDone(c, n, p)
    PROVE  ForkInductive'
<1> DEFINE f == [kind |-> "done", rows |-> {}]
<1>1. TypeOK /\ Peers(c, p, n) /\ Surfacing(c, p, n)
  BY JoinedSurfacing DEF ForkInductive, Typed, SendDone
<1>2. f \in Frame /\ f.kind = "done" /\ f.rows = {}
  BY DEF Frame
<1>3. /\ rows' = rows /\ quarantine' = quarantine /\ open' = open /\ ends' = ends
      /\ mine' = mine /\ rx' = rx /\ theirs' = theirs /\ plan' = plan
      /\ tx[c][n] = "sending" /\ tx'[c][n] = "done" /\ plan[c][n] = Idle
      /\ wire'[c][p] = IF p \in open[c] THEN Append(wire[c][p], f) ELSE wire[c][p]
      /\ \A d \in Conn, m \in Node : d # c \/ m # n => tx'[d][m] = tx[d][m]
      /\ \A d \in Conn, m \in Node : d # c \/ m # p => wire'[d][m] = wire[d][m]
  BY <1>1 DEF TypeOK, SendDone, Post, archives
<1> HIDE DEF f
<1>4. \A r : Excused(c, p, n, r) => Excused(c, p, n, r)'
  BY <1>1, <1>3 DEF Excused, Peers
<1>5. Underway(c, p, n)'
  BY <1>3 DEF Underway
<1>6. CASE p \notin open[c]
  <2>1. Announced(c, p, n)'
    BY <1>1, <1>3, <1>6 DEF Surfacing, Announced
  <2>2. Delivered(c, p, n)'
    BY <1>1, <1>3, <1>4, <1>6 DEF Surfacing, Delivered
  <2>3. Surfacing(c, p, n)'
    BY <1>5, <2>1, <2>2 DEF Surfacing
  <2> QED BY <1>1, <1>3, <2>3, QuietStep
<1>7. CASE p \in open[c]
  <2>0. PICK k \in Nat : PostedAt(c, p, f, k)
    BY <1>1, <1>2, <1>3, <1>7, PostedNoted
  <2>1. /\ k = Len(wire[c][p]) /\ Len(wire'[c][p]) = k + 1 /\ wire'[c][p][k + 1] = f
        /\ \A i \in 1..k : wire'[c][p][i] = wire[c][p][i]
        /\ \A i \in 0..k : Noted(c, p, i)' = Noted(c, p, i)
        /\ Noted(c, p, k + 1)' = Noted(c, p, k)
    BY <1>2, <2>0 DEF PostedAt
  <2>2. /\ \A i \in 1..(k + 1) : i \in 1..k \/ i = k + 1
        /\ \A i \in 1..k : i \in 0..k
    OBVIOUS
  <2>3. \A r \in mine[c][n] : r \in Noted(c, p, k) \/ Excused(c, p, n, r)
    <3> TAKE r \in mine[c][n]
    <3>1. r.origin \in Origin
      BY <1>1 DEF TypeOK, Record
    <3>2. plan[c][n][r.origin] = -1
      BY <1>3, <3>1 DEF Idle
    <3> QED BY <1>1, <1>3, <1>7, <2>1, <3>2 DEF Surfacing, Underway
  <2>4. Announced(c, p, n)'
    <3>1. \A i \in 1..k : /\ wire[c][p][i].rows \subseteq rows[n]
                          /\ wire[c][p][i].kind = "vector" => wire[c][p][i].rows = mine[c][n]
      BY <1>1, <2>1 DEF Surfacing, Announced
    <3>2. \A i \in 1..(k + 1) :
             /\ wire'[c][p][i].rows \subseteq rows[n]
             /\ wire'[c][p][i].kind = "vector" => wire'[c][p][i].rows = mine[c][n]
      BY <1>2, <2>1, <2>2, <3>1
    <3> QED BY <1>1, <1>3, <2>1, <3>2 DEF Surfacing, Announced
  <2>5. Delivered(c, p, n)'
    <3>1. ASSUME NEW i \in 1..(k + 1), wire'[c][p][i].kind = "done", NEW r \in mine[c][n]
          PROVE  r \in Noted(c, p, i)' \/ Excused(c, p, n, r)'
      <4>1. CASE i = k + 1
        <5>1. r \in Noted(c, p, k + 1)' \/ Excused(c, p, n, r)'
          BY <1>4, <2>1, <2>3
        <5> QED BY <4>1, <5>1
      <4>2. CASE i # k + 1
        <5>1. i \in 1..k /\ i \in 0..k /\ wire[c][p][i].kind = "done"
          BY <2>1, <2>2, <3>1, <4>2
        <5>2. r \in Noted(c, p, i) \/ Excused(c, p, n, r)
          BY <1>1, <1>7, <2>1, <5>1 DEF Surfacing, Delivered
        <5> QED BY <1>4, <2>1, <5>1, <5>2
      <4> QED BY <4>1, <4>2
    <3>2. rx[c][p] = "done" =>
             \A r \in mine[c][n] : r \in rows[p] \cup quarantine[p] \/ Excused(c, p, n, r)
      BY <1>1 DEF Surfacing, Delivered
    <3> QED BY <1>3, <1>4, <2>1, <3>1, <3>2 DEF Delivered
  <2>6. Surfacing(c, p, n)'
    BY <1>5, <2>4, <2>5 DEF Surfacing
  <2> QED BY <1>1, <1>3, <2>6, QuietStep
<1> QED BY <1>6, <1>7

\* A sender that fails sends no done frame any more.
LEMMA SenderFailsSurfacing ==
    ASSUME ForkInductive, [Next]_vars, NEW c \in Conn, NEW n \in Node, NEW p \in Node,
           WriteError(c, n, p) \/ WriteDeadline(c, n, p)
    PROVE  ForkInductive'
<1>1. TypeOK /\ Peers(c, p, n) /\ Surfacing(c, p, n)
  BY JoinedSurfacing DEF ForkInductive, Typed, WriteError, WriteDeadline
<1>2. /\ rows' = rows /\ quarantine' = quarantine /\ open' = open /\ ends' = ends
      /\ mine' = mine /\ rx' = rx /\ theirs' = theirs /\ wire' = wire /\ plan' = plan
      /\ tx' = [tx EXCEPT ![c][n] = "failed"]
  BY DEF WriteError, WriteDeadline, archives
<1>3. /\ tx'[c][n] = "failed"
      /\ \A d \in Conn, m \in Node : d # c \/ m # n => tx'[d][m] = tx[d][m]
  BY <1>1, <1>2 DEF TypeOK
<1>4. \A r : Excused(c, p, n, r) => Excused(c, p, n, r)'
  BY <1>1, <1>2, <1>3 DEF Excused, Peers
<1>5. Announced(c, p, n)' /\ Underway(c, p, n)'
  BY <1>1, <1>2, <1>3 DEF Surfacing, Announced, Underway
<1>6. Delivered(c, p, n)'
  BY <1>1, <1>2, <1>4 DEF Surfacing, Delivered, Noted
<1>7. Surfacing(c, p, n)'
  BY <1>5, <1>6 DEF Surfacing
<1> QED BY <1>1, <1>2, <1>3, <1>7, QuietStep

----------------------------------------------------------------------------
(* Reading *)

\* Reading a frame: what was one frame ahead is held or quarantined.
LEMMA ReadSurfacing ==
    ASSUME TypeOK, NEW c \in Conn, NEW n \in Node, NEW p \in Node, Surfacing(c, n, p),
           open' = open, n \in open[c], tx' = tx, mine' = mine, plan' = plan,
           wire[c][n] # <<>>, wire'[c][n] = Tail(wire[c][n]),
           \A m \in Node : rows[m] \subseteq rows'[m] /\ quarantine[m] \subseteq quarantine'[m],
           (IF Head(wire[c][n]).kind = "records" THEN Head(wire[c][n]).rows ELSE {})
               \subseteq rows'[n] \cup quarantine'[n],
           theirs'[c][n] = {} \/ theirs'[c][n] = mine[c][p],
           rx'[c][n] = "done" => rx[c][n] = "done" \/ Head(wire[c][n]).kind = "done"
    PROVE  Surfacing(c, n, p)'
<1> DEFINE frames == wire[c][n]
           rest == Tail(frames)
           table == rows[n] \cup quarantine[n]
           after == table \cup (IF Head(frames).kind = "records" THEN Head(frames).rows ELSE {})
           new == rows'[n] \cup quarantine'[n]
<1>1. frames \in Seq(Frame) /\ rest \in Seq(Frame) /\ Head(frames) = frames[1]
  <2>1. frames \in Seq(Frame)
    BY DEF TypeOK
  <2> QED BY <2>1, HeadTailProperties
<1>2. PICK k \in Nat : k = Len(rest)
  <2> HIDE DEF rest
  <2> QED BY <1>1
<1>3. /\ Len(frames) = k + 1
      /\ \A i \in 1..k : rest[i] = frames[i + 1]
      /\ \A i \in 0..k : Reached(after, rest, i) = Reached(table, frames, i + 1)
  <2> HIDE DEF table, rest, frames
  <2>1. rest = Tail(frames) /\ frames # <<>>
    BY DEF rest, frames
  <2>2. Len(frames) \in Nat
    BY <1>1
  <2>3. /\ Len(rest) = Len(frames) - 1
        /\ \A i \in 1..Len(rest) : rest[i] = frames[i + 1]
        /\ \A i \in 0..Len(rest) : Reached(after, rest, i) = Reached(table, frames, i + 1)
    BY <1>1, <2>1, ReachedTail
  <2> HIDE DEF after
  <2> QED BY <1>2, <2>2, <2>3
<1>4. \A i \in 0..k : \A r : r \in Reached(table, frames, i + 1) => r \in Reached(new, rest, i)
  <2>1. after \subseteq new
    OBVIOUS
  <2> HIDE DEF after, new, table, rest, frames
  <2> QED BY <1>3, <2>1, ReachedGrows
<1>5. /\ \A i \in 1..k : i + 1 \in 1..(k + 1)
      /\ \A i \in 1..k : i \in 0..k
      /\ k \in 0..k /\ 1 \in 1..(k + 1)
  OBVIOUS
<1>6. \A i : /\ Noted(c, n, i) = Reached(table, frames, i)
             /\ Noted(c, n, i)' = Reached(new, rest, i)
  BY DEF Noted
<1>7. wire'[c][n] = rest /\ wire[c][n] = frames
  OBVIOUS
<1>8. \A r : Excused(c, n, p, r) => Excused(c, n, p, r)'
  BY DEF Excused
<1>9. /\ tx[c][p] # "connected"
      /\ \A i \in 1..(k + 1) : /\ frames[i].rows \subseteq rows[p]
                               /\ frames[i].kind = "vector" => frames[i].rows = mine[c][p]
      /\ mine[c][p] \subseteq rows[p]
  BY <1>3 DEF Surfacing, Announced
<1>10. \A i \in 1..(k + 1) : frames[i].kind = "done" =>
          \A r \in mine[c][p] : r \in Noted(c, n, i) \/ Excused(c, n, p, r)
  BY <1>3 DEF Surfacing, Delivered
<1>11. Underway(c, n, p)'
  <2> SUFFICES ASSUME tx[c][p] = "sending", NEW r \in mine[c][p]
               PROVE  \/ r \in Reached(new, rest, k)
                      \/ plan[c][p][r.origin] >= 0 /\ r.seq > plan[c][p][r.origin]
                      \/ Excused(c, n, p, r)'
    BY <1>2 DEF Underway, Noted
  <2>1. \/ r \in Reached(table, frames, k + 1)
        \/ plan[c][p][r.origin] >= 0 /\ r.seq > plan[c][p][r.origin]
        \/ Excused(c, n, p, r)
    BY <1>3 DEF Surfacing, Underway, Noted
  <2> HIDE DEF new, rest, frames, table
  <2> QED BY <1>4, <1>5, <1>8, <2>1
<1>12. rx[c][n] = "done" =>
          \A r \in mine[c][p] : r \in rows[n] \cup quarantine[n] \/ Excused(c, n, p, r)
  BY DEF Surfacing, Delivered
<1>13. table \subseteq new
  OBVIOUS
<1>14. Reached(table, frames, 1) \subseteq new
  <2>1. \A j \in 1..1 : j = 1
    OBVIOUS
  <2> QED BY <1>1, <1>13, <2>1, ReachedMember
<1> HIDE DEF new, rest, frames, table, after
<1>15. Delivered(c, n, p)'
  <2>1. rx'[c][n] = "done" => \A r \in mine[c][p] : r \in new \/ Excused(c, n, p, r)'
    <3>1. CASE rx[c][n] = "done"
      BY <1>8, <1>12, <1>13, <3>1 DEF table
    <3>2. CASE Head(wire[c][n]).kind = "done"
      <4>1. frames[1].kind = "done"
        BY <1>1, <3>2 DEF frames
      <4>2. \A r \in mine[c][p] : r \in Noted(c, n, 1) \/ Excused(c, n, p, r)
        BY <1>5, <1>10, <4>1
      <4> QED BY <1>6, <1>8, <1>14, <4>2
    <3> QED BY <3>1, <3>2
  <2>2. \A i \in 1..k : rest[i].kind = "done" =>
           \A r \in mine[c][p] : r \in Reached(new, rest, i) \/ Excused(c, n, p, r)'
    BY <1>3, <1>4, <1>5, <1>6, <1>8, <1>10
  <2> QED BY <1>2, <1>6, <1>7, <2>1, <2>2 DEF Delivered, new
<1>16. Announced(c, n, p)'
  <2>1. \A i \in 1..k : /\ rest[i].rows \subseteq rows'[p]
                        /\ rest[i].kind = "vector" => rest[i].rows = mine[c][p]
    BY <1>3, <1>5, <1>9
  <2> QED BY <1>2, <1>7, <1>9, <2>1 DEF Announced
<1> QED BY <1>11, <1>15, <1>16 DEF Surfacing

\* The receiver's steps: the announcement, a batch, the done frame.
LEMMA ReceiveSurfacing ==
    ASSUME LinesApart, ForkInductive, [Next]_vars, NEW c \in Conn, NEW n \in Node,
           ReceiveVector(c, n) \/ ReceiveRecords(c, n) \/ ReceiveDone(c, n)
    PROVE  ForkInductive'
<1> DEFINE f == Head(wire[c][n])
           batch == f.rows
<1>1. TypeOK /\ KeysInductive /\ Typed' /\ Authored
  BY TypedNext DEF ForkInductive, Typed
<1>2. /\ n \in open[c] /\ wire[c][n] # <<>> /\ wire' = [wire EXCEPT ![c][n] = Tail(@)]
      /\ open' = open /\ ends' = ends /\ mine' = mine /\ tx' = tx /\ plan' = plan
  BY DEF ReceiveVector, ReceiveRecords, ReceiveDone, Incoming, Reading
<1>3. PICK p \in Node : Peers(c, n, p) /\ Surfacing(c, n, p)
  BY <1>2, BothWays
<1>4. f = wire[c][n][1] /\ 1 \in 1..Len(wire[c][n])
  <2>1. wire[c][n] \in Seq(Frame)
    BY <1>1 DEF TypeOK
  <2> QED BY <1>2, <2>1, HeadTailProperties, EmptySeq
<1>5. batch \in SUBSET rows[p] /\ (f.kind = "vector" => batch = mine[c][p])
  BY <1>3, <1>4 DEF Surfacing, Announced
<1>6. /\ wire'[c][n] = Tail(wire[c][n])
      /\ \A d \in Conn, m \in Node : d # c \/ m # n => wire'[d][m] = wire[d][m]
  BY <1>1, <1>2 DEF TypeOK
<1>7. /\ \A d \in Conn, m \in Node : d # c \/ m # n =>
            theirs'[d][m] = theirs[d][m] /\ rx'[d][m] = rx[d][m]
      /\ theirs'[c][n] = {} \/ theirs'[c][n] = mine[c][p]
      /\ rx'[c][n] = "done" => rx[c][n] = "done" \/ f.kind = "done"
  <2>1. theirs[c][n] = {} \/ theirs[c][n] = mine[c][p]
    BY <1>3 DEF Surfacing, Announced
  <2>2. CASE ReceiveVector(c, n)
    BY <1>1, <1>5, <2>1, <2>2 DEF TypeOK, ReceiveVector, Incoming
  <2>3. CASE ReceiveRecords(c, n)
    BY <2>1, <2>3 DEF ReceiveRecords
  <2>4. CASE ReceiveDone(c, n)
    BY <1>1, <2>1, <2>4 DEF TypeOK, ReceiveDone, Incoming
  <2> QED BY <2>2, <2>3, <2>4
<1>8. /\ Authored' /\ \A m \in Node : IsFiniteSet(rows'[m])
      /\ \A m \in Node : rows[m] \subseteq rows'[m] /\ quarantine[m] \subseteq quarantine'[m]
      /\ f.kind = "records" => batch \subseteq rows'[n] \cup quarantine'[n]
  <2>1. CASE ReceiveRecords(c, n)
    <3>1. /\ rows' = [rows EXCEPT ![n] = @ \cup Insertable(@, batch)]
          /\ quarantine' = [quarantine EXCEPT ![n] = @ \cup ForkEvidence(rows[n], batch)]
      BY <2>1 DEF ReceiveRecords
    <3> HIDE DEF batch
    <3>2. /\ rows'[n] = rows[n] \cup Insertable(rows[n], batch)
          /\ quarantine'[n] = quarantine[n] \cup ForkEvidence(rows[n], batch)
          /\ \A m \in Node : quarantine[m] \subseteq quarantine'[m]
      BY <1>1, <3>1 DEF TypeOK
    <3>3. /\ Authored' /\ \A m \in Node : IsFiniteSet(rows'[m])
          /\ \A m \in Node : rows[m] \subseteq rows'[m]
      BY <1>5, <3>1, BatchKept
    <3>4. \A r \in batch : r \in rows'[n] \cup quarantine'[n]
      BY <1>1, <1>5, <3>2, BatchNoted
    <3> QED BY <3>2, <3>3, <3>4
  <2>2. CASE ~ ReceiveRecords(c, n)
    <3>1. rows' = rows /\ quarantine' = quarantine /\ f.kind # "records"
      BY <2>2 DEF ReceiveVector, ReceiveDone, Incoming, archives
    <3> QED BY <3>1, TablesKept
  <2> QED BY <2>1, <2>2
<1>9. Surfacing(c, n, p)'
  <2>1. (IF f.kind = "records" THEN f.rows ELSE {}) \subseteq rows'[n] \cup quarantine'[n]
    BY <1>8
  <2> QED BY <1>1, <1>2, <1>3, <1>6, <1>7, <1>8, <2>1, ReadSurfacing
<1> HIDE DEF f, batch
<1>10. /\ Pairs'
       /\ \A d \in Conn, k, m \in Node : Peers(d, k, m)' => Surfacing(d, k, m)'
  BY <1>2, <1>3, <1>6, <1>7, <1>8, <1>9, OneSurfacing
<1> QED BY <1>1, <1>8, <1>10 DEF ForkInductive

\* A receiver that stops before the done frame promises nothing.
LEMMA ReceiverStopsSurfacing ==
    ASSUME ForkInductive, [Next]_vars, NEW c \in Conn, NEW n \in Node, NEW p \in Node,
           ReadError(c, n) \/ ReceiveEOF(c, n, p) \/ ReadDeadline(c, n, p)
    PROVE  ForkInductive'
<1>1. TypeOK /\ n \in open[c]
  BY DEF ForkInductive, Typed, ReadError, ReceiveEOF, ReadDeadline, Reading
<1>2. PICK q \in Node : Peers(c, n, q) /\ Surfacing(c, n, q)
  BY <1>1, BothWays
<1>3. /\ rows' = rows /\ quarantine' = quarantine /\ open' = open /\ ends' = ends
      /\ mine' = mine /\ tx' = tx /\ theirs' = theirs /\ wire' = wire /\ plan' = plan
      /\ rx' = [rx EXCEPT ![c][n] = "eof"] \/ rx' = [rx EXCEPT ![c][n] = "failed"]
  BY DEF ReadError, ReceiveEOF, ReadDeadline, archives
<1>4. /\ rx'[c][n] # "done"
      /\ \A d \in Conn, m \in Node : d # c \/ m # n => rx'[d][m] = rx[d][m]
  BY <1>1, <1>3 DEF TypeOK
<1>5. \A r : Excused(c, n, q, r) => Excused(c, n, q, r)'
  BY <1>3 DEF Excused
<1>6. Announced(c, n, q)'
  BY <1>2, <1>3, <1>4 DEF Surfacing, Announced
<1>7. Underway(c, n, q)'
  BY <1>2, <1>3, <1>5 DEF Surfacing, Underway, Noted
<1>8. Delivered(c, n, q)'
  BY <1>2, <1>3, <1>4, <1>5 DEF Surfacing, Delivered, Noted
<1>9. Surfacing(c, n, q)'
  BY <1>6, <1>7, <1>8 DEF Surfacing
<1> QED BY <1>2, <1>3, <1>4, <1>9, QuietStep

\* Hanging up drops what was on its way and forgets what was announced.
LEMMA HangupSurfacing ==
    ASSUME ForkInductive, [Next]_vars, NEW c \in Conn, NEW n \in Node, Abort(c, n) \/ Leave(c, n)
    PROVE  ForkInductive'
<1>1. TypeOK /\ n \in open[c]
  BY DEF ForkInductive, Typed, Abort, Leave
<1>2. /\ rows' = rows /\ quarantine' = quarantine /\ ends' = ends /\ mine' = mine
      /\ open' = [open EXCEPT ![c] = @ \ {n}]
      /\ wire' = [wire EXCEPT ![c][n] = <<>>]
      /\ theirs' = [theirs EXCEPT ![c][n] = {}]
      /\ plan' = [plan EXCEPT ![c][n] = Idle]
      /\ tx' = tx \/ tx' = [tx EXCEPT ![c][n] = "failed"]
      /\ rx' = rx \/ rx' = [rx EXCEPT ![c][n] = "failed"]
  BY DEF Abort, Leave, Hangup, archives
<1>3. Typed' /\ Authored' /\ \A m \in Node : IsFiniteSet(rows'[m])
  BY <1>2, TypedNext, TablesKept DEF ForkInductive
<1>4. \A d \in Conn : open'[d] \subseteq open[d]
  BY <1>1, <1>2 DEF TypeOK
<1>5. Pairs'
  BY <1>2, <1>4 DEF ForkInductive, Pairs
\* The node that hangs up is no longer sent to, and has stopped sending.
<1>6. n \notin open'[c] /\ tx'[c][n] # "sending" /\ tx'[c][n] # "connected"
  BY <1>1, <1>2 DEF TypeOK, Abort, Leave
<1>7. ASSUME NEW d \in Conn, NEW k \in Node, NEW m \in Node, Peers(d, k, m)'
      PROVE  Surfacing(d, k, m)'
  <2>1. Peers(d, k, m) /\ Surfacing(d, k, m)
    BY <1>2, <1>7 DEF Peers, ForkInductive
  <2>2. tx[d][k] # "connected" => tx'[d][k] # "connected" /\ mine'[d][k] = mine[d][k]
    <3> SUFFICES ASSUME tx[d][k] # "connected"
                 PROVE  tx'[d][k] # "connected" /\ mine'[d][k] = mine[d][k]
      OBVIOUS
    <3>1. tx \in [Conn -> [Node -> TxState]]
      BY <1>1 DEF TypeOK
    <3>2. CASE d = c /\ k = n
      BY <1>2, <1>6, <3>2
    <3>3. CASE d # c \/ k # n
      <4>1. CASE tx' = tx
        BY <1>2, <4>1
      <4>2. CASE tx' = [tx EXCEPT ![c][n] = "failed"]
        BY <1>2, <3>1, <3>3, <4>2
      <4> QED BY <1>2, <4>1, <4>2
    <3> QED BY <3>2, <3>3
  <2>3. CASE ~ (d = c /\ k = n) /\ ~ (d = c /\ m = n)
    <3>1. /\ mine'[d][m] = mine[d][m] /\ tx'[d][m] = tx[d][m]
          /\ plan'[d][m] = plan[d][m] /\ theirs'[d][k] = theirs[d][k]
          /\ rx'[d][k] = rx[d][k] /\ wire'[d][k] = wire[d][k]
      BY <1>1, <1>2, <2>3 DEF TypeOK
    <3> QED BY <1>2, <1>4, <2>1, <2>2, <3>1, SurfacingKept
  <2>4. \A r : Excused(d, k, m, r) => Excused(d, k, m, r)'
    BY <1>2, <2>2 DEF Excused
  <2>5. CASE d = c /\ k = n
    <3>1. /\ wire'[d][k] = <<>> /\ theirs'[d][k] = {} /\ k \notin open'[d]
          /\ tx'[d][m] = tx[d][m]
          /\ rx'[d][k] = "done" => rx[d][k] = "done"
      BY <1>1, <1>2, <1>6, <2>1, <2>5 DEF TypeOK, Peers
    <3>2. \A i \in 1..Len(wire'[d][k]) : FALSE
      BY <3>1, EmptySeq
    <3>3. Announced(d, k, m)'
      BY <1>2, <2>1, <3>1, <3>2 DEF Surfacing, Announced
    <3>4. Underway(d, k, m)'
      BY <3>1 DEF Underway
    <3>5. Delivered(d, k, m)'
      BY <1>2, <2>1, <2>4, <3>1, <3>2 DEF Surfacing, Delivered
    <3> QED BY <3>3, <3>4, <3>5 DEF Surfacing
  <2>6. CASE d = c /\ m = n
    <3>1. /\ tx'[d][m] # "sending" /\ tx'[d][m] # "connected"
          /\ theirs'[d][k] = theirs[d][k] /\ wire'[d][k] = wire[d][k]
          /\ rx'[d][k] = rx[d][k] /\ (k \in open'[d] => k \in open[d])
      BY <1>1, <1>2, <1>4, <1>6, <2>1, <2>6 DEF TypeOK, Peers
    <3>2. Announced(d, k, m)' /\ Underway(d, k, m)'
      BY <1>2, <2>1, <3>1 DEF Surfacing, Announced, Underway
    <3>3. Delivered(d, k, m)'
      BY <1>2, <2>1, <2>4, <3>1 DEF Surfacing, Delivered, Noted
    <3> QED BY <3>2, <3>3 DEF Surfacing
  <2> QED BY <2>3, <2>5, <2>6
<1> QED BY <1>3, <1>5, <1>7 DEF ForkInductive

\* A new connection: nothing is announced, nothing on its way.
LEMMA ConnectSurfacing ==
    ASSUME ForkInductive, [Next]_vars, NEW c \in Conn, NEW pair \in Pair, Connect(c, pair)
    PROVE  ForkInductive'
<1>1. TypeOK
  BY DEF ForkInductive, Typed
<1>2. PICK a \in Node, b \in Node : pair = {a, b} /\ a # b
  BY ReachableAssumption DEF Pair
<1>3. rows' = rows /\ quarantine' = quarantine
  BY DEF Connect, archives
<1>4. Typed' /\ Authored' /\ \A m \in Node : IsFiniteSet(rows'[m])
  BY <1>3, TypedNext, TablesKept DEF ForkInductive
<1>5. Pairs'
  <2>1. \A d \in Conn : ends'[d] = IF d = c THEN {a, b} ELSE ends[d]
    BY <1>1, <1>2 DEF TypeOK, Connect
  <2>2. \A d \in Conn : open'[d] = IF d = c THEN {a, b} ELSE open[d]
    BY <1>1, <1>2 DEF TypeOK, Connect
  <2> QED BY <1>2, <2>1, <2>2 DEF ForkInductive, Pairs
<1>6. ASSUME NEW d \in Conn, NEW n \in Node, NEW p \in Node, Peers(d, n, p)'
      PROVE  Surfacing(d, n, p)'
  <2>1. CASE d = c
    <3>1. /\ tx'[d][p] = "connected" /\ rx'[d][n] = "waiting" /\ mine'[d][p] = {}
          /\ theirs'[d][n] = {} /\ wire'[d][n] = <<>>
      BY <1>1, <2>1 DEF TypeOK, Connect
    <3>2. \A i \in 1..Len(wire'[d][n]) : FALSE
      BY <3>1, EmptySeq
    <3>3. Announced(d, n, p)'
      BY <3>1, <3>2 DEF Announced
    <3>4. Underway(d, n, p)' /\ Delivered(d, n, p)'
      BY <3>1, <3>2 DEF Underway, Delivered
    <3> QED BY <3>3, <3>4 DEF Surfacing
  <2>2. CASE d # c
    <3>1. Surfacing(d, n, p) /\ (n \in open'[d] => n \in open[d])
      BY <1>1, <1>6, <2>2 DEF ForkInductive, TypeOK, Peers, Connect
    <3>2. /\ mine'[d][p] = mine[d][p] /\ tx'[d][p] = tx[d][p]
          /\ plan'[d][p] = plan[d][p] /\ theirs'[d][n] = theirs[d][n]
          /\ rx'[d][n] = rx[d][n] /\ wire'[d][n] = wire[d][n]
          /\ tx'[d][n] = tx[d][n] /\ mine'[d][n] = mine[d][n]
      BY <1>1, <2>2 DEF TypeOK, Connect
    <3> QED BY <1>3, <3>1, <3>2, SurfacingKept
  <2> QED BY <2>1, <2>2
<1> QED BY <1>4, <1>5, <1>6 DEF ForkInductive

\* No connection takes part in a local append, or in a stuttering step.
LEMMA ApartSurfacing ==
    ASSUME ForkInductive, [Next]_vars,
           Authored', \A m \in Node : IsFiniteSet(rows'[m]),
           \A m \in Node : rows[m] \subseteq rows'[m],
           UNCHANGED <<quarantine, ends, open, tx, rx, mine, theirs, plan, wire>>
    PROVE  ForkInductive'
<1>1. Typed' /\ Pairs'
  BY TypedNext DEF ForkInductive, Pairs
<1>2. ASSUME NEW c \in Conn, NEW n \in Node, NEW p \in Node, Peers(c, n, p)'
      PROVE  Surfacing(c, n, p)'
  <2>1. Surfacing(c, n, p)
    BY <1>2 DEF ForkInductive, Peers
  <2> QED BY <2>1, SurfacingKept
<1> QED BY <1>1, <1>2 DEF ForkInductive

\* No connection, no record.
LEMMA InitSurfacing == Init => ForkInductive
<1> SUFFICES ASSUME Init PROVE ForkInductive
  OBVIOUS
<1>1. Typed
  BY TypedInit
<1>2. Pairs /\ Authored /\ \A n \in Node : IsFiniteSet(rows[n])
  BY FS_EmptySet DEF Init, Pairs, Authored
<1>3. \A c \in Conn, n, p \in Node : ~Peers(c, n, p)
  BY DEF Init, Peers
<1> QED BY <1>1, <1>2, <1>3 DEF ForkInductive

\* Every step keeps the invariant.
LEMMA NextSurfacing ==
    ASSUME LinesApart, ForkInductive, [Next]_vars
    PROVE  ForkInductive'
<1>1. ASSUME NEW n \in Node, NEW lines \in LocalBatch(n), AppendLocal(n, lines)
      PROVE  ForkInductive'
  <2>1. /\ Authored' /\ \A m \in Node : IsFiniteSet(rows'[m])
        /\ \A m \in Node : rows[m] \subseteq rows'[m]
    BY <1>1, LocalKept
  <2>2. UNCHANGED <<quarantine, ends, open, tx, rx, mine, theirs, plan, wire>>
    BY <1>1 DEF AppendLocal
  <2> QED BY <2>1, <2>2, ApartSurfacing
<1>2. ASSUME NEW c \in Conn, NEW pair \in Pair, Connect(c, pair)
      PROVE  ForkInductive'
  BY <1>2, ConnectSurfacing
<1>3. ASSUME NEW c \in Conn, NEW n \in Node, Sender(c, n)
      PROVE  ForkInductive'
  BY <1>3, StartSendSurfacing, EndOriginSurfacing, AnnounceSurfacing, SendBatchSurfacing,
     SendDoneSurfacing, SenderFailsSurfacing DEF Sender
<1>4. ASSUME NEW c \in Conn, NEW n \in Node, Receiver(c, n)
      PROVE  ForkInductive'
  BY <1>4, ReceiveSurfacing, ReceiverStopsSurfacing DEF Receiver
<1>5. ASSUME NEW c \in Conn, NEW n \in Node, Failure(c, n) \/ Leave(c, n)
      PROVE  ForkInductive'
  BY <1>5, ReceiverStopsSurfacing, SenderFailsSurfacing, HangupSurfacing DEF Failure
<1>6. CASE UNCHANGED vars
  <2>1. /\ Authored' /\ \A m \in Node : IsFiniteSet(rows'[m])
        /\ \A m \in Node : rows[m] \subseteq rows'[m]
    BY <1>6, TablesKept DEF vars
  <2>2. UNCHANGED <<quarantine, ends, open, tx, rx, mine, theirs, plan, wire>>
    BY <1>6 DEF vars
  <2> QED BY <2>1, <2>2, ApartSurfacing
<1> QED BY <1>1, <1>2, <1>3, <1>4, <1>5, <1>6 DEF Next

\* Two nodes that each collect lines of their own under one origin id: an exchange
\* that ends with a done frame leaves each with every record the other announced,
\* in its table or in its quarantine, for each bucket the counts do not excuse.
THEOREM ForksSurface ==
    ASSUME LinesApart
    PROVE  Spec => []ForkSurfaced
<1>1. Init => ForkInductive
  BY InitSurfacing
<1>2. ForkInductive /\ [Next]_vars => ForkInductive'
  BY NextSurfacing
<1>3. ForkInductive => ForkSurfaced
  <2> SUFFICES ASSUME ForkInductive, NEW c \in Conn, NEW n \in Node, NEW p \in Node,
                      NEW o \in Origin, ends[c] = {n, p}, n # p, rx[c][n] = "done",
                      NEW r \in OfOrigin(mine[c][p], o),
                      Cardinality(InBucket(mine[c][p], o, Bucket(r)))
                          = Cardinality(InBucket(mine[c][n], o, Bucket(r)))
               PROVE  r \in rows[n] \cup quarantine[n]
    BY DEF ForkSurfaced
  <2>1. Surfacing(c, n, p)
    BY DEF ForkInductive, Peers
  <2>2. r \in mine[c][p] /\ r.origin = o
    BY DEF OfOrigin
  <2> QED BY <2>1, <2>2 DEF Surfacing, Delivered, Excused
<1> QED BY <1>1, <1>2, <1>3, PTL DEF Spec

----------------------------------------------------------------------------
(* Any origin ids: what is quarantined is evidence *)

\* A record that a node with its origin id holds.
Held(r) == \E m \in Node : OriginOf[m] = r.origin /\ r \in rows[m]

\* Two nodes hold, each under its own origin id and both under the same, different
\* lines with one number.
Contradicted(r) ==
    \E m, k \in Node :
        /\ m # k /\ OriginOf[m] = r.origin /\ OriginOf[k] = r.origin
        /\ r \in rows[m]
        /\ \E h \in rows[k] : h.origin = r.origin /\ h.seq = r.seq /\ h.line # r.line

\* Whatever is held, or on its way, its author holds; whatever is quarantined is
\* evidence.
Attributed ==
    /\ KeysInductive
    /\ quarantine \in [Node -> SUBSET Record]
    /\ \A n \in Node : \A r \in rows[n] : Held(r)
    /\ \A c \in Conn, n \in Node : \A i \in 1..Len(wire[c][n]) :
          \A r \in wire[c][n][i].rows : Held(r)
    /\ \A n \in Node : \A r \in quarantine[n] : Contradicted(r)

\* Tables only grow, so that whatever is once held or contradicted stays so.
LEMMA EvidenceStays ==
    ASSUME \A n \in Node : rows[n] \subseteq rows'[n]
    PROVE  /\ \A r : Held(r) => Held(r)'
           /\ \A r : Contradicted(r) => Contradicted(r)'
<1>1. ASSUME NEW r, Held(r) PROVE Held(r)'
  BY <1>1 DEF Held
<1>2. ASSUME NEW r, Contradicted(r) PROVE Contradicted(r)'
  BY <1>2 DEF Contradicted
<1> QED BY <1>1, <1>2

\* A frame is written with records its sender holds, or read.
LEMMA FramesAttributed ==
    ASSUME KeysInductive, [Next]_vars
    PROVE  \A c \in Conn, n \in Node : \A i \in 1..Len(wire'[c][n]) :
              \/ \E j \in 1..Len(wire[c][n]) : wire'[c][n][i] = wire[c][n][j]
              \/ \E p \in Node : wire'[c][n][i].rows \subseteq rows[p]
<1> DEFINE Sound(c, n) ==
              \A i \in 1..Len(wire'[c][n]) :
                 \/ \E j \in 1..Len(wire[c][n]) : wire'[c][n][i] = wire[c][n][j]
                 \/ \E p \in Node : wire'[c][n][i].rows \subseteq rows[p]
<1> SUFFICES ASSUME NEW d \in Conn, NEW m \in Node PROVE Sound(d, m)
  OBVIOUS
<1>0. wire \in [Conn -> [Node -> Seq(Frame)]] /\ wire[d][m] \in Seq(Frame)
  BY DEF KeysInductive
<1>1. ASSUME wire'[d][m] = wire[d][m] PROVE Sound(d, m)
  BY <1>1
<1>2. ASSUME wire'[d][m] = <<>> PROVE Sound(d, m)
  <2>1. \A i \in 1..Len(<<>>) : FALSE
    BY EmptySeq
  <2> QED BY <1>2, <2>1
<1>3. ASSUME NEW c \in Conn, NEW p \in Node, NEW f \in Frame, Post(c, p, f),
             NEW n \in Node, f.rows \subseteq rows[n]
      PROVE  Sound(d, m)
  <2>1. CASE wire'[d][m] = wire[d][m]
    BY <1>1, <2>1
  <2>2. CASE wire'[d][m] # wire[d][m]
    <3>1. wire'[d][m] = Append(wire[d][m], f)
      BY <1>0, <1>3, <2>2 DEF Post
    <3>2. /\ Len(wire'[d][m]) = Len(wire[d][m]) + 1 /\ Len(wire[d][m]) \in Nat
          /\ wire'[d][m][Len(wire[d][m]) + 1] = f
          /\ \A i \in 1..Len(wire[d][m]) : wire'[d][m][i] = wire[d][m][i]
      BY <1>0, <3>1, AppendProperties
    <3>3. \A i \in 1..Len(wire'[d][m]) : i \in 1..Len(wire[d][m]) \/ i = Len(wire[d][m]) + 1
      BY <3>2
    <3> QED BY <1>3, <3>2, <3>3
  <2> QED BY <2>1, <2>2
<1>4. ASSUME NEW c \in Conn, NEW n \in Node, NEW kind, Incoming(c, n, kind)
      PROVE  Sound(d, m)
  <2>1. CASE wire'[d][m] = wire[d][m]
    BY <1>1, <2>1
  <2>2. CASE wire'[d][m] # wire[d][m]
    <3>1. wire'[d][m] = Tail(wire[d][m]) /\ wire[d][m] # <<>>
      BY <1>0, <1>4, <2>2 DEF Incoming
    <3>2. /\ Len(wire[d][m]) \in Nat /\ Len(Tail(wire[d][m])) = Len(wire[d][m]) - 1
          /\ \A i \in 1..Len(Tail(wire[d][m])) : Tail(wire[d][m])[i] = wire[d][m][i + 1]
      BY <1>0, <3>1, HeadTailProperties
    <3>3. \A i \in 1..Len(Tail(wire[d][m])) : i + 1 \in 1..Len(wire[d][m])
      BY <3>2
    <3> QED BY <3>1, <3>2, <3>3
  <2> QED BY <2>1, <2>2
<1>5. ASSUME NEW c \in Conn, NEW n \in Node, Hangup(c, n) PROVE Sound(d, m)
  <2>1. wire'[d][m] = wire[d][m] \/ wire'[d][m] = <<>>
    BY <1>0, <1>5 DEF Hangup
  <2> QED BY <1>1, <1>2, <2>1
<1>6. ASSUME NEW n \in Node, NEW lines \in LocalBatch(n), AppendLocal(n, lines)
      PROVE  Sound(d, m)
  <2>1. wire' = wire
    BY <1>6 DEF AppendLocal
  <2> QED BY <1>1, <2>1
<1>7. ASSUME NEW c \in Conn, NEW pair \in Pair, Connect(c, pair)
      PROVE  Sound(d, m)
  <2>1. wire'[d][m] = wire[d][m] \/ wire'[d][m] = <<>>
    BY <1>0, <1>7 DEF Connect
  <2> QED BY <1>1, <1>2, <2>1
<1>8. ASSUME NEW c \in Conn, NEW n \in Node, Sender(c, n) PROVE Sound(d, m)
  <2>1. ASSUME NEW p \in Node, Announce(c, n, p) PROVE Sound(d, m)
    <3>1. PICK f : f = [kind |-> "vector", rows |-> rows[n]]
      OBVIOUS
    <3>2. f \in Frame /\ f.rows \subseteq rows[n] /\ Post(c, p, f)
      BY <2>1, <3>1 DEF Announce, Frame, KeysInductive
    <3> QED BY <1>3, <3>2
  <2>2. ASSUME NEW p \in Node, NEW o \in Origin, SendBatch(c, n, p, o) PROVE Sound(d, m)
    <3>1. PICK f : f = [kind |-> "records",
                        rows |-> Since(rows[n], o, plan[c][n][o], BatchSize)]
      OBVIOUS
    <3>2. Post(c, p, f)
      BY <2>2, <3>1 DEF SendBatch
    <3>3. f.rows \subseteq rows[n] /\ rows[n] \subseteq Record
      BY <3>1 DEF Since, OfOrigin, KeysInductive
    <3>4. f \in Frame
      BY <3>1, <3>3 DEF Frame
    <3> QED BY <1>3, <3>2, <3>3, <3>4
  <2>3. ASSUME NEW p \in Node, SendDone(c, n, p) PROVE Sound(d, m)
    <3>1. PICK f : f = [kind |-> "done", rows |-> {}]
      OBVIOUS
    <3>2. f \in Frame /\ f.rows \subseteq rows[n] /\ Post(c, p, f)
      BY <2>3, <3>1 DEF SendDone, Frame
    <3> QED BY <1>3, <3>2
  <2>4. ASSUME NEW p \in Node, NEW o \in Origin,
               StartSend(c, n) \/ EndOrigin(c, n, o) \/ WriteDeadline(c, n, p)
        PROVE  Sound(d, m)
    <3>1. wire' = wire
      BY <2>4 DEF StartSend, EndOrigin, WriteDeadline
    <3> QED BY <1>1, <3>1
  <2>5. OriginOf[n] \in Origin
    BY OriginAssumption
  <2> HIDE DEF Sound
  <2> QED BY <1>8, <2>1, <2>2, <2>3, <2>4, <2>5 DEF Sender
<1>9. ASSUME NEW c \in Conn, NEW n \in Node, Receiver(c, n) PROVE Sound(d, m)
  <2>1. ASSUME ReceiveVector(c, n) \/ ReceiveRecords(c, n) \/ ReceiveDone(c, n)
        PROVE  Sound(d, m)
    <3>1. \E kind : Incoming(c, n, kind)
      BY <2>1 DEF ReceiveVector, ReceiveRecords, ReceiveDone
    <3> QED BY <1>4, <3>1
  <2>2. ASSUME NEW p \in Node, ReceiveEOF(c, n, p) \/ ReadDeadline(c, n, p)
        PROVE  Sound(d, m)
    <3>1. wire' = wire
      BY <2>2 DEF ReceiveEOF, ReadDeadline
    <3> QED BY <1>1, <3>1
  <2> HIDE DEF Sound
  <2> QED BY <1>9, <2>1, <2>2 DEF Receiver
<1>10. ASSUME NEW c \in Conn, NEW n \in Node, Failure(c, n) \/ Leave(c, n)
       PROVE  Sound(d, m)
  <2>1. ASSUME Abort(c, n) \/ Leave(c, n) PROVE Sound(d, m)
    BY <1>5, <2>1 DEF Abort, Leave
  <2>2. ASSUME NEW p \in Node, ReadError(c, n) \/ WriteError(c, n, p) PROVE Sound(d, m)
    <3>1. wire' = wire
      BY <2>2 DEF ReadError, WriteError
    <3> QED BY <1>1, <3>1
  <2> HIDE DEF Sound
  <2> QED BY <1>10, <2>1, <2>2 DEF Failure
<1>11. CASE UNCHANGED vars
  BY <1>1, <1>11 DEF vars
<1> HIDE DEF Sound
<1> QED BY <1>6, <1>7, <1>8, <1>9, <1>10, <1>11 DEF Next

\* What a step adds to a table is the node's own or stands in a frame, and what it
\* adds to a quarantine contradicts the table.
LEMMA TablesAttributed ==
    ASSUME KeysInductive, quarantine \in [Node -> SUBSET Record], [Next]_vars
    PROVE  /\ quarantine' \in [Node -> SUBSET Record]
           /\ \A n \in Node :
                 /\ rows[n] \subseteq rows'[n]
                 /\ \A r \in rows'[n] \ rows[n] :
                       \/ r.origin = OriginOf[n]
                       \/ \E c \in Conn : \E i \in 1..Len(wire[c][n]) : r \in wire[c][n][i].rows
                 /\ \A r \in quarantine'[n] \ quarantine[n] :
                       /\ \E c \in Conn : \E i \in 1..Len(wire[c][n]) : r \in wire[c][n][i].rows
                       /\ \E h \in rows[n] : h.origin = r.origin /\ h.seq = r.seq /\ h.line # r.line
<1> DEFINE Framed(n, r) == \E c \in Conn : \E i \in 1..Len(wire[c][n]) : r \in wire[c][n][i].rows
           Against(n, r) == \E h \in rows[n] :
                               h.origin = r.origin /\ h.seq = r.seq /\ h.line # r.line
           Sound == /\ quarantine' \in [Node -> SUBSET Record]
                    /\ \A n \in Node :
                          /\ rows[n] \subseteq rows'[n]
                          /\ \A r \in rows'[n] \ rows[n] : r.origin = OriginOf[n] \/ Framed(n, r)
                          /\ \A r \in quarantine'[n] \ quarantine[n] : Framed(n, r) /\ Against(n, r)
<1> SUFFICES Sound
  OBVIOUS
<1>0. rows \in [Node -> SUBSET Record] /\ wire \in [Conn -> [Node -> Seq(Frame)]]
  BY DEF KeysInductive
<1>1. ASSUME UNCHANGED archives PROVE Sound
  BY <1>1 DEF archives
<1>2. ASSUME NEW n \in Node, NEW lines \in LocalBatch(n), AppendLocal(n, lines)
      PROVE  Sound
  <2> DEFINE new == WithLocal(rows[n], OriginOf[n], lines)
  <2>1. rows' = [rows EXCEPT ![n] = new] /\ quarantine' = quarantine
    BY <1>2 DEF AppendLocal
  <2>2. rows[n] \subseteq new /\ \A r \in new \ rows[n] : r.origin = OriginOf[n]
    BY DEF WithLocal
  <2> HIDE DEF new
  <2> QED BY <1>0, <2>1, <2>2
<1>3. ASSUME NEW c \in Conn, NEW n \in Node, ReceiveRecords(c, n)
      PROVE  Sound
  <2> DEFINE batch == Head(wire[c][n]).rows
  <2>1. /\ wire[c][n] # <<>>
        /\ rows' = [rows EXCEPT ![n] = @ \cup Insertable(@, batch)]
        /\ quarantine' = [quarantine EXCEPT ![n] = @ \cup ForkEvidence(rows[n], batch)]
    BY <1>3 DEF ReceiveRecords, Incoming
  <2>2. /\ Head(wire[c][n]) = wire[c][n][1] /\ 1 \in 1..Len(wire[c][n])
        /\ Head(wire[c][n]) \in Frame
    BY <1>0, <2>1, HeadTailProperties, EmptySeq
  <2>3. batch \subseteq Record /\ \A r \in batch : Framed(n, r)
    BY <2>2 DEF Frame
  <2>4. Insertable(rows[n], batch) \subseteq batch
    BY DEF Insertable
  <2>5. ForkEvidence(rows[n], batch) \subseteq batch
        /\ \A r \in ForkEvidence(rows[n], batch) : Against(n, r)
    BY DEF ForkEvidence
  <2> HIDE DEF batch, Framed, Against
  <2> QED BY <1>0, <2>1, <2>3, <2>4, <2>5
<1>4. ASSUME NEW c \in Conn, NEW pair \in Pair, Connect(c, pair) PROVE Sound
  BY <1>1, <1>4 DEF Connect
<1> HIDE DEF Sound
<1>5. ASSUME NEW c \in Conn, NEW n \in Node, Sender(c, n) PROVE Sound
  <2>1. UNCHANGED archives
    BY <1>5 DEF Sender, Announce, StartSend, SendBatch, EndOrigin, SendDone, WriteDeadline
  <2> QED BY <1>1, <2>1
<1>6. ASSUME NEW c \in Conn, NEW n \in Node, Receiver(c, n) PROVE Sound
  <2>1. CASE ReceiveRecords(c, n)
    BY <1>3, <2>1
  <2>2. CASE ~ReceiveRecords(c, n)
    <3>1. UNCHANGED archives
      BY <1>6, <2>2 DEF Receiver, ReceiveVector, ReceiveDone, ReceiveEOF, ReadDeadline
    <3> QED BY <1>1, <3>1
  <2> QED BY <2>1, <2>2
<1>7. ASSUME NEW c \in Conn, NEW n \in Node, Failure(c, n) \/ Leave(c, n) PROVE Sound
  <2>1. UNCHANGED archives
    BY <1>7 DEF Failure, ReadError, WriteError, Abort, Leave
  <2> QED BY <1>1, <2>1
<1>8. CASE UNCHANGED vars
  BY <1>1, <1>8 DEF vars, archives
<1> QED BY <1>2, <1>4, <1>5, <1>6, <1>7, <1>8 DEF Next

\* No step loses the author of a record, or quarantines without evidence.
LEMMA NextAttributed ==
    ASSUME Attributed, [Next]_vars
    PROVE  Attributed'
<1>1. KeysInductive /\ quarantine \in [Node -> SUBSET Record] /\ KeysInductive'
  BY NextKeys DEF Attributed
<1>2. /\ \A r : Held(r) => Held(r)'
      /\ \A r : Contradicted(r) => Contradicted(r)'
  BY <1>1, TablesAttributed, EvidenceStays
<1>3. ASSUME NEW n \in Node, NEW r \in rows'[n] PROVE Held(r)'
  <2>1. CASE r.origin = OriginOf[n]
    BY <1>3, <2>1 DEF Held
  <2>2. CASE r.origin # OriginOf[n]
    <3>1. Held(r)
      BY <1>1, <2>2, TablesAttributed DEF Attributed
    <3> QED BY <1>2, <3>1
  <2> QED BY <2>1, <2>2
<1>4. ASSUME NEW c \in Conn, NEW n \in Node, NEW i \in 1..Len(wire'[c][n]),
             NEW r \in wire'[c][n][i].rows
      PROVE  Held(r)'
  <2>1. Held(r)
    BY <1>1, FramesAttributed DEF Attributed
  <2> QED BY <1>2, <2>1
<1>5. ASSUME NEW n \in Node, NEW r \in quarantine'[n] PROVE Contradicted(r)'
  <2>1. CASE r \in quarantine[n]
    BY <1>2, <2>1 DEF Attributed
  <2>2. CASE r \notin quarantine[n]
    <3>1. Held(r)
      BY <1>1, <2>2, TablesAttributed DEF Attributed
    <3>2. PICK h \in rows[n] : h.origin = r.origin /\ h.seq = r.seq /\ h.line # r.line
      BY <1>1, <2>2, TablesAttributed
    <3>3. Held(h)
      BY DEF Attributed
    <3>4. PICK m \in Node : OriginOf[m] = r.origin /\ r \in rows[m]
      BY <3>1 DEF Held
    <3>5. PICK k \in Node : OriginOf[k] = h.origin /\ h \in rows[k]
      BY <3>3 DEF Held
    <3>6. m # k
      BY <1>1, <3>2, <3>4, <3>5 DEF KeysInductive, Keyable, Keyed
    <3>7. Contradicted(r)
      BY <3>2, <3>4, <3>5, <3>6 DEF Contradicted
    <3> QED BY <1>2, <3>7
  <2> QED BY <2>1, <2>2
<1> QED BY <1>1, <1>3, <1>4, <1>5, TablesAttributed DEF Attributed

\* A quarantine never lies, whatever origin ids are shared and however exchanges
\* overlap, stop and start again: for each record in it there are two nodes with
\* one origin id, the record's, that hold different lines under its number
\* (AppendRemote, quarantine).
THEOREM QuarantineIsEvidence ==
    Spec => [](\A n \in Node : \A r \in quarantine[n] : Contradicted(r))
<1>1. Init => Attributed
  <2> SUFFICES ASSUME Init PROVE Attributed
    OBVIOUS
  <2>1. \A i \in 1..Len(<<>>) : FALSE
    BY EmptySeq
  <2>2. wire \in [Conn -> [Node -> Seq(Frame)]]
    BY EmptySeq DEF Init
  <2>3. Keyable({})
    BY DEF Keyable, Keyed
  <2> QED BY <2>1, <2>2, <2>3 DEF Init, KeysInductive, Attributed
<1>2. Attributed /\ [Next]_vars => Attributed'
  BY NextAttributed
<1>3. Attributed => \A n \in Node : \A r \in quarantine[n] : Contradicted(r)
  BY DEF Attributed
<1> QED BY <1>1, <1>2, <1>3, PTL DEF Spec

----------------------------------------------------------------------------
(* Origin ids all distinct: tables *)

\* Records of two tables with one origin and one number, or one line, are equal.
LEMMA SameKey ==
    ASSUME OriginsDistinct, Tables,
           NEW n \in Node, NEW m \in Node, NEW r \in rows[n], NEW s \in rows[m],
           r.origin = s.origin, r.seq = s.seq \/ r.line = s.line
    PROVE  r = s
<1>1. PICK i \in Node : OriginOf[i] = r.origin /\ r \in rows[i]
  BY DEF Tables
<1>2. PICK j \in Node : OriginOf[j] = s.origin /\ s \in rows[j]
  BY DEF Tables
<1>3. i = j
  BY <1>1, <1>2, OriginAssumption DEF OriginsDistinct, IsInjective
<1> QED BY <1>1, <1>2, <1>3 DEF Tables

\* A table filled from two nodes that has a number of an origin has the record.
LEMMA HeldRecord ==
    ASSUME OriginsDistinct, Tables,
           NEW n \in Node, NEW p \in Node, NEW table \in SUBSET (rows[n] \cup rows[p]),
           NEW r \in rows[p], Has(table, r.origin, r.seq)
    PROVE  r \in table
<1>1. PICK h \in table : h.origin = r.origin /\ h.seq = r.seq
  BY DEF Has
<1>2. h \in rows[n] \/ h \in rows[p]
  OBVIOUS
<1> QED BY <1>1, <1>2, SameKey

\* Applying a batch that comes from another table is a union, and no conflict.
LEMMA ApplyBatch ==
    ASSUME OriginsDistinct, Tables,
           NEW n \in Node, NEW p \in Node, NEW batch \in SUBSET rows[p]
    PROVE  /\ rows[n] \cup Insertable(rows[n], batch) = rows[n] \cup batch
           /\ ForkEvidence(rows[n], batch) = {}
<1>1. \A r \in batch, h \in rows[n] :
         h.origin = r.origin /\ (h.seq = r.seq \/ h.line = r.line) => h = r
  BY SameKey
<1> QED BY <1>1 DEF Insertable, ForkEvidence

\* Tables stay sound when one of them takes in a batch of another.
LEMMA TablesAfterBatch ==
    ASSUME OriginsDistinct, TypeOK, Tables,
           NEW n \in Node, NEW p \in Node, NEW batch \in SUBSET rows[p],
           Dense(rows[n] \cup batch), rows' = [rows EXCEPT ![n] = @ \cup batch]
    PROVE  Tables'
<1>1. \A m \in Node : rows'[m] = IF m = n THEN rows[n] \cup batch ELSE rows[m]
  BY DEF TypeOK
<1>2. IsFiniteSet(rows[n] \cup batch)
  BY FS_Subset, FS_Union DEF Tables
<1>3. \A m \in Node : IsFiniteSet(rows'[m]) /\ Dense(rows'[m])
  BY <1>1, <1>2 DEF Tables
<1>4. \A m \in Node, r \in batch : r.origin = OriginOf[m] => r \in rows[m]
  BY OriginAssumption DEF OriginsDistinct, IsInjective, Tables
<1>5. \A m \in Node : \A r \in rows'[m] : r.origin = OriginOf[m] => r \in rows[m]
  BY <1>1, <1>4
<1>6. \A m \in Node : \A r, s \in rows'[m] :
          /\ r.origin = OriginOf[m] /\ s.origin = OriginOf[m]
          /\ r.seq = s.seq \/ r.line = s.line
          => r = s
  BY <1>5 DEF Tables
<1>7. \A m \in Node : \A r \in rows'[m] :
          \E i \in Node : OriginOf[i] = r.origin /\ r \in rows'[i]
  BY <1>1 DEF Tables
<1> QED BY <1>3, <1>6, <1>7 DEF Tables

\* Tables stay sound when a collector commits a batch.
LEMMA TablesAfterLocal ==
    ASSUME OriginsDistinct, TypeOK, Tables,
           NEW n \in Node, NEW lines \in LocalBatch(n), AppendLocal(n, lines)
    PROVE  /\ Tables' /\ rows' \in [Node -> SUBSET Record]
           /\ \A m \in Node : rows[m] \subseteq rows'[m]
<1> DEFINE o == OriginOf[n]
           w == Watermark(rows[n], o)
           new == WithLocal(rows[n], o, lines)
<1>1. PICK k \in 1..LocalLimit : lines \in [1..k -> Transcript[n]] /\ IsInjective(lines)
  BY DEF LocalBatch
<1>2. /\ k \in Nat /\ lines \in [1..k -> Line] /\ o \in Origin
      /\ \A i, j \in 1..k : lines[i] = lines[j] => i = j
  BY <1>1, BoundAssumption, TranscriptAssumption, OriginAssumption DEF IsInjective
<1>3. rows[n] \in SUBSET Record /\ IsFiniteSet(rows[n]) /\ Dense(rows[n])
  BY DEF TypeOK, Tables
<1>4. /\ new \in SUBSET Record /\ IsFiniteSet(new) /\ Dense(new)
      /\ rows[n] \subseteq new
  BY <1>2, <1>3, WithLocalDense
<1>5. \A m \in Node : rows'[m] = IF m = n THEN new ELSE rows[m]
  BY DEF TypeOK, AppendLocal
<1>6. /\ w \in Nat
      /\ \A r \in rows[n] : r.origin = o => r.seq \in Nat /\ r.seq <= w
  BY <1>3, WatermarkOfPart DEF OfOrigin, Record
<1>7. \A r \in new : r \in rows[n] \/
         \E i \in 1..k : r = [origin |-> o, seq |-> w + i, line |-> lines[i]]
  BY <1>2 DEF WithLocal
<1>8. \A i \in 1..k : \A r \in rows[n] :
         r.origin = o => r.seq # w + i /\ r.line # lines[i]
  BY <1>2, <1>6 DEF AppendLocal, HoldsLine
<1> HIDE DEF new, w
<1>9. \A r, s \in new :
         r.origin = o /\ s.origin = o /\ (r.seq = s.seq \/ r.line = s.line) => r = s
  <2> SUFFICES ASSUME NEW r \in new, NEW s \in new, r.origin = o, s.origin = o,
                      r.seq = s.seq \/ r.line = s.line
               PROVE  r = s
    OBVIOUS
  <2>1. CASE r \in rows[n] /\ s \in rows[n]
    BY <2>1 DEF Tables
  <2>2. CASE r \in rows[n] /\ s \notin rows[n]
    BY <1>7, <1>8, <2>2
  <2>3. CASE r \notin rows[n] /\ s \in rows[n]
    BY <1>7, <1>8, <2>3
  <2>4. CASE r \notin rows[n] /\ s \notin rows[n]
    <3>1. PICK i \in 1..k : r = [origin |-> o, seq |-> w + i, line |-> lines[i]]
      BY <1>7, <2>4
    <3>2. PICK j \in 1..k : s = [origin |-> o, seq |-> w + j, line |-> lines[j]]
      BY <1>7, <2>4
    <3>3. i = j
      BY <1>2, <1>6, <3>1, <3>2
    <3> QED BY <3>1, <3>2, <3>3
  <2> QED BY <2>1, <2>2, <2>3, <2>4
<1>10. \A m \in Node : \A r, s \in rows'[m] :
          /\ r.origin = OriginOf[m] /\ s.origin = OriginOf[m]
          /\ r.seq = s.seq \/ r.line = s.line
          => r = s
  BY <1>5, <1>9 DEF Tables
<1>11. \A m \in Node : \A r \in rows'[m] :
          \E i \in Node : OriginOf[i] = r.origin /\ r \in rows'[i]
  <2> SUFFICES ASSUME NEW m \in Node, NEW r \in rows'[m]
               PROVE  \E i \in Node : OriginOf[i] = r.origin /\ r \in rows'[i]
    OBVIOUS
  <2>1. CASE r \in rows[m]
    BY <1>4, <1>5, <2>1 DEF Tables
  <2>2. CASE r \notin rows[m]
    BY <1>5, <1>7, <2>2
  <2> QED BY <2>1, <2>2
<1>12. \A m \in Node : IsFiniteSet(rows'[m]) /\ Dense(rows'[m])
  BY <1>4, <1>5 DEF Tables
<1>13. Tables'
  BY <1>10, <1>11, <1>12 DEF Tables
<1>14. rows' \in [Node -> SUBSET Record]
  BY <1>4 DEF TypeOK, AppendLocal, new
<1>15. \A m \in Node : rows[m] \subseteq rows'[m]
  BY <1>4, <1>5
<1> QED BY <1>13, <1>14, <1>15

----------------------------------------------------------------------------
(* Directions *)

\* A direction none of whose own variables change stays sound while tables grow.
LEMMA DirectionKept ==
    ASSUME NEW c \in Conn, NEW n \in Node, NEW p \in Node,
           TypeOK, Tables', Direction(c, n, p),
           \A m \in Node : rows[m] \subseteq rows'[m],
           n \in open'[c] => n \in open[c],
           mine'[c][p] = mine[c][p], tx'[c][p] = tx[c][p], plan'[c][p] = plan[c][p],
           theirs'[c][n] = theirs[c][n], rx'[c][n] = rx[c][n], wire'[c][n] = wire[c][n]
    PROVE  Direction(c, n, p)'
<1> DEFINE frames == wire[c][n]
<1>1. Dense(rows'[n]) /\ Len(frames) \in Nat
  BY DEF Tables, TypeOK
<1>2. \A i : Reached(rows[n], frames, i) \subseteq Reached(rows'[n], frames, i)
  BY ReachedGrows
<1>3. Snapshots(c, n, p)'
  BY DEF Direction, Snapshots
<1>4. Silent(c, n, p)'
  BY DEF Direction, Silent
<1>5. InOrder(c, n)'
  BY <1>1, ReachedGrows DEF Direction, InOrder
<1>6. Covered(c, n, p)'
  <2> SUFFICES ASSUME n \in open'[c], tx'[c][p] = "sending", NEW o \in Origin
               PROVE  LET reached == Reached(rows'[n], frames, Len(frames)) IN
                      /\ plan[c][p][o] >= -1
                      /\ \A q \in 1..plan[c][p][o] : Has(reached, o, q)
                      /\ plan[c][p][o] = -1 => OfOrigin(mine[c][p], o) \subseteq reached
    BY DEF Covered
  <2>1. LET reached == Reached(rows[n], frames, Len(frames)) IN
        /\ plan[c][p][o] >= -1
        /\ \A q \in 1..plan[c][p][o] : Has(reached, o, q)
        /\ plan[c][p][o] = -1 => OfOrigin(mine[c][p], o) \subseteq reached
    BY DEF Direction, Covered
  <2> QED BY <1>2, <2>1 DEF Has
<1>7. Complete(c, n, p)'
  BY <1>2 DEF Direction, Complete
<1> QED BY <1>3, <1>4, <1>5, <1>6, <1>7 DEF Direction

\* A step that touches the sender of one end and the receiver of the other has
\* one direction to keep sound.
LEMMA OneDirection ==
    ASSUME Inductive, TypeOK', Tables', NoFalseFork', ends' = ends, open' = open,
           \A m \in Node : rows[m] \subseteq rows'[m],
           NEW c \in Conn, NEW n \in Node, NEW p \in Node, Peers(c, n, p),
           \A d \in Conn, m \in Node : d # c \/ m # p =>
               mine'[d][m] = mine[d][m] /\ tx'[d][m] = tx[d][m] /\ plan'[d][m] = plan[d][m],
           \A d \in Conn, m \in Node : d # c \/ m # n =>
               theirs'[d][m] = theirs[d][m] /\ rx'[d][m] = rx[d][m] /\ wire'[d][m] = wire[d][m],
           Direction(c, n, p)'
    PROVE  Inductive'
<1>1. Pairs'
  BY DEF Inductive, Pairs
<1>2. ASSUME NEW d \in Conn, NEW k \in Node, NEW m \in Node, Peers(d, k, m)'
      PROVE  Direction(d, k, m)'
  <2>1. Peers(d, k, m) /\ Direction(d, k, m)
    BY <1>2 DEF Peers, Inductive
  <2>2. CASE d = c /\ k = n /\ m = p
    BY <2>2
  <2>3. CASE ~ (d = c /\ k = n /\ m = p)
    <3>1. (d # c \/ m # p) /\ (d # c \/ k # n)
      BY <2>1, <2>3 DEF Inductive, Pairs, Peers
    <3>2. /\ mine'[d][m] = mine[d][m] /\ tx'[d][m] = tx[d][m]
          /\ plan'[d][m] = plan[d][m] /\ theirs'[d][k] = theirs[d][k]
          /\ rx'[d][k] = rx[d][k] /\ wire'[d][k] = wire[d][k]
      BY <3>1
    <3>3. TypeOK /\ (k \in open'[d] => k \in open[d])
      BY DEF Inductive
    <3> QED BY <2>1, <3>2, <3>3, DirectionKept
  <2> QED BY <2>2, <2>3
<1> QED BY <1>1, <1>2 DEF Inductive

----------------------------------------------------------------------------
(* Steps that no connection takes part in, and new connections *)

LEMMA InitInductive == Init => Inductive
<1> SUFFICES ASSUME Init PROVE Inductive
  OBVIOUS
<1>1. TypeOK
  BY EmptySeq DEF Init, TypeOK, TxState, RxState, Idle
<1>2. Tables
  BY FS_EmptySet DEF Init, Tables, Dense
<1>3. NoFalseFork /\ Pairs
  BY DEF Init, NoFalseFork, Pairs
<1>4. \A c \in Conn, n, p \in Node : ~Peers(c, n, p)
  BY DEF Init, Peers
<1> QED BY <1>1, <1>2, <1>3, <1>4 DEF Inductive

LEMMA StutterStep == Inductive /\ UNCHANGED vars => Inductive'
<1> SUFFICES ASSUME Inductive, UNCHANGED vars PROVE Inductive'
  OBVIOUS
<1>1. TypeOK' /\ Tables' /\ NoFalseFork' /\ Pairs'
  BY DEF vars, Inductive, TypeOK, Tables, NoFalseFork, Pairs
<1>2. ASSUME NEW c \in Conn, NEW n \in Node, NEW p \in Node, Peers(c, n, p)'
      PROVE  Direction(c, n, p)'
  <2>1. Direction(c, n, p) /\ TypeOK
    BY <1>2 DEF vars, Inductive, Peers
  <2> QED BY <1>1, <2>1, DirectionKept DEF vars
<1> QED BY <1>1, <1>2 DEF Inductive

LEMMA AppendLocalStep ==
    ASSUME OriginsDistinct, Inductive,
           NEW n \in Node, NEW lines \in LocalBatch(n), AppendLocal(n, lines)
    PROVE  Inductive'
<1>1. TypeOK /\ Tables
  BY DEF Inductive
<1>2. /\ Tables' /\ rows' \in [Node -> SUBSET Record]
      /\ \A m \in Node : rows[m] \subseteq rows'[m]
  BY <1>1, TablesAfterLocal
<1>3. TypeOK' /\ NoFalseFork' /\ Pairs'
  BY <1>1, <1>2 DEF Inductive, TypeOK, NoFalseFork, Pairs, AppendLocal
<1>4. ASSUME NEW c \in Conn, NEW k \in Node, NEW m \in Node, Peers(c, k, m)'
      PROVE  Direction(c, k, m)'
  <2>1. Direction(c, k, m)
    BY <1>4 DEF AppendLocal, Peers, Inductive
  <2> QED BY <1>1, <1>2, <2>1, DirectionKept DEF AppendLocal
<1> QED BY <1>2, <1>3, <1>4 DEF Inductive

LEMMA ConnectStep ==
    ASSUME Inductive, NEW c \in Conn, NEW pair \in Pair, Connect(c, pair)
    PROVE  Inductive'
<1>1. TypeOK /\ Tables
  BY DEF Inductive
<1>2. PICK a, b \in Node : pair = {a, b} /\ a # b
  BY ReachableAssumption DEF Pair
<1>3. TypeOK'
  BY <1>1, <1>2, EmptySeq DEF TypeOK, Connect, archives, TxState, RxState, Idle
<1>4. Tables' /\ NoFalseFork'
  BY DEF Inductive, Tables, NoFalseFork, Connect, archives
<1>5. Pairs'
  <2>1. \A d \in Conn : ends'[d] = IF d = c THEN {a, b} ELSE ends[d]
    BY <1>1, <1>2 DEF TypeOK, Connect
  <2>2. \A d \in Conn : open'[d] = IF d = c THEN {a, b} ELSE open[d]
    BY <1>1, <1>2 DEF TypeOK, Connect
  <2> QED BY <1>2, <2>1, <2>2 DEF Inductive, Pairs
<1>6. ASSUME NEW d \in Conn, NEW n \in Node, NEW p \in Node, Peers(d, n, p)'
      PROVE  Direction(d, n, p)'
  <2>1. CASE d = c
    <3>1. /\ tx'[d][p] = "connected" /\ rx'[d][n] = "waiting" /\ mine'[d][p] = {}
          /\ theirs'[d][n] = {} /\ wire'[d][n] = <<>> /\ rows' = rows
      BY <1>1, <2>1 DEF TypeOK, Connect, archives
    <3>2. Len(wire'[d][n]) = 0 /\ Dense({})
      BY <3>1, EmptySeq DEF Dense
    <3>3. Reached(rows'[n], wire'[d][n], 0) = rows[n] /\ Dense(rows[n])
      BY <1>1, <3>1 DEF Reached, Tables
    <3>4. Snapshots(d, n, p)' /\ Silent(d, n, p)'
      BY <3>1, <3>2 DEF Snapshots, Silent
    <3>5. InOrder(d, n)'
      BY <3>2, <3>3 DEF InOrder
    <3>6. Covered(d, n, p)' /\ Complete(d, n, p)'
      BY <3>1, <3>2 DEF Covered, Complete
    <3> QED BY <3>4, <3>5, <3>6 DEF Direction
  <2>2. CASE d # c
    <3>1. Direction(d, n, p) /\ (n \in open'[d] => n \in open[d]) /\ rows' = rows
      BY <1>1, <1>6, <2>2 DEF Inductive, TypeOK, Peers, Connect, archives
    <3>2. /\ mine'[d][p] = mine[d][p] /\ tx'[d][p] = tx[d][p]
          /\ plan'[d][p] = plan[d][p] /\ theirs'[d][n] = theirs[d][n]
          /\ rx'[d][n] = rx[d][n] /\ wire'[d][n] = wire[d][n]
      BY <1>1, <2>2 DEF TypeOK, Connect
    <3> QED BY <1>1, <1>4, <3>1, <3>2, DirectionKept
  <2> QED BY <2>1, <2>2
<1> QED BY <1>3, <1>4, <1>5, <1>6 DEF Inductive

----------------------------------------------------------------------------
(* The sender *)

\* The ends of a connection, seen from the one that sends.
LEMMA JoinedPeers ==
    ASSUME Inductive, NEW c \in Conn, NEW n \in Node, NEW p \in Node, Joined(c, n, p)
    PROVE  Peers(c, p, n) /\ Direction(c, p, n) /\ Direction(c, n, p)
  BY DEF Inductive, Pairs, Joined, Peers

LEMMA AnnounceStep ==
    ASSUME Inductive, NEW c \in Conn, NEW n \in Node, NEW p \in Node, Announce(c, n, p)
    PROVE  Inductive'
<1> DEFINE f == [kind |-> "vector", rows |-> rows[n]]
           frames == wire[c][p]
<1>1. TypeOK /\ Tables /\ Peers(c, p, n) /\ Direction(c, p, n)
  BY JoinedPeers DEF Inductive, Announce
<1>2. f \in Frame /\ f.kind = "vector" /\ f.rows = rows[n] /\ frames \in Seq(Frame)
  BY <1>1 DEF TypeOK, Frame
<1>3. /\ rows' = rows /\ open' = open /\ ends' = ends
      /\ rx' = rx /\ theirs' = theirs /\ plan' = plan
      /\ mine'[c][n] = rows[n] /\ tx'[c][n] = "announced"
      /\ wire'[c][p] = IF p \in open[c] THEN Append(frames, f) ELSE frames
      /\ \A d \in Conn, m \in Node : d # c \/ m # n =>
            mine'[d][m] = mine[d][m] /\ tx'[d][m] = tx[d][m]
      /\ \A d \in Conn, m \in Node : d # c \/ m # p => wire'[d][m] = wire[d][m]
  BY <1>1 DEF TypeOK, Announce, Post, archives
<1>4. frames = <<>> /\ rx[c][p] # "done"
  BY <1>1 DEF Direction, Silent, Announce
<1>5. TypeOK'
  <2>1. Append(frames, f) \in Seq(Frame)
    BY <1>2, AppendProperties
  <2> QED BY <1>1, <2>1 DEF TypeOK, Announce, Post, archives, TxState
<1>6. Tables' /\ NoFalseFork'
  BY DEF Inductive, Tables, NoFalseFork, Announce, archives
<1>7. Direction(c, p, n)'
  <2> HIDE DEF f
  <2>1. \A i \in 1..Len(wire'[c][p]) : wire'[c][p][i] = f
    BY <1>2, <1>3, <1>4, AppendProperties, EmptySeq
  <2>2. \A i : Reached(rows[p], wire'[c][p], i) = rows[p]
             \/ ~ (i \in 0..Len(wire'[c][p]))
    <3>1. Len(wire'[c][p]) \in Nat
      BY <1>1, <1>5 DEF TypeOK
    <3> QED BY <1>2, <2>1, <3>1 DEF Reached
  <2>3. Dense(rows[n]) /\ Dense(rows[p])
    BY <1>1 DEF Tables
  <2>4. Snapshots(c, p, n)'
    BY <1>1, <1>2, <1>3, <2>1, <2>3 DEF Snapshots, Direction
  <2>5. Silent(c, p, n)' /\ Covered(c, p, n)'
    BY <1>3 DEF Silent, Covered
  <2>6. InOrder(c, p)'
    BY <1>3, <2>2, <2>3 DEF InOrder
  <2>7. Complete(c, p, n)'
    BY <1>2, <1>3, <1>4, <2>1 DEF Complete
  <2> QED BY <2>4, <2>5, <2>6, <2>7 DEF Direction
<1> QED BY <1>1, <1>3, <1>5, <1>6, <1>7, OneDirection

LEMMA StartSendStep ==
    ASSUME OriginsDistinct, Inductive, NEW c \in Conn, NEW n \in Node, StartSend(c, n)
    PROVE  Inductive'
<1>1. TypeOK /\ Tables
  BY DEF Inductive
<1>2. PICK p \in Node : Peers(c, p, n) /\ Direction(c, p, n) /\ Direction(c, n, p)
  BY DEF Inductive, Pairs, Peers, StartSend, TypeOK
<1> DEFINE my == mine[c][n]
           known == theirs[c][n]
           reached == Reached(rows[p], wire[c][p], Len(wire[c][p]))
<1>3. /\ my \in SUBSET Record /\ known \in SUBSET Record
      /\ my \subseteq rows[n] /\ known \subseteq rows[p] /\ Dense(my) /\ Dense(known)
  BY <1>1, <1>2 DEF TypeOK, Direction, Snapshots
<1>4. IsFiniteSet(my) /\ IsFiniteSet(known)
  BY <1>1, <1>3, FS_Subset DEF Tables
<1>5. /\ rows' = rows /\ open' = open /\ ends' = ends /\ mine' = mine
      /\ rx' = rx /\ theirs' = theirs /\ wire' = wire
      /\ tx'[c][n] = "sending"
      /\ plan'[c][n] = [o \in Origin |-> ResendFrom(my, known, o)]
      /\ \A d \in Conn, m \in Node : d # c \/ m # n =>
            plan'[d][m] = plan[d][m] /\ tx'[d][m] = tx[d][m]
  BY <1>1 DEF TypeOK, StartSend, archives
<1> HIDE DEF my, known
<1>6. ASSUME NEW o \in Origin
      PROVE  /\ ResendFrom(my, known, o) \in Int
             /\ -1 <= ResendFrom(my, known, o)
             /\ ResendFrom(my, known, o) <= Watermark(known, o)
             /\ ResendFrom(my, known, o) = -1 => Watermark(my, o) <= Watermark(known, o)
             /\ Watermark(my, o) \in Nat /\ Watermark(known, o) \in Nat
             /\ Seqs(known, o) = 1..Watermark(known, o)
             /\ Seqs(my, o) = 1..Watermark(my, o)
  BY <1>3, <1>4, ResendFromBounded, DenseWatermark
<1>7. TypeOK'
  <2>1. [o \in Origin |-> ResendFrom(my, known, o)] \in [Origin -> Int]
    BY <1>6
  <2> QED BY <1>1, <2>1 DEF TypeOK, StartSend, archives, TxState, my, known
<1>8. Tables' /\ NoFalseFork'
  BY DEF Inductive, Tables, NoFalseFork, StartSend, archives
<1>9. rows[p] \subseteq reached
  BY DEF Reached
<1> HIDE DEF reached
<1>10. Covered(c, p, n)'
  <2> SUFFICES ASSUME NEW o \in Origin
               PROVE  /\ plan'[c][n][o] >= -1
                      /\ \A q \in 1..plan'[c][n][o] : Has(reached, o, q)
                      /\ plan'[c][n][o] = -1 => OfOrigin(my, o) \subseteq reached
    BY <1>5 DEF Covered, my, reached
  <2>1. plan'[c][n][o] = ResendFrom(my, known, o)
    BY <1>5
  <2>2. \A q \in 1..Watermark(known, o) : Has(rows[p], o, q)
    BY <1>3, <1>6 DEF Seqs, OfOrigin, Has
  <2>3. ASSUME ResendFrom(my, known, o) = -1, NEW r \in OfOrigin(my, o)
        PROVE  r \in rows[p]
    <3>1. r \in rows[n] /\ r.origin = o /\ r.seq \in Seqs(my, o)
      BY <1>3, <2>3 DEF OfOrigin, Seqs
    <3>2. r.seq \in 1..Watermark(known, o)
      BY <1>6, <2>3, <3>1
    <3>3. Has(rows[p], r.origin, r.seq)
      BY <2>2, <3>1, <3>2
    <3> QED BY <1>1, <3>1, <3>3, SameKey DEF Has
  <2> QED BY <1>6, <1>9, <2>1, <2>2, <2>3 DEF Has
<1>11. Direction(c, p, n)'
  <2>1. Snapshots(c, p, n)' /\ InOrder(c, p)' /\ Complete(c, p, n)'
    BY <1>2, <1>5 DEF Direction, Snapshots, InOrder, Complete
  <2>2. Silent(c, p, n)'
    BY <1>5 DEF Silent
  <2> QED BY <1>10, <2>1, <2>2 DEF Direction
<1> QED BY <1>2, <1>5, <1>7, <1>8, <1>11, OneDirection

LEMMA SendBatchStep ==
    ASSUME OriginsDistinct, Inductive, NEW c \in Conn, NEW n \in Node, NEW p \in Node,
           NEW o \in Origin, SendBatch(c, n, p, o)
    PROVE  Inductive'
<1> DEFINE after == plan[c][n][o]
           batch == Since(rows[n], o, after, BatchSize)
           f == [kind |-> "records", rows |-> batch]
           frames == wire[c][p]
           k == Len(frames)
           reached == Reached(rows[p], frames, k)
<1>1. TypeOK /\ Tables /\ Peers(c, p, n) /\ Direction(c, p, n)
  BY JoinedPeers DEF Inductive, SendBatch
<1>2. /\ rows[n] \in SUBSET Record /\ IsFiniteSet(rows[n]) /\ Dense(rows[n])
      /\ after \in Int /\ after >= 0 /\ BatchSize \in Nat
      /\ batch \subseteq rows[n] /\ batch # {} /\ \A r \in batch : r.origin = o
  <2>1. rows[n] \in SUBSET Record /\ IsFiniteSet(rows[n]) /\ Dense(rows[n])
    BY <1>1 DEF TypeOK, Tables
  <2>2. after \in Int /\ after >= 0 /\ BatchSize \in Nat /\ batch # {}
    BY <1>1, BatchAssumption DEF TypeOK, SendBatch, Sending
  <2>3. batch \subseteq rows[n] /\ \A r \in batch : r.origin = o
    BY DEF Since, OfOrigin
  <2> QED BY <2>1, <2>2, <2>3
<1>3. /\ f \in Frame /\ f.kind = "records" /\ f.rows = batch
      /\ frames \in Seq(Frame) /\ k \in Nat
  <2> HIDE DEF batch
  <2>1. frames \in Seq(Frame)
    BY <1>1 DEF TypeOK
  <2>2. batch \in SUBSET Record
    BY <1>2
  <2> QED BY <2>1, <2>2 DEF Frame
<1>4. /\ rows' = rows /\ open' = open /\ ends' = ends /\ mine' = mine
      /\ rx' = rx /\ theirs' = theirs /\ tx' = tx /\ tx[c][n] = "sending"
      /\ wire'[c][p] = IF p \in open[c] THEN Append(frames, f) ELSE frames
      /\ plan'[c][n] = [plan[c][n] EXCEPT ![o] = Watermark(batch, o)]
      /\ \A d \in Conn, m \in Node : d # c \/ m # n => plan'[d][m] = plan[d][m]
      /\ \A d \in Conn, m \in Node : d # c \/ m # p => wire'[d][m] = wire[d][m]
  BY <1>1 DEF TypeOK, SendBatch, Sending, Post, archives
<1>5. /\ Watermark(batch, o) \in Nat
      /\ Watermark(batch, o) = 0 \/ Has(batch, o, Watermark(batch, o))
  BY <1>2, WatermarkOfPart
<1> HIDE DEF batch, f, frames, after
<1>6. Append(frames, f) \in Seq(Frame)
  BY <1>3, AppendProperties
<1>7. TypeOK'
  BY <1>1, <1>5, <1>6 DEF TypeOK, SendBatch, Post, archives, batch, f, frames, after
<1>8. Tables' /\ NoFalseFork'
  BY DEF Inductive, Tables, NoFalseFork, SendBatch, archives
<1>9. CASE p \notin open[c]
  <2>1. Direction(c, p, n)'
    BY <1>1, <1>4, <1>9 DEF Direction, Snapshots, Silent, InOrder, Covered, Complete, frames
  <2> QED BY <1>1, <1>4, <1>7, <1>8, <2>1, OneDirection
<1>10. CASE p \in open[c]
  <2> DEFINE longer == Append(frames, f)
  <2>1. /\ Len(longer) = k + 1 /\ longer[k + 1] = f
        /\ \A i \in 1..k : longer[i] = frames[i]
        /\ \A i \in 1..(k + 1) : i \in 1..k \/ i = k + 1
        /\ \A i \in 0..(k + 1) : i \in 0..k \/ i = k + 1
        /\ k \in 0..k
    BY <1>3, AppendProperties
  <2>2. /\ \A i \in 0..k : Reached(rows[p], longer, i) = Reached(rows[p], frames, i)
        /\ Reached(rows[p], longer, k + 1) = reached \cup batch
    BY <1>3, ReachedAppend
  <2> HIDE DEF longer, k
  <2>3. wire'[c][p] = longer
    BY <1>4, <1>10 DEF longer
  <2>4. /\ \A i \in 0..k : Dense(Reached(rows[p], frames, i))
        /\ \A q \in 1..after : Has(reached, o, q)
        /\ \A u \in Origin :
              /\ plan[c][n][u] >= -1
              /\ \A q \in 1..plan[c][n][u] : Has(reached, u, q)
              /\ plan[c][n][u] = -1 => OfOrigin(mine[c][n], u) \subseteq reached
    BY <1>1, <1>4, <1>10 DEF Direction, InOrder, Covered, frames, k, after
  <2>5. reached \in SUBSET Record
    <3>1. \A j \in 1..k : frames[j] \in Frame
      BY <1>3, ElementOfSeq DEF k
    <3>2. \A r \in reached : r \in rows[p] \/ \E j \in 1..k : r \in frames[j].rows
      BY ReachedMember
    <3> QED BY <1>1, <3>1, <3>2 DEF Frame, TypeOK
  <2>6. Dense(reached)
    BY <2>1, <2>4
  <2> HIDE DEF reached
  <2>7. Dense(reached \cup batch)
    BY <1>2, <2>4, <2>5, <2>6, BatchInOrder DEF batch
  <2>8. InOrder(c, p)'
    BY <1>4, <2>1, <2>2, <2>3, <2>4, <2>7 DEF InOrder
  <2>9. Snapshots(c, p, n)'
    BY <1>1, <1>2, <1>3, <1>4, <2>1, <2>3 DEF Direction, Snapshots, k, frames
  <2>10. Silent(c, p, n)'
    BY <1>4 DEF Silent
  <2>11. Complete(c, p, n)'
    <3>1. \A i \in 1..k : frames[i].kind = "done"
             => mine[c][n] \subseteq Reached(rows[p], longer, i)
      BY <1>1, <1>3, <1>10, <2>2 DEF Direction, Complete, k, frames
    <3>2. rx[c][p] = "done" => mine[c][n] \subseteq rows[p]
      BY <1>1 DEF Direction, Complete
    <3> QED BY <1>3, <1>4, <2>1, <2>3, <3>1, <3>2 DEF Complete
  <2>12. Covered(c, p, n)'
    <3> SUFFICES ASSUME NEW u \in Origin
                 PROVE  /\ plan'[c][n][u] >= -1
                        /\ \A q \in 1..plan'[c][n][u] : Has(reached \cup batch, u, q)
                        /\ plan'[c][n][u] = -1
                              => OfOrigin(mine[c][n], u) \subseteq reached \cup batch
      BY <1>4, <2>1, <2>2, <2>3 DEF Covered
    <3>1. CASE u = o
      <4>1. plan'[c][n][u] = Watermark(batch, o)
        BY <1>1, <1>4, <3>1 DEF TypeOK
      <4>2. \A q \in 1..Watermark(batch, o) : Has(reached \cup batch, o, q)
        BY <1>5, <2>7 DEF Has, Dense
      <4> QED BY <1>5, <3>1, <4>1, <4>2
    <3>2. CASE u # o
      <4>1. plan'[c][n][u] = plan[c][n][u]
        BY <1>1, <1>4, <3>2 DEF TypeOK
      <4> QED BY <2>4, <4>1 DEF Has
    <3> QED BY <3>1, <3>2
  <2>13. Direction(c, p, n)'
    BY <2>8, <2>9, <2>10, <2>11, <2>12 DEF Direction
  <2> QED BY <1>1, <1>4, <1>7, <1>8, <2>13, OneDirection
<1> QED BY <1>9, <1>10

LEMMA EndOriginStep ==
    ASSUME OriginsDistinct, Inductive, NEW c \in Conn, NEW n \in Node,
           NEW o \in Origin, EndOrigin(c, n, o)
    PROVE  Inductive'
<1> DEFINE after == plan[c][n][o]
<1>1. TypeOK /\ Tables
  BY DEF Inductive
<1>2. PICK p \in Node : Peers(c, p, n) /\ Direction(c, p, n)
  BY DEF Inductive, Pairs, Peers, EndOrigin, TypeOK
<1> DEFINE reached == Reached(rows[p], wire[c][p], Len(wire[c][p]))
<1>3. /\ rows' = rows /\ open' = open /\ ends' = ends /\ mine' = mine
      /\ rx' = rx /\ theirs' = theirs /\ tx' = tx /\ wire' = wire
      /\ tx[c][n] = "sending" /\ after \in Int
      /\ plan'[c][n] = [plan[c][n] EXCEPT ![o] = -1]
      /\ \A d \in Conn, m \in Node : d # c \/ m # n => plan'[d][m] = plan[d][m]
  <2>1. after \in Int
    BY <1>1 DEF TypeOK
  <2>2. /\ plan'[c][n] = [plan[c][n] EXCEPT ![o] = -1]
        /\ \A d \in Conn, m \in Node : d # c \/ m # n => plan'[d][m] = plan[d][m]
    BY <1>1 DEF TypeOK, EndOrigin
  <2> QED BY <2>1, <2>2 DEF EndOrigin, Sending, archives
<1>4. TypeOK'
  BY <1>1 DEF TypeOK, EndOrigin, archives
<1>5. Tables' /\ NoFalseFork'
  BY DEF Inductive, Tables, NoFalseFork, EndOrigin, archives
<1>6. mine[c][n] \subseteq rows[n] /\ rows[n] \in SUBSET Record
  BY <1>1, <1>2 DEF Direction, Snapshots, TypeOK
\* Nothing is held above, so all that was announced is at or below the plan.
<1>7. \A r \in OfOrigin(mine[c][n], o) : r \in rows[n] /\ r.origin = o /\ r.seq \in 1..after
  <2> TAKE r \in OfOrigin(mine[c][n], o)
  <2>1. r \in OfOrigin(rows[n], o) /\ r \in rows[n] /\ r.origin = o /\ r.seq \in Nat \ {0}
    BY <1>6 DEF OfOrigin, Record
  <2>2. Since(rows[n], o, after, BatchSize) = {}
    BY DEF EndOrigin
  <2>3. r.seq <= after
    BY <1>3, <1>6, <2>1, <2>2, SinceExhausted, BatchAssumption
  <2> QED BY <1>3, <2>1, <2>3
<1>8. Covered(c, p, n)'
  <2> SUFFICES ASSUME p \in open[c], NEW u \in Origin
               PROVE  /\ plan'[c][n][u] >= -1
                      /\ \A q \in 1..plan'[c][n][u] : Has(reached, u, q)
                      /\ plan'[c][n][u] = -1 => OfOrigin(mine[c][n], u) \subseteq reached
    BY <1>3 DEF Covered
  <2>1. /\ plan[c][n][u] >= -1
        /\ \A q \in 1..plan[c][n][u] : Has(reached, u, q)
        /\ plan[c][n][u] = -1 => OfOrigin(mine[c][n], u) \subseteq reached
    BY <1>2, <1>3 DEF Direction, Covered
  <2>2. CASE u # o
    BY <1>1, <1>3, <2>1, <2>2 DEF TypeOK
  <2>3. CASE u = o
    <3>1. plan'[c][n][u] = -1
      BY <1>1, <1>3, <2>3 DEF TypeOK
    <3>2. reached \subseteq rows[p] \cup rows[n]
      <4>1. \A j \in 1..Len(wire[c][p]) : wire[c][p][j].rows \subseteq rows[n]
        BY <1>2 DEF Direction, Snapshots
      <4> QED BY <4>1 DEF Reached
    <3> HIDE DEF reached
    <3>3. ASSUME NEW r \in OfOrigin(mine[c][n], o) PROVE r \in reached
      <4>1. r \in rows[n] /\ Has(reached, r.origin, r.seq)
        BY <1>7, <2>1, <2>3
      <4> QED BY <1>1, <3>2, <4>1, HeldRecord
    <3> QED BY <2>3, <3>1, <3>3
  <2> QED BY <2>2, <2>3
<1>9. Direction(c, p, n)'
  <2>1. Snapshots(c, p, n)' /\ Silent(c, p, n)' /\ InOrder(c, p)' /\ Complete(c, p, n)'
    BY <1>2, <1>3 DEF Direction, Snapshots, Silent, InOrder, Complete
  <2> QED BY <1>8, <2>1 DEF Direction
<1> QED BY <1>2, <1>3, <1>4, <1>5, <1>9, OneDirection

LEMMA SendDoneStep ==
    ASSUME Inductive, NEW c \in Conn, NEW n \in Node, NEW p \in Node, SendDone(c, n, p)
    PROVE  Inductive'
<1> DEFINE f == [kind |-> "done", rows |-> {}]
           frames == wire[c][p]
           k == Len(frames)
           reached == Reached(rows[p], frames, k)
<1>1. TypeOK /\ Tables /\ Peers(c, p, n) /\ Direction(c, p, n)
  BY JoinedPeers DEF Inductive, SendDone
<1>2. /\ f \in Frame /\ f.kind = "done" /\ f.rows = {}
      /\ frames \in Seq(Frame) /\ k \in Nat
  <2>1. frames \in Seq(Frame)
    BY <1>1 DEF TypeOK
  <2> QED BY <2>1 DEF Frame
<1>3. /\ rows' = rows /\ open' = open /\ ends' = ends /\ mine' = mine
      /\ rx' = rx /\ theirs' = theirs /\ plan' = plan
      /\ tx[c][n] = "sending" /\ tx'[c][n] = "done" /\ plan[c][n] = Idle
      /\ wire'[c][p] = IF p \in open[c] THEN Append(frames, f) ELSE frames
      /\ \A d \in Conn, m \in Node : d # c \/ m # n => tx'[d][m] = tx[d][m]
      /\ \A d \in Conn, m \in Node : d # c \/ m # p => wire'[d][m] = wire[d][m]
  BY <1>1 DEF TypeOK, SendDone, Post, archives
<1> HIDE DEF f, frames
<1>4. Append(frames, f) \in Seq(Frame)
  BY <1>2, AppendProperties
<1>5. TypeOK'
  BY <1>1, <1>4 DEF TypeOK, TxState, SendDone, Post, archives, f, frames
<1>6. Tables' /\ NoFalseFork'
  BY DEF Inductive, Tables, NoFalseFork, SendDone, archives
<1>7. CASE p \notin open[c]
  <2>1. Direction(c, p, n)'
    BY <1>1, <1>3, <1>7 DEF Direction, Snapshots, Silent, InOrder, Covered, Complete, frames
  <2> QED BY <1>1, <1>3, <1>5, <1>6, <2>1, OneDirection
<1>8. CASE p \in open[c]
  <2> DEFINE longer == Append(frames, f)
  <2>1. /\ Len(longer) = k + 1 /\ longer[k + 1] = f
        /\ \A i \in 1..k : longer[i] = frames[i]
        /\ \A i \in 1..(k + 1) : i \in 1..k \/ i = k + 1
        /\ \A i \in 0..(k + 1) : i \in 0..k \/ i = k + 1
        /\ k \in 0..k
    BY <1>2, AppendProperties
  <2>2. /\ \A i \in 0..k : Reached(rows[p], longer, i) = Reached(rows[p], frames, i)
        /\ Reached(rows[p], longer, k + 1) = reached
    <3>1. (IF f.kind = "records" THEN f.rows ELSE {}) = {}
      BY <1>2
    <3>2. reached \cup {} = reached
      OBVIOUS
    <3> QED BY <1>2, <3>1, <3>2, ReachedAppend
  <2> HIDE DEF longer, k
  <2>3. wire'[c][p] = longer
    BY <1>3, <1>8 DEF longer
  <2>4. mine[c][n] \subseteq reached
    <3>1. \A o \in Origin : OfOrigin(mine[c][n], o) \subseteq reached
      BY <1>1, <1>3, <1>8 DEF Direction, Covered, Idle, frames, k
    <3>2. \A r \in mine[c][n] : r.origin \in Origin
      BY <1>1 DEF TypeOK, Record
    <3> QED BY <3>1, <3>2 DEF OfOrigin
  <2>5. \A i \in 0..k : Dense(Reached(rows[p], frames, i))
    BY <1>1, <1>8 DEF Direction, InOrder, frames, k
  <2>6. InOrder(c, p)'
    BY <1>3, <2>1, <2>2, <2>3, <2>5 DEF InOrder
  <2>7. Snapshots(c, p, n)'
    BY <1>1, <1>2, <1>3, <2>1, <2>3 DEF Direction, Snapshots, k, frames
  <2>8. Silent(c, p, n)' /\ Covered(c, p, n)'
    BY <1>3 DEF Silent, Covered
  <2>9. Complete(c, p, n)'
    <3>1. \A i \in 1..k : frames[i].kind = "done"
             => mine[c][n] \subseteq Reached(rows[p], longer, i)
      BY <1>1, <1>2, <1>8, <2>2 DEF Direction, Complete, k, frames
    <3>2. rx[c][p] = "done" => mine[c][n] \subseteq rows[p]
      BY <1>1 DEF Direction, Complete
    <3> QED BY <1>3, <2>1, <2>2, <2>3, <2>4, <3>1, <3>2 DEF Complete
  <2>10. Direction(c, p, n)'
    BY <2>6, <2>7, <2>8, <2>9 DEF Direction
  <2> QED BY <1>1, <1>3, <1>5, <1>6, <2>10, OneDirection
<1> QED BY <1>7, <1>8

\* A sender that fails leaves nothing to cover.
LEMMA SenderFailsStep ==
    ASSUME Inductive, NEW c \in Conn, NEW n \in Node, NEW p \in Node,
           WriteError(c, n, p) \/ WriteDeadline(c, n, p)
    PROVE  Inductive'
<1>1. TypeOK /\ Tables /\ Peers(c, p, n) /\ Direction(c, p, n)
  BY JoinedPeers DEF Inductive, WriteError, WriteDeadline
<1>2. /\ rows' = rows /\ quarantine' = quarantine /\ open' = open /\ ends' = ends
      /\ mine' = mine /\ rx' = rx /\ theirs' = theirs /\ wire' = wire /\ plan' = plan
      /\ tx' = [tx EXCEPT ![c][n] = "failed"] /\ faults' \in Nat
  BY <1>1 DEF TypeOK, WriteError, WriteDeadline, Fault, archives
<1>3. /\ tx'[c][n] = "failed"
      /\ \A d \in Conn, m \in Node : d # c \/ m # n => tx'[d][m] = tx[d][m]
  BY <1>1, <1>2 DEF TypeOK
<1>4. TypeOK'
  BY <1>1, <1>2 DEF TypeOK, TxState
<1>5. Tables' /\ NoFalseFork'
  BY <1>2 DEF Inductive, Tables, NoFalseFork
<1>6. Direction(c, p, n)'
  <2>1. Snapshots(c, p, n)' /\ InOrder(c, p)' /\ Complete(c, p, n)'
    BY <1>1, <1>2 DEF Direction, Snapshots, InOrder, Complete
  <2>2. Silent(c, p, n)' /\ Covered(c, p, n)'
    BY <1>3 DEF Silent, Covered
  <2> QED BY <2>1, <2>2 DEF Direction
<1> QED BY <1>1, <1>2, <1>3, <1>4, <1>5, <1>6, OneDirection

----------------------------------------------------------------------------
(* The receiver *)

\* Reading a frame keeps a direction sound: what was one frame ahead is held.
LEMMA ReadFrame ==
    ASSUME NEW c \in Conn, NEW n \in Node, NEW p \in Node,
           TypeOK, TypeOK', Direction(c, n, p), open' = open, n \in open[c],
           wire[c][n] # <<>>, wire'[c][n] = Tail(wire[c][n]),
           \A m \in Node : rows[m] \subseteq rows'[m],
           rows'[n] = rows[n] \cup (IF Head(wire[c][n]).kind = "records"
                                    THEN Head(wire[c][n]).rows ELSE {}),
           mine'[c][p] = mine[c][p], tx'[c][p] = tx[c][p], plan'[c][p] = plan[c][p],
           theirs'[c][n] \subseteq rows'[p], Dense(theirs'[c][n]),
           rx'[c][n] = "done" => mine[c][p] \subseteq rows'[n]
    PROVE  Direction(c, n, p)'
<1> DEFINE frames == wire[c][n]
           rest == wire'[c][n]
           k == Len(rest)
<1>1. frames \in Seq(Frame) /\ rest \in Seq(Frame) /\ k \in Nat
  BY DEF TypeOK
<1>2. /\ Len(frames) = k + 1
      /\ \A i \in 1..k : rest[i] = frames[i + 1]
      /\ \A i \in 0..k : Reached(rows'[n], rest, i) = Reached(rows[n], frames, i + 1)
  BY <1>1, ReachedTail
<1>3. /\ \A i \in 1..k : i + 1 \in 1..(k + 1)
      /\ \A i \in 0..k : i + 1 \in 0..(k + 1)
      /\ \A i \in 1..k : i \in 0..k
      /\ k \in 0..k
  BY <1>1
<1> HIDE DEF frames, rest, k
<1>4. Snapshots(c, n, p)'
  <2>1. \A i \in 1..(k + 1) : /\ frames[i].rows \subseteq rows[p]
                              /\ frames[i].kind = "vector" => Dense(frames[i].rows)
    BY <1>2 DEF Direction, Snapshots, frames
  <2>2. \A i \in 1..k : /\ rest[i].rows \subseteq rows'[p]
                        /\ rest[i].kind = "vector" => Dense(rest[i].rows)
    BY <1>2, <1>3, <2>1
  <2>3. mine[c][p] \subseteq rows'[p] /\ Dense(mine[c][p])
    BY DEF Direction, Snapshots
  <2> QED BY <2>2, <2>3 DEF Snapshots, rest, k
<1>5. Silent(c, n, p)'
  BY DEF Direction, Silent
<1>6. InOrder(c, n)'
  <2>1. \A i \in 0..(k + 1) : Dense(Reached(rows[n], frames, i))
    BY <1>2 DEF Direction, InOrder, frames
  <2> QED BY <1>2, <1>3, <2>1 DEF InOrder, rest, k
<1>7. Covered(c, n, p)'
  <2>1. Reached(rows'[n], rest, k) = Reached(rows[n], frames, Len(frames))
    BY <1>2, <1>3
  <2> QED BY <2>1 DEF Direction, Covered, frames, rest, k
<1>8. Complete(c, n, p)'
  <2>1. \A i \in 1..(k + 1) : frames[i].kind = "done"
           => mine[c][p] \subseteq Reached(rows[n], frames, i)
    BY <1>2 DEF Direction, Complete, frames
  <2>2. \A i \in 1..k : rest[i].kind = "done"
           => mine[c][p] \subseteq Reached(rows'[n], rest, i)
    BY <1>2, <1>3, <2>1
  <2> QED BY <2>2 DEF Complete, rest, k
<1> QED BY <1>4, <1>5, <1>6, <1>7, <1>8 DEF Direction

\* The ends of a connection, seen from the one that reads.
LEMMA ReadingPeer ==
    ASSUME Inductive, NEW c \in Conn, NEW n \in Node, n \in open[c]
    PROVE  \E p \in Node : Peers(c, n, p) /\ Direction(c, n, p)
  BY DEF Inductive, Pairs, Peers, TypeOK

LEMMA ReceiveVectorStep ==
    ASSUME Inductive, NEW c \in Conn, NEW n \in Node, ReceiveVector(c, n)
    PROVE  Inductive'
<1> DEFINE frames == wire[c][n]
           f == Head(frames)
<1>1. TypeOK /\ Tables /\ n \in open[c] /\ frames # <<>> /\ f.kind = "vector"
  BY DEF Inductive, ReceiveVector, Incoming, Reading
<1>2. PICK p \in Node : Peers(c, n, p) /\ Direction(c, n, p)
  BY <1>1, ReadingPeer
<1>3. /\ rows' = rows /\ open' = open /\ ends' = ends /\ mine' = mine
      /\ tx' = tx /\ plan' = plan
      /\ wire'[c][n] = Tail(frames) /\ theirs'[c][n] = f.rows /\ rx'[c][n] = "reading"
      /\ \A d \in Conn, m \in Node : d # c \/ m # n =>
            theirs'[d][m] = theirs[d][m] /\ rx'[d][m] = rx[d][m] /\ wire'[d][m] = wire[d][m]
  BY <1>1 DEF TypeOK, ReceiveVector, Incoming, archives
<1>4. frames \in Seq(Frame) /\ f \in Frame /\ Tail(frames) \in Seq(Frame)
  <2>1. frames \in Seq(Frame)
    BY <1>1 DEF TypeOK
  <2> QED BY <1>1, <2>1, HeadTailProperties
<1>5. TypeOK'
  BY <1>1, <1>4 DEF TypeOK, RxState, Frame, ReceiveVector, Incoming, archives
<1>6. Tables' /\ NoFalseFork'
  BY DEF Inductive, Tables, NoFalseFork, ReceiveVector, archives
<1>7. f.rows \subseteq rows[p] /\ Dense(f.rows)
  <2>1. 1 \in 1..Len(frames) /\ f = frames[1]
    BY <1>1, <1>4, EmptySeq
  <2> QED BY <1>1, <1>2, <2>1 DEF Direction, Snapshots
<1>8. rows[n] = rows[n] \cup (IF f.kind = "records" THEN f.rows ELSE {})
  BY <1>1
<1> HIDE DEF f
<1>9. Direction(c, n, p)'
  BY <1>1, <1>2, <1>3, <1>5, <1>7, <1>8, ReadFrame DEF f
<1> QED BY <1>2, <1>3, <1>5, <1>6, <1>9, OneDirection

LEMMA ReceiveRecordsStep ==
    ASSUME OriginsDistinct, Inductive, NEW c \in Conn, NEW n \in Node, ReceiveRecords(c, n)
    PROVE  Inductive'
<1> DEFINE frames == wire[c][n]
           f == Head(frames)
<1>1. /\ TypeOK /\ Tables /\ NoFalseFork
      /\ n \in open[c] /\ frames # <<>> /\ f.kind = "records" /\ rx[c][n] # "done"
  BY DEF Inductive, ReceiveRecords, Incoming, Reading
<1>2. PICK p \in Node : Peers(c, n, p) /\ Direction(c, n, p)
  BY <1>1, ReadingPeer
<1>3. frames \in Seq(Frame) /\ f \in Frame /\ Tail(frames) \in Seq(Frame) /\ f = frames[1]
  <2>1. frames \in Seq(Frame)
    BY <1>1 DEF TypeOK
  <2> QED BY <1>1, <2>1, HeadTailProperties
<1>4. 1 \in 1..Len(frames) /\ 1 \in 0..Len(frames)
  BY <1>1, <1>3, EmptySeq
<1>5. f.rows \in SUBSET rows[p]
  BY <1>2, <1>3, <1>4 DEF Direction, Snapshots
<1>6. /\ rows[n] \cup Insertable(rows[n], f.rows) = rows[n] \cup f.rows
      /\ ForkEvidence(rows[n], f.rows) = {}
  BY <1>1, <1>5, ApplyBatch
<1>7. /\ rows' = [rows EXCEPT ![n] = @ \cup f.rows] /\ quarantine' = quarantine
      /\ open' = open /\ ends' = ends /\ mine' = mine /\ tx' = tx /\ plan' = plan
      /\ theirs' = theirs /\ rx' = rx /\ wire' = [wire EXCEPT ![c][n] = Tail(frames)]
      /\ faults' = faults
  <2>1. quarantine' = quarantine
    BY <1>1, <1>6 DEF TypeOK, ReceiveRecords
  <2>2. rows' = [rows EXCEPT ![n] = @ \cup f.rows]
    BY <1>6 DEF ReceiveRecords
  <2> QED BY <2>1, <2>2 DEF ReceiveRecords, Incoming
<1>8. /\ rows'[n] = rows[n] \cup f.rows /\ wire'[c][n] = Tail(frames)
      /\ \A m \in Node : rows[m] \subseteq rows'[m]
      /\ \A d \in Conn, m \in Node : d # c \/ m # n => wire'[d][m] = wire[d][m]
  BY <1>1, <1>7 DEF TypeOK
<1>9. Dense(rows[n] \cup f.rows)
  <2>1. Reached(rows[n], frames, 1) = rows[n] \cup f.rows
    BY <1>1, <1>3 DEF Reached
  <2> QED BY <1>1, <1>2, <1>4, <2>1 DEF Direction, InOrder
<1> HIDE DEF f, frames
<1>10. Tables'
  BY <1>1, <1>5, <1>7, <1>9, TablesAfterBatch
<1>11. TypeOK'
  BY <1>1, <1>3, <1>7 DEF TypeOK, Frame
<1>12. NoFalseFork'
  BY <1>1, <1>7 DEF NoFalseFork
<1>13. Direction(c, n, p)'
  <2>1. theirs'[c][n] \subseteq rows'[p] /\ Dense(theirs'[c][n])
    BY <1>2, <1>7, <1>8 DEF Direction, Snapshots
  <2>2. rx'[c][n] # "done"
    BY <1>1, <1>7
  <2>3. rows'[n] = rows[n] \cup (IF f.kind = "records" THEN f.rows ELSE {})
    BY <1>1, <1>8
  <2> QED BY <1>1, <1>2, <1>7, <1>8, <1>11, <2>1, <2>2, <2>3, ReadFrame DEF f, frames
<1> QED BY <1>2, <1>7, <1>8, <1>10, <1>11, <1>12, <1>13, OneDirection

LEMMA ReceiveDoneStep ==
    ASSUME Inductive, NEW c \in Conn, NEW n \in Node, ReceiveDone(c, n)
    PROVE  Inductive'
<1> DEFINE frames == wire[c][n]
           f == Head(frames)
<1>1. TypeOK /\ Tables /\ n \in open[c] /\ frames # <<>> /\ f.kind = "done"
  BY DEF Inductive, ReceiveDone, Incoming, Reading
<1>2. PICK p \in Node : Peers(c, n, p) /\ Direction(c, n, p)
  BY <1>1, ReadingPeer
<1>3. /\ rows' = rows /\ open' = open /\ ends' = ends /\ mine' = mine
      /\ tx' = tx /\ plan' = plan /\ theirs' = theirs
      /\ wire'[c][n] = Tail(frames) /\ rx'[c][n] = "done"
      /\ \A d \in Conn, m \in Node : d # c \/ m # n =>
            rx'[d][m] = rx[d][m] /\ wire'[d][m] = wire[d][m]
  BY <1>1 DEF TypeOK, ReceiveDone, Incoming, archives
<1>4. frames \in Seq(Frame) /\ Tail(frames) \in Seq(Frame) /\ f = frames[1]
  <2>1. frames \in Seq(Frame)
    BY <1>1 DEF TypeOK
  <2> QED BY <1>1, <2>1, HeadTailProperties
<1>5. TypeOK'
  BY <1>1, <1>4 DEF TypeOK, RxState, ReceiveDone, Incoming, archives
<1>6. Tables' /\ NoFalseFork'
  BY DEF Inductive, Tables, NoFalseFork, ReceiveDone, archives
<1>7. mine[c][p] \subseteq rows[n]
  <2>1. 1 \in 1..Len(frames)
    BY <1>1, <1>4, EmptySeq
  <2>2. mine[c][p] \subseteq Reached(rows[n], frames, 1)
    BY <1>1, <1>2, <1>4, <2>1 DEF Direction, Complete
  <2>3. Reached(rows[n], frames, 1) = rows[n]
    BY <1>1, <1>4 DEF Reached
  <2> QED BY <2>2, <2>3
<1>8. rows[n] = rows[n] \cup (IF f.kind = "records" THEN f.rows ELSE {})
  BY <1>1
<1>9. theirs[c][n] \subseteq rows[p] /\ Dense(theirs[c][n])
  BY <1>2 DEF Direction, Snapshots
<1> HIDE DEF f
<1>10. Direction(c, n, p)'
  BY <1>1, <1>2, <1>3, <1>5, <1>7, <1>8, <1>9, ReadFrame DEF f
<1> QED BY <1>2, <1>3, <1>5, <1>6, <1>10, OneDirection

\* A receiver that stops before the done frame promises nothing.
LEMMA ReceiverStopsStep ==
    ASSUME Inductive, NEW c \in Conn, NEW n \in Node, NEW p \in Node,
           ReadError(c, n) \/ ReceiveEOF(c, n, p) \/ ReadDeadline(c, n, p)
    PROVE  Inductive'
<1>1. TypeOK /\ Tables /\ n \in open[c]
  BY DEF Inductive, ReadError, ReceiveEOF, ReadDeadline, Reading
<1>2. PICK q \in Node : Peers(c, n, q) /\ Direction(c, n, q)
  BY <1>1, ReadingPeer
<1>3. /\ rows' = rows /\ quarantine' = quarantine /\ open' = open /\ ends' = ends
      /\ mine' = mine /\ tx' = tx /\ theirs' = theirs /\ wire' = wire /\ plan' = plan
      /\ \E state \in {"eof", "failed"} : rx' = [rx EXCEPT ![c][n] = state]
      /\ faults' \in Nat
  BY <1>1 DEF TypeOK, ReadError, ReceiveEOF, ReadDeadline, Fault, archives
<1>4. /\ rx'[c][n] # "done"
      /\ \A d \in Conn, m \in Node : d # c \/ m # n => rx'[d][m] = rx[d][m]
  BY <1>1, <1>3 DEF TypeOK
<1>5. TypeOK'
  BY <1>1, <1>3 DEF TypeOK, RxState
<1>6. Tables' /\ NoFalseFork'
  BY <1>3 DEF Inductive, Tables, NoFalseFork
<1>7. Direction(c, n, q)'
  BY <1>2, <1>3, <1>4 DEF Direction, Snapshots, Silent, InOrder, Covered, Complete
<1> QED BY <1>2, <1>3, <1>4, <1>5, <1>6, <1>7, OneDirection

----------------------------------------------------------------------------
(* Hanging up *)

LEMMA HangupStep ==
    ASSUME Inductive, NEW c \in Conn, NEW n \in Node, Abort(c, n) \/ Leave(c, n)
    PROVE  Inductive'
<1>1. TypeOK /\ Tables /\ n \in open[c]
  BY DEF Inductive, Abort, Leave
<1>2. /\ rows' = rows /\ quarantine' = quarantine /\ ends' = ends /\ mine' = mine
      /\ open' = [open EXCEPT ![c] = @ \ {n}]
      /\ wire' = [wire EXCEPT ![c][n] = <<>>]
      /\ theirs' = [theirs EXCEPT ![c][n] = {}]
      /\ plan' = [plan EXCEPT ![c][n] = Idle]
      /\ tx' = tx \/ tx' = [tx EXCEPT ![c][n] = "failed"]
      /\ rx' = rx \/ rx' = [rx EXCEPT ![c][n] = "failed"]
      /\ faults' \in Nat
  BY <1>1 DEF TypeOK, Abort, Leave, Hangup, Fault, archives
<1>3. TypeOK'
  <2>1. rows' \in [Node -> SUBSET Record] /\ quarantine' \in [Node -> SUBSET Record]
    BY <1>1, <1>2 DEF TypeOK
  <2>2. ends' \in [Conn -> SUBSET Node] /\ open' \in [Conn -> SUBSET Node]
    BY <1>1, <1>2 DEF TypeOK
  <2>3. tx' \in [Conn -> [Node -> TxState]]
    <3>1. "failed" \in TxState /\ tx \in [Conn -> [Node -> TxState]]
      BY <1>1 DEF TypeOK, TxState
    <3> QED BY <1>2, <3>1
  <2>4. rx' \in [Conn -> [Node -> RxState]]
    <3>1. "failed" \in RxState /\ rx \in [Conn -> [Node -> RxState]]
      BY <1>1 DEF TypeOK, RxState
    <3> QED BY <1>2, <3>1
  <2>5. mine' \in [Conn -> [Node -> SUBSET Record]]
    BY <1>1, <1>2 DEF TypeOK
  <2>6. theirs' \in [Conn -> [Node -> SUBSET Record]]
    BY <1>1, <1>2 DEF TypeOK
  <2>7. plan' \in [Conn -> [Node -> [Origin -> Int]]]
    BY <1>1, <1>2 DEF TypeOK, Idle
  <2>8. wire' \in [Conn -> [Node -> Seq(Frame)]]
    BY <1>1, <1>2, EmptySeq DEF TypeOK
  <2> QED BY <1>2, <2>1, <2>2, <2>3, <2>4, <2>5, <2>6, <2>7, <2>8 DEF TypeOK
<1>4. Tables' /\ NoFalseFork'
  BY <1>2 DEF Inductive, Tables, NoFalseFork
<1>5. \A d \in Conn : open'[d] \subseteq open[d]
  BY <1>1, <1>2 DEF TypeOK
<1>6. Pairs'
  BY <1>2, <1>5 DEF Inductive, Pairs
\* The node that hangs up is no longer sent to, and has stopped sending.
<1>7. n \notin open'[c] /\ tx'[c][n] # "sending"
  BY <1>1, <1>2 DEF TypeOK, Abort, Leave
<1>8. ASSUME NEW d \in Conn, NEW k \in Node, NEW m \in Node, Peers(d, k, m)'
      PROVE  Direction(d, k, m)'
  <2>1. Peers(d, k, m) /\ Direction(d, k, m)
    BY <1>2, <1>8 DEF Peers, Inductive
  <2>2. CASE ~ (d = c /\ k = n) /\ ~ (d = c /\ m = n)
    <3>1. /\ mine'[d][m] = mine[d][m] /\ tx'[d][m] = tx[d][m]
          /\ plan'[d][m] = plan[d][m] /\ theirs'[d][k] = theirs[d][k]
          /\ rx'[d][k] = rx[d][k] /\ wire'[d][k] = wire[d][k]
      BY <1>1, <1>2, <2>2 DEF TypeOK
    <3> QED BY <1>1, <1>2, <1>4, <1>5, <2>1, <3>1, DirectionKept
  <2>3. CASE d = c /\ k = n
    <3>1. /\ wire'[d][k] = <<>> /\ theirs'[d][k] = {} /\ k \notin open'[d]
          /\ mine'[d][m] = mine[d][m] /\ tx'[d][m] = tx[d][m]
          /\ rx'[d][k] = "done" => rx[d][k] = "done"
      BY <1>1, <1>2, <1>7, <2>1, <2>3 DEF TypeOK, Peers
    <3>2. Len(wire'[d][k]) = 0 /\ Dense({})
      BY <3>1, EmptySeq DEF Dense
    <3>3. Snapshots(d, k, m)'
      BY <1>2, <2>1, <3>1, <3>2 DEF Direction, Snapshots
    <3>4. Silent(d, k, m)' /\ InOrder(d, k)' /\ Covered(d, k, m)'
      BY <2>1, <3>1 DEF Direction, Silent, InOrder, Covered
    <3>5. Complete(d, k, m)'
      BY <1>2, <2>1, <3>1 DEF Direction, Complete
    <3> QED BY <3>3, <3>4, <3>5 DEF Direction
  <2>4. CASE d = c /\ m = n
    <3>1. /\ mine'[d][m] = mine[d][m] /\ tx'[d][m] # "sending"
          /\ tx'[d][m] = "connected" => tx[d][m] = "connected"
          /\ theirs'[d][k] = theirs[d][k] /\ wire'[d][k] = wire[d][k]
          /\ rx'[d][k] = rx[d][k] /\ (k \in open'[d] => k \in open[d])
      BY <1>1, <1>2, <1>5, <1>7, <2>1, <2>4 DEF TypeOK, Peers
    <3>2. Snapshots(d, k, m)' /\ InOrder(d, k)'
      BY <1>2, <2>1, <3>1 DEF Direction, Snapshots, InOrder
    <3>3. Silent(d, k, m)' /\ Covered(d, k, m)'
      BY <2>1, <3>1 DEF Direction, Silent, Covered
    <3>4. Complete(d, k, m)'
      BY <1>2, <2>1, <3>1 DEF Direction, Complete
    <3> QED BY <3>2, <3>3, <3>4 DEF Direction
  <2> QED BY <2>2, <2>3, <2>4
<1> QED BY <1>3, <1>4, <1>6, <1>8 DEF Inductive

----------------------------------------------------------------------------
(* Theorems about meshes whose nodes share no origin id *)

LEMMA NextInductive ==
    ASSUME OriginsDistinct, Inductive, [Next]_vars
    PROVE  Inductive'
<1>1. ASSUME NEW n \in Node, NEW lines \in LocalBatch(n), AppendLocal(n, lines)
      PROVE  Inductive'
  BY <1>1, AppendLocalStep
<1>2. ASSUME NEW c \in Conn, NEW pair \in Pair, Connect(c, pair)
      PROVE  Inductive'
  BY <1>2, ConnectStep
<1>3. ASSUME NEW c \in Conn, NEW n \in Node, Sender(c, n)
      PROVE  Inductive'
  BY <1>3, StartSendStep, EndOriginStep, AnnounceStep, SendBatchStep, SendDoneStep,
     SenderFailsStep DEF Sender
<1>4. ASSUME NEW c \in Conn, NEW n \in Node, Receiver(c, n)
      PROVE  Inductive'
  BY <1>4, ReceiveVectorStep, ReceiveRecordsStep, ReceiveDoneStep, ReceiverStopsStep
     DEF Receiver
<1>5. ASSUME NEW c \in Conn, NEW n \in Node, Failure(c, n) \/ Leave(c, n)
      PROVE  Inductive'
  BY <1>5, ReceiverStopsStep, SenderFailsStep, HangupStep DEF Failure
<1>6. CASE UNCHANGED vars
  BY <1>6, StutterStep
<1> QED BY <1>1, <1>2, <1>3, <1>4, <1>5, <1>6 DEF Next

\* The invariant the others follow from holds in every behaviour of the mesh,
\* of any size, with any number of errors, timeouts and aborted exchanges.
THEOREM InductiveInvariant ==
    ASSUME OriginsDistinct
    PROVE  Spec => []Inductive
<1>1. Init => Inductive
  BY InitInductive
<1>2. Inductive /\ [Next]_vars => Inductive'
  BY NextInductive
<1> QED BY <1>1, <1>2, PTL DEF Spec

\* No node ever has a hole below its watermark, so "everything above my
\* watermark" is all a node needs to ask for.
THEOREM GapFreedom ==
    ASSUME OriginsDistinct
    PROVE  Spec => []GapFree
<1>1. Inductive => GapFree
  BY DenseWatermark DEF Inductive, TypeOK, Tables, GapFree
<1> QED BY <1>1, InductiveInvariant, PTL

\* All copies of an origin agree with the one its own node wrote.
THEOREM Authenticity ==
    ASSUME OriginsDistinct
    PROVE  Spec => []Authentic
<1>1. Inductive => Authentic
  BY OriginAssumption
     DEF Inductive, Tables, Authentic, OfOrigin, OriginsDistinct, IsInjective
<1> QED BY <1>1, InductiveInvariant, PTL

\* While origin ids are distinct nothing is ever quarantined.
THEOREM NoFalseAlarm ==
    ASSUME OriginsDistinct
    PROVE  Spec => []NoFalseFork
<1>1. Inductive => NoFalseFork
  BY DEF Inductive
<1> QED BY <1>1, InductiveInvariant, PTL

\* A node that has read a done frame holds all that its peer announced.
THEOREM DoneMeansCaughtUp ==
    ASSUME OriginsDistinct
    PROVE  Spec => []CaughtUp
<1>1. ASSUME Inductive, NEW c \in Conn, NEW n \in Node, NEW p \in Node,
             ends[c] = {n, p}, n # p, rx[c][n] = "done"
      PROVE  mine[c][p] \subseteq rows[n]
  BY <1>1 DEF Inductive, Peers, Direction, Complete
<1>2. Inductive => CaughtUp
  BY <1>1 DEF CaughtUp
<1> QED BY <1>2, InductiveInvariant, PTL

----------------------------------------------------------------------------
(* What the mesh promises *)

\* A records frame is a batch of one origin: what the abstract step is about.
OneOrigin(f) ==
    f.kind = "records" => \A r, s \in f.rows : r.origin = s.origin

ByOrigin ==
    \A c \in Conn, n \in Node : \A i \in 1..Len(wire[c][n]) : OneOrigin(wire[c][n][i])

\* A frame of one origin may be posted.
LEMMA ByOriginAfterPost ==
    ASSUME TypeOK, ByOrigin, NEW c \in Conn, NEW p \in Node, NEW f \in Frame,
           OneOrigin(f), Post(c, p, f)
    PROVE  ByOrigin'
<1>1. CASE p \notin open[c]
  BY <1>1 DEF Post, ByOrigin
<1>2. CASE p \in open[c]
  <2> DEFINE frames == wire[c][p]
             longer == Append(frames, f)
  <2>1. frames \in Seq(Frame) /\ wire' = [wire EXCEPT ![c][p] = longer]
    BY <1>2 DEF TypeOK, Post
  <2>2. /\ Len(longer) = Len(frames) + 1 /\ Len(frames) \in Nat
        /\ \A i \in 1..Len(frames) : longer[i] = frames[i]
        /\ longer[Len(frames) + 1] = f
    BY <2>1, AppendProperties
  <2>3. wire'[c][p] = longer
        /\ \A d \in Conn, n \in Node : d # c \/ n # p => wire'[d][n] = wire[d][n]
    BY <2>1 DEF TypeOK
  <2>4. \A i \in 1..Len(frames) : OneOrigin(frames[i])
    BY DEF ByOrigin
  <2> HIDE DEF frames, longer
  <2>5. ASSUME NEW i \in 1..Len(longer)
        PROVE  OneOrigin(longer[i])
    <3>1. CASE i = Len(frames) + 1
      BY <2>2, <3>1
    <3>2. CASE i # Len(frames) + 1
      <4>1. i \in 1..Len(frames)
        BY <2>2, <3>2
      <4> QED BY <2>2, <2>4, <4>1
    <3> QED BY <3>1, <3>2
  <2> QED BY <2>3, <2>5 DEF ByOrigin
<1> QED BY <1>1, <1>2

\* A queue that is read or dropped loses frames and gets none.
LEMMA ByOriginAfterRead ==
    ASSUME TypeOK, ByOrigin, NEW c \in Conn, NEW n \in Node,
           \/ wire[c][n] # <<>> /\ wire' = [wire EXCEPT ![c][n] = Tail(@)]
           \/ wire' = [wire EXCEPT ![c][n] = <<>>]
    PROVE  ByOrigin'
<1> DEFINE frames == wire[c][n]
<1>1. frames \in Seq(Frame)
  BY DEF TypeOK
<1>2. \A d \in Conn, m \in Node : d # c \/ m # n => wire'[d][m] = wire[d][m]
  BY DEF TypeOK
<1>3. \A i \in 1..Len(frames) : OneOrigin(frames[i])
  BY DEF ByOrigin
<1>4. CASE frames # <<>> /\ wire'[c][n] = Tail(frames)
  <2> DEFINE rest == Tail(frames)
  <2>1. /\ Len(frames) \in Nat /\ Len(rest) = Len(frames) - 1
        /\ \A i \in 1..Len(rest) : rest[i] = frames[i + 1]
    BY <1>1, <1>4, HeadTailProperties
  <2> HIDE DEF frames, rest
  <2>2. ASSUME NEW i \in 1..Len(rest)
        PROVE  OneOrigin(rest[i])
    <3>1. i + 1 \in 1..Len(frames)
      BY <2>1
    <3> QED BY <1>3, <2>1, <3>1
  <2> QED BY <1>2, <1>4, <2>2 DEF ByOrigin, rest
<1>5. CASE wire'[c][n] = <<>>
  BY <1>2, <1>5 DEF ByOrigin
<1>6. \/ frames # <<>> /\ wire'[c][n] = Tail(frames)
      \/ wire'[c][n] = <<>>
  <2>1. CASE wire[c][n] # <<>> /\ wire' = [wire EXCEPT ![c][n] = Tail(@)]
    BY <2>1 DEF TypeOK
  <2>2. CASE wire' = [wire EXCEPT ![c][n] = <<>>]
    BY <2>2 DEF TypeOK
  <2> QED BY <2>1, <2>2
<1> HIDE DEF frames
<1> QED BY <1>4, <1>5, <1>6

\* Senders put batches of one origin on the wire, and nothing else does.
LEMMA ByOriginStep ==
    ASSUME TypeOK, ByOrigin, [Next]_vars
    PROVE  ByOrigin'
<1>1. CASE UNCHANGED wire
  BY <1>1 DEF ByOrigin
<1>2. ASSUME NEW n \in Node, NEW lines \in LocalBatch(n), AppendLocal(n, lines)
      PROVE  ByOrigin'
  BY <1>1, <1>2 DEF AppendLocal
<1>3. ASSUME NEW c \in Conn, NEW pair \in Pair, Connect(c, pair)
      PROVE  ByOrigin'
  <2>1. \A d \in Conn, n \in Node : wire'[d][n] = <<>> \/ wire'[d][n] = wire[d][n]
    BY <1>3 DEF Connect, TypeOK
  <2>2. ASSUME NEW d \in Conn, NEW n \in Node, NEW i \in 1..Len(wire'[d][n])
        PROVE  OneOrigin(wire'[d][n][i])
    BY <2>1, <2>2 DEF ByOrigin
  <2> QED BY <2>2 DEF ByOrigin
<1>4. ASSUME NEW c \in Conn, NEW n \in Node, Sender(c, n)
      PROVE  ByOrigin'
  <2>1. CASE StartSend(c, n) \/ \E o \in Origin : EndOrigin(c, n, o)
    BY <1>1, <2>1 DEF StartSend, EndOrigin
  <2>2. ASSUME NEW p \in Node, Announce(c, n, p)
        PROVE  ByOrigin'
    <3> DEFINE f == [kind |-> "vector", rows |-> rows[n]]
    <3>1. f \in Frame /\ OneOrigin(f)
      BY DEF Frame, OneOrigin, TypeOK
    <3> QED BY <2>2, <3>1, ByOriginAfterPost DEF Announce
  <2>3. ASSUME NEW p \in Node, NEW o \in Origin, SendBatch(c, n, p, o)
        PROVE  ByOrigin'
    <3> DEFINE batch == Since(rows[n], o, plan[c][n][o], BatchSize)
               f == [kind |-> "records", rows |-> batch]
    <3>1. batch \subseteq rows[n] /\ \A r \in batch : r.origin = o
      BY DEF Since, OfOrigin
    <3>2. f \in Frame /\ OneOrigin(f)
      BY <3>1 DEF Frame, OneOrigin, TypeOK
    <3>3. Post(c, p, f)
      BY <2>3 DEF SendBatch
    <3> QED BY <3>2, <3>3, ByOriginAfterPost
  <2>4. ASSUME NEW p \in Node, SendDone(c, n, p)
        PROVE  ByOrigin'
    <3> DEFINE f == [kind |-> "done", rows |-> {}]
    <3>1. f \in Frame /\ OneOrigin(f)
      BY DEF Frame, OneOrigin
    <3> QED BY <2>4, <3>1, ByOriginAfterPost DEF SendDone
  <2>5. ASSUME NEW p \in Node, WriteDeadline(c, n, p)
        PROVE  ByOrigin'
    BY <1>1, <2>5 DEF WriteDeadline
  <2> QED BY <1>4, <2>1, <2>2, <2>3, <2>4, <2>5 DEF Sender
<1>5. ASSUME NEW c \in Conn, NEW n \in Node, Receiver(c, n)
      PROVE  ByOrigin'
  <2>1. CASE ReceiveVector(c, n) \/ ReceiveRecords(c, n) \/ ReceiveDone(c, n)
    <3>1. wire[c][n] # <<>> /\ wire' = [wire EXCEPT ![c][n] = Tail(@)]
      BY <2>1 DEF ReceiveVector, ReceiveRecords, ReceiveDone, Incoming
    <3> QED BY <3>1, ByOriginAfterRead
  <2>2. CASE \E p \in Node : ReceiveEOF(c, n, p) \/ ReadDeadline(c, n, p)
    BY <1>1, <2>2 DEF ReceiveEOF, ReadDeadline
  <2> QED BY <1>5, <2>1, <2>2 DEF Receiver
<1>6. ASSUME NEW c \in Conn, NEW n \in Node, Failure(c, n) \/ Leave(c, n)
      PROVE  ByOrigin'
  <2>1. CASE ReadError(c, n) \/ \E p \in Node : WriteError(c, n, p)
    BY <1>1, <2>1 DEF ReadError, WriteError
  <2>2. CASE Abort(c, n) \/ Leave(c, n)
    BY <2>2, ByOriginAfterRead DEF Abort, Leave, Hangup
  <2> QED BY <1>6, <2>1, <2>2 DEF Failure
<1>7. CASE UNCHANGED vars
  BY <1>1, <1>7 DEF vars
<1> QED BY <1>2, <1>3, <1>4, <1>5, <1>6, <1>7 DEF Next

\* What the abstract specification sees of the tables.
copies == [n \in Node |-> [o \in Origin |-> Copy(rows[n], o)]]

\* A local batch extends the node's own log.
LEMMA AppendLocalExtends ==
    ASSUME OriginsDistinct, Inductive,
           NEW n \in Node, NEW lines \in LocalBatch(n), AppendLocal(n, lines)
    PROVE  Abstract!Next
<1> DEFINE o == OriginOf[n]
           table == WithLocal(rows[n], o, lines)
<1>1. /\ rows[n] \in SUBSET Record /\ IsFiniteSet(rows[n]) /\ Dense(rows[n])
      /\ o \in Origin
  BY OriginAssumption DEF Inductive, TypeOK, Tables
<1>2. rows'[n] = table /\ \A i \in Node : i # n => rows'[i] = rows[i]
  BY DEF AppendLocal, Inductive, TypeOK
<1>3. PICK k \in 1..LocalLimit : lines \in [1..k -> Line]
  BY TranscriptAssumption DEF LocalBatch
<1> DEFINE entries == [i \in 1..k |-> {lines[i]}]
<1>4. /\ Copy(table, o) = Copy(rows[n], o) \o entries
      /\ \A p : p # o => OfOrigin(table, p) = OfOrigin(rows[n], p)
  <2> HIDE DEF o
  <2>1. k \in Nat
    BY BoundAssumption
  <2> QED BY <1>1, <1>3, <2>1, CopyAppended
<1> HIDE DEF table
<1>5. ASSUME NEW i \in Node, NEW p \in Origin, i # n \/ p # o
      PROVE  Copy(rows'[i], p) = Copy(rows[i], p)
  <2>1. OfOrigin(rows'[i], p) = OfOrigin(rows[i], p)
    BY <1>2, <1>4, <1>5
  <2> QED BY <2>1, CopyOfOrigin
<1>6. entries \in [1..k -> {{l} : l \in Line}]
  BY <1>3
<1> HIDE DEF entries
<1>7. copies' = [copies EXCEPT ![n][OriginOf[n]] = @ \o entries]
  BY <1>1, <1>2, <1>4, <1>5 DEF copies
<1>8. Abstract!Extend(n, entries)
  BY <1>7 DEF Abstract!Extend, copies
<1>9. entries \in UNION {[1..i -> {{l} : l \in Line}] : i \in 1..LocalLimit}
  BY <1>6
<1> QED BY <1>8, <1>9 DEF Abstract!Next

\* What a table takes in was in the table of the origin's own node, and makes its
\* copy a longer prefix of the copy there, or leaves it as it is.
LEMMA RecordsTakePrefix ==
    ASSUME OriginsDistinct, Inductive, ByOrigin, Tables', rows' \in [Node -> SUBSET Record],
           NEW c \in Conn, NEW n \in Node, ReceiveRecords(c, n)
    PROVE  Abstract!Next \/ UNCHANGED copies
<1> DEFINE batch == Head(wire[c][n]).rows
           new == Insertable(rows[n], batch)
<1>1. /\ rows'[n] = rows[n] \cup new
      /\ \A i \in Node : i # n => rows'[i] = rows[i]
  BY DEF ReceiveRecords, Inductive, TypeOK
<1>2. CASE new = {}
  <2>1. \A i \in Node : rows'[i] = rows[i]
    BY <1>1, <1>2
  <2> QED BY <2>1 DEF copies
<1>3. CASE new # {}
  <2>1. PICK first \in new : TRUE
    BY <1>3
  <2> DEFINE o == first.origin
             k == Watermark(rows'[n], o)
  <2>2. /\ wire[c][n] \in Seq(Frame) /\ wire[c][n] # <<>>
        /\ Head(wire[c][n]).kind = "records" /\ n \in open[c]
    BY DEF ReceiveRecords, Incoming, Reading, Inductive, TypeOK
  <2>3. Head(wire[c][n]) = wire[c][n][1] /\ 1 \in 1..Len(wire[c][n])
    BY <2>2, HeadTailProperties
  <2>4. PICK p \in Node : Peers(c, n, p) /\ Direction(c, n, p)
    BY <2>2, ReadingPeer
  <2>5. batch \subseteq rows[p]
    BY <2>3, <2>4 DEF Direction, Snapshots
  <2>6. \A r \in batch : r.origin = o
    BY <2>1, <2>2, <2>3 DEF ByOrigin, OneOrigin, Insertable
  <2>7. first \in rows[p] /\ o \in Origin
    BY <2>1, <2>5 DEF Insertable, Inductive, TypeOK, Record
  <2>8. PICK w \in Node : OriginOf[w] = o
    BY <2>7 DEF Inductive, Tables
  <2>9. ASSUME NEW i \in Node, NEW r \in rows[i], r.origin = o
        PROVE  r \in rows[w]
    <3>1. PICK j \in Node : OriginOf[j] = o /\ r \in rows[j]
      BY <2>9 DEF Inductive, Tables
    <3>2. j = w
      BY <2>8, <3>1, OriginAssumption DEF OriginsDistinct, IsInjective
    <3> QED BY <3>1, <3>2
  <2>10. /\ rows[n] \in SUBSET Record /\ IsFiniteSet(rows[n]) /\ Dense(rows[n])
         /\ rows'[n] \in SUBSET Record /\ IsFiniteSet(rows'[n]) /\ Dense(rows'[n])
         /\ rows[w] \in SUBSET Record /\ IsFiniteSet(rows[w]) /\ Dense(rows[w])
         /\ \A r, s \in rows[w] : r.origin = s.origin /\ r.seq = s.seq => r = s
    BY SameKey DEF Inductive, TypeOK, Tables
  <2>11. \A r \in new : r.origin = o /\ r \in rows[w]
    BY <2>5, <2>6, <2>9 DEF Insertable
  <2> HIDE DEF new, o
  <2>12. OfOrigin(rows[n], o) \subseteq rows[w]
    BY <2>9 DEF OfOrigin
  <2>13. OfOrigin(rows'[n], o) \subseteq rows[w]
    BY <1>1, <2>11, <2>12 DEF OfOrigin
  <2>14. /\ Copy(rows'[n], o) = SubSeq(Copy(rows[w], o), 1, k)
         /\ Copy(rows[n], o) = SubSeq(Copy(rows[w], o), 1, Watermark(rows[n], o))
         /\ k \in Nat /\ k <= Watermark(rows[w], o)
    BY <2>10, <2>12, <2>13, CopyOfPart, DenseWatermark
  <2>15. /\ Len(Copy(rows[n], o)) = Watermark(rows[n], o)
         /\ Len(Copy(rows[w], o)) = Watermark(rows[w], o)
         /\ Watermark(rows[n], o) \in Nat /\ Watermark(rows[w], o) \in Nat
    BY <2>10, CopyLength, DenseWatermark
  <2>16. ASSUME NEW i \in Node, NEW q \in Origin, i # n \/ q # o
         PROVE  Copy(rows'[i], q) = Copy(rows[i], q)
    <3>1. OfOrigin(rows'[i], q) = OfOrigin(rows[i], q)
      BY <1>1, <2>11, <2>16 DEF OfOrigin
    <3> QED BY <3>1, CopyOfOrigin
  <2>17. Watermark(rows[n], o) <= k
    <3>1. OfOrigin(rows[n], o) \subseteq rows'[n]
      BY <1>1 DEF OfOrigin
    <3>2. Seqs(rows[n], o) \subseteq Seqs(rows'[n], o)
      BY <3>1 DEF Seqs, OfOrigin
    <3>3. Seqs(rows[n], o) = 1..Watermark(rows[n], o) /\ Seqs(rows'[n], o) = 1..k
      BY <2>10, DenseWatermark
    <3> DEFINE low == Watermark(rows[n], o)
    <3> HIDE DEF low, k
    <3>4. 1..low \subseteq 1..k /\ low \in Nat /\ k \in Nat
      BY <2>14, <2>15, <3>2, <3>3 DEF low
    <3>5. low <= k
      BY <3>4
    <3> QED BY <3>5 DEF low
  <2>18. CASE Watermark(rows[n], o) < k
    <3>1. copies' = [copies EXCEPT ![n][o] = SubSeq(copies[w][o], 1, k)]
      BY <2>7, <2>14, <2>16 DEF copies
    <3>2. k > Len(copies[n][o]) /\ k \in 1..Len(copies[w][o])
      BY <2>7, <2>14, <2>15, <2>18 DEF copies
    <3>3. Abstract!CatchUp(n, w, o, k)
      BY <3>1, <3>2 DEF Abstract!CatchUp, copies
    <3> QED BY <2>7, <3>2, <3>3 DEF Abstract!Next, copies
  <2>19. CASE Watermark(rows[n], o) = k
    <3>1. Copy(rows'[n], o) = Copy(rows[n], o)
      BY <2>14, <2>19
    <3>2. \A i \in Node, q \in Origin : Copy(rows'[i], q) = Copy(rows[i], q)
      BY <2>16, <3>1
    <3> QED BY <3>2 DEF copies
  <2> QED BY <2>14, <2>15, <2>17, <2>18, <2>19
<1> QED BY <1>2, <1>3

\* Every step maps to one of the promise, or to none.
LEMMA StepImplements ==
    ASSUME OriginsDistinct, Inductive, ByOrigin, [Next]_vars
    PROVE  Abstract!Next \/ UNCHANGED copies
<1>1. Tables' /\ rows' \in [Node -> SUBSET Record]
  BY NextInductive DEF Inductive, TypeOK
<1>2. CASE \E n \in Node : \E lines \in LocalBatch(n) : AppendLocal(n, lines)
  BY <1>2, AppendLocalExtends
<1>3. ASSUME UNCHANGED rows
      PROVE  UNCHANGED copies
  BY <1>3 DEF copies
<1>4. CASE \E c \in Conn, pair \in Pair : Connect(c, pair)
  BY <1>3, <1>4 DEF Connect, archives
<1>5. ASSUME NEW c \in Conn, NEW n \in Node, Sender(c, n)
      PROVE  UNCHANGED copies
  BY <1>3, <1>5 DEF Sender, StartSend, EndOrigin, Announce, SendBatch, SendDone,
                    WriteDeadline, archives
<1>6. ASSUME NEW c \in Conn, NEW n \in Node, Receiver(c, n)
      PROVE  Abstract!Next \/ UNCHANGED copies
  <2>1. CASE ReceiveRecords(c, n)
    BY <1>1, <2>1, RecordsTakePrefix
  <2>2. CASE ReceiveVector(c, n) \/ ReceiveDone(c, n)
             \/ \E p \in Node : ReceiveEOF(c, n, p) \/ ReadDeadline(c, n, p)
    BY <1>3, <2>2 DEF ReceiveVector, ReceiveDone, ReceiveEOF, ReadDeadline, archives
  <2> QED BY <1>6, <2>1, <2>2 DEF Receiver
<1>7. ASSUME NEW c \in Conn, NEW n \in Node, Failure(c, n) \/ Leave(c, n)
      PROVE  UNCHANGED copies
  BY <1>3, <1>7 DEF Failure, ReadError, WriteError, Abort, Leave, archives
<1>8. CASE UNCHANGED vars
  BY <1>3, <1>8 DEF vars
<1> QED BY <1>2, <1>4, <1>5, <1>6, <1>7, <1>8 DEF Next

\* Empty tables are empty copies.
LEMMA InitImplements ==
    ASSUME Init
    PROVE  Abstract!Init
<1>1. \A o : Copy({}, o) = <<>>
  BY CopyOfNothing
<1> QED BY <1>1 DEF Init, Abstract!Init

\* Exchanges keep the promise of replication, however they overlap, fail and
\* start again: a copy only ever grows to a longer prefix of another.
THEOREM ExchangesImplementReplicas ==
    ASSUME OriginsDistinct
    PROVE  Spec => ImplementsReplicas
<1>1. Init => Abstract!Init
  BY InitImplements
<1>2. Init => ByOrigin
  BY DEF Init, ByOrigin
<1>3. Inductive /\ ByOrigin /\ [Next]_vars => ByOrigin'
  BY ByOriginStep DEF Inductive
<1>4. Inductive /\ ByOrigin /\ [Next]_vars => [Abstract!Next]_copies
  BY StepImplements
<1> QED BY <1>1, <1>2, <1>3, <1>4, InductiveInvariant, PTL
        DEF Spec, ImplementsReplicas, Abstract!Spec, copies
=============================================================================
