---------------------------- MODULE AntiEntropy ----------------------------
(***************************************************************************)
(* Replication between archives: internal/mesh/sync over the table of      *)
(* module Archive, on connections that internal/mesh opens and closes.     *)
(*                                                                         *)
(* A connection joins two nodes; each end runs Exchange, which announces a *)
(* snapshot of what the node holds, then sends and receives at the same    *)
(* time in two goroutines.  tx is the state of an end's sender goroutine,  *)
(* rx of its receiver, wire[c][n] the frames on their way to n.            *)
(***************************************************************************)
EXTENDS Archive

CONSTANTS
    Node,        \* archives, one database each
    OriginOf,    \* the origin id in a node's database
    Transcript,  \* the lines of a node's transcript files
    Reachable,   \* <<dialer, listener>>: the addresses nodes know and can reach
    Conn,        \* connections that can be open at once
    BatchSize,   \* records per message (500 in the code)
    LocalLimit,  \* longest local batch (bounds AppendLocal)
    Window,      \* frames in flight before a write blocks (bounds the wire)
    MaxFaults    \* errors, timeouts and crashes in a behaviour

ASSUME OriginAssumption == OriginOf \in [Node -> Origin]
ASSUME TranscriptAssumption == Transcript \in [Node -> SUBSET Line]
ASSUME ReachableAssumption == Reachable \subseteq Node \X Node
ASSUME BatchAssumption == BatchSize \in Nat \ {0}
ASSUME BoundAssumption == /\ LocalLimit \in Nat /\ Window \in Nat \ {0}
                           /\ MaxFaults \in Nat

Frame == [kind : {"vector", "records", "done"}, rows : SUBSET Record]

\* connected:  Exchange has not announced yet
\* announced:  vector sent, waiting for the peer's
\* sending:    walking the origins
TxState == {"connected", "announced", "sending", "done", "failed"}

\* waiting:  the peer's announcement has not arrived
\* reading:  applying records
RxState == {"waiting", "reading", "done", "eof", "failed"}

VARIABLES
    rows,        \* node -> its records table
    quarantine,  \* node -> fork evidence
    ends,        \* connection -> the two nodes it joins (or joined last)
    open,        \* connection -> the ends still in Exchange
    tx, rx,      \* connection -> node -> state of its sender and its receiver
    mine,        \* connection -> node -> the snapshot it announced
    theirs,      \* connection -> node -> the announcement its sender works from
    plan,        \* connection -> node -> origin -> send above this, -1 when finished
    wire,        \* connection -> node -> frames sent to it and not read yet
    faults       \* errors so far

archives == <<rows, quarantine>>
vars == <<rows, quarantine, ends, open, tx, rx, mine, theirs, plan, wire, faults>>

Idle == [o \in Origin |-> -1]

Init ==
    /\ rows = [n \in Node |-> {}]
    /\ quarantine = [n \in Node |-> {}]
    /\ ends = [c \in Conn |-> {}]
    /\ open = [c \in Conn |-> {}]
    /\ tx = [c \in Conn |-> [n \in Node |-> "connected"]]
    /\ rx = [c \in Conn |-> [n \in Node |-> "waiting"]]
    /\ mine = [c \in Conn |-> [n \in Node |-> {}]]
    /\ theirs = [c \in Conn |-> [n \in Node |-> {}]]
    /\ plan = [c \in Conn |-> [n \in Node |-> Idle]]
    /\ wire = [c \in Conn |-> [n \in Node |-> <<>>]]
    /\ faults = 0

----------------------------------------------------------------------------
(* Collecting *)

HoldsLine(n, l) == \E r \in rows[n] : r.origin = OriginOf[n] /\ r.line = l

LocalBatch(n) ==
    UNION {{s \in [1..k -> Transcript[n]] : IsInjective(s)} : k \in 1..LocalLimit}

\* One transaction of AppendLocal.  A batch acts as its lines that are not held.
AppendLocal(n, lines) ==
    /\ \A i \in DOMAIN lines : ~HoldsLine(n, lines[i])
    /\ rows' = [rows EXCEPT ![n] = WithLocal(@, OriginOf[n], lines)]
    /\ UNCHANGED <<quarantine, ends, open, tx, rx, mine, theirs, plan, wire, faults>>

----------------------------------------------------------------------------
(* Connections *)

\* The pairs of nodes that exchange: one can reach the other, and they have
\* different origin ids (a node refuses its own id, which a clone announces).
Pair ==
    {{ab[1], ab[2]} : ab \in {ab \in Reachable : OriginOf[ab[1]] # OriginOf[ab[2]]}}

\* A dial that succeeded.
Connect(c, pair) ==
    /\ open[c] = {}
    /\ ends' = [ends EXCEPT ![c] = pair]
    /\ open' = [open EXCEPT ![c] = pair]
    /\ tx' = [tx EXCEPT ![c] = [n \in Node |-> "connected"]]
    /\ rx' = [rx EXCEPT ![c] = [n \in Node |-> "waiting"]]
    /\ mine' = [mine EXCEPT ![c] = [n \in Node |-> {}]]
    /\ theirs' = [theirs EXCEPT ![c] = [n \in Node |-> {}]]
    /\ plan' = [plan EXCEPT ![c] = [n \in Node |-> Idle]]
    /\ wire' = [wire EXCEPT ![c] = [n \in Node |-> <<>>]]
    /\ UNCHANGED <<archives, faults>>

\* The end of node n on connection c, whose other end is node p.
Joined(c, n, p) == n \in open[c] /\ p \in ends[c] /\ n # p

\* Frames written to an end that has gone are lost.
Post(c, p, f) ==
    wire' = IF p \in open[c] THEN [wire EXCEPT ![c][p] = Append(@, f)] ELSE wire

Writable(c, p) == p \in open[c] => Len(wire[c][p]) < Window

----------------------------------------------------------------------------
(* The sender goroutine *)

\* announce, then the vector frame.
Announce(c, n, p) ==
    /\ Joined(c, n, p)
    /\ tx[c][n] = "connected"
    /\ Writable(c, p)
    /\ mine' = [mine EXCEPT ![c][n] = rows[n]]
    /\ tx' = [tx EXCEPT ![c][n] = "announced"]
    /\ Post(c, p, [kind |-> "vector", rows |-> rows[n]])
    /\ UNCHANGED <<archives, ends, open, rx, theirs, plan, faults>>

\* (mutant) A node sends nothing but its own records.
StartSendOwn(c, n) ==
    /\ n \in open[c]
    /\ tx[c][n] = "announced"
    /\ rx[c][n] # "waiting"
    /\ tx' = [tx EXCEPT ![c][n] = "sending"]
    /\ plan' = [plan EXCEPT ![c][n] = [Idle EXCEPT ![OriginOf[n]] =
                   ResendFrom(mine[c][n], theirs[c][n], OriginOf[n])]]
    /\ UNCHANGED <<archives, ends, open, rx, mine, theirs, wire, faults>>

\* The sender gets the peer's announcement from its channel; closed without
\* one, the channel yields an empty announcement and the sender starts from 0.
StartSend(c, n) ==
    /\ n \in open[c]
    /\ tx[c][n] = "announced"
    /\ rx[c][n] # "waiting"
    /\ tx' = [tx EXCEPT ![c][n] = "sending"]
    /\ plan' = [plan EXCEPT ![c][n] =
                   [o \in Origin |-> ResendFrom(mine[c][n], theirs[c][n], o)]]
    /\ UNCHANGED <<archives, ends, open, rx, mine, theirs, wire, faults>>

Sending(c, n, o) ==
    /\ tx[c][n] = "sending"
    /\ plan[c][n][o] >= 0

\* One turn of the inner loop of send: the query runs on the live table.
SendBatch(c, n, p, o) ==
    LET batch == Since(rows[n], o, plan[c][n][o], BatchSize) IN
    /\ Joined(c, n, p)
    /\ Sending(c, n, o)
    /\ batch # {}
    /\ Writable(c, p)
    /\ plan' = [plan EXCEPT ![c][n][o] = Watermark(batch, o)]
    /\ Post(c, p, [kind |-> "records", rows |-> batch])
    /\ UNCHANGED <<archives, ends, open, tx, rx, mine, theirs, faults>>

\* Nothing above: on to the next origin.
EndOrigin(c, n, o) ==
    /\ n \in open[c]
    /\ Sending(c, n, o)
    /\ Since(rows[n], o, plan[c][n][o], BatchSize) = {}
    /\ plan' = [plan EXCEPT ![c][n][o] = -1]
    /\ UNCHANGED <<archives, ends, open, tx, rx, mine, theirs, wire, faults>>

\* (mutant) The done frame does not wait for the records.
SendDoneEarly(c, n, p) ==
    /\ Joined(c, n, p)
    /\ tx[c][n] = "sending"
    /\ Writable(c, p)
    /\ tx' = [tx EXCEPT ![c][n] = "done"]
    /\ Post(c, p, [kind |-> "done", rows |-> {}])
    /\ UNCHANGED <<archives, ends, open, rx, mine, theirs, plan, faults>>

SendDone(c, n, p) ==
    /\ Joined(c, n, p)
    /\ tx[c][n] = "sending"
    /\ plan[c][n] = Idle
    /\ Writable(c, p)
    /\ tx' = [tx EXCEPT ![c][n] = "done"]
    /\ Post(c, p, [kind |-> "done", rows |-> {}])
    /\ UNCHANGED <<archives, ends, open, rx, mine, theirs, plan, faults>>

----------------------------------------------------------------------------
(* The receiver goroutine *)

Reading(c, n) ==
    /\ n \in open[c]
    /\ tx[c][n] # "connected"
    /\ rx[c][n] \in {"waiting", "reading"}

Incoming(c, n, kind) ==
    /\ Reading(c, n)
    /\ wire[c][n] # <<>>
    /\ Head(wire[c][n]).kind = kind
    /\ wire' = [wire EXCEPT ![c][n] = Tail(@)]

ReceiveVector(c, n) ==
    /\ Incoming(c, n, "vector")
    /\ theirs' = [theirs EXCEPT ![c][n] = Head(wire[c][n]).rows]
    /\ rx' = [rx EXCEPT ![c][n] = "reading"]
    /\ UNCHANGED <<archives, ends, open, tx, mine, plan, faults>>

\* One transaction of AppendRemote.
ReceiveRecords(c, n) ==
    LET batch == Head(wire[c][n]).rows IN
    /\ Incoming(c, n, "records")
    /\ rows' = [rows EXCEPT ![n] = @ \cup Insertable(@, batch)]
    /\ quarantine' = [quarantine EXCEPT ![n] = @ \cup ForkEvidence(rows[n], batch)]
    /\ UNCHANGED <<ends, open, tx, rx, mine, theirs, plan, faults>>

ReceiveDone(c, n) ==
    /\ Incoming(c, n, "done")
    /\ rx' = [rx EXCEPT ![c][n] = "done"]
    /\ UNCHANGED <<archives, ends, open, tx, mine, theirs, plan, faults>>

\* The peer hung up: not an error, whatever is still missing.
ReceiveEOF(c, n, p) ==
    /\ Joined(c, n, p)
    /\ Reading(c, n)
    /\ wire[c][n] = <<>>
    /\ p \notin open[c]
    /\ rx' = [rx EXCEPT ![c][n] = "eof"]
    /\ UNCHANGED <<archives, ends, open, tx, mine, theirs, plan, wire, faults>>

----------------------------------------------------------------------------
(* Errors *)

Fault == faults < MaxFaults /\ faults' = faults + 1

\* A frame that cannot be read or decoded, or a transaction that fails: the
\* receiver stops, the sender does not.
ReadError(c, n) ==
    /\ Reading(c, n)
    /\ Fault
    /\ rx' = [rx EXCEPT ![c][n] = "failed"]
    /\ UNCHANGED <<archives, ends, open, tx, mine, theirs, plan, wire>>

\* A query or a write that fails; a write to an end that has gone may.
WriteError(c, n, p) ==
    /\ Joined(c, n, p)
    /\ tx[c][n] \in {"connected", "announced", "sending"}
    /\ IF p \in open[c] THEN Fault ELSE UNCHANGED faults
    /\ tx' = [tx EXCEPT ![c][n] = "failed"]
    /\ UNCHANGED <<archives, ends, open, rx, mine, theirs, plan, wire>>

\* (mutant) No deadline on reads.
ReadDeadlineNever(c, n, p) == FALSE

\* The idle deadline, for the two waits nothing else would end: a read from a
\* peer whose sender has failed, a write to a peer whose receiver has.
ReadDeadline(c, n, p) ==
    /\ Joined(c, n, p)
    /\ Reading(c, n)
    /\ wire[c][n] = <<>>
    /\ tx[c][p] = "failed"
    /\ rx' = [rx EXCEPT ![c][n] = "failed"]
    /\ UNCHANGED <<archives, ends, open, tx, mine, theirs, plan, wire, faults>>

WriteDeadline(c, n, p) ==
    /\ Joined(c, n, p)
    /\ tx[c][n] = "sending"
    /\ ~Writable(c, p)
    /\ rx[c][p] = "failed"
    /\ tx' = [tx EXCEPT ![c][n] = "failed"]
    /\ UNCHANGED <<archives, ends, open, rx, mine, theirs, plan, wire, faults>>

Hangup(c, n) ==
    /\ open' = [open EXCEPT ![c] = @ \ {n}]
    /\ wire' = [wire EXCEPT ![c][n] = <<>>]
    /\ theirs' = [theirs EXCEPT ![c][n] = {}]
    /\ plan' = [plan EXCEPT ![c][n] = Idle]

\* Exchange timed out, or the process died; every open end of a process that
\* dies aborts.
Abort(c, n) ==
    /\ n \in open[c]
    /\ Fault
    /\ Hangup(c, n)
    /\ tx' = [tx EXCEPT ![c][n] = "failed"]
    /\ rx' = [rx EXCEPT ![c][n] = "failed"]
    /\ UNCHANGED <<archives, ends, mine>>

\* Both goroutines have ended: Exchange returns and the connection is closed.
Leave(c, n) ==
    /\ n \in open[c]
    /\ tx[c][n] \in {"done", "failed"}
    /\ rx[c][n] \in {"done", "eof", "failed"}
    /\ Hangup(c, n)
    /\ UNCHANGED <<archives, ends, tx, rx, mine, faults>>

----------------------------------------------------------------------------

Sender(c, n) ==
    \/ StartSend(c, n)
    \/ \E o \in Origin : EndOrigin(c, n, o)
    \/ \E p \in Node : \/ Announce(c, n, p)
                       \/ \E o \in Origin : SendBatch(c, n, p, o)
                       \/ SendDone(c, n, p)
                       \/ WriteDeadline(c, n, p)

Receiver(c, n) ==
    \/ ReceiveVector(c, n)
    \/ ReceiveRecords(c, n)
    \/ ReceiveDone(c, n)
    \/ \E p \in Node : ReceiveEOF(c, n, p) \/ ReadDeadline(c, n, p)

Failure(c, n) ==
    \/ ReadError(c, n)
    \/ \E p \in Node : WriteError(c, n, p)
    \/ Abort(c, n)

Next ==
    \/ \E n \in Node : \E lines \in LocalBatch(n) : AppendLocal(n, lines)
    \/ \E c \in Conn, pair \in Pair : Connect(c, pair)
    \/ \E c \in Conn, n \in Node :
          Sender(c, n) \/ Receiver(c, n) \/ Failure(c, n) \/ Leave(c, n)

Spec == Init /\ [][Next]_vars

\* Goroutines run, and every node's sweep dials each of its peers again and
\* again: a pair that can connect over and over in the end does.
Fairness ==
    /\ \A c \in Conn, n \in Node :
          WF_vars(Sender(c, n)) /\ WF_vars(Receiver(c, n)) /\ WF_vars(Leave(c, n))
    /\ \A pair \in Pair : SF_vars(\E c \in Conn : Connect(c, pair))

FairSpec == Spec /\ Fairness

----------------------------------------------------------------------------
(* Properties *)

\* One type for every variable.
TypeOK ==
    /\ rows \in [Node -> SUBSET Record]
    /\ quarantine \in [Node -> SUBSET Record]
    /\ ends \in [Conn -> SUBSET Node]
    /\ open \in [Conn -> SUBSET Node]
    /\ tx \in [Conn -> [Node -> TxState]]
    /\ rx \in [Conn -> [Node -> RxState]]
    /\ mine \in [Conn -> [Node -> SUBSET Record]]
    /\ theirs \in [Conn -> [Node -> SUBSET Record]]
    /\ plan \in [Conn -> [Node -> [Origin -> Int]]]
    /\ wire \in [Conn -> [Node -> Seq(Frame)]]
    /\ faults \in Nat

\* No two databases share an origin id: no clone, no restored copy in use.
OriginsDistinct == IsInjective(OriginOf)

\* What "everything after my watermark" rests on: no node ever has a hole below
\* its watermark, however exchanges overlap, stop half-way and start again
\* (0001_init.sql: "Gap-freeness is load-bearing").
GapFree ==
    \A n \in Node, o \in Origin : Seqs(rows[n], o) = 1..Watermark(rows[n], o)

\* Nobody holds a record under a node's origin that the node did not write:
\* all copies of an origin agree, record by record.
Authentic ==
    \A n, m \in Node : OfOrigin(rows[n], OriginOf[m]) \subseteq rows[m]

\* The fork detector raises no false alarm: duplicates, overlapping exchanges
\* and retries never look like a duplicated origin id.
NoFalseFork == \A n \in Node : quarantine[n] = {}

\* What the primary key and the semantic indexes allow in one table.
Keyed(table) ==
    \A r, s \in table :
        r.origin = s.origin /\ (r.seq = s.seq \/ r.line = s.line) => r = s

\* Records are never merged: a table holds one line per sequence number of an
\* origin, and a line once, even while two machines issue records under one
\* origin id.
UniqueKeys == \A n \in Node : Keyed(rows[n])

\* A done frame means what it says: a node that has read one holds everything
\* its peer announced on that connection, although the peer skipped what the
\* node had announced, and other exchanges and collectors ran all along.
CaughtUp ==
    \A c \in Conn, n, p \in Node :
        /\ ends[c] = {n, p} /\ n # p
        /\ rx[c][n] = "done"
        => mine[c][p] \subseteq rows[n]

\* Every line a node collects reaches every node in the end, through nodes in
\* between if need be, although exchanges fail on the way.
Replication ==
    \A m \in Node, l \in Line :
        HoldsLine(m, l) ~>
            \A n \in Node : \E r \in rows[n] : r.origin = OriginOf[m] /\ r.line = l

\* No exchange hangs: whatever goroutine of whichever end fails first, both
\* ends return in the end.
ExchangesEnd ==
    \A c \in Conn, n \in Node : n \in open[c] ~> n \notin open[c]

\* Where the two announcements were comparable -- as many records in a bucket
\* on both sides -- a finished exchange has put every record the peer announced
\* there into the table or into the quarantine (sync.go, resendFrom: "so the
\* receiver sees the conflicting records and can quarantine them").
ForkSurfaced ==
    \A c \in Conn, n, p \in Node, o \in Origin :
        /\ ends[c] = {n, p} /\ n # p
        /\ rx[c][n] = "done"
        => \A r \in OfOrigin(mine[c][p], o) :
              Cardinality(InBucket(mine[c][p], o, Bucket(r)))
                  = Cardinality(InBucket(mine[c][n], o, Bucket(r)))
              => r \in rows[n] \cup quarantine[n]

\* A sequence number issued twice is noticed: evidence of it ends up in some
\* node's quarantine (AGENT.md: "quarantined, never merged and never discarded").
ForkNoticed ==
    \A o \in Origin, k \in 1..Cardinality(Line) :
        (\E n, m \in Node : \E r \in OfOrigin(rows[n], o), s \in OfOrigin(rows[m], o) :
            r.seq = k /\ s.seq = k /\ r # s)
        ~> \E n \in Node : \E r \in OfOrigin(quarantine[n], o) : r.seq = k

----------------------------------------------------------------------------
(* The inductive invariant behind GapFree, Authentic, NoFalseFork, UniqueKeys *)
(* and CaughtUp when no two databases share an origin id.                    *)

\* Tables are finite and dense, a record stands in the table of a node that
\* owns its origin, and an owner issues neither a number nor a line twice.
Tables ==
    /\ \A n \in Node : IsFiniteSet(rows[n]) /\ Dense(rows[n])
    /\ \A n \in Node : \A r \in rows[n] :
          \E m \in Node : OriginOf[m] = r.origin /\ r \in rows[m]
    /\ \A m \in Node : \A r, s \in rows[m] :
          /\ r.origin = OriginOf[m] /\ s.origin = OriginOf[m]
          /\ r.seq = s.seq \/ r.line = s.line
          => r = s

Peers(c, n, p) == n \in ends[c] /\ p \in ends[c] /\ n # p

\* A connection has two ends.
Pairs ==
    \A c \in Conn :
        /\ open[c] \subseteq ends[c]
        /\ \A n \in ends[c] : \E p \in ends[c] : n # p
        /\ \A n, p, q \in ends[c] : n = p \/ q = n \/ q = p

\* The rest holds of either direction of a connection, here from p to n.
\* Whatever p has announced, sent or is known by was in its table, and
\* announcements are dense.
Snapshots(c, n, p) ==
    /\ mine[c][p] \subseteq rows[p] /\ Dense(mine[c][p])
    /\ theirs[c][n] \subseteq rows[p] /\ Dense(theirs[c][n])
    /\ \A i \in 1..Len(wire[c][n]) :
          /\ wire[c][n][i].rows \subseteq rows[p]
          /\ wire[c][n][i].kind = "vector" => Dense(wire[c][n][i].rows)

\* What a table becomes once i more frames have been read.
Reached(table, frames, i) ==
    table \cup UNION {frames[j].rows : j \in {k \in 1..i : frames[k].kind = "records"}}

\* An end that has not announced has sent nothing.
Silent(c, n, p) ==
    tx[c][p] = "connected" => wire[c][n] = <<>> /\ rx[c][n] # "done"

\* Reading the frames in order never opens a hole.
InOrder(c, n) ==
    n \in open[c] =>
        \A i \in 0..Len(wire[c][n]) : Dense(Reached(rows[n], wire[c][n], i))

\* What the sender skips n holds or is being sent, and an origin the sender
\* has finished with has been sent as far as it was announced.
Covered(c, n, p) ==
    LET reached == Reached(rows[n], wire[c][n], Len(wire[c][n])) IN
    n \in open[c] /\ tx[c][p] = "sending" =>
        \A o \in Origin :
            /\ plan[c][p][o] >= -1
            /\ \A q \in 1..plan[c][p][o] : Has(reached, o, q)
            /\ plan[c][p][o] = -1 => OfOrigin(mine[c][p], o) \subseteq reached

\* A done frame stands behind all that was announced.
Complete(c, n, p) ==
    /\ rx[c][n] = "done" => mine[c][p] \subseteq rows[n]
    /\ n \in open[c] =>
          \A i \in 1..Len(wire[c][n]) :
              wire[c][n][i].kind = "done"
                  => mine[c][p] \subseteq Reached(rows[n], wire[c][n], i)

Direction(c, n, p) ==
    /\ Snapshots(c, n, p) /\ Silent(c, n, p) /\ InOrder(c, n)
    /\ Covered(c, n, p) /\ Complete(c, n, p)

Inductive ==
    /\ TypeOK /\ Tables /\ NoFalseFork /\ Pairs
    /\ \A c \in Conn, n, p \in Node : Peers(c, n, p) => Direction(c, n, p)

----------------------------------------------------------------------------
(* The abstract specification. *)

Abstract == INSTANCE Replicas WITH
    copy    <- [n \in Node |-> [o \in Origin |-> Copy(rows[n], o)]],
    Batches <- UNION {[1..k -> {{l} : l \in Line}] : k \in 1..LocalLimit}

\* Exchanges implement the promise: whatever arrives, in whatever order and
\* however often, a copy only grows to a longer prefix of another.
ImplementsReplicas == Abstract!Spec
=============================================================================
