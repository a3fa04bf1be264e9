----------------------------- MODULE Replicas -----------------------------
(***************************************************************************)
(* What replication promises, with no connections, messages or tables:     *)
(* every node keeps, for every origin, a copy of that origin's log.  Only  *)
(* the origin's own node extends the log, and a copy only ever grows to a  *)
(* longer prefix of what some node holds.                                  *)
(***************************************************************************)
EXTENDS Integers, Sequences

CONSTANTS
    Node,
    Origin,
    OriginOf,  \* node -> its origin
    Batches    \* the sequences of entries a node can append at once

VARIABLE copy  \* node -> origin -> the entries held, in order

Init == copy = [n \in Node |-> [o \in Origin |-> <<>>]]

\* A node appends to its own log.
Extend(n, batch) ==
    copy' = [copy EXCEPT ![n][OriginOf[n]] = @ \o batch]

\* A node's copy grows to the first k entries of a longer one.
CatchUp(n, m, o, k) ==
    /\ k > Len(copy[n][o])
    /\ copy' = [copy EXCEPT ![n][o] = SubSeq(copy[m][o], 1, k)]

Next ==
    \/ \E n \in Node, batch \in Batches : Extend(n, batch)
    \/ \E n, m \in Node, o \in Origin : \E k \in 1..Len(copy[m][o]) : CatchUp(n, m, o, k)

Spec == Init /\ [][Next]_copy
=============================================================================
