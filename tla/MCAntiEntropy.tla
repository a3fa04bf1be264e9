--------------------------- MODULE MCAntiEntropy ---------------------------
(* AntiEntropy in a mesh whose nodes share no origin id. *)
EXTENDS AntiEntropy, TLC

CONSTANTS a, b, d, x, y

\* A node's origin id is its own name here.
OwnOrigin == [n \in Node |-> n]

\* Node a collects; what the others hold comes from it, directly or not.
OneCollector == [n \in Node |-> IF n = a THEN {x, y} ELSE {}]

\* Everyone reaches everyone: two nodes can feed a third at once.
FullMesh == Node \X Node

\* Nodes a and d only ever meet b.
Chain == {<<a, b>>, <<d, b>>}

LineAndConnSymmetry == Permutations(Line) \cup Permutations(Conn)
=============================================================================
