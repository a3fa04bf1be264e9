----------------------------- MODULE MCBridge -----------------------------
(* Bridge between two or three machines that share a folder. *)
EXTENDS Bridge, TLC

CONSTANTS a, b, x, y, z, share, copy

\* A node's origin id is its own name here.
OwnOrigin == [n \in Node |-> n]

\* Node a writes long enough for a bundle to be cut short, filled and followed.
Writers == [n \in Node |-> IF n = a THEN {x, y, z} ELSE {}]

\* One network share.
Share == [n \in Node |-> share]

\* Every node has its own replica of the folder.
Synced == [n \in Node |-> IF n = a THEN share ELSE copy]

\* The others meet a in the mesh as well.
MeshFromA == (Node \ {a}) \X {a}

LineSymmetry == Permutations(Line)
=============================================================================
