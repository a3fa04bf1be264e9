------------------------------ MODULE MCFork ------------------------------
(* AntiEntropy when two machines run clones of one database.  The clones   *)
(* refuse each other; a third node exchanges with both.                    *)
EXTENDS AntiEntropy, TLC

CONSTANTS orig, clone, relay, shared, own, x, y, z

\* The clone carries the origin id of the original.
ClonedOrigin == [n \in Node |-> IF n = relay THEN own ELSE shared]

\* Each machine collects only what was written on it.
OwnLines == [n \in Node |-> CASE n = orig  -> {x, y}
                              [] n = clone -> {z}
                              [] OTHER     -> {}]

\* Line y was in the home directory that was cloned along with the database,
\* not collected yet.
ClonedLine == [n \in Node |-> CASE n = orig  -> {x, y}
                                [] n = clone -> {y}
                                [] OTHER     -> {}]

FullMesh == Node \X Node
=============================================================================
