----------------------------- MODULE MCPeering -----------------------------
(* A node, one peer it discovers, and an address both machines have, such as *)
(* that of a container bridge: the peer advertises it, the node is even      *)
(* configured with it, and here it leads back to the node.                   *)
EXTENDS Peering, TLC

CONSTANTS self, near, nobody, lan, port, bridge

MCAddr == {lan, port, bridge}
MCHost == [a \in MCAddr |->
    IF a \in {lan, port} THEN "lan" ELSE "bridge"]
MCOwner == [a \in MCAddr |->
    IF a = lan THEN near ELSE IF a = bridge THEN self ELSE nobody]
MCAdvertised == [p \in {near} |-> <<lan, bridge>>]
MCSource == [p \in {near} |-> lan]
MCEphemeral == [p \in {near} |-> port]
MCSkew == [p \in {near} |-> 1]
MCOrder == <<near, Static(bridge)>>

\* The node is configured with an address at which nobody listens instead.
ConfiguredOrder == <<near, Static(port)>>
=============================================================================
