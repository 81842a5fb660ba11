----------------------------- MODULE MCInbound -----------------------------
EXTENDS Inbound, TLC

CONSTANTS n1, n2, p1, p2

\* The first message comes from one peer, the others from another.
MCPeerOf == [m \in Msg |-> IF m = 1 THEN p1 ELSE p2]

=============================================================================
