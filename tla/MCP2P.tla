------------------------------- MODULE MCP2P -------------------------------
EXTENDS P2P, TLC

PeerSymmetry == Permutations(Peer)
=============================================================================
