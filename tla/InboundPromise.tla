--------------------------- MODULE InboundPromise ---------------------------
(***************************************************************************)
(* What the inbound pipeline promises about a message, whatever the number *)
(* of nodes that poll its bot: it is claimed at most once and in upstream  *)
(* order, and a claimed message is either answered, once, or lost.  It is  *)
(* never claimed again after that.                                         *)
(***************************************************************************)
EXTENDS Naturals

CONSTANTS Msg, Peer, PeerOf

VARIABLE fate

Fate == {"sent", "claimed", "answered", "lost"}

Init == fate = [m \in Msg |-> "sent"]

Claim(m) ==
    /\ fate[m] = "sent"
    /\ \A k \in Msg : k < m => fate[k] # "sent"
    /\ fate' = [fate EXCEPT ![m] = "claimed"]

Settle(S, how) ==
    /\ \A m \in S : fate[m] = "claimed"
    /\ fate' = [m \in Msg |-> IF m \in S THEN how ELSE fate[m]]

\* One reply answers a batch of messages of one peer.
Answer(p) == \E S \in SUBSET {m \in Msg : PeerOf[m] = p} : Settle(S, "answered")
Lose == \E S \in SUBSET Msg : Settle(S, "lost")

Next == (\E m \in Msg : Claim(m)) \/ (\E p \in Peer : Answer(p)) \/ Lose

Spec == Init /\ [][Next]_fate
=============================================================================
