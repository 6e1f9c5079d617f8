---------------------------- MODULE MCRecvStream ----------------------------
(* An instance of RecvStream: any packet, then one that makes it wrap.      *)
EXTENDS RecvStream

MCFollowers == {"UpdateTransform"}
MCCounts == {0, 2, 3}
=============================================================================
