----------------------------- MODULE MCRingCalls -----------------------------
(* An instance of RingCalls: two bytes, up to four of them in a call.       *)
EXTENDS RingCalls

MCData == UNION {[1 .. n -> {1, 2}] : n \in 0 .. 4}
=============================================================================
