------------------------- MODULE MCSessionLifetime -------------------------
(* Instances of SessionLifetime for TLC.  The workers are interchangeable   *)
(* in every predicate of the module.                                        *)
EXTENDS SessionLifetime, TLC

CONSTANTS w1, w2

MCSlots == {0}
MCWorkers == {w1, w2}
WorkerSymmetry == Permutations(MCWorkers)
=============================================================================
