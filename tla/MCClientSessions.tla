--------------------------- MODULE MCClientSessions ---------------------------
(* One slot that is used twice, two workers.                                *)
EXTENDS ClientSessions
CONSTANTS w1, w2
MCSlots == {0}
MCWorkers == {w1, w2}
MCModes == {"own", "foreign", "faulty"}
WorkerSymmetry == Permutations(MCWorkers)
=============================================================================
