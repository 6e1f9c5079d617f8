----------------------------- MODULE MCJobQueue -----------------------------
(* Instances of JobTimer, and with it of JobQueue, for TLC.                 *)
EXTENDS JobTimer

CONSTANTS w1, w2, x, q1, q2, j1, j2, j3

MCWorkers == {w1, w2}
MCOthers == {x}
MCQueues == {q1, q2}
MCJobs == {j1, j2, j3}
MCReserved == {j3}
MCDelays == {0, 1}
=============================================================================
