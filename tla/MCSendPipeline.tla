--------------------------- MODULE MCSendPipeline ---------------------------
(* Instances of SendPipeline for TLC.                                       *)
EXTENDS SendPipeline

CONSTANTS w1, w2, x, p1, p2, p3

MCOneWorker == {w1}
MCTwoWorkers == {w1, w2}
MCOthers == {x}
MCThree == {p1, p2, p3}
=============================================================================
