\* One worker, as in LanServer.cfg, and another thread that sends.
SPECIFICATION FairSpec
CONSTANTS
  w1 = w1
  w2 = w2
  x = x
  p1 = p1
  p2 = p2
  p3 = p3
  Workers <- MCOneWorker
  Others <- MCOthers
  Packets <- MCThree
INVARIANT
  BuffersHeld
PROPERTIES
  SendsInOrder
  SendsEverything
