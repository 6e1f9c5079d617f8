\* One concurrent thread, as in LanServer.cfg: one worker.
SPECIFICATION StopFairSpec
CONSTANTS
  Concurrent = 1
  MaxSessions = 2
  MaxAccept = 3
  MaxWork = 3
INVARIANT
  ClearedAlone
PROPERTY
  StopReturns
