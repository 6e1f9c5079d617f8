\* Two connection attempts through one slot, in each of the three modes.
SPECIFICATION ClientFairSpec
CONSTANTS
  w1 = w1
  w2 = w2
  Slots <- MCSlots
  Workers <- MCWorkers
  Connector = Connector
  Caller = Caller
  NoSlot = NoSlot
  NoId = NoId
  Modes <- MCModes
  MaxConnects = 2
  MaxMsgs = 1
  MaxCalls = 2
INVARIANTS
  IndexConserved
  SidesSerial
PROPERTIES
  AttemptsEnd
CHECK_DEADLOCK FALSE
