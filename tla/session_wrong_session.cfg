\* Calls from anywhere, a second connection on the slot.
SPECIFICATION Spec
CONSTANTS
  w1 = w1
  w2 = w2
  Acceptor = acceptor
  NoSlot = NoSlot
  NoId = NoId
  Slots <- MCSlots
  Workers <- MCWorkers
  MaxAccept = 2
  MaxForeignAccept = 2
  MaxMsgs = 0
  MaxCalls = 1
  CallModes = {TRUE}
SYMMETRY WorkerSymmetry
INVARIANT
  AcquiredIsNamed
