\* Two workers and the acceptor on one slot: handlers that call on their own
\* session, over two connections, and calls from anywhere, over one.
SPECIFICATION FairSpec
CONSTANTS
  w1 = w1
  w2 = w2
  Acceptor = acceptor
  NoSlot = NoSlot
  NoId = NoId
  Slots <- MCSlots
  Workers <- MCWorkers
  MaxAccept = 2
  MaxForeignAccept = 1
  MaxMsgs = 1
  MaxCalls = 2
  CallModes = {FALSE, TRUE}
INVARIANTS
  RefCountExact
  NoUseAfterRelease
  IndexConserved
  SidesSerial
  
  NoMisdelivery
PROPERTY
  DoomedAreReleased
