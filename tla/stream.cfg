\* Every kind of packet, cut anywhere, through the receive path of a server.
SPECIFICATION FairSpec
CONSTANTS
  NameLen = 3
  IpLen = 3
  RingSize = 46
  MaxPackets = 3
  Followers <- MCFollowers
  Counts <- MCCounts
  MaxCuts = 1
  FromFront = FALSE
INVARIANTS
  RingHolds
  
  FieldsReadBack
PROPERTIES
  AllArrive
CHECK_DEADLOCK FALSE
