\* Three clients that wait for the answer to each request, space for one room at a time.
SPECIFICATION FairSpec
CONSTANTS
  a = a
  b = b
  c = c
  Users <- MCThree
  NoRoom = NoRoom
  MaxRooms = 1
  RoomSize = 2
  MaxMade = 2
  MaxRequests = 4
  Patient = TRUE
INVARIANTS
  
  RoomsListed
  ServersMatch
PROPERTIES
  RunningRoomsServed
  
