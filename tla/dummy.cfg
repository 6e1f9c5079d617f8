\* Two dummies of a thread and the lobby, one connection lost.
SPECIFICATION FairSpec
CONSTANTS
  Dummies = {d1, d2}
  Rooms <- MCRooms
  MaxRooms = 1
  RoomSize = 2
  EnoughRooms = 1
  MaxDrops = 1
INVARIANTS
  ListsAgree
  DiesOfLatePackets
  AgreesWithLobby
PROPERTIES
  ActsAgain
CHECK_DEADLOCK FALSE
