\* Two players and a computer player on a strip of three sectors.
SPECIFICATION FairSpec
CONSTANTS
  s1 = s1
  s2 = s2
  user1 = user1
  user2 = user2
  Sessions <- MCTwo
  AICount = 1
  Inits = 1
  Width = 3
  Depth = 1
  MaxHp = 1
  Users <- MCUsers
  NoUser = NoUser
  UserOf <- MCUserOf
  Zone <- MCZone
  Spawn <- MCSpawn
  Required = 2
  WinTime = 2
  DeathTime = 1
  CheckTime = 1
  CleanTime = 1
  MaxAsks = 6
  Orderly = TRUE
INVARIANTS
  WorldAgrees
  ViewsRight
  
PROPERTIES
  DeadAreBuried
  GameEnds
