---------------------------- MODULE PacketLayout ----------------------------
(***************************************************************************)
(* The packets of the lobby, the game and the dummy client: for each kind, *)
(* the fields its struct adds up to header.size, the fields each builder   *)
(* puts behind the header and the fields each handler takes out again, and *)
(* jh_utility::SerializationBuffer, which carries them.                    *)
(*                                                                         *)
(* A field is named by its type: a bool b, a USHORT h, a float f, an id or *)
(* time stamp q; a name, an IP address, a byte c of text.                  *)
(***************************************************************************)
EXTENDS Integers, FiniteSets, SequencesExt

CONSTANTS NameLen, IpLen   (* bytes of a room name and of an IP address     *)

ASSUME LayoutAssumption == NameLen \in Nat \ {0} /\ IpLen \in Nat \ {0}

Width == [b |-> 1, h |-> 2, f |-> 4, q |-> 8, c |-> 1, name |-> NameLen, ip |-> IpLen]
SizeOf(fs) == Cardinality(UNION {{j} \X (1 .. Width[fs[j]]) : j \in DOMAIN fs})

PacketHeader == <<"h", "h">>        (* size, type                           *)
HeaderSize == SizeOf(PacketHeader)

Vector3 == <<"f", "f", "f">>
RoomInfo == <<"q", "h", "h", "h", "name">>
Times(n, fs) == [j \in 1 .. n * Len(fs) |-> fs[((j - 1) % Len(fs)) + 1]]
Text(n) == Times(n, <<"c">>)

(* A table is a set of rows, each a kind and its fields.  The rows that give *)
(* each of the kinds ks the fields fs.                                       *)
Rows(ks, fs) == ks \X {fs}

-----------------------------------------------------------------------------
(* SerializationBuffer: cap bytes, of which front to rear hold data.  Its   *)
(* operators << and >> end the program when the room or the data are short; *)
(* PutData and GetData, for the fields Blobs, do nothing then.              *)
Blobs == {"name", "ip", "c"}
NewBuffer(c) == [cap |-> c, front |-> 0, rear |-> 0, ok |-> TRUE]

GetFreeBytes(b) == b.cap - b.rear
GetDataSize(b) == b.rear - b.front

PutField(b, x) ==
  IF GetFreeBytes(b) >= Width[x] THEN [b EXCEPT !.rear = @ + Width[x]]
  ELSE [b EXCEPT !.ok = @ /\ x \in Blobs]

TakeField(b, x) ==
  IF GetDataSize(b) >= Width[x] THEN [b EXCEPT !.front = @ + Width[x]]
  ELSE [b EXCEPT !.ok = @ /\ x \in Blobs]

MoveRearPos(b, n) ==
  [b EXCEPT !.rear = @ + (IF GetFreeBytes(b) < n THEN GetFreeBytes(b) ELSE n)]

-----------------------------------------------------------------------------
(* What header.size is the size of; n is the length of what varies.         *)
(* Talk, errors and log-ins.                                                *)
DeclaredTalk(n) ==
  Rows({"Echo", "LogInResponse", "OwnerChangeNotify", "LogOutNotify"}, <<"q">>)
  \cup Rows({"ChatRoomResponse", "LeaveRoomResponse"}, <<>>)
  \cup Rows({"Error"}, <<"h">>) \cup Rows({"LogInRequest"}, <<"q", "q">>)
  \cup Rows({"ChatRoomRequest"}, <<"h", "h">> \o Text(n))
  \cup Rows({"ChatNotify"}, <<"q", "h">> \o Text(n))

(* Rooms, and readiness in them.                                            *)
DeclaredRooms(n) ==
  Rows({"EnterRoomNotify", "LeaveRoomNotify"}, <<"q">>)
  \cup Rows({"RoomListRequest", "GameStartNotify"}, <<>>)
  \cup Rows({"MakeRoomRequest"}, <<"name">>) \cup Rows({"GameReadyRequest"}, <<"b">>)
  \cup Rows({"EnterRoomRequest", "LeaveRoomRequest"}, <<"h", "name">>)
  \cup Rows({"MakeRoomResponse"}, <<"b">> \o RoomInfo)
  \cup Rows({"EnterRoomResponse"}, <<"b", "h">> \o Times(n, <<"q">>))
  \cup Rows({"RoomListResponse"}, <<"h">> \o Times(n, RoomInfo))
  \cup Rows({"GameReadyNotify"}, <<"b", "q">>)

(* What the lobby and the game servers say to each other.                   *)
DeclaredLan ==
  Rows({"GameServerSettingRequest"}, <<>>)
  \cup Rows({"GameServerSettingResponse"}, <<"h", "h", "h">>)
  \cup Rows({"GameServerLanInfo"}, <<"ip", "h", "h", "q">>)

(* The way into a game, and the characters of it.                           *)
DeclaredEntry ==
  Rows({"GameInitDone", "EnterGameResponse", "GameLoadComplete"}, <<>>)
  \cup Rows({"EnterGameRequest"}, <<"q", "q">>)
  \cup Rows({"LeaveGameNotify", "DeleteOtherCharacter"}, <<"q">>)
  \cup Rows({"MakeMyCharacter", "MakeOtherCharacter"}, <<"q">> \o Vector3)

(* Play, and the heartbeat of every connection.                             *)
DeclaredPlay ==
  Rows({"AttackRequest", "SpectatorInit", "GameEndNotify", "WinnerInfoNotify"}, <<>>)
  \cup Rows({"AttackNotify", "DieNotify", "InvalidateWinnerNotify", "Heartbeat"}, <<"q">>)
  \cup Rows({"UpdateWinnerNotify"}, <<"q", "q">>) \cup Rows({"AttackedNotify"}, <<"q", "h">>)
  \cup Rows({"MoveStartRequest", "MoveStopRequest"}, Vector3 \o <<"f">>)
  \cup Rows({"MoveStartNotify", "MoveStopNotify"}, <<"q">> \o Vector3 \o <<"f">>)
  \cup Rows({"CharacterPositionSync"}, <<"q">> \o Vector3 \o Vector3)
  \cup Rows({"UpdateTransform"}, <<"q", "q">> \o Vector3 \o Vector3)

Declared(n) ==
  DeclaredTalk(n) \cup DeclaredRooms(n) \cup DeclaredLan \cup DeclaredEntry \cup DeclaredPlay
Kinds == {row[1] : row \in Declared(0)}
DeclaredFields(n, k) == (CHOOSE row \in Declared(n) : row[1] = k)[2]

-----------------------------------------------------------------------------
(* What the builders put behind the header.                                 *)
BuiltForRooms(n) ==
  Rows({"LogInResponse", "EnterRoomNotify", "LeaveRoomNotify"}, <<"q">>)
  \cup Rows({"LeaveRoomResponse"}, <<>>) \cup Rows({"Error"}, <<"h">>)
  \cup Rows({"MakeRoomResponse"}, <<"b">> \o RoomInfo)
  \cup Rows({"EnterRoomResponse"}, <<"b", "h">> \o Times(n, <<"q">>))
  \cup Rows({"RoomListResponse"}, <<"h">> \o Times(n, RoomInfo))

(* The rest of the lobby's builders.                                        *)
BuiltForMembers(n) ==
  Rows({"Echo", "OwnerChangeNotify"}, <<"q">>) \cup Rows({"GameStartNotify"}, <<>>)
  \cup Rows({"GameReadyNotify"}, <<"b", "q">>)
  \cup Rows({"GameServerLanInfo"}, <<"ip", "h", "h", "q">>)
  \cup Rows({"GameServerSettingResponse"}, <<"h", "h", "h">>)
  \cup Rows({"ChatNotify"}, <<"q", "h">> \o Text(n))

(* Room::Chat answers with a header.                                        *)
BuiltByRoom == Rows({"ChatRoomResponse"}, <<>>)

(* Variant of CharacterSync: the rotation is left out. *)
CharacterSyncShort == <<"q">> \o Vector3

(* BuildCharacterSyncPacket.                                                *)
CharacterSync == <<"q">> \o Vector3 \o Vector3

(* The builders of the game for its entities.                               *)
BuiltForEntities ==
  Rows({"Error"}, <<"h">>) \cup Rows({"GameInitDone"}, <<>>)
  \cup Rows({"AttackNotify", "DeleteOtherCharacter", "DieNotify"}, <<"q">>)
  \cup Rows({"AttackedNotify"}, <<"q", "h">>)
  \cup Rows({"MakeMyCharacter", "MakeOtherCharacter"}, <<"q">> \o Vector3)
  \cup Rows({"MoveStartNotify", "MoveStopNotify"}, <<"q">> \o Vector3 \o <<"f">>)
  \cup Rows({"UpdateTransform"}, <<"q", "q">> \o Vector3 \o Vector3)

(* The builders of the game for what it is about.                           *)
BuiltForGame(n) ==
  Rows({"InvalidateWinnerNotify"}, <<"q">>) \cup Rows({"UpdateWinnerNotify"}, <<"q", "q">>)
  \cup Rows({"CharacterPositionSync"}, CharacterSync)
  \cup Rows({"SpectatorInit", "EnterGameResponse", "GameEndNotify", "WinnerInfoNotify",
           "GameStartNotify", "GameServerSettingRequest"}, <<>>)
  \cup Rows({"GameServerLanInfo"}, <<"ip", "h", "h", "q">>)
  \cup Rows({"ChatNotify"}, <<"q", "h">> \o Text(n))

BuiltByDummy(n) ==
  Rows({"LogInRequest"}, <<"q", "q">>) \cup Rows({"Heartbeat", "Echo"}, <<"q">>)
  \cup Rows({"MakeRoomRequest"}, <<"name">>) \cup Rows({"RoomListRequest"}, <<>>)
  \cup Rows({"EnterRoomRequest", "LeaveRoomRequest"}, <<"h", "name">>)
  \cup Rows({"ChatRoomRequest"}, <<"h", "h">> \o Text(n))

(* The operators << of PacketDefine that put a whole packet.                *)
PutByOperator ==
  Rows({"Error"}, <<"h">>) \cup Rows({"LogInRequest"}, <<"q", "q">>)
  \cup Rows({"LogInResponse", "EnterRoomNotify", "LeaveRoomNotify",
           "OwnerChangeNotify"}, <<"q">>)
  \cup Rows({"MakeRoomRequest"}, <<"name">>) \cup Rows({"GameReadyNotify"}, <<"b", "q">>)
  \cup Rows({"MakeRoomResponse"}, <<"b">> \o RoomInfo)

(* The clients of players are not in the repository: they fill the structs. *)
BuiltByPlayers ==
  LET ks == {"EnterGameRequest", "GameReadyRequest", "GameLoadComplete",
             "MoveStartRequest", "MoveStopRequest", "AttackRequest"}
  IN {row \in Declared(0) : row[1] \in ks}

Builders(n) ==
  {BuiltForRooms(n), BuiltForMembers(n), BuiltByRoom, BuiltForEntities,
   BuiltForGame(n), BuiltByDummy(n), PutByOperator, BuiltByPlayers}

-----------------------------------------------------------------------------
(* What the handlers take out.                                              *)
TakenInLobby(n) ==
  Rows({"LogInRequest"}, <<"q", "q">>) \cup Rows({"MakeRoomRequest"}, <<"name">>)
  \cup Rows({"ChatRoomRequest"}, <<"h", "h">> \o Text(n))

(* Handlers of those in a room, and of heartbeats.                          *)
TakenInRooms ==
  Rows({"EnterRoomRequest", "LeaveRoomRequest"}, <<"h", "name">>)
  \cup Rows({"GameReadyRequest"}, <<"b">>) \cup Rows({"Heartbeat"}, <<"q">>)

(* HandleLanInfoNotify.                                                     *)
TakenFromLan == Rows({"GameServerLanInfo"}, <<"ip", "h", "h", "q">>)

(* HandleEnterGameRequestPacket and the two of moves.                       *)
TakenByGame ==
  Rows({"EnterGameRequest"}, <<"q", "q">>)
  \cup Rows({"MoveStartRequest", "MoveStopRequest"}, Vector3 \o <<"f">>)

(* Chat in the game, and the answer of the lobby.                           *)
TakenBesideGame(n) ==
  Rows({"ChatRoomRequest"}, <<"h", "h">> \o Text(n))
  \cup Rows({"GameServerSettingResponse"}, <<"h", "h", "h">>)

(* Variant of RoomList: the rooms are taken without their number. *)
RoomListUncounted(n) == Times(n, RoomInfo)

(* HandleRoomListResponsePacket.                                            *)
RoomList(n) == <<"h">> \o Times(n, RoomInfo)

TakenByDummy(n) ==
  Rows({"RoomListResponse"}, RoomList(n))
  \cup Rows({"MakeRoomResponse"}, <<"b">> \o RoomInfo)
  \cup Rows({"LogInResponse", "Echo"}, <<"q">>) \cup Rows({"EnterRoomResponse"}, <<"b">>)
  \cup Rows({"Error"}, <<"h">>)

(* The operators >> of PacketDefine that take a whole packet.               *)
TakenByOperator ==
  Rows({"Error"}, <<"h">>) \cup Rows({"LogInRequest"}, <<"q", "q">>)
  \cup Rows({"LogInResponse", "EnterRoomNotify", "OwnerChangeNotify"}, <<"q">>)
  \cup Rows({"MakeRoomRequest"}, <<"name">>)
  \cup Rows({"EnterRoomRequest", "LeaveRoomRequest"}, <<"h", "name">>)
  \cup Rows({"MakeRoomResponse"}, <<"b">> \o RoomInfo)

Handlers(n) ==
  {TakenInLobby(n), TakenInRooms, TakenFromLan, TakenByGame, TakenBesideGame(n),
   TakenByDummy(n), TakenByOperator}

(* The different ways in which some table of tables treats kind k.          *)
Ways(tables, k) == {row[2] : row \in {r \in UNION tables : r[1] = k}}
=============================================================================
