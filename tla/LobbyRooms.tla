----------------------------- MODULE LobbyRooms -----------------------------
(***************************************************************************)
(* Users and rooms of the lobby server (LobbySystem, RoomManager, Room,    *)
(* UserManager, User).  A room is a JobQueue: the handlers, which run on   *)
(* any worker but one at a time for each session, look at the user and the *)
(* room and post a job; the jobs of a room run one after the other, in the *)
(* order in which they were posted (JobQueue, SerialExecutor), some time   *)
(* later when another thread is at work in the room.                       *)
(*                                                                         *)
(* A room that starts its game enters the list of pending rooms and a game *)
(* server is launched, which asks for the settings of a room over its LAN  *)
(* session, is given those of whichever room is first in the list, and     *)
(* announces its address, which the room sends to its members.  What the   *)
(* game server does in between is GameSystem's HandleSettingResponse.      *)
(***************************************************************************)
EXTENDS Integers, Sequences, FiniteSets, SequencesExt

CONSTANTS
  Users,        (* one per session                                          *)
  NoRoom,       (* room number of a user in no room                         *)
  MaxRooms,     (* m_usMaxRoomCnt                                           *)
  RoomSize,     (* m_usMaxRoomUserCnt                                       *)
  MaxMade,      (* bound: rooms ever made; their numbers do not repeat      *)
  MaxRequests,  (* bound: requests of all clients                           *)
  Patient       (* TRUE: a client makes its next request, or closes, when   *)
                (* the job of the last one has run; FALSE: at any time      *)

MaxUShort == 65535
UShorts == 0 .. MaxUShort

Rooms == 1 .. MaxMade
Servers == 1 .. MaxMade   (* a room launches one at most                    *)

ASSUME LobbyAssumption ==
  /\ IsFiniteSet(Users) /\ NoRoom \notin Rooms
  /\ Users \cap Servers = {}                     (* jobs tell them apart    *)
  /\ MaxRooms \in Nat \ {0} /\ RoomSize \in 1 .. MaxUShort  (* USHORT      *)
  /\ MaxMade \in Nat /\ MaxRequests \in Nat /\ Patient \in BOOLEAN

VARIABLES
  session,     (* of each user: not "new" any more, "open" or "closed"      *)
  registered,  (* users in the maps of UserManager                          *)
  joined, roomNum, ready,  (* m_bJoinFlag, m_usRoomNum, m_bIsReady          *)
  room,        (* the Room objects                                          *)
  made,        (* roomNumGen                                                *)
  roomMap,     (* m_roomMap, its keys                                       *)
  usingRooms,  (* m_usUsingRoomCnt                                          *)
  jobs,        (* jobs of each room, oldest first                           *)
  executing,   (* whether a thread or the global queue has the room         *)
  handler,     (* what the handler of a session is doing                    *)
  pending,     (* m_pendingGameRoomList                                     *)
  servers,     (* of each game server: how far it is, its room, and the     *)
               (* users it waits for                                        *)
  requests     (* used part of MaxRequests                                  *)

userVars == <<joined, roomNum, ready>>
lanVars == <<pending, servers>>
roomVars == <<room, made, roomMap, usingRooms, lanVars>>
queueVars == <<jobs, executing>>
vars == <<session, registered, userVars, roomVars, queueVars, handler, requests>>

USHORT(n) == n % (MaxUShort + 1)

Idle == [at |-> "idle", act |-> "none", room |-> NoRoom]
Unmade == [members |-> {}, cur |-> 0, readyCnt |-> 0, owner |-> "none", running |-> FALSE]

Init ==
  /\ session = [u \in Users |-> "new"] /\ registered = {}
  /\ joined = [u \in Users |-> FALSE]
  /\ roomNum = [u \in Users |-> NoRoom]
  /\ ready = [u \in Users |-> FALSE]
  /\ room = [r \in Rooms |-> Unmade]
  /\ made = 0 /\ roomMap = {} /\ usingRooms = 0
  /\ jobs = [r \in Rooms |-> <<>>]
  /\ executing = [r \in Rooms |-> FALSE]
  /\ handler = [u \in Users |-> Idle]
  /\ pending = <<>> /\ requests = 0
  /\ servers = [g \in Servers |-> [at |-> "off", room |-> NoRoom, required |-> 0]]

-----------------------------------------------------------------------------
(* Handlers.  Jobs of a user that have not run:                             *)
Waiting(u) == \E r \in Rooms : \E i \in 1 .. Len(jobs[r]) : jobs[r][i].who = u

MayAct(u) == handler[u].at = "idle" /\ session[u] = "open" /\ (Patient => ~Waiting(u))

Go(u, step) == handler' = [handler EXCEPT ![u].at = step]
Return(u) == handler' = [handler EXCEPT ![u] = Idle]

CreateUser(u) == registered' = registered \cup {u}
RemoveUser(u) == registered' = registered \ {u}

(* HandleLogInRequestPacket, the first packet of a session.                 *)
LogIn(u) ==
  /\ session[u] = "new"
  /\ session' = [session EXCEPT ![u] = "open"]
  /\ CreateUser(u)
  /\ UNCHANGED <<userVars, roomVars, queueVars, handler, requests>>

(* A packet comes in.  Enter and leave name a room, one that was ever made, *)
(* and look it up first; make, ready and chat begin with what the user says *)
(* of its room.                                                             *)
Request(u) ==
  /\ MayAct(u) /\ requests < MaxRequests /\ requests' = requests + 1
  /\ \/ \E act \in {"enter", "leave"}, r \in 1 .. made :
          handler' = [handler EXCEPT ![u] = [at |-> "find", act |-> act, room |-> r]]
     \/ \E act \in {"make", "ready", "unready", "chat"} :
          /\ act = "make" => made + Cardinality({v \in Users : handler[v].act = "make"}) < MaxMade
          /\ handler' = [handler EXCEPT ![u] = [at |-> "check", act |-> act, room |-> NoRoom]]
  /\ UNCHANGED <<session, registered, userVars, roomVars, queueVars>>

(* The session is released: OnDisconnected calls DisconnectUser.            *)
Disconnect(u) ==
  /\ MayAct(u)
  /\ session' = [session EXCEPT ![u] = "closed"]
  /\ handler' = [handler EXCEPT ![u] = [at |-> "check", act |-> "bye", room |-> NoRoom]]
  /\ UNCHANGED <<registered, userVars, roomVars, queueVars, requests>>

(* GetRoom.                                                                 *)
FindRoom(u) ==
  /\ handler[u].at = "find"
  /\ IF handler[u].room \notin roomMap
     THEN Return(u)
     ELSE Go(u, IF handler[u].act \in {"enter", "leave"} THEN "check" ELSE "post")
  /\ UNCHANGED <<session, registered, userVars, roomVars, queueVars, requests>>

(* TryGetRoomId, and what each handler makes of it: only who is in no room  *)
(* makes one ...                                                            *)
Checks(u, acts) ==
  /\ handler[u].at = "check" /\ handler[u].act \in acts
  /\ UNCHANGED <<session, userVars, roomVars, queueVars, requests>>

CheckMake(u) ==
  /\ Checks(u, {"make"})
  /\ IF joined[u] THEN Return(u) ELSE Go(u, "reserve")
  /\ UNCHANGED registered

(* ... or enters one ...                                                    *)
CheckEnter(u) ==
  /\ Checks(u, {"enter"})
  /\ IF joined[u] THEN Return(u) ELSE Go(u, "post")
  /\ UNCHANGED registered

(* ... and a room is left only by who is in it.                             *)
CheckLeave(u) ==
  /\ Checks(u, {"leave"})
  /\ IF joined[u] /\ roomNum[u] = handler[u].room THEN Go(u, "post") ELSE Return(u)
  /\ UNCHANGED registered

(* The others go to the room the user says it is in.  (A chat names a room  *)
(* too, and is dropped when it is another one.)                             *)
CheckOwn(u) ==
  /\ Checks(u, {"ready", "unready", "chat"})
  /\ IF joined[u]
     THEN handler' = [handler EXCEPT ![u].at = "find", ![u].room = roomNum[u]]
     ELSE Return(u)
  /\ UNCHANGED registered

(* DisconnectUser: who is in no room is removed at once.                    *)
DisconnectUser(u) ==
  /\ Checks(u, {"bye"})
  /\ IF joined[u]
     THEN /\ handler' = [handler EXCEPT ![u].at = "find", ![u].room = roomNum[u]]
          /\ UNCHANGED registered
     ELSE Return(u) /\ RemoveUser(u)

(* The job is queued, and somebody will execute it.                         *)
DoAsync(r, act, who) ==
  /\ jobs' = [jobs EXCEPT ![r] = Append(@, [act |-> act, who |-> who])]
  /\ executing' = [executing EXCEPT ![r] = TRUE]

(* DoAsync of a handler.  With nobody at work in the room the thread  *)
(* that posted it executes it before the handler goes on; a DisconnectUser  *)
(* may itself come out of a job, and then the global queue gets the room.   *)
Post(u) ==
  /\ handler[u].at = "post"
  /\ LET r == handler[u].room
     IN /\ DoAsync(r, handler[u].act, u)
        /\ \/ ~executing[r] /\ Go(u, "execute")
           \/ (executing[r] \/ handler[u].act = "bye") /\ Return(u)
  /\ UNCHANGED <<session, registered, userVars, roomVars, requests>>

(* It returns from Execute when there are no more jobs, or when its time is *)
(* up and others have posted more.                                          *)
EndExecute(u) ==
  /\ handler[u].at = "executed"
  /\ ~executing[handler[u].room] \/ jobs[handler[u].room] # <<>>
  /\ Return(u)
  /\ UNCHANGED <<session, registered, userVars, roomVars, queueVars, requests>>

(* CreateRoom.  The counter is raised, and lowered again when it shows that *)
(* there are too many rooms.                                                *)
Reserve(u) ==
  /\ handler[u].at = "reserve"
  /\ usingRooms' = usingRooms + 1
  /\ Go(u, IF usingRooms' > MaxRooms THEN "unreserve" ELSE "create")
  /\ UNCHANGED <<session, registered, userVars, room, made, roomMap, lanVars, queueVars, requests>>

Unreserve(u) ==
  /\ handler[u].at = "unreserve"
  /\ usingRooms' = usingRooms - 1
  /\ Return(u)
  /\ UNCHANGED <<session, registered, userVars, room, made, roomMap, lanVars, queueVars, requests>>

(* User::SetRoom; a user that gets a room is not ready there.               *)
SetRoom(u, r) ==
  /\ joined' = [joined EXCEPT ![u] = (r # NoRoom)]
  /\ roomNum' = [roomNum EXCEPT ![u] = r]

(* OnCreated, with the fields CreateRoom fills in: the owner is in the room.*)
OnCreated(u) == [Unmade EXCEPT !.members = {u}, !.cur = 1, !.owner = u]

(* The room gets its number, OnCreated runs at once, as nobody else is at   *)
(* work in a new room, and the room is entered in the map; nobody can see   *)
(* it before that.                                                          *)
Create(u) ==
  /\ handler[u].at = "create"
  /\ made' = made + 1
  /\ room' = [room EXCEPT ![made'] = OnCreated(u)]
  /\ roomMap' = roomMap \cup {made'}
  /\ SetRoom(u, made')
  /\ ready' = [ready EXCEPT ![u] = FALSE]
  /\ Return(u)
  /\ UNCHANGED <<session, registered, usingRooms, lanVars, queueVars, requests>>

-----------------------------------------------------------------------------
(* Jobs of a room.                                                          *)
Current(r, acts) == executing[r] /\ jobs[r] # <<>> /\ Head(jobs[r]).act \in acts

Executed(r) ==
  LET u == Head(jobs[r]).who
  IN /\ jobs' = [jobs EXCEPT ![r] = Tail(@)]
     /\ handler' = IF u \in Users /\ handler[u].at = "execute" /\ handler[u].room = r
                   THEN [handler EXCEPT ![u].at = "executed"] ELSE handler
     /\ UNCHANGED <<session, made, executing, requests>>

(* m_userMap holds weak pointers.                                           *)
Alive(u) == u \in registered \/ Waiting(u) \/ handler[u] # Idle

(* TryEnterRoom.  The user is entered in the map and told its room ...      *)
Admit(r, u) ==
  /\ room' = [room EXCEPT ![r].members = @ \cup {u}, ![r].cur = USHORT(@ + 1)]
  /\ SetRoom(u, r)
  /\ ready' = [ready EXCEPT ![u] = FALSE]

(* Variant of OpenTo: a room that everybody has left is entered. *)
OpenToEmpty(R) == Cardinality(R.members) < RoomSize /\ ~R.running

(* Variant of OpenTo: a room whose game has started is entered. *)
OpenToRunning(R) == R.cur # 0 /\ Cardinality(R.members) < RoomSize

(* ... unless the room is empty, full or running: then nothing is changed,  *)
(* nor answered when it is empty.                                           *)
OpenTo(R) == R.cur # 0 /\ Cardinality(R.members) < RoomSize /\ ~R.running

EnterJob(r) ==
  /\ Current(r, {"enter"})
  /\ IF OpenTo(room[r]) THEN Admit(r, Head(jobs[r]).who) ELSE UNCHANGED <<userVars, room>>
  /\ Executed(r)
  /\ UNCHANGED <<registered, roomMap, usingRooms, lanVars>>

(* UpdateUserReadyStatus: the ready count, and the start of the game when   *)
(* it is the owner and the count that of the members.                       *)
Readied(R, u, b) ==
  LET n == USHORT(IF b THEN R.readyCnt + 1 ELSE R.readyCnt - 1)
      starts == R.owner = u /\ R.cur = n /\ ~R.running
  IN [room |-> [R EXCEPT !.readyCnt = n, !.running = @ \/ starts], starts |-> starts]

(* onGameStartFunc: the room waits for the next game server that asks, and  *)
(* one more is launched.                                                    *)
OnGameStart(r) ==
  LET launched == {g \in Servers : servers[g].at # "off"}
  IN /\ pending' = Append(pending, r)
     /\ servers' = [servers EXCEPT ![Cardinality(launched) + 1].at = "asking"]

(* Nothing is done for a user whose status is the new one already.          *)
UpdateReady(r, R, u, b) ==
  IF ready[u] = b
  THEN room' = [room EXCEPT ![r] = R] /\ UNCHANGED <<ready, lanVars>>
  ELSE LET new == Readied(R, u, b)
       IN /\ room' = [room EXCEPT ![r] = new.room]
          /\ ready' = [ready EXCEPT ![u] = b]
          /\ IF new.starts THEN OnGameStart(r) ELSE UNCHANGED lanVars

ReadyJob(r) ==
  /\ Current(r, {"ready", "unready"})
  /\ UpdateReady(r, room[r], Head(jobs[r]).who, Head(jobs[r]).act = "ready")
  /\ Executed(r)
  /\ UNCHANGED <<registered, joined, roomNum, roomMap, usingRooms>>

ChatJob(r) ==
  /\ Current(r, {"chat"})
  /\ Executed(r)
  /\ UNCHANGED <<registered, userVars, room, roomMap, usingRooms, lanVars>>

(* SetRoom clears m_usRoomNum first, and a handler may look in between.     *)
LeaveBegins(r) ==
  /\ Current(r, {"leave", "bye"})
  /\ roomNum' = [roomNum EXCEPT ![Head(jobs[r]).who] = NoRoom]
  /\ UNCHANGED <<session, registered, joined, ready, roomVars, queueVars, handler, requests>>

(* Variant of Released: m_usCurUserCnt is left as it is. *)
ReleasedUncounted(R, u) == [R EXCEPT !.members = @ \ {u}]

(* ReleaseUser.                                                             *)
Released(R, u) == [R EXCEPT !.members = @ \ {u}, !.cur = USHORT(@ - 1)]

(* The next owner is whoever the map of users has first, and starts out not *)
(* ready.                                                                   *)
Delegate(r, R) ==
  \E o \in R.members :
    IF Alive(o)
    THEN UpdateReady(r, [R EXCEPT !.owner = o], o, FALSE)
    ELSE room' = [room EXCEPT ![r] = [R EXCEPT !.owner = o]] /\ UNCHANGED <<ready, lanVars>>

DestroyRoom(r) ==
  /\ roomMap' = roomMap \ {r}
  /\ usingRooms' = IF r \in roomMap THEN usingRooms - 1 ELSE usingRooms

(* LeaveRoom; the room is destroyed when nobody is left.                    *)
Leave(r, u) ==
  LET R == Released(room[r], u)
  IN /\ SetRoom(u, NoRoom)
     /\ \/ /\ R.members = {}
           /\ DestroyRoom(r)
           /\ room' = [room EXCEPT ![r] = R]
           /\ UNCHANGED <<ready, lanVars>>
        \/ /\ R.members # {}
           /\ IF u = R.owner THEN Delegate(r, R)
              ELSE room' = [room EXCEPT ![r] = R] /\ UNCHANGED <<ready, lanVars>>
           /\ UNCHANGED <<roomMap, usingRooms>>

LeaveJob(r) ==
  /\ Current(r, {"leave"})
  /\ Leave(r, Head(jobs[r]).who)
  /\ Executed(r)
  /\ UNCHANGED registered

(* Variant of ByeJob: the user is kept. *)
ByeJobKeeps(r) ==
  /\ Current(r, {"bye"})
  /\ Leave(r, Head(jobs[r]).who)
  /\ Executed(r)
  /\ UNCHANGED registered

(* The job of DisconnectUser.                                               *)
ByeJob(r) ==
  /\ Current(r, {"bye"})
  /\ Leave(r, Head(jobs[r]).who)
  /\ RemoveUser(Head(jobs[r]).who)
  /\ Executed(r)

(* No more jobs: the counter of the queue reaches zero.                     *)
Settle(r) ==
  /\ executing[r] /\ jobs[r] = <<>>
  /\ executing' = [executing EXCEPT ![r] = FALSE]
  /\ UNCHANGED <<session, registered, userVars, roomVars, jobs, handler, requests>>

-----------------------------------------------------------------------------
(* Variant of HandleGameSettingRequest: a room that is gone stays first. *)
HandleGameSettingRequestKeeps(g) ==
  /\ servers[g].at = "asking"
  /\ IF pending # <<>> /\ Head(pending) \in roomMap
     THEN /\ servers' = [servers EXCEPT ![g].at = "asked", ![g].room = Head(pending)]
          /\ DoAsync(Head(pending), "settings", g)
          /\ pending' = Tail(pending)
     ELSE servers' = [servers EXCEPT ![g].at = "unanswered"] /\ UNCHANGED <<queueVars, pending>>
  /\ UNCHANGED <<session, registered, userVars, room, made, roomMap, usingRooms, handler, requests>>

(* Game servers.  HandleGameSettingRequest: the room that has waited        *)
(* longest is asked for its settings, unless it is gone.                    *)
HandleGameSettingRequest(g) ==
  /\ servers[g].at = "asking"
  /\ IF pending # <<>> /\ Head(pending) \in roomMap
     THEN /\ servers' = [servers EXCEPT ![g].at = "asked", ![g].room = Head(pending)]
          /\ DoAsync(Head(pending), "settings", g)
     ELSE servers' = [servers EXCEPT ![g].at = "unanswered"] /\ UNCHANGED queueVars
  /\ pending' = IF pending = <<>> THEN <<>> ELSE Tail(pending)
  /\ UNCHANGED <<session, registered, userVars, room, made, roomMap, usingRooms, handler, requests>>

(* Its job answers with the number of users at that time.                   *)
SettingsJob(r) ==
  /\ Current(r, {"settings"})
  /\ servers' = [servers EXCEPT ![Head(jobs[r]).who].at = "set",
                                ![Head(jobs[r]).who].required = room[r].cur]
  /\ Executed(r)
  /\ UNCHANGED <<registered, userVars, room, roomMap, usingRooms, pending>>

(* HandleLanInfoNotify, with the answer of the game server.                 *)
HandleLanInfoNotify(g) ==
  /\ servers[g].at = "set"
  /\ servers' = [servers EXCEPT ![g].at = "announced"]
  /\ IF servers[g].room \in roomMap THEN DoAsync(servers[g].room, "lan", g)
                                   ELSE UNCHANGED queueVars
  /\ UNCHANGED <<session, registered, userVars, room, made, roomMap, usingRooms, pending,
                 handler, requests>>

(* BroadCast of the address to the members.                                 *)
BroadCastJob(r) ==
  /\ Current(r, {"lan"})
  /\ servers' = [servers EXCEPT ![Head(jobs[r]).who].at = "told"]
  /\ Executed(r)
  /\ UNCHANGED <<registered, userVars, room, roomMap, usingRooms, pending>>

-----------------------------------------------------------------------------
Handle(u) ==
  \/ FindRoom(u) \/ Post(u) \/ EndExecute(u)
  \/ CheckMake(u) \/ CheckEnter(u) \/ CheckLeave(u) \/ CheckOwn(u) \/ DisconnectUser(u)
  \/ Reserve(u) \/ Unreserve(u) \/ Create(u)

Execute(r) ==
  \/ EnterJob(r) \/ ReadyJob(r) \/ ChatJob(r) \/ LeaveJob(r) \/ ByeJob(r) \/ Settle(r)
  \/ SettingsJob(r) \/ BroadCastJob(r)

HandleLan(g) == HandleGameSettingRequest(g) \/ HandleLanInfoNotify(g)

(* Everybody has gone, or may come with another request.                    *)
Quiet == (\A u \in Users : handler[u] = Idle) /\ UNCHANGED vars

Next ==
  \/ \E u \in Users : LogIn(u) \/ Request(u) \/ Disconnect(u) \/ Handle(u)
  \/ \E r \in Rooms : Execute(r) \/ LeaveBegins(r)
  \/ \E g \in Servers : HandleLan(g)
  \/ Quiet

Spec == Init /\ [][Next]_vars

(* Handlers go on, queues with jobs are executed (JobQueue), and a game     *)
(* server that was launched connects, asks and answers.                     *)
FairSpec ==
  /\ Spec
  /\ \A u \in Users : WF_vars(Handle(u))
  /\ \A r \in Rooms : WF_vars(Execute(r))
  /\ \A g \in Servers : WF_vars(HandleLan(g))

-----------------------------------------------------------------------------
Acts == {"enter", "leave", "make", "ready", "unready", "chat", "bye"}

TypeOK ==
  /\ session \in [Users -> {"new", "open", "closed"}] /\ registered \subseteq Users
  /\ joined \in [Users -> BOOLEAN] /\ ready \in [Users -> BOOLEAN]
  /\ roomNum \in [Users -> Rooms \cup {NoRoom}]
  /\ room \in [Rooms -> [members : SUBSET Users, cur : UShorts, readyCnt : UShorts,
                         owner : Users \cup {"none"}, running : BOOLEAN]]
  /\ made \in 0 .. MaxMade /\ roomMap \subseteq 1 .. made
  /\ usingRooms \in 0 .. MaxRooms + Cardinality(Users)
  /\ jobs \in [Rooms -> Seq([act : Acts, who : Users]
                             \cup [act : {"settings", "lan"}, who : Servers])]
  /\ executing \in [Rooms -> BOOLEAN]
  /\ handler \in [Users -> [at : {"idle", "find", "check", "post", "execute", "executed",
                                  "reserve", "unreserve", "create"},
                            act : Acts \cup {"none"}, room : Rooms \cup {NoRoom}]]
  /\ pending \in Seq(Rooms) /\ requests \in 0 .. MaxRequests
  /\ servers \in [Servers -> [at : {"off", "asking", "unanswered", "asked", "set", "announced",
                                    "told"},
                              room : Rooms \cup {NoRoom}, required : UShorts]]

(* The map of users of a room and what the users say of themselves agree,   *)
(* and m_usCurUserCnt is the size of the map; nobody is in two rooms, and   *)
(* the owner of a room is in it: without, no game would ever start there.   *)
MembershipExact ==
  /\ TypeOK
  /\ \A u \in Users : joined[u] /\ roomNum[u] # NoRoom => u \in room[roomNum[u]].members
  /\ \A r \in Rooms :
       /\ room[r].cur = Cardinality(room[r].members)
       /\ room[r].members # {} => room[r].owner \in room[r].members
       /\ \A u \in room[r].members :
            /\ joined[u] /\ roomNum[u] \in {r, NoRoom}
            /\ \A q \in Rooms \ {r} : u \notin room[q].members

(* The rooms in the map are those with members, and m_usUsingRoomCnt counts *)
(* them and the ones being made: no room is lost or kept for ever, and the  *)
(* limit is held.                                                           *)
RoomsListed ==
  /\ roomMap = {r \in Rooms : room[r].members # {}}
  /\ usingRooms = Cardinality(roomMap)
                  + Cardinality({u \in Users : handler[u].at \in {"create", "unreserve"}})
  /\ Cardinality(roomMap) <= MaxRooms

(* A room whose game has started waits in the list for a game server or has *)
(* been given to exactly one; and while it has members, that one waits for  *)
(* no fewer users than it has, so that nobody the address is sent to finds  *)
(* the game begun without him.                                              *)
ServersMatch ==
  LET given == [r \in Rooms |-> {g \in Servers : servers[g].room = r}]
  IN /\ IsInjective(pending)
     /\ \A r \in Rooms :
          /\ room[r].running /\ room[r].members # {} =>
               Cardinality(given[r]) + Cardinality({r} \cap ToSet(pending)) = 1
          /\ ~room[r].running => given[r] = {} /\ r \notin ToSet(pending)
          /\ \A g \in given[r] : servers[g].at # "asked" =>
               servers[g].required >= Cardinality(room[r].members)

(* A room whose game starts is told the address of its server, unless       *)
(* everybody leaves it: whichever rooms start and empty in between, the     *)
(* servers launched are enough for the rooms in the list.                   *)
RunningRoomsServed ==
  LET Unserved == {r \in Rooms : /\ room[r].running /\ room[r].members # {}
                                 /\ \A g \in Servers : servers[g].room = r => servers[g].at # "told"}
  IN Unserved # {} ~> Unserved = {}

(* Every user whose session has ended is removed from the maps.             *)
GoneUsersRemoved ==
  LET Gone == {u \in Users : session[u] = "closed"}
  IN Gone \cap registered # {} ~> Gone \cap registered = {}
=============================================================================
