---------------------------- MODULE DummyClient ----------------------------
(***************************************************************************)
(* The load generator (LobbyDummyClient, DummyUpdateSystem) and the lobby  *)
(* it talks to.  Workers put packets and connection events of a dummy into *)
(* two queues of its logic thread; the thread swaps out the first and      *)
(* handles it, swaps out the second and handles it, and then lets every    *)
(* dummy whose time has come make a request.                               *)
(*                                                                         *)
(* One logic thread with its dummies is modelled.  Of the lobby there are  *)
(* the handlers and room jobs with what they answer; their steps in detail *)
(* are in LobbyRooms.  A room made gets a number that nothing names.       *)
(***************************************************************************)
EXTENDS Integers, FiniteSets, SequencesExt

CONSTANTS
  Dummies,      (* session ids of the thread                                *)
  Rooms,        (* numbers for rooms                                        *)
  MaxRooms,     (* m_usMaxRoomCnt                                           *)
  RoomSize,     (* m_usMaxRoomUserCnt                                       *)
  EnoughRooms,  (* how many rooms there are before dummies enter one: 60    *)
  MaxDrops      (* bound: connections lost                                  *)

ASSUME DummyAssumption ==
  /\ IsFiniteSet(Dummies) /\ IsFiniteSet(Rooms) /\ Rooms \subseteq Nat \ {0}
  /\ {MaxRooms, RoomSize} \subseteq Nat \ {0} /\ {EnoughRooms, MaxDrops} \subseteq Nat

VARIABLES
  link,      (* "new", "up" or "down": the connection of each dummy         *)
  net,       (* m_netJobQueue                                               *)
  batch,     (* dummyJobQ, swapped out of it                                *)
  conn,      (* m_sessionConnEventQueue                                     *)
  events,    (* sessionConnEventQ, swapped out of it                        *)
  pc,        (* the logic thread: "net", "handle", "events", "logic", "crashed" *)
  dummy,     (* m_dummyUmap: status, time of the next action, expected room *)
  list,      (* m_dummyVector                                               *)
  index,     (* m_dummyVectorIndexUMap                                      *)
  first,     (* the next to log in measures the round trip                  *)
  asked,     (* requests on their way to the lobby                          *)
  at,        (* room of each user in the lobby, 0 if none                   *)
  jobs       (* jobs of each room, oldest first                             *)

lobbyVars == <<at, jobs>>
listVars == <<list, index>>
vars == <<link, net, batch, conn, events, pc, dummy, list, index, first, asked, at, jobs>>

Init ==
  /\ link = [s \in Dummies |-> "new"] /\ first \in BOOLEAN
  /\ net = <<>> /\ batch = <<>> /\ conn = <<>> /\ events = <<>> /\ pc = "net"
  /\ dummy = <<>> /\ list = <<>> /\ index = <<>>
  /\ asked = [s \in Dummies |-> <<>>]
  /\ at = [s \in Dummies |-> 0] /\ jobs = [r \in Rooms |-> <<>>]

Members(r) == {s \in Dummies : at[s] = r}
RoomMap == {r \in Rooms : Members(r) # {}}

-----------------------------------------------------------------------------
(* Connections.  OnConnected and OnDisconnected of the client's workers; a  *)
(* session is released after the last packet of it was given to OnRecv.     *)
Connect(s) ==
  /\ link[s] = "new" /\ pc # "crashed"
  /\ link' = [link EXCEPT ![s] = "up"]
  /\ conn' = Append(conn, [dummy |-> s, what |-> "connect"])
  /\ UNCHANGED <<net, batch, events, pc, dummy, listVars, first, asked, lobbyVars>>

(* The lobby sees it too, after the first k requests on the way.            *)
Drop(s) ==
  /\ link[s] = "up" /\ pc # "crashed"
  /\ Cardinality({t \in Dummies : link[t] = "down"}) < MaxDrops
  /\ link' = [link EXCEPT ![s] = "down"]
  /\ conn' = Append(conn, [dummy |-> s, what |-> "disconnect"])
  /\ \E k \in 0 .. Len(asked[s]) :
       asked' = [asked EXCEPT ![s] = Append(SubSeq(@, 1, k), [act |-> "bye", room |-> 0])]
  /\ UNCHANGED <<net, batch, events, pc, dummy, listVars, first, lobbyVars>>

-----------------------------------------------------------------------------
(* The logic thread.  Variant of SendToDummy: the time of the next action   *)
(* is left as it is. *)
SendToDummyAgain(s, act, r, d) ==
  /\ dummy' = [dummy EXCEPT ![s] = d]
  /\ asked' = IF link[s] = "up" THEN [asked EXCEPT ![s] = Append(@, [act |-> act, room |-> r])]
              ELSE asked

(* SendToDummy: the dummy, changed to d, sends a request and waits.         *)
SendToDummy(s, act, r, d) ==
  /\ dummy' = [dummy EXCEPT ![s] = [d EXCEPT !.next = "never"]]
  /\ asked' = IF link[s] = "up" THEN [asked EXCEPT ![s] = Append(@, [act |-> act, room |-> r])]
              ELSE asked

(* ProcessNetJob begins.                                                    *)
SwapNet ==
  /\ pc = "net" /\ pc' = "handle" /\ batch' = net /\ net' = <<>>
  /\ UNCHANGED <<link, conn, events, dummy, listVars, first, asked, lobbyVars>>

(* It ends, and ProcessSessionConnectionEvent begins.                       *)
SwapEvents ==
  /\ pc = "handle" /\ batch = <<>> /\ pc' = "events" /\ events' = conn /\ conn' = <<>>
  /\ UNCHANGED <<link, net, batch, dummy, listVars, first, asked, lobbyVars>>

Packet(types) == pc = "handle" /\ batch # <<>> /\ Head(batch).type \in types
S == Head(batch).dummy
Known == S \in DOMAIN dummy
In(statuses) == Known /\ dummy[S].status \in statuses

Handled ==
  /\ batch' = Tail(batch)
  /\ UNCHANGED <<link, net, conn, events, pc, listVars, lobbyVars>>

(* The dummy goes on as d after a random time.                              *)
Later(d) == dummy' = [dummy EXCEPT ![S] = [d EXCEPT !.next = "later"]]

(* A packet of a dummy that is gone: m_dummyUmap[sessionId] makes a null    *)
(* pointer and it is followed.  Only the log in is looked up first.         *)
HandleUnknown ==
  /\ pc = "handle" /\ batch # <<>> /\ ~Known /\ Head(batch).type # "login"
  /\ pc' = "crashed"
  /\ UNCHANGED <<link, net, batch, conn, events, dummy, listVars, first, asked, lobbyVars>>

(* The status is not the one the packet is for: nothing but a warning.      *)
HandleStrange ==
  /\ \/ Packet({"login"}) /\ ~In({"connected"})
     \/ Packet({"list", "made"}) /\ Known /\ ~In({"lobby"})
     \/ Packet({"entered"}) /\ Known /\ ~In({"enter"})
     \/ Packet({"chatted"}) /\ Known /\ ~In({"chat"})
     \/ Packet({"left"}) /\ Known /\ ~In({"leave"})
     \/ Packet({"echo"}) /\ Known /\ ~In({"rtt"})
  /\ Handled /\ UNCHANGED <<dummy, first, asked>>

HandleLogInResponse ==
  /\ Packet({"login"}) /\ In({"connected"})
  /\ Later([dummy[S] EXCEPT !.status = IF first THEN "rtt" ELSE "lobby"])
  /\ first' = FALSE /\ Handled /\ UNCHANGED asked

(* Makes a room if there are few, and sometimes if there are many.          *)
HandleRoomListResponse ==
  /\ Packet({"list"}) /\ In({"lobby"})
  /\ \/ SendToDummy(S, "make", 0, dummy[S])
     \/ /\ Cardinality(Head(batch).rooms) >= EnoughRooms
        /\ \E r \in Head(batch).rooms :
             SendToDummy(S, "enter", r, [dummy[S] EXCEPT !.status = "enter", !.room = r])
  /\ Handled /\ UNCHANGED first

HandleMakeRoomResponse ==
  /\ Packet({"made"}) /\ In({"lobby"})
  /\ IF Head(batch).rooms = {} THEN Later(dummy[S])
     ELSE dummy' = [dummy EXCEPT ![S] = [status |-> "enter", next |-> "never",
                                         room |-> CHOOSE r \in Head(batch).rooms : TRUE]]
  /\ Handled /\ UNCHANGED <<first, asked>>

HandleEnterRoomResponse ==
  /\ Packet({"entered"}) /\ In({"enter"})
  /\ Later([dummy[S] EXCEPT !.status = "room"])
  /\ Handled /\ UNCHANGED <<first, asked>>

HandleChatNotify ==
  /\ Packet({"notify"}) /\ Known
  /\ Handled /\ UNCHANGED <<dummy, first, asked>>

(* Variant of HandleChatResponse: the dummy goes on waiting. *)
HandleChatResponseWaits ==
  /\ Packet({"chatted"}) /\ In({"chat"})
  /\ dummy' = [dummy EXCEPT ![S].status = "room"]
  /\ Handled /\ UNCHANGED <<first, asked>>

HandleChatResponse ==
  /\ Packet({"chatted"}) /\ In({"chat"})
  /\ Later([dummy[S] EXCEPT !.status = "room"])
  /\ Handled /\ UNCHANGED <<first, asked>>

HandleLeaveRoomResponse ==
  /\ Packet({"left"}) /\ In({"leave"})
  /\ Later([dummy[S] EXCEPT !.status = "lobby", !.room = 0])
  /\ Handled /\ UNCHANGED <<first, asked>>

HandleError ==
  /\ Packet({"error"}) /\ Known
  /\ Later([dummy[S] EXCEPT !.status = "lobby"])
  /\ Handled /\ UNCHANGED <<first, asked>>

HandleEcho ==
  /\ Packet({"echo"}) /\ In({"rtt"})
  /\ Later(dummy[S])
  /\ Handled /\ UNCHANGED <<first, asked>>

(* ProcessSessionConnectionEvent.                                           *)
Event(what) == pc = "events" /\ events # <<>> /\ Head(events).what = what
EventDone ==
  /\ events' = Tail(events)
  /\ UNCHANGED <<link, net, batch, conn, pc, first, lobbyVars>>

(* f with v for s, as operator[] of a map leaves it.                        *)
Put(f, s, v) == [t \in DOMAIN f \cup {s} |-> IF t = s THEN v ELSE f[t]]

ConnectEvent ==
  /\ Event("connect")
  /\ LET s == Head(events).dummy
     IN /\ dummy' = Put(dummy, s, [status |-> "connected", next |-> "never", room |-> 0])
        /\ list' = Append(list, s) /\ index' = Put(index, s, Len(list'))
        /\ asked' = IF link[s] = "up"
                    THEN [asked EXCEPT ![s] = Append(@, [act |-> "login", room |-> 0])]
                    ELSE asked
  /\ EventDone

(* Variant of Removed: the dummy that takes the free place is not told. *)
RemovedUntold(s) ==
  LET k == index[s] IN
  /\ list' = SubSeq([list EXCEPT ![k] = Last(list)], 1, Len(list) - 1)
  /\ index' = [t \in DOMAIN index \ {s} |-> index[t]]

(* The last dummy of the vector takes the place of the one removed.         *)
Removed(s) ==
  LET k == index[s] IN
  /\ list' = SubSeq([list EXCEPT ![k] = Last(list)], 1, Len(list) - 1)
  /\ index' = [t \in DOMAIN index \ {s} |-> IF t = Last(list) THEN k ELSE index[t]]

(* Variant of DisconnectEvent: the last dummy of the vector is removed. *)
DisconnectEventLast ==
  /\ Event("disconnect")
  /\ IF list = <<>> THEN UNCHANGED <<dummy, listVars>>
     ELSE Removed(Last(list)) /\ dummy' = [t \in DOMAIN dummy \ {Last(list)} |-> dummy[t]]
  /\ EventDone /\ UNCHANGED asked

DisconnectEvent ==
  /\ Event("disconnect")
  /\ LET s == Head(events).dummy
     IN IF s \notin DOMAIN dummy THEN UNCHANGED <<dummy, listVars>>
        ELSE Removed(s) /\ dummy' = [t \in DOMAIN dummy \ {s} |-> dummy[t]]
  /\ EventDone /\ UNCHANGED asked

EventsDone ==
  /\ pc = "events" /\ events = <<>> /\ pc' = "logic"
  /\ UNCHANGED <<link, net, batch, conn, events, dummy, listVars, first, asked, lobbyVars>>

(* ProcessDummyLogic: the dummies whose time has come, each with a request. *)
(* Heartbeats, and the counts of CheckSendTimeOut, change nothing here.     *)
Due == {s \in ToSet(list) : dummy[s].next = "due"}
Act(s) ==
  CASE dummy[s].status = "lobby" -> SendToDummy(s, "list", 0, dummy[s])
    [] dummy[s].status = "rtt" -> SendToDummy(s, "echo", 0, dummy[s])
    [] dummy[s].status = "room" ->
         \/ SendToDummy(s, "leave", dummy[s].room, [dummy[s] EXCEPT !.status = "leave"])
         \/ SendToDummy(s, "chat", dummy[s].room, [dummy[s] EXCEPT !.status = "chat"])

ProcessDummyLogic ==
  /\ pc = "logic"
  /\ IF Due = {} THEN pc' = "net" /\ UNCHANGED <<dummy, asked>>
     ELSE pc' = pc /\ \E s \in Due : Act(s)
  /\ UNCHANGED <<link, net, batch, conn, events, listVars, first, lobbyVars>>

(* Time passes.                                                             *)
Elapse(s) ==
  /\ s \in DOMAIN dummy /\ dummy[s].next = "later"
  /\ dummy' = [dummy EXCEPT ![s].next = "due"]
  /\ UNCHANGED <<link, net, batch, conn, events, pc, listVars, first, asked, lobbyVars>>

-----------------------------------------------------------------------------
(* The lobby.  What it sends to a connection that is up is put into net.    *)
Answered(pkts) == net' = net \o pkts
Answer(s, type, rs) ==
  IF link[s] = "up" THEN <<[dummy |-> s, type |-> type, rooms |-> rs]>> ELSE <<>>

Request(s, acts) == asked[s] # <<>> /\ Head(asked[s]).act \in acts
Read(s) ==
  /\ asked' = [asked EXCEPT ![s] = Tail(@)]
  /\ UNCHANGED <<link, batch, conn, events, pc, dummy, listVars, first>>

LobbyTells(s) ==
  /\ Request(s, {"login", "list", "echo"})
  /\ Answered(Answer(s, Head(asked[s]).act, IF Head(asked[s]).act = "list" THEN RoomMap ELSE {}))
  /\ Read(s) /\ UNCHANGED lobbyVars

(* Numbers that nothing names any more; Rooms bounds them.                  *)
Fresh ==
  {r \in Rooms \ RoomMap :
     /\ jobs[r] = <<>> /\ \A s \in DOMAIN dummy : dummy[s].room # r
     /\ \A s \in Dummies : \A i \in DOMAIN asked[s] : asked[s][i].room # r
     /\ \A i \in DOMAIN net : r \notin net[i].rooms
     /\ \A i \in DOMAIN batch : r \notin batch[i].rooms}

(* HandleMakeRoomRequestPacket, CreateRoom and OnCreated.                   *)
LobbyMakes(s) ==
  /\ Request(s, {"make"})
  /\ IF at[s] # 0 THEN UNCHANGED <<net, at>>
     ELSE IF Cardinality(RoomMap) >= MaxRooms THEN Answered(Answer(s, "made", {})) /\ at' = at
     ELSE /\ Fresh # {}
          /\ LET r == CHOOSE f \in Fresh : TRUE
             IN at' = [at EXCEPT ![s] = r] /\ Answered(Answer(s, "made", {r}) \o Answer(s, "entered", {}))
  /\ Read(s) /\ UNCHANGED jobs

Post(s, act, r) == jobs' = [jobs EXCEPT ![r] = Append(@, [dummy |-> s, act |-> act])]

LobbyEnters(s) ==
  /\ Request(s, {"enter"})
  /\ LET r == Head(asked[s]).room
     IN IF r \notin RoomMap THEN Answered(Answer(s, "error", {})) /\ jobs' = jobs
        ELSE net' = net /\ IF at[s] # 0 THEN jobs' = jobs ELSE Post(s, "enter", r)
  /\ Read(s) /\ UNCHANGED at

(* Leave and chat, for the room the user is in, and the end of a session.   *)
LobbyPosts(s) ==
  /\ Request(s, {"leave", "chat", "bye"})
  /\ LET q == Head(asked[s])
     IN IF at[s] # 0 /\ (q.act = "bye" \/ q.room = at[s]) THEN Post(s, q.act, at[s]) ELSE jobs' = jobs
  /\ Read(s) /\ UNCHANGED <<net, at>>

Job(r, acts) == jobs[r] # <<>> /\ Head(jobs[r]).act \in acts
Ran(r) ==
  /\ jobs' = [jobs EXCEPT ![r] = Tail(@)]
  /\ UNCHANGED <<link, batch, conn, events, pc, dummy, listVars, first, asked>>

(* TryEnterRoom: a room that everybody has left does not answer.            *)
EnterJob(r) ==
  /\ Job(r, {"enter"})
  /\ LET s == Head(jobs[r]).dummy
     IN IF Members(r) = {} THEN UNCHANGED <<net, at>>
        ELSE IF Cardinality(Members(r)) >= RoomSize THEN at' = at /\ Answered(Answer(s, "error", {}))
        ELSE at' = [at EXCEPT ![s] = r] /\ Answered(Answer(s, "entered", {}))
  /\ Ran(r)

(* LeaveRoom and ReleaseUser.                                               *)
LeaveJob(r) ==
  /\ Job(r, {"leave", "bye"})
  /\ LET s == Head(jobs[r]).dummy
     IN at' = [at EXCEPT ![s] = 0] /\ Answered(Answer(s, "left", {}))
  /\ Ran(r)

(* Chat: the sender gets an answer and everybody the message.               *)
Notify(who) ==
  [i \in 1 .. Cardinality(who) |-> [dummy |-> SetToSeq(who)[i], type |-> "notify", rooms |-> {}]]

ChatJob(r) ==
  /\ Job(r, {"chat"})
  /\ Answered(Answer(Head(jobs[r]).dummy, "chatted", {})
              \o Notify({s \in Members(r) : link[s] = "up"}))
  /\ Ran(r) /\ UNCHANGED at

-----------------------------------------------------------------------------
Logic ==
  \/ SwapNet \/ SwapEvents \/ HandleUnknown \/ HandleStrange
  \/ HandleLogInResponse \/ HandleRoomListResponse \/ HandleMakeRoomResponse
  \/ HandleEnterRoomResponse \/ HandleChatNotify \/ HandleChatResponse
  \/ HandleLeaveRoomResponse \/ HandleError \/ HandleEcho
  \/ ConnectEvent \/ DisconnectEvent \/ EventsDone \/ ProcessDummyLogic

Serve(s) == LobbyTells(s) \/ LobbyMakes(s) \/ LobbyEnters(s) \/ LobbyPosts(s)
RunJob(r) == EnterJob(r) \/ LeaveJob(r) \/ ChatJob(r)

Next ==
  \/ Logic
  \/ \E s \in Dummies : Connect(s) \/ Drop(s) \/ Elapse(s) \/ Serve(s)
  \/ \E r \in Rooms : RunJob(r)

Spec == Init /\ [][Next]_vars

(* The thread wakes at least every ten milliseconds, time passes, and the   *)
(* lobby reads what it receives and runs what it has posted.                *)
FairSpec ==
  /\ Spec /\ WF_vars(Logic)
  /\ \A s \in Dummies : WF_vars(Elapse(s)) /\ WF_vars(Serve(s))
  /\ \A r \in Rooms : WF_vars(RunJob(r))

-----------------------------------------------------------------------------
(* What is under way for a dummy: requests, jobs and answers.               *)
Coming == batch \o net
AnswersTo(s) == {k \in DOMAIN Coming : Coming[k].dummy = s /\ Coming[k].type # "notify"}
JobsOf(s) == UNION {{r} \X {k \in DOMAIN jobs[r] : jobs[r][k].dummy = s} : r \in Rooms}
UnderWay(s) == Len(asked[s]) + Cardinality(AnswersTo(s)) + Cardinality(JobsOf(s))

(* Its request to enter met a room that had emptied, and was not answered.  *)
Stranded(s) == dummy[s].status = "enter" /\ UnderWay(s) = 0 /\ at[s] = 0

(* The map, the vector and the index of the dummies agree, however they are *)
(* removed (DummyUpdateSystem.cpp:252).                                     *)
ListsAgree ==
  /\ DOMAIN dummy = ToSet(list) /\ IsInjective(list)
  /\ DOMAIN index = ToSet(list) /\ \A k \in DOMAIN list : index[list[k]] = k

(* The program ends only by a packet that was left behind when its dummy    *)
(* was removed (DummyUpdateSystem.cpp:387): the dummy of a connection that  *)
(* is up is always found.                                                   *)
DiesOfLatePackets == pc = "crashed" => link[S] = "down"

(* What a dummy takes itself to be is what the lobby has it as, and it has  *)
(* one request under way while it waits and none otherwise: none of its     *)
(* packets is answered twice, or meets a status it was not sent in.         *)
AgreesWithLobby ==
  \A s \in DOMAIN dummy : link[s] = "up" =>
    LET d == dummy[s]
        n == UnderWay(s)
    IN CASE d.status = "room" -> n = 0 /\ at[s] = d.room /\ d.next # "never"
         [] d.status = "chat" -> n = 1 /\ at[s] = d.room
         [] d.status \in {"connected", "leave"} -> n = 1
         [] d.status = "enter" -> n = 1 \/ Stranded(s)
         [] d.status \in {"rtt", "lobby"} /\ d.next # "never" -> n = 0 /\ at[s] = 0
         [] OTHER -> n = 1 \/ (d.status = "lobby" /\ n = 2)

(* A dummy that waits acts again, unless its connection or the program ends *)
(* or it asked to enter a room that emptied meanwhile (Room.cpp:45).        *)
ActsAgain ==
  \A s \in Dummies :
    s \in DOMAIN dummy
      ~> \/ s \in DOMAIN dummy /\ (dummy[s].next = "due" \/ Stranded(s))
         \/ link[s] = "down" \/ pc = "crashed"
=============================================================================
