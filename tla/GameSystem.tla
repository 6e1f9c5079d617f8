----------------------------- MODULE GameSystem -----------------------------
(***************************************************************************)
(* The game server: jh::GameSystem with its UserManager and GameWorld.     *)
(* Workers of the network library put packets and ends of sessions in two  *)
(* queues, the client of the lobby puts its answer in a third; the update  *)
(* thread takes the queues one after the other, each as a whole, then runs *)
(* the timer actions that are due and moves the entities.                  *)
(*                                                                         *)
(* Time is what is left until a timer action is due, in units of about two *)
(* seconds.  CONNECT events, chat and the token have no effect on the      *)
(* state and are left out.                                                 *)
(***************************************************************************)
EXTENDS GameWorld, SequencesExt

CONSTANTS
  Users, NoUser,  (* ids of users; 0, which is no user                      *)
  UserOf,         (* the user each session enters as                        *)
  Zone,           (* sectors of the victory zone                            *)
  Spawn,          (* bound: sectors in which GenerateRandomPos puts players *)
  Required,       (* m_usRequiredUserCnt, from the lobby                    *)
  WinTime,        (* victoryZoneCheckDuration                               *)
  DeathTime,      (* from death to removal                                  *)
  CheckTime,      (* period of CheckWinner                                  *)
  CleanTime,      (* period of CleanUpSpectatorEntities                     *)
  MaxAsks,        (* bound: packets of all clients                          *)
  Orderly         (* clients send what the stage of the game calls for, and *)
                  (* do not close while they wait for an answer to Enter    *)

ASSUME GameAssumption ==
  /\ UserOf \in [Sessions -> Users] /\ NoUser \notin Users
  /\ Zone \subseteq Grid /\ Spawn \subseteq Grid /\ Required \in Nat \ {0}
  /\ {WinTime, DeathTime, CheckTime, CleanTime} \subseteq Nat \ {0}

VARIABLES
  stage,         (* of each session: how far its client has come            *)
  asks,          (* used part of MaxAsks                                    *)
  logicQ, connQ, (* m_netLogicEventQueue; m_sessionConnEventQueue           *)
  lan,           (* the setting answer: "none", "queued", "handled"         *)
  pc, batch, due, i, (* update thread: phase, tempQ, collected timer        *)
                 (* actions, index of the loop of Update or 0 without one   *)
  users,         (* keys of m_sessionIdToUserUMap                           *)
  loads,         (* m_usLoadCompletedCnt                                    *)
  made,          (* history: how often GameWorld::Init has run              *)
  running,       (* m_bIsUpdateRunning                                      *)
  world,         (* see GameWorld                                           *)
  moving,        (* players whose move state is PlayerMoveState             *)
  wasIn,         (* m_bWasInVictoryZone                                     *)
  winner, winLeft, (* m_ullExpectedWinnerId, m_ullExpectedWinTime           *)
  timers         (* m_timerActionQueue                                      *)

clientVars == <<stage, asks>>
queueVars == <<logicQ, connQ, lan>>
userVars == <<users, loads, made>>
playVars == <<moving, wasIn, winner, winLeft>>
vars == <<clientVars, queueVars, pc, batch, due, i, userVars, running, world,
          playVars, timers>>

Never == -1      (* ULLONG_MAX of m_ullExpectedWinTime *)

Init ==
  /\ stage = [s \in Sessions |-> "off"]
  /\ asks = 0 /\ logicQ = <<>> /\ connQ = <<>> /\ lan = "none"
  /\ pc = "packets" /\ batch = <<>> /\ due = {} /\ i = 0
  /\ users = {} /\ loads = 0 /\ made = 0 /\ running = FALSE
  /\ world = EmptyWorld /\ moving = {} /\ wasIn = {}
  /\ winner = NoUser /\ winLeft = Never /\ timers = {}

-----------------------------------------------------------------------------
(* Clients and the lobby.                                                   *)

(* GameLanClient::OnRecv of the setting answer.                             *)
LanAnswer ==
  /\ lan = "none" /\ lan' = "queued"
  /\ UNCHANGED <<clientVars, logicQ, connQ, pc, batch, due, i, userVars, running,
                 world, playVars, timers>>

(* Sessions exist once the answer has been handled (InitSessionArray).      *)
Connect(s) ==
  /\ lan = "handled" /\ stage[s] = "off"
  /\ stage' = [stage EXCEPT ![s] = "new"]
  /\ UNCHANGED <<asks, queueVars, pc, batch, due, i, userVars, running, world,
                 playVars, timers>>

Open(s) == stage[s] \notin {"off", "gone"}

(* What a client knows when it sends a packet of each kind.                 *)
StageFor ==
  [enter |-> "new", load |-> "placed", start |-> "playing", stop |-> "playing",
   attack |-> "playing"]
After(k) ==
  CASE k = "enter" -> "entering" [] k = "load" -> "loading" [] OTHER -> "playing"

(* GameServer::OnRecv.  A user does not come back to a world that is made.  *)
Ask(s, k) ==
  /\ Open(s) /\ asks < MaxAsks
  /\ Orderly => stage[s] = StageFor[k]
  /\ k = "enter" => made = 0
  /\ asks' = asks + 1
  /\ stage' = [stage EXCEPT ![s] = After(k)]
  /\ logicQ' = Append(logicQ, <<s, k>>)
  /\ UNCHANGED <<connQ, lan, pc, batch, due, i, userVars, running, world, playVars,
                 timers>>

(* GameServer::OnDisconnected.                                              *)
Close(s) ==
  /\ Open(s)
  /\ Orderly => stage[s] # "entering"
  /\ stage' = [stage EXCEPT ![s] = "gone"]
  /\ connQ' = Append(connQ, s)
  /\ UNCHANGED <<asks, logicQ, lan, pc, batch, due, i, userVars, running, world,
                 playVars, timers>>

-----------------------------------------------------------------------------
(* GameLogic: the phases of a round.                                        *)

(* The swap of ProcessSessionConnectionEvent.                               *)
TakeDisconnects ==
  /\ pc = "packets" /\ batch = <<>> /\ pc' = "conns"
  /\ batch' = connQ /\ connQ' = <<>>
  /\ UNCHANGED <<clientVars, logicQ, lan, due, i, userVars, running, world,
                 playVars, timers>>

(* HandleGameServerSettingResponsePacket: from now on there are sessions.   *)
HandleSettingResponse == lan' = "handled"

ProcessLanRequest ==
  IF lan = "queued" THEN HandleSettingResponse ELSE UNCHANGED lan

(* ProcessLanRequest, and the first half of ProcessTimerActions.            *)
CollectTimers ==
  /\ pc = "conns" /\ batch = <<>> /\ pc' = "timers"
  /\ ProcessLanRequest
  /\ due' = {t \in timers : t.left = 0} /\ timers' = timers \ due'
  /\ UNCHANGED <<clientVars, logicQ, connQ, batch, i, userVars, running, world,
                 playVars>>

(* Update runs when the game does and a frame's time has passed.            *)
BeginUpdate ==
  /\ pc = "timers" /\ due = {} /\ pc' = "update"
  /\ i' \in IF running THEN {0, 1} ELSE {0}
  /\ UNCHANGED <<clientVars, queueVars, batch, due, userVars, running, world,
                 playVars, timers>>

(* d units of time have passed; the next round swaps the packet queue.      *)
EndRound(d) ==
  /\ pc = "update" /\ i \notin 1 .. Len(world.arr) /\ i' = 0
  /\ pc' = "packets" /\ batch' = logicQ /\ logicQ' = <<>>
  /\ timers' = {[t EXCEPT !.left = IF @ > d THEN @ - d ELSE 0] : t \in timers}
  /\ winLeft' = IF winLeft > d THEN winLeft - d ELSE IF winLeft = Never THEN Never ELSE 0
  /\ UNCHANGED <<clientVars, connQ, lan, due, userVars, running, world, moving,
                 wasIn, winner>>

-----------------------------------------------------------------------------
(* Packets.                                                                 *)

(* A packet for the users us reaches those that are still there.            *)
Told(us, what) ==
  [s \in Sessions |-> IF s \in us /\ Open(s) THEN what ELSE stage[s]]

(* The loop of GameWorld::Init, in its n-th call: the computer players      *)
(* stand where they are put.                                                *)
CreateAIs(w, n, place) ==
  LET after[j \in 0 .. AICount] ==
        IF j = 0 THEN w ELSE AddEntity(after[j - 1], <<n, j>>, place[j])
  IN after[AICount]

(* GameWorld::Init.                                                         *)
MadeWorld(w, n, place) == SendAllEntityInfo(CreateAIs(w, n, place))

(* CreateUser refuses a session or a user that is there.                    *)
Duplicate(s) == \E x \in users : x = s \/ UserOf[x] = UserOf[s]

(* RegisterEntityIdToUser.                                                  *)
WithUser(w, s) == [w EXCEPT !.owners = @ \cup {s}]

(* HandleEnterGameRequestPacket.  The last user required makes the world,   *)
(* once more when a user has left meanwhile and another comes.              *)
HandleEnter(s) ==
  IF Duplicate(s)
  THEN UNCHANGED <<stage, userVars, world>>
  ELSE \E c \in Spawn, place \in [1 .. AICount -> Spawn] :
         LET mine == Make(WithUser(AddEntity(world, s, c), s), {s}, {s})
         IN /\ users' = users \cup {s} /\ loads' = loads
            /\ IF Cardinality(users') = Required
               THEN /\ made < Inits /\ made' = made + 1
                    /\ stage' = Told(users', "placed")
                    /\ world' = MadeWorld(mine, made', place)
               ELSE /\ made' = made /\ stage' = Told({s}, "entered")
                    /\ place = [j \in 1 .. AICount |-> c]
                    /\ world' = mine

(* GameWorld::TryEnqueueTimerAction, of an action that what stands for.     *)
Timer(what, who, left) == [what |-> what, who |-> who, left |-> left]
Enqueued(on, ts) == IF on THEN ts ELSE {}

(* Variant of StartGame: the winner is not checked for. *)
StartGameUnchecked ==
  /\ running' = TRUE
  /\ timers' = timers \cup {Timer("clean", NoUser, CleanTime)}

(* StartGame: the first clean-up and the check of the winner are set.       *)
StartGame ==
  /\ running' = TRUE
  /\ timers' = timers \cup
       {Timer("clean", NoUser, CleanTime), Timer("winner", NoUser, CheckTime)}

(* HandleLoadCompletedPacket.                                               *)
HandleLoad(s) ==
  /\ loads' = IF s \in users THEN loads + 1 ELSE loads
  /\ IF s \in users /\ loads' = Required
     THEN StartGame /\ stage' = Told(users, "playing")
     ELSE UNCHANGED <<running, stage, timers>>

(* A user whose player lives.                                               *)
Fit(s) == s \in users /\ ~IsDead(world, s)

(* HandleMoveStartRequestPacket.                                            *)
HandleMoveStart(s) == moving' = IF Fit(s) THEN moving \cup {s} ELSE moving

(* HandleMoveStopRequestPacket.                                             *)
HandleMoveStop(s) == moving' = IF Fit(s) THEN moving \ {s} ELSE moving

(* GetMinEntityInRange: any living one around may be the nearest in range.  *)
Targets(s) ==
  {e \in UNION {world.sectors[c] : c \in Around(world.at[s])} :
     e # s /\ ~IsDead(world, e)}

(* Stat::TakeDamage of one point.                                           *)
Damaged(w, e) == [w EXCEPT !.hp[e] = IF @ <= 1 THEN 0 ELSE @ - 1]

(* ProcessAttack: nobody is in range, or one is hurt and perhaps dies.      *)
ProcessAttack(s) ==
  \/ UNCHANGED <<world, timers>>
  \/ \E e \in Targets(s) :
       /\ world' = Damaged(world, e)
       /\ timers' = timers \cup
            Enqueued(running /\ IsDead(world', e), {Timer("corpse", e, DeathTime)})

(* HandleAttackRequestPacket.                                               *)
HandleAttack(s) == IF Fit(s) THEN ProcessAttack(s) ELSE UNCHANGED <<world, timers>>

HandlePacket ==
  /\ pc = "packets" /\ batch # <<>> /\ batch' = Tail(batch)
  /\ LET s == Head(batch)[1]
         k == Head(batch)[2]
     IN \/ k = "enter"  /\ HandleEnter(s) /\ UNCHANGED <<running, moving, timers>>
        \/ k = "load"   /\ HandleLoad(s)  /\ UNCHANGED <<users, made, world, moving>>
        \/ k = "start"  /\ HandleMoveStart(s)
                        /\ UNCHANGED <<stage, userVars, running, world, timers>>
        \/ k = "stop"   /\ HandleMoveStop(s)
                        /\ UNCHANGED <<stage, userVars, running, world, timers>>
        \/ k = "attack" /\ HandleAttack(s)
                        /\ UNCHANGED <<stage, userVars, running, moving>>
  /\ UNCHANGED <<asks, queueVars, pc, due, i, wasIn, winner, winLeft>>

(* Variant of HandleDisconnect: the user is removed and its player is not. *)
HandleDisconnectKeeps ==
  /\ pc = "conns" /\ batch # <<>> /\ batch' = Tail(batch)
  /\ LET s == Head(batch) IN
       /\ users' = users \ {s} /\ moving' = moving \ {s} /\ wasIn' = wasIn \ {s}
       /\ world' = IF s \notin users THEN world
                   ELSE [world EXCEPT !.owners = @ \ {s}, !.view[s] = {}]
  /\ UNCHANGED <<clientVars, queueVars, pc, due, i, loads, made, running,
                 winner, winLeft, timers>>

(* DeleteEntityIdToUser; nothing reaches the client any more.               *)
WithoutUser(w, s) == [w EXCEPT !.owners = @ \ {s}, !.view[s] = {}]

(* RemoveUser: the player goes with it.                                     *)
RemoveUser(s) ==
  /\ users' = users \ {s} /\ moving' = moving \ {s} /\ wasIn' = wasIn \ {s}

(* ProcessSessionConnectionEvent of a disconnect.                           *)
HandleDisconnect ==
  /\ pc = "conns" /\ batch # <<>> /\ batch' = Tail(batch)
  /\ LET s == Head(batch) IN
       /\ RemoveUser(s)
       /\ world' = IF s \in users THEN RemoveEntity(WithoutUser(world, s), s) ELSE world
  /\ UNCHANGED <<clientVars, queueVars, pc, due, i, loads, made, running,
                 winner, winLeft, timers>>

-----------------------------------------------------------------------------
(* Timer actions.                                                           *)

(* Variant of Bury: a player becomes a spectator and stays an entity. *)
BuryNot(e) ==
  /\ world' = IF e \in world.dic \cup users /\ e \in Sessions
              THEN SetSpectator(world, e) ELSE world
  /\ UNCHANGED <<running, stage, timers>>

(* The action of ProcessAttack, some time after a death.  The entity is     *)
(* still there if the world or its user holds it.                           *)
Bury(e) ==
  /\ world' = IF e \notin world.dic \cup users THEN world
              ELSE IF e \in Sessions THEN SetSpectator(RemoveEntity(world, e), e)
              ELSE RemoveEntity(world, e)
  /\ UNCHANGED <<running, stage, timers>>

(* CleanUpSpectatorEntities: the ones whose users are gone have expired.    *)
CleanUp ==
  /\ world' = [world EXCEPT !.spectators = @ \cap users]
  /\ timers' = timers \cup Enqueued(running, {Timer("clean", NoUser, CleanTime)})
  /\ UNCHANGED <<running, stage>>

(* CheckWinner: the game ends, or is looked at again.                       *)
CheckWinner ==
  IF winLeft = 0
  THEN /\ running' = FALSE /\ timers' = {} /\ world' = Cleared(world)
       /\ stage' = Told(users, "over")
  ELSE /\ timers' = timers \cup Enqueued(running, {Timer("winner", NoUser, CheckTime)})
       /\ UNCHANGED <<running, stage, world>>

RunTimer ==
  /\ pc = "timers"
  /\ \E t \in due :
       /\ due' = due \ {t}
       /\ \/ t.what = "corpse" /\ Bury(t.who)
          \/ t.what = "clean"  /\ CleanUp
          \/ t.what = "winner" /\ CheckWinner
  /\ UNCHANGED <<asks, queueVars, pc, batch, i, userVars, playVars>>

-----------------------------------------------------------------------------
(* Update of one entity.  A player moves when its client has said so, a     *)
(* computer player when it draws to; the dead do not.                       *)
Walks(e) == ~IsDead(world, e) /\ e \in moving \cup AIs

(* Transform::Move stays inside the map: a step leads to a neighbouring     *)
(* sector at most.                                                          *)
Reach(e) == IF Walks(e) THEN Around(world.at[e]) ELSE {world.at[e]}

(* IsSectorUpdated, of an entity that has come to sector c.                 *)
IsSectorUpdated(e, c) == c # world.at[e]

(* CheckVictoryZoneEntry of a player that has come to sector c.             *)
CheckVictoryZoneEntry(e, c) ==
  /\ wasIn' = IF c \in Zone THEN wasIn \cup {e} ELSE wasIn \ {e}
  /\ IF winner # UserOf[e] /\ e \notin wasIn /\ c \in Zone
     THEN winner' = UserOf[e] /\ winLeft' = WinTime
     ELSE UNCHANGED <<winner, winLeft>>

UpdateEntity ==
  /\ pc = "update" /\ i \in 1 .. Len(world.arr) /\ i' = i + 1
  /\ LET e == world.arr[i] IN
       \E c \in Reach(e) :
         /\ world' = IF IsSectorUpdated(e, c) THEN UpdateSector(world, e, c) ELSE world
         /\ IF e \in users THEN CheckVictoryZoneEntry(e, c)
            ELSE UNCHANGED <<wasIn, winner, winLeft>>
  /\ UNCHANGED <<clientVars, queueVars, pc, batch, due, userVars, running, moving,
                 timers>>

-----------------------------------------------------------------------------
Client ==
  \/ LanAnswer
  \/ \E s \in Sessions : Connect(s) \/ Close(s) \/ \E k \in DOMAIN StageFor : Ask(s, k)

Loop ==
  \/ HandlePacket \/ TakeDisconnects \/ HandleDisconnect
  \/ CollectTimers \/ RunTimer \/ BeginUpdate \/ UpdateEntity
  \/ EndRound(0)

Next == Client \/ Loop \/ EndRound(1)

Spec == Init /\ [][Next]_vars

(* The update thread goes on, and time does.  Clients owe nothing.          *)
FairSpec == Spec /\ WF_vars(Loop) /\ SF_vars(EndRound(1))

-----------------------------------------------------------------------------
(* The type invariant.                                                      *)
Timers ==
  [what : {"corpse", "clean", "winner"}, who : Entities \cup {NoUser},
   left : 0 .. CleanTime + DeathTime + CheckTime]

TypeOK ==
  /\ stage \in [Sessions -> {"off", "new", "entering", "entered", "placed",
                             "loading", "playing", "over", "gone"}]
  /\ lan \in {"none", "queued", "handled"}
  /\ pc \in {"packets", "conns", "timers", "update"}
  /\ users \subseteq Sessions /\ loads \in Nat /\ made \in 0 .. Inits
  /\ moving \subseteq Sessions
  /\ due \subseteq Timers /\ timers \subseteq Timers
  /\ winner \in Users \cup {NoUser} /\ winLeft \in Never .. WinTime
  /\ world.dic \subseteq Entities /\ world.owners \subseteq users
  /\ world.hp \in [Entities -> 0 .. MaxHp] /\ world.alive \in [Grid -> Nat]
  /\ world.view \in [Sessions -> SUBSET Entities]

(* Swap-delete in the array, the dictionaries, the sets of the sectors and  *)
(* their counters tell one story (GameWorld.cpp:196, SectorManager.cpp:289).*)
WorldAgrees == TypeOK /\ ListsAgree(world) /\ SectorsAgree(world)

(* A client in the running world shows no character that is not there, and  *)
(* all living ones that are: around its player, and everywhere once it is a *)
(* spectator.  It is told of changes only, never of the whole.              *)
ViewsRight ==
  made > 0 /\ running =>
    \A s \in world.owners :
      LET living(es) == {e \in es : ~IsDead(world, e)}
          near == UNION {world.sectors[c] : c \in Around(world.at[s])}
          shown == world.view[s]
      IN IF s \in world.dic
         THEN living(near) \subseteq shown /\ shown \subseteq near
         ELSE living(world.dic) \subseteq shown /\ shown \ {s} \subseteq world.dic

(* Whoever dies in a running game leaves the world, though its user may     *)
(* leave first and the game may end (the timer of ProcessAttack).           *)
DeadAreBuried ==
  (\E e \in world.dic : IsDead(world, e)) ~> (\A e \in world.dic : ~IsDead(world, e))

(* Once the end of a session has been handled, nothing is kept of its user  *)
(* and its player, whatever packets of it were in the other queue.          *)
GoneUsersRemoved ==
  \A s \in Sessions :
    stage[s] = "gone" /\ ~Contains(connQ, s) /\ ~(pc = "conns" /\ Contains(batch, s))
      => s \notin users \cup world.dic \cup world.owners

(* Once the time of the expected winner is up the game ends, unless         *)
(* somebody else has entered the zone: the check sets itself anew as long   *)
(* as the game runs.                                                        *)
GameEnds == (running /\ winLeft = 0) ~> (~running \/ winLeft # 0)
=============================================================================
