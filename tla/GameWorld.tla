----------------------------- MODULE GameWorld -----------------------------
(***************************************************************************)
(* The data of jh::GameWorld and jh::SectorManager and the operations on   *)
(* them: entities in a dictionary, in an array with swap-delete and in the *)
(* sectors of the map, and, for each player, the set of characters its     *)
(* client has been told to show.  The operations are operators from worlds *)
(* to worlds; GameSystem puts them together to the handlers of the update  *)
(* thread.                                                                 *)
(*                                                                         *)
(* A player entity is named by the session of its user: a session gets at  *)
(* most one.  A position is abstracted to the sector it lies in.           *)
(***************************************************************************)
EXTENDS Integers, Sequences, FiniteSets

CONSTANTS
  Sessions,      (* sessions of the game server, and their player entities  *)
  AICount,       (* computer players one call of Init creates               *)
  Inits,         (* bound: calls of Init                                    *)
  Width, Depth,  (* sectors of the map: 10 and 10 in the code               *)
  MaxHp          (* hit points: 3 in the code                               *)

(* Each call creates new ones: its number and a number tell one.            *)
AIs == (1 .. Inits) \X (1 .. AICount)

ASSUME WorldAssumption ==
  /\ AICount \in Nat /\ Inits \in Nat
  /\ Sessions \cap AIs = {} /\ IsFiniteSet(Sessions)
  /\ Width \in Nat \ {0} /\ Depth \in Nat \ {0} /\ MaxHp \in Nat \ {0}

Entities == Sessions \cup AIs

(* The sectors for which IsValidSector holds.                               *)
Grid == (1 .. Width) \X (1 .. Depth)

(* A sector and its neighbours inside the map.                              *)
Around(c) ==
  {d \in Grid : d[1] - c[1] \in -1 .. 1 /\ d[2] - c[2] \in -1 .. 1}

EmptyWorld ==
  [dic        |-> {},                          (* m_aliveEntityDic          *)
   arr        |-> <<>>,                        (* m_aliveEntityArr          *)
   idx        |-> <<>>,                        (* m_aliveEntityToVectorIdxDic *)
   at         |-> [e \in Entities |-> <<1, 1>>], (* m_curSector             *)
   sectors    |-> [c \in Grid |-> {}],         (* m_sectorSet               *)
   alive      |-> [c \in Grid |-> 0],          (* m_usAliveGamePlayerCount  *)
   hp         |-> [e \in Entities |-> MaxHp],
   owners     |-> {},                          (* keys of m_entityIdToUserUMap *)
   spectators |-> {},                          (* m_spectatorEntityArr      *)
   view       |-> [s \in Sessions |-> {}]]     (* what each client shows    *)

IsDead(w, e) == w.hp[e] = 0
PlayerCount(e) == IF e \in Sessions THEN 1 ELSE 0

(* SendToEntity reaches those of es that have a user.                       *)
Reached(w, es) == es \cap w.owners

(* Whom SendPacket_Sector reaches in the sectors cells: nobody where no     *)
(* game player is counted.                                                  *)
Listeners(w, cells) ==
  Reached(w, UNION {w.sectors[c] : c \in {d \in cells : w.alive[d] > 0}})

(* Whom SendToSpectatorEntities reaches.                                    *)
Watchers(w) == Reached(w, w.spectators)

(* A MakeOtherCharacter packet for each of es goes to each client of to.    *)
Make(w, to, es) ==
  [w EXCEPT !.view = [s \in Sessions |-> IF s \in to THEN @[s] \cup es ELSE @[s]]]

(* A DeleteOtherCharacter packet for each of es goes to each client of to.  *)
Delete(w, to, es) ==
  [w EXCEPT !.view = [s \in Sessions |-> IF s \in to THEN @[s] \ es ELSE @[s]]]

(* GameWorld::AddEntity of a new entity that stands in sector c.            *)
AddEntity(w, e, c) ==
  LET n == Len(w.arr) + 1 IN
  [w EXCEPT !.dic = @ \cup {e},
            !.arr = Append(@, e),
            !.idx = [x \in DOMAIN @ \cup {e} |-> IF x = e THEN n ELSE @[x]],
            !.at[e] = c,
            !.sectors[c] = @ \cup {e},
            !.alive[c] = @ + PlayerCount(e)]

(* Variant of Unlist: the dictionary does not follow the swap. *)
UnlistUnmoved(w, e) ==
  LET n == Len(w.arr) IN
  [w EXCEPT !.dic = @ \ {e},
            !.arr = [j \in 1 .. n - 1 |-> IF j = w.idx[e] THEN @[n] ELSE @[j]],
            !.idx = [x \in DOMAIN @ \ {e} |-> @[x]]]

(* The last entity takes the place of e, and the index dictionary follows.  *)
Unlist(w, e) ==
  LET n == Len(w.arr)
      i == w.idx[e]
  IN [w EXCEPT !.dic = @ \ {e},
               !.arr = [j \in 1 .. n - 1 |-> IF j = i THEN @[n] ELSE @[j]],
               !.idx = [x \in DOMAIN @ \ {e} |-> IF x = w.arr[n] THEN i ELSE @[x]]]

(* SectorManager::DeleteEntity: those around are told.                      *)
DeleteEntity(w, e) ==
  LET c == w.at[e]
      u == [w EXCEPT !.sectors[c] = @ \ {e}, !.alive[c] = @ - PlayerCount(e)]
  IN Delete(u, Listeners(u, Around(c)), {e})

(* GameWorld::RemoveEntity: the spectators are told as well.  What has left *)
(* does not move and is not looked for again: its position is forgotten.    *)
RemoveEntity(w, e) ==
  IF e \notin w.dic THEN w
  ELSE LET u == DeleteEntity(Unlist(w, e), e)
       IN [Delete(u, Watchers(u), {e}) EXCEPT !.at[e] = EmptyWorld.at[e]]

(* The end of GetUpdatedSectorAround: e goes from its sector to c.          *)
Shift(w, e, c) ==
  LET p == w.at[e]
      left == [w.sectors EXCEPT ![p] = @ \ {e}]
      less == [w.alive EXCEPT ![p] = @ - PlayerCount(e)]
  IN [w EXCEPT !.at[e] = c,
               !.sectors = [left EXCEPT ![c] = @ \cup {e}],
               !.alive = [less EXCEPT ![c] = @ + PlayerCount(e)]]

(* Variant of UpdateSector: the one who moves is not told what it leaves. *)
UpdateSectorForgets(w, e, c) ==
  LET gone == Around(w.at[e]) \ Around(c)
      new  == Around(c) \ Around(w.at[e])
      s == Shift(w, e, c)
      t == Make(Delete(s, Listeners(s, gone), {e}), Listeners(s, new), {e})
      seen == {x \in UNION {t.sectors[d] : d \in new} : ~IsDead(t, x)}
  IN IF e \in w.owners THEN Make(t, {e}, seen) ELSE t

(* What those in the sectors around do when e comes to c: the ones it       *)
(* leaves delete it, the ones it comes to make it.                          *)
TellOthers(w, e, gone, new) ==
  Make(Delete(w, Listeners(w, gone), {e}), Listeners(w, new), {e})

(* SectorManager::UpdateSector: e has gone to sector c.  Those it leaves    *)
(* delete it, those it comes to make it, and a player is told of all it no  *)
(* longer sees and of all living it now sees.                               *)
UpdateSector(w, e, c) ==
  LET gone == Around(w.at[e]) \ Around(c)
      new  == Around(c) \ Around(w.at[e])
      t == TellOthers(Shift(w, e, c), e, gone, new)
      lost == UNION {t.sectors[d] : d \in gone}
      seen == {x \in UNION {t.sectors[d] : d \in new} : ~IsDead(t, x)}
  IN IF e \in w.owners THEN Make(Delete(t, {e}, lost), {e}, seen) ELSE t

(* SectorManager::SendAllEntityInfo: each sector is told to those around.   *)
SendAllEntityInfo(w) ==
  [w EXCEPT !.view = [s \in Sessions |->
     IF s \in Listeners(w, Grid)
     THEN @[s] \cup UNION {w.sectors[c] : c \in Around(w.at[s])} ELSE @[s]]]

(* GameWorld::SetSpectator: the client is told of every living entity.      *)
SetSpectator(w, e) ==
  LET living == {x \in w.dic : ~IsDead(w, x)}
      u == [w EXCEPT !.spectators = @ \cup {e}]
  IN IF e \in w.owners THEN Make(u, {e}, living) ELSE u

(* SectorManager::Clear.                                                    *)
NoSectors(w) ==
  [w EXCEPT !.sectors = [c \in Grid |-> {}], !.alive = [c \in Grid |-> 0]]

(* GameWorld::Stop: the containers are cleared.                             *)
Cleared(w) ==
  [NoSectors(w) EXCEPT !.dic = {}, !.arr = <<>>, !.idx = <<>>, !.spectators = {},
                       !.at = EmptyWorld.at]

(***************************************************************************)
(* The dictionary, the array and the index dictionary hold the same        *)
(* entities, each where the index says (the swap in RemoveEntity).         *)
(***************************************************************************)
ListsAgree(w) ==
  /\ DOMAIN w.idx = w.dic
  /\ DOMAIN w.arr = 1 .. Cardinality(w.dic)
  /\ \A e \in w.dic : w.idx[e] \in DOMAIN w.arr /\ w.arr[w.idx[e]] = e
  /\ \A j \in DOMAIN w.arr : w.arr[j] \in w.dic /\ w.idx[w.arr[j]] = j

(* An entity of the world is in the set of its sector and in no other, and  *)
(* the players of a sector, which decide whether anything is sent there,    *)
(* are counted exactly.                                                     *)
SectorsAgree(w) ==
  \A c \in Grid :
    /\ w.sectors[c] = {e \in w.dic : w.at[e] = c}
    /\ w.alive[c] = Cardinality(w.sectors[c] \cap Sessions)
=============================================================================
