-------------------------- MODULE GameSystemProofs --------------------------
(***************************************************************************)
(* What GameSystem keeps true, for any users, computer players, map and    *)
(* times.  One lemma for each operator of GameWorld says what it does to   *)
(* the lists, the sectors and the views of a world; the invariants of the  *)
(* update thread follow from them, handler by handler.                     *)
(*                                                                         *)
(* WorldInv holds whatever clients do.  OrderInv adds which packets and    *)
(* ends of sessions are on the way, PlayInv what clients show.             *)
(***************************************************************************)
EXTENDS GameSystem, FiniteSetTheorems, SequenceTheorems, TLAPS

-----------------------------------------------------------------------------
(* The inductive invariant of the world and of the queues.                  *)

Kinds == DOMAIN StageFor

IdxDics == UNION {[S -> Nat] : S \in SUBSET Entities}
World ==
  [dic : SUBSET Entities, arr : Seq(Entities),
   idx : IdxDics,
   at : [Entities -> Grid], sectors : [Grid -> SUBSET Entities],
   alive : [Grid -> Nat], hp : [Entities -> 0 .. MaxHp],
   owners : SUBSET Sessions, spectators : SUBSET Entities,
   view : [Sessions -> SUBSET Entities]]

GoodWorld(w) == w \in World /\ ListsAgree(w) /\ SectorsAgree(w)

(* The variables but the world; the queues hold what the two callbacks put  *)
(* there, and tempQ what the phase has taken.                               *)
Stages ==
  {"off", "new", "entering", "entered", "placed", "loading", "playing", "over", "gone"}

ControlOK ==
  /\ stage \in [Sessions -> Stages] /\ asks \in Nat
  /\ lan \in {"none", "queued", "handled"}
  /\ pc \in {"packets", "conns", "timers", "update"}
  /\ logicQ \in Seq(Sessions \X Kinds) /\ connQ \in Seq(Sessions)
  /\ pc = "packets" => batch \in Seq(Sessions \X Kinds)
  /\ pc = "conns" => batch \in Seq(Sessions)
  /\ pc \in {"timers", "update"} => batch = <<>>
UsersOK ==
  /\ users \subseteq Sessions /\ loads \in Nat /\ made \in 0 .. Inits
  /\ moving \subseteq Sessions
TimeOK ==
  /\ due \subseteq Timers /\ timers \subseteq Timers /\ i \in Nat
  /\ winner \in Users \cup {NoUser} /\ winLeft \in Never .. WinTime

(* A player in the world has a user, and so has whoever is sent something;  *)
(* the computer players are those of the calls of Init so far.              *)
Peopled(w, us, n) ==
  /\ w.owners \subseteq us /\ w.dic \cap Sessions \subseteq us
  /\ \A a \in w.dic \cap AIs : a[1] <= n

WorldInv ==
  ControlOK /\ UsersOK /\ TimeOK /\ GoodWorld(world) /\ Peopled(world, users, made)

-----------------------------------------------------------------------------
(* The packets of s of kind k that are on the way are at these places.      *)
InLogic(s, k) == {n \in DOMAIN logicQ : logicQ[n] = <<s, k>>}
InBatch(s, k) == {n \in DOMAIN batch : pc = "packets" /\ batch[n] = <<s, k>>}
Leaves(s) == \/ \E n \in DOMAIN connQ : connQ[n] = s
             \/ pc = "conns" /\ \E n \in DOMAIN batch : batch[n] = s

(* A session asks to enter once and stays until it is answered; a user      *)
(* whose session has ended is still to be removed.                          *)
EntersOnce ==
  \A s \in Sessions :
    /\ \A m, n \in InLogic(s, "enter") : m = n
    /\ \A m, n \in InBatch(s, "enter") : m = n
    /\ InLogic(s, "enter") = {} \/ InBatch(s, "enter") = {}
EntersWait ==
  \A s \in Sessions :
    InLogic(s, "enter") \cup InBatch(s, "enter") # {} =>
      stage[s] = "entering" /\ s \notin users
LeavesKnown == \A s \in users : stage[s] = "gone" => Leaves(s)
UsersStage == \A s \in users : stage[s] # "new" /\ stage[s] # "off"

OrderInv == EntersOnce /\ EntersWait /\ LeavesKnown /\ UsersStage

-----------------------------------------------------------------------------
(* What each client shows: its player's surroundings, or, once its player   *)
(* is gone and it is a spectator, the world.                                *)
Near(w, s) == {x \in w.dic : w.at[x] \in Around(w.at[s])}
Living(w, es) == {e \in es : ~IsDead(w, e)}
ViewRight(w, s) ==
  IF s \in w.dic
  THEN Living(w, Near(w, s)) \subseteq w.view[s] /\ w.view[s] \subseteq Near(w, s)
  ELSE Living(w, w.dic) \subseteq w.view[s] /\ w.view[s] \ {s} \subseteq w.dic
Views(w) == \A s \in w.owners : ViewRight(w, s) /\ (s \in w.dic \/ s \in w.spectators)

(* Before the world is made nothing runs, nobody has been told to load, and *)
(* each client shows its own player only.                                   *)
Placed == {"placed", "loading", "playing", "over"}
Idle == loads = 0 /\ ~running /\ timers = {} /\ due = {} /\ i = 0
Alone(w) ==
  /\ \A s \in w.owners : s \in w.dic
  /\ \A s \in Sessions : w.view[s] = IF s \in w.owners THEN {s} ELSE {}
NotPlaced == \A s \in Sessions : stage[s] \notin Placed
OnlyEnters ==
  \A s \in Sessions : \A k \in Kinds \ {"enter"} : InLogic(s, k) \cup InBatch(s, k) = {}
BeforeMade == made = 0 => Idle /\ Alone(world) /\ NotPlaced /\ OnlyEnters

(* Once it is made nobody else comes, and as long as it has not ended every *)
(* view is right.                                                           *)
NoEntersAfter ==
  made > 0 => \A s \in Sessions : InLogic(s, "enter") \cup InBatch(s, "enter") = {}
Loaded == running \/ timers \cup due # {} => loads >= Required
ViewInv == made > 0 /\ (running \/ loads < Required) => Views(world)

PlayInv == BeforeMade /\ NoEntersAfter /\ Loaded /\ ViewInv

-----------------------------------------------------------------------------
(* Sets and sectors.                                                        *)

LEMMA EntitiesFinite == IsFiniteSet(Entities)
<1>1. IsFiniteSet(AIs)
  <2>1. IsFiniteSet(1 .. Inits) /\ IsFiniteSet(1 .. AICount)
    BY FS_Interval, WorldAssumption
  <2>2. QED BY <2>1, FS_Product DEF AIs
<1>2. QED BY <1>1, FS_Union, WorldAssumption DEF Entities

LEMMA CornerInGrid == <<1, 1>> \in Grid
BY WorldAssumption DEF Grid

LEMMA AroundSym ==
  ASSUME NEW c \in Grid, NEW d \in Grid
  PROVE  (c \in Around(d) <=> d \in Around(c)) /\ c \in Around(c)
<1>1. c[1] \in Int /\ c[2] \in Int /\ d[1] \in Int /\ d[2] \in Int
  BY WorldAssumption DEF Grid
<1>2. QED BY <1>1 DEF Around

LEMMA AroundGrid == \A c : Around(c) \subseteq Grid
BY DEF Around

(* What a world is made of, and what an update of some fields leaves.       *)
LEMMA WorldType ==
  ASSUME NEW w \in World
  PROVE  /\ w.dic \in SUBSET Entities /\ w.arr \in Seq(Entities)
         /\ w.at \in [Entities -> Grid] /\ w.sectors \in [Grid -> SUBSET Entities]
         /\ w.alive \in [Grid -> Nat] /\ w.hp \in [Entities -> 0 .. MaxHp]
         /\ w.owners \in SUBSET Sessions /\ w.spectators \in SUBSET Entities
         /\ w.view \in [Sessions -> SUBSET Entities]
         /\ w.idx \in IdxDics
         /\ IsFiniteSet(w.dic) /\ Cardinality(w.dic) \in Nat
<1>1. IsFiniteSet(w.dic)
  BY EntitiesFinite, FS_Subset DEF World
<1>2. Cardinality(w.dic) \in Nat
  BY <1>1, FS_CardinalityType
<1>3. QED BY <1>1, <1>2 DEF World

LEMMA IdxType ==
  ASSUME NEW f, NEW S \in SUBSET Entities, f = [x \in S |-> f[x]], \A x \in S : f[x] \in Nat
  PROVE  f \in IdxDics
<1>1. f \in [S -> Nat]
  OBVIOUS
<1>2. QED BY <1>1 DEF IdxDics

(* The counter of a sector follows its set.                                 *)
LEMMA CountIn ==
  ASSUME NEW S \in SUBSET Entities, NEW e \in Entities, e \notin S
  PROVE  Cardinality((S \cup {e}) \cap Sessions) =
           Cardinality(S \cap Sessions) + PlayerCount(e)
<1>1. IsFiniteSet(S \cap Sessions) /\ Cardinality(S \cap Sessions) \in Nat
  BY EntitiesFinite, FS_Subset, FS_CardinalityType
<1>2. CASE e \in Sessions
  <2>1. (S \cup {e}) \cap Sessions = (S \cap Sessions) \cup {e}
    BY <1>2
  <2>2. QED BY <1>1, <1>2, <2>1, FS_AddElement DEF PlayerCount
<1>3. CASE e \notin Sessions
  <2>1. (S \cup {e}) \cap Sessions = S \cap Sessions
    BY <1>3
  <2>2. PlayerCount(e) = 0
    BY <1>3 DEF PlayerCount
  <2>3. Cardinality((S \cup {e}) \cap Sessions) = Cardinality(S \cap Sessions)
    BY <2>1, Zenon
  <2>4. QED BY <1>1, <2>2, <2>3
<1>4. QED BY <1>2, <1>3

LEMMA CountOut ==
  ASSUME NEW S \in SUBSET Entities, NEW e \in S
  PROVE  Cardinality((S \ {e}) \cap Sessions) =
           Cardinality(S \cap Sessions) - PlayerCount(e)
<1>1. (S \ {e}) \cup {e} = S /\ e \notin S \ {e} /\ e \in Entities /\ S \ {e} \in SUBSET Entities
  OBVIOUS
<1>2. Cardinality(S \cap Sessions) =
        Cardinality((S \ {e}) \cap Sessions) + PlayerCount(e)
  BY <1>1, CountIn
<1>3. IsFiniteSet((S \ {e}) \cap Sessions) /\ Cardinality((S \ {e}) \cap Sessions) \in Nat
  BY EntitiesFinite, FS_Subset, FS_CardinalityType
<1>4. QED BY <1>2, <1>3 DEF PlayerCount

LEMMA CountNat ==
  ASSUME NEW S \in SUBSET Entities
  PROVE  Cardinality(S \cap Sessions) \in Nat
BY EntitiesFinite, FS_Subset, FS_CardinalityType

(* A world of which only the lists or only the sectors and positions are    *)
(* looked at.                                                               *)
ListsOf(dic, arr, idx) ==
  /\ DOMAIN idx = dic
  /\ DOMAIN arr = 1 .. Cardinality(dic)
  /\ \A x \in dic : idx[x] \in DOMAIN arr /\ arr[idx[x]] = x
  /\ \A j \in DOMAIN arr : arr[j] \in dic /\ idx[arr[j]] = j
SectorsOf(dic, at, sectors, alive) ==
  \A d \in Grid :
    /\ sectors[d] = {x \in dic : at[x] = d}
    /\ alive[d] = Cardinality(sectors[d] \cap Sessions)

LEMMA ListsAgreeDef == \A w : ListsAgree(w) <=> ListsOf(w.dic, w.arr, w.idx)
BY DEF ListsAgree, ListsOf
LEMMA SectorsAgreeDef == \A w : SectorsAgree(w) <=> SectorsOf(w.dic, w.at, w.sectors, w.alive)
BY DEF SectorsAgree, SectorsOf

-----------------------------------------------------------------------------
(* Updates of a world, with the values of the fields as constants.          *)

(* What does not belong to the lists and the sectors.                       *)
SameRest(w, u) ==
  u.hp = w.hp /\ u.owners = w.owners /\ u.spectators = w.spectators

(* AddEntity.                                                               *)
LEMMA AddFields ==
  ASSUME NEW w \in World, NEW e \in Entities, NEW c \in Grid
  PROVE  AddEntity(w, e, c) =
           [w EXCEPT !.dic = w.dic \cup {e}, !.arr = Append(w.arr, e),
                     !.idx = [x \in DOMAIN w.idx \cup {e} |->
                                IF x = e THEN Len(w.arr) + 1 ELSE w.idx[x]],
                     !.at = [w.at EXCEPT ![e] = c],
                     !.sectors = [w.sectors EXCEPT ![c] = w.sectors[c] \cup {e}],
                     !.alive = [w.alive EXCEPT ![c] = w.alive[c] + PlayerCount(e)]]
BY DEF AddEntity, World

Added(w, e, c, u) ==
  /\ u.dic = w.dic \cup {e} /\ u.arr = Append(w.arr, e)
  /\ u.idx = [x \in DOMAIN w.idx \cup {e} |-> IF x = e THEN Len(w.arr) + 1 ELSE w.idx[x]]
  /\ u.at = [w.at EXCEPT ![e] = c]
  /\ u.sectors = [w.sectors EXCEPT ![c] = w.sectors[c] \cup {e}]
  /\ u.alive = [w.alive EXCEPT ![c] = w.alive[c] + PlayerCount(e)]

LEMMA AddWorld ==
  ASSUME NEW w \in World, ListsAgree(w), NEW e \in Entities, NEW c \in Grid
  PROVE  /\ AddEntity(w, e, c) \in World /\ SameRest(w, AddEntity(w, e, c))
         /\ AddEntity(w, e, c).view = w.view /\ Added(w, e, c, AddEntity(w, e, c))
<1>1. PICK idx : idx = [x \in DOMAIN w.idx \cup {e} |->
                          IF x = e THEN Len(w.arr) + 1 ELSE w.idx[x]]
  OBVIOUS
<1>2. idx \in IdxDics
  <2>1. DOMAIN w.idx = w.dic /\ \A x \in w.dic : w.idx[x] \in Nat
    BY WorldType DEF ListsAgree
  <2>2. Len(w.arr) + 1 \in Nat
    BY WorldType, LenProperties
  <2>3. DOMAIN idx = w.dic \cup {e} /\ \A x \in w.dic \cup {e} : idx[x] \in Nat
    BY <1>1, <2>1, <2>2
  <2>4. QED BY <1>1, <2>1, <2>3, WorldType, IdxType
<1>3. PICK dic, arr, at, sectors, alive :
        /\ dic = w.dic \cup {e} /\ arr = Append(w.arr, e) /\ at = [w.at EXCEPT ![e] = c]
        /\ sectors = [w.sectors EXCEPT ![c] = w.sectors[c] \cup {e}]
        /\ alive = [w.alive EXCEPT ![c] = w.alive[c] + PlayerCount(e)]
  OBVIOUS
<1>4. /\ dic \in SUBSET Entities /\ arr \in Seq(Entities) /\ at \in [Entities -> Grid]
      /\ sectors \in [Grid -> SUBSET Entities]
  BY <1>3, WorldType
<1>5. alive \in [Grid -> Nat]
  BY <1>3, WorldType DEF PlayerCount
<1>6. AddEntity(w, e, c) =
        [w EXCEPT !.dic = dic, !.arr = arr, !.idx = idx, !.at = at,
                  !.sectors = sectors, !.alive = alive]
  BY <1>1, <1>3, AddFields
<1>7. PICK u : u = AddEntity(w, e, c)
  OBVIOUS
<1>8. /\ u \in World /\ SameRest(w, u) /\ u.view = w.view
      /\ u.dic = dic /\ u.arr = arr /\ u.idx = idx /\ u.at = at
      /\ u.sectors = sectors /\ u.alive = alive
  <2>1. u = [w EXCEPT !.dic = dic, !.arr = arr, !.idx = idx, !.at = at,
                      !.sectors = sectors, !.alive = alive]
    BY <1>6, <1>7
  <2>2. QED BY ONLY <1>2, <1>4, <1>5, <2>1, w \in World DEF World, SameRest
<1>9. Added(w, e, c, u)
  BY <1>1, <1>3, <1>8 DEF Added
<1>10. QED BY <1>7, <1>8, <1>9

LEMMA ListLen ==
  ASSUME NEW w \in World, ListsAgree(w)
  PROVE  /\ Len(w.arr) \in Nat /\ Len(w.arr) = Cardinality(w.dic)
         /\ DOMAIN w.arr = 1 .. Len(w.arr)
<1>1. PICK m, n : m = Len(w.arr) /\ n = Cardinality(w.dic)
  OBVIOUS
<1>2. m \in Nat /\ DOMAIN w.arr = 1 .. m
  BY <1>1, WorldType, LenProperties
<1>3. n \in Nat /\ DOMAIN w.arr = 1 .. n
  BY <1>1, WorldType DEF ListsAgree
<1>4. m = n
  BY <1>2, <1>3
<1>5. QED BY <1>1, <1>2, <1>4

LEMMA AddLists ==
  ASSUME NEW w \in World, ListsAgree(w), NEW e \in Entities, e \notin w.dic, NEW c,
         NEW u, Added(w, e, c, u)
  PROVE  ListsAgree(u)
<1> DEFINE n == Len(w.arr)
<1>1. n \in Nat /\ n = Cardinality(w.dic) /\ DOMAIN w.arr = 1 .. n
  BY ListLen
<1>2. Cardinality(u.dic) = n + 1
  <2>1. u.dic = w.dic \cup {e}
    BY DEF Added
  <2>2. Cardinality(w.dic \cup {e}) = Cardinality(w.dic) + 1
    BY WorldType, FS_AddElement
  <2>3. QED BY <1>1, <2>1, <2>2
<1>3. DOMAIN u.arr = 1 .. n + 1 /\ u.arr[n + 1] = e /\ \A j \in 1 .. n : u.arr[j] = w.arr[j]
  BY <1>1, WorldType, AppendProperties DEF Added
<1>4. DOMAIN u.idx = u.dic
  BY DEF Added, ListsAgree
<1>5. u.idx[e] = n + 1 /\ \A x \in w.dic : u.idx[x] = w.idx[x]
  BY DEF Added, ListsAgree
<1>6. ASSUME NEW x \in u.dic PROVE u.idx[x] \in DOMAIN u.arr /\ u.arr[u.idx[x]] = x
  <2>1. CASE x = e
    BY <1>1, <1>3, <1>5, <2>1
  <2>2. CASE x \in w.dic
    <3>1. w.idx[x] \in 1 .. n /\ w.arr[w.idx[x]] = x
      BY <1>1, <2>2 DEF ListsAgree
    <3>2. QED BY <1>1, <1>3, <1>5, <2>2, <3>1
  <2>3. QED BY <2>1, <2>2 DEF Added
<1>7. ASSUME NEW j \in DOMAIN u.arr PROVE u.arr[j] \in u.dic /\ u.idx[u.arr[j]] = j
  <2>1. CASE j = n + 1
    BY <1>3, <1>5, <2>1 DEF Added
  <2>2. CASE j \in 1 .. n
    <3>1. w.arr[j] \in w.dic /\ w.idx[w.arr[j]] = j
      BY <1>1, <2>2 DEF ListsAgree
    <3>2. QED BY <1>3, <1>5, <2>2, <3>1 DEF Added
  <2>3. QED BY <1>1, <1>3, <2>1, <2>2
<1>8. QED BY <1>1, <1>2, <1>3, <1>4, <1>6, <1>7 DEF ListsAgree

LEMMA AddSectors ==
  ASSUME NEW w \in World, SectorsAgree(w), NEW e \in Entities, e \notin w.dic, NEW c \in Grid,
         NEW u, Added(w, e, c, u)
  PROVE  SectorsAgree(u)
<1> SUFFICES ASSUME NEW d \in Grid
             PROVE  /\ u.sectors[d] = {x \in u.dic : u.at[x] = d}
                    /\ u.alive[d] = Cardinality(u.sectors[d] \cap Sessions)
  BY DEF SectorsAgree
<1>1. /\ w.sectors[d] = {x \in w.dic : w.at[x] = d}
      /\ w.alive[d] = Cardinality(w.sectors[d] \cap Sessions)
  BY DEF SectorsAgree
<1>2. u.at[e] = c /\ \A x \in w.dic : u.at[x] = w.at[x]
  BY WorldType DEF Added
<1>3. CASE d = c
  <2>1. u.sectors[c] = w.sectors[c] \cup {e} /\ u.alive[c] = w.alive[c] + PlayerCount(e)
    BY WorldType DEF Added
  <2>2. w.sectors[c] \in SUBSET Entities /\ e \notin w.sectors[c]
    BY <1>1, <1>3, WorldType
  <2>3. u.sectors[c] = {x \in u.dic : u.at[x] = c}
    BY <1>1, <1>2, <1>3, <2>1 DEF Added
  <2>4. QED BY <1>1, <1>3, <2>1, <2>2, <2>3, CountIn
<1>4. CASE d # c
  <2>1. u.sectors[d] = w.sectors[d] /\ u.alive[d] = w.alive[d]
    BY <1>4, WorldType DEF Added
  <2>2. u.dic = w.dic \cup {e}
    BY DEF Added
  <2>3. {x \in u.dic : u.at[x] = d} = {x \in w.dic : w.at[x] = d}
    BY <1>2, <1>4, <2>2
  <2>4. QED BY <1>1, <2>1, <2>3
<1>5. QED BY <1>3, <1>4

-----------------------------------------------------------------------------
(* What clients are told.                                                   *)
SameButView(w, u) ==
  /\ SameRest(w, u) /\ u.dic = w.dic /\ u.arr = w.arr /\ u.idx = w.idx
  /\ u.at = w.at /\ u.sectors = w.sectors /\ u.alive = w.alive

LEMMA SameGood ==
  ASSUME NEW w, NEW u \in World, SameButView(w, u), ListsAgree(w), SectorsAgree(w)
  PROVE  GoodWorld(u)
<1>1. ListsOf(u.dic, u.arr, u.idx)
  BY ListsAgreeDef DEF SameButView
<1>2. SectorsOf(u.dic, u.at, u.sectors, u.alive)
  BY SectorsAgreeDef DEF SameButView
<1>3. QED BY <1>1, <1>2, ListsAgreeDef, SectorsAgreeDef DEF GoodWorld

LEMMA DeleteWorld ==
  ASSUME NEW w \in World, NEW to, NEW es
  PROVE  LET u == Delete(w, to, es) IN
         /\ u \in World /\ SameButView(w, u)
         /\ u.view = [s \in Sessions |-> IF s \in to THEN w.view[s] \ es ELSE w.view[s]]
<1>1. PICK view : view = [s \in Sessions |-> IF s \in to THEN w.view[s] \ es ELSE w.view[s]]
  OBVIOUS
<1>2. view \in [Sessions -> SUBSET Entities]
  BY <1>1, WorldType
<1>3. PICK u : u = Delete(w, to, es)
  OBVIOUS
<1>4. u = [w EXCEPT !.view = view]
  BY <1>1, <1>3 DEF Delete
<1>5. u \in World /\ SameButView(w, u) /\ u.view = view
  BY ONLY <1>2, <1>4, w \in World DEF World, SameButView, SameRest
<1>6. QED BY <1>1, <1>3, <1>5

LEMMA MakeWorld ==
  ASSUME NEW w \in World, NEW to, NEW es \in SUBSET Entities
  PROVE  LET u == Make(w, to, es) IN
         /\ u \in World /\ SameButView(w, u)
         /\ u.view = [s \in Sessions |-> IF s \in to THEN w.view[s] \cup es ELSE w.view[s]]
<1>1. PICK view : view = [s \in Sessions |-> IF s \in to THEN w.view[s] \cup es ELSE w.view[s]]
  OBVIOUS
<1>2. view \in [Sessions -> SUBSET Entities]
  BY <1>1, WorldType
<1>3. PICK u : u = Make(w, to, es)
  OBVIOUS
<1>4. u = [w EXCEPT !.view = view]
  BY <1>1, <1>3 DEF Make
<1>5. u \in World /\ SameButView(w, u) /\ u.view = view
  BY ONLY <1>2, <1>4, w \in World DEF World, SameButView, SameRest
<1>6. QED BY <1>1, <1>3, <1>5

(* The sectors around in which a player is counted are those of the         *)
(* players: a packet reaches the users whose players stand there.           *)
LEMMA ListenersAre ==
  ASSUME NEW w \in World, SectorsAgree(w), NEW cells \in SUBSET Grid
  PROVE  Listeners(w, cells) = {s \in w.owners \cap w.dic : w.at[s] \in cells}
<1>1. ASSUME NEW s \in Listeners(w, cells)
      PROVE  s \in w.owners \cap w.dic /\ w.at[s] \in cells
  <2>1. PICK c \in cells : s \in w.sectors[c] /\ s \in w.owners
    BY DEF Listeners, Reached
  <2>2. QED BY <2>1 DEF SectorsAgree
<1>2. ASSUME NEW s \in w.owners \cap w.dic, w.at[s] \in cells
      PROVE  s \in Listeners(w, cells)
  <2>1. PICK c \in cells : c = w.at[s]
    BY <1>2
  <2>2. s \in w.sectors[c] \cap Sessions
    BY <2>1, WorldType DEF SectorsAgree
  <2>3. IsFiniteSet(w.sectors[c] \cap Sessions)
    BY EntitiesFinite, FS_Subset, WorldType
  <2>4. Cardinality(w.sectors[c] \cap Sessions) > 0
    BY <2>2, <2>3, FS_EmptySet, FS_CardinalityType
  <2>5. w.alive[c] > 0
    BY <2>4 DEF SectorsAgree
  <2>6. QED BY <2>2, <2>5 DEF Listeners, Reached
<1>3. QED BY <1>1, <1>2

-----------------------------------------------------------------------------
(* RemoveEntity.                                                            *)
Unlisted(w, e, u) ==
  /\ u.dic = w.dic \ {e}
  /\ u.arr = [j \in 1 .. Len(w.arr) - 1 |->
                IF j = w.idx[e] THEN w.arr[Len(w.arr)] ELSE w.arr[j]]
  /\ u.idx = [x \in DOMAIN w.idx \ {e} |->
                IF x = w.arr[Len(w.arr)] THEN w.idx[e] ELSE w.idx[x]]

LEMMA UnlistWorld ==
  ASSUME NEW w \in World, ListsAgree(w), NEW e \in w.dic
  PROVE  LET u == Unlist(w, e) IN
         /\ u \in World /\ SameRest(w, u) /\ Unlisted(w, e, u)
         /\ u.view = w.view /\ u.at = w.at /\ u.sectors = w.sectors /\ u.alive = w.alive
<1>1. PICK n, k : n = Len(w.arr) /\ k = w.idx[e]
  OBVIOUS
<1>2. n \in Nat /\ DOMAIN w.arr = 1 .. n /\ k \in 1 .. n
  BY <1>1, ListLen DEF ListsAgree
<1>3. PICK dic, arr, idx :
        /\ dic = w.dic \ {e}
        /\ arr = [j \in 1 .. n - 1 |-> IF j = k THEN w.arr[n] ELSE w.arr[j]]
        /\ idx = [x \in DOMAIN w.idx \ {e} |-> IF x = w.arr[n] THEN k ELSE w.idx[x]]
  OBVIOUS
<1>4. dic \in SUBSET Entities
  BY <1>3, WorldType
<1>5. arr \in Seq(Entities)
  <2>1. n - 1 \in Nat /\ n \in 1 .. n /\ 1 .. n - 1 \subseteq 1 .. n
    BY <1>2
  <2>2. \A j \in 1 .. n : w.arr[j] \in Entities
    BY <1>2, WorldType, ElementOfSeq
  <2>3. QED BY <1>3, <2>1, <2>2, IsASeq
<1>6. idx \in IdxDics
  <2>1. DOMAIN w.idx = w.dic /\ \A x \in w.dic : w.idx[x] \in Nat
    BY <1>2, WorldType, ListLen DEF ListsAgree
  <2>2. DOMAIN idx = dic /\ \A x \in dic : idx[x] \in Nat
    BY <1>2, <1>3, <2>1
  <2>3. QED BY <1>3, <1>4, <2>1, <2>2, IdxType
<1>7. PICK u : u = Unlist(w, e)
  OBVIOUS
<1>8. u = [w EXCEPT !.dic = dic, !.arr = arr, !.idx = idx]
  BY <1>1, <1>3, <1>7 DEF Unlist, World
<1>9. /\ u \in World /\ SameRest(w, u) /\ u.dic = dic /\ u.arr = arr /\ u.idx = idx
      /\ u.view = w.view /\ u.at = w.at /\ u.sectors = w.sectors /\ u.alive = w.alive
  BY ONLY <1>4, <1>5, <1>6, <1>8, w \in World DEF World, SameRest
<1>10. Unlisted(w, e, u)
  BY <1>1, <1>3, <1>9 DEF Unlisted
<1>11. QED BY <1>7, <1>9, <1>10

LEMMA UnlistLists ==
  ASSUME NEW w \in World, ListsAgree(w), NEW e \in w.dic, NEW u, Unlisted(w, e, u)
  PROVE  ListsAgree(u)
<1>1. PICK n, k, l : n = Len(w.arr) /\ k = w.idx[e] /\ l = w.arr[n]
  OBVIOUS
<1>2. n \in Nat /\ n = Cardinality(w.dic) /\ DOMAIN w.arr = 1 .. n
  BY <1>1, ListLen
<1>3. k \in 1 .. n /\ w.arr[k] = e
  BY <1>1, <1>2 DEF ListsAgree
<1>4. n \in 1 .. n /\ l \in w.dic /\ w.idx[l] = n
  <2>1. n \in 1 .. n
    BY <1>2, <1>3
  <2>2. QED BY <1>1, <1>2, <2>1 DEF ListsAgree
<1>5. Cardinality(u.dic) = n - 1
  <2>1. u.dic = w.dic \ {e}
    BY DEF Unlisted
  <2>2. Cardinality(w.dic \ {e}) = Cardinality(w.dic) - 1
    <3>1. IsFiniteSet(w.dic)
      BY WorldType
    <3>2. QED BY <3>1, FS_RemoveElement
  <2>3. QED BY <1>2, <2>1, <2>2
<1>6. DOMAIN u.idx = u.dic /\ DOMAIN u.arr = 1 .. n - 1
  BY <1>1 DEF Unlisted, ListsAgree
<1>7. \A x \in u.dic : u.idx[x] = IF x = l THEN k ELSE w.idx[x]
  BY <1>1 DEF Unlisted, ListsAgree
<1>8. \A j \in 1 .. n - 1 : u.arr[j] = IF j = k THEN l ELSE w.arr[j]
  BY <1>1 DEF Unlisted
<1>9. ASSUME NEW x \in u.dic PROVE u.idx[x] \in 1 .. n - 1 /\ u.arr[u.idx[x]] = x
  <2>1. x \in w.dic /\ x # e
    BY DEF Unlisted
  <2>2. PICK m : m = w.idx[x]
    OBVIOUS
  <2>3. m \in 1 .. n /\ w.arr[m] = x
    BY <1>2, <2>1, <2>2 DEF ListsAgree
  <2>4. CASE x = l
    <3>1. k # n
      BY <1>1, <1>3, <2>1, <2>4
    <3>2. k \in 1 .. n - 1
      BY <1>2, <1>3, <3>1
    <3>3. QED BY <1>7, <1>8, <2>4, <3>2
  <2>5. CASE x # l
    <3>1. m # n /\ m # k
      BY <1>1, <1>3, <2>1, <2>3, <2>5
    <3>2. m \in 1 .. n - 1
      BY <1>2, <2>3, <3>1
    <3>3. QED BY <1>7, <1>8, <2>2, <2>3, <2>5, <3>1, <3>2
  <2>6. QED BY <2>4, <2>5
<1>10. ASSUME NEW j \in 1 .. n - 1 PROVE u.arr[j] \in u.dic /\ u.idx[u.arr[j]] = j
  <2>1. j \in 1 .. n /\ j # n
    BY <1>2
  <2>2. w.arr[j] \in w.dic /\ w.idx[w.arr[j]] = j
    BY <1>2, <2>1 DEF ListsAgree
  <2>3. CASE j = k
    <3>1. l # e
      BY <1>1, <1>4, <2>1, <2>3
    <3>2. l \in u.dic
      BY <1>4, <3>1 DEF Unlisted
    <3>3. QED BY <1>7, <1>8, <2>3, <3>2
  <2>4. CASE j # k
    <3>1. w.arr[j] # e /\ w.arr[j] # l
      BY <1>1, <1>4, <2>1, <2>2, <2>4
    <3>2. w.arr[j] \in u.dic
      BY <2>2, <3>1 DEF Unlisted
    <3>3. QED BY <1>7, <1>8, <2>2, <2>4, <3>1, <3>2
  <2>5. QED BY <2>3, <2>4
<1>11. QED BY <1>5, <1>6, <1>9, <1>10 DEF ListsAgree

(* The set of e's sector and its counter without e.                         *)
Leave(v, e, c) == [v EXCEPT !.sectors[c] = @ \ {e}, !.alive[c] = @ - PlayerCount(e)]

LEMMA LeaveWorld ==
  ASSUME NEW w \in World, SectorsAgree(w), NEW e \in w.dic,
         NEW v \in World, v.dic = w.dic \ {e}, v.at = w.at,
         v.sectors = w.sectors, v.alive = w.alive, NEW c, c = w.at[e],
         NEW u, u = Leave(v, e, c)
  PROVE  /\ u \in World /\ SameRest(v, u) /\ SectorsAgree(u) /\ u.view = v.view
         /\ u.dic = v.dic /\ u.arr = v.arr /\ u.idx = v.idx /\ u.at = v.at
<1>0. e \in Entities /\ c \in Grid
  BY WorldType
<1>1. PICK sectors, alive :
        /\ sectors = [w.sectors EXCEPT ![c] = w.sectors[c] \ {e}]
        /\ alive = [w.alive EXCEPT ![c] = w.alive[c] - PlayerCount(e)]
  OBVIOUS
<1>2. sectors \in [Grid -> SUBSET Entities]
  BY <1>1, WorldType
<1>3. e \in w.sectors[c] /\ w.sectors[c] \in SUBSET Entities
  BY <1>0, WorldType DEF SectorsAgree
<1>4. /\ w.alive[c] = Cardinality(w.sectors[c] \cap Sessions)
      /\ w.alive[c] - PlayerCount(e) = Cardinality((w.sectors[c] \ {e}) \cap Sessions)
  BY <1>0, <1>3, CountOut DEF SectorsAgree
<1>5. w.alive[c] - PlayerCount(e) \in Nat
  BY <1>3, <1>4, CountNat
<1>6. alive \in [Grid -> Nat]
  BY <1>1, <1>5, WorldType
<1>7. u = [v EXCEPT !.sectors = sectors, !.alive = alive]
  BY <1>1 DEF Leave, World
<1>8. /\ u \in World /\ SameRest(v, u) /\ u.view = v.view /\ u.dic = v.dic
      /\ u.arr = v.arr /\ u.idx = v.idx /\ u.at = v.at
      /\ u.sectors = sectors /\ u.alive = alive
  BY ONLY <1>2, <1>6, <1>7, v \in World DEF World, SameRest
<1>9. ASSUME NEW d \in Grid
      PROVE  /\ sectors[d] = {x \in w.dic \ {e} : w.at[x] = d}
             /\ alive[d] = Cardinality(sectors[d] \cap Sessions)
  <2>1. /\ w.sectors[d] = {x \in w.dic : w.at[x] = d}
        /\ w.alive[d] = Cardinality(w.sectors[d] \cap Sessions)
    BY DEF SectorsAgree
  <2>2. CASE d = c
    <3>1. sectors[d] = w.sectors[c] \ {e} /\ alive[d] = w.alive[c] - PlayerCount(e)
      BY <1>1, <2>2, WorldType
    <3>2. QED BY <1>4, <2>1, <2>2, <3>1
  <2>3. CASE d # c
    <3>1. sectors[d] = w.sectors[d] /\ alive[d] = w.alive[d]
      BY <1>1, <2>3, WorldType
    <3>2. QED BY <2>1, <2>3, <3>1
  <2>4. QED BY <2>2, <2>3
<1>10. SectorsOf(u.dic, u.at, u.sectors, u.alive)
  <2>1. u.dic = w.dic \ {e} /\ u.at = w.at
    BY <1>8
  <2>2. SectorsOf(w.dic \ {e}, w.at, sectors, alive)
    BY <1>9 DEF SectorsOf
  <2>3. QED BY <1>8, <2>1, <2>2
<1>11. QED BY <1>8, <1>10, SectorsAgreeDef

(* Who is told that e has left w.                                           *)
ToldOfEnd(w, e) ==
  {s \in w.owners : (s \in w.dic \ {e} /\ w.at[s] \in Around(w.at[e])) \/ s \in w.spectators}

Removed(w, e, u) ==
  /\ u.dic = w.dic \ {e} /\ u.at = [w.at EXCEPT ![e] = <<1, 1>>]
  /\ \A s \in Sessions :
       u.view[s] = IF s \in ToldOfEnd(w, e) THEN w.view[s] \ {e} ELSE w.view[s]

LEMMA RemoveWorld ==
  ASSUME NEW w, GoodWorld(w), NEW e \in w.dic
  PROVE  LET u == RemoveEntity(w, e) IN
         GoodWorld(u) /\ SameRest(w, u) /\ Removed(w, e, u)
<1>0. w \in World /\ ListsAgree(w) /\ SectorsAgree(w) /\ e \in Entities
  BY WorldType DEF GoodWorld
<1>1. PICK u1, c : u1 = Unlist(w, e) /\ c = w.at[e]
  OBVIOUS
<1>2. /\ u1 \in World /\ SameRest(w, u1) /\ Unlisted(w, e, u1)
      /\ u1.view = w.view /\ u1.at = w.at /\ u1.sectors = w.sectors /\ u1.alive = w.alive
      /\ ListsAgree(u1)
  BY <1>0, <1>1, UnlistWorld, UnlistLists
<1>3. PICK u2 : u2 = Leave(u1, e, c)
  OBVIOUS
<1>4. u1.dic = w.dic \ {e} /\ c \in Grid
  BY <1>0, <1>1, <1>2, WorldType DEF Unlisted
<1>5. /\ u2 \in World /\ SameRest(u1, u2) /\ SectorsAgree(u2) /\ u2.view = u1.view
      /\ u2.dic = u1.dic /\ u2.arr = u1.arr /\ u2.idx = u1.idx /\ u2.at = u1.at
  <2>1. /\ u1.dic = w.dic \ {e} /\ u1.at = w.at
        /\ u1.sectors = w.sectors /\ u1.alive = w.alive
    BY <1>2, <1>4
  <2>2. w \in World /\ SectorsAgree(w) /\ e \in w.dic /\ u1 \in World
    BY <1>0, <1>2
  <2>3. QED BY ONLY <1>1, <1>3, <2>1, <2>2, LeaveWorld
<1>6. ListsAgree(u2)
  BY <1>2, <1>5, ListsAgreeDef
<1>7. PICK L, u3 : L = Listeners(u2, Around(c)) /\ u3 = Delete(u2, L, {e})
  OBVIOUS
<1>8. u3 \in World /\ SameButView(u2, u3)
      /\ u3.view = [s \in Sessions |-> IF s \in L THEN u2.view[s] \ {e} ELSE u2.view[s]]
  BY <1>5, <1>7, DeleteWorld
<1>9. PICK W, u4 : W = Watchers(u3) /\ u4 = Delete(u3, W, {e})
  OBVIOUS
<1>10. u4 \in World /\ SameButView(u3, u4)
       /\ u4.view = [s \in Sessions |-> IF s \in W THEN u3.view[s] \ {e} ELSE u3.view[s]]
  <2>1. u3 \in World
    BY <1>8
  <2>2. QED BY ONLY <1>9, <2>1, DeleteWorld
<1>11. ListsAgree(u4) /\ SectorsAgree(u4)
  BY <1>5, <1>6, <1>8, <1>10, SameGood DEF GoodWorld
<1>12. PICK u5 : u5 = RemoveEntity(w, e)
  OBVIOUS
<1>13. u5 = [u4 EXCEPT !.at[e] = EmptyWorld.at[e]]
  <2>1. u3 = DeleteEntity(u1, e)
    BY <1>1, <1>2, <1>3, <1>7 DEF DeleteEntity, Leave
  <2>2. QED BY <1>1, <1>9, <1>12, <2>1 DEF RemoveEntity
<1>14. PICK at : at = [u4.at EXCEPT ![e] = <<1, 1>>]
  OBVIOUS
<1>15. at \in [Entities -> Grid]
  BY <1>10, <1>14, WorldType, CornerInGrid
<1>16. u5 = [u4 EXCEPT !.at = at]
  <2>1. EmptyWorld.at[e] = <<1, 1>>
    BY <1>0 DEF EmptyWorld
  <2>2. QED BY <1>13, <1>14, <2>1
<1>17. /\ u5 \in World /\ SameRest(u4, u5) /\ u5.view = u4.view /\ u5.dic = u4.dic
       /\ u5.arr = u4.arr /\ u5.idx = u4.idx /\ u5.at = at
       /\ u5.sectors = u4.sectors /\ u5.alive = u4.alive
  BY ONLY <1>10, <1>15, <1>16 DEF World, SameRest
<1>18. u4.dic = w.dic \ {e} /\ u4.at = w.at /\ SameRest(w, u5)
  BY <1>2, <1>4, <1>5, <1>8, <1>10, <1>17 DEF SameButView, SameRest
<1>19. ListsAgree(u5)
  BY <1>11, <1>17, ListsAgreeDef
<1>20. SectorsAgree(u5)
  <2>1. ASSUME NEW d \in Grid
        PROVE  {x \in u4.dic : u4.at[x] = d} = {x \in u5.dic : at[x] = d}
    BY <1>10, <1>14, <1>17, <1>18, WorldType
  <2>2. SectorsOf(u4.dic, u4.at, u4.sectors, u4.alive)
    BY <1>11, SectorsAgreeDef
  <2>3. SectorsOf(u5.dic, u5.at, u5.sectors, u5.alive)
    BY <1>17, <2>1, <2>2 DEF SectorsOf
  <2>4. QED BY <2>3, SectorsAgreeDef
<1>21. Removed(w, e, u5)
  <2>1. L = {s \in w.owners : s \in w.dic \ {e} /\ w.at[s] \in Around(c)}
    <3>1. L = {s \in u2.owners \cap u2.dic : u2.at[s] \in Around(c)}
      BY <1>4, <1>5, <1>7, ListenersAre, AroundGrid
    <3>2. QED BY <1>2, <1>4, <1>5, <3>1 DEF SameRest
  <2>2. W = {s \in w.owners : s \in w.spectators}
    BY <1>2, <1>5, <1>8, <1>9 DEF Watchers, Reached, SameButView, SameRest
  <2>3. ASSUME NEW s \in Sessions
        PROVE  u5.view[s] = IF s \in ToldOfEnd(w, e) THEN w.view[s] \ {e} ELSE w.view[s]
    <3>1. s \in ToldOfEnd(w, e) <=> s \in L \/ s \in W
      BY <1>1, <2>1, <2>2 DEF ToldOfEnd
    <3>2. u5.view[s] = IF s \in L \/ s \in W THEN w.view[s] \ {e} ELSE w.view[s]
      BY <1>2, <1>5, <1>8, <1>10, <1>17
    <3>3. QED BY <3>1, <3>2
  <2>4. u5.dic = w.dic \ {e} /\ u5.at = [w.at EXCEPT ![e] = <<1, 1>>]
    BY <1>14, <1>17, <1>18
  <2>5. QED BY <2>3, <2>4 DEF Removed
<1>22. QED BY <1>12, <1>17, <1>18, <1>19, <1>20, <1>21 DEF GoodWorld

LEMMA RemoveNothing ==
  ASSUME NEW w, NEW e, e \notin w.dic
  PROVE  RemoveEntity(w, e) = w
BY DEF RemoveEntity

-----------------------------------------------------------------------------
(* UpdateSector.                                                            *)
Shifted(w, e, p, c, at, sectors, alive) ==
  /\ at = [w.at EXCEPT ![e] = c]
  /\ sectors = [[w.sectors EXCEPT ![p] = w.sectors[p] \ {e}]
                   EXCEPT ![c] = w.sectors[c] \cup {e}]
  /\ alive = [[w.alive EXCEPT ![p] = w.alive[p] - PlayerCount(e)]
                   EXCEPT ![c] = w.alive[c] + PlayerCount(e)]

LEMMA ShiftWorld ==
  ASSUME NEW w \in World, ListsAgree(w), SectorsAgree(w), NEW e \in w.dic,
         NEW c \in Grid, c # w.at[e]
  PROVE  LET u == Shift(w, e, c) IN
         /\ u \in World /\ ListsAgree(u) /\ SectorsAgree(u)
         /\ SameRest(w, u) /\ u.view = w.view /\ u.dic = w.dic
         /\ u.at = [w.at EXCEPT ![e] = c]
<1>0. PICK p : p = w.at[e]
  OBVIOUS
<1>1. e \in Entities /\ p \in Grid /\ c # p
  BY <1>0, WorldType
<1>2. PICK at, sectors, alive : Shifted(w, e, p, c, at, sectors, alive)
  BY DEF Shifted
<1>3. at \in [Entities -> Grid] /\ sectors \in [Grid -> SUBSET Entities]
  BY <1>1, <1>2, WorldType DEF Shifted
<1>4. /\ sectors[p] = w.sectors[p] \ {e} /\ alive[p] = w.alive[p] - PlayerCount(e)
      /\ sectors[c] = w.sectors[c] \cup {e} /\ alive[c] = w.alive[c] + PlayerCount(e)
      /\ \A d \in Grid \ {p, c} : sectors[d] = w.sectors[d] /\ alive[d] = w.alive[d]
      /\ DOMAIN alive = Grid /\ alive = [d \in Grid |-> alive[d]]
  BY <1>1, <1>2, WorldType DEF Shifted
<1>5. /\ w.sectors[p] = {x \in w.dic : w.at[x] = p}
      /\ w.alive[p] = Cardinality(w.sectors[p] \cap Sessions)
      /\ w.sectors[c] = {x \in w.dic : w.at[x] = c}
      /\ w.alive[c] = Cardinality(w.sectors[c] \cap Sessions)
  BY <1>1 DEF SectorsAgree
<1>6. /\ e \in w.sectors[p] /\ w.sectors[p] \in SUBSET Entities
      /\ e \notin w.sectors[c] /\ w.sectors[c] \in SUBSET Entities
  BY <1>0, <1>1, <1>5, WorldType
<1>7. alive[p] = Cardinality(sectors[p] \cap Sessions)
  BY <1>4, <1>5, <1>6, CountOut
<1>8. alive[c] = Cardinality(sectors[c] \cap Sessions)
  BY <1>1, <1>4, <1>5, <1>6, CountIn
<1>9. ASSUME NEW d \in Grid
      PROVE  /\ sectors[d] = {x \in w.dic : at[x] = d}
             /\ alive[d] = Cardinality(sectors[d] \cap Sessions)
  <2>1. at[e] = c /\ \A x \in w.dic \ {e} : at[x] = w.at[x]
    BY <1>1, <1>2, WorldType DEF Shifted
  <2>2. CASE d = p
    <3>1. sectors[p] = {x \in w.dic : at[x] = p}
      BY <1>1, <1>4, <1>5, <2>1
    <3>2. QED BY <1>7, <2>2, <3>1
  <2>3. CASE d = c
    <3>1. sectors[c] = {x \in w.dic : at[x] = c}
      BY <1>1, <1>4, <1>5, <2>1
    <3>2. QED BY <1>8, <2>3, <3>1
  <2>4. CASE d # p /\ d # c
    <3>1. sectors[d] = w.sectors[d] /\ alive[d] = w.alive[d]
      BY <1>4, <2>4
    <3>2. /\ w.sectors[d] = {x \in w.dic : w.at[x] = d}
          /\ w.alive[d] = Cardinality(w.sectors[d] \cap Sessions)
      BY DEF SectorsAgree
    <3>3. {x \in w.dic : w.at[x] = d} = {x \in w.dic : at[x] = d}
      BY <1>0, <2>1, <2>4
    <3>4. QED BY <3>1, <3>2, <3>3
  <2>5. QED BY <2>2, <2>3, <2>4
<1>10. alive \in [Grid -> Nat]
  <2>1. \A d \in Grid : alive[d] \in Nat
    BY <1>3, <1>9, CountNat
  <2>2. QED BY <1>4, <2>1
<1>11. PICK u : u = Shift(w, e, c)
  OBVIOUS
<1>12. u = [w EXCEPT !.at = at, !.sectors = sectors, !.alive = alive]
  <2>1. PICK left, less : /\ left = [w.sectors EXCEPT ![p] = w.sectors[p] \ {e}]
                          /\ less = [w.alive EXCEPT ![p] = w.alive[p] - PlayerCount(e)]
    OBVIOUS
  <2>2. left[c] = w.sectors[c] /\ less[c] = w.alive[c]
    BY <1>1, <2>1, WorldType
  <2>3. u = [w EXCEPT !.at = [w.at EXCEPT ![e] = c],
                      !.sectors = [left EXCEPT ![c] = left[c] \cup {e}],
                      !.alive = [less EXCEPT ![c] = less[c] + PlayerCount(e)]]
    BY ONLY <1>0, <1>11, <2>1, w \in World DEF Shift, World
  <2>4. QED BY <1>2, <2>1, <2>2, <2>3 DEF Shifted
<1>13. /\ u \in World /\ SameRest(w, u) /\ u.view = w.view /\ u.dic = w.dic
       /\ u.arr = w.arr /\ u.idx = w.idx /\ u.at = at
       /\ u.sectors = sectors /\ u.alive = alive
  BY ONLY <1>3, <1>10, <1>12, w \in World DEF World, SameRest
<1>14. ListsAgree(u)
  BY <1>13, ListsAgreeDef
<1>15. SectorsAgree(u)
  <2>1. SectorsOf(w.dic, at, sectors, alive)
    BY <1>9 DEF SectorsOf
  <2>2. QED BY <1>13, <2>1, SectorsAgreeDef
<1>16. QED BY <1>2, <1>11, <1>13, <1>14, <1>15 DEF Shifted

(* The sectors e leaves behind and comes to see.                            *)
GoneFor(w, e, c) == Around(w.at[e]) \ Around(c)
NewFor(w, e, c) == Around(c) \ Around(w.at[e])

Moved(w, e, c, u) ==
  /\ u.dic = w.dic /\ u.at = [w.at EXCEPT ![e] = c]
  /\ \A s \in w.owners \ {e} :
       u.view[s] = IF s \in w.dic /\ w.at[s] \in GoneFor(w, e, c) THEN w.view[s] \ {e}
                   ELSE IF s \in w.dic /\ w.at[s] \in NewFor(w, e, c) THEN w.view[s] \cup {e}
                   ELSE w.view[s]
  /\ e \in w.owners =>
       u.view[e] = (w.view[e] \ {x \in w.dic \ {e} : w.at[x] \in GoneFor(w, e, c)})
                   \cup {x \in w.dic \ {e} : w.at[x] \in NewFor(w, e, c) /\ ~IsDead(w, x)}

LEMMA UpdateWorld ==
  ASSUME NEW w, GoodWorld(w), NEW e \in w.dic,
         NEW c \in Around(w.at[e]), c # w.at[e]
  PROVE  LET u == UpdateSector(w, e, c) IN
         GoodWorld(u) /\ SameRest(w, u) /\ Moved(w, e, c, u)
<1>0. /\ w \in World /\ ListsAgree(w) /\ SectorsAgree(w) /\ e \in Entities
      /\ w.at[e] \in Grid /\ c \in Grid
  BY WorldType, AroundGrid DEF GoodWorld
<1>1. PICK gone, new : gone = GoneFor(w, e, c) /\ new = NewFor(w, e, c)
  OBVIOUS
<1>2. /\ gone \in SUBSET Grid /\ new \in SUBSET Grid /\ gone \cap new = {}
      /\ c \notin gone /\ c \notin new /\ w.at[e] \notin gone /\ w.at[e] \notin new
  <2>1. c \in Around(c) /\ w.at[e] \in Around(c)
    BY <1>0, AroundSym
  <2>2. QED BY <1>0, <1>1, <2>1, AroundGrid, AroundSym DEF GoneFor, NewFor
<1>3. PICK a : a = Shift(w, e, c)
  OBVIOUS
<1>4. /\ a \in World /\ ListsAgree(a) /\ SectorsAgree(a)
      /\ SameRest(w, a) /\ a.view = w.view /\ a.dic = w.dic
      /\ a.at = [w.at EXCEPT ![e] = c]
  BY <1>0, <1>3, ShiftWorld
<1>5. PICK L, b : L = Listeners(a, gone) /\ b = Delete(a, L, {e})
  OBVIOUS
<1>6. b \in World /\ SameButView(a, b)
      /\ b.view = [s \in Sessions |-> IF s \in L THEN a.view[s] \ {e} ELSE a.view[s]]
  BY ONLY <1>4, <1>5, DeleteWorld
<1>7. ListsAgree(b) /\ SectorsAgree(b)
  BY <1>4, <1>6, SameGood DEF GoodWorld
<1>8. PICK M, t : M = Listeners(a, new) /\ t = Make(b, M, {e})
  OBVIOUS
<1>9. t \in World /\ SameButView(b, t)
      /\ t.view = [s \in Sessions |-> IF s \in M THEN b.view[s] \cup {e} ELSE b.view[s]]
  <2>1. {e} \in SUBSET Entities /\ b \in World
    BY <1>0, <1>6
  <2>2. QED BY ONLY <1>8, <2>1, MakeWorld
<1>10. ListsAgree(t) /\ SectorsAgree(t)
  BY <1>7, <1>9, SameGood DEF GoodWorld
<1>11. L = {s \in w.owners \cap w.dic : a.at[s] \in gone}
  BY <1>2, <1>4, <1>5, ListenersAre DEF SameRest
<1>12. M = {s \in w.owners \cap w.dic : a.at[s] \in new}
  BY <1>2, <1>4, <1>8, ListenersAre DEF SameRest
<1>13. \A x \in Entities : a.at[x] = IF x = e THEN c ELSE w.at[x]
  BY <1>0, <1>4, WorldType
<1>14. \A s \in Sessions : t.view[s] =
         IF s \in L THEN IF s \in M THEN (w.view[s] \ {e}) \cup {e} ELSE w.view[s] \ {e}
         ELSE IF s \in M THEN w.view[s] \cup {e} ELSE w.view[s]
  BY <1>4, <1>6, <1>9
<1>15. L \cap M = {} /\ e \notin L /\ e \notin M
  BY <1>0, <1>2, <1>11, <1>12, <1>13
<1>16. ASSUME NEW s \in w.owners
       PROVE  t.view[s] =
         IF s # e /\ s \in w.dic /\ w.at[s] \in gone THEN w.view[s] \ {e}
         ELSE IF s # e /\ s \in w.dic /\ w.at[s] \in new THEN w.view[s] \cup {e}
         ELSE w.view[s]
  <2>1. s \in Sessions /\ s \in Entities
    BY <1>0, WorldType DEF Entities
  <2>2. s \in L <=> s # e /\ s \in w.dic /\ w.at[s] \in gone
    BY <1>11, <1>13, <1>15, <2>1
  <2>3. s \in M <=> s # e /\ s \in w.dic /\ w.at[s] \in new
    BY <1>12, <1>13, <1>15, <2>1
  <2>4. QED BY <1>14, <1>15, <2>1, <2>2, <2>3
<1>17. PICK lost, seen :
         /\ lost = UNION {t.sectors[d] : d \in gone}
         /\ seen = {x \in UNION {t.sectors[d] : d \in new} : ~IsDead(t, x)}
  OBVIOUS
<1>18. t.dic = w.dic /\ t.at = a.at /\ t.hp = w.hp /\ t.owners = w.owners
  BY <1>4, <1>6, <1>9 DEF SameButView, SameRest
<1>19. lost = {x \in w.dic \ {e} : w.at[x] \in gone}
  <2>1. lost = {x \in w.dic : a.at[x] \in gone}
    <3>1. \A d \in gone : t.sectors[d] = {x \in t.dic : t.at[x] = d}
      BY <1>2, <1>10 DEF SectorsAgree
    <3>2. QED BY <1>17, <1>18, <3>1
  <2>2. QED BY <1>0, <1>2, <1>13, <2>1, WorldType
<1>20. seen = {x \in w.dic \ {e} : w.at[x] \in new /\ ~IsDead(w, x)} /\ seen \in SUBSET Entities
  <2>1. seen = {x \in w.dic : a.at[x] \in new /\ ~IsDead(w, x)}
    <3>1. \A d \in new : t.sectors[d] = {x \in t.dic : t.at[x] = d}
      BY <1>2, <1>10 DEF SectorsAgree
    <3>2. \A x : IsDead(t, x) <=> IsDead(w, x)
      BY <1>18 DEF IsDead
    <3>3. QED BY <1>17, <1>18, <3>1, <3>2
  <2>2. QED BY <1>0, <1>2, <1>13, <2>1, WorldType
<1>21. PICK u : u = UpdateSector(w, e, c)
  OBVIOUS
<1>22. u = IF e \in w.owners THEN Make(Delete(t, {e}, lost), {e}, seen) ELSE t
  <2>1. t = TellOthers(a, e, gone, new)
    BY <1>5, <1>8 DEF TellOthers
  <2>2. QED BY <1>1, <1>3, <1>17, <1>21, <2>1 DEF UpdateSector, GoneFor, NewFor
<1>23. CASE e \notin w.owners
  <2>1. u = t
    BY <1>22, <1>23
  <2>2. SameRest(w, u) /\ u.dic = w.dic /\ u.at = [w.at EXCEPT ![e] = c]
    BY <1>4, <1>6, <1>9, <2>1 DEF SameButView, SameRest
  <2>3. Moved(w, e, c, u)
    BY <1>1, <1>16, <1>23, <2>1, <2>2 DEF Moved
  <2>4. QED BY <1>9, <1>10, <1>21, <2>1, <2>2, <2>3 DEF GoodWorld
<1>24. CASE e \in w.owners
  <2>1. PICK v : v = Delete(t, {e}, lost)
    OBVIOUS
  <2>2. v \in World /\ SameButView(t, v)
        /\ v.view = [s \in Sessions |-> IF s \in {e} THEN t.view[s] \ lost ELSE t.view[s]]
    <3>1. t \in World
      BY <1>9
    <3>2. QED BY ONLY <2>1, <3>1, DeleteWorld
  <2>3. u = Make(v, {e}, seen)
    BY <1>22, <1>24, <2>1
  <2>4. u \in World /\ SameButView(v, u)
        /\ u.view = [s \in Sessions |-> IF s \in {e} THEN v.view[s] \cup seen ELSE v.view[s]]
    BY ONLY <1>20, <2>2, <2>3, MakeWorld
  <2>5. GoodWorld(v)
    BY <1>10, <2>2, SameGood
  <2>6. GoodWorld(u)
    BY <2>4, <2>5, SameGood DEF GoodWorld
  <2>7. SameRest(w, u) /\ u.dic = w.dic /\ u.at = [w.at EXCEPT ![e] = c]
    BY <1>4, <1>6, <1>9, <2>2, <2>4 DEF SameButView, SameRest
  <2>8. e \in Sessions /\ w.owners \in SUBSET Sessions
    BY <1>0, <1>24, WorldType
  <2>9. u.view[e] = (w.view[e] \ lost) \cup seen
    BY <1>16, <1>24, <2>2, <2>4, <2>8
  <2>10. \A s \in w.owners \ {e} : u.view[s] = t.view[s]
    BY <2>2, <2>4, <2>8
  <2>11. Moved(w, e, c, u)
    BY <1>1, <1>16, <1>19, <1>20, <2>7, <2>9, <2>10 DEF Moved
  <2>12. QED BY <1>21, <2>6, <2>7, <2>11
<1>25. QED BY <1>23, <1>24

-----------------------------------------------------------------------------
(* The loop of GameWorld::Init.                                             *)

(* Induction for a set: no infinite descent, by the pigeonhole principle.   *)
LEMMA NatSet ==
  ASSUME NEW T, 0 \in T, \A n \in Nat : n \in T => n + 1 \in T
  PROVE  Nat \subseteq T
<1>1. SUFFICES ASSUME NEW m \in Nat, m \notin T PROVE FALSE
  OBVIOUS
<1>2. PICK D : D = {k \in 0 .. m : k \in T}
  OBVIOUS
<1>3. IsFiniteSet(D) /\ Cardinality(D) \in Nat
  <2>1. IsFiniteSet(0 .. m)
    BY <1>1, FS_Interval
  <2>2. D \subseteq 0 .. m
    BY <1>2
  <2>3. QED BY <2>1, <2>2, FS_Subset, FS_CardinalityType
<1>4. 0 \in D
  BY <1>1, <1>2
<1>5. IsFiniteSet(D \ {0}) /\ Cardinality(D \ {0}) = Cardinality(D) - 1
  BY <1>3, <1>4, FS_RemoveElement
<1>6. PICK f : f = [k \in D |-> k + 1]
  OBVIOUS
<1>7. ASSUME NEW k \in D PROVE k + 1 \in D \ {0}
  <2>1. k \in 0 .. m /\ k \in T /\ k # m
    BY <1>1, <1>2
  <2>2. k + 1 \in 0 .. m /\ k + 1 # 0
    BY <1>1, <2>1
  <2>3. QED BY <1>2, <2>1, <2>2
<1>8. f \in [D -> D \ {0}]
  BY <1>6, <1>7
<1>9. Cardinality(D \ {0}) < Cardinality(D)
  BY <1>3, <1>5
<1>10. \E x, y \in D : x # y /\ f[x] = f[y]
  BY <1>3, <1>5, <1>8, <1>9, FS_PigeonHole
<1>11. \A x, y \in D : f[x] = f[y] => x = y
  BY <1>1, <1>2, <1>6
<1>12. QED BY <1>10, <1>11

(* The worlds after the first computer players, one after the other.        *)
IsLoop(f, k, w, n, place) ==
  f = [j \in 0 .. k |-> IF j = 0 THEN w ELSE AddEntity(f[j - 1], <<n, j>>, place[j])]

LEMMA LoopExists ==
  ASSUME NEW w, NEW n, NEW place
  PROVE  \E f : IsLoop(f, AICount, w, n, place)
<1>1. PICK T : T = {k \in Nat : \E f : IsLoop(f, k, w, n, place)}
  OBVIOUS
<1>2. 0 \in T
  <2>1. IsLoop([j \in 0 .. 0 |-> w], 0, w, n, place)
    BY DEF IsLoop
  <2>2. QED BY <1>1, <2>1
<1>3. ASSUME NEW k \in Nat, k \in T PROVE k + 1 \in T
  <2>1. PICK f : IsLoop(f, k, w, n, place)
    BY <1>1, <1>3
  <2>2. PICK g : g = [j \in 0 .. k + 1 |->
                        IF j = 0 THEN w ELSE AddEntity(f[j - 1], <<n, j>>, place[j])]
    OBVIOUS
  <2>3. \A j \in 0 .. k : g[j] = f[j]
    BY <2>1, <2>2 DEF IsLoop
  <2>4. \A j \in 0 .. k + 1 : j # 0 => g[j - 1] = f[j - 1]
    BY <2>3
  <2>5. IsLoop(g, k + 1, w, n, place)
    BY <2>2, <2>4 DEF IsLoop
  <2>6. QED BY <1>1, <2>5
<1>4. AICount \in T
  BY <1>2, <1>3, NatSet, WorldAssumption
<1>5. QED BY <1>1, <1>4

LEMMA CreateIsLoop ==
  ASSUME NEW w, NEW n, NEW place
  PROVE  \E f : IsLoop(f, AICount, w, n, place) /\ CreateAIs(w, n, place) = f[AICount]
<1> DEFINE f == CHOOSE f : IsLoop(f, AICount, w, n, place)
<1>1. IsLoop(f, AICount, w, n, place)
  BY LoopExists
<1>2. CreateAIs(w, n, place) = f[AICount]
  BY DEF CreateAIs, IsLoop
<1>3. QED BY <1>1, <1>2

(* What the loop has made of w.                                             *)
Grown(w, n, u) ==
  /\ GoodWorld(u) /\ SameRest(w, u) /\ u.view = w.view /\ w.dic \subseteq u.dic
  /\ \A x \in w.dic : u.at[x] = w.at[x]

LEMMA AddGood ==
  ASSUME NEW w, GoodWorld(w), NEW e \in Entities, e \notin w.dic, NEW c \in Grid
  PROVE  LET u == AddEntity(w, e, c) IN
         /\ GoodWorld(u) /\ SameRest(w, u) /\ u.view = w.view
         /\ u.dic = w.dic \cup {e} /\ u.at = [w.at EXCEPT ![e] = c]
<1>1. w \in World /\ ListsAgree(w) /\ SectorsAgree(w)
  BY DEF GoodWorld
<1>2. PICK u : u = AddEntity(w, e, c)
  OBVIOUS
<1>3. u \in World /\ SameRest(w, u) /\ u.view = w.view /\ Added(w, e, c, u)
  BY <1>1, <1>2, AddWorld
<1>4. ListsAgree(u) /\ SectorsAgree(u)
  BY <1>1, <1>3, AddLists, AddSectors
<1>5. QED BY <1>2, <1>3, <1>4 DEF GoodWorld, Added

LEMMA GrowStep ==
  ASSUME NEW w, NEW n, NEW u, Grown(w, n, u), NEW e \in Entities, e \notin u.dic, NEW c \in Grid
  PROVE  Grown(w, n, AddEntity(u, e, c)) /\ AddEntity(u, e, c).dic = u.dic \cup {e}
<1>1. PICK v : v = AddEntity(u, e, c)
  OBVIOUS
<1>2. /\ GoodWorld(v) /\ SameRest(u, v) /\ v.view = u.view
      /\ v.dic = u.dic \cup {e} /\ v.at = [u.at EXCEPT ![e] = c]
  BY <1>1, AddGood DEF Grown
<1>3. \A x \in w.dic : v.at[x] = w.at[x]
  <2>1. u \in World /\ w.dic \subseteq u.dic
    BY DEF Grown, GoodWorld
  <2>2. QED BY <1>2, <2>1, WorldType DEF Grown
<1>4. QED BY <1>1, <1>2, <1>3 DEF Grown, SameRest

LEMMA CreateGrows ==
  ASSUME NEW w, GoodWorld(w), NEW n \in 1 .. Inits, \A a \in w.dic \cap AIs : a[1] < n,
         NEW place \in [1 .. AICount -> Grid]
  PROVE  LET u == CreateAIs(w, n, place) IN
         Grown(w, n, u) /\ \A x \in u.dic \ w.dic : x \in AIs /\ x[1] = n
<1>1. PICK f : IsLoop(f, AICount, w, n, place) /\ CreateAIs(w, n, place) = f[AICount]
  BY CreateIsLoop
<1>2. /\ f[0] = w
      /\ \A j \in 0 .. AICount : j # 0 => f[j] = AddEntity(f[j - 1], <<n, j>>, place[j])
  BY <1>1, WorldAssumption DEF IsLoop
<1> DEFINE P(k) == /\ Grown(w, n, f[k])
                   /\ \A x \in f[k].dic \ w.dic : x \in AIs /\ x[1] = n /\ x[2] <= k
<1>3. PICK T : T = {k \in Nat : k <= AICount => P(k)}
  OBVIOUS
<1>4. 0 \in T
  <2>1. P(0)
    BY <1>2 DEF Grown, SameRest
  <2>2. QED BY <1>3, <2>1
<1>5. ASSUME NEW k \in Nat, k \in T PROVE k + 1 \in T
  <2>1. SUFFICES ASSUME k + 1 <= AICount PROVE P(k + 1)
    BY <1>3
  <2>2. P(k) /\ AICount \in Nat
    BY <1>3, <1>5, <2>1, WorldAssumption
  <2>3. PICK j, e : j = k + 1 /\ e = <<n, j>>
    OBVIOUS
  <2>4. j \in 1 .. AICount /\ j \in 0 .. AICount /\ j # 0 /\ j - 1 = k
    BY <2>1, <2>2, <2>3
  <2>5. e \in AIs /\ e \in Entities /\ e[1] = n /\ e[2] = j
    BY <2>3, <2>4 DEF AIs, Entities
  <2>6. e \notin f[k].dic
    <3>1. e \notin w.dic
      BY <2>5
    <3>2. ~(e[2] <= k)
      BY <2>4, <2>5
    <3>3. QED BY <2>2, <3>1, <3>2
  <2>7. f[j] = AddEntity(f[k], e, place[j]) /\ place[j] \in Grid
    BY <1>2, <2>3, <2>4
  <2>8. Grown(w, n, f[j]) /\ f[j].dic = f[k].dic \cup {e}
    BY <2>2, <2>5, <2>6, <2>7, GrowStep
  <2>9. \A x \in f[j].dic \ w.dic : x \in AIs /\ x[1] = n /\ x[2] <= j
    <3>1. \A x \in AIs : x[2] \in Int
      BY DEF AIs
    <3>2. QED BY <2>2, <2>4, <2>5, <2>8, <3>1
  <2>10. QED BY <2>3, <2>8, <2>9
<1>6. P(AICount)
  BY <1>3, <1>4, <1>5, NatSet, WorldAssumption
<1>7. QED BY <1>1, <1>6

-----------------------------------------------------------------------------
(* The other operations on worlds.                                          *)

LEMMA GoodFields ==
  ASSUME NEW w, GoodWorld(w), NEW u \in World,
         u.dic = w.dic, u.arr = w.arr, u.idx = w.idx, u.at = w.at,
         u.sectors = w.sectors, u.alive = w.alive
  PROVE  GoodWorld(u)
<1>1. ListsOf(u.dic, u.arr, u.idx)
  BY ListsAgreeDef DEF GoodWorld
<1>2. SectorsOf(u.dic, u.at, u.sectors, u.alive)
  BY SectorsAgreeDef DEF GoodWorld
<1>3. QED BY <1>1, <1>2, ListsAgreeDef, SectorsAgreeDef DEF GoodWorld

(* u has the entities of w where they are in w.                             *)
SamePlaces(w, u) == u.dic = w.dic /\ u.at = w.at

LEMMA WithUserWorld ==
  ASSUME NEW w, GoodWorld(w), NEW s \in Sessions
  PROVE  LET u == WithUser(w, s) IN
         /\ GoodWorld(u) /\ SamePlaces(w, u) /\ u.hp = w.hp /\ u.view = w.view
         /\ u.spectators = w.spectators /\ u.owners = w.owners \cup {s}
<1>1. PICK owners : owners = w.owners \cup {s}
  OBVIOUS
<1>2. owners \in SUBSET Sessions /\ w \in World
  BY <1>1, WorldType DEF GoodWorld
<1>3. PICK u : u = WithUser(w, s)
  OBVIOUS
<1>4. u = [w EXCEPT !.owners = owners]
  BY <1>1, <1>3 DEF WithUser
<1>5. /\ u \in World /\ u.dic = w.dic /\ u.arr = w.arr /\ u.idx = w.idx /\ u.at = w.at
      /\ u.sectors = w.sectors /\ u.alive = w.alive /\ u.hp = w.hp /\ u.view = w.view
      /\ u.spectators = w.spectators /\ u.owners = owners
  BY ONLY <1>2, <1>4 DEF World
<1>6. GoodWorld(u)
  BY <1>5, GoodFields
<1>7. QED BY <1>1, <1>3, <1>5, <1>6 DEF SamePlaces

LEMMA WithoutUserWorld ==
  ASSUME NEW w, GoodWorld(w), NEW s \in Sessions
  PROVE  LET u == WithoutUser(w, s) IN
         /\ GoodWorld(u) /\ SamePlaces(w, u) /\ u.hp = w.hp
         /\ u.spectators = w.spectators /\ u.owners = w.owners \ {s}
         /\ u.view[s] = {} /\ \A r \in Sessions \ {s} : u.view[r] = w.view[r]
<1>1. PICK owners, view : owners = w.owners \ {s} /\ view = [w.view EXCEPT ![s] = {}]
  OBVIOUS
<1>2. /\ owners \in SUBSET Sessions /\ view \in [Sessions -> SUBSET Entities] /\ w \in World
      /\ view[s] = {} /\ \A r \in Sessions \ {s} : view[r] = w.view[r]
  BY <1>1, WorldType DEF GoodWorld
<1>3. PICK u : u = WithoutUser(w, s)
  OBVIOUS
<1>4. u = [w EXCEPT !.owners = owners, !.view = view]
  BY <1>1, <1>2, <1>3 DEF WithoutUser, World
<1>5. /\ u \in World /\ u.dic = w.dic /\ u.arr = w.arr /\ u.idx = w.idx /\ u.at = w.at
      /\ u.sectors = w.sectors /\ u.alive = w.alive /\ u.hp = w.hp /\ u.view = view
      /\ u.spectators = w.spectators /\ u.owners = owners
  BY ONLY <1>2, <1>4 DEF World
<1>6. GoodWorld(u)
  BY <1>5, GoodFields
<1>7. QED BY <1>1, <1>2, <1>3, <1>5, <1>6 DEF SamePlaces

LEMMA DamagedWorld ==
  ASSUME NEW w, GoodWorld(w), NEW e \in Entities
  PROVE  LET u == Damaged(w, e) IN
         /\ GoodWorld(u) /\ SamePlaces(w, u) /\ u.owners = w.owners
         /\ u.view = w.view /\ u.spectators = w.spectators
         /\ \A x \in Entities : IsDead(w, x) => IsDead(u, x)
<1>1. PICK hp : hp = [w.hp EXCEPT ![e] = IF w.hp[e] <= 1 THEN 0 ELSE w.hp[e] - 1]
  OBVIOUS
<1>2. w \in World
  BY DEF GoodWorld
<1>3. hp \in [Entities -> 0 .. MaxHp]
  <2>1. w.hp \in [Entities -> 0 .. MaxHp] /\ MaxHp \in Nat
    BY <1>2, WorldType, WorldAssumption
  <2>2. (IF w.hp[e] <= 1 THEN 0 ELSE w.hp[e] - 1) \in 0 .. MaxHp
    BY <2>1
  <2>3. QED BY <1>1, <2>1, <2>2
<1>4. \A x \in Entities : w.hp[x] = 0 => hp[x] = 0
  BY <1>1, <1>2, WorldType
<1>5. PICK u : u = Damaged(w, e)
  OBVIOUS
<1>6. u = [w EXCEPT !.hp = hp]
  BY <1>1, <1>2, <1>5 DEF Damaged, World
<1>7. /\ u \in World /\ u.dic = w.dic /\ u.arr = w.arr /\ u.idx = w.idx /\ u.at = w.at
      /\ u.sectors = w.sectors /\ u.alive = w.alive /\ u.hp = hp /\ u.view = w.view
      /\ u.spectators = w.spectators /\ u.owners = w.owners
  BY ONLY <1>2, <1>3, <1>6 DEF World
<1>8. GoodWorld(u)
  BY <1>7, GoodFields
<1>9. QED BY <1>4, <1>5, <1>7, <1>8 DEF SamePlaces, IsDead

LEMMA SpectatorsWorld ==
  ASSUME NEW w, GoodWorld(w), NEW es \in SUBSET Entities
  PROVE  LET u == [w EXCEPT !.spectators = es] IN
         /\ GoodWorld(u) /\ SamePlaces(w, u) /\ u.hp = w.hp
         /\ u.owners = w.owners /\ u.view = w.view /\ u.spectators = es
<1>1. w \in World
  BY DEF GoodWorld
<1>2. PICK u : u = [w EXCEPT !.spectators = es]
  OBVIOUS
<1>3. /\ u \in World /\ u.dic = w.dic /\ u.arr = w.arr /\ u.idx = w.idx /\ u.at = w.at
      /\ u.sectors = w.sectors /\ u.alive = w.alive /\ u.hp = w.hp /\ u.view = w.view
      /\ u.spectators = es /\ u.owners = w.owners
  BY ONLY <1>1, <1>2, es \in SUBSET Entities DEF World
<1>4. GoodWorld(u)
  BY <1>3, GoodFields
<1>5. QED BY <1>2, <1>3, <1>4 DEF SamePlaces

LEMMA SetSpectatorWorld ==
  ASSUME NEW w, GoodWorld(w), NEW e \in Entities
  PROVE  LET u == SetSpectator(w, e) IN
         /\ GoodWorld(u) /\ SamePlaces(w, u) /\ u.hp = w.hp
         /\ u.owners = w.owners /\ u.spectators = w.spectators \cup {e}
         /\ \A s \in Sessions : u.view[s] =
              IF s = e /\ e \in w.owners THEN w.view[s] \cup Living(w, w.dic) ELSE w.view[s]
<1>1. w \in World
  BY DEF GoodWorld
<1>2. PICK es : es = w.spectators \cup {e}
  OBVIOUS
<1>3. es \in SUBSET Entities
  BY <1>1, <1>2, WorldType
<1>4. PICK v : v = [w EXCEPT !.spectators = es]
  OBVIOUS
<1>5. /\ GoodWorld(v) /\ SamePlaces(w, v) /\ v.hp = w.hp
      /\ v.owners = w.owners /\ v.view = w.view /\ v.spectators = es
  BY ONLY <1>3, <1>4, GoodWorld(w), SpectatorsWorld
<1>6. PICK u : u = SetSpectator(w, e)
  OBVIOUS
<1>7. u = IF e \in w.owners THEN Make(v, {e}, Living(w, w.dic)) ELSE v
  BY <1>2, <1>4, <1>6 DEF SetSpectator, Living
<1>8. CASE e \notin w.owners
  <2>1. u = v
    BY <1>7, <1>8
  <2>2. QED BY <1>2, <1>5, <1>6, <1>8, <2>1
<1>9. CASE e \in w.owners
  <2>1. u = Make(v, {e}, Living(w, w.dic))
    BY <1>7, <1>9
  <2>2. v \in World /\ Living(w, w.dic) \in SUBSET Entities
    BY <1>1, <1>5, WorldType DEF GoodWorld, Living
  <2>3. u \in World /\ SameButView(v, u)
        /\ u.view = [s \in Sessions |->
                       IF s \in {e} THEN v.view[s] \cup Living(w, w.dic) ELSE v.view[s]]
    BY ONLY <2>1, <2>2, MakeWorld
  <2>4. GoodWorld(u)
    BY <1>5, <2>3, SameGood DEF GoodWorld
  <2>5. /\ SamePlaces(w, u) /\ u.hp = w.hp /\ u.owners = w.owners
        /\ u.spectators = w.spectators \cup {e}
    BY <1>2, <1>5, <2>3 DEF SamePlaces, SameButView, SameRest
  <2>6. QED BY <1>5, <1>6, <1>9, <2>3, <2>4, <2>5
<1>10. QED BY <1>8, <1>9

LEMMA ClearedWorld ==
  ASSUME NEW w, GoodWorld(w)
  PROVE  LET u == Cleared(w) IN
         /\ GoodWorld(u) /\ u.dic = {} /\ u.owners = w.owners /\ u.hp = w.hp
         /\ u.view = w.view
<1>1. w \in World
  BY DEF GoodWorld
<1>2. PICK at, sectors, alive, none :
        /\ at = [x \in Entities |-> <<1, 1>>] /\ sectors = [d \in Grid |-> {}]
        /\ alive = [d \in Grid |-> 0] /\ none = <<>>
  OBVIOUS
<1>3. /\ at \in [Entities -> Grid] /\ sectors \in [Grid -> SUBSET Entities]
      /\ alive \in [Grid -> Nat] /\ none \in Seq(Entities) /\ DOMAIN none = {}
  BY <1>2, CornerInGrid
<1>4. none \in IdxDics
  <2>1. none = [x \in {} |-> none[x]]
    BY <1>2
  <2>2. QED BY <2>1, IdxType
<1>5. PICK u : u = Cleared(w)
  OBVIOUS
<1>6. u = [w EXCEPT !.sectors = sectors, !.alive = alive, !.dic = {}, !.arr = none,
                    !.idx = none, !.spectators = {}, !.at = at]
  <2>1. EmptyWorld.at = at
    BY <1>2 DEF EmptyWorld
  <2>2. NoSectors(w) = [w EXCEPT !.sectors = sectors, !.alive = alive]
    BY <1>2 DEF NoSectors
  <2>3. QED BY <1>2, <1>5, <2>1, <2>2 DEF Cleared
<1>7. /\ u \in World /\ u.dic = {} /\ u.arr = none /\ u.idx = none /\ u.at = at
      /\ u.sectors = sectors /\ u.alive = alive /\ u.hp = w.hp /\ u.view = w.view
      /\ u.owners = w.owners
  BY ONLY <1>1, <1>3, <1>4, <1>6 DEF World
<1>8. ListsAgree(u)
  BY <1>3, <1>7, FS_EmptySet DEF ListsAgree
<1>9. SectorsAgree(u)
  <2>1. SUFFICES ASSUME NEW d \in Grid
                 PROVE  /\ u.sectors[d] = {x \in u.dic : u.at[x] = d}
                        /\ u.alive[d] = Cardinality(u.sectors[d] \cap Sessions)
    BY DEF SectorsAgree
  <2>2. u.sectors[d] = {} /\ u.alive[d] = 0
    BY <1>2, <1>7
  <2>3. u.sectors[d] \cap Sessions = {}
    BY <2>2
  <2>4. Cardinality(u.sectors[d] \cap Sessions) = 0
    BY <2>3, FS_EmptySet
  <2>5. QED BY <1>7, <2>2, <2>4
<1>10. QED BY <1>5, <1>7, <1>8, <1>9 DEF GoodWorld

LEMMA SendAllWorld ==
  ASSUME NEW w, GoodWorld(w)
  PROVE  LET u == SendAllEntityInfo(w) IN
         /\ GoodWorld(u) /\ SamePlaces(w, u) /\ SameRest(w, u)
         /\ \A s \in Sessions : u.view[s] =
              IF s \in w.owners \cap w.dic THEN w.view[s] \cup Near(w, s) ELSE w.view[s]
<1>1. w \in World /\ SectorsAgree(w)
  BY DEF GoodWorld
<1>2. PICK L : L = Listeners(w, Grid)
  OBVIOUS
<1>3. L = w.owners \cap w.dic
  <2>1. L = {s \in w.owners \cap w.dic : w.at[s] \in Grid}
    BY <1>1, <1>2, ListenersAre
  <2>2. QED BY <1>1, <2>1, WorldType
<1>4. ASSUME NEW s \in w.dic
      PROVE  UNION {w.sectors[c] : c \in Around(w.at[s])} = Near(w, s)
  <2>1. \A c \in Around(w.at[s]) : w.sectors[c] = {x \in w.dic : w.at[x] = c}
    BY <1>1, AroundGrid DEF SectorsAgree
  <2>2. QED BY <2>1 DEF Near
<1>5. PICK view : view = [s \in Sessions |->
        IF s \in L THEN w.view[s] \cup UNION {w.sectors[c] : c \in Around(w.at[s])}
        ELSE w.view[s]]
  OBVIOUS
<1>6. \A s \in Sessions : view[s] =
        IF s \in w.owners \cap w.dic THEN w.view[s] \cup Near(w, s) ELSE w.view[s]
  BY <1>3, <1>4, <1>5
<1>7. view \in [Sessions -> SUBSET Entities]
  <2>1. \A s : Near(w, s) \in SUBSET Entities
    BY <1>1, WorldType DEF Near
  <2>2. \A s \in Sessions : view[s] \in SUBSET Entities
    <3>1. SUFFICES ASSUME NEW s \in Sessions PROVE view[s] \in SUBSET Entities
      OBVIOUS
    <3>2. w.view[s] \in SUBSET Entities /\ Near(w, s) \in SUBSET Entities
      BY <1>1, <2>1, WorldType
    <3>3. view[s] = w.view[s] \cup Near(w, s) \/ view[s] = w.view[s]
      BY <1>6
    <3>4. QED BY <3>2, <3>3
  <2>3. QED BY <1>5, <2>2
<1>8. PICK u : u = SendAllEntityInfo(w)
  OBVIOUS
<1>9. u = [w EXCEPT !.view = view]
  BY <1>2, <1>5, <1>8 DEF SendAllEntityInfo
<1>10. u \in World /\ SameButView(w, u) /\ u.view = view
  BY ONLY <1>1, <1>7, <1>9 DEF World, SameButView, SameRest
<1>11. GoodWorld(u)
  BY <1>10, SameGood DEF GoodWorld
<1>12. QED BY <1>6, <1>8, <1>10, <1>11 DEF SameButView, SamePlaces

(* HandleEnter up to the making of the world.                               *)
EnterOf(w, s, c) == Make(WithUser(AddEntity(w, s, c), s), {s}, {s})

Entered(w, s, c, u) ==
  /\ u.dic = w.dic \cup {s} /\ u.at = [w.at EXCEPT ![s] = c] /\ u.hp = w.hp
  /\ u.owners = w.owners \cup {s} /\ u.spectators = w.spectators
  /\ \A r \in Sessions : u.view[r] = IF r = s THEN w.view[r] \cup {s} ELSE w.view[r]

LEMMA EnterWorld ==
  ASSUME NEW w, GoodWorld(w), NEW s \in Sessions, s \notin w.dic, NEW c \in Grid
  PROVE  GoodWorld(EnterOf(w, s, c)) /\ Entered(w, s, c, EnterOf(w, s, c))
<1>0. s \in Entities
  BY DEF Entities
<1>1. PICK a : a = AddEntity(w, s, c)
  OBVIOUS
<1>2. /\ GoodWorld(a) /\ SameRest(w, a) /\ a.view = w.view
      /\ a.dic = w.dic \cup {s} /\ a.at = [w.at EXCEPT ![s] = c]
  BY <1>0, <1>1, AddGood
<1>3. PICK b : b = WithUser(a, s)
  OBVIOUS
<1>4. /\ GoodWorld(b) /\ SamePlaces(a, b) /\ b.hp = a.hp /\ b.view = a.view
      /\ b.spectators = a.spectators /\ b.owners = a.owners \cup {s}
  BY ONLY <1>2, <1>3, WithUserWorld, s \in Sessions
<1>5. PICK u : u = EnterOf(w, s, c)
  OBVIOUS
<1>6. u = Make(b, {s}, {s}) /\ b \in World /\ {s} \in SUBSET Entities
  BY <1>0, <1>1, <1>3, <1>4, <1>5 DEF EnterOf, GoodWorld
<1>7. u \in World /\ SameButView(b, u)
      /\ u.view = [r \in Sessions |-> IF r \in {s} THEN b.view[r] \cup {s} ELSE b.view[r]]
  BY ONLY <1>6, MakeWorld
<1>8. GoodWorld(u)
  BY <1>4, <1>7, SameGood DEF GoodWorld
<1>9. Entered(w, s, c, u)
  <2>1. u.dic = w.dic \cup {s} /\ u.at = [w.at EXCEPT ![s] = c] /\ u.hp = w.hp
    BY <1>2, <1>4, <1>7 DEF SamePlaces, SameButView, SameRest
  <2>2. u.owners = w.owners \cup {s} /\ u.spectators = w.spectators
    BY <1>2, <1>4, <1>7 DEF SameButView, SameRest
  <2>3. \A r \in Sessions : u.view[r] = IF r = s THEN w.view[r] \cup {s} ELSE w.view[r]
    BY <1>2, <1>4, <1>7
  <2>4. QED BY <2>1, <2>2, <2>3 DEF Entered
<1>10. QED BY <1>5, <1>8, <1>9

(* Init: everybody is shown what is around.                                 *)
MadeFrom(w, n, u) ==
  /\ SameRest(w, u) /\ w.dic \subseteq u.dic
  /\ \A x \in u.dic \ w.dic : x \in AIs /\ x[1] = n
  /\ \A x \in w.dic : u.at[x] = w.at[x]
  /\ \A s \in Sessions : u.view[s] =
       IF s \in u.owners \cap u.dic THEN w.view[s] \cup Near(u, s) ELSE w.view[s]

LEMMA MadeGood ==
  ASSUME NEW w, GoodWorld(w), NEW n \in 1 .. Inits, \A a \in w.dic \cap AIs : a[1] < n,
         NEW place \in [1 .. AICount -> Grid]
  PROVE  GoodWorld(MadeWorld(w, n, place)) /\ MadeFrom(w, n, MadeWorld(w, n, place))
<1>1. PICK v : v = CreateAIs(w, n, place)
  OBVIOUS
<1>2. Grown(w, n, v) /\ \A x \in v.dic \ w.dic : x \in AIs /\ x[1] = n
  BY <1>1, CreateGrows
<1>3. PICK u : u = SendAllEntityInfo(v)
  OBVIOUS
<1>4. GoodWorld(v)
  BY <1>2 DEF Grown
<1>5. /\ GoodWorld(u) /\ SamePlaces(v, u) /\ SameRest(v, u)
      /\ \A s \in Sessions : u.view[s] =
           IF s \in v.owners \cap v.dic THEN v.view[s] \cup Near(v, s) ELSE v.view[s]
  BY ONLY <1>3, <1>4, SendAllWorld
<1>6. u = MadeWorld(w, n, place)
  BY <1>1, <1>3 DEF MadeWorld
<1>7. \A s : Near(u, s) = Near(v, s)
  BY <1>5 DEF SamePlaces, Near
<1>8. SameRest(w, u) /\ w.dic \subseteq u.dic /\ u.dic = v.dic /\ v.view = w.view
  BY <1>2, <1>5 DEF Grown, SamePlaces, SameRest
<1>9. \A x \in w.dic : u.at[x] = w.at[x]
  BY <1>2, <1>5 DEF Grown, SamePlaces
<1>10. \A s \in Sessions : u.view[s] =
         IF s \in u.owners \cap u.dic THEN w.view[s] \cup Near(u, s) ELSE w.view[s]
  <2>1. u.owners = v.owners
    BY <1>5 DEF SameRest
  <2>2. SUFFICES ASSUME NEW s \in Sessions
                 PROVE  u.view[s] = IF s \in u.owners \cap u.dic
                                    THEN w.view[s] \cup Near(u, s) ELSE w.view[s]
    OBVIOUS
  <2>3. u.view[s] = IF s \in v.owners \cap v.dic THEN v.view[s] \cup Near(v, s) ELSE v.view[s]
    BY <1>5
  <2>4. v.view = w.view /\ v.dic = u.dic /\ v.owners = u.owners /\ Near(v, s) = Near(u, s)
    BY <1>7, <1>8, <2>1
  <2>5. QED BY ONLY <2>3, <2>4
<1>11. MadeFrom(w, n, u)
  BY <1>2, <1>8, <1>9, <1>10 DEF MadeFrom
<1>12. QED BY <1>5, <1>6, <1>11

-----------------------------------------------------------------------------
(* The invariant of the world: every step keeps it.                         *)

LEMMA WorldInvAgrees == WorldInv => WorldAgrees
<1> SUFFICES ASSUME WorldInv PROVE WorldAgrees
  OBVIOUS
<1>1. world \in World /\ ListsAgree(world) /\ SectorsAgree(world)
  BY DEF WorldInv, GoodWorld
<1>2. /\ world.dic \subseteq Entities /\ world.hp \in [Entities -> 0 .. MaxHp]
      /\ world.alive \in [Grid -> Nat] /\ world.view \in [Sessions -> SUBSET Entities]
  BY <1>1, WorldType
<1>3. TypeOK
  BY <1>2 DEF WorldInv, ControlOK, UsersOK, TimeOK, Peopled, TypeOK, Stages
<1>4. QED BY <1>1, <1>3 DEF WorldAgrees

LEMMA EmptyIsGood == GoodWorld(EmptyWorld)
<1>1. PICK at, sectors, alive, none, hp, view :
        /\ at = [x \in Entities |-> <<1, 1>>] /\ sectors = [d \in Grid |-> {}]
        /\ alive = [d \in Grid |-> 0] /\ none = <<>>
        /\ hp = [x \in Entities |-> MaxHp] /\ view = [s \in Sessions |-> {}]
  OBVIOUS
<1>2. /\ at \in [Entities -> Grid] /\ sectors \in [Grid -> SUBSET Entities]
      /\ alive \in [Grid -> Nat] /\ none \in Seq(Entities) /\ DOMAIN none = {}
      /\ hp \in [Entities -> 0 .. MaxHp] /\ view \in [Sessions -> SUBSET Entities]
  BY <1>1, CornerInGrid, WorldAssumption
<1>3. none \in IdxDics
  <2>1. none = [x \in {} |-> none[x]]
    BY <1>1
  <2>2. QED BY <2>1, IdxType
<1>4. PICK u : u = EmptyWorld
  OBVIOUS
<1>5. u = [dic |-> {}, arr |-> none, idx |-> none, at |-> at, sectors |-> sectors,
           alive |-> alive, hp |-> hp, owners |-> {}, spectators |-> {}, view |-> view]
  BY <1>1, <1>4 DEF EmptyWorld
<1>6. /\ u \in World /\ u.dic = {} /\ u.arr = none /\ u.idx = none /\ u.at = at
      /\ u.sectors = sectors /\ u.alive = alive
  BY ONLY <1>2, <1>3, <1>5 DEF World
<1>7. ListsAgree(u)
  BY <1>2, <1>6, FS_EmptySet DEF ListsAgree
<1>8. SectorsAgree(u)
  <2>1. SUFFICES ASSUME NEW d \in Grid
                 PROVE  /\ u.sectors[d] = {x \in u.dic : u.at[x] = d}
                        /\ u.alive[d] = Cardinality(u.sectors[d] \cap Sessions)
    BY DEF SectorsAgree
  <2>2. u.sectors[d] = {} /\ u.alive[d] = 0
    BY <1>1, <1>6
  <2>3. u.sectors[d] \cap Sessions = {}
    BY <2>2
  <2>4. Cardinality(u.sectors[d] \cap Sessions) = 0
    BY <2>3, FS_EmptySet
  <2>5. QED BY <1>6, <2>2, <2>4
<1>9. QED BY <1>4, <1>6, <1>7, <1>8 DEF GoodWorld

LEMMA InitWorld == Init => WorldInv
<1> SUFFICES ASSUME Init PROVE WorldInv
  OBVIOUS
<1>1. GoodWorld(world)
  BY EmptyIsGood DEF Init
<1>2. Peopled(world, users, made)
  BY DEF Init, EmptyWorld, Peopled
<1>3. ControlOK
  BY DEF Init, ControlOK, Stages
<1>4. UsersOK
  BY WorldAssumption DEF Init, UsersOK
<1>5. TimeOK
  BY GameAssumption DEF Init, TimeOK, Never
<1>6. QED BY <1>1, <1>2, <1>3, <1>4, <1>5 DEF WorldInv

LEMMA SameWorld ==
  ASSUME WorldInv, UNCHANGED <<users, made, world>>
  PROVE  GoodWorld(world)' /\ Peopled(world, users, made)'
BY DEF WorldInv, Peopled

(* Clients, the lobby and the turns of the loop.                            *)
LEMMA ClientWorld == WorldInv /\ Client => WorldInv'
<1> SUFFICES ASSUME WorldInv, Client PROVE WorldInv'
  OBVIOUS
<1>1. /\ UNCHANGED <<users, made, world>> /\ UsersOK' /\ TimeOK'
  BY DEF WorldInv, Client, LanAnswer, Connect, Close, Ask, UsersOK, TimeOK, userVars, playVars
<1>2. CASE LanAnswer
  BY <1>1, <1>2, SameWorld DEF WorldInv, LanAnswer, ControlOK, clientVars
<1>3. ASSUME NEW s \in Sessions, Connect(s) PROVE WorldInv'
  BY <1>1, <1>3, SameWorld DEF WorldInv, Connect, ControlOK, Stages, queueVars
<1>4. ASSUME NEW s \in Sessions, Close(s) PROVE WorldInv'
  BY <1>1, <1>4, SameWorld DEF WorldInv, Close, ControlOK, Stages
<1>5. ASSUME NEW s \in Sessions, NEW k \in Kinds, Ask(s, k) PROVE WorldInv'
  <2>1. After(k) \in Stages
    BY DEF After, Stages
  <2>2. stage' \in [Sessions -> Stages]
    BY <1>5, <2>1 DEF WorldInv, ControlOK, Ask
  <2>3. logicQ' \in Seq(Sessions \X Kinds)
    BY <1>5, AppendProperties DEF WorldInv, ControlOK, Ask
  <2>4. ControlOK'
    BY <1>5, <2>2, <2>3 DEF WorldInv, ControlOK, Ask
  <2>5. QED BY <1>1, <2>4, SameWorld DEF WorldInv
<1>6. QED BY <1>2, <1>3, <1>4, <1>5 DEF Client, Kinds

LEMMA TickType ==
  ASSUME NEW t \in Timers, NEW d \in {0, 1}
  PROVE  [t EXCEPT !.left = IF @ > d THEN @ - d ELSE 0] \in Timers
<1>1. PICK m : m = CleanTime + DeathTime + CheckTime
  OBVIOUS
<1>2. m \in Nat
  BY <1>1, GameAssumption
<1>3. t.left \in 0 .. m /\ t \in [what : {"corpse", "clean", "winner"},
                                 who : Entities \cup {NoUser}, left : 0 .. m]
  BY <1>1 DEF Timers
<1>4. (IF t.left > d THEN t.left - d ELSE 0) \in 0 .. m
  BY <1>2, <1>3
<1>5. QED BY <1>1, <1>3, <1>4 DEF Timers

LEMMA TurnWorld ==
  ASSUME WorldInv,
         TakeDisconnects \/ CollectTimers \/ BeginUpdate \/ EndRound(0) \/ EndRound(1)
  PROVE  WorldInv'
<1>1. UNCHANGED <<users, made, world>> /\ UsersOK'
  BY DEF WorldInv, TakeDisconnects, CollectTimers, BeginUpdate, EndRound, UsersOK, userVars,
         playVars
<1>2. CASE TakeDisconnects
  BY <1>1, <1>2, SameWorld DEF WorldInv, TakeDisconnects, ControlOK, TimeOK, clientVars, playVars
<1>3. CASE CollectTimers
  <2>1. ControlOK'
    BY <1>3 DEF WorldInv, CollectTimers, ControlOK, clientVars, ProcessLanRequest,
                HandleSettingResponse
  <2>2. TimeOK'
    BY <1>3 DEF WorldInv, CollectTimers, TimeOK, playVars
  <2>3. QED BY <1>1, <2>1, <2>2, SameWorld DEF WorldInv
<1>4. CASE BeginUpdate
  <2>1. ControlOK'
    BY <1>4 DEF WorldInv, BeginUpdate, ControlOK, clientVars, queueVars
  <2>2. TimeOK'
    BY <1>4 DEF WorldInv, BeginUpdate, TimeOK, playVars
  <2>3. QED BY <1>1, <2>1, <2>2, SameWorld DEF WorldInv
<1>5. ASSUME NEW d \in {0, 1}, EndRound(d) PROVE WorldInv'
  <2>1. ControlOK'
    BY <1>5 DEF WorldInv, EndRound, ControlOK, clientVars
  <2>2. timers' \subseteq Timers
    BY <1>5, TickType DEF WorldInv, EndRound, TimeOK
  <2>3. winLeft' \in Never .. WinTime
    <3>1. winLeft \in -1 .. WinTime /\ WinTime \in Nat /\ Never = -1
      BY GameAssumption DEF WorldInv, TimeOK, Never
    <3>2. winLeft' = IF winLeft > d THEN winLeft - d ELSE IF winLeft = Never THEN Never ELSE 0
      BY <1>5 DEF EndRound
    <3>3. QED BY <3>1, <3>2
  <2>4. TimeOK'
    BY <1>5, <2>2, <2>3 DEF WorldInv, EndRound, TimeOK
  <2>5. QED BY <1>1, <2>1, <2>4, SameWorld DEF WorldInv
<1>6. QED BY <1>2, <1>3, <1>4, <1>5

(* Packets.                                                                 *)
LEMMA SpawnPlace ==
  ASSUME NEW place \in [1 .. AICount -> Spawn]
  PROVE  place \in [1 .. AICount -> Grid]
BY GameAssumption

LEMMA AIsNotSessions == Sessions \cap AIs = {}
BY WorldAssumption

LEMMA ToldType ==
  ASSUME ControlOK, NEW us, NEW what \in Stages
  PROVE  Told(us, what) \in [Sessions -> Stages]
BY DEF ControlOK, Told

(* What HandleEnter does to the world, and to the world alone.              *)
EnterStep(s, c, place, mine) ==
  /\ ~Duplicate(s) /\ s \notin world.dic /\ c \in Grid
  /\ place \in [1 .. AICount -> Grid]
  /\ users' = users \cup {s} /\ loads' = loads
  /\ GoodWorld(mine) /\ Entered(world, s, c, mine)
  /\ \/ /\ Cardinality(users') = Required /\ made < Inits /\ made' = made + 1
        /\ stage' = Told(users', "placed")
        /\ world' = MadeWorld(mine, made', place) /\ GoodWorld(world')
        /\ MadeFrom(mine, made', world')
     \/ /\ Cardinality(users') # Required /\ made' = made
        /\ stage' = Told({s}, "entered") /\ world' = mine

LEMMA EnterSteps ==
  ASSUME WorldInv, NEW s \in Sessions, HandleEnter(s), ~Duplicate(s)
  PROVE  \E c, place, mine : EnterStep(s, c, place, mine)
<1>1. PICK c \in Spawn, place \in [1 .. AICount -> Spawn] :
        LET mine == EnterOf(world, s, c)
        IN /\ users' = users \cup {s} /\ loads' = loads
           /\ IF Cardinality(users') = Required
              THEN /\ made < Inits /\ made' = made + 1 /\ stage' = Told(users', "placed")
                   /\ world' = MadeWorld(mine, made', place)
              ELSE /\ made' = made /\ stage' = Told({s}, "entered") /\ world' = mine
  BY DEF HandleEnter, EnterOf
<1>2. PICK mine : mine = EnterOf(world, s, c)
  OBVIOUS
<1>3. s \notin world.dic /\ c \in Grid /\ place \in [1 .. AICount -> Grid]
  BY SpawnPlace, GameAssumption DEF WorldInv, Peopled, Duplicate
<1>4. GoodWorld(mine) /\ Entered(world, s, c, mine)
  BY <1>2, <1>3, EnterWorld DEF WorldInv
<1>5. CASE Cardinality(users') = Required
  <2>1. PICK n, u : n = made' /\ u = world'
    OBVIOUS
  <2>2. /\ made < Inits /\ n = made + 1 /\ stage' = Told(users', "placed")
        /\ u = MadeWorld(mine, n, place)
    BY <1>1, <1>2, <1>5, <2>1
  <2>3. n \in 1 .. Inits
    BY <2>2, WorldAssumption DEF WorldInv, UsersOK
  <2>4. \A a \in mine.dic \cap AIs : a[1] < n
    <3>1. \A a \in AIs : a[1] \in Int
      BY WorldAssumption DEF AIs
    <3>2. mine.dic \cap AIs = world.dic \cap AIs
      BY <1>4, AIsNotSessions DEF Entered
    <3>3. made \in Int
      BY WorldAssumption DEF WorldInv, UsersOK
    <3>4. QED BY <2>2, <3>1, <3>2, <3>3 DEF WorldInv, Peopled
  <2>5. GoodWorld(u) /\ MadeFrom(mine, n, u)
    <3>1. GoodWorld(mine)
      BY <1>4
    <3>2. place \in [1 .. AICount -> Grid]
      BY <1>3
    <3>3. u = MadeWorld(mine, n, place)
      BY <2>2
    <3>4. QED BY ONLY <2>3, <2>4, <3>1, <3>2, <3>3, MadeGood
  <2>6. EnterStep(s, c, place, mine)
    <3>1. ~Duplicate(s) /\ users' = users \cup {s} /\ loads' = loads
      BY <1>1
    <3>2. /\ Cardinality(users') = Required /\ made < Inits /\ made' = made + 1
          /\ stage' = Told(users', "placed") /\ world' = MadeWorld(mine, made', place)
      BY <1>5, <2>1, <2>2
    <3>3. GoodWorld(world') /\ MadeFrom(mine, made', world')
      BY <2>1, <2>5
    <3>4. QED BY <1>3, <1>4, <3>1, <3>2, <3>3 DEF EnterStep
  <2>7. QED BY <2>6
<1>6. CASE Cardinality(users') # Required
  <2>1. EnterStep(s, c, place, mine)
    BY <1>1, <1>2, <1>3, <1>4, <1>6 DEF EnterStep
  <2>2. QED BY <2>1
<1>7. QED BY <1>5, <1>6

LEMMA EnterKeeps ==
  ASSUME WorldInv, NEW s \in Sessions, HandleEnter(s)
  PROVE  /\ users' \subseteq Sessions /\ loads' \in Nat /\ made' \in 0 .. Inits
         /\ GoodWorld(world') /\ Peopled(world', users', made')
         /\ stage' \in [Sessions -> Stages]
<1>1. CASE Duplicate(s)
  BY <1>1 DEF HandleEnter, WorldInv, UsersOK, ControlOK, userVars
<1>2. CASE ~Duplicate(s)
  <2>1. PICK c, place, mine : EnterStep(s, c, place, mine)
    BY <1>2, EnterSteps
  <2>2. users' \subseteq Sessions /\ loads' \in Nat
    BY <2>1 DEF EnterStep, WorldInv, UsersOK
  <2>3. made' \in 0 .. Inits
    BY <2>1, WorldAssumption DEF EnterStep, WorldInv, UsersOK
  <2>4. stage' \in [Sessions -> Stages]
    <3>1. "placed" \in Stages /\ "entered" \in Stages
      BY DEF Stages
    <3>2. QED BY <2>1, <3>1, ToldType DEF EnterStep, WorldInv
  <2>5. Peopled(mine, users', made)
    BY <2>1, AIsNotSessions DEF EnterStep, Entered, WorldInv, Peopled
  <2>6. GoodWorld(world') /\ Peopled(world', users', made')
    <3>1. CASE world' = mine /\ made' = made
      BY <2>1, <2>5, <3>1 DEF EnterStep
    <3>2. CASE made' = made + 1 /\ GoodWorld(world') /\ MadeFrom(mine, made', world')
      <4>1. \A a \in AIs : a[1] \in Int
        BY WorldAssumption DEF AIs
      <4>2. made \in Int /\ made' = made + 1
        BY <3>2, WorldAssumption DEF WorldInv, UsersOK
      <4>3. PICK u, n : u = world' /\ n = made'
        OBVIOUS
      <4>4. /\ u.owners = mine.owners
            /\ \A x \in u.dic \ mine.dic : x \in AIs /\ x[1] = n
        BY <3>2, <4>3 DEF MadeFrom, SameRest
      <4>5. u.dic \cap Sessions \subseteq users'
        BY <2>5, <4>4, AIsNotSessions DEF Peopled
      <4>6. \A a \in u.dic \cap AIs : a[1] <= n
        BY <2>5, <4>1, <4>2, <4>3, <4>4 DEF Peopled
      <4>7. Peopled(u, users', n)
        BY <2>5, <4>4, <4>5, <4>6 DEF Peopled
      <4>8. QED BY <3>2, <4>3, <4>7
    <3>3. QED BY <2>1, <3>1, <3>2 DEF EnterStep
  <2>7. QED BY <2>2, <2>3, <2>4, <2>6
<1>3. QED BY <1>1, <1>2

LEMMA TimerTypes ==
  ASSUME NEW who \in Entities \cup {NoUser}
  PROVE  /\ Timer("corpse", who, DeathTime) \in Timers
         /\ Timer("clean", who, CleanTime) \in Timers
         /\ Timer("winner", who, CheckTime) \in Timers
<1>1. PICK m : m = CleanTime + DeathTime + CheckTime
  OBVIOUS
<1>2. DeathTime \in 0 .. m /\ CleanTime \in 0 .. m /\ CheckTime \in 0 .. m
  BY <1>1, GameAssumption
<1>3. QED BY <1>1, <1>2 DEF Timer, Timers

(* A player of the world stands where its user's packets act.               *)
LEMMA AttackKeeps ==
  ASSUME WorldInv, NEW s \in Sessions, HandleAttack(s)
  PROVE  /\ GoodWorld(world') /\ Peopled(world', users, made) /\ timers' \subseteq Timers
         /\ \/ UNCHANGED <<world, timers>>
            \/ \E e \in Entities :
                 /\ world' = Damaged(world, e)
                 /\ timers' = timers \/ running
<1>1. CASE UNCHANGED <<world, timers>>
  BY <1>1 DEF WorldInv, TimeOK
<1>2. CASE \E e \in Targets(s) :
             /\ world' = Damaged(world, e)
             /\ timers' = timers \cup
                  Enqueued(running /\ IsDead(world', e), {Timer("corpse", e, DeathTime)})
  <2>1. PICK e \in Targets(s) :
             /\ world' = Damaged(world, e)
             /\ timers' = timers \cup
                  Enqueued(running /\ IsDead(world', e), {Timer("corpse", e, DeathTime)})
    BY <1>2
  <2>2. e \in Entities
    <3>1. PICK c \in Around(world.at[s]) : e \in world.sectors[c]
      BY DEF Targets
    <3>2. world \in World /\ c \in Grid
      BY <3>1, AroundGrid DEF WorldInv, GoodWorld
    <3>3. QED BY <3>1, <3>2, WorldType
  <2>3. PICK u : u = world'
    OBVIOUS
  <2>4. GoodWorld(u) /\ SamePlaces(world, u) /\ u.owners = world.owners
    BY <2>1, <2>2, <2>3, DamagedWorld DEF WorldInv
  <2>5. Peopled(u, users, made)
    BY <2>4 DEF WorldInv, Peopled, SamePlaces
  <2>6. timers' \subseteq Timers
    BY <2>1, <2>2, TimerTypes DEF Enqueued, WorldInv, TimeOK
  <2>7. timers' = timers \/ running
    BY <2>1 DEF Enqueued
  <2>8. QED BY <2>1, <2>2, <2>3, <2>4, <2>5, <2>6, <2>7
<1>3. QED BY <1>1, <1>2 DEF HandleAttack, ProcessAttack

LEMMA LoadKeeps ==
  ASSUME WorldInv, NEW s \in Sessions, HandleLoad(s)
  PROVE  /\ loads' \in Nat /\ stage' \in [Sessions -> Stages] /\ timers' \subseteq Timers
<1>1. loads' \in Nat
  BY DEF HandleLoad, WorldInv, UsersOK
<1>2. stage' \in [Sessions -> Stages]
  <2>1. "playing" \in Stages
    BY DEF Stages
  <2>2. QED BY <2>1, ToldType DEF HandleLoad, WorldInv, ControlOK
<1>3. timers' \subseteq Timers
  BY TimerTypes DEF HandleLoad, StartGame, WorldInv, TimeOK
<1>4. QED BY <1>1, <1>2, <1>3

(* The packet that is handled.                                              *)
HandleKind(s, k) ==
  \/ k = "enter"  /\ HandleEnter(s) /\ UNCHANGED <<running, moving, timers>>
  \/ k = "load"   /\ HandleLoad(s)  /\ UNCHANGED <<users, made, world, moving>>
  \/ k = "start"  /\ HandleMoveStart(s)
                  /\ UNCHANGED <<stage, userVars, running, world, timers>>
  \/ k = "stop"   /\ HandleMoveStop(s)
                  /\ UNCHANGED <<stage, userVars, running, world, timers>>
  \/ k = "attack" /\ HandleAttack(s)
                  /\ UNCHANGED <<stage, userVars, running, moving>>
PacketFrame ==
  /\ pc = "packets" /\ batch # <<>> /\ batch' = Tail(batch)
  /\ UNCHANGED <<asks, logicQ, connQ, lan, pc, due, i, wasIn, winner, winLeft>>

LEMMA PacketHandled ==
  ASSUME ControlOK, HandlePacket
  PROVE  \E s \in Sessions, k \in Kinds :
           /\ <<s, k>> = batch[1] /\ 1 \in DOMAIN batch /\ HandleKind(s, k) /\ PacketFrame
<1>1. batch \in Seq(Sessions \X Kinds) /\ batch # <<>>
  BY DEF ControlOK, HandlePacket
<1>2. Head(batch) \in Sessions \X Kinds /\ Head(batch) = batch[1] /\ 1 \in DOMAIN batch
  BY <1>1
<1>3. PICK s \in Sessions, k \in Kinds : <<s, k>> = Head(batch)
  BY <1>2
<1>4. s = Head(batch)[1] /\ k = Head(batch)[2]
  BY <1>3
<1>5. HandleKind(s, k)
  BY <1>4 DEF HandlePacket, HandleKind
<1>6. PacketFrame
  BY DEF HandlePacket, PacketFrame, queueVars
<1>7. QED BY <1>2, <1>3, <1>5, <1>6

LEMMA PacketWorld ==
  ASSUME WorldInv, HandlePacket
  PROVE  WorldInv'
<1>0. ControlOK
  BY DEF WorldInv
<1>1. PICK s \in Sessions, k \in Kinds : HandleKind(s, k) /\ PacketFrame
  BY <1>0, PacketHandled
<1>2. stage' \in [Sessions -> Stages] => ControlOK'
  BY <1>1, HeadTailProperties DEF WorldInv, ControlOK, PacketFrame
<1>3. timers' \subseteq Timers => TimeOK'
  BY <1>1 DEF WorldInv, TimeOK, PacketFrame
<1>4. stage \in [Sessions -> Stages] /\ timers \subseteq Timers
  BY DEF WorldInv, ControlOK, TimeOK
<1>5. CASE HandleEnter(s) /\ UNCHANGED <<running, moving, timers>>
  <2>1. UsersOK' /\ GoodWorld(world)' /\ Peopled(world, users, made)'
        /\ stage' \in [Sessions -> Stages]
    BY <1>5, EnterKeeps DEF WorldInv, UsersOK
  <2>2. QED BY <1>2, <1>3, <1>4, <1>5, <2>1 DEF WorldInv
<1>6. CASE HandleLoad(s) /\ UNCHANGED <<users, made, world, moving>>
  <2>1. UsersOK'
    BY <1>6, LoadKeeps DEF WorldInv, UsersOK
  <2>2. stage' \in [Sessions -> Stages] /\ timers' \subseteq Timers
    BY <1>6, LoadKeeps
  <2>3. QED BY <1>2, <1>3, <1>6, <2>1, <2>2, SameWorld DEF WorldInv
<1>7. CASE UNCHANGED <<stage, userVars, running, world, timers>>
           /\ (HandleMoveStart(s) \/ HandleMoveStop(s))
  <2>1. UsersOK'
    BY <1>7 DEF WorldInv, UsersOK, userVars, HandleMoveStart, HandleMoveStop
  <2>2. QED BY <1>2, <1>3, <1>4, <1>7, <2>1, SameWorld DEF WorldInv, userVars
<1>8. CASE HandleAttack(s) /\ UNCHANGED <<stage, userVars, running, moving>>
  <2>1. UsersOK' /\ users' = users /\ made' = made
    BY <1>8 DEF WorldInv, UsersOK, userVars
  <2>2. timers' \subseteq Timers /\ GoodWorld(world') /\ Peopled(world', users, made)
    BY <1>8, AttackKeeps
  <2>3. QED BY <1>2, <1>3, <1>4, <1>8, <2>1, <2>2 DEF WorldInv
<1>9. QED BY <1>1, <1>5, <1>6, <1>7, <1>8 DEF HandleKind

(* The end of a session takes its player out of the world.                  *)
DisconnectFrame ==
  /\ pc = "conns" /\ batch # <<>> /\ batch' = Tail(batch)
  /\ UNCHANGED <<stage, asks, logicQ, connQ, lan, pc, due, i, loads, made, running,
                 winner, winLeft, timers>>

(* What is left of s in world u, which was w.                               *)
DisconnectStep(w, s, u) ==
  \E v : /\ GoodWorld(v) /\ SamePlaces(w, v) /\ v.hp = w.hp
         /\ v.spectators = w.spectators /\ v.owners = w.owners \ {s}
         /\ v.view[s] = {} /\ \A r \in Sessions \ {s} : v.view[r] = w.view[r]
         /\ \/ s \in v.dic /\ SameRest(v, u) /\ Removed(v, s, u)
            \/ s \notin v.dic /\ u = v

LEMMA DisconnectHandled ==
  ASSUME WorldInv, HandleDisconnect
  PROVE  \E s \in Sessions :
           /\ s = batch[1] /\ 1 \in DOMAIN batch /\ RemoveUser(s) /\ DisconnectFrame
           /\ GoodWorld(world')
           /\ \/ s \in users /\ DisconnectStep(world, s, world')
              \/ s \notin users /\ world' = world
<1>1. batch \in Seq(Sessions) /\ batch # <<>>
  BY DEF WorldInv, ControlOK, HandleDisconnect
<1>2. Head(batch) \in Sessions /\ Head(batch) = batch[1] /\ 1 \in DOMAIN batch
  BY <1>1
<1>3. PICK s \in Sessions : s = Head(batch)
  BY <1>2
<1>4. RemoveUser(s) /\ DisconnectFrame
  BY <1>3 DEF HandleDisconnect, DisconnectFrame, clientVars, queueVars
<1>5. CASE s \notin users
  <2>1. world' = world
    BY <1>3, <1>5 DEF HandleDisconnect
  <2>2. QED BY <1>2, <1>3, <1>4, <1>5, <2>1 DEF WorldInv
<1>6. CASE s \in users
  <2>1. PICK v : v = WithoutUser(world, s)
    OBVIOUS
  <2>2. /\ GoodWorld(v) /\ SamePlaces(world, v) /\ v.hp = world.hp
        /\ v.spectators = world.spectators /\ v.owners = world.owners \ {s}
        /\ v.view[s] = {} /\ \A r \in Sessions \ {s} : v.view[r] = world.view[r]
    <3>1. GoodWorld(world)
      BY DEF WorldInv
    <3>2. QED BY ONLY <2>1, <3>1, WithoutUserWorld, s \in Sessions
  <2>3. PICK u : u = world'
    OBVIOUS
  <2>4. u = RemoveEntity(v, s)
    BY <1>3, <1>6, <2>1, <2>3 DEF HandleDisconnect
  <2>5. CASE s \in v.dic
    <3>1. GoodWorld(u) /\ SameRest(v, u) /\ Removed(v, s, u)
      BY <2>2, <2>4, <2>5, RemoveWorld
    <3>2. DisconnectStep(world, s, u)
      BY <2>2, <2>5, <3>1 DEF DisconnectStep
    <3>3. QED BY <1>2, <1>3, <1>4, <1>6, <2>3, <3>1, <3>2
  <2>6. CASE s \notin v.dic
    <3>1. u = v
      BY <2>4, <2>6, RemoveNothing
    <3>2. DisconnectStep(world, s, u)
      BY <2>2, <2>6, <3>1 DEF DisconnectStep
    <3>3. QED BY <1>2, <1>3, <1>4, <1>6, <2>2, <2>3, <3>1, <3>2
  <2>7. QED BY <2>5, <2>6
<1>7. QED BY <1>5, <1>6

LEMMA DisconnectPeople ==
  ASSUME NEW w, NEW us, NEW n, Peopled(w, us, n), NEW s, NEW u, DisconnectStep(w, s, u)
  PROVE  Peopled(u, us \ {s}, n) /\ u.owners = w.owners \ {s} /\ u.dic = w.dic \ {s}
<1>1. PICK v :
         /\ GoodWorld(v) /\ SamePlaces(w, v) /\ v.hp = w.hp
         /\ v.spectators = w.spectators /\ v.owners = w.owners \ {s}
         /\ v.view[s] = {} /\ \A r \in Sessions \ {s} : v.view[r] = w.view[r]
         /\ \/ s \in v.dic /\ SameRest(v, u) /\ Removed(v, s, u)
            \/ s \notin v.dic /\ u = v
  BY DEF DisconnectStep
<1>2. u.owners = w.owners \ {s}
  BY <1>1 DEF SameRest
<1>3. u.dic = w.dic \ {s}
  BY <1>1 DEF SamePlaces, Removed
<1>4. QED BY <1>2, <1>3 DEF Peopled

LEMMA DisconnectWorld ==
  ASSUME WorldInv, HandleDisconnect
  PROVE  WorldInv'
<1>1. PICK s \in Sessions :
           /\ RemoveUser(s) /\ DisconnectFrame /\ GoodWorld(world')
           /\ \/ s \in users /\ DisconnectStep(world, s, world')
              \/ s \notin users /\ world' = world
  BY DisconnectHandled
<1>2. ControlOK'
  BY <1>1, HeadTailProperties DEF WorldInv, ControlOK, DisconnectFrame
<1>3. UsersOK' /\ TimeOK'
  BY <1>1 DEF WorldInv, UsersOK, TimeOK, DisconnectFrame, RemoveUser
<1>4. Peopled(world', users \ {s}, made)
  <2>1. CASE s \in users /\ DisconnectStep(world, s, world')
    BY <2>1, DisconnectPeople DEF WorldInv
  <2>2. CASE s \notin users /\ world' = world
    <3>1. users \ {s} = users
      BY <2>2
    <3>2. QED BY <2>2, <3>1 DEF WorldInv
  <2>3. QED BY <1>1, <2>1, <2>2
<1>5. users' = users \ {s} /\ made' = made
  BY <1>1 DEF RemoveUser, DisconnectFrame
<1>6. QED BY <1>1, <1>2, <1>3, <1>4, <1>5 DEF WorldInv

-----------------------------------------------------------------------------
(* Timer actions.                                                           *)
TimerFrame ==
  /\ pc = "timers"
  /\ UNCHANGED <<asks, logicQ, connQ, lan, pc, batch, i, users, loads, made, moving, wasIn,
                 winner, winLeft>>

(* Bury of e turns w into u: e is removed, and a player looks on.           *)
BuryStep(w, us, e, u) ==
  \/ e \notin w.dic \cup us /\ u = w
  \/ e \in w.dic \cup us /\ e \notin Sessions /\ e \in w.dic
       /\ SameRest(w, u) /\ Removed(w, e, u)
  \/ e \in Sessions /\
     \E v : /\ GoodWorld(v)
            /\ \/ e \in w.dic /\ SameRest(w, v) /\ Removed(w, e, v)
               \/ e \notin w.dic /\ v = w
            /\ SamePlaces(v, u) /\ u.hp = v.hp /\ u.owners = v.owners
            /\ u.spectators = v.spectators \cup {e}
            /\ \A s \in Sessions : u.view[s] =
                 IF s = e /\ e \in v.owners THEN v.view[s] \cup Living(v, v.dic) ELSE v.view[s]

LEMMA BuryWorld ==
  ASSUME WorldInv, NEW e, Bury(e)
  PROVE  GoodWorld(world') /\ BuryStep(world, users, e, world')
<1>1. PICK u : u = world'
  OBVIOUS
<1>2. GoodWorld(world) /\ world \in World /\ users \subseteq Sessions
  BY DEF WorldInv, GoodWorld, UsersOK
<1>3. CASE e \notin world.dic \cup users
  BY <1>2, <1>3 DEF Bury, BuryStep
<1>4. CASE e \in world.dic \cup users /\ e \notin Sessions
  <2>1. e \in world.dic
    BY <1>2, <1>4
  <2>2. u = RemoveEntity(world, e)
    BY <1>1, <1>4 DEF Bury
  <2>3. GoodWorld(u) /\ SameRest(world, u) /\ Removed(world, e, u)
    BY <1>2, <2>1, <2>2, RemoveWorld
  <2>4. QED BY <1>1, <1>4, <2>1, <2>3 DEF BuryStep
<1>5. CASE e \in world.dic \cup users /\ e \in Sessions
  <2>1. PICK v : v = RemoveEntity(world, e)
    OBVIOUS
  <2>2. /\ GoodWorld(v)
        /\ \/ e \in world.dic /\ SameRest(world, v) /\ Removed(world, e, v)
           \/ e \notin world.dic /\ v = world
    BY <1>2, <2>1, RemoveWorld, RemoveNothing
  <2>3. u = SetSpectator(v, e) /\ e \in Entities
    BY <1>1, <1>5, <2>1 DEF Bury, Entities
  <2>4. /\ GoodWorld(u) /\ SamePlaces(v, u) /\ u.hp = v.hp
        /\ u.owners = v.owners /\ u.spectators = v.spectators \cup {e}
        /\ \A s \in Sessions : u.view[s] =
             IF s = e /\ e \in v.owners THEN v.view[s] \cup Living(v, v.dic) ELSE v.view[s]
    BY ONLY <2>2, <2>3, SetSpectatorWorld
  <2>5. BuryStep(world, users, e, u)
    BY <1>5, <2>2, <2>4 DEF BuryStep
  <2>6. QED BY <1>1, <2>4, <2>5
<1>6. QED BY <1>3, <1>4, <1>5

LEMMA BuryPeople ==
  ASSUME NEW w, NEW us, NEW n, Peopled(w, us, n), NEW e, NEW u, BuryStep(w, us, e, u)
  PROVE  Peopled(u, us, n) /\ u.owners = w.owners /\ u.dic = w.dic \ {e}
<1>1. CASE e \notin w.dic \cup us /\ u = w
  BY <1>1
<1>2. CASE SameRest(w, u) /\ Removed(w, e, u)
  BY <1>2 DEF SameRest, Removed, Peopled
<1>3. ASSUME NEW v, SamePlaces(v, u), u.owners = v.owners,
             \/ e \in w.dic /\ SameRest(w, v) /\ Removed(w, e, v)
             \/ e \notin w.dic /\ v = w
      PROVE  Peopled(u, us, n) /\ u.owners = w.owners /\ u.dic = w.dic \ {e}
  BY <1>3 DEF SameRest, Removed, Peopled, SamePlaces
<1>4. QED BY <1>1, <1>2, <1>3 DEF BuryStep

LEMMA TimerWorld ==
  ASSUME WorldInv, RunTimer
  PROVE  WorldInv'
<1>1. PICK t \in due :
        /\ due' = due \ {t}
        /\ \/ t.what = "corpse" /\ Bury(t.who)
           \/ t.what = "clean"  /\ CleanUp
           \/ t.what = "winner" /\ CheckWinner
  BY DEF RunTimer
<1>2. TimerFrame
  BY DEF RunTimer, TimerFrame, queueVars, userVars, playVars
<1>3. stage' \in [Sessions -> Stages] => ControlOK'
  BY <1>2 DEF WorldInv, ControlOK, TimerFrame
<1>4. timers' \subseteq Timers => TimeOK'
  BY <1>1, <1>2 DEF WorldInv, TimeOK, TimerFrame
<1>5. UsersOK' /\ users' = users /\ made' = made
  BY <1>2 DEF WorldInv, UsersOK, TimerFrame
<1>6. stage \in [Sessions -> Stages] /\ timers \subseteq Timers
  BY DEF WorldInv, ControlOK, TimeOK
<1>7. ASSUME NEW e, Bury(e) PROVE WorldInv'
  <2>1. GoodWorld(world') /\ Peopled(world', users, made)
    BY <1>7, BuryWorld, BuryPeople DEF WorldInv
  <2>2. stage' = stage /\ timers' = timers
    BY <1>7 DEF Bury
  <2>3. QED BY <1>3, <1>4, <1>5, <1>6, <2>1, <2>2 DEF WorldInv
<1>8. CASE CleanUp
  <2>1. PICK u, es : u = world' /\ es = world.spectators \cap users
    OBVIOUS
  <2>2. es \in SUBSET Entities /\ u = [world EXCEPT !.spectators = es]
    BY <1>8, <2>1, WorldType DEF CleanUp, WorldInv, GoodWorld
  <2>3. GoodWorld(u) /\ SamePlaces(world, u) /\ u.owners = world.owners
    BY <2>2, SpectatorsWorld DEF WorldInv
  <2>4. Peopled(u, users, made)
    BY <2>3 DEF WorldInv, Peopled, SamePlaces
  <2>5. stage' = stage /\ timers' \subseteq Timers
    BY <1>6, <1>8, TimerTypes DEF CleanUp, Enqueued
  <2>6. QED BY <1>3, <1>4, <1>5, <1>6, <2>1, <2>3, <2>4, <2>5 DEF WorldInv
<1>9. CASE CheckWinner
  <2>1. CASE winLeft = 0
    <3>1. PICK u : u = world'
      OBVIOUS
    <3>2. u = Cleared(world)
      BY <1>9, <2>1, <3>1 DEF CheckWinner
    <3>3. GoodWorld(u) /\ u.dic = {} /\ u.owners = world.owners
      BY <3>2, ClearedWorld DEF WorldInv
    <3>4. Peopled(u, users, made)
      BY <3>3 DEF WorldInv, Peopled
    <3>5. stage' \in [Sessions -> Stages] /\ timers' \subseteq Timers
      <4>1. "over" \in Stages
        BY DEF Stages
      <4>2. QED BY <1>9, <2>1, <4>1, ToldType DEF CheckWinner, WorldInv
    <3>6. QED BY <1>3, <1>4, <1>5, <3>1, <3>3, <3>4, <3>5 DEF WorldInv
  <2>2. CASE winLeft # 0
    <3>1. stage' = stage /\ world' = world /\ timers' \subseteq Timers
      BY <1>6, <1>9, <2>2, TimerTypes DEF CheckWinner, Enqueued
    <3>2. QED BY <1>3, <1>4, <1>5, <1>6, <3>1 DEF WorldInv
  <2>3. QED BY <2>1, <2>2
<1>10. QED BY <1>1, <1>7, <1>8, <1>9

-----------------------------------------------------------------------------
(* Update of one entity.                                                    *)
UpdateFrame ==
  /\ pc = "update" /\ i' = i + 1
  /\ UNCHANGED <<stage, asks, logicQ, connQ, lan, pc, batch, due, users, loads, made, running,
                 moving, timers>>

LEMMA EntityUpdated ==
  ASSUME WorldInv, UpdateEntity
  PROVE  UpdateFrame /\ i # 0 /\
         \E e \in world.dic, c \in Grid :
           /\ GoodWorld(world')
           /\ \/ world' = world
              \/ SameRest(world, world') /\ Moved(world, e, c, world')
           /\ c \in Around(world.at[e])
           /\ IF e \in users THEN CheckVictoryZoneEntry(e, c)
              ELSE UNCHANGED <<wasIn, winner, winLeft>>
<1>0. GoodWorld(world) /\ world \in World /\ ListsAgree(world)
  BY DEF WorldInv, GoodWorld
<1>1. UpdateFrame
  BY DEF UpdateEntity, UpdateFrame, clientVars, queueVars, userVars
<1>2. i \in DOMAIN world.arr /\ i # 0
  BY <1>0, ListLen DEF UpdateEntity
<1>3. PICK e \in world.dic : e = world.arr[i]
  BY <1>0, <1>2 DEF ListsAgree
<1>4. PICK c \in Reach(e) :
        /\ world' = IF IsSectorUpdated(e, c) THEN UpdateSector(world, e, c) ELSE world
        /\ IF e \in users THEN CheckVictoryZoneEntry(e, c)
           ELSE UNCHANGED <<wasIn, winner, winLeft>>
  BY <1>3 DEF UpdateEntity
<1>5. c \in Around(world.at[e]) /\ c \in Grid
  <2>1. world.at[e] \in Grid
    BY <1>0, WorldType
  <2>2. world.at[e] \in Around(world.at[e])
    BY <2>1, AroundSym
  <2>3. QED BY <2>2, AroundGrid DEF Reach
<1>6. CASE c = world.at[e]
  <2>1. world' = world
    BY <1>4, <1>6 DEF IsSectorUpdated
  <2>2. QED BY <1>0, <1>1, <1>2, <1>4, <1>5, <2>1
<1>7. CASE c # world.at[e]
  <2>1. PICK u : u = world'
    OBVIOUS
  <2>2. u = UpdateSector(world, e, c)
    BY <1>4, <1>7, <2>1 DEF IsSectorUpdated
  <2>3. GoodWorld(u) /\ SameRest(world, u) /\ Moved(world, e, c, u)
    BY ONLY <1>0, <1>5, <1>7, <2>2, e \in world.dic, UpdateWorld
  <2>4. QED BY <1>1, <1>2, <1>4, <1>5, <2>1, <2>3
<1>8. QED BY <1>6, <1>7

LEMMA EntityWorld ==
  ASSUME WorldInv, UpdateEntity
  PROVE  WorldInv'
<1>1. PICK e \in world.dic, c \in Grid :
        /\ GoodWorld(world')
        /\ \/ world' = world
           \/ SameRest(world, world') /\ Moved(world, e, c, world')
        /\ IF e \in users THEN CheckVictoryZoneEntry(e, c)
           ELSE UNCHANGED <<wasIn, winner, winLeft>>
  BY EntityUpdated
<1>2. UpdateFrame
  BY EntityUpdated
<1>3. ControlOK' /\ UsersOK'
  BY <1>2 DEF WorldInv, ControlOK, UsersOK, UpdateFrame
<1>4. winner' \in Users \cup {NoUser} /\ winLeft' \in Never .. WinTime
  <2>1. winner \in Users \cup {NoUser} /\ winLeft \in Never .. WinTime
    BY DEF WorldInv, TimeOK
  <2>2. CASE UNCHANGED <<winner, winLeft>>
    BY <2>1, <2>2
  <2>3. CASE e \in users /\ winner' = UserOf[e] /\ winLeft' = WinTime
    <3>1. UserOf[e] \in Users
      BY <2>3, GameAssumption DEF WorldInv, UsersOK
    <3>2. WinTime \in Never .. WinTime
      BY GameAssumption DEF Never
    <3>3. QED BY <2>3, <3>1, <3>2
  <2>4. QED BY <1>1, <2>2, <2>3 DEF CheckVictoryZoneEntry
<1>5. TimeOK'
  BY <1>2, <1>4 DEF WorldInv, TimeOK, UpdateFrame
<1>6. Peopled(world', users, made)
  <2>1. PICK u : u = world'
    OBVIOUS
  <2>2. u.owners = world.owners /\ u.dic = world.dic
    BY <1>1, <2>1 DEF SameRest, Moved
  <2>3. QED BY <2>1, <2>2 DEF WorldInv, Peopled
<1>7. users' = users /\ made' = made
  BY <1>2 DEF UpdateFrame
<1>8. QED BY <1>1, <1>3, <1>5, <1>6, <1>7 DEF WorldInv

LEMMA WorldStutter == WorldInv /\ UNCHANGED vars => WorldInv'
BY DEF WorldInv, ControlOK, UsersOK, TimeOK, vars, clientVars, queueVars, userVars, playVars

LEMMA WorldStep == WorldInv /\ [Next]_vars => WorldInv'
BY ClientWorld, TurnWorld, PacketWorld, DisconnectWorld, TimerWorld, EntityWorld, WorldStutter
   DEF Next, Loop

(* The types, the queues by phase, the lists and sectors of the world, and  *)
(* who has a player in it, in every state (GameSystem::GameLogic).          *)
THEOREM WorldInvariant == Spec => []WorldInv
BY InitWorld, WorldStep, PTL DEF Spec

(* Swap-delete in the array, the dictionaries, the sets of the sectors and  *)
(* their counters tell one story whatever clients send and in whatever      *)
(* order they come and go (GameWorld.cpp:196, SectorManager.cpp:289).       *)
THEOREM WorldAgreesAlways == Spec => []WorldAgrees
BY WorldInvariant, WorldInvAgrees, PTL

-----------------------------------------------------------------------------
(* The packets on the way, and the ends of sessions on the way.             *)

LEMMA AskQueues ==
  ASSUME WorldInv, NEW s, NEW k, Ask(s, k), NEW r, NEW l
  PROVE  /\ InLogic(r, l)' = IF r = s /\ l = k THEN InLogic(r, l) \cup {Len(logicQ) + 1}
                             ELSE InLogic(r, l)
         /\ Len(logicQ) + 1 \notin InLogic(r, l)
         /\ InBatch(r, l)' = InBatch(r, l) /\ (Leaves(r)' <=> Leaves(r))
<1>1. logicQ \in Seq(Sessions \X Kinds)
  BY DEF WorldInv, ControlOK
<1>2. PICK q, m : q = logicQ' /\ m = Len(logicQ) + 1
  OBVIOUS
<1>3. /\ m \notin DOMAIN logicQ /\ DOMAIN q = DOMAIN logicQ \cup {m} /\ q[m] = <<s, k>>
      /\ \A n \in DOMAIN logicQ : q[n] = logicQ[n]
  BY <1>1, <1>2 DEF Ask
<1>4. InLogic(r, l)' = {n \in DOMAIN q : q[n] = <<r, l>>}
  BY <1>2 DEF InLogic
<1>5. CASE r = s /\ l = k
  BY <1>2, <1>3, <1>4, <1>5 DEF InLogic, Ask, InBatch, Leaves
<1>6. CASE ~(r = s /\ l = k)
  <2>1. <<s, k>> # <<r, l>>
    BY <1>6
  <2>2. QED BY <1>2, <1>3, <1>4, <1>6, <2>1 DEF InLogic, Ask, InBatch, Leaves
<1>7. QED BY <1>5, <1>6

LEMMA PacketQueues ==
  ASSUME WorldInv, PacketFrame, NEW r, NEW l
  PROVE  /\ InLogic(r, l)' = InLogic(r, l) /\ (Leaves(r)' <=> Leaves(r))
         /\ \A n \in InBatch(r, l)' : n + 1 \in InBatch(r, l) /\ n \in Nat \ {0}
<1>1. batch \in Seq(Sessions \X Kinds) /\ batch # <<>> /\ batch' = Tail(batch)
  BY DEF WorldInv, ControlOK, PacketFrame
<1>2. PICK b : b = batch'
  OBVIOUS
<1>3. \A n \in DOMAIN b : n + 1 \in DOMAIN batch /\ b[n] = batch[n + 1] /\ n \in Nat \ {0}
  BY <1>1, <1>2
<1>4. InBatch(r, l)' = {n \in DOMAIN b : pc = "packets" /\ b[n] = <<r, l>>}
  BY <1>2 DEF InBatch, PacketFrame
<1>5. QED BY <1>3, <1>4 DEF InLogic, InBatch, Leaves, PacketFrame

LEMMA EndQueues ==
  ASSUME WorldInv, NEW d \in {0, 1}, EndRound(d), NEW r, NEW l
  PROVE  InBatch(r, l)' = InLogic(r, l) /\ InLogic(r, l)' = {} /\ (Leaves(r)' <=> Leaves(r))
BY DEF EndRound, InLogic, InBatch, Leaves

(* The steps that leave the packets where they are.                         *)
Aside ==
  \/ LanAnswer \/ (\E s \in Sessions : Connect(s) \/ Close(s))
  \/ TakeDisconnects \/ HandleDisconnect \/ CollectTimers \/ RunTimer \/ BeginUpdate
  \/ UpdateEntity \/ UNCHANGED vars

LEMMA AsideQueues ==
  ASSUME WorldInv, Aside, NEW r, NEW l
  PROVE  InLogic(r, l)' = InLogic(r, l) /\ InBatch(r, l)' \subseteq InBatch(r, l)
<1>1. logicQ' = logicQ /\ (pc' # "packets" \/ UNCHANGED <<pc, batch>>)
  BY DEF Aside, LanAnswer, Connect, Close, TakeDisconnects, HandleDisconnect, CollectTimers,
         RunTimer, BeginUpdate, UpdateEntity, vars, queueVars
<1>2. QED BY <1>1 DEF InLogic, InBatch

LEMMA AsideLeaves ==
  ASSUME WorldInv, Aside, NEW r
  PROVE  Leaves(r) =>
           Leaves(r)' \/ (HandleDisconnect /\ r = batch[1] /\ r = Head(batch))
<1> SUFFICES ASSUME Leaves(r)
             PROVE  Leaves(r)' \/ (HandleDisconnect /\ r = batch[1] /\ r = Head(batch))
  OBVIOUS
<1>1. CASE LanAnswer \/ (\E s \in Sessions : Connect(s)) \/ RunTimer \/ UpdateEntity
           \/ UNCHANGED vars
  <2>1. UNCHANGED <<connQ, pc, batch>>
    BY <1>1 DEF LanAnswer, Connect, RunTimer, UpdateEntity, vars, queueVars
  <2>2. QED BY <2>1 DEF Leaves
<1>2. ASSUME NEW s \in Sessions, Close(s) PROVE Leaves(r)'
  <2>1. UNCHANGED <<pc, batch>> /\ connQ \in Seq(Sessions) /\ connQ' = Append(connQ, s)
    BY <1>2 DEF Close, WorldInv, ControlOK
  <2>2. \A n \in DOMAIN connQ : n \in DOMAIN (connQ') /\ connQ'[n] = connQ[n]
    BY <2>1
  <2>3. QED BY <2>1, <2>2 DEF Leaves
<1>3. CASE TakeDisconnects
  BY <1>3 DEF TakeDisconnects, Leaves
<1>4. CASE CollectTimers
  <2>1. ~\E n \in DOMAIN batch : batch[n] = r
    BY <1>4 DEF CollectTimers
  <2>2. QED BY <1>4, <2>1 DEF CollectTimers, Leaves
<1>5. CASE BeginUpdate
  BY <1>5 DEF BeginUpdate, Leaves, queueVars
<1>6. CASE HandleDisconnect
  <2>1. /\ batch \in Seq(Sessions) /\ batch # <<>> /\ batch' = Tail(batch)
        /\ UNCHANGED <<connQ, pc>>
    BY <1>6 DEF WorldInv, ControlOK, HandleDisconnect, queueVars
  <2>2. Head(batch) = batch[1]
    BY <2>1
  <2>3. PICK b : b = batch'
    OBVIOUS
  <2>4. \A n \in DOMAIN batch \ {1} : n - 1 \in DOMAIN b /\ b[n - 1] = batch[n]
    BY <2>1, <2>3
  <2>5. (\E n \in DOMAIN batch : batch[n] = r) => (\E n \in DOMAIN b : b[n] = r) \/ r = batch[1]
    BY <2>4
  <2>6. QED BY <1>6, <2>1, <2>2, <2>3, <2>5 DEF Leaves
<1>7. QED BY <1>1, <1>2, <1>3, <1>4, <1>5, <1>6 DEF Aside

LEMMA NextSteps ==
  ASSUME [Next]_vars
  PROVE  \/ \E s \in Sessions, k \in Kinds : Ask(s, k)
         \/ HandlePacket \/ EndRound(0) \/ EndRound(1) \/ Aside
BY DEF Next, Client, Loop, Aside, Kinds

-----------------------------------------------------------------------------
(* Users, their packets and their ends: the order in which the two queues   *)
(* are handled.                                                             *)

LEMMA AsideStage ==
  ASSUME WorldInv, Orderly, Aside, NEW r \in Sessions
  PROVE  \/ stage'[r] = stage[r]
         \/ stage[r] = "off" /\ stage'[r] = "new"
         \/ stage[r] # "entering" /\ stage'[r] = "gone" /\ Leaves(r)'
         \/ r \in users /\ Open(r) /\ stage'[r] = "over"
<1>0. stage \in [Sessions -> Stages]
  BY DEF WorldInv, ControlOK
<1>1. ASSUME NEW s \in Sessions, Connect(s)
      PROVE  stage'[r] = stage[r] \/ (stage[r] = "off" /\ stage'[r] = "new")
  BY <1>0, <1>1 DEF Connect
<1>2. ASSUME NEW s \in Sessions, Close(s)
      PROVE  stage'[r] = stage[r] \/
             (stage[r] # "entering" /\ stage'[r] = "gone" /\ Leaves(r)')
  <2>1. CASE r # s
    BY <1>0, <1>2, <2>1 DEF Close
  <2>2. CASE r = s
    <3>1. stage[r] # "entering" /\ stage'[r] = "gone"
      BY <1>0, <1>2, <2>2 DEF Close
    <3>2. connQ \in Seq(Sessions) /\ connQ' = Append(connQ, r)
      BY <1>2, <2>2 DEF Close, WorldInv, ControlOK
    <3>3. Len(connQ) + 1 \in DOMAIN (connQ') /\ connQ'[Len(connQ) + 1] = r
      BY <3>2
    <3>4. QED BY <3>1, <3>3 DEF Leaves
  <2>3. QED BY <2>1, <2>2
<1>3. CASE CheckWinner
  <2>1. stage' = stage \/ stage' = Told(users, "over")
    BY <1>3 DEF CheckWinner
  <2>2. QED BY <2>1 DEF Told
<1>4. CASE RunTimer /\ ~CheckWinner
  BY <1>4 DEF RunTimer, Bury, CleanUp
<1>5. CASE LanAnswer \/ TakeDisconnects \/ HandleDisconnect \/ CollectTimers \/ BeginUpdate
           \/ UpdateEntity \/ UNCHANGED vars
  BY <1>5 DEF LanAnswer, TakeDisconnects, HandleDisconnect, CollectTimers, BeginUpdate,
              UpdateEntity, vars, clientVars
<1>6. QED BY <1>1, <1>2, <1>3, <1>4, <1>5 DEF Aside

LEMMA AsideUsers ==
  ASSUME Aside
  PROVE  users' = IF HandleDisconnect THEN users \ {Head(batch)} ELSE users
BY DEF Aside, LanAnswer, Connect, Close, TakeDisconnects, HandleDisconnect, CollectTimers,
       RunTimer, BeginUpdate, UpdateEntity, vars, userVars, RemoveUser

LEMMA OrderAside ==
  ASSUME WorldInv, OrderInv, Orderly, Aside
  PROVE  OrderInv'
<1>1. \A r, l : InLogic(r, l)' = InLogic(r, l) /\ InBatch(r, l)' \subseteq InBatch(r, l)
  BY AsideQueues
<1>2. EntersOnce'
  <2>1. SUFFICES ASSUME NEW s \in Sessions
                 PROVE  /\ \A m, n \in InLogic(s, "enter")' : m = n
                        /\ \A m, n \in InBatch(s, "enter")' : m = n
                        /\ InLogic(s, "enter")' = {} \/ InBatch(s, "enter")' = {}
    BY DEF EntersOnce
  <2>2. /\ InLogic(s, "enter")' = InLogic(s, "enter")
        /\ InBatch(s, "enter")' \subseteq InBatch(s, "enter")
    BY <1>1
  <2>3. QED BY <2>2 DEF OrderInv, EntersOnce
<1>3. EntersWait'
  <2>1. SUFFICES ASSUME NEW s \in Sessions, InLogic(s, "enter")' \cup InBatch(s, "enter")' # {}
                 PROVE  stage'[s] = "entering" /\ s \notin users'
    BY DEF EntersWait
  <2>2. InLogic(s, "enter") \cup InBatch(s, "enter") # {}
    BY <1>1, <2>1
  <2>3. stage[s] = "entering" /\ s \notin users
    BY <2>2 DEF OrderInv, EntersWait
  <2>4. QED BY <2>3, AsideStage, AsideUsers
<1>4. LeavesKnown'
  <2>1. SUFFICES ASSUME NEW s \in users', stage'[s] = "gone" PROVE Leaves(s)'
    BY DEF LeavesKnown
  <2>2. s \in users /\ ~(HandleDisconnect /\ s = Head(batch)) /\ s \in Sessions
    BY AsideUsers DEF WorldInv, UsersOK
  <2>3. CASE stage[s] = "gone"
    BY <2>2, <2>3, AsideLeaves DEF OrderInv, LeavesKnown
  <2>4. CASE stage[s] # "gone"
    BY <2>1, <2>2, <2>4, AsideStage
  <2>5. QED BY <2>3, <2>4
<1>5. UsersStage'
  <2>1. SUFFICES ASSUME NEW s \in users' PROVE stage'[s] # "new" /\ stage'[s] # "off"
    BY DEF UsersStage
  <2>2. s \in users /\ s \in Sessions
    BY AsideUsers DEF WorldInv, UsersOK
  <2>3. stage[s] # "new" /\ stage[s] # "off"
    BY <2>2 DEF OrderInv, UsersStage
  <2>4. QED BY <2>2, <2>3, AsideStage
<1>6. QED BY <1>2, <1>3, <1>4, <1>5 DEF OrderInv

LEMMA OrderAsk ==
  ASSUME WorldInv, OrderInv, Orderly, NEW s \in Sessions, NEW k \in Kinds, Ask(s, k)
  PROVE  OrderInv'
<1>0. PICK m : m = Len(logicQ) + 1
  OBVIOUS
<1>1. \A r, l : /\ InLogic(r, l)' = IF r = s /\ l = k THEN InLogic(r, l) \cup {m}
                                    ELSE InLogic(r, l)
                /\ InBatch(r, l)' = InBatch(r, l) /\ (Leaves(r)' <=> Leaves(r))
  BY <1>0, AskQueues
<1>2. /\ stage[s] = StageFor[k] /\ stage \in [Sessions -> Stages] /\ users' = users
      /\ stage' = [stage EXCEPT ![s] = After(k)]
  BY DEF Ask, WorldInv, ControlOK, userVars
<1>3. /\ k = "enter" => stage[s] = "new"
      /\ stage[s] \notin {"entering", "off", "gone"}
  BY <1>2 DEF Kinds, StageFor
<1>4. InLogic(s, "enter") = {} /\ InBatch(s, "enter") = {}
  BY <1>3 DEF OrderInv, EntersWait
<1>5. /\ k = "enter" => s \notin users /\ After(k) = "entering"
      /\ After(k) \notin {"new", "off", "gone"}
  BY <1>3 DEF OrderInv, UsersStage, After
<1>6. \A r \in Sessions : stage'[r] = IF r = s THEN After(k) ELSE stage[r]
  BY <1>2
<1>7. EntersOnce'
  <2>1. SUFFICES ASSUME NEW r \in Sessions
                 PROVE  /\ \A a, b \in InLogic(r, "enter")' : a = b
                        /\ \A a, b \in InBatch(r, "enter")' : a = b
                        /\ InLogic(r, "enter")' = {} \/ InBatch(r, "enter")' = {}
    BY DEF EntersOnce
  <2>2. CASE r = s
    BY <1>1, <1>4, <2>2
  <2>3. CASE r # s
    BY <1>1, <2>3 DEF OrderInv, EntersOnce
  <2>4. QED BY <2>2, <2>3
<1>8. EntersWait'
  <2>1. SUFFICES ASSUME NEW r \in Sessions, InLogic(r, "enter")' \cup InBatch(r, "enter")' # {}
                 PROVE  stage'[r] = "entering" /\ r \notin users'
    BY DEF EntersWait
  <2>2. CASE r = s
    <3>1. k = "enter"
      BY <1>1, <1>4, <2>1, <2>2
    <3>2. QED BY <1>2, <1>5, <1>6, <2>2, <3>1
  <2>3. CASE r # s
    BY <1>1, <1>2, <1>6, <2>1, <2>3 DEF OrderInv, EntersWait
  <2>4. QED BY <2>2, <2>3
<1>9. LeavesKnown'
  <2>1. SUFFICES ASSUME NEW r \in users, stage'[r] = "gone" PROVE Leaves(r)'
    BY <1>2 DEF LeavesKnown
  <2>2. r # s /\ stage[r] = "gone"
    BY <1>5, <1>6, <2>1 DEF WorldInv, UsersOK
  <2>3. QED BY <1>1, <2>2 DEF OrderInv, LeavesKnown
<1>10. UsersStage'
  BY <1>2, <1>5, <1>6 DEF OrderInv, UsersStage, WorldInv, UsersOK
<1>11. QED BY <1>7, <1>8, <1>9, <1>10 DEF OrderInv

LEMMA OrderEnd ==
  ASSUME WorldInv, OrderInv, NEW d \in {0, 1}, EndRound(d)
  PROVE  OrderInv'
<1>1. \A r, l : /\ InBatch(r, l)' = InLogic(r, l) /\ InLogic(r, l)' = {}
                /\ (Leaves(r)' <=> Leaves(r))
  BY EndQueues
<1>2. stage' = stage /\ users' = users
  BY DEF EndRound, clientVars, userVars
<1>3. EntersOnce'
  <2>1. SUFFICES ASSUME NEW r \in Sessions
                 PROVE  /\ \A a, b \in InLogic(r, "enter")' : a = b
                        /\ \A a, b \in InBatch(r, "enter")' : a = b
                        /\ InLogic(r, "enter")' = {} \/ InBatch(r, "enter")' = {}
    BY DEF EntersOnce
  <2>2. QED BY <1>1 DEF OrderInv, EntersOnce
<1>4. EntersWait'
  <2>1. SUFFICES ASSUME NEW r \in Sessions, InLogic(r, "enter")' \cup InBatch(r, "enter")' # {}
                 PROVE  stage'[r] = "entering" /\ r \notin users'
    BY DEF EntersWait
  <2>2. QED BY <1>1, <1>2, <2>1 DEF OrderInv, EntersWait
<1>5. LeavesKnown' /\ UsersStage'
  BY <1>1, <1>2 DEF OrderInv, LeavesKnown, UsersStage
<1>6. QED BY <1>3, <1>4, <1>5 DEF OrderInv

(* What a packet of s may change: s enters, or users are told something.    *)
PacketStages(s, k) ==
  \/ stage' = stage /\ users' = users
  \/ stage' = Told(users, "playing") /\ users' = users
  \/ /\ k = "enter" /\ users' = users \cup {s}
     /\ \/ stage' = Told(users', "placed")
        \/ stage' = Told({s}, "entered")

LEMMA PacketTells ==
  ASSUME WorldInv, NEW s \in Sessions, NEW k \in Kinds, HandleKind(s, k)
  PROVE  PacketStages(s, k)
<1>1. CASE k = "enter" /\ HandleEnter(s)
  BY <1>1 DEF HandleEnter, userVars, PacketStages
<1>2. CASE HandleLoad(s) /\ users' = users
  BY <1>2 DEF HandleLoad, PacketStages
<1>3. CASE stage' = stage /\ users' = users
  BY <1>3 DEF PacketStages
<1>4. QED BY <1>1, <1>2, <1>3 DEF HandleKind, userVars

LEMMA OrderPacket ==
  ASSUME WorldInv, OrderInv, HandlePacket
  PROVE  OrderInv'
<1>0. ControlOK /\ stage \in [Sessions -> Stages] /\ users \subseteq Sessions
  BY DEF WorldInv, ControlOK, UsersOK
<1>1. PICK s \in Sessions, k \in Kinds :
        <<s, k>> = batch[1] /\ 1 \in DOMAIN batch /\ HandleKind(s, k) /\ PacketFrame
  BY <1>0, PacketHandled
<1>2. \A r, l : /\ InLogic(r, l)' = InLogic(r, l) /\ (Leaves(r)' <=> Leaves(r))
                /\ \A n \in InBatch(r, l)' : n + 1 \in InBatch(r, l) /\ n \in Nat \ {0}
  BY <1>1, PacketQueues
<1>3. 1 \in InBatch(s, k)
  BY <1>1 DEF InBatch, PacketFrame
<1>4. PacketStages(s, k)
  BY <1>1, PacketTells
<1>5. k = "enter" => /\ stage[s] = "entering" /\ s \notin users
                     /\ InLogic(s, "enter")' = {} /\ InBatch(s, "enter")' = {}
  <2>1. SUFFICES ASSUME k = "enter"
                 PROVE  /\ stage[s] = "entering" /\ s \notin users
                        /\ InLogic(s, "enter")' = {} /\ InBatch(s, "enter")' = {}
    OBVIOUS
  <2>2. 1 \in InBatch(s, "enter")
    BY <1>3, <2>1
  <2>3. stage[s] = "entering" /\ s \notin users /\ InLogic(s, "enter")' = {}
    BY <1>2, <2>2 DEF OrderInv, EntersWait, EntersOnce
  <2>4. ASSUME NEW n \in InBatch(s, "enter")' PROVE FALSE
    <3>1. n + 1 \in InBatch(s, "enter") /\ n \in Nat \ {0}
      BY <1>2
    <3>2. n + 1 = 1
      BY <2>2, <3>1 DEF OrderInv, EntersOnce
    <3>3. QED BY <3>1, <3>2
  <2>5. QED BY <2>3, <2>4
<1>6. ASSUME NEW r \in Sessions
      PROVE  \/ stage'[r] = stage[r]
             \/ /\ r \in users' /\ Open(r)
                /\ stage'[r] \in {"playing", "placed", "entered"}
  BY <1>4 DEF PacketStages, Told
<1>7. \A r \in Sessions \ {s} : r \in users' <=> r \in users
  BY <1>4 DEF PacketStages
<1>8. s \in users' => s \in users \/ (k = "enter" /\ stage'[s] \in {"placed", "entered"})
  <2>1. CASE k = "enter" /\ users' = users \cup {s}
    BY <1>4, <1>5, <2>1 DEF PacketStages, Told, Open
  <2>2. QED BY <1>4, <2>1 DEF PacketStages
<1>9. EntersOnce'
  <2>1. SUFFICES ASSUME NEW r \in Sessions
                 PROVE  /\ \A a, b \in InLogic(r, "enter")' : a = b
                        /\ \A a, b \in InBatch(r, "enter")' : a = b
                        /\ InLogic(r, "enter")' = {} \/ InBatch(r, "enter")' = {}
    BY DEF EntersOnce
  <2>2. /\ \A a, b \in InLogic(r, "enter") : a = b
        /\ \A a, b \in InBatch(r, "enter") : a = b
        /\ InLogic(r, "enter") = {} \/ InBatch(r, "enter") = {}
    BY DEF OrderInv, EntersOnce
  <2>3. \A a, b \in InBatch(r, "enter")' : a = b
    <3>1. SUFFICES ASSUME NEW a \in InBatch(r, "enter")', NEW b \in InBatch(r, "enter")'
                   PROVE  a = b
      OBVIOUS
    <3>2. /\ a + 1 \in InBatch(r, "enter") /\ a \in Nat
          /\ b + 1 \in InBatch(r, "enter") /\ b \in Nat
      BY <1>2
    <3>3. a + 1 = b + 1
      BY <2>2, <3>2
    <3>4. QED BY <3>2, <3>3
  <2>4. QED BY <1>2, <2>2, <2>3
<1>10. EntersWait'
  <2>1. SUFFICES ASSUME NEW r \in Sessions, InLogic(r, "enter")' \cup InBatch(r, "enter")' # {}
                 PROVE  stage'[r] = "entering" /\ r \notin users'
    BY DEF EntersWait
  <2>2. InLogic(r, "enter") \cup InBatch(r, "enter") # {}
    BY <1>2, <2>1
  <2>3. stage[r] = "entering" /\ r \notin users
    BY <2>2 DEF OrderInv, EntersWait
  <2>4. r \notin users'
    <3>1. CASE r = s
      BY <1>5, <1>8, <2>1, <2>3, <3>1
    <3>2. QED BY <1>7, <2>3, <3>1
  <2>5. QED BY <1>6, <2>3, <2>4
<1>11. LeavesKnown'
  <2>1. SUFFICES ASSUME NEW r \in users', stage'[r] = "gone" PROVE Leaves(r)'
    BY DEF LeavesKnown
  <2>2. r \in users /\ r \in Sessions
    BY <1>0, <1>1, <1>7, <1>8, <2>1, <1>4 DEF PacketStages
  <2>3. stage[r] = "gone"
    BY <1>6, <2>1, <2>2
  <2>4. QED BY <1>2, <2>2, <2>3 DEF OrderInv, LeavesKnown
<1>12. UsersStage'
  <2>1. SUFFICES ASSUME NEW r \in users' PROVE stage'[r] # "new" /\ stage'[r] # "off"
    BY DEF UsersStage
  <2>2. r \in Sessions
    BY <1>0, <1>4 DEF PacketStages
  <2>3. CASE r \in users
    BY <1>6, <2>2, <2>3 DEF OrderInv, UsersStage
  <2>4. CASE r \notin users
    BY <1>7, <1>8, <2>2, <2>4
  <2>5. QED BY <2>3, <2>4
<1>13. QED BY <1>9, <1>10, <1>11, <1>12 DEF OrderInv

LEMMA OrderInit == Init => OrderInv
BY DEF Init, OrderInv, EntersOnce, EntersWait, LeavesKnown, UsersStage, InLogic, InBatch

LEMMA OrderStep ==
  ASSUME Orderly
  PROVE  WorldInv /\ OrderInv /\ [Next]_vars => OrderInv'
BY NextSteps, OrderAsk, OrderPacket, OrderEnd, OrderAside

LEMMA OrderRemoves == WorldInv /\ OrderInv => GoneUsersRemoved
<1> SUFFICES ASSUME WorldInv, OrderInv, NEW s \in Sessions, stage[s] = "gone",
                    ~Contains(connQ, s), ~(pc = "conns" /\ Contains(batch, s))
             PROVE  s \notin users \cup world.dic \cup world.owners
  BY DEF GoneUsersRemoved
<1>1. connQ \in Seq(Sessions) /\ (pc = "conns" => batch \in Seq(Sessions))
  BY DEF WorldInv, ControlOK
<1>2. ~Leaves(s)
  BY <1>1 DEF Leaves, Contains
<1>3. s \notin users
  BY <1>2 DEF OrderInv, LeavesKnown
<1>4. QED BY <1>3 DEF WorldInv, Peopled

(* Once the end of a session has been handled nothing is kept of its user   *)
(* and its player: for clients that do not close while their first packet   *)
(* is on its way (GameSystem.cpp:126, GameServer::OnDisconnected).          *)
THEOREM GoneUsersRemovedAlways ==
  ASSUME Orderly
  PROVE  Spec => []GoneUsersRemoved
<1>1. WorldInv /\ OrderInv /\ [Next]_vars => OrderInv'
  BY OrderStep
<1>2. QED BY <1>1, WorldInvariant, OrderInit, OrderRemoves, PTL DEF Spec

-----------------------------------------------------------------------------
(* What the operations on the world leave right in the views.               *)

LEMMA DamagedViews ==
  ASSUME NEW w, GoodWorld(w), Views(w), NEW u, SamePlaces(w, u), u.owners = w.owners,
         u.view = w.view, u.spectators = w.spectators,
         \A x \in Entities : IsDead(w, x) => IsDead(u, x)
  PROVE  Views(u)
<1>1. SUFFICES ASSUME NEW s \in w.owners
               PROVE  ViewRight(u, s) /\ (s \in u.dic \/ s \in u.spectators)
  BY DEF Views
<1>2. ViewRight(w, s) /\ (s \in w.dic \/ s \in w.spectators)
  BY DEF Views
<1>3. Near(u, s) = Near(w, s) /\ Near(w, s) \subseteq Entities /\ w.dic \subseteq Entities
  BY WorldType DEF GoodWorld, SamePlaces, Near
<1>4. /\ Living(u, Near(w, s)) \subseteq Living(w, Near(w, s))
      /\ Living(u, w.dic) \subseteq Living(w, w.dic)
  BY <1>3 DEF Living
<1>5. u.dic = w.dic
  BY DEF SamePlaces
<1>6. QED BY <1>2, <1>3, <1>4, <1>5 DEF ViewRight

(* A spectator list that keeps the owners.                                  *)
LEMMA CleanedViews ==
  ASSUME NEW w, GoodWorld(w), Views(w), NEW u, SamePlaces(w, u), u.owners = w.owners,
         u.view = w.view, u.hp = w.hp, w.spectators \cap w.owners \subseteq u.spectators
  PROVE  Views(u)
<1>1. SUFFICES ASSUME NEW s \in w.owners
               PROVE  ViewRight(u, s) /\ (s \in u.dic \/ s \in u.spectators)
  BY DEF Views
<1>2. ViewRight(w, s) /\ (s \in w.dic \/ s \in w.spectators)
  BY DEF Views
<1>3. Near(u, s) = Near(w, s) /\ u.dic = w.dic
  BY DEF SamePlaces, Near
<1>4. \A es : Living(u, es) = Living(w, es)
  BY DEF Living, IsDead
<1>5. QED BY <1>2, <1>3, <1>4 DEF ViewRight

(* Of those that stay, who has seen e is told that it has gone.             *)
LEMMA RemovedView ==
  ASSUME NEW w, GoodWorld(w), NEW e \in w.dic, NEW u, SameRest(w, u), Removed(w, e, u),
         NEW s \in w.owners, s # e, ViewRight(w, s), s \in w.dic \/ s \in w.spectators
  PROVE  ViewRight(u, s) /\ (s \in u.dic \/ s \in u.spectators)
<1>0. /\ w \in World /\ e \in Entities /\ s \in Sessions /\ s \in Entities
      /\ w.at \in [Entities -> Grid] /\ w.dic \subseteq Entities
  BY WorldType DEF GoodWorld, Entities
<1>1. /\ u.dic = w.dic \ {e} /\ \A x \in Entities \ {e} : u.at[x] = w.at[x]
      /\ u.view[s] = IF s \in ToldOfEnd(w, e) THEN w.view[s] \ {e} ELSE w.view[s]
  BY <1>0 DEF Removed
<1>2. Near(u, s) = Near(w, s) \ {e}
  BY <1>0, <1>1 DEF Near
<1>3. \A es : Living(u, es) = Living(w, es)
  BY DEF Living, IsDead, SameRest
<1>4. CASE s \in w.dic
  <2>1. Living(w, Near(w, s)) \subseteq w.view[s] /\ w.view[s] \subseteq Near(w, s)
    BY <1>4 DEF ViewRight
  <2>2. Living(w, Near(w, s) \ {e}) = Living(w, Near(w, s)) \ {e}
    BY DEF Living
  <2>3. CASE s \in ToldOfEnd(w, e)
    <3>1. u.view[s] = w.view[s] \ {e} /\ s \in u.dic
      BY <1>1, <1>4, <2>3
    <3>2. QED BY <1>2, <1>3, <2>1, <2>2, <3>1 DEF ViewRight
  <2>4. CASE s \notin ToldOfEnd(w, e)
    <3>1. w.at[s] \notin Around(w.at[e])
      BY <1>4, <2>4 DEF ToldOfEnd
    <3>2. e \notin Near(w, s)
      BY <1>0, <3>1, AroundSym DEF Near
    <3>3. u.view[s] = w.view[s] /\ s \in u.dic /\ Near(u, s) = Near(w, s)
      BY <1>1, <1>2, <1>4, <2>4, <3>2
    <3>4. QED BY <1>3, <2>1, <3>3 DEF ViewRight
  <2>5. QED BY <2>3, <2>4
<1>5. CASE s \notin w.dic
  <2>1. s \in w.spectators /\ s \in ToldOfEnd(w, e)
    BY <1>5 DEF ToldOfEnd
  <2>2. Living(w, w.dic) \subseteq w.view[s] /\ w.view[s] \ {s} \subseteq w.dic
    BY <1>5 DEF ViewRight
  <2>3. u.view[s] = w.view[s] \ {e} /\ s \notin u.dic /\ s \in u.spectators
    BY <1>1, <1>5, <2>1 DEF SameRest
  <2>4. Living(u, u.dic) = Living(w, w.dic) \ {e}
    BY <1>1, <1>3 DEF Living
  <2>5. QED BY <1>1, <2>2, <2>3, <2>4 DEF ViewRight
<1>6. QED BY <1>4, <1>5

LEMMA DisconnectViews ==
  ASSUME NEW w, GoodWorld(w), Views(w), NEW s \in Sessions, NEW u, DisconnectStep(w, s, u)
  PROVE  Views(u)
<1>1. PICK v :
         /\ GoodWorld(v) /\ SamePlaces(w, v) /\ v.hp = w.hp
         /\ v.spectators = w.spectators /\ v.owners = w.owners \ {s}
         /\ v.view[s] = {} /\ \A r \in Sessions \ {s} : v.view[r] = w.view[r]
         /\ \/ s \in v.dic /\ SameRest(v, u) /\ Removed(v, s, u)
            \/ s \notin v.dic /\ u = v
  BY DEF DisconnectStep
<1>2. ASSUME NEW r \in v.owners
      PROVE  ViewRight(v, r) /\ (r \in v.dic \/ r \in v.spectators)
  <2>1. r \in w.owners /\ r # s /\ r \in Sessions
    BY <1>1, WorldType DEF GoodWorld
  <2>2. ViewRight(w, r) /\ (r \in w.dic \/ r \in w.spectators)
    BY <2>1 DEF Views
  <2>3. Near(v, r) = Near(w, r) /\ v.dic = w.dic /\ v.view[r] = w.view[r]
    BY <1>1, <2>1 DEF SamePlaces, Near
  <2>4. \A es : Living(v, es) = Living(w, es)
    BY <1>1 DEF Living, IsDead
  <2>5. QED BY <1>1, <2>2, <2>3, <2>4 DEF ViewRight
<1>3. CASE u = v
  BY <1>2, <1>3 DEF Views
<1>4. CASE s \in v.dic /\ SameRest(v, u) /\ Removed(v, s, u)
  <2>1. SUFFICES ASSUME NEW r \in u.owners
                 PROVE  ViewRight(u, r) /\ (r \in u.dic \/ r \in u.spectators)
    BY DEF Views
  <2>2. r \in v.owners /\ r # s
    BY <1>1, <1>4 DEF SameRest
  <2>3. QED BY <1>1, <1>2, <1>4, <2>2, RemovedView
<1>5. QED BY <1>1, <1>3, <1>4

LEMMA BuryViews ==
  ASSUME NEW w, GoodWorld(w), Views(w), NEW us, w.owners \subseteq us, NEW e, NEW u,
         BuryStep(w, us, e, u)
  PROVE  Views(u)
<1>0. w \in World /\ w.owners \subseteq Sessions
  BY WorldType DEF GoodWorld
<1>1. CASE u = w
  BY <1>1
<1>2. CASE e \notin Sessions /\ e \in w.dic /\ SameRest(w, u) /\ Removed(w, e, u)
  <2>1. SUFFICES ASSUME NEW r \in u.owners
                 PROVE  ViewRight(u, r) /\ (r \in u.dic \/ r \in u.spectators)
    BY DEF Views
  <2>2. r \in w.owners /\ r # e
    BY <1>0, <1>2 DEF SameRest
  <2>3. QED BY <1>2, <2>2, RemovedView DEF Views
<1>3. ASSUME NEW v, GoodWorld(v), e \in Sessions,
             \/ e \in w.dic /\ SameRest(w, v) /\ Removed(w, e, v)
             \/ e \notin w.dic /\ v = w,
             SamePlaces(v, u), u.hp = v.hp, u.owners = v.owners,
             u.spectators = v.spectators \cup {e},
             \A s \in Sessions : u.view[s] =
               IF s = e /\ e \in v.owners THEN v.view[s] \cup Living(v, v.dic) ELSE v.view[s]
      PROVE  Views(u)
  <2>1. SUFFICES ASSUME NEW r \in u.owners
                 PROVE  ViewRight(u, r) /\ (r \in u.dic \/ r \in u.spectators)
    BY DEF Views
  <2>2. r \in w.owners /\ r \in Sessions /\ v.owners = w.owners
    BY <1>0, <1>3 DEF SameRest
  <2>3. ViewRight(w, r) /\ (r \in w.dic \/ r \in w.spectators)
    BY <2>2 DEF Views
  <2>4. Near(u, r) = Near(v, r) /\ u.dic = v.dic
    BY <1>3 DEF SamePlaces, Near
  <2>5. \A es : Living(u, es) = Living(v, es)
    BY <1>3 DEF Living, IsDead
  <2>6. CASE r # e
    <3>1. ViewRight(v, r) /\ (r \in v.dic \/ r \in v.spectators)
      BY <1>3, <2>2, <2>3, <2>6, RemovedView
    <3>2. u.view[r] = v.view[r]
      BY <1>3, <2>2, <2>6
    <3>3. QED BY <1>3, <2>4, <2>5, <3>1, <3>2 DEF ViewRight
  <2>7. CASE r = e
    <3>1. u.view[e] = v.view[e] \cup Living(v, v.dic)
      BY <1>3, <2>2, <2>7
    <3>2. e \notin v.dic /\ v.view[e] \ {e} \subseteq v.dic
      <4>1. CASE e \notin w.dic /\ v = w
        BY <2>3, <2>7, <4>1 DEF ViewRight
      <4>2. CASE e \in w.dic /\ SameRest(w, v) /\ Removed(w, e, v)
        <5>1. w.view[e] \subseteq w.dic
          BY <2>3, <2>7, <4>2 DEF ViewRight, Near
        <5>2. v.dic = w.dic \ {e} /\ v.view[e] \subseteq w.view[e]
          BY <2>2, <2>7, <4>2 DEF Removed
        <5>3. QED BY <5>1, <5>2
      <4>3. QED BY <1>3, <4>1, <4>2
    <3>3. Living(v, v.dic) \subseteq v.dic
      BY DEF Living
    <3>4. Living(u, u.dic) \subseteq u.view[e] /\ u.view[e] \ {e} \subseteq u.dic /\ e \notin u.dic
      BY <2>4, <2>5, <3>1, <3>2, <3>3
    <3>5. QED BY <1>3, <2>7, <3>4 DEF ViewRight
  <2>8. QED BY <2>6, <2>7
<1>4. QED BY <1>1, <1>2, <1>3 DEF BuryStep

(* Whom e leaves forgets it and whom e comes to learns of it; e forgets     *)
(* those it leaves and learns of those it comes to.                         *)
LEMMA MovedViews ==
  ASSUME NEW w, GoodWorld(w), Views(w), NEW e \in w.dic, NEW c \in Grid, NEW u,
         SameRest(w, u), Moved(w, e, c, u)
  PROVE  Views(u)
<1>0. /\ w \in World /\ e \in Entities /\ w.at \in [Entities -> Grid] /\ w.dic \subseteq Entities
      /\ w.owners \subseteq Sessions /\ Sessions \subseteq Entities /\ w.at[e] \in Grid
  BY WorldType DEF GoodWorld, Entities
<1>1. SUFFICES ASSUME NEW s \in w.owners
               PROVE  ViewRight(u, s) /\ (s \in u.dic \/ s \in u.spectators)
  BY DEF Views, SameRest
<1>2. ViewRight(w, s) /\ (s \in w.dic \/ s \in w.spectators) /\ s \in Entities
  BY <1>0 DEF Views
<1>3. \A es : Living(u, es) = Living(w, es)
  BY DEF Living, IsDead, SameRest
<1>4. u.dic = w.dic /\ u.spectators = w.spectators
  BY DEF Moved, SameRest
<1>5. \A x \in Entities : u.at[x] = IF x = e THEN c ELSE w.at[x]
  BY <1>0 DEF Moved
<1>6. CASE s \notin w.dic
  <2>1. u.view[s] = w.view[s]
    BY <1>6 DEF Moved
  <2>2. QED BY <1>2, <1>3, <1>4, <1>6, <2>1 DEF ViewRight
<1>7. CASE s \in w.dic /\ s # e
  <2>1. Living(w, Near(w, s)) \subseteq w.view[s] /\ w.view[s] \subseteq Near(w, s)
    BY <1>2, <1>7 DEF ViewRight
  <2>2. /\ w.at[s] \in Grid
        /\ e \in Near(w, s) <=> w.at[s] \in Around(w.at[e])
        /\ e \in Near(u, s) <=> w.at[s] \in Around(c)
        /\ Near(u, s) \ {e} = Near(w, s) \ {e}
    <3>1. w.at[s] \in Grid /\ u.at[s] = w.at[s]
      BY <1>0, <1>2, <1>5, <1>7
    <3>2. e \in Near(w, s) <=> w.at[s] \in Around(w.at[e])
      BY <1>0, <3>1, AroundSym DEF Near
    <3>3. e \in Near(u, s) <=> w.at[s] \in Around(c)
      BY <1>0, <1>4, <1>5, <3>1, AroundSym DEF Near
    <3>4. Near(u, s) \ {e} = Near(w, s) \ {e}
      BY <1>0, <1>4, <1>5, <3>1 DEF Near
    <3>5. QED BY <3>1, <3>2, <3>3, <3>4
  <2>3. CASE w.at[s] \in GoneFor(w, e, c)
    <3>1. u.view[s] = w.view[s] \ {e}
      BY <1>7, <2>3 DEF Moved
    <3>2. Near(u, s) = Near(w, s) \ {e}
      BY <2>2, <2>3 DEF GoneFor
    <3>3. Living(w, Near(u, s)) \subseteq Living(w, Near(w, s)) \ {e}
      BY <3>2 DEF Living
    <3>4. QED BY <1>3, <1>4, <1>7, <2>1, <3>1, <3>2, <3>3 DEF ViewRight
  <2>4. CASE w.at[s] \in NewFor(w, e, c)
    <3>1. u.view[s] = w.view[s] \cup {e}
      BY <1>7, <2>4 DEF Moved, GoneFor, NewFor
    <3>2. Near(u, s) = Near(w, s) \cup {e}
      BY <2>2, <2>4 DEF NewFor
    <3>3. Living(w, Near(u, s)) \subseteq Living(w, Near(w, s)) \cup {e}
      BY <3>2 DEF Living
    <3>4. QED BY <1>3, <1>4, <1>7, <2>1, <3>1, <3>2, <3>3 DEF ViewRight
  <2>5. CASE w.at[s] \notin GoneFor(w, e, c) /\ w.at[s] \notin NewFor(w, e, c)
    <3>1. u.view[s] = w.view[s]
      BY <1>7, <2>5 DEF Moved
    <3>2. Near(u, s) = Near(w, s)
      BY <2>2, <2>5 DEF GoneFor, NewFor
    <3>3. QED BY <1>3, <1>4, <1>7, <2>1, <3>1, <3>2 DEF ViewRight
  <2>6. QED BY <2>3, <2>4, <2>5
<1>8. CASE s \in w.dic /\ s = e
  <2>1. Living(w, Near(w, e)) \subseteq w.view[e] /\ w.view[e] \subseteq Near(w, e)
    BY <1>2, <1>8 DEF ViewRight
  <2>2. PICK lost, seen :
          /\ lost = {x \in w.dic \ {e} : w.at[x] \in GoneFor(w, e, c)}
          /\ seen = {x \in w.dic \ {e} : w.at[x] \in NewFor(w, e, c) /\ ~IsDead(w, x)}
    OBVIOUS
  <2>3. u.view[e] = (w.view[e] \ lost) \cup seen
    BY <1>8, <2>2 DEF Moved
  <2>4. Near(u, e) = {e} \cup {x \in w.dic \ {e} : w.at[x] \in Around(c)}
    <3>1. u.at[e] = c /\ \A x \in w.dic \ {e} : u.at[x] = w.at[x]
      BY <1>0, <1>5
    <3>2. c \in Around(c)
      BY AroundSym
    <3>3. QED BY <1>4, <3>1, <3>2 DEF Near
  <2>5. Near(w, e) = {e} \cup {x \in w.dic \ {e} : w.at[x] \in Around(w.at[e])}
    <3>1. w.at[e] \in Around(w.at[e])
      BY <1>0, AroundSym
    <3>2. QED BY <3>1 DEF Near
  <2>6. u.view[e] \subseteq Near(u, e)
    BY <2>1, <2>2, <2>3, <2>4, <2>5 DEF GoneFor, NewFor
  <2>7. ASSUME NEW x \in Near(u, e), ~IsDead(w, x) PROVE x \in u.view[e]
    <3>1. CASE x \in Near(w, e)
      <4>1. x \in w.view[e]
        BY <2>1, <2>7, <3>1 DEF Living
      <4>2. x \notin lost
        BY <2>2, <2>4, <2>7 DEF GoneFor
      <4>3. QED BY <2>3, <4>1, <4>2
    <3>2. CASE x \notin Near(w, e)
      <4>1. x \in seen
        BY <2>2, <2>4, <2>5, <2>7, <3>2 DEF NewFor
      <4>2. QED BY <2>3, <4>1
    <3>3. QED BY <3>1, <3>2
  <2>8. Living(u, Near(u, e)) \subseteq u.view[e]
    BY <1>3, <2>7 DEF Living
  <2>9. QED BY <1>4, <1>8, <2>6, <2>8 DEF ViewRight
<1>9. QED BY <1>6, <1>7, <1>8

(* The world has been made: everybody is shown all around.                  *)
LEMMA MadeViews ==
  ASSUME NEW w, Alone(w), NEW n, NEW u, GoodWorld(u), MadeFrom(w, n, u)
  PROVE  Views(u)
<1>1. u.owners = w.owners /\ w.dic \subseteq u.dic
  BY DEF MadeFrom, SameRest
<1>2. SUFFICES ASSUME NEW s \in w.owners
               PROVE  ViewRight(u, s) /\ s \in u.dic
  BY <1>1 DEF Views
<1>3. s \in u.dic /\ s \in Sessions /\ s \in Entities /\ u.at[s] \in Grid
  BY <1>1, WorldType DEF Alone, GoodWorld, Entities
<1>4. u.view[s] = {s} \cup Near(u, s)
  BY <1>1, <1>3 DEF Alone, MadeFrom
<1>5. s \in Near(u, s)
  BY <1>3, AroundSym DEF Near
<1>6. u.view[s] = Near(u, s)
  BY <1>4, <1>5
<1>7. QED BY <1>3, <1>6 DEF ViewRight, Living

(* Nobody is told of anybody before.                                        *)
LEMMA EnteredAlone ==
  ASSUME NEW w, Alone(w), NEW s \in Sessions, NEW c, NEW u, Entered(w, s, c, u)
  PROVE  Alone(u)
BY DEF Alone, Entered

LEMMA DisconnectAlone ==
  ASSUME NEW w, Alone(w), NEW s \in Sessions, NEW u, DisconnectStep(w, s, u)
  PROVE  Alone(u)
<1>1. PICK v :
         /\ SamePlaces(w, v) /\ v.owners = w.owners \ {s}
         /\ v.view[s] = {} /\ \A r \in Sessions \ {s} : v.view[r] = w.view[r]
         /\ \/ s \in v.dic /\ SameRest(v, u) /\ Removed(v, s, u)
            \/ s \notin v.dic /\ u = v
  BY DEF DisconnectStep
<1>2. u.owners = w.owners \ {s} /\ u.dic = w.dic \ {s}
  BY <1>1 DEF SamePlaces, SameRest, Removed
<1>3. ASSUME NEW r \in Sessions
      PROVE  u.view[r] = v.view[r] \/ u.view[r] = v.view[r] \ {s}
  BY <1>1, <1>3 DEF Removed
<1>4. ASSUME NEW r \in Sessions
      PROVE  u.view[r] = IF r \in u.owners THEN {r} ELSE {}
  BY <1>1, <1>2, <1>3 DEF Alone
<1>5. QED BY <1>2, <1>4 DEF Alone

-----------------------------------------------------------------------------
(* What the clients of a game are shown: one session for each user the      *)
(* lobby sends.                                                             *)
LobbyUsers == Orderly /\ Cardinality(Sessions) <= Required

(* A packet that is new asks to enter while the world is not made, and is   *)
(* one of the others once it is.                                            *)
NewFit(s, k) ==
  InLogic(s, k)' \cup InBatch(s, k)' # {} =>
    InLogic(s, k) \cup InBatch(s, k) # {} \/ (made = 0 <=> k = "enter")
PacketsFit == \A s \in Sessions : \A k \in Kinds : NewFit(s, k)

LEMMA PlayPackets ==
  ASSUME WorldInv, PlayInv, made' = made, PacketsFit
  PROVE  NoEntersAfter' /\ (made = 0 => OnlyEnters')
<1>1. "enter" \in Kinds
  BY DEF Kinds, StageFor
<1>2. NoEntersAfter'
  BY <1>1 DEF PlayInv, NoEntersAfter, PacketsFit, NewFit, WorldInv, UsersOK
<1>3. made = 0 => OnlyEnters'
  BY DEF PlayInv, BeforeMade, OnlyEnters, PacketsFit, NewFit
<1>4. QED BY <1>2, <1>3

LEMMA PlaySame ==
  ASSUME WorldInv, PlayInv, UNCHANGED <<loads, made, running, world>>, PacketsFit,
         timers' \cup due' # {} => timers \cup due # {},
         made = 0 => i' = 0 /\ NotPlaced'
  PROVE  PlayInv'
<1>1. NoEntersAfter' /\ (made = 0 => OnlyEnters')
  BY PlayPackets
<1>2. BeforeMade'
  BY <1>1 DEF PlayInv, BeforeMade, Idle
<1>3. Loaded'
  BY DEF PlayInv, Loaded
<1>4. ViewInv'
  BY DEF PlayInv, ViewInv
<1>5. QED BY <1>1, <1>2, <1>3, <1>4 DEF PlayInv

LEMMA PlayAsk ==
  ASSUME WorldInv, PlayInv, Orderly, NEW s \in Sessions, NEW k \in Kinds, Ask(s, k)
  PROVE  PlayInv'
<1>1. /\ UNCHANGED <<loads, made, running, world, timers, due, i>>
      /\ stage[s] = StageFor[k] /\ stage \in [Sessions -> Stages]
      /\ stage' = [stage EXCEPT ![s] = After(k)] /\ (k = "enter" => made = 0)
  BY DEF Ask, WorldInv, ControlOK, userVars
<1>2. made = 0 => k = "enter"
  BY <1>1 DEF PlayInv, BeforeMade, NotPlaced, Placed, Kinds, StageFor
<1>3. PacketsFit
  <2>1. SUFFICES ASSUME NEW r \in Sessions, NEW l \in Kinds PROVE NewFit(r, l)
    BY DEF PacketsFit
  <2>2. CASE r = s /\ l = k
    BY <1>1, <1>2, <2>2 DEF NewFit
  <2>3. CASE ~(r = s /\ l = k)
    <3>1. InLogic(r, l)' = InLogic(r, l) /\ InBatch(r, l)' = InBatch(r, l)
      BY <2>3, AskQueues
    <3>2. QED BY <3>1 DEF NewFit
  <2>4. QED BY <2>2, <2>3
<1>4. made = 0 => NotPlaced'
  BY <1>1, <1>2 DEF PlayInv, BeforeMade, NotPlaced, Placed, After
<1>5. made = 0 => i' = 0
  BY <1>1 DEF PlayInv, BeforeMade, Idle
<1>6. QED BY <1>1, <1>3, <1>4, <1>5, PlaySame

LEMMA PlayEnd ==
  ASSUME WorldInv, PlayInv, NEW d \in {0, 1}, EndRound(d)
  PROVE  PlayInv'
<1>1. \A r, l : InBatch(r, l)' = InLogic(r, l) /\ InLogic(r, l)' = {}
  BY EndQueues
<1>2. PacketsFit
  BY <1>1 DEF PacketsFit, NewFit
<1>3. UNCHANGED <<loads, made, running, world, due, stage>> /\ i' = 0
  BY DEF EndRound, userVars, clientVars
<1>4. timers = {} => timers' = {}
  BY DEF EndRound
<1>5. made = 0 => NotPlaced'
  BY <1>3 DEF PlayInv, BeforeMade, NotPlaced
<1>6. QED BY <1>2, <1>3, <1>4, <1>5, PlaySame

(* Steps of the clients, of the lobby and of the loop.                      *)
Quiet ==
  \/ LanAnswer \/ (\E s \in Sessions : Connect(s) \/ Close(s))
  \/ TakeDisconnects \/ CollectTimers \/ BeginUpdate \/ UNCHANGED vars

LEMMA AsideFit ==
  ASSUME WorldInv, Aside
  PROVE  PacketsFit
<1>1. \A r, l : InLogic(r, l)' = InLogic(r, l) /\ InBatch(r, l)' \subseteq InBatch(r, l)
  BY AsideQueues
<1>2. QED BY <1>1 DEF PacketsFit, NewFit

LEMMA PlayQuiet ==
  ASSUME WorldInv, PlayInv, Quiet
  PROVE  PlayInv'
<1>1. UNCHANGED <<loads, made, running, world>>
  BY DEF Quiet, LanAnswer, Connect, Close, TakeDisconnects, CollectTimers, BeginUpdate, vars,
         userVars
<1>2. PacketsFit
  <2>1. Aside
    BY DEF Quiet, Aside
  <2>2. QED BY <2>1, AsideFit
<1>3. timers' \cup due' # {} => timers \cup due # {}
  BY DEF Quiet, LanAnswer, Connect, Close, TakeDisconnects, CollectTimers, BeginUpdate, vars
<1>4. ASSUME made = 0 PROVE i' = 0
  <2>1. i = 0 /\ ~running
    BY <1>4 DEF PlayInv, BeforeMade, Idle
  <2>2. QED BY <2>1 DEF Quiet, LanAnswer, Connect, Close, TakeDisconnects, CollectTimers,
                      BeginUpdate, vars
<1>5. ASSUME made = 0 PROVE NotPlaced'
  <2>1. \A r \in Sessions : stage[r] \notin Placed
    BY <1>5 DEF PlayInv, BeforeMade, NotPlaced
  <2>2. stage \in [Sessions -> Stages]
    BY DEF WorldInv, ControlOK
  <2>3. ASSUME NEW r \in Sessions PROVE stage'[r] \in {stage[r], "new", "gone"}
    BY <2>2 DEF Quiet, LanAnswer, Connect, Close, TakeDisconnects, CollectTimers, BeginUpdate,
                vars, clientVars
  <2>4. QED BY <2>1, <2>3 DEF NotPlaced, Placed
<1>6. QED BY <1>1, <1>2, <1>3, <1>4, <1>5, PlaySame

LEMMA PlayDisconnect ==
  ASSUME WorldInv, PlayInv, HandleDisconnect
  PROVE  PlayInv'
<1>1. PICK s \in Sessions :
           /\ DisconnectFrame
           /\ \/ s \in users /\ DisconnectStep(world, s, world')
              \/ s \notin users /\ world' = world
  BY DisconnectHandled
<1>2. /\ UNCHANGED <<loads, made, running, timers, due, i, stage>> /\ PacketsFit
      /\ GoodWorld(world)
  BY <1>1, AsideFit DEF DisconnectFrame, Aside, WorldInv
<1>3. NoEntersAfter' /\ (made = 0 => OnlyEnters')
  BY <1>2, PlayPackets
<1>4. BeforeMade'
  <2>1. ASSUME made = 0 PROVE Alone(world')
    BY <1>1, <2>1, DisconnectAlone DEF PlayInv, BeforeMade
  <2>2. QED BY <1>2, <1>3, <2>1 DEF PlayInv, BeforeMade, Idle, NotPlaced
<1>5. Loaded'
  BY <1>2 DEF PlayInv, Loaded
<1>6. ViewInv'
  <2>1. Views(world) => Views(world')
    BY <1>1, <1>2, DisconnectViews
  <2>2. QED BY <1>2, <2>1 DEF PlayInv, ViewInv
<1>7. QED BY <1>3, <1>4, <1>5, <1>6 DEF PlayInv

LEMMA PlayTimer ==
  ASSUME WorldInv, PlayInv, RunTimer
  PROVE  PlayInv'
<1>1. PICK t \in due :
        /\ due' = due \ {t}
        /\ \/ t.what = "corpse" /\ Bury(t.who)
           \/ t.what = "clean"  /\ CleanUp
           \/ t.what = "winner" /\ CheckWinner
  BY DEF RunTimer
<1>2. TimerFrame /\ PacketsFit
  BY AsideFit DEF RunTimer, TimerFrame, queueVars, userVars, playVars, Aside
<1>3. loads >= Required /\ made > 0 /\ made' = made /\ loads' = loads
  <2>1. made # 0
    BY <1>1 DEF PlayInv, BeforeMade, Idle
  <2>2. QED BY <1>1, <1>2, <2>1 DEF PlayInv, Loaded, TimerFrame, WorldInv, UsersOK
<1>4. NoEntersAfter' /\ BeforeMade'
  BY <1>2, <1>3, PlayPackets DEF BeforeMade
<1>5. Loaded'
  BY <1>3 DEF Loaded
<1>6. running' => running
  BY <1>1 DEF Bury, CleanUp, CheckWinner
<1>7. ASSUME running', Views(world) PROVE Views(world')
  <2>0. /\ GoodWorld(world) /\ world \in World /\ world.owners \subseteq users
        /\ users \subseteq Sessions
    BY DEF WorldInv, GoodWorld, Peopled, UsersOK
  <2>1. ASSUME NEW e, Bury(e) PROVE Views(world')
    <3>1. BuryStep(world, users, e, world')
      BY <2>1, BuryWorld
    <3>2. QED BY <1>7, <2>0, <3>1, BuryViews
  <2>2. CASE CleanUp
    <3>1. PICK u, es : u = world' /\ es = world.spectators \cap users
      OBVIOUS
    <3>2. es \in SUBSET Entities /\ u = [world EXCEPT !.spectators = es]
      BY <2>0, <2>2, <3>1, WorldType DEF CleanUp
    <3>3. /\ SamePlaces(world, u) /\ u.owners = world.owners /\ u.hp = world.hp
          /\ u.view = world.view /\ u.spectators = es
      BY <2>0, <3>2, SpectatorsWorld
    <3>4. Views(u)
      BY <1>7, <2>0, <3>1, <3>3, CleanedViews
    <3>5. QED BY <3>1, <3>4
  <2>3. CASE CheckWinner
    BY <1>7, <2>3 DEF CheckWinner
  <2>4. QED BY <1>1, <2>1, <2>2, <2>3
<1>8. ViewInv'
  BY <1>3, <1>6, <1>7, GameAssumption DEF PlayInv, ViewInv, WorldInv, UsersOK
<1>9. QED BY <1>4, <1>5, <1>8 DEF PlayInv

LEMMA PlayUpdate ==
  ASSUME WorldInv, PlayInv, UpdateEntity
  PROVE  PlayInv'
<1>1. PICK e \in world.dic, c \in Grid :
        \/ world' = world
        \/ SameRest(world, world') /\ Moved(world, e, c, world')
  BY EntityUpdated
<1>2. UpdateFrame /\ i # 0 /\ PacketsFit /\ GoodWorld(world)
  BY EntityUpdated, AsideFit DEF Aside, WorldInv
<1>3. made # 0 /\ UNCHANGED <<made, loads, running, timers, due>>
  BY <1>2 DEF PlayInv, BeforeMade, Idle, UpdateFrame
<1>4. NoEntersAfter' /\ BeforeMade'
  BY <1>2, <1>3, PlayPackets DEF BeforeMade
<1>5. Loaded'
  BY <1>3 DEF PlayInv, Loaded
<1>6. Views(world) => Views(world')
  <2>1. PICK u : u = world'
    OBVIOUS
  <2>2. Views(world) => Views(u)
    BY <1>1, <1>2, <2>1, MovedViews
  <2>3. QED BY <2>1, <2>2
<1>7. ViewInv'
  BY <1>3, <1>6 DEF PlayInv, ViewInv
<1>8. QED BY <1>4, <1>5, <1>7 DEF PlayInv

LEMMA PacketFit ==
  ASSUME WorldInv, PacketFrame
  PROVE  PacketsFit
<1>1. \A r, l : /\ InLogic(r, l)' = InLogic(r, l)
                /\ \A n \in InBatch(r, l)' : n + 1 \in InBatch(r, l)
  BY PacketQueues
<1>2. QED BY <1>1 DEF PacketsFit, NewFit

(* The last user of the lobby has come: no other is on its way.             *)
LEMMA LastEnters ==
  ASSUME LobbyUsers, users' \subseteq Sessions, Cardinality(users') = Required, EntersWait'
  PROVE  NoEntersAfter'
<1>1. PICK us : us = users'
  OBVIOUS
<1>2. Cardinality(Sessions) \in Nat /\ Cardinality(us) \in Nat /\ us \subseteq Sessions
  BY <1>1, WorldAssumption, FS_Subset, FS_CardinalityType
<1>3. Cardinality(us) <= Cardinality(Sessions)
  BY <1>2, WorldAssumption, FS_Subset
<1>4. Cardinality(us) = Cardinality(Sessions)
  BY <1>1, <1>2, <1>3 DEF LobbyUsers
<1>5. us = Sessions
  BY <1>2, <1>4, WorldAssumption, FS_Subset
<1>6. QED BY <1>1, <1>5 DEF EntersWait, NoEntersAfter

LEMMA PlayEnter ==
  ASSUME WorldInv, PlayInv, LobbyUsers, EntersWait', PacketFrame,
         NEW s \in Sessions, 1 \in InBatch(s, "enter"), HandleEnter(s),
         UNCHANGED <<running, moving, timers>>
  PROVE  PlayInv'
<1>0. PacketsFit /\ UNCHANGED <<due, i, timers, running>>
  BY PacketFit DEF PacketFrame
<1>1. made = 0
  BY DEF PlayInv, NoEntersAfter, WorldInv, UsersOK
<1>2. Idle /\ Alone(world) /\ NotPlaced /\ OnlyEnters
  BY <1>1 DEF PlayInv, BeforeMade
<1>3. CASE Duplicate(s)
  <2>1. UNCHANGED <<stage, loads, made, world>>
    BY <1>3 DEF HandleEnter, userVars
  <2>2. QED BY <1>0, <1>2, <2>1, PlaySame DEF Idle, NotPlaced
<1>4. CASE ~Duplicate(s)
  <2>1. PICK c, place, mine : EnterStep(s, c, place, mine)
    BY <1>4, EnterSteps
  <2>2. Alone(mine) /\ loads' = 0 /\ loads' = loads
    BY <1>2, <2>1, EnteredAlone DEF EnterStep, Idle
  <2>3. Loaded'
    BY <1>0, <1>2 DEF Loaded, Idle
  <2>4. CASE Cardinality(users') # Required
    <3>1. made' = made /\ stage' = Told({s}, "entered") /\ world' = mine
      BY <2>1, <2>4 DEF EnterStep
    <3>2. NotPlaced'
      BY <1>2, <3>1 DEF NotPlaced, Told, Placed
    <3>3. NoEntersAfter' /\ OnlyEnters'
      BY <1>0, <1>1, <3>1, PlayPackets
    <3>4. BeforeMade'
      BY <1>0, <1>2, <2>2, <3>1, <3>2, <3>3 DEF BeforeMade, Idle
    <3>5. ViewInv'
      BY <1>1, <3>1 DEF ViewInv
    <3>6. QED BY <2>3, <3>3, <3>4, <3>5 DEF PlayInv
  <2>5. CASE Cardinality(users') = Required
    <3>1. made' = 1 /\ GoodWorld(world') /\ MadeFrom(mine, made', world')
      BY <1>1, <2>1, <2>5 DEF EnterStep
    <3>2. users' \subseteq Sessions
      BY <2>1 DEF EnterStep, WorldInv, UsersOK
    <3>3. NoEntersAfter'
      BY <2>5, <3>2, LastEnters
    <3>4. Views(world')
      <4>1. PICK u, n : u = world' /\ n = made'
        OBVIOUS
      <4>2. Views(u)
        BY <2>2, <3>1, <4>1, MadeViews
      <4>3. QED BY <4>1, <4>2
    <3>5. BeforeMade' /\ ViewInv'
      BY <3>1, <3>4 DEF BeforeMade, ViewInv
    <3>6. QED BY <2>3, <3>3, <3>5 DEF PlayInv
  <2>6. QED BY <2>4, <2>5
<1>5. QED BY <1>3, <1>4

LEMMA PlayPacket ==
  ASSUME WorldInv, PlayInv, LobbyUsers, EntersWait', HandlePacket
  PROVE  PlayInv'
<1>0. ControlOK /\ loads \in Nat /\ made \in Nat
  BY WorldAssumption DEF WorldInv, UsersOK
<1>1. PICK s \in Sessions, k \in Kinds :
        <<s, k>> = batch[1] /\ 1 \in DOMAIN batch /\ HandleKind(s, k) /\ PacketFrame
  BY <1>0, PacketHandled
<1>2. 1 \in InBatch(s, k) /\ PacketsFit /\ UNCHANGED <<due, i>>
  BY <1>1, PacketFit DEF InBatch, PacketFrame
<1>3. CASE k = "enter" /\ HandleEnter(s) /\ UNCHANGED <<running, moving, timers>>
  BY <1>1, <1>2, <1>3, PlayEnter
<1>4. k # "enter" => made > 0
  BY <1>0, <1>2 DEF PlayInv, BeforeMade, OnlyEnters
<1>5. CASE k = "load" /\ HandleLoad(s) /\ UNCHANGED <<users, made, world, moving>>
  <2>1. made > 0 /\ made' = made
    BY <1>4, <1>5
  <2>2. NoEntersAfter' /\ BeforeMade'
    BY <1>2, <2>1, PlayPackets DEF BeforeMade
  <2>3. /\ loads' >= loads /\ loads' \in Nat
        /\ \/ running' = running /\ timers' = timers
           \/ loads' = Required /\ loads' = loads + 1
    <3>1. loads' = IF s \in users THEN loads + 1 ELSE loads
      BY <1>5 DEF HandleLoad
    <3>2. CASE s \in users /\ loads' = Required
      BY <1>0, <3>1, <3>2
    <3>3. CASE ~(s \in users /\ loads' = Required)
      <4>1. running' = running /\ timers' = timers
        BY <1>5, <3>3 DEF HandleLoad
      <4>2. QED BY <1>0, <3>1, <4>1
    <3>4. QED BY <3>2, <3>3
  <2>4. Loaded'
    <3>1. running \/ timers \cup due # {} => loads >= Required
      BY DEF PlayInv, Loaded
    <3>2. Required \in Nat /\ due' = due
      BY <1>2, GameAssumption
    <3>3. running' \/ timers' \cup due' # {} => loads' >= Required
      BY <1>0, <2>3, <3>1, <3>2
    <3>4. QED BY <3>3 DEF Loaded
  <2>5. ViewInv'
    <3>1. running' \/ loads' < Required => running \/ loads < Required
      BY <1>0, <2>3, GameAssumption
    <3>2. world' = world
      BY <1>5
    <3>3. QED BY <2>1, <3>1, <3>2 DEF PlayInv, ViewInv
  <2>6. QED BY <2>2, <2>4, <2>5 DEF PlayInv
<1>6. CASE UNCHANGED <<stage, userVars, running, world, timers>>
  BY <1>2, <1>6, PlaySame DEF userVars, PlayInv, BeforeMade, Idle, NotPlaced
<1>7. CASE k = "attack" /\ HandleAttack(s) /\ UNCHANGED <<stage, userVars, running, moving>>
  <2>1. made > 0 /\ UNCHANGED <<made, loads, running>>
    BY <1>4, <1>7 DEF userVars
  <2>2. NoEntersAfter' /\ BeforeMade'
    BY <1>2, <2>1, PlayPackets DEF BeforeMade
  <2>3. \/ UNCHANGED <<world, timers>>
        \/ \E e \in Entities : /\ world' = Damaged(world, e)
                               /\ timers' = timers \/ running
    BY <1>7, AttackKeeps
  <2>4. Loaded'
    BY <1>2, <2>1, <2>3 DEF PlayInv, Loaded
  <2>5. Views(world) => Views(world')
    <3>1. PICK u : u = world'
      OBVIOUS
    <3>2. GoodWorld(world)
      BY DEF WorldInv
    <3>3. ASSUME NEW e \in Entities, u = Damaged(world, e), Views(world) PROVE Views(u)
      <4>1. /\ SamePlaces(world, u) /\ u.owners = world.owners
            /\ u.view = world.view /\ u.spectators = world.spectators
            /\ \A x \in Entities : IsDead(world, x) => IsDead(u, x)
        BY ONLY <3>2, <3>3, DamagedWorld
      <4>2. QED BY <3>2, <3>3, <4>1, DamagedViews
    <3>4. QED BY <2>3, <3>1, <3>3
  <2>6. ViewInv'
    BY <2>1, <2>5 DEF PlayInv, ViewInv
  <2>7. QED BY <2>2, <2>4, <2>6 DEF PlayInv
<1>8. QED BY <1>1, <1>3, <1>5, <1>6, <1>7 DEF HandleKind

LEMMA PlayInit == Init => PlayInv
<1> SUFFICES ASSUME Init PROVE PlayInv
  OBVIOUS
<1>1. Idle
  BY DEF Init, Idle
<1>2. Alone(world)
  BY DEF Init, EmptyWorld, Alone
<1>3. NotPlaced /\ OnlyEnters
  BY DEF Init, NotPlaced, Placed, OnlyEnters, InLogic, InBatch
<1>4. made = 0
  BY DEF Init
<1>5. QED BY <1>1, <1>2, <1>3, <1>4 DEF PlayInv, BeforeMade, NoEntersAfter, Loaded, ViewInv,
                                        Idle

LEMMA PlayStep ==
  ASSUME LobbyUsers
  PROVE  WorldInv /\ OrderInv /\ PlayInv /\ [Next]_vars => PlayInv'
<1> SUFFICES ASSUME WorldInv, OrderInv, PlayInv, [Next]_vars PROVE PlayInv'
  OBVIOUS
<1>0. Orderly
  BY DEF LobbyUsers
<1>1. EntersWait'
  BY <1>0, OrderStep DEF OrderInv
<1>2. ASSUME NEW s \in Sessions, NEW k \in Kinds, Ask(s, k) PROVE PlayInv'
  BY <1>0, <1>2, PlayAsk
<1>3. CASE HandlePacket
  BY <1>1, <1>3, PlayPacket
<1>4. CASE EndRound(0) \/ EndRound(1)
  BY <1>4, PlayEnd
<1>5. CASE Aside
  <2>1. CASE HandleDisconnect
    BY <2>1, PlayDisconnect
  <2>2. CASE RunTimer
    BY <2>2, PlayTimer
  <2>3. CASE UpdateEntity
    BY <2>3, PlayUpdate
  <2>4. CASE Quiet
    BY <2>4, PlayQuiet
  <2>5. QED BY <1>5, <2>1, <2>2, <2>3, <2>4 DEF Aside, Quiet
<1>6. QED BY <1>2, <1>3, <1>4, <1>5, NextSteps

LEMMA ViewsAreRight == WorldInv /\ PlayInv => ViewsRight
<1> SUFFICES ASSUME WorldInv, PlayInv, made > 0, running, NEW s \in world.owners
             PROVE  LET living(es) == {e \in es : ~IsDead(world, e)}
                        near == UNION {world.sectors[c] : c \in Around(world.at[s])}
                        shown == world.view[s]
                    IN IF s \in world.dic
                       THEN living(near) \subseteq shown /\ shown \subseteq near
                       ELSE living(world.dic) \subseteq shown /\ shown \ {s} \subseteq world.dic
  BY DEF ViewsRight
<1>1. SectorsAgree(world)
  BY DEF WorldInv, GoodWorld
<1>2. UNION {world.sectors[c] : c \in Around(world.at[s])} = Near(world, s)
  <2>1. \A c \in Around(world.at[s]) :
          world.sectors[c] = {x \in world.dic : world.at[x] = c}
    BY <1>1, AroundGrid DEF SectorsAgree
  <2>2. QED BY <2>1 DEF Near
<1>3. ViewRight(world, s)
  BY DEF PlayInv, ViewInv, Views
<1>4. QED BY <1>2, <1>3 DEF ViewRight, Living

(* A client in the running world shows no character that is not there, and  *)
(* all living ones that are, though it is told of changes only: of whoever  *)
(* leaves or comes to its sectors, of the ends of entities and, once, of    *)
(* the whole (SectorManager::UpdateSector, DeleteEntity, SendAllEntityInfo, *)
(* GameWorld::SetSpectator).  One session comes for each user of the lobby. *)
THEOREM ViewsRightAlways ==
  ASSUME LobbyUsers
  PROVE  Spec => []ViewsRight
<1>1. Orderly
  BY DEF LobbyUsers
<1>2. WorldInv /\ OrderInv /\ [Next]_vars => OrderInv'
  BY <1>1, OrderStep
<1>3. WorldInv /\ OrderInv /\ PlayInv /\ [Next]_vars => PlayInv'
  BY PlayStep
<1>4. QED BY <1>2, <1>3, WorldInvariant, OrderInit, PlayInit, ViewsAreRight, PTL DEF Spec
=============================================================================
