-------------------------- MODULE LobbyRoomsProofs --------------------------
(***************************************************************************)
(* Proofs about LobbyRooms, for any finite set of users and any limits of   *)
(* rooms, users of a room and requests: with clients that wait for the      *)
(* answer to a request before the next, the rooms and what their users say  *)
(* of themselves agree, the list of rooms and its limit are kept, and each  *)
(* started room gets one game server.                                       *)
(*                                                                         *)
(* A patient client has one thing under way, its handler or one job         *)
(* (OneEach, HandlerOf).  So what a handler has read of its user is still   *)
(* true when it posts the job, and when the job runs (HandlerOf, JobRight): *)
(* nobody but this handler and this job changes it.                         *)
(***************************************************************************)
EXTENDS LobbyRooms, FiniteSetTheorems, TLAPS

UserJobs == [act : Acts, who : Users]
LanJobs == [act : {"settings", "lan"}, who : Servers]
Jobs == UserJobs \cup LanJobs

(* The jobs that wait in room r.                                            *)
Queued(r) == {jobs[r][i] : i \in 1 .. Len(jobs[r])}

(* Nobody has two jobs.                                                     *)
OneEach ==
  \A r, q \in Rooms : \A i \in 1 .. Len(jobs[r]), j \in 1 .. Len(jobs[q]) :
    jobs[r][i].who = jobs[q][j].who => r = q /\ i = j

(* What the handler read when it posted job j of room r is still true.       *)
JobRight(r, j) ==
  /\ r <= made /\ j.act # "make"
  /\ j.act = "enter" => ~joined[j.who]
  /\ j.act \in {"ready", "unready", "chat"} => joined[j.who] /\ roomNum[j.who] = r
  /\ j.act \in {"leave", "bye"} => j.who \in room[r].members
  /\ j.act = "settings" => servers[j.who].at = "asked" /\ servers[j.who].room = r
  /\ j.act = "lan" => servers[j.who].at = "announced" /\ servers[j.who].room = r

JobsRight == OneEach /\ \A r \in Rooms : \A j \in Queued(r) : JobRight(r, j)

(* What the handler of u has read is still true.                            *)
HandlerOf(u) ==
  /\ handler[u].at = "idle" <=> handler[u].act = "none"
  /\ handler[u].act = "make" =>
       handler[u].at \in {"check", "reserve", "unreserve", "create"}
  /\ handler[u].at \in {"reserve", "unreserve", "create"} =>
       handler[u].act = "make" /\ ~joined[u]
  /\ \/ handler[u].at \in {"find", "post", "execute", "executed"}
     \/ handler[u].at = "check" /\ handler[u].act \in {"enter", "leave"}
     => handler[u].room \in 1 .. made
  /\ handler[u].at = "find" /\ handler[u].act \notin {"enter", "leave"} =>
       joined[u] /\ roomNum[u] = handler[u].room
  /\ handler[u].at = "post" =>
       IF handler[u].act = "enter" THEN ~joined[u]
       ELSE joined[u] /\ roomNum[u] = handler[u].room
  /\ handler[u].at \notin {"idle", "execute"} => ~Waiting(u)

HandlersRight == \A u \in Users : HandlerOf(u)

(* The two sides of membership; SetRoom clears the number before the flag.  *)
UserRight(u) ==
  joined[u] => IF roomNum[u] # NoRoom THEN u \in room[roomNum[u]].members ELSE Waiting(u)

RoomRight(r) ==
  /\ room[r].cur = Cardinality(room[r].members) /\ room[r].cur <= RoomSize
  /\ room[r].members # {} => room[r].owner \in room[r].members
  /\ r > made => room[r] = Unmade
  /\ \A u \in room[r].members :
       /\ joined[u] /\ roomNum[u] \in {r, NoRoom}
       /\ \A q \in Rooms \ {r} : u \notin room[q].members

MembersRight == (\A u \in Users : UserRight(u)) /\ \A r \in Rooms : RoomRight(r)

(* Rooms in the map and rooms being made.                                    *)
At(steps) == {u \in Users : handler[u].at \in steps}
Making == {u \in Users : handler[u].act = "make"}

CountsRight ==
  /\ RoomsListed
  /\ Cardinality(roomMap) + Cardinality(At({"create"})) <= MaxRooms
  /\ made + Cardinality(Making) <= MaxMade

(* Game servers are launched one for each room that starts.                 *)
Running == {r \in Rooms : room[r].running}
Launched == {g \in Servers : servers[g].at # "off"}
Given(r) == {g \in Servers : servers[g].room = r}
Listed(r) == \E i \in 1 .. Len(pending) : pending[i] = r

ServerRight(g) ==
  /\ servers[g].room = NoRoom <=> servers[g].at \in {"off", "asking", "unanswered"}
  /\ servers[g].room # NoRoom => room[servers[g].room].running
  /\ servers[g].at \in {"set", "announced", "told"} =>
       servers[g].required >= Cardinality(room[servers[g].room].members)

Matched(r) ==
  \/ Listed(r) /\ Given(r) = {}
  \/ ~Listed(r) /\ \E g \in Servers : Given(r) = {g}

LanRight ==
  /\ Launched = 1 .. Cardinality(Running)
  /\ IsInjective(pending)
  /\ \A i \in 1 .. Len(pending) : room[pending[i]].running
  /\ \A g \in Servers : ServerRight(g)
  /\ \A r \in Rooms : room[r].running /\ room[r].members # {} => Matched(r)

Handlers ==
  [at : {"idle", "find", "check", "post", "execute", "executed", "reserve", "unreserve", "create"},
   act : Acts \cup {"none"}, room : Rooms \cup {NoRoom}]
RoomRecords ==
  [members : SUBSET Users, cur : UShorts, readyCnt : UShorts,
   owner : Users \cup {"none"}, running : BOOLEAN]
ServerRecords ==
  [at : {"off", "asking", "unanswered", "asked", "set", "announced", "told"},
   room : Rooms \cup {NoRoom}, required : UShorts]

(* TypeOK but for usingRooms, whose range follows from CountsRight.         *)
Typed ==
  /\ session \in [Users -> {"new", "open", "closed"}] /\ registered \subseteq Users
  /\ joined \in [Users -> BOOLEAN] /\ ready \in [Users -> BOOLEAN]
  /\ roomNum \in [Users -> Rooms \cup {NoRoom}]
  /\ room \in [Rooms -> RoomRecords]
  /\ made \in 0 .. MaxMade /\ roomMap \subseteq 1 .. made
  /\ jobs \in [Rooms -> Seq(Jobs)]
  /\ executing \in [Rooms -> BOOLEAN]
  /\ handler \in [Users -> Handlers]
  /\ pending \in Seq(Rooms) /\ requests \in 0 .. MaxRequests
  /\ servers \in [Servers -> ServerRecords]

IInv == Typed /\ JobsRight /\ HandlersRight /\ MembersRight /\ CountsRight /\ LanRight

-----------------------------------------------------------------------------
(* Counting, and the constants.                                             *)
LEMMA Constants ==
  /\ IsFiniteSet(Users) /\ NoRoom \notin Rooms /\ Users \cap Servers = {}
  /\ MaxMade \in Nat /\ MaxRequests \in Nat /\ MaxRooms \in Nat /\ RoomSize \in 1 .. MaxUShort
  /\ IsFiniteSet(Rooms) /\ Cardinality(Rooms) = MaxMade
  /\ Cardinality(Users) \in Nat
<1>1. 1 \in Int /\ MaxMade \in Int BY LobbyAssumption
<1>2. /\ IsFiniteSet(1 .. MaxMade)
      /\ Cardinality(1 .. MaxMade) = IF 1 > MaxMade THEN 0 ELSE MaxMade - 1 + 1
  BY <1>1, FS_Interval
<1>3. QED BY <1>2, LobbyAssumption, FS_CardinalityType DEF Rooms

(* Counters of a USHORT hold what fits.                                     *)
LEMMA UShortType ==
  /\ MaxUShort \in Nat /\ 0 \in UShorts /\ 1 \in UShorts
  /\ \A n \in UShorts : n \in Nat /\ n <= MaxUShort /\ USHORT(n) = n
  /\ \A n \in Int : USHORT(n) \in UShorts
  /\ \A n \in Nat : n <= MaxUShort => n \in UShorts /\ USHORT(n) = n
  /\ RoomSize \in Nat /\ 1 <= RoomSize /\ RoomSize <= MaxUShort
<1>1. MaxUShort \in Nat /\ 1 <= MaxUShort BY DEF MaxUShort
<1>2. \A n : n \in UShorts <=> n \in Nat /\ n <= MaxUShort BY <1>1 DEF UShorts
<1>3. \A n \in Nat : n <= MaxUShort => USHORT(n) = n BY <1>1 DEF USHORT
<1>4. ASSUME NEW n \in Int PROVE USHORT(n) \in UShorts
  <2>1. USHORT(n) \in Nat /\ USHORT(n) <= MaxUShort BY <1>1 DEF USHORT, MaxUShort
  <2>2. QED BY <1>2, <2>1
<1>5. RoomSize \in Nat /\ 1 <= RoomSize /\ RoomSize <= MaxUShort BY <1>1, LobbyAssumption
<1>6. QED BY <1>1, <1>2, <1>3, <1>4, <1>5

LEMMA CountMove ==
  ASSUME NEW S, IsFiniteSet(S), NEW A \in SUBSET S, NEW B \in SUBSET S, NEW u \in S,
         \A v \in S \ {u} : v \in B <=> v \in A
  PROVE  /\ Cardinality(A) \in Nat /\ Cardinality(B) \in Nat
         /\ Cardinality(B) + (IF u \in A THEN 1 ELSE 0)
              = Cardinality(A) + (IF u \in B THEN 1 ELSE 0)
<1>1. IsFiniteSet(A) /\ IsFiniteSet(B) BY FS_Subset
<1>2. Cardinality(A) \in Nat /\ Cardinality(B) \in Nat BY <1>1, FS_CardinalityType
<1>3. CASE u \in A /\ u \notin B
  <2>1. B = A \ {u} BY <1>3
  <2>2. Cardinality(B) = Cardinality(A) - 1 BY <1>1, <1>3, <2>1, FS_RemoveElement
  <2>3. QED BY <1>2, <1>3, <2>2
<1>4. CASE u \notin A /\ u \in B
  <2>1. B = A \cup {u} BY <1>4
  <2>2. Cardinality(B) = Cardinality(A) + 1 BY <1>1, <1>4, <2>1, FS_AddElement
  <2>3. QED BY <1>2, <1>4, <2>2
<1>5. CASE u \in A <=> u \in B
  <2>1. A = B BY <1>5
  <2>2. QED BY <1>2, <1>5, <2>1
<1>6. QED BY <1>3, <1>4, <1>5

(* Jobs that come and go.                                                   *)
LEMMA Waits == \A w : Waiting(w) <=> \E r \in Rooms : \E j \in Queued(r) : j.who = w
BY DEF Waiting, Queued

LEMMA WaitsNext ==
  \A w : Waiting(w)' <=> \E r \in Rooms : \E j \in Queued(r)' : j.who = w
BY DEF Waiting, Queued

LEMMA QueuedJobs ==
  ASSUME Typed, NEW r \in Rooms PROVE Queued(r) \subseteq Jobs
<1>1. jobs[r] \in Seq(Jobs) BY DEF Typed
<1>2. QED BY <1>1 DEF Queued

LEMMA AddJob ==
  ASSUME NEW T, NEW q \in Seq(T), NEW e \in T
  PROVE  /\ Append(q, e) \in Seq(T) /\ Len(Append(q, e)) = Len(q) + 1 /\ Len(q) \in Nat
         /\ \A i \in 1 .. Len(q) : Append(q, e)[i] = q[i]
         /\ Append(q, e)[Len(q) + 1] = e
OBVIOUS

LEMMA DropJob ==
  ASSUME NEW T, NEW q \in Seq(T), q # <<>>
  PROVE  /\ Tail(q) \in Seq(T) /\ Len(Tail(q)) = Len(q) - 1 /\ Len(q) \in Nat \ {0}
         /\ \A i \in 1 .. Len(q) - 1 : Tail(q)[i] = q[i + 1]
         /\ Head(q) = q[1] /\ Head(q) \in T /\ 1 \in 1 .. Len(q)
OBVIOUS

LEMMA PostedJob ==
  ASSUME Typed, OneEach, NEW r \in Rooms, NEW a, NEW w, [act |-> a, who |-> w] \in Jobs,
         ~Waiting(w), DoAsync(r, a, w)
  PROVE  /\ OneEach' /\ jobs' \in [Rooms -> Seq(Jobs)] /\ executing' \in [Rooms -> BOOLEAN]
         /\ Queued(r)' = Queued(r) \cup {[act |-> a, who |-> w]}
         /\ \A q \in Rooms \ {r} : Queued(q)' = Queued(q)
         /\ \A v : Waiting(v)' <=> Waiting(v) \/ v = w
<1> DEFINE e == [act |-> a, who |-> w]
<1>1. /\ \A q \in Rooms : jobs[q] \in Seq(Jobs)
      /\ jobs' = [jobs EXCEPT ![r] = Append(jobs[r], e)]
      /\ executing' \in [Rooms -> BOOLEAN]
  BY DEF Typed, DoAsync
<1>2. /\ jobs'[r] = Append(jobs[r], e) /\ \A q \in Rooms \ {r} : jobs'[q] = jobs[q]
      /\ jobs' \in [Rooms -> Seq(Jobs)]
  <2>1. Append(jobs[r], e) \in Seq(Jobs) BY <1>1
  <2>2. QED BY <1>1, <2>1 DEF Typed
<1>3. PICK n \in Nat : n = Len(jobs[r]) BY <1>1
<1>4. /\ Len(jobs'[r]) = n + 1 /\ \A i \in 1 .. n : jobs'[r][i] = jobs[r][i]
      /\ jobs'[r][n + 1] = e
  BY <1>1, <1>2, <1>3, AddJob
<1>5. Queued(r)' = Queued(r) \cup {e}
  <2>1. \A i \in Nat : i \in 1 .. n + 1 <=> i \in 1 .. n \/ i = n + 1 BY <1>3
  <2>2. QED BY <1>3, <1>4, <2>1 DEF Queued
<1>6. \A q \in Rooms \ {r} : Queued(q)' = Queued(q) BY <1>2 DEF Queued
<1>7. \A v : Waiting(v)' <=> Waiting(v) \/ v = w
  BY <1>5, <1>6, Waits, WaitsNext
<1>8. OneEach'
  <2>1. \A q \in Rooms : \A i \in 1 .. Len(jobs[q]) : jobs[q][i].who # w
    BY DEF Waiting
  <2>2. \A i \in Nat : i \in 1 .. n + 1 => i \in 1 .. n \/ i = n + 1 BY <1>3
  <2> SUFFICES ASSUME NEW p \in Rooms, NEW q \in Rooms, NEW i \in 1 .. Len(jobs'[p]),
                      NEW j \in 1 .. Len(jobs'[q]), jobs'[p][i].who = jobs'[q][j].who
               PROVE  p = q /\ i = j
    BY DEF OneEach
  <2>3. ASSUME NEW x \in Rooms, NEW k \in 1 .. Len(jobs'[x])
        PROVE  \/ k \in 1 .. Len(jobs[x]) /\ jobs'[x][k] = jobs[x][k]
               \/ x = r /\ k = n + 1 /\ jobs'[x][k].who = w
    BY <1>2, <1>3, <1>4, <2>2, <2>3
  <2>4. QED BY <2>1, <2>3 DEF OneEach
<1>9. QED BY <1>1, <1>2, <1>5, <1>6, <1>7, <1>8

LEMMA DoneJob ==
  ASSUME Typed, OneEach, NEW r \in Rooms, jobs[r] # <<>>,
         jobs' = [jobs EXCEPT ![r] = Tail(@)], NEW w, w = Head(jobs[r]).who
  PROVE  /\ OneEach' /\ jobs' \in [Rooms -> Seq(Jobs)] /\ Head(jobs[r]) \in Queued(r)
         /\ \A q \in Rooms : \A j \in Queued(q)' : j \in Queued(q) /\ j.who # w
         /\ ~Waiting(w)' /\ Waiting(w)
         /\ \A v : v # w => (Waiting(v)' <=> Waiting(v))
<1>1. \A q \in Rooms : jobs[q] \in Seq(Jobs) BY DEF Typed
<1>2. /\ jobs'[r] = Tail(jobs[r]) /\ \A q \in Rooms \ {r} : jobs'[q] = jobs[q]
      /\ jobs' \in [Rooms -> Seq(Jobs)]
  <2>1. Tail(jobs[r]) \in Seq(Jobs) BY <1>1
  <2>2. QED BY <1>1, <2>1 DEF Typed
<1>3. PICK n \in Nat : n + 1 = Len(jobs[r])
  <2>1. Len(jobs[r]) \in Nat \ {0} BY <1>1, DropJob
  <2>2. \A m \in Nat \ {0} : \E k \in Nat : k + 1 = m
    <3> SUFFICES ASSUME NEW m \in Nat \ {0} PROVE \E k \in Nat : k + 1 = m OBVIOUS
    <3>1. m - 1 \in Nat /\ (m - 1) + 1 = m OBVIOUS
    <3>2. QED BY <3>1
  <2>3. QED BY <2>1, <2>2
<1>4. /\ Len(jobs'[r]) = n /\ \A i \in 1 .. n : jobs'[r][i] = jobs[r][i + 1]
      /\ Head(jobs[r]) = jobs[r][1] /\ 1 \in 1 .. Len(jobs[r])
  BY <1>1, <1>2, <1>3, DropJob
<1>5. ASSUME NEW x \in Rooms, NEW k \in 1 .. Len(jobs'[x])
      PROVE  /\ x = r => k + 1 \in 1 .. Len(jobs[x]) /\ jobs'[x][k] = jobs[x][k + 1] /\ k + 1 # 1
             /\ x # r => k \in 1 .. Len(jobs[x]) /\ jobs'[x][k] = jobs[x][k]
  BY <1>2, <1>3, <1>4
<1>6. ASSUME NEW x \in Rooms, NEW k \in 1 .. Len(jobs'[x])
      PROVE  jobs'[x][k] \in Queued(x) /\ jobs'[x][k].who # w
  BY <1>4, <1>5 DEF Queued, OneEach
<1>7. OneEach'
  <2> SUFFICES ASSUME NEW p \in Rooms, NEW q \in Rooms, NEW i \in 1 .. Len(jobs'[p]),
                      NEW j \in 1 .. Len(jobs'[q]), jobs'[p][i].who = jobs'[q][j].who
               PROVE  p = q /\ i = j
    BY DEF OneEach
  <2>1. /\ p = r => i + 1 \in 1 .. Len(jobs[p]) /\ jobs'[p][i] = jobs[p][i + 1]
        /\ p # r => i \in 1 .. Len(jobs[p]) /\ jobs'[p][i] = jobs[p][i]
        /\ q = r => j + 1 \in 1 .. Len(jobs[q]) /\ jobs'[q][j] = jobs[q][j + 1]
        /\ q # r => j \in 1 .. Len(jobs[q]) /\ jobs'[q][j] = jobs[q][j]
    BY <1>5
  <2>2. p = q BY <2>1 DEF OneEach
  <2>3. CASE p = r
    <3>1. i + 1 = j + 1 BY <2>1, <2>2, <2>3 DEF OneEach
    <3>2. i \in Int /\ j \in Int OBVIOUS
    <3>3. QED BY <2>2, <3>1, <3>2
  <2>4. CASE p # r BY <2>1, <2>2, <2>4 DEF OneEach
  <2>5. QED BY <2>3, <2>4
<1>8. \A q \in Rooms : \A j \in Queued(q)' : j \in Queued(q) /\ j.who # w
  BY <1>6 DEF Queued
<1>9. Head(jobs[r]) \in Queued(r) BY <1>4 DEF Queued
<1>10. ~Waiting(w)' /\ Waiting(w)
  <2>1. ~Waiting(w)' BY <1>8, WaitsNext
  <2>2. Waiting(w) BY <1>9, Waits
  <2>3. QED BY <2>1, <2>2
<1>11. \A v : v # w => (Waiting(v)' <=> Waiting(v))
  <2> SUFFICES ASSUME NEW v, v # w PROVE Waiting(v)' <=> Waiting(v) OBVIOUS
  <2>1. Waiting(v)' => Waiting(v) BY <1>8, Waits, WaitsNext
  <2>2. ASSUME NEW x \in Rooms, NEW k \in 1 .. Len(jobs[x]), jobs[x][k].who = v
        PROVE  \E y \in Rooms : \E m \in 1 .. Len(jobs'[y]) : jobs'[y][m].who = v
    <3>1. CASE x = r
      <4>1. k # 1 BY <1>4, <2>2, <3>1
      <4>2. PICK m \in 1 .. n : k = m + 1 BY <1>3, <2>2, <3>1, <4>1
      <4>3. QED BY <1>4, <2>2, <3>1, <4>2
    <3>2. CASE x # r BY <1>2, <2>2, <3>2
    <3>3. QED BY <3>1, <3>2
  <2>3. QED BY <2>1, <2>2 DEF Waiting
<1>12. QED BY <1>2, <1>7, <1>8, <1>9, <1>10, <1>11

-----------------------------------------------------------------------------
(* Steps that change what one handler is doing, and nothing of the rooms.   *)
HandlerMoves(u) ==
  /\ handler' = [handler EXCEPT ![u] = handler'[u]] /\ handler'[u] \in Handlers
  /\ joined' = joined /\ roomNum' = roomNum /\ ready' = ready
  /\ room' = room /\ made' = made /\ roomMap' = roomMap
  /\ pending' = pending /\ servers' = servers
  /\ jobs' = jobs /\ executing' = executing
  /\ session' \in [Users -> {"new", "open", "closed"}] /\ registered' \subseteq Users
  /\ requests' \in 0 .. MaxRequests

LEMMA LanKept ==
  ASSUME LanRight, room' = room, pending' = pending, servers' = servers
  PROVE  LanRight'
<1>1. /\ Launched' = Launched /\ Running' = Running
      /\ \A r : Given(r)' = Given(r) /\ (Listed(r)' <=> Listed(r))
  BY DEF Launched, Running, Given, Listed
<1>2. \A g \in Servers : ServerRight(g)' BY DEF LanRight, ServerRight
<1>3. \A r : Matched(r)' <=> Matched(r) BY <1>1 DEF Matched
<1>4. IsInjective(pending)' BY DEF LanRight, IsInjective
<1>5. QED BY <1>1, <1>2, <1>3, <1>4 DEF LanRight

LEMMA HandlerStep ==
  ASSUME IInv, NEW u \in Users, HandlerMoves(u), HandlerOf(u)', CountsRight'
  PROVE  IInv'
<1>1. Typed' BY DEF HandlerMoves, IInv, Typed
<1>2. /\ \A v : Waiting(v)' <=> Waiting(v)
      /\ \A r : Queued(r)' = Queued(r)
  BY DEF HandlerMoves, Waiting, Queued
<1>3. JobsRight'
  <2>1. OneEach' BY DEF HandlerMoves, IInv, JobsRight, OneEach
  <2>2. \A r, j : JobRight(r, j)' <=> JobRight(r, j) BY DEF HandlerMoves, JobRight
  <2>3. QED BY <1>2, <2>1, <2>2 DEF IInv, JobsRight
<1>4. HandlersRight'
  <2> SUFFICES ASSUME NEW v \in Users \ {u} PROVE HandlerOf(v)' BY DEF HandlersRight
  <2>1. handler'[v] = handler[v] BY DEF HandlerMoves, IInv, Typed
  <2>2. HandlerOf(v) BY DEF IInv, HandlersRight
  <2>3. QED BY <1>2, <2>1, <2>2 DEF HandlerMoves, HandlerOf
<1>5. MembersRight'
  <2>1. \A v \in Users : UserRight(v)'
    BY <1>2 DEF HandlerMoves, IInv, MembersRight, UserRight
  <2>2. \A r \in Rooms : RoomRight(r)'
    BY DEF HandlerMoves, IInv, MembersRight, RoomRight
  <2>3. QED BY <2>1, <2>2 DEF MembersRight
<1>6. LanRight' BY LanKept DEF HandlerMoves, IInv
<1>7. QED BY <1>1, <1>3, <1>4, <1>5, <1>6 DEF IInv

(* What one handler does to the three counts.                               *)
LEMMA HandlerCounts ==
  ASSUME Typed, NEW u \in Users, handler' = [handler EXCEPT ![u] = handler'[u]], NEW steps
  PROVE  /\ Cardinality(At(steps)) \in Nat /\ Cardinality(At(steps)') \in Nat
         /\ Cardinality(At(steps)') + (IF handler[u].at \in steps THEN 1 ELSE 0)
              = Cardinality(At(steps)) + (IF handler'[u].at \in steps THEN 1 ELSE 0)
         /\ Cardinality(Making) \in Nat /\ Cardinality(Making') \in Nat
         /\ Cardinality(Making') + (IF handler[u].act = "make" THEN 1 ELSE 0)
              = Cardinality(Making) + (IF handler'[u].act = "make" THEN 1 ELSE 0)
<1>1. \A v \in Users \ {u} : handler'[v] = handler[v] BY DEF Typed
<1>2. IsFiniteSet(Users) BY Constants
<1>3. /\ At(steps) \in SUBSET Users /\ At(steps)' \in SUBSET Users
      /\ \A v \in Users \ {u} : v \in At(steps)' <=> v \in At(steps)
      /\ u \in At(steps) <=> handler[u].at \in steps
      /\ u \in At(steps)' <=> handler'[u].at \in steps
  BY <1>1 DEF At
<1>4. /\ Making \in SUBSET Users /\ Making' \in SUBSET Users
      /\ \A v \in Users \ {u} : v \in Making' <=> v \in Making
      /\ u \in Making <=> handler[u].act = "make"
      /\ u \in Making' <=> handler'[u].act = "make"
  BY <1>1 DEF Making
<1>5. /\ Cardinality(At(steps)) \in Nat /\ Cardinality(At(steps)') \in Nat
      /\ Cardinality(At(steps)') + (IF u \in At(steps) THEN 1 ELSE 0)
           = Cardinality(At(steps)) + (IF u \in At(steps)' THEN 1 ELSE 0)
  BY <1>2, <1>3, CountMove
<1>6. /\ Cardinality(Making) \in Nat /\ Cardinality(Making') \in Nat
      /\ Cardinality(Making') + (IF u \in Making THEN 1 ELSE 0)
           = Cardinality(Making) + (IF u \in Making' THEN 1 ELSE 0)
  BY <1>2, <1>4, CountMove
<1>7. QED BY <1>3, <1>4, <1>5, <1>6

LEMMA CountsKept ==
  ASSUME IInv, NEW u \in Users, handler' = [handler EXCEPT ![u] = handler'[u]],
         handler[u].at \notin {"create", "unreserve"},
         handler'[u].at \notin {"create", "unreserve"},
         handler'[u].act = "make" => handler[u].act = "make",
         room' = room, made' = made, roomMap' = roomMap, usingRooms' = usingRooms
  PROVE  CountsRight'
<1>1. /\ Typed /\ roomMap = {r \in Rooms : room[r].members # {}}
      /\ usingRooms = Cardinality(roomMap) + Cardinality(At({"create", "unreserve"}))
      /\ Cardinality(roomMap) <= MaxRooms
      /\ Cardinality(roomMap) + Cardinality(At({"create"})) <= MaxRooms
      /\ made + Cardinality(Making) <= MaxMade /\ made \in Nat /\ MaxMade \in Nat
  <2>1. Typed /\ RoomsListed BY DEF IInv, CountsRight
  <2>2. made \in Nat /\ MaxMade \in Nat BY <2>1, Constants DEF Typed
  <2>3. /\ Cardinality(roomMap) + Cardinality(At({"create"})) <= MaxRooms
        /\ made + Cardinality(Making) <= MaxMade
    BY DEF IInv, CountsRight
  <2>4. usingRooms = Cardinality(roomMap) + Cardinality(At({"create", "unreserve"}))
    BY <2>1 DEF RoomsListed, At
  <2>5. QED BY <2>1, <2>2, <2>3, <2>4 DEF RoomsListed
<1>2. /\ Cardinality(At({"create", "unreserve"})') = Cardinality(At({"create", "unreserve"}))
      /\ Cardinality(At({"create"})') = Cardinality(At({"create"}))
      /\ Cardinality(Making') \in Nat /\ Cardinality(Making) \in Nat
      /\ Cardinality(Making') <= Cardinality(Making)
  <2>1. Cardinality(At({"create", "unreserve"})') = Cardinality(At({"create", "unreserve"}))
    BY <1>1, HandlerCounts
  <2>2. Cardinality(At({"create"})') = Cardinality(At({"create"})) BY <1>1, HandlerCounts
  <2>3. QED BY <1>1, <2>1, <2>2, HandlerCounts
<1>3. made + Cardinality(Making') <= MaxMade BY ONLY <1>1, <1>2
<1>4. RoomsListed' BY <1>1, <1>2 DEF RoomsListed, At
<1>5. QED BY <1>1, <1>2, <1>3, <1>4 DEF CountsRight

LEMMA FindRoomStep == ASSUME IInv, NEW u \in Users, FindRoom(u) PROVE IInv'
<1>1. /\ handler[u] \in Handlers /\ HandlerOf(u) /\ Typed
      /\ handler' = [handler EXCEPT ![u] = handler'[u]]
      /\ \/ handler'[u] = Idle
         \/ handler'[u] = [handler[u] EXCEPT !.at = "check"]
            /\ handler[u].act \in {"enter", "leave"}
         \/ handler'[u] = [handler[u] EXCEPT !.at = "post"]
            /\ handler[u].act \notin {"enter", "leave"}
      /\ handler[u].at = "find"
  BY DEF IInv, HandlersRight, Typed, FindRoom, Go, Return
<1>2. handler'[u] \in Handlers BY <1>1 DEF Handlers, Idle
<1>3. HandlerMoves(u)
  BY <1>1, <1>2 DEF FindRoom, HandlerMoves, Typed, userVars, roomVars, lanVars, queueVars
<1>4. HandlerOf(u)'
  <2>1. Waiting(u)' <=> Waiting(u) BY <1>3 DEF HandlerMoves, Waiting
  <2>2. QED BY <1>1, <2>1, <1>3 DEF HandlerMoves, HandlerOf, Handlers, Idle
<1>5. CountsRight'
  BY <1>1, <1>3, CountsKept DEF HandlerMoves, FindRoom, roomVars, Handlers, Idle
<1>6. QED BY <1>3, <1>4, <1>5, HandlerStep

LEMMA EndExecuteStep == ASSUME IInv, NEW u \in Users, EndExecute(u) PROVE IInv'
<1>1. /\ handler[u] \in Handlers /\ Typed /\ handler'[u] = Idle
      /\ handler' = [handler EXCEPT ![u] = handler'[u]] /\ handler[u].at = "executed"
  BY DEF IInv, Typed, EndExecute, Return
<1>2. handler'[u] \in Handlers BY <1>1 DEF Handlers, Idle
<1>3. HandlerMoves(u)
  BY <1>1, <1>2 DEF EndExecute, HandlerMoves, Typed, userVars, roomVars, lanVars, queueVars
<1>4. HandlerOf(u)' BY <1>1 DEF HandlerOf, Idle
<1>5. CountsRight'
  BY <1>1, <1>3, CountsKept DEF HandlerMoves, EndExecute, roomVars, Idle
<1>6. QED BY <1>3, <1>4, <1>5, HandlerStep

(* The handlers that begin with what the user says of its room.             *)
LEMMA ChecksStep ==
  ASSUME IInv, NEW u \in Users, NEW acts, Checks(u, acts), registered' \subseteq Users,
         \/ handler' = [handler EXCEPT ![u] = Idle]
         \/ handler' = [handler EXCEPT ![u].at = "reserve"] /\ handler[u].act = "make" /\ ~joined[u]
         \/ handler' = [handler EXCEPT ![u].at = "post"] /\ handler[u].act = "enter"
            /\ ~joined[u] /\ handler[u].room \in 1 .. made
         \/ handler' = [handler EXCEPT ![u].at = "post"] /\ handler[u].act = "leave"
            /\ joined[u] /\ roomNum[u] = handler[u].room /\ handler[u].room \in 1 .. made
         \/ handler' = [handler EXCEPT ![u].at = "find", ![u].room = roomNum[u]]
            /\ handler[u].act \in {"ready", "unready", "chat", "bye"}
            /\ joined[u] /\ roomNum[u] \in 1 .. made
  PROVE  IInv'
<1>1. handler[u] \in Handlers /\ HandlerOf(u) /\ Typed /\ roomNum[u] \in Rooms \cup {NoRoom}
      /\ handler[u].at = "check"
  BY DEF IInv, HandlersRight, Typed, Checks
<1>2. /\ handler' = [handler EXCEPT ![u] = handler'[u]]
      /\ \/ handler'[u] = Idle
         \/ handler'[u] = [handler[u] EXCEPT !.at = "reserve"] /\ handler[u].act = "make" /\ ~joined[u]
         \/ handler'[u] = [handler[u] EXCEPT !.at = "post"] /\ handler[u].act = "enter"
            /\ ~joined[u] /\ handler[u].room \in 1 .. made
         \/ handler'[u] = [handler[u] EXCEPT !.at = "post"] /\ handler[u].act = "leave"
            /\ joined[u] /\ roomNum[u] = handler[u].room /\ handler[u].room \in 1 .. made
         \/ handler'[u] = [handler[u] EXCEPT !.at = "find", !.room = roomNum[u]]
            /\ handler[u].act \in {"ready", "unready", "chat", "bye"}
            /\ joined[u] /\ roomNum[u] \in 1 .. made
  BY <1>1 DEF Typed
<1>3. handler'[u] \in Handlers
  <2>1. Idle \in Handlers BY DEF Idle, Handlers
  <2>2. \A x \in {"reserve", "post", "find"}, y \in Rooms \cup {NoRoom} :
          /\ [handler[u] EXCEPT !.at = x] \in Handlers
          /\ [handler[u] EXCEPT !.at = x, !.room = y] \in Handlers
    BY <1>1 DEF Handlers
  <2>3. QED BY <1>1, <1>2, <2>1, <2>2
<1>4. HandlerMoves(u)
  BY <1>1, <1>2, <1>3 DEF Checks, HandlerMoves, Typed, userVars, roomVars, lanVars, queueVars
<1>5. HandlerOf(u)'
  <2>1. /\ Waiting(u)' <=> Waiting(u)
        /\ joined' = joined /\ roomNum' = roomNum /\ made' = made
    BY <1>4 DEF HandlerMoves, Waiting
  <2>2. CASE handler'[u] = Idle BY <2>1, <2>2 DEF HandlerOf, Idle
  <2>3. CASE handler'[u] # Idle BY <1>1, <1>2, <2>1, <2>3 DEF HandlerOf, Handlers
  <2>4. QED BY <2>2, <2>3
<1>6. CountsRight'
  <2>1. /\ handler'[u].at \in {"idle", "reserve", "post", "find"}
        /\ handler'[u].act = "make" => handler[u].act = "make"
    <3>1. CASE handler'[u] = Idle BY <3>1 DEF Idle
    <3>2. CASE handler'[u] = [handler[u] EXCEPT !.at = "reserve"]
      BY <1>1, <3>2 DEF Handlers
    <3>3. CASE handler'[u] = [handler[u] EXCEPT !.at = "post"]
      BY <1>1, <3>3 DEF Handlers
    <3>4. CASE handler'[u] = [handler[u] EXCEPT !.at = "find", !.room = roomNum[u]]
      BY <1>1, <3>4 DEF Handlers
    <3>5. QED BY <1>2, <3>1, <3>2, <3>3, <3>4
  <2>3. room' = room /\ made' = made /\ roomMap' = roomMap /\ usingRooms' = usingRooms
    BY DEF Checks, roomVars
  <2>4. QED BY <1>1, <1>2, <2>1, <2>3, CountsKept
<1>7. QED BY <1>4, <1>5, <1>6, HandlerStep

(* Whoever is in a room and waits for nothing knows its number.             *)
LEMMA NumberKnown ==
  ASSUME IInv, NEW u \in Users, joined[u], ~Waiting(u)
  PROVE  roomNum[u] \in roomMap /\ roomNum[u] \in 1 .. made /\ u \in room[roomNum[u]].members
<1>1. roomNum[u] # NoRoom /\ u \in room[roomNum[u]].members
  BY DEF IInv, MembersRight, UserRight
<1>2. roomNum[u] \in Rooms BY <1>1 DEF IInv, Typed
<1>3. roomNum[u] \in roomMap BY <1>1, <1>2 DEF IInv, CountsRight, RoomsListed
<1>4. QED BY <1>1, <1>3 DEF IInv, Typed

LEMMA CheckSteps ==
  ASSUME IInv, NEW u \in Users,
         \/ CheckMake(u) \/ CheckEnter(u) \/ CheckLeave(u) \/ CheckOwn(u) \/ DisconnectUser(u)
  PROVE  IInv'
<1>1. /\ HandlerOf(u) /\ handler[u] \in Handlers /\ registered \subseteq Users
      /\ joined[u] \in BOOLEAN
  BY DEF IInv, HandlersRight, Typed
<1>2. handler[u].at = "check"
  BY DEF CheckMake, CheckEnter, CheckLeave, CheckOwn, DisconnectUser, Checks
<1>3. ~Waiting(u) BY <1>1, <1>2 DEF HandlerOf
<1>4. joined[u] => roomNum[u] \in 1 .. made BY <1>3, NumberKnown
<1>5. CASE CheckMake(u)
  BY <1>1, <1>5, ChecksStep DEF CheckMake, Go, Return, Checks
<1>6. CASE CheckLeave(u)
  <2>1. /\ Checks(u, {"leave"}) /\ registered' \subseteq Users /\ handler[u].act = "leave"
        /\ \/ handler' = [handler EXCEPT ![u] = Idle]
           \/ handler' = [handler EXCEPT ![u].at = "post"]
              /\ joined[u] /\ roomNum[u] = handler[u].room
    BY <1>1, <1>6 DEF CheckLeave, Go, Return, Checks
  <2>2. QED BY <1>4, <2>1, ChecksStep
<1>7. CASE CheckOwn(u)
  <2>1. /\ Checks(u, {"ready", "unready", "chat"}) /\ registered' \subseteq Users
        /\ handler[u].act \in {"ready", "unready", "chat"}
        /\ \/ handler' = [handler EXCEPT ![u] = Idle]
           \/ handler' = [handler EXCEPT ![u].at = "find", ![u].room = roomNum[u]]
              /\ joined[u]
    BY <1>1, <1>7 DEF CheckOwn, Return, Checks
  <2>2. QED BY <1>4, <2>1, ChecksStep
<1>8. CASE DisconnectUser(u)
  <2>1. /\ Checks(u, {"bye"}) /\ registered' \subseteq Users /\ handler[u].act = "bye"
        /\ \/ handler' = [handler EXCEPT ![u] = Idle]
           \/ handler' = [handler EXCEPT ![u].at = "find", ![u].room = roomNum[u]]
              /\ joined[u]
    BY <1>1, <1>8 DEF DisconnectUser, Return, Checks, RemoveUser
  <2>2. QED BY <1>4, <2>1, ChecksStep
<1>9. CASE CheckEnter(u)
  <2>1. /\ Checks(u, {"enter"}) /\ registered' \subseteq Users /\ handler[u].act = "enter"
        /\ \/ handler' = [handler EXCEPT ![u] = Idle]
           \/ handler' = [handler EXCEPT ![u].at = "post"] /\ ~joined[u]
    BY <1>1, <1>9 DEF CheckEnter, Go, Return, Checks
  <2>2. handler[u].room \in 1 .. made
    BY <1>1, <1>2, <2>1 DEF HandlerOf
  <2>3. QED BY <2>1, <2>2, ChecksStep
<1>10. QED BY <1>5, <1>6, <1>7, <1>8, <1>9

(* A client logs in, asks, or goes.                                         *)
LEMMA LogInStep == ASSUME IInv, NEW u \in Users, LogIn(u) PROVE IInv'
<1>1. /\ Typed /\ handler' = handler /\ HandlerOf(u)
      /\ session' \in [Users -> {"new", "open", "closed"}] /\ registered' \subseteq Users
  BY DEF IInv, HandlersRight, Typed, LogIn, CreateUser
<1>2. HandlerMoves(u)
  BY <1>1 DEF LogIn, HandlerMoves, Typed, userVars, roomVars, lanVars, queueVars
<1>3. HandlerOf(u)'
  <2>1. Waiting(u)' <=> Waiting(u) BY <1>2 DEF HandlerMoves, Waiting
  <2>2. QED BY <1>1, <1>2, <2>1 DEF HandlerMoves, HandlerOf
<1>4. CountsRight'
  BY <1>1 DEF LogIn, roomVars, IInv, CountsRight, RoomsListed, At, Making
<1>5. QED BY <1>2, <1>3, <1>4, HandlerStep

LEMMA RequestStep == ASSUME IInv, Patient, NEW u \in Users, Request(u) PROVE IInv'
<1>1. /\ Typed /\ HandlerOf(u) /\ handler[u].at = "idle" /\ ~Waiting(u)
      /\ handler[u] \in Handlers /\ made \in 0 .. MaxMade /\ MaxMade \in Nat
  <2>1. MaxMade \in Nat BY Constants
  <2>2. handler[u].at = "idle" /\ ~Waiting(u) BY DEF Request, MayAct
  <2>3. Typed /\ HandlerOf(u) BY DEF IInv, HandlersRight
  <2>4. QED BY <2>1, <2>2, <2>3 DEF Typed
<1>2. PICK h \in Handlers :
        /\ handler' = [handler EXCEPT ![u] = h]
        /\ \/ h.at = "find" /\ h.act \in {"enter", "leave"} /\ h.room \in 1 .. made
           \/ h.at = "check" /\ h.act \in {"make", "ready", "unready", "chat"}
              /\ (h.act = "make" =>
                    made + Cardinality({v \in Users : handler[v].act = "make"}) < MaxMade)
  <2>1. CASE \E act \in {"enter", "leave"}, r \in 1 .. made :
               handler' = [handler EXCEPT ![u] = [at |-> "find", act |-> act, room |-> r]]
    <3>1. PICK act \in {"enter", "leave"}, r \in 1 .. made :
               handler' = [handler EXCEPT ![u] = [at |-> "find", act |-> act, room |-> r]]
      BY <2>1
    <3>2. [at |-> "find", act |-> act, room |-> r] \in Handlers
      BY <1>1 DEF Handlers, Acts, Rooms
    <3>3. QED BY <3>1, <3>2
  <2>2. CASE \E act \in {"make", "ready", "unready", "chat"} :
          /\ act = "make" => made + Cardinality({v \in Users : handler[v].act = "make"}) < MaxMade
          /\ handler' = [handler EXCEPT ![u] = [at |-> "check", act |-> act, room |-> NoRoom]]
    <3>1. PICK act \in {"make", "ready", "unready", "chat"} :
          /\ act = "make" => made + Cardinality({v \in Users : handler[v].act = "make"}) < MaxMade
          /\ handler' = [handler EXCEPT ![u] = [at |-> "check", act |-> act, room |-> NoRoom]]
      BY <2>2
    <3>2. [at |-> "check", act |-> act, room |-> NoRoom] \in Handlers
      BY DEF Handlers, Acts
    <3>3. QED BY <3>1, <3>2
  <2>3. QED BY <2>1, <2>2 DEF Request
<1>3. handler'[u] = h /\ handler' = [handler EXCEPT ![u] = handler'[u]]
  BY <1>1, <1>2 DEF Typed
<1>4. HandlerMoves(u)
  <2>1. requests' \in 0 .. MaxRequests
    <3>1. requests \in 0 .. MaxRequests /\ MaxRequests \in Nat BY <1>1, Constants DEF Typed
    <3>2. requests < MaxRequests /\ requests' = requests + 1 BY DEF Request
    <3>3. QED BY ONLY <3>1, <3>2
  <2>2. QED
    BY <1>1, <1>2, <1>3, <2>1
    DEF Request, HandlerMoves, Typed, userVars, roomVars, lanVars, queueVars
<1>5. HandlerOf(u)'
  <2>1. Waiting(u)' <=> Waiting(u) BY <1>4 DEF HandlerMoves, Waiting
  <2>2. QED BY <1>1, <1>2, <1>3, <1>4, <2>1 DEF HandlerMoves, HandlerOf
<1>6. CountsRight'
  <2>1. room' = room /\ made' = made /\ roomMap' = roomMap /\ usingRooms' = usingRooms
    BY DEF Request, roomVars
  <2>2. CASE h.act # "make" BY <1>1, <1>2, <1>3, <2>1, <2>2, CountsKept
  <2>3. CASE h.act = "make"
    <3>1. /\ Cardinality(At({"create", "unreserve"})') = Cardinality(At({"create", "unreserve"}))
          /\ Cardinality(At({"create"})') = Cardinality(At({"create"}))
      <4>1. handler[u].at \notin {"create", "unreserve"} /\ h.at \notin {"create", "unreserve"}
        BY <1>1, <1>2
      <4>2. Cardinality(At({"create", "unreserve"})') = Cardinality(At({"create", "unreserve"}))
        BY <1>1, <1>3, <4>1, HandlerCounts
      <4>3. Cardinality(At({"create"})') = Cardinality(At({"create"}))
        BY <1>1, <1>3, <4>1, HandlerCounts
      <4>4. QED BY <4>2, <4>3
    <3>2. /\ Cardinality(Making') = Cardinality(Making) + 1 /\ Cardinality(Making) \in Nat
          /\ made + Cardinality(Making) < MaxMade
      <4>1. handler[u].act = "none" BY <1>1 DEF HandlerOf
      <4>2. /\ Cardinality(Making) \in Nat /\ Cardinality(Making') \in Nat
            /\ Cardinality(Making') + 0 = Cardinality(Making) + 1
        BY <1>1, <1>3, <2>3, <4>1, HandlerCounts
      <4>3. QED BY <1>2, <2>3, <4>2 DEF Making
    <3>3. made + Cardinality(Making') <= MaxMade BY ONLY <1>1, <3>2
    <3>4. QED BY <2>1, <3>1, <3>3 DEF IInv, CountsRight, RoomsListed, At
  <2>4. QED BY <2>2, <2>3
<1>7. QED BY <1>4, <1>5, <1>6, HandlerStep

LEMMA DisconnectStep == ASSUME IInv, Patient, NEW u \in Users, Disconnect(u) PROVE IInv'
<1> DEFINE h == [at |-> "check", act |-> "bye", room |-> NoRoom]
<1>1. /\ Typed /\ HandlerOf(u) /\ handler[u].at = "idle" /\ ~Waiting(u)
      /\ handler[u] \in Handlers
  BY DEF IInv, HandlersRight, Typed, Disconnect, MayAct
<1>2. h \in Handlers BY DEF Handlers, Acts
<1>3. handler'[u] = h /\ handler' = [handler EXCEPT ![u] = handler'[u]]
  BY <1>1 DEF Typed, Disconnect
<1>4. HandlerMoves(u)
  BY <1>1, <1>2, <1>3
  DEF Disconnect, HandlerMoves, Typed, userVars, roomVars, lanVars, queueVars
<1>5. HandlerOf(u)'
  <2>1. Waiting(u)' <=> Waiting(u) BY <1>4 DEF HandlerMoves, Waiting
  <2>2. QED BY <1>1, <1>3, <1>4, <2>1 DEF HandlerMoves, HandlerOf
<1>6. CountsRight'
  <2>1. room' = room /\ made' = made /\ roomMap' = roomMap /\ usingRooms' = usingRooms
    BY DEF Disconnect, roomVars
  <2>2. QED BY <1>1, <1>3, <2>1, CountsKept
<1>7. QED BY <1>4, <1>5, <1>6, HandlerStep

(* CreateRoom counts first.                                                 *)
LEMMA ReserveSteps ==
  ASSUME IInv, NEW u \in Users, Reserve(u) \/ Unreserve(u) PROVE IInv'
<1>1. /\ Typed /\ HandlerOf(u) /\ handler[u] \in Handlers /\ MaxRooms \in Nat
      /\ handler[u].at \in {"reserve", "unreserve"}
  BY Constants DEF IInv, HandlersRight, Typed, Reserve, Unreserve
<1>2. /\ handler' = [handler EXCEPT ![u] = handler'[u]]
      /\ \/ /\ handler[u].at = "reserve" /\ usingRooms' = usingRooms + 1
            /\ handler'[u] = [handler[u] EXCEPT !.at =
                                IF usingRooms' > MaxRooms THEN "unreserve" ELSE "create"]
         \/ /\ handler[u].at = "unreserve" /\ usingRooms' = usingRooms - 1
            /\ handler'[u] = Idle
  BY <1>1 DEF Typed, Reserve, Unreserve, Go, Return
<1>3. handler'[u] \in Handlers BY <1>1, <1>2 DEF Handlers, Idle
<1>4. HandlerMoves(u)
  BY <1>1, <1>2, <1>3
  DEF Reserve, Unreserve, HandlerMoves, Typed, userVars, lanVars, queueVars
<1>5. HandlerOf(u)'
  <2>1. Waiting(u)' <=> Waiting(u) BY <1>4 DEF HandlerMoves, Waiting
  <2>2. QED BY <1>1, <1>2, <1>4, <2>1 DEF HandlerMoves, HandlerOf, Handlers, Idle
<1>6. CountsRight'
  <2> DEFINE c == Cardinality(roomMap)
             n == Cardinality(At({"create", "unreserve"}))
             k == Cardinality(At({"create"}))
  <2>1. /\ usingRooms = c + n /\ c + k <= MaxRooms /\ c <= MaxRooms
        /\ roomMap = {r \in Rooms : room[r].members # {}}
        /\ made + Cardinality(Making) <= MaxMade
    BY DEF IInv, CountsRight, RoomsListed, At
  <2>2. c \in Nat /\ n \in Nat /\ k \in Nat /\ k <= n
    <3>1. roomMap \in SUBSET Rooms BY <2>1
    <3>2. IsFiniteSet(roomMap) BY <3>1, Constants, FS_Subset
    <3>3. At({"create", "unreserve"}) \in SUBSET Users
          /\ At({"create"}) \in SUBSET At({"create", "unreserve"})
      BY DEF At
    <3>4. IsFiniteSet(At({"create", "unreserve"})) BY <3>3, Constants, FS_Subset
    <3>5. Cardinality(At({"create"})) <= Cardinality(At({"create", "unreserve"}))
          /\ IsFiniteSet(At({"create"}))
      BY <3>3, <3>4, FS_Subset
    <3>6. QED BY <3>2, <3>4, <3>5, FS_CardinalityType
  <2>3. /\ handler'[u].act = IF handler[u].at = "reserve" THEN "make" ELSE "none"
        /\ handler[u].act = "make"
        /\ handler[u].at = "reserve" =>
             handler'[u].at = IF usingRooms' > MaxRooms THEN "unreserve" ELSE "create"
        /\ handler[u].at = "unreserve" => handler'[u].at = "idle"
    BY <1>1, <1>2 DEF Handlers, Idle, HandlerOf
  <2>4. /\ Cardinality(Making') \in Nat /\ Cardinality(Making) \in Nat
        /\ Cardinality(Making') <= Cardinality(Making)
    BY <1>1, <1>2, <2>3, HandlerCounts
  <2>5. /\ Cardinality(At({"create", "unreserve"})') \in Nat
        /\ Cardinality(At({"create", "unreserve"})')
             + (IF handler[u].at = "unreserve" THEN 1 ELSE 0)
             = n + (IF handler[u].at = "reserve" THEN 1 ELSE 0)
    <3>1. /\ Cardinality(At({"create", "unreserve"})') \in Nat
          /\ Cardinality(At({"create", "unreserve"})')
               + (IF handler[u].at \in {"create", "unreserve"} THEN 1 ELSE 0)
               = n + (IF handler'[u].at \in {"create", "unreserve"} THEN 1 ELSE 0)
      BY <1>1, <1>2, HandlerCounts
    <3>2. QED BY <1>1, <2>3, <3>1
  <2>6. /\ Cardinality(At({"create"})') \in Nat
        /\ Cardinality(At({"create"})')
             = k + (IF handler'[u].at = "create" THEN 1 ELSE 0)
    <3>1. /\ Cardinality(At({"create"})') \in Nat
          /\ Cardinality(At({"create"})') + (IF handler[u].at \in {"create"} THEN 1 ELSE 0)
               = k + (IF handler'[u].at \in {"create"} THEN 1 ELSE 0)
      BY <1>1, <1>2, HandlerCounts
    <3>2. handler[u].at \notin {"create"} BY <1>1
    <3>3. QED BY <3>1, <3>2
  <2>7. roomMap' = roomMap /\ room' = room /\ made' = made
    BY DEF Reserve, Unreserve
  <2>8. usingRooms' = c + Cardinality(At({"create", "unreserve"})')
    <3>1. CASE handler[u].at = "reserve" BY ONLY <1>2, <2>1, <2>2, <2>5, <3>1
    <3>2. CASE handler[u].at = "unreserve" BY ONLY <1>2, <2>1, <2>2, <2>5, <3>2
    <3>3. QED BY <1>1, <3>1, <3>2
  <2>9. c + Cardinality(At({"create"})') <= MaxRooms
    <3>1. CASE handler'[u].at = "create"
      <4>1. handler[u].at = "reserve" /\ ~(usingRooms' > MaxRooms) BY <1>1, <2>3, <3>1
      <4>2. QED BY ONLY <1>1, <1>2, <2>1, <2>2, <2>6, <3>1, <4>1
    <3>2. CASE handler'[u].at # "create" BY ONLY <2>1, <2>2, <2>6, <3>2
    <3>3. QED BY <3>1, <3>2
  <2>10. made + Cardinality(Making') <= MaxMade
    <3>1. made \in Nat /\ MaxMade \in Nat BY <1>1, Constants DEF Typed
    <3>2. QED BY ONLY <2>1, <2>4, <3>1
  <2>11. RoomsListed' BY <2>1, <2>7, <2>8 DEF RoomsListed, At
  <2>12. QED BY <2>7, <2>9, <2>10, <2>11 DEF CountsRight
<1>7. QED BY <1>4, <1>5, <1>6, HandlerStep

-----------------------------------------------------------------------------
(* A handler posts its job ...                                              *)
LEMMA PostStep == ASSUME IInv, NEW u \in Users, Post(u) PROVE IInv'
<1>1. /\ Typed /\ HandlerOf(u) /\ handler[u] \in Handlers /\ handler[u].at = "post"
      /\ JobsRight /\ HandlersRight /\ MembersRight /\ LanRight
  BY DEF IInv, HandlersRight, Typed, Post
<1>0. PICK r \in Rooms, a \in Acts : r = handler[u].room /\ a = handler[u].act /\ r \in 1 .. made
  <2>1. handler[u].room \in 1 .. made /\ handler[u].act \in Acts
    BY <1>1 DEF HandlerOf, Handlers
  <2>2. made \in 0 .. MaxMade /\ MaxMade \in Nat BY <1>1, Constants DEF Typed
  <2>3. handler[u].room \in Rooms BY <2>1, <2>2 DEF Rooms
  <2>4. QED BY <2>1, <2>3
<1> DEFINE e == [act |-> a, who |-> u]
<1>2. /\ a # "make" /\ ~Waiting(u)
      /\ (a = "enter" => ~joined[u]) /\ (a # "enter" => joined[u] /\ roomNum[u] = r)
  BY <1>0, <1>1 DEF HandlerOf
<1>3. r \in Rooms /\ r <= made
  <2>1. made \in 0 .. MaxMade /\ MaxMade \in Nat BY <1>1, Constants DEF Typed
  <2>2. QED BY <1>0, <2>1 DEF Rooms
<1>4. e \in Jobs BY <1>2 DEF Jobs, UserJobs
<1>5. /\ OneEach' /\ jobs' \in [Rooms -> Seq(Jobs)] /\ executing' \in [Rooms -> BOOLEAN]
      /\ Queued(r)' = Queued(r) \cup {e}
      /\ \A q \in Rooms \ {r} : Queued(q)' = Queued(q)
      /\ \A v : Waiting(v)' <=> Waiting(v) \/ v = u
  <2>1. DoAsync(r, a, u) BY <1>0 DEF Post
  <2>2. OneEach BY <1>1 DEF JobsRight
  <2>3. QED BY <1>1, <1>2, <1>4, <2>1, <2>2, PostedJob
<1>6. /\ handler' = [handler EXCEPT ![u] = handler'[u]]
      /\ handler'[u] = Idle \/ handler'[u] = [handler[u] EXCEPT !.at = "execute"]
  BY <1>1 DEF Typed, Post, Go, Return
<1>7. /\ joined' = joined /\ roomNum' = roomNum /\ ready' = ready /\ room' = room
      /\ made' = made /\ roomMap' = roomMap /\ usingRooms' = usingRooms
      /\ pending' = pending /\ servers' = servers /\ session' = session
      /\ registered' = registered /\ requests' = requests
  BY DEF Post, userVars, roomVars, lanVars
<1>8. handler'[u] \in Handlers BY <1>1, <1>6 DEF Handlers, Idle
<1>9. Typed' BY <1>1, <1>5, <1>6, <1>7, <1>8 DEF Typed
<1>10. JobsRight'
  <2>1. \A q, j : JobRight(q, j)' <=> JobRight(q, j) BY <1>7 DEF JobRight
  <2>2. JobRight(r, e)
    <3>1. a # "enter" => u \in room[r].members
      BY <1>2, NumberKnown
    <3>2. a \notin {"settings", "lan"} BY <1>2 DEF Acts
    <3>3. QED BY <1>2, <1>3, <3>1, <3>2 DEF JobRight
  <2>3. QED BY <1>1, <1>5, <2>1, <2>2 DEF JobsRight
<1>11. HandlersRight'
  <2>1. HandlerOf(u)'
    <3>1. CASE handler'[u] = Idle BY <3>1 DEF HandlerOf, Idle
    <3>2. CASE handler'[u] = [handler[u] EXCEPT !.at = "execute"]
      <4>1. handler'[u].at = "execute" /\ handler'[u].act = a /\ handler'[u].room = r
        BY <1>0, <1>1, <3>2 DEF Handlers
      <4>2. a # "none" BY <1>2 DEF Acts
      <4>3. QED BY <1>0, <1>2, <1>7, <4>1, <4>2 DEF HandlerOf
    <3>3. QED BY <1>6, <3>1, <3>2
  <2>2. ASSUME NEW v \in Users \ {u} PROVE HandlerOf(v)'
    <3>1. handler'[v] = handler[v] BY <1>1, <1>6 DEF Typed
    <3>2. HandlerOf(v) BY <1>1 DEF HandlersRight
    <3>3. Waiting(v)' <=> Waiting(v) BY <1>5
    <3>4. QED BY <1>7, <3>1, <3>2, <3>3 DEF HandlerOf
  <2>3. QED BY <2>1, <2>2 DEF HandlersRight
<1>12. MembersRight'
  <2>1. \A v \in Users : UserRight(v)' BY <1>1, <1>5, <1>7 DEF MembersRight, UserRight
  <2>2. \A q \in Rooms : RoomRight(q)' BY <1>1, <1>7 DEF MembersRight, RoomRight
  <2>3. QED BY <2>1, <2>2 DEF MembersRight
<1>13. CountsRight'
  <2>1. /\ handler'[u].at \notin {"create", "unreserve"} /\ handler[u].at = "post"
        /\ handler'[u].act # "make"
    <3>1. CASE handler'[u] = Idle BY <1>1, <3>1 DEF Idle
    <3>2. CASE handler'[u] = [handler[u] EXCEPT !.at = "execute"]
      BY <1>0, <1>1, <1>2, <3>2 DEF Handlers
    <3>3. QED BY <1>6, <3>1, <3>2
  <2>2. QED BY <1>6, <1>7, <2>1, CountsKept
<1>14. LanRight' BY <1>1, <1>7, LanKept
<1>15. QED BY <1>9, <1>10, <1>11, <1>12, <1>13, <1>14 DEF IInv

(* ... or makes a room.                                                     *)
LEMMA CreateStep == ASSUME IInv, NEW u \in Users, Create(u) PROVE IInv'
<1>1. /\ Typed /\ HandlerOf(u) /\ handler[u] \in Handlers /\ handler[u].at = "create"
      /\ JobsRight /\ HandlersRight /\ MembersRight /\ LanRight /\ CountsRight
  BY DEF IInv, HandlersRight, Typed, Create
<1>2. ~joined[u] /\ ~Waiting(u) /\ handler[u].act = "make" BY <1>1 DEF HandlerOf
<1>3. /\ handler' = [handler EXCEPT ![u] = handler'[u]] /\ handler'[u] = Idle
      /\ Idle \in Handlers /\ Idle.at = "idle" /\ Idle.act = "none"
  BY <1>1 DEF Typed, Create, Return, Idle, Handlers
<1>4. /\ Cardinality(Making) \in Nat /\ Cardinality(Making') \in Nat
      /\ Cardinality(Making') + 1 = Cardinality(Making)
  <2>1. /\ Cardinality(Making) \in Nat /\ Cardinality(Making') \in Nat
        /\ Cardinality(Making') + 1 = Cardinality(Making) + 0
    BY <1>1, <1>2, <1>3, HandlerCounts
  <2>2. QED BY <2>1
<1>5. PICK r \in Rooms : r = made + 1
  <2>1. made \in Nat /\ MaxMade \in Nat /\ made + Cardinality(Making) <= MaxMade
    BY <1>1, Constants DEF Typed, CountsRight
  <2>2. made + 1 \in 1 .. MaxMade BY ONLY <1>4, <2>1
  <2>3. QED BY <2>2 DEF Rooms
<1>6. made \in Nat /\ MaxMade \in Nat /\ made' = made + 1 /\ made' = r
      /\ r \in Nat /\ ~(r <= made) /\ made' <= MaxMade
  <2>1. MaxMade \in Nat BY Constants
  <2>2. made \in 0 .. MaxMade BY <1>1 DEF Typed
  <2>3. made' = made + 1 BY DEF Create
  <2>4. r \in 1 .. MaxMade BY DEF Rooms
  <2>5. QED BY ONLY <1>5, <2>1, <2>2, <2>3, <2>4
<1>7. /\ room' = [room EXCEPT ![r] = OnCreated(u)] /\ roomMap' = roomMap \cup {r}
      /\ joined' = [joined EXCEPT ![u] = TRUE] /\ roomNum' = [roomNum EXCEPT ![u] = r]
      /\ ready' = [ready EXCEPT ![u] = FALSE]
      /\ usingRooms' = usingRooms /\ pending' = pending /\ servers' = servers
      /\ jobs' = jobs /\ executing' = executing /\ session' = session
      /\ registered' = registered /\ requests' = requests
  <2>1. r # NoRoom BY Constants
  <2>2. QED BY <1>6, <2>1 DEF Create, SetRoom, lanVars, queueVars
<1>8. /\ OnCreated(u) \in RoomRecords /\ OnCreated(u).members = {u} /\ OnCreated(u).cur = 1
      /\ OnCreated(u).owner = u /\ OnCreated(u).running = FALSE
  <2>1. OnCreated(u).members = {u} /\ OnCreated(u).cur = 1 BY DEF OnCreated, Unmade
  <2>2. OnCreated(u).owner = u /\ OnCreated(u).running = FALSE BY DEF OnCreated, Unmade
  <2>3. OnCreated(u) \in RoomRecords BY UShortType DEF OnCreated, Unmade, RoomRecords
  <2>4. QED BY <2>1, <2>2, <2>3
<1>9. /\ room[r] = Unmade /\ Unmade.members = {} /\ Unmade.running = FALSE
  BY <1>1, <1>6 DEF MembersRight, RoomRight, Unmade
<1>10. /\ room'[r] = OnCreated(u) /\ \A q \in Rooms \ {r} : room'[q] = room[q]
       /\ joined'[u] = TRUE /\ roomNum'[u] = r
       /\ \A v \in Users \ {u} : joined'[v] = joined[v] /\ roomNum'[v] = roomNum[v]
       /\ \A v \in Users \ {u} : handler'[v] = handler[v]
  BY <1>1, <1>3, <1>7 DEF Typed
<1>11. /\ \A v : Waiting(v)' <=> Waiting(v)
       /\ \A q : Queued(q)' = Queued(q)
  BY <1>7 DEF Waiting, Queued
<1>12. Typed'
  <2>1. roomMap' \subseteq 1 .. made'
    <3>1. roomMap \subseteq 1 .. made /\ r \in 1 .. r /\ \A i \in 1 .. made : i \in 1 .. r
      BY <1>1, <1>5, <1>6 DEF Typed
    <3>2. QED BY <1>6, <1>7, <3>1
  <2>2. made' \in 0 .. MaxMade BY <1>6
  <2>3. QED BY <1>1, <1>3, <1>7, <1>8, <2>1, <2>2 DEF Typed
<1>13. JobsRight'
  <2>1. OneEach' BY <1>1, <1>7 DEF JobsRight, OneEach
  <2>2. ASSUME NEW q \in Rooms, NEW j \in Queued(q) PROVE JobRight(q, j)'
    <3>1. JobRight(q, j) /\ j.who # u /\ j \in Jobs
      BY <1>1, <1>2, Waits, QueuedJobs DEF JobsRight
    <3>2. q # r /\ q <= made' BY <1>6, <3>1 DEF JobRight, Rooms
    <3>3. j.act \in Acts => j.who \in Users \ {u}
      BY <3>1 DEF Jobs, LanJobs, UserJobs, Acts
    <3>4. QED BY <1>7, <1>10, <3>1, <3>2, <3>3 DEF JobRight, Acts
  <2>3. QED BY <1>11, <2>1, <2>2 DEF JobsRight
<1>14. HandlersRight'
  <2>1. HandlerOf(u)' BY <1>3 DEF HandlerOf
  <2>2. ASSUME NEW v \in Users \ {u} PROVE HandlerOf(v)'
    <3>1. HandlerOf(v) BY <1>1 DEF HandlersRight
    <3>2. \A i \in 1 .. made : i \in 1 .. made' BY <1>6
    <3>3. QED BY <1>10, <1>11, <3>1, <3>2 DEF HandlerOf
  <2>3. QED BY <2>1, <2>2 DEF HandlersRight
<1>15. MembersRight'
  <2>1. \A q \in Rooms : u \notin room[q].members
    BY <1>1, <1>2 DEF MembersRight, RoomRight
  <2>2. UserRight(u)' BY <1>8, <1>10, Constants DEF UserRight
  <2>3. ASSUME NEW v \in Users \ {u} PROVE UserRight(v)'
    <3>1. UserRight(v) BY <1>1 DEF MembersRight
    <3>2. roomNum[v] \in Rooms \cup {NoRoom} BY <1>1 DEF Typed
    <3>3. joined[v] /\ roomNum[v] # NoRoom => roomNum[v] # r
      BY <1>9, <3>1 DEF UserRight
    <3>4. QED BY <1>10, <1>11, <3>1, <3>2, <3>3 DEF UserRight
  <2>4. RoomRight(r)'
    <3>1. Cardinality({u}) = 1 BY FS_Singleton
    <3>2. 1 <= RoomSize BY UShortType
    <3>3. 1 <= RoomSize BY <3>2
    <3>4. ~(r > made') BY <1>6
    <3>5. room'[r].members = {u} /\ room'[r].cur = 1 /\ room'[r].owner = u BY <1>8, <1>10
    <3>6. \A p \in Rooms \ {r} : u \notin room'[p].members BY <1>10, <2>1
    <3>7. QED BY <1>10, <3>1, <3>3, <3>4, <3>5, <3>6 DEF RoomRight
  <2>5. ASSUME NEW q \in Rooms \ {r} PROVE RoomRight(q)'
    <3>1. RoomRight(q) BY <1>1 DEF MembersRight
    <3>2. q > made' => q > made BY <1>6 DEF Rooms
    <3>3. \A v \in room[q].members : v \in Users \ {u}
      <4>1. room[q] \in RoomRecords BY <1>1 DEF Typed
      <4>2. room[q].members \in SUBSET Users BY <4>1 DEF RoomRecords
      <4>3. QED BY <2>1, <4>2
    <3>4. \A v \in room[q].members : \A p \in Rooms \ {q} : v \notin room'[p].members
      BY <1>8, <1>10, <3>1, <3>3 DEF RoomRight
    <3>5. QED BY <1>10, <3>1, <3>2, <3>3, <3>4 DEF RoomRight
  <2>6. QED BY <2>2, <2>3, <2>4, <2>5 DEF MembersRight
<1>16. CountsRight'
  <2>1. /\ roomMap = {q \in Rooms : room[q].members # {}}
        /\ usingRooms = Cardinality(roomMap) + Cardinality(At({"create", "unreserve"}))
        /\ Cardinality(roomMap) + Cardinality(At({"create"})) <= MaxRooms
        /\ made + Cardinality(Making) <= MaxMade
    BY <1>1 DEF CountsRight, RoomsListed, At
  <2>2. /\ Cardinality(roomMap) \in Nat /\ MaxRooms \in Nat
        /\ Cardinality(roomMap') = Cardinality(roomMap) + 1
    <3>1. roomMap \in SUBSET Rooms /\ r \notin roomMap BY <1>9, <2>1
    <3>2. IsFiniteSet(roomMap) BY <3>1, Constants, FS_Subset
    <3>3. Cardinality(roomMap \cup {r}) = Cardinality(roomMap) + 1
      BY <3>1, <3>2, FS_AddElement
    <3>4. Cardinality(roomMap) \in Nat /\ MaxRooms \in Nat
      BY <3>2, Constants, FS_CardinalityType
    <3>5. QED BY <1>7, <3>3, <3>4
  <2>3. roomMap' = {q \in Rooms : room'[q].members # {}}
    BY <1>7, <1>8, <1>10, <2>1
  <2>4. /\ Cardinality(At({"create", "unreserve"})) \in Nat
        /\ Cardinality(At({"create", "unreserve"})') \in Nat
        /\ Cardinality(At({"create", "unreserve"})') + 1
             = Cardinality(At({"create", "unreserve"}))
    <3>1. handler[u].at \in {"create", "unreserve"} /\ handler'[u].at \notin {"create", "unreserve"}
      BY <1>1, <1>3
    <3>2. /\ Cardinality(At({"create", "unreserve"})) \in Nat
          /\ Cardinality(At({"create", "unreserve"})') \in Nat
          /\ Cardinality(At({"create", "unreserve"})') + 1
               = Cardinality(At({"create", "unreserve"})) + 0
      BY <1>1, <1>3, <3>1, HandlerCounts
    <3>3. QED BY <3>2
  <2>5. /\ Cardinality(At({"create"})) \in Nat /\ Cardinality(At({"create"})') \in Nat
        /\ Cardinality(At({"create"})') + 1 = Cardinality(At({"create"}))
    <3>1. handler[u].at \in {"create"} /\ handler'[u].at \notin {"create"}
      BY <1>1, <1>3
    <3>2. /\ Cardinality(At({"create"})) \in Nat /\ Cardinality(At({"create"})') \in Nat
          /\ Cardinality(At({"create"})') + 1 = Cardinality(At({"create"})) + 0
      BY <1>1, <1>3, <3>1, HandlerCounts
    <3>3. QED BY <3>2
  <2>6. usingRooms' = Cardinality(roomMap') + Cardinality(At({"create", "unreserve"})')
    <3>1. usingRooms' = usingRooms BY <1>7
    <3>2. QED BY ONLY <2>1, <2>2, <2>4, <3>1
  <2>7. /\ Cardinality(roomMap') + Cardinality(At({"create"})') <= MaxRooms
        /\ Cardinality(roomMap') <= MaxRooms
    BY ONLY <2>1, <2>2, <2>5
  <2>8. made' + Cardinality(Making') <= MaxMade BY ONLY <1>4, <1>6, <2>1
  <2>9. RoomsListed' BY <2>3, <2>6, <2>7 DEF RoomsListed, At
  <2>10. QED BY <2>7, <2>8, <2>9 DEF CountsRight
<1>17. LanRight'
  <2>1. \A q \in Rooms : /\ room'[q].running = room[q].running
                         /\ room[q].running => room'[q] = room[q]
    BY <1>8, <1>9, <1>10
  <2>2. /\ Launched' = Launched /\ Running' = Running
        /\ \A q : Given(q)' = Given(q) /\ (Listed(q)' <=> Listed(q))
    BY <1>7, <2>1 DEF Launched, Running, Given, Listed
  <2>3. pending \in Seq(Rooms) /\ \A i \in 1 .. Len(pending) : pending[i] \in Rooms
    BY <1>1 DEF Typed
  <2>4. \A g \in Servers : ServerRight(g)'
    <3> SUFFICES ASSUME NEW g \in Servers PROVE ServerRight(g)' OBVIOUS
    <3>1. ServerRight(g) /\ servers[g].room \in Rooms \cup {NoRoom}
      <4>1. servers[g] \in ServerRecords BY <1>1 DEF Typed
      <4>2. servers[g].room \in Rooms \cup {NoRoom} BY <4>1 DEF ServerRecords
      <4>3. QED BY <1>1, <4>2 DEF LanRight
    <3>2. servers[g].room # NoRoom => room'[servers[g].room] = room[servers[g].room]
      BY <2>1, <3>1 DEF ServerRight
    <3>3. QED BY <1>7, <3>1, <3>2 DEF ServerRight
  <2>5. \A q \in Rooms : room'[q].running /\ room'[q].members # {} => Matched(q)'
    BY <1>1, <2>1, <2>2 DEF LanRight, Matched
  <2>6. IsInjective(pending)' BY <1>1, <1>7 DEF LanRight, IsInjective
  <2>7. \A i \in 1 .. Len(pending') : room'[pending'[i]].running
    BY <1>1, <1>7, <2>1, <2>3 DEF LanRight
  <2>8. QED BY <1>1, <2>2, <2>4, <2>5, <2>6, <2>7 DEF LanRight
<1>18. QED BY <1>12, <1>13, <1>14, <1>15, <1>16, <1>17 DEF IInv

-----------------------------------------------------------------------------
(* Jobs.  A job that has run is gone, and the handler that posted it, if it *)
(* waits for it, may go on.                                                 *)
LEMMA JobDone ==
  ASSUME IInv, NEW r \in Rooms, jobs[r] # <<>>, NEW j, j = Head(jobs[r]), NEW w, w = j.who,
         Executed(r)
  PROVE  /\ OneEach' /\ jobs' \in [Rooms -> Seq(Jobs)]
         /\ j \in Jobs /\ j \in Queued(r) /\ JobRight(r, j) /\ Waiting(w) /\ ~Waiting(w)'
         /\ \A q \in Rooms : \A i \in Queued(q)' : i \in Queued(q) /\ i.who # w
         /\ \A v : v # w => (Waiting(v)' <=> Waiting(v))
         /\ made' = made /\ session' = session /\ executing' = executing
         /\ requests' = requests
<1>1. Typed /\ OneEach BY DEF IInv, JobsRight
<1>2. jobs' = [jobs EXCEPT ![r] = Tail(@)] BY DEF Executed
<1>3. w = Head(jobs[r]).who OBVIOUS
<1>4. /\ OneEach' /\ jobs' \in [Rooms -> Seq(Jobs)] /\ Head(jobs[r]) \in Queued(r)
      /\ \A q \in Rooms : \A i \in Queued(q)' : i \in Queued(q) /\ i.who # w
      /\ ~Waiting(w)' /\ Waiting(w)
      /\ \A v : v # w => (Waiting(v)' <=> Waiting(v))
  BY <1>1, <1>2, <1>3, DoneJob
<1>5. j \in Jobs /\ JobRight(r, j)
  <2>1. j \in Queued(r) BY <1>4
  <2>2. QED BY <1>1, <2>1, QueuedJobs DEF IInv, JobsRight
<1>6. QED BY <1>4, <1>5 DEF Executed

LEMMA JobHandlers ==
  ASSUME IInv, NEW r \in Rooms, jobs[r] # <<>>, NEW w, w = Head(jobs[r]).who, Executed(r)
  PROVE  /\ handler' \in [Users -> Handlers]
         /\ \A v \in Users : v # w => handler'[v] = handler[v]
         /\ w \in Users =>
              /\ handler[w].at \in {"idle", "execute"}
              /\ handler'[w].at \in {handler[w].at, "executed"}
              /\ handler'[w].at = "executed" => handler[w].at = "execute"
              /\ handler'[w].act = handler[w].act /\ handler'[w].room = handler[w].room
<1>1. /\ handler \in [Users -> Handlers]
      /\ \/ handler' = handler
         \/ /\ w \in Users /\ handler[w].at = "execute"
            /\ handler' = [handler EXCEPT ![w].at = "executed"]
  BY DEF IInv, Typed, Executed
<1>2. w \in Users => handler[w].at \in {"idle", "execute"}
  <2> SUFFICES ASSUME w \in Users PROVE handler[w].at \in {"idle", "execute"} OBVIOUS
  <2>1. Waiting(w) BY JobDone
  <2>2. HandlerOf(w) BY DEF IInv, HandlersRight
  <2>3. QED BY <2>1, <2>2 DEF HandlerOf
<1>3. CASE handler' = handler BY <1>1, <1>2, <1>3
<1>4. CASE /\ w \in Users /\ handler[w].at = "execute"
           /\ handler' = [handler EXCEPT ![w].at = "executed"]
  <2>1. handler[w] \in Handlers BY <1>1, <1>4
  <2>2. [handler[w] EXCEPT !.at = "executed"] \in Handlers BY <2>1 DEF Handlers
  <2>3. handler' = [handler EXCEPT ![w] = [handler[w] EXCEPT !.at = "executed"]]
    BY <1>1, <1>4
  <2>4. handler'[w] = [handler[w] EXCEPT !.at = "executed"] BY <1>1, <1>4, <2>3
  <2>5. /\ handler'[w].at = "executed" /\ handler'[w].act = handler[w].act
        /\ handler'[w].room = handler[w].room
    BY <2>1, <2>4 DEF Handlers
  <2>6. handler' \in [Users -> Handlers] /\ \A v \in Users : v # w => handler'[v] = handler[v]
    BY <1>1, <1>4, <2>2, <2>3
  <2>7. QED BY <1>4, <2>5, <2>6
<1>5. QED BY <1>1, <1>3, <1>4

LEMMA JobHandlersRight ==
  ASSUME IInv, NEW r \in Rooms, jobs[r] # <<>>, NEW w, w = Head(jobs[r]).who, Executed(r),
         \A v \in Users : v # w => joined'[v] = joined[v] /\ roomNum'[v] = roomNum[v]
  PROVE  HandlersRight'
<1>1. /\ ~Waiting(w)' /\ made' = made
      /\ \A v : v # w => (Waiting(v)' <=> Waiting(v))
  BY JobDone
<1>2. /\ \A v \in Users : v # w => handler'[v] = handler[v]
      /\ w \in Users =>
              /\ handler[w].at \in {"idle", "execute"}
              /\ handler'[w].at \in {handler[w].at, "executed"}
              /\ handler'[w].at = "executed" => handler[w].at = "execute"
              /\ handler'[w].act = handler[w].act /\ handler'[w].room = handler[w].room
  BY JobHandlers
<1>3. ASSUME NEW v \in Users PROVE HandlerOf(v)'
  <2>1. HandlerOf(v) BY DEF IInv, HandlersRight
  <2>2. CASE v # w
    <3>1. handler'[v] = handler[v] /\ (Waiting(v)' <=> Waiting(v)) BY <1>1, <1>2, <2>2
    <3>2. QED BY <1>1, <2>1, <2>2, <3>1 DEF HandlerOf
  <2>3. CASE v = w
    <3>1. /\ handler[v].at \in {"idle", "execute"}
          /\ handler'[v].at \in {handler[v].at, "executed"}
          /\ handler'[v].at = "executed" => handler[v].at = "execute"
          /\ handler'[v].act = handler[v].act /\ handler'[v].room = handler[v].room
          /\ ~Waiting(v)'
      BY <1>1, <1>2, <2>3
    <3>2. QED BY <1>1, <2>1, <3>1 DEF HandlerOf
  <2>4. QED BY <2>2, <2>3
<1>4. QED BY <1>3 DEF HandlersRight

(* The three counts of handlers do not change.                              *)
LEMMA JobAt ==
  ASSUME IInv, NEW r \in Rooms, jobs[r] # <<>>, Executed(r)
  PROVE  /\ At({"create", "unreserve"})' = At({"create", "unreserve"})
         /\ At({"create"})' = At({"create"}) /\ Making' = Making
<1>1. PICK w : w = Head(jobs[r]).who OBVIOUS
<1>2. /\ \A v \in Users : v # w => handler'[v] = handler[v]
      /\ w \in Users =>
              /\ handler[w].at \in {"idle", "execute"}
              /\ handler'[w].at \in {handler[w].at, "executed"}
              /\ handler'[w].act = handler[w].act
  BY <1>1, JobHandlers
<1>3. \A v \in Users :
        /\ handler'[v].act = handler[v].act
        /\ handler'[v].at = handler[v].at \/ {handler[v].at, handler'[v].at} \subseteq {"execute", "executed", "idle"}
  BY <1>2
<1>4. \A v \in Users : /\ handler'[v].at = "create" <=> handler[v].at = "create"
                       /\ handler'[v].at = "unreserve" <=> handler[v].at = "unreserve"
  BY <1>3
<1>5. QED BY <1>3, <1>4 DEF At, Making

(* The jobs of others.                                                      *)
LEMMA OthersJobs ==
  ASSUME IInv, NEW w, OneEach', made' = made,
         \A q \in Rooms : \A i \in Queued(q)' : i \in Queued(q) /\ i.who # w,
         \A v \in Users : v # w =>
           /\ joined'[v] = joined[v] /\ roomNum'[v] = roomNum[v]
           /\ \A q \in Rooms : v \in room[q].members => v \in room'[q].members,
         \A g \in Servers : g # w /\ servers[g].at \in {"asked", "announced"} =>
           servers'[g].at = servers[g].at /\ servers'[g].room = servers[g].room
  PROVE  JobsRight'
<1>1. ASSUME NEW q \in Rooms, NEW i \in Queued(q)' PROVE JobRight(q, i)'
  <2>1. i \in Queued(q) /\ i.who # w OBVIOUS
  <2>2. JobRight(q, i) /\ i \in Jobs BY <2>1, QueuedJobs DEF IInv, JobsRight
  <2>3. CASE i \in UserJobs
    <3>1. i.who \in Users /\ i.act \in Acts BY <2>3 DEF UserJobs
    <3>2. i.act \notin {"settings", "lan"} BY <3>1 DEF Acts
    <3>3. QED BY <2>1, <2>2, <3>1, <3>2 DEF JobRight
  <2>4. CASE i \in LanJobs
    <3>1. i.who \in Servers /\ i.act \in {"settings", "lan"} BY <2>4 DEF LanJobs
    <3>2. QED BY <2>1, <2>2, <3>1 DEF JobRight
  <2>5. QED BY <2>2, <2>3, <2>4 DEF Jobs
<1>2. QED BY <1>1 DEF JobsRight

(* What a job that changes only room r, and of the users only w, keeps.     *)
LEMMA RoomType ==
  ASSUME Typed, NEW r \in Rooms
  PROVE  /\ room[r] \in RoomRecords /\ room[r].members \in SUBSET Users
         /\ room[r].cur \in UShorts /\ room[r].readyCnt \in UShorts
         /\ room[r].running \in BOOLEAN /\ room[r].owner \in Users \cup {"none"}
         /\ IsFiniteSet(room[r].members) /\ Cardinality(room[r].members) \in Nat
<1>1. room[r] \in RoomRecords BY DEF Typed
<1>2. /\ room[r].members \in SUBSET Users
      /\ room[r].cur \in UShorts /\ room[r].readyCnt \in UShorts
      /\ room[r].running \in BOOLEAN /\ room[r].owner \in Users \cup {"none"}
  BY <1>1 DEF RoomRecords
<1>3. IsFiniteSet(room[r].members) BY <1>2, Constants, FS_Subset
<1>4. QED BY <1>1, <1>2, <1>3, FS_CardinalityType

(* Of the users only w moves, and of the rooms only r changes, to R.        *)
Moves(r, w, R) ==
  /\ \A v \in Users : v # w => joined'[v] = joined[v] /\ roomNum'[v] = roomNum[v]
  /\ R.members \ {w} = room[r].members \ {w}
  /\ R.cur = Cardinality(R.members) /\ R.cur <= RoomSize
  /\ R.members # {} => R.owner \in R.members
  /\ \A q \in Rooms \ {r} : w \notin room[q].members
  /\ w \in R.members => joined'[w] /\ roomNum'[w] \in {r, NoRoom}
  /\ joined'[w] => w \in R.members /\ roomNum'[w] = r

LEMMA JobMembers ==
  ASSUME IInv, NEW r \in Rooms, r <= made, made' = made, NEW w \in Users, NEW R \in RoomRecords,
         room' = [room EXCEPT ![r] = R],
         \A v : v # w => (Waiting(v)' <=> Waiting(v)),
         Moves(r, w, R)
  PROVE  MembersRight'
<1>0. /\ \A v \in Users : v # w => joined'[v] = joined[v] /\ roomNum'[v] = roomNum[v]
      /\ R.members \ {w} = room[r].members \ {w}
      /\ R.cur = Cardinality(R.members) /\ R.cur <= RoomSize
      /\ R.members # {} => R.owner \in R.members
      /\ \A q \in Rooms \ {r} : w \notin room[q].members
      /\ w \in R.members => joined'[w] /\ roomNum'[w] \in {r, NoRoom}
      /\ joined'[w] => w \in R.members /\ roomNum'[w] = r
  BY DEF Moves
<1>1. /\ room'[r] = R /\ \A q \in Rooms \ {r} : room'[q] = room[q]
      /\ \A q \in Rooms : RoomRight(q) /\ room[q].members \in SUBSET Users
  BY RoomType DEF IInv, Typed, MembersRight
<1>2. R.members \in SUBSET Users BY DEF RoomRecords
<1>3. ASSUME NEW v \in Users PROVE UserRight(v)'
  <2>1. CASE v = w BY <1>0, <1>1, <2>1, Constants DEF UserRight
  <2>2. CASE v # w
    <3>1. UserRight(v) /\ roomNum[v] \in Rooms \cup {NoRoom} BY DEF IInv, MembersRight, Typed
    <3>2. \A q \in Rooms : v \in room[q].members => v \in room'[q].members
      BY <1>0, <1>1, <2>2
    <3>3. joined'[v] = joined[v] /\ roomNum'[v] = roomNum[v] /\ (Waiting(v)' <=> Waiting(v))
      BY <1>0, <2>2
    <3>4. QED BY <1>0, <3>1, <3>2, <3>3 DEF UserRight
  <2>3. QED BY <2>1, <2>2
<1>4. RoomRight(r)'
  <2>1. ~(r > made')
    <3>1. made \in 0 .. MaxMade /\ MaxMade \in Nat BY Constants DEF IInv, Typed
    <3>2. QED BY <3>1 DEF Rooms
  <2>2. ASSUME NEW v \in R.members
        PROVE  /\ joined'[v] /\ roomNum'[v] \in {r, NoRoom}
               /\ \A q \in Rooms \ {r} : v \notin room'[q].members
    <3>1. CASE v = w BY <1>0, <1>1, <2>2, <3>1
    <3>2. CASE v # w
      <4>1. v \in room[r].members /\ v \in Users BY <1>0, <1>2, <2>2, <3>2
      <4>2. joined[v] /\ roomNum[v] \in {r, NoRoom}
            /\ \A q \in Rooms \ {r} : v \notin room[q].members
        BY <1>1, <4>1 DEF RoomRight
      <4>3. QED BY <1>0, <1>1, <3>2, <4>1, <4>2
    <3>3. QED BY <3>1, <3>2
  <2>3. QED BY <1>0, <1>1, <2>1, <2>2 DEF RoomRight
<1>5. ASSUME NEW q \in Rooms \ {r} PROVE RoomRight(q)'
  <2>1. RoomRight(q) /\ room'[q] = room[q] BY <1>1
  <2>2. ASSUME NEW v \in room[q].members
        PROVE  /\ joined'[v] /\ roomNum'[v] \in {q, NoRoom}
               /\ \A p \in Rooms \ {q} : v \notin room'[p].members
    <3>1. v # w /\ v \in Users BY <1>0, <1>1, <2>2
    <3>2. joined[v] /\ roomNum[v] \in {q, NoRoom}
          /\ \A p \in Rooms \ {q} : v \notin room[p].members
      BY <2>1, <2>2 DEF RoomRight
    <3>3. \A p \in Rooms : v \in room'[p].members => v \in room[p].members
      BY <1>0, <1>1, <3>1
    <3>4. QED BY <1>0, <3>1, <3>2, <3>3
  <2>3. QED BY <2>1, <2>2 DEF RoomRight
<1>6. QED BY <1>3, <1>4, <1>5 DEF MembersRight

LEMMA JobCounts ==
  ASSUME IInv, NEW r \in Rooms, jobs[r] # <<>>, Executed(r), made' = made, NEW R,
         room' = [room EXCEPT ![r] = R],
         \/ /\ R.members # {} <=> room[r].members # {}
            /\ roomMap' = roomMap /\ usingRooms' = usingRooms
         \/ /\ R.members = {} /\ room[r].members # {}
            /\ roomMap' = roomMap \ {r} /\ usingRooms' = usingRooms - 1
  PROVE  CountsRight' /\ roomMap' \subseteq roomMap
<1>1. /\ At({"create", "unreserve"})' = At({"create", "unreserve"})
      /\ At({"create"})' = At({"create"}) /\ Making' = Making
  BY JobAt
<1>2. /\ roomMap = {q \in Rooms : room[q].members # {}}
      /\ usingRooms = Cardinality(roomMap) + Cardinality(At({"create", "unreserve"}))
      /\ Cardinality(roomMap) + Cardinality(At({"create"})) <= MaxRooms
      /\ Cardinality(roomMap) <= MaxRooms
      /\ made + Cardinality(Making) <= MaxMade
  BY DEF IInv, CountsRight, RoomsListed, At
<1>3. room'[r] = R /\ \A q \in Rooms \ {r} : room'[q] = room[q] BY DEF IInv, Typed
<1>4. /\ IsFiniteSet(roomMap) /\ Cardinality(roomMap) \in Nat /\ MaxRooms \in Nat
      /\ Cardinality(At({"create", "unreserve"})) \in Nat /\ Cardinality(At({"create"})) \in Nat
  <2>1. roomMap \in SUBSET Rooms BY <1>2
  <2>2. At({"create", "unreserve"}) \in SUBSET Users /\ At({"create"}) \in SUBSET Users BY DEF At
  <2>3. /\ IsFiniteSet(roomMap) /\ IsFiniteSet(At({"create", "unreserve"}))
        /\ IsFiniteSet(At({"create"}))
    BY <2>1, <2>2, Constants, FS_Subset
  <2>4. QED BY <2>3, Constants, FS_CardinalityType
<1>5. roomMap' = {q \in Rooms : room'[q].members # {}} BY <1>2, <1>3
<1>6. \/ roomMap' = roomMap /\ usingRooms' = usingRooms
      \/ Cardinality(roomMap') = Cardinality(roomMap) - 1 /\ usingRooms' = usingRooms - 1
  <2>1. CASE roomMap' = roomMap /\ usingRooms' = usingRooms BY <2>1
  <2>2. CASE /\ room[r].members # {}
             /\ roomMap' = roomMap \ {r} /\ usingRooms' = usingRooms - 1
    <3>1. r \in roomMap BY <1>2, <2>2
    <3>2. Cardinality(roomMap \ {r}) = Cardinality(roomMap) - 1
      BY <1>4, <3>1, FS_RemoveElement
    <3>3. QED BY <2>2, <3>2
  <2>3. QED BY <2>1, <2>2
<1>7. /\ usingRooms' = Cardinality(roomMap') + Cardinality(At({"create", "unreserve"}))
      /\ Cardinality(roomMap') + Cardinality(At({"create"})) <= MaxRooms
      /\ Cardinality(roomMap') <= MaxRooms
  <2>1. CASE roomMap' = roomMap /\ usingRooms' = usingRooms BY <1>2, <2>1
  <2>2. CASE Cardinality(roomMap') = Cardinality(roomMap) - 1 /\ usingRooms' = usingRooms - 1
    BY ONLY <1>2, <1>4, <2>2
  <2>3. QED BY <1>6, <2>1, <2>2
<1>8. RoomsListed' BY <1>1, <1>5, <1>7 DEF RoomsListed, At
<1>9. QED BY <1>1, <1>2, <1>7, <1>8 DEF CountsRight

(* The list and the servers, when no game starts ...                        *)
LEMMA LanSame ==
  ASSUME IInv, pending' = pending, servers' = servers,
         \A q \in Rooms : /\ room'[q].running <=> room[q].running
                          /\ room[q].running =>
                               /\ Cardinality(room'[q].members) <= Cardinality(room[q].members)
                               /\ Cardinality(room'[q].members) \in Nat
                               /\ room'[q].members # {} => room[q].members # {}
  PROVE  LanRight'
<1>1. /\ Launched' = Launched /\ Running' = Running
      /\ \A r : Given(r)' = Given(r) /\ (Listed(r)' <=> Listed(r))
  BY DEF Launched, Running, Given, Listed
<1>2. ASSUME NEW g \in Servers PROVE ServerRight(g)'
  <2>1. /\ ServerRight(g) /\ servers[g] \in ServerRecords /\ servers'[g] = servers[g]
    BY DEF IInv, LanRight, Typed
  <2>2. servers[g].room \in Rooms \cup {NoRoom} /\ servers[g].required \in UShorts
    BY <2>1 DEF ServerRecords
  <2>3. CASE servers[g].room = NoRoom BY <2>1, <2>3 DEF ServerRight
  <2>4. CASE servers[g].room # NoRoom
    <3>1. PICK q \in Rooms : q = servers[g].room BY <2>2, <2>4
    <3>2. room[q].running BY <2>1, <2>4, <3>1 DEF ServerRight
    <3>3. /\ room'[q].running /\ Cardinality(room'[q].members) \in Nat
          /\ Cardinality(room'[q].members) <= Cardinality(room[q].members)
      BY <3>2
    <3>4. servers[g].required \in Nat /\ Cardinality(room[q].members) \in Nat
      BY <2>2, RoomType, UShortType DEF IInv
    <3>5. servers[g].required >= Cardinality(room[q].members) =>
            servers[g].required >= Cardinality(room'[q].members)
      BY ONLY <3>3, <3>4
    <3>6. QED BY <2>1, <2>4, <3>1, <3>3, <3>5 DEF ServerRight
  <2>5. QED BY <2>3, <2>4
<1>3. \A r : Matched(r)' <=> Matched(r) BY <1>1 DEF Matched
<1>4. IsInjective(pending)' BY DEF IInv, LanRight, IsInjective
<1>5. \A i \in 1 .. Len(pending') : room'[pending'[i]].running
  <2>1. pending \in Seq(Rooms) /\ \A i \in 1 .. Len(pending) : room[pending[i]].running
    BY DEF IInv, Typed, LanRight
  <2>2. \A i \in 1 .. Len(pending) : pending[i] \in Rooms BY <2>1
  <2>3. QED BY <2>1, <2>2
<1>6. \A r \in Rooms : room'[r].running /\ room'[r].members # {} => Matched(r)'
  BY <1>3 DEF IInv, LanRight
<1>7. QED BY <1>1, <1>2, <1>4, <1>5, <1>6 DEF IInv, LanRight

(* ... and when the one of r does.  It has no server yet, and one of the    *)
(* servers, as there is one for each room, is not launched yet.             *)
LEMMA LanStart ==
  ASSUME IInv, NEW r \in Rooms, NEW R, room' = [room EXCEPT ![r] = R],
         room[r].running = FALSE, R.running = TRUE, OnGameStart(r)
  PROVE  /\ LanRight' /\ servers' \in [Servers -> ServerRecords] /\ pending' \in Seq(Rooms)
         /\ \A g \in Servers : servers[g].at # "off" => servers'[g] = servers[g]
<1> DEFINE n == Cardinality(Running)
<1>1. /\ servers \in [Servers -> ServerRecords] /\ pending \in Seq(Rooms)
      /\ Launched = 1 .. n /\ \A g \in Servers : ServerRight(g)
  BY DEF IInv, Typed, LanRight
<1>2. /\ room'[r] = R /\ \A q \in Rooms \ {r} : room'[q] = room[q]
  BY DEF IInv, Typed
<1>3. /\ r \notin Running /\ Running' = Running \cup {r} /\ IsFiniteSet(Running)
      /\ n \in Nat /\ Cardinality(Running') = n + 1 /\ n + 1 <= MaxMade
  <2>1. r \notin Running /\ Running' = Running \cup {r} BY <1>2 DEF Running
  <2>2. Running \in SUBSET Rooms /\ Running' \in SUBSET Rooms BY DEF Running
  <2>3. IsFiniteSet(Running) BY <2>2, Constants, FS_Subset
  <2>4. Cardinality(Running \cup {r}) = n + 1 BY <2>1, <2>3, FS_AddElement
  <2>5. Cardinality(Running') <= Cardinality(Rooms) BY <2>2, Constants, FS_Subset
  <2>6. n \in Nat BY <2>3, FS_CardinalityType
  <2>7. Cardinality(Running') = n + 1 BY <2>1, <2>4
  <2>8. QED BY <2>1, <2>3, <2>5, <2>6, <2>7, Constants
<1>4. PICK h \in Servers : h = n + 1
  <2>1. MaxMade \in Nat BY Constants
  <2>2. n + 1 \in 1 .. MaxMade BY ONLY <1>3, <2>1
  <2>3. QED BY <2>2 DEF Servers
<1>5. /\ servers' = [servers EXCEPT ![h].at = "asking"] /\ pending' = Append(pending, r)
  <2>1. Cardinality(1 .. n) = n
    <3>1. 1 \in Int /\ n \in Int BY <1>3
    <3>2. Cardinality(1 .. n) = IF 1 > n THEN 0 ELSE n - 1 + 1 BY <3>1, FS_Interval
    <3>3. QED BY ONLY <1>3, <3>2
  <2>2. Cardinality({g \in Servers : servers[g].at # "off"}) = n
    BY <1>1, <2>1 DEF Launched
  <2>3. QED BY <1>4, <2>2 DEF OnGameStart
<1>6. /\ servers[h].at = "off" /\ servers[h].room = NoRoom /\ h \notin Launched
      /\ servers[h] \in ServerRecords
  <2>1. h \notin 1 .. n BY <1>3, <1>4
  <2>2. servers[h].at = "off" BY <1>1, <2>1 DEF Launched
  <2>3. QED BY <1>1, <2>1, <2>2 DEF ServerRight
<1>7. /\ servers'[h] = [servers[h] EXCEPT !.at = "asking"]
      /\ servers'[h].at = "asking" /\ servers'[h].room = NoRoom /\ servers'[h] \in ServerRecords
      /\ \A g \in Servers : g # h => servers'[g] = servers[g]
      /\ servers' \in [Servers -> ServerRecords]
  <2>1. servers'[h] = [servers[h] EXCEPT !.at = "asking"] BY <1>1, <1>5
  <2>2. servers'[h].at = "asking" /\ servers'[h].room = NoRoom /\ servers'[h] \in ServerRecords
    BY <1>6, <2>1 DEF ServerRecords
  <2>3. servers' = [servers EXCEPT ![h] = servers'[h]] BY <1>1, <1>5, <2>1
  <2>4. QED BY <1>1, <2>1, <2>2, <2>3
<1>8. Launched' = 1 .. Cardinality(Running')
  <2>1. Launched' = Launched \cup {h} BY <1>6, <1>7 DEF Launched
  <2>2. \A i \in Int : i \in 1 .. n + 1 <=> i \in 1 .. n \/ i = n + 1 BY <1>3
  <2>3. \A i : i \in 1 .. n + 1 <=> i \in 1 .. n \/ i = n + 1 BY <1>3, <2>2
  <2>4. 1 .. n + 1 = (1 .. n) \cup {n + 1} BY <2>3
  <2>5. QED BY <1>1, <1>3, <1>4, <2>1, <2>4
<1>9. PICK m \in Nat : m = Len(pending) BY <1>1
<1>10. /\ pending' \in Seq(Rooms) /\ Len(pending') = m + 1
       /\ \A i \in 1 .. m : pending'[i] = pending[i] /\ pending[i] \in Rooms
       /\ pending'[m + 1] = r
  BY <1>1, <1>5, <1>9, AddJob
<1>11. \A i \in Int : i \in 1 .. m + 1 <=> i \in 1 .. m \/ i = m + 1 BY <1>9
<1>12. \A i \in 1 .. m : room[pending[i]].running /\ pending[i] # r
  BY <1>9 DEF IInv, LanRight
<1>13. /\ Listed(r)' /\ \A q \in Rooms : q # r => (Listed(q)' <=> Listed(q))
  <2>1. \A q : Listed(q)' <=> Listed(q) \/ q = r
    BY <1>9, <1>10, <1>11 DEF Listed
  <2>2. QED BY <2>1
<1>14. Given(r) = {} /\ \A q \in Rooms : Given(q)' = Given(q)
  <2>1. r # NoRoom /\ \A q \in Rooms : q # NoRoom BY Constants
  <2>2. Given(r) = {} BY <1>1, <2>1 DEF Given, ServerRight
  <2>3. ASSUME NEW q \in Rooms PROVE Given(q)' = Given(q)
    <3>1. q # NoRoom BY <2>1
    <3>2. \A g \in Servers : servers'[g].room = q <=> servers[g].room = q
      BY <1>6, <1>7, <3>1
    <3>3. QED BY <3>2 DEF Given
  <2>4. QED BY <2>2, <2>3
<1>15. IsInjective(pending')
  <2>1. DOMAIN pending' = 1 .. m + 1 /\ DOMAIN pending = 1 .. m
    BY <1>1, <1>9, <1>10
  <2>2. \A i, j \in 1 .. m : pending[i] = pending[j] => i = j
    BY <2>1 DEF IInv, LanRight, IsInjective
  <2>3. ASSUME NEW i \in 1 .. m + 1, NEW j \in 1 .. m + 1, pending'[i] = pending'[j]
        PROVE  i = j
    <3>1. /\ i \in 1 .. m \/ i = m + 1
          /\ j \in 1 .. m \/ j = m + 1
      BY <1>11
    <3>2. CASE i \in 1 .. m /\ j \in 1 .. m BY <1>10, <2>2, <2>3, <3>2
    <3>3. CASE i \in 1 .. m /\ j = m + 1 BY <1>10, <1>12, <2>3, <3>3
    <3>4. CASE i = m + 1 /\ j \in 1 .. m BY <1>10, <1>12, <2>3, <3>4
    <3>5. QED BY <3>1, <3>2, <3>3, <3>4
  <2>4. QED BY <2>1, <2>3 DEF IsInjective
<1>16. \A i \in 1 .. Len(pending') : room'[pending'[i]].running
  <2>1. ASSUME NEW i \in 1 .. m + 1 PROVE room'[pending'[i]].running
    <3>1. CASE i = m + 1 BY <1>2, <1>10, <3>1
    <3>2. CASE i \in 1 .. m BY <1>2, <1>10, <1>12, <3>2
    <3>3. QED BY <1>11, <3>1, <3>2
  <2>2. QED BY <1>10, <2>1
<1>17. ASSUME NEW g \in Servers PROVE ServerRight(g)'
  <2>1. CASE g = h BY <1>7, <2>1 DEF ServerRight
  <2>2. CASE g # h
    <3>1. servers'[g] = servers[g] /\ ServerRight(g) /\ servers[g] \in ServerRecords
      BY <1>1, <1>7, <2>2
    <3>2. servers[g].room \in Rooms \cup {NoRoom} BY <3>1 DEF ServerRecords
    <3>3. servers[g].room # NoRoom => room'[servers[g].room] = room[servers[g].room]
      BY <1>2, <3>1, <3>2 DEF ServerRight
    <3>4. QED BY <3>1, <3>2, <3>3 DEF ServerRight
  <2>3. QED BY <2>1, <2>2
<1>18. ASSUME NEW q \in Rooms, room'[q].running, room'[q].members # {} PROVE Matched(q)'
  <2>1. CASE q = r BY <1>13, <1>14, <2>1 DEF Matched
  <2>2. CASE q # r
    <3>1. Matched(q) BY <1>2, <1>18, <2>2 DEF IInv, LanRight
    <3>2. QED BY <1>13, <1>14, <2>2, <3>1 DEF Matched
  <2>3. QED BY <2>1, <2>2
<1>19. LanRight'
  <2>1. IsInjective(pending)' BY <1>15 DEF IsInjective
  <2>2. QED BY <1>8, <1>16, <1>17, <1>18, <2>1 DEF LanRight
<1>20. QED BY <1>6, <1>7, <1>10, <1>19

(* A job of user w in room r.                                               *)
LEMMA JobStep ==
  ASSUME IInv, NEW r \in Rooms, jobs[r] # <<>>, NEW w \in Users, w = Head(jobs[r]).who,
         Executed(r), r <= made, registered' \subseteq Users, NEW R \in RoomRecords,
         room' = [room EXCEPT ![r] = R],
         joined' \in [Users -> BOOLEAN], ready' \in [Users -> BOOLEAN],
         roomNum' \in [Users -> Rooms \cup {NoRoom}],
         Moves(r, w, R),
         \/ /\ R.members # {} <=> room[r].members # {}
            /\ roomMap' = roomMap /\ usingRooms' = usingRooms
         \/ /\ R.members = {} /\ room[r].members # {}
            /\ roomMap' = roomMap \ {r} /\ usingRooms' = usingRooms - 1,
         \/ /\ R.running = room[r].running /\ pending' = pending /\ servers' = servers
            /\ R.running => R.members \subseteq room[r].members
         \/ /\ room[r].running = FALSE /\ R.running = TRUE /\ OnGameStart(r)
  PROVE  IInv'
<1>1. Typed BY DEF IInv
<1>2. PICK j : j = Head(jobs[r]) OBVIOUS
<1>3. /\ OneEach' /\ jobs' \in [Rooms -> Seq(Jobs)]
      /\ \A q \in Rooms : \A i \in Queued(q)' : i \in Queued(q) /\ i.who # w
      /\ \A v : v # w => (Waiting(v)' <=> Waiting(v))
      /\ made' = made /\ session' = session /\ executing' = executing
      /\ requests' = requests
  BY <1>2, JobDone
<1>4. HandlersRight'
  <2>1. \A v \in Users : v # w => joined'[v] = joined[v] /\ roomNum'[v] = roomNum[v] BY DEF Moves
  <2>2. QED BY <2>1, JobHandlersRight
<1>5. handler' \in [Users -> Handlers] BY JobHandlers
<1>6. CountsRight' /\ roomMap' \subseteq roomMap BY <1>3, JobCounts
<1>7. MembersRight'
  <2>1. \A v : v # w => (Waiting(v)' <=> Waiting(v)) BY <1>3
  <2>2. made' = made BY <1>3
  <2>3. QED BY <2>1, <2>2, JobMembers
<1>8. /\ room'[r] = R /\ \A q \in Rooms : q # r => room'[q] = room[q]
  BY <1>1 DEF Typed
<1>9. /\ LanRight' /\ servers' \in [Servers -> ServerRecords] /\ pending' \in Seq(Rooms)
      /\ \A g \in Servers : servers[g].at # "off" => servers'[g] = servers[g]
  <2>1. CASE /\ room[r].running = FALSE /\ R.running = TRUE /\ OnGameStart(r)
    BY <2>1, LanStart
  <2>2. CASE /\ R.running = room[r].running /\ pending' = pending /\ servers' = servers
             /\ R.running => R.members \subseteq room[r].members
    <3>1. ASSUME NEW q \in Rooms
          PROVE  /\ room'[q].running <=> room[q].running
                 /\ room[q].running =>
                      /\ Cardinality(room'[q].members) <= Cardinality(room[q].members)
                      /\ Cardinality(room'[q].members) \in Nat
                      /\ room'[q].members # {} => room[q].members # {}
      <4>1. IsFiniteSet(room[q].members) /\ Cardinality(room[q].members) \in Nat
        BY <1>1, RoomType
      <4>2. CASE q # r
        <5>1. room'[q] = room[q] BY <1>8, <4>2
        <5>2. QED BY <4>1, <5>1
      <4>3. CASE q = r
        <5>1. ASSUME room[r].running
              PROVE  /\ Cardinality(R.members) <= Cardinality(room[r].members)
                     /\ Cardinality(R.members) \in Nat
                     /\ R.members # {} => room[r].members # {}
          <6>1. R.members \in SUBSET room[r].members BY <2>2, <5>1
          <6>2. /\ IsFiniteSet(R.members)
                /\ Cardinality(R.members) <= Cardinality(room[r].members)
            BY <4>1, <4>3, <6>1, FS_Subset
          <6>3. QED BY <6>1, <6>2, FS_CardinalityType
        <5>2. QED BY <1>8, <2>2, <4>3, <5>1
      <4>4. QED BY <4>2, <4>3
    <3>2. LanRight' BY <2>2, <3>1, LanSame
    <3>3. QED BY <1>1, <2>2, <3>2 DEF Typed
  <2>3. QED BY <2>1, <2>2
<1>10. JobsRight'
  <2>1. ASSUME NEW v \in Users, v # w, NEW q \in Rooms, v \in room[q].members
        PROVE  v \in room'[q].members
    <3>1. R.members \ {w} = room[r].members \ {w} BY DEF Moves
    <3>2. QED BY <1>8, <2>1, <3>1
  <2>2. \A g \in Servers : g # w /\ servers[g].at \in {"asked", "announced"} =>
           servers'[g].at = servers[g].at /\ servers'[g].room = servers[g].room
    BY <1>9
  <2>3. \A v \in Users : v # w =>
           /\ joined'[v] = joined[v] /\ roomNum'[v] = roomNum[v]
           /\ \A q \in Rooms : v \in room[q].members => v \in room'[q].members
    BY <2>1 DEF Moves
  <2>4. \A q \in Rooms : \A i \in Queued(q)' : i \in Queued(q) /\ i.who # w BY <1>3
  <2>5. OneEach' /\ made' = made BY <1>3
  <2>6. QED BY ONLY IInv, <2>2, <2>3, <2>4, <2>5, OthersJobs
<1>11. Typed'
  <2>1. roomMap' \subseteq 1 .. made' /\ made' \in 0 .. MaxMade
    BY <1>1, <1>3, <1>6 DEF Typed
  <2>2. room' \in [Rooms -> RoomRecords] BY <1>1 DEF Typed
  <2>3. QED BY <1>1, <1>3, <1>5, <1>9, <2>1, <2>2 DEF Typed
<1>12. QED BY <1>4, <1>6, <1>7, <1>9, <1>10, <1>11 DEF IInv

(* The job at the head, and its user.                                       *)
LEMMA HeadRight ==
  ASSUME IInv, NEW r \in Rooms, NEW acts \in SUBSET Acts, Current(r, acts),
         NEW w, w = Head(jobs[r]).who
  PROVE  /\ jobs[r] # <<>> /\ w \in Users /\ Waiting(w) /\ r <= made /\ JobRight(r, Head(jobs[r]))
         /\ Head(jobs[r]).act \in acts /\ Head(jobs[r]) \in Queued(r)
         /\ Head(jobs[r]).act # "enter" =>
              w \in room[r].members /\ joined[w] /\ roomNum[w] \in {r, NoRoom}
              /\ (Head(jobs[r]).act \notin {"leave", "bye"} => roomNum[w] = r)
         /\ Head(jobs[r]).act = "enter" => ~joined[w] /\ w \notin room[r].members
         /\ \A q \in Rooms \ {r} : w \notin room[q].members
<1> DEFINE j == Head(jobs[r])
<1>1. jobs[r] # <<>> /\ j.act \in acts BY DEF Current
<1>2. j \in Queued(r) /\ j \in Jobs
  <2>1. jobs[r] \in Seq(Jobs) BY DEF IInv, Typed
  <2>2. /\ Len(jobs[r]) \in Nat \ {0} /\ j = jobs[r][1] /\ j \in Jobs /\ 1 \in 1 .. Len(jobs[r])
    BY <1>1, <2>1, DropJob
  <2>3. QED BY <2>2 DEF Queued
<1>3. JobRight(r, j) BY <1>2 DEF IInv, JobsRight
<1>4. w \in Users
  <2>1. j \in UserJobs BY <1>1, <1>2 DEF Jobs, LanJobs, Acts
  <2>2. QED BY <2>1 DEF UserJobs
<1>5. Waiting(w) BY <1>2, Waits
<1>6. \A q \in Rooms : RoomRight(q) BY DEF IInv, MembersRight
<1>7. CASE j.act = "enter"
  <2>1. ~joined[w] BY <1>3, <1>7 DEF JobRight
  <2>2. \A q \in Rooms : w \notin room[q].members BY <1>6, <2>1 DEF RoomRight
  <2>3. QED BY <1>1, <1>2, <1>3, <1>4, <1>5, <1>7, <2>1, <2>2 DEF JobRight
<1>8. CASE j.act # "enter"
  <2>1. j.act \in Acts /\ j.act # "make" BY <1>1, <1>3 DEF JobRight
  <2>2. CASE j.act \in {"leave", "bye"}
    <3>1. w \in room[r].members BY <1>3, <2>2 DEF JobRight
    <3>2. /\ joined[w] /\ roomNum[w] \in {r, NoRoom}
          /\ \A q \in Rooms \ {r} : w \notin room[q].members
      BY <1>6, <3>1 DEF RoomRight
    <3>3. QED BY <1>1, <1>2, <1>3, <1>4, <1>5, <1>8, <2>2, <3>1, <3>2 DEF JobRight
  <2>3. CASE j.act \notin {"leave", "bye"}
    <3>1. j.act \in {"ready", "unready", "chat"} BY <1>8, <2>1, <2>3 DEF Acts
    <3>2. joined[w] /\ roomNum[w] = r BY <1>3, <3>1 DEF JobRight
    <3>3. w \in room[r].members
      <4>1. r # NoRoom /\ UserRight(w) BY <1>4, Constants DEF IInv, MembersRight
      <4>2. QED BY <3>2, <4>1 DEF UserRight
    <3>4. \A q \in Rooms \ {r} : w \notin room[q].members BY <1>6, <3>3 DEF RoomRight
    <3>5. QED BY <1>1, <1>2, <1>3, <1>4, <1>5, <1>8, <3>2, <3>3, <3>4 DEF JobRight
  <2>4. QED BY <2>2, <2>3
<1>9. QED BY <1>7, <1>8

LEMMA EnterStep == ASSUME IInv, NEW r \in Rooms, EnterJob(r) PROVE IInv'
<1>1. PICK w : w = Head(jobs[r]).who OBVIOUS
<1>2. Current(r, {"enter"}) /\ Executed(r) /\ {"enter"} \in SUBSET Acts BY DEF EnterJob, Acts
<1>3. /\ jobs[r] # <<>> /\ w \in Users /\ r <= made /\ ~joined[w]
      /\ \A q \in Rooms : w \notin room[q].members
  BY <1>1, <1>2, HeadRight
<1>4. /\ Typed /\ RoomRight(r) /\ room[r] \in RoomRecords
      /\ IsFiniteSet(room[r].members) /\ room[r].members \in SUBSET Users
      /\ Cardinality(room[r].members) \in Nat
  BY RoomType DEF IInv, MembersRight
<1>5. /\ registered' \subseteq Users /\ roomMap' = roomMap /\ usingRooms' = usingRooms
      /\ pending' = pending /\ servers' = servers
  BY <1>4 DEF EnterJob, lanVars, Typed
<1>6. CASE ~OpenTo(room[r])
  <2>1. /\ joined' = joined /\ roomNum' = roomNum /\ ready' = ready /\ room' = room
    BY <1>6 DEF EnterJob, userVars
  <2>2. room' = [room EXCEPT ![r] = room[r]] BY <1>4, <2>1 DEF Typed
  <2>3. Moves(r, w, room[r]) BY <1>3, <1>4, <2>1 DEF Moves, RoomRight
  <2>4. joined' \in [Users -> BOOLEAN] /\ ready' \in [Users -> BOOLEAN]
        /\ roomNum' \in [Users -> Rooms \cup {NoRoom}]
    BY <1>4, <2>1 DEF Typed
  <2>5. QED BY <1>1, <1>2, <1>3, <1>4, <1>5, <2>2, <2>3, <2>4, JobStep
<1>7. CASE OpenTo(room[r])
  <2>1. PICK R : R = [room[r] EXCEPT !.members = @ \cup {w}, !.cur = USHORT(@ + 1)] OBVIOUS
  <2>2. /\ room' = [room EXCEPT ![r] = R]
        /\ joined' = [joined EXCEPT ![w] = (r # NoRoom)]
        /\ roomNum' = [roomNum EXCEPT ![w] = r] /\ ready' = [ready EXCEPT ![w] = FALSE]
    BY <1>1, <1>4, <1>7, <2>1 DEF EnterJob, Admit, SetRoom, Typed
  <2>3. room[r].cur \in Nat /\ USHORT(room[r].cur + 1) \in UShorts BY RoomType, UShortType, <1>4
  <2>4. /\ R \in RoomRecords
        /\ R.members = room[r].members \cup {w} /\ R.cur = USHORT(room[r].cur + 1)
        /\ R.owner = room[r].owner /\ R.running = room[r].running
    BY <1>3, <1>4, <2>1, <2>3 DEF RoomRecords
  <2>5. /\ room[r].cur = Cardinality(room[r].members) /\ room[r].cur < RoomSize
        /\ room[r].cur # 0 /\ ~room[r].running
    BY <1>4, <1>7 DEF OpenTo, RoomRight
  <2>6. R.cur = room[r].cur + 1 /\ R.cur <= RoomSize
    <3>1. RoomSize \in Nat /\ RoomSize <= MaxUShort /\ MaxUShort \in Nat BY UShortType
    <3>2. room[r].cur + 1 \in Nat /\ room[r].cur + 1 <= RoomSize /\ room[r].cur + 1 <= MaxUShort
      BY ONLY <2>3, <2>5, <3>1
    <3>3. USHORT(room[r].cur + 1) = room[r].cur + 1 BY <3>2, UShortType
    <3>4. QED BY <2>4, <3>2, <3>3
  <2>7. Cardinality(R.members) = Cardinality(room[r].members) + 1
    <3>1. w \notin room[r].members BY <1>3
    <3>2. Cardinality(room[r].members \cup {w}) = Cardinality(room[r].members) + 1
      BY <1>4, <3>1, FS_AddElement
    <3>3. QED BY <2>4, <3>2
  <2>8. room[r].members # {}
    <3>1. Cardinality({}) = 0 BY FS_EmptySet
    <3>2. QED BY <2>5, <3>1
  <2>9. /\ joined'[w] /\ roomNum'[w] = r
        /\ \A v \in Users : v # w => joined'[v] = joined[v] /\ roomNum'[v] = roomNum[v]
        /\ joined' \in [Users -> BOOLEAN] /\ ready' \in [Users -> BOOLEAN]
        /\ roomNum' \in [Users -> Rooms \cup {NoRoom}]
    <3>1. r # NoRoom BY Constants
    <3>2. QED BY <1>3, <1>4, <2>2, <3>1 DEF Typed
  <2>10. Moves(r, w, R)
    <3>1. room[r].owner \in room[r].members BY <1>4, <2>8 DEF RoomRight
    <3>2. R.members \ {w} = room[r].members \ {w} BY <2>4
    <3>3. R.cur = Cardinality(R.members) BY <2>5, <2>6, <2>7
    <3>4. QED BY <1>3, <2>4, <2>6, <2>9, <3>1, <3>2, <3>3 DEF Moves
  <2>11. R.members # {} <=> room[r].members # {} BY <2>4, <2>8
  <2>12. R.running = room[r].running /\ ~R.running BY <2>4, <2>5
  <2>13. QED BY <1>1, <1>2, <1>3, <1>5, <2>2, <2>4, <2>9, <2>10, <2>11, <2>12, JobStep
<1>8. QED BY <1>6, <1>7

LEMMA ChatStep == ASSUME IInv, NEW r \in Rooms, ChatJob(r) PROVE IInv'
<1>1. PICK w : w = Head(jobs[r]).who OBVIOUS
<1>2. Current(r, {"chat"}) /\ Executed(r) /\ {"chat"} \in SUBSET Acts BY DEF ChatJob, Acts
<1>3. /\ jobs[r] # <<>> /\ w \in Users /\ r <= made /\ joined[w] /\ roomNum[w] = r
      /\ w \in room[r].members /\ \A q \in Rooms \ {r} : w \notin room[q].members
  BY <1>1, <1>2, HeadRight
<1>4. /\ Typed /\ RoomRight(r) /\ room[r] \in RoomRecords
  BY RoomType DEF IInv, MembersRight
<1>5. /\ registered' \subseteq Users /\ roomMap' = roomMap /\ usingRooms' = usingRooms
      /\ pending' = pending /\ servers' = servers
      /\ joined' = joined /\ roomNum' = roomNum /\ ready' = ready /\ room' = room
  BY <1>4 DEF ChatJob, lanVars, userVars, Typed
<1>6. room' = [room EXCEPT ![r] = room[r]] BY <1>4, <1>5 DEF Typed
<1>7. Moves(r, w, room[r]) BY <1>3, <1>4, <1>5 DEF Moves, RoomRight
<1>8. joined' \in [Users -> BOOLEAN] /\ ready' \in [Users -> BOOLEAN]
      /\ roomNum' \in [Users -> Rooms \cup {NoRoom}]
  BY <1>4, <1>5 DEF Typed
<1>9. QED BY <1>1, <1>2, <1>3, <1>4, <1>5, <1>6, <1>7, <1>8, JobStep

(* What UpdateUserReadyStatus does.                                         *)
LEMMA UpdateReadyStep ==
  ASSUME Typed, NEW r \in Rooms, NEW S \in RoomRecords, S.running = room[r].running,
         NEW u \in Users, NEW b \in BOOLEAN, UpdateReady(r, S, u, b)
  PROVE  /\ ready' \in [Users -> BOOLEAN]
         /\ \E R \in RoomRecords :
              /\ room' = [room EXCEPT ![r] = R]
              /\ R.members = S.members /\ R.cur = S.cur /\ R.owner = S.owner
              /\ \/ R.running = room[r].running /\ pending' = pending /\ servers' = servers
                 \/ room[r].running = FALSE /\ R.running = TRUE /\ OnGameStart(r)
<1>1. CASE ready[u] = b
  <2>1. room' = [room EXCEPT ![r] = S] /\ ready' = ready /\ pending' = pending /\ servers' = servers
    BY <1>1 DEF UpdateReady, lanVars
  <2>2. QED BY <2>1 DEF Typed
<1>2. CASE ready[u] # b
  <2>1. PICK n : n = USHORT(IF b THEN S.readyCnt + 1 ELSE S.readyCnt - 1) OBVIOUS
  <2>2. n \in UShorts
    <3>1. S.readyCnt \in UShorts BY DEF RoomRecords
    <3>2. S.readyCnt + 1 \in Int /\ S.readyCnt - 1 \in Int BY <3>1, UShortType
    <3>3. QED BY <2>1, <3>2, UShortType
  <2>3. PICK starts \in BOOLEAN : starts <=> S.owner = u /\ S.cur = n /\ ~S.running
    <3>1. CASE S.owner = u /\ S.cur = n /\ ~S.running BY <3>1
    <3>2. CASE ~(S.owner = u /\ S.cur = n /\ ~S.running) BY <3>2
    <3>3. QED BY <3>1, <3>2
  <2>4. S.running \in BOOLEAN BY DEF RoomRecords
  <2>5. PICK x \in BOOLEAN : x <=> S.running \/ starts
    <3>1. CASE S.running \/ starts BY <3>1
    <3>2. CASE ~(S.running \/ starts) BY <3>2
    <3>3. QED BY <3>1, <3>2
  <2>6. /\ room' = [room EXCEPT ![r] = [S EXCEPT !.readyCnt = n, !.running = x]]
        /\ ready' = [ready EXCEPT ![u] = b]
        /\ starts => OnGameStart(r)
        /\ ~starts => pending' = pending /\ servers' = servers
    <3>1. /\ room' = [room EXCEPT ![r] = Readied(S, u, b).room]
          /\ ready' = [ready EXCEPT ![u] = b]
          /\ IF Readied(S, u, b).starts THEN OnGameStart(r) ELSE UNCHANGED lanVars
      BY <1>2 DEF UpdateReady
    <3>2. Readied(S, u, b).starts <=> starts BY <2>1, <2>3 DEF Readied
    <3>3. Readied(S, u, b).room = [S EXCEPT !.readyCnt = n,
                                            !.running = @ \/ (S.owner = u /\ S.cur = n /\ ~S.running)]
      BY <2>1 DEF Readied
    <3>4. (S.running \/ (S.owner = u /\ S.cur = n /\ ~S.running)) = x BY <2>3, <2>4, <2>5
    <3>5. QED BY <3>1, <3>2, <3>3, <3>4 DEF lanVars
  <2>7. PICK R : R = [S EXCEPT !.readyCnt = n, !.running = x] OBVIOUS
  <2>8. /\ R \in RoomRecords /\ R.members = S.members /\ R.cur = S.cur /\ R.owner = S.owner
        /\ R.running = x
    BY <2>2, <2>7 DEF RoomRecords
  <2>9. ready' \in [Users -> BOOLEAN] BY <2>6 DEF Typed
  <2>10. CASE starts
    <3>1. room[r].running = FALSE /\ x = TRUE BY <2>3, <2>4, <2>5, <2>10
    <3>2. QED BY <2>6, <2>7, <2>8, <2>9, <2>10, <3>1
  <2>11. CASE ~starts
    <3>1. x = room[r].running BY <2>4, <2>5, <2>11
    <3>2. QED BY <2>6, <2>7, <2>8, <2>9, <2>11, <3>1
  <2>12. QED BY <2>10, <2>11
<1>3. QED BY <1>1, <1>2

LEMMA ReadyStep == ASSUME IInv, NEW r \in Rooms, ReadyJob(r) PROVE IInv'
<1>1. PICK w : w = Head(jobs[r]).who OBVIOUS
<1>2. /\ Current(r, {"ready", "unready"}) /\ Executed(r)
      /\ {"ready", "unready"} \in SUBSET Acts
  BY DEF ReadyJob, Acts
<1>3. /\ jobs[r] # <<>> /\ w \in Users /\ r <= made /\ joined[w] /\ roomNum[w] = r
      /\ w \in room[r].members /\ \A q \in Rooms \ {r} : w \notin room[q].members
  BY <1>1, <1>2, HeadRight
<1>4. /\ Typed /\ RoomRight(r) /\ room[r] \in RoomRecords
  BY RoomType DEF IInv, MembersRight
<1>5. /\ registered' \subseteq Users /\ roomMap' = roomMap /\ usingRooms' = usingRooms
      /\ joined' = joined /\ roomNum' = roomNum
  BY <1>4 DEF ReadyJob, Typed
<1>6. UpdateReady(r, room[r], w, TRUE) \/ UpdateReady(r, room[r], w, FALSE)
  <2>1. UpdateReady(r, room[r], w, Head(jobs[r]).act = "ready") BY <1>1 DEF ReadyJob
  <2>2. CASE Head(jobs[r]).act = "ready"
    <3>1. (Head(jobs[r]).act = "ready") = TRUE BY <2>2
    <3>2. QED BY <2>1, <3>1
  <2>3. CASE Head(jobs[r]).act # "ready"
    <3>1. (Head(jobs[r]).act = "ready") = FALSE BY <2>3
    <3>2. QED BY <2>1, <3>1
  <2>4. QED BY <2>2, <2>3
<1>7. /\ ready' \in [Users -> BOOLEAN]
      /\ \E R \in RoomRecords :
              /\ room' = [room EXCEPT ![r] = R]
              /\ R.members = room[r].members /\ R.cur = room[r].cur /\ R.owner = room[r].owner
              /\ \/ R.running = room[r].running /\ pending' = pending /\ servers' = servers
                 \/ room[r].running = FALSE /\ R.running = TRUE /\ OnGameStart(r)
  <2>1. PICK S \in RoomRecords : S = room[r] BY <1>4
  <2>2. /\ UpdateReady(r, S, w, TRUE) \/ UpdateReady(r, S, w, FALSE)
        /\ S.running = room[r].running
    BY <1>6, <2>1
  <2>3. /\ ready' \in [Users -> BOOLEAN]
        /\ \E R \in RoomRecords :
              /\ room' = [room EXCEPT ![r] = R]
              /\ R.members = S.members /\ R.cur = S.cur /\ R.owner = S.owner
              /\ \/ R.running = room[r].running /\ pending' = pending /\ servers' = servers
                 \/ room[r].running = FALSE /\ R.running = TRUE /\ OnGameStart(r)
    <3>1. CASE UpdateReady(r, S, w, TRUE) BY <1>3, <1>4, <2>2, <3>1, UpdateReadyStep
    <3>2. CASE UpdateReady(r, S, w, FALSE) BY <1>3, <1>4, <2>2, <3>2, UpdateReadyStep
    <3>3. QED BY <2>2, <3>1, <3>2
  <2>4. QED BY <2>1, <2>3
<1>8. PICK R \in RoomRecords :
              /\ room' = [room EXCEPT ![r] = R]
              /\ R.members = room[r].members /\ R.cur = room[r].cur /\ R.owner = room[r].owner
              /\ \/ R.running = room[r].running /\ pending' = pending /\ servers' = servers
                 \/ room[r].running = FALSE /\ R.running = TRUE /\ OnGameStart(r)
  BY <1>7
<1>9. Moves(r, w, R) BY <1>3, <1>4, <1>5, <1>8 DEF Moves, RoomRight
<1>10. joined' \in [Users -> BOOLEAN] /\ roomNum' \in [Users -> Rooms \cup {NoRoom}]
  BY <1>4, <1>5 DEF Typed
<1>11. QED BY <1>1, <1>2, <1>3, <1>5, <1>7, <1>8, <1>9, <1>10, JobStep

(* LeaveRoom.                                                               *)
LEMMA LeaveShape ==
  ASSUME IInv, NEW r \in Rooms, NEW u \in room[r].members, Leave(r, u)
  PROVE  /\ joined' = [joined EXCEPT ![u] = FALSE] /\ roomNum' = [roomNum EXCEPT ![u] = NoRoom]
         /\ ready' \in [Users -> BOOLEAN]
         /\ \E R \in RoomRecords :
              /\ room' = [room EXCEPT ![r] = R]
              /\ R.members = room[r].members \ {u} /\ R.cur = Cardinality(R.members)
              /\ R.cur <= RoomSize /\ (R.members # {} => R.owner \in R.members)
              /\ \/ R.running = room[r].running /\ pending' = pending /\ servers' = servers
                 \/ room[r].running = FALSE /\ R.running = TRUE /\ OnGameStart(r)
              /\ \/ R.members # {} /\ roomMap' = roomMap /\ usingRooms' = usingRooms
                 \/ R.members = {} /\ roomMap' = roomMap \ {r} /\ usingRooms' = usingRooms - 1
<1>1. /\ Typed /\ RoomRight(r) /\ room[r] \in RoomRecords
      /\ IsFiniteSet(room[r].members) /\ room[r].members \in SUBSET Users
      /\ room[r].running \in BOOLEAN /\ Cardinality(room[r].members) \in Nat /\ u \in Users
      /\ room[r].cur \in UShorts
  BY RoomType DEF IInv, MembersRight
<1>2. /\ joined' = [joined EXCEPT ![u] = FALSE] /\ roomNum' = [roomNum EXCEPT ![u] = NoRoom]
  BY DEF Leave, SetRoom
<1>3. PICK S : S = Released(room[r], u) OBVIOUS
<1>4. PICK n \in Nat : room[r].cur = n + 1 /\ Cardinality(room[r].members \ {u}) = n
  <2>1. Cardinality(room[r].members \ {u}) = Cardinality(room[r].members) - 1
    BY <1>1, FS_RemoveElement
  <2>2. Cardinality(room[r].members \ {u}) \in Nat
    <3>1. IsFiniteSet(room[r].members \ {u}) BY <1>1, FS_RemoveElement
    <3>2. QED BY <3>1, FS_CardinalityType
  <2>3. room[r].cur = Cardinality(room[r].members) BY <1>1 DEF RoomRight
  <2>4. room[r].cur = Cardinality(room[r].members \ {u}) + 1 BY <1>1, <2>1, <2>2, <2>3
  <2>5. QED BY <2>2, <2>4
<1>5. USHORT(room[r].cur - 1) = n /\ n \in UShorts /\ n <= RoomSize
  <2>1. room[r].cur - 1 = n /\ n <= room[r].cur BY ONLY <1>4
  <2>2. room[r].cur <= MaxUShort /\ MaxUShort \in Nat /\ RoomSize \in Nat BY <1>1, UShortType
  <2>3. room[r].cur <= RoomSize BY <1>1 DEF RoomRight
  <2>4. n <= MaxUShort /\ n <= RoomSize BY ONLY <1>4, <2>2, <2>3
  <2>5. QED BY <2>1, <2>4, UShortType
<1>6. /\ S \in RoomRecords /\ S.members = room[r].members \ {u} /\ S.cur = n
      /\ S.owner = room[r].owner /\ S.running = room[r].running
  BY <1>1, <1>3, <1>5 DEF Released, RoomRecords
<1>7. room[r].owner \in room[r].members BY <1>1 DEF RoomRight
<1>8. CASE S.members = {}
  <2>1. /\ DestroyRoom(r) /\ room' = [room EXCEPT ![r] = S]
        /\ ready' = ready /\ pending' = pending /\ servers' = servers
    BY <1>3, <1>8 DEF Leave, lanVars
  <2>2. r \in roomMap BY <1>1 DEF IInv, CountsRight, RoomsListed
  <2>3. roomMap' = roomMap \ {r} /\ usingRooms' = usingRooms - 1
    BY <2>1, <2>2 DEF DestroyRoom
  <2>4. ready' \in [Users -> BOOLEAN] BY <1>1, <2>1 DEF Typed
  <2>5. QED BY <1>2, <1>4, <1>5, <1>6, <1>8, <2>1, <2>3, <2>4
<1>9. CASE S.members # {}
  <2>1. /\ roomMap' = roomMap /\ usingRooms' = usingRooms
        /\ IF u = S.owner THEN Delegate(r, S)
           ELSE /\ room' = [room EXCEPT ![r] = S] /\ ready' = ready
                /\ pending' = pending /\ servers' = servers
    BY <1>3, <1>9 DEF Leave, lanVars
  <2>2. CASE u # S.owner
    <3>1. S.owner \in S.members BY <1>6, <1>7, <2>2
    <3>2. ready' \in [Users -> BOOLEAN] BY <1>1, <2>1, <2>2 DEF Typed
    <3>3. QED BY <1>2, <1>4, <1>5, <1>6, <1>9, <2>1, <2>2, <3>1, <3>2
  <2>3. CASE u = S.owner
    <3>1. PICK o \in S.members :
            IF Alive(o)
            THEN UpdateReady(r, [S EXCEPT !.owner = o], o, FALSE)
            ELSE /\ room' = [room EXCEPT ![r] = [S EXCEPT !.owner = o]]
                 /\ ready' = ready /\ pending' = pending /\ servers' = servers
      BY <2>1, <2>3 DEF Delegate, lanVars
    <3>2. o \in Users BY <1>1, <1>6
    <3>3. PICK T : T = [S EXCEPT !.owner = o] OBVIOUS
    <3>4. /\ T \in RoomRecords /\ T.members = S.members /\ T.cur = S.cur /\ T.owner = o
          /\ T.running = S.running
      BY <1>6, <3>2, <3>3 DEF RoomRecords
    <3>5. CASE Alive(o)
      <4>1. UpdateReady(r, T, o, FALSE) /\ T.running = room[r].running
        BY <1>6, <3>1, <3>3, <3>4, <3>5
      <4>2. /\ ready' \in [Users -> BOOLEAN]
            /\ \E R \in RoomRecords :
              /\ room' = [room EXCEPT ![r] = R]
              /\ R.members = T.members /\ R.cur = T.cur /\ R.owner = T.owner
              /\ \/ R.running = room[r].running /\ pending' = pending /\ servers' = servers
                 \/ room[r].running = FALSE /\ R.running = TRUE /\ OnGameStart(r)
        BY <1>1, <3>2, <3>4, <4>1, UpdateReadyStep
      <4>3. PICK R \in RoomRecords :
              /\ room' = [room EXCEPT ![r] = R]
              /\ R.members = T.members /\ R.cur = T.cur /\ R.owner = T.owner
              /\ \/ R.running = room[r].running /\ pending' = pending /\ servers' = servers
                 \/ room[r].running = FALSE /\ R.running = TRUE /\ OnGameStart(r)
        BY <4>2
      <4>4. /\ R.members = room[r].members \ {u} /\ R.cur = Cardinality(R.members)
            /\ R.cur <= RoomSize /\ R.owner \in R.members /\ R.members # {}
        BY <1>4, <1>5, <1>6, <1>9, <3>4, <4>3
      <4>5. QED BY <1>2, <2>1, <4>2, <4>3, <4>4
    <3>6. CASE ~Alive(o)
      <4>1. /\ room' = [room EXCEPT ![r] = T] /\ ready' = ready
            /\ pending' = pending /\ servers' = servers
        BY <3>1, <3>3, <3>6
      <4>2. ready' \in [Users -> BOOLEAN] BY <1>1, <4>1 DEF Typed
      <4>3. /\ T.members = room[r].members \ {u} /\ T.cur = Cardinality(T.members)
            /\ T.cur <= RoomSize /\ T.owner \in T.members /\ T.members # {}
            /\ T.running = room[r].running
        BY <1>4, <1>5, <1>6, <1>9, <3>4
      <4>4. QED BY <1>2, <2>1, <3>4, <4>1, <4>2, <4>3
    <3>7. QED BY <3>5, <3>6
  <2>4. QED BY <2>2, <2>3
<1>10. QED BY <1>8, <1>9

LEMMA LeaveSteps == ASSUME IInv, NEW r \in Rooms, LeaveJob(r) \/ ByeJob(r) PROVE IInv'
<1>1. PICK u : u = Head(jobs[r]).who OBVIOUS
<1>2. /\ Current(r, {"leave", "bye"}) /\ Executed(r) /\ {"leave", "bye"} \in SUBSET Acts
      /\ Leave(r, u) /\ registered' \subseteq registered
  BY <1>1 DEF LeaveJob, ByeJob, Acts, Current, RemoveUser
<1>3. /\ jobs[r] # <<>> /\ u \in Users /\ r <= made
      /\ u \in room[r].members /\ \A q \in Rooms \ {r} : u \notin room[q].members
  BY <1>1, <1>2, HeadRight
<1>4. /\ joined' = [joined EXCEPT ![u] = FALSE] /\ roomNum' = [roomNum EXCEPT ![u] = NoRoom]
      /\ ready' \in [Users -> BOOLEAN]
      /\ \E R \in RoomRecords :
              /\ room' = [room EXCEPT ![r] = R]
              /\ R.members = room[r].members \ {u} /\ R.cur = Cardinality(R.members)
              /\ R.cur <= RoomSize /\ (R.members # {} => R.owner \in R.members)
              /\ \/ R.running = room[r].running /\ pending' = pending /\ servers' = servers
                 \/ room[r].running = FALSE /\ R.running = TRUE /\ OnGameStart(r)
              /\ \/ R.members # {} /\ roomMap' = roomMap /\ usingRooms' = usingRooms
                 \/ R.members = {} /\ roomMap' = roomMap \ {r} /\ usingRooms' = usingRooms - 1
  BY <1>2, <1>3, LeaveShape
<1>5. PICK R \in RoomRecords :
              /\ room' = [room EXCEPT ![r] = R]
              /\ R.members = room[r].members \ {u} /\ R.cur = Cardinality(R.members)
              /\ R.cur <= RoomSize /\ (R.members # {} => R.owner \in R.members)
              /\ \/ R.running = room[r].running /\ pending' = pending /\ servers' = servers
                 \/ room[r].running = FALSE /\ R.running = TRUE /\ OnGameStart(r)
              /\ \/ R.members # {} /\ roomMap' = roomMap /\ usingRooms' = usingRooms
                 \/ R.members = {} /\ roomMap' = roomMap \ {r} /\ usingRooms' = usingRooms - 1
  BY <1>4
<1>6. Typed BY DEF IInv
<1>7. /\ ~joined'[u] /\ u \notin R.members
      /\ \A v \in Users : v # u => joined'[v] = joined[v] /\ roomNum'[v] = roomNum[v]
      /\ joined' \in [Users -> BOOLEAN] /\ roomNum' \in [Users -> Rooms \cup {NoRoom}]
  BY <1>3, <1>4, <1>5, <1>6 DEF Typed
<1>8. Moves(r, u, R)
  <2>1. R.members \ {u} = room[r].members \ {u} BY <1>5
  <2>2. QED BY <1>3, <1>5, <1>7, <2>1 DEF Moves
<1>9. registered' \subseteq Users BY <1>2, <1>6 DEF Typed
<1>10. /\ \/ /\ R.members # {} <=> room[r].members # {}
             /\ roomMap' = roomMap /\ usingRooms' = usingRooms
          \/ /\ R.members = {} /\ room[r].members # {}
             /\ roomMap' = roomMap \ {r} /\ usingRooms' = usingRooms - 1
       /\ \/ /\ R.running = room[r].running /\ pending' = pending /\ servers' = servers
             /\ R.running => R.members \subseteq room[r].members
          \/ /\ room[r].running = FALSE /\ R.running = TRUE /\ OnGameStart(r)
  BY <1>3, <1>5
<1>11. QED BY <1>1, <1>2, <1>3, <1>4, <1>5, <1>7, <1>8, <1>9, <1>10, JobStep

-----------------------------------------------------------------------------
(* Steps that change neither the rooms nor the handlers.                    *)
LEMMA CountsSame ==
  ASSUME IInv, handler' = handler, room' = room, made' = made, roomMap' = roomMap,
         usingRooms' = usingRooms
  PROVE  CountsRight'
<1>1. /\ At({"create", "unreserve"})' = At({"create", "unreserve"})
      /\ At({"create"})' = At({"create"}) /\ Making' = Making
  BY DEF At, Making
<1>2. RoomsListed' BY DEF IInv, CountsRight, RoomsListed
<1>3. QED BY <1>1, <1>2 DEF IInv, CountsRight

LEMMA HandlersSame ==
  ASSUME IInv, handler' = handler, made' = made, joined' = joined, roomNum' = roomNum,
         \A v \in Users : Waiting(v)' <=> Waiting(v)
  PROVE  HandlersRight'
BY DEF IInv, HandlersRight, HandlerOf

LEMMA MembersSame ==
  ASSUME IInv, room' = room, made' = made, joined' = joined, roomNum' = roomNum,
         \A v \in Users : Waiting(v)' <=> Waiting(v)
  PROVE  MembersRight'
<1>1. \A v \in Users : UserRight(v)' BY DEF IInv, MembersRight, UserRight
<1>2. \A r \in Rooms : RoomRight(r)' BY DEF IInv, MembersRight, RoomRight
<1>3. QED BY <1>1, <1>2 DEF MembersRight

LEMMA LeaveBeginsStep == ASSUME IInv, NEW r \in Rooms, LeaveBegins(r) PROVE IInv'
<1>1. PICK w : w = Head(jobs[r]).who OBVIOUS
<1>2. Current(r, {"leave", "bye"}) /\ {"leave", "bye"} \in SUBSET Acts
  BY DEF LeaveBegins, Acts
<1>3. /\ w \in Users /\ Waiting(w) /\ jobs[r] # <<>> /\ JobRight(r, Head(jobs[r]))
      /\ Head(jobs[r]).act \in {"leave", "bye"}
  BY <1>1, <1>2, HeadRight
<1>4. /\ roomNum' = [roomNum EXCEPT ![w] = NoRoom]
      /\ session' = session /\ registered' = registered /\ joined' = joined /\ ready' = ready
      /\ room' = room /\ made' = made /\ roomMap' = roomMap /\ usingRooms' = usingRooms
      /\ pending' = pending /\ servers' = servers /\ jobs' = jobs /\ executing' = executing
      /\ handler' = handler /\ requests' = requests
  BY <1>1 DEF LeaveBegins, roomVars, lanVars, queueVars
<1>5. Typed BY DEF IInv
<1>6. /\ roomNum'[w] = NoRoom /\ roomNum' \in [Users -> Rooms \cup {NoRoom}]
      /\ \A v \in Users : v # w => roomNum'[v] = roomNum[v]
  BY <1>3, <1>4, <1>5 DEF Typed
<1>7. /\ \A v : Waiting(v)' <=> Waiting(v)
      /\ \A q : Queued(q)' = Queued(q)
  BY <1>4 DEF Waiting, Queued
<1>8. Typed' BY <1>4, <1>5, <1>6 DEF Typed
<1>9. JobsRight'
  <2>1. OneEach' BY <1>4 DEF IInv, JobsRight, OneEach
  <2>2. /\ Len(jobs[r]) \in Nat \ {0} /\ Head(jobs[r]) = jobs[r][1] /\ 1 \in 1 .. Len(jobs[r])
    <3>1. jobs[r] \in Seq(Jobs) BY <1>5 DEF Typed
    <3>2. QED BY <1>3, <3>1, DropJob
  <2>3. ASSUME NEW q \in Rooms, NEW i \in Queued(q) PROVE JobRight(q, i)'
    <3>1. JobRight(q, i) /\ i \in Jobs BY <1>5, QueuedJobs DEF IInv, JobsRight
    <3>2. CASE i.who # w
      <4>1. i \in UserJobs \/ i \in LanJobs BY <3>1 DEF Jobs
      <4>2. CASE i \in UserJobs
        <5>1. i.who \in Users BY <4>2 DEF UserJobs
        <5>2. QED BY <1>4, <1>6, <3>1, <3>2, <5>1 DEF JobRight
      <4>3. CASE i \in LanJobs
        <5>1. i.act \in {"settings", "lan"} BY <4>3 DEF LanJobs
        <5>2. QED BY <1>4, <3>1, <5>1 DEF JobRight
      <4>4. QED BY <4>1, <4>2, <4>3
    <3>3. CASE i.who = w
      <4>1. PICK k \in 1 .. Len(jobs[q]) : i = jobs[q][k] BY DEF Queued
      <4>2. q = r /\ k = 1 BY <1>1, <2>2, <3>3, <4>1 DEF IInv, JobsRight, OneEach
      <4>3. i = Head(jobs[r]) BY <2>2, <4>1, <4>2
      <4>4. q = r /\ i.act \in {"leave", "bye"} BY <1>3, <4>2, <4>3
      <4>5. QED BY <1>4, <3>1, <4>4 DEF JobRight
    <3>4. QED BY <3>2, <3>3
  <2>4. QED BY <1>7, <2>1, <2>3 DEF JobsRight
<1>10. HandlersRight'
  <2>1. ASSUME NEW v \in Users PROVE HandlerOf(v)'
    <3>1. HandlerOf(v) BY DEF IInv, HandlersRight
    <3>2. CASE v # w BY <1>4, <1>6, <1>7, <3>1, <3>2 DEF HandlerOf
    <3>3. CASE v = w
      <4>1. handler[v].at \in {"idle", "execute"} BY <1>3, <3>1, <3>3 DEF HandlerOf
      <4>2. QED BY <1>4, <1>7, <3>1, <4>1 DEF HandlerOf
    <3>4. QED BY <3>2, <3>3
  <2>2. QED BY <2>1 DEF HandlersRight
<1>11. MembersRight'
  <2>1. ASSUME NEW v \in Users PROVE UserRight(v)'
    <3>1. UserRight(v) BY DEF IInv, MembersRight
    <3>2. CASE v # w BY <1>4, <1>6, <1>7, <3>1, <3>2 DEF UserRight
    <3>3. CASE v = w BY <1>3, <1>6, <1>7, <3>3 DEF UserRight
    <3>4. QED BY <3>2, <3>3
  <2>2. ASSUME NEW q \in Rooms PROVE RoomRight(q)'
    <3>1. RoomRight(q) /\ room[q].members \in SUBSET Users
      BY <1>5, RoomType DEF IInv, MembersRight
    <3>2. \A v \in Users : roomNum'[v] \in {roomNum[v], NoRoom} BY <1>6
    <3>3. QED BY <1>4, <3>1, <3>2 DEF RoomRight
  <2>3. QED BY <2>1, <2>2 DEF MembersRight
<1>12. CountsRight' BY <1>4, CountsSame
<1>13. LanRight' BY <1>4, LanKept DEF IInv
<1>14. QED BY <1>8, <1>9, <1>10, <1>11, <1>12, <1>13 DEF IInv

LEMMA SettleStep == ASSUME IInv, NEW r \in Rooms, Settle(r) PROVE IInv'
<1>1. /\ executing' \in [Rooms -> BOOLEAN] /\ roomNum' = roomNum
      /\ session' = session /\ registered' = registered /\ joined' = joined /\ ready' = ready
      /\ room' = room /\ made' = made /\ roomMap' = roomMap /\ usingRooms' = usingRooms
      /\ pending' = pending /\ servers' = servers /\ jobs' = jobs
      /\ handler' = handler /\ requests' = requests
  BY DEF Settle, userVars, roomVars, lanVars, IInv, Typed
<1>2. /\ \A v : Waiting(v)' <=> Waiting(v)
      /\ \A q : Queued(q)' = Queued(q)
  BY <1>1 DEF Waiting, Queued
<1>3. Typed' BY <1>1 DEF IInv, Typed
<1>4. JobsRight'
  <2>1. OneEach' BY <1>1 DEF IInv, JobsRight, OneEach
  <2>2. \A q, j : JobRight(q, j)' <=> JobRight(q, j) BY <1>1 DEF JobRight
  <2>3. QED BY <1>2, <2>1, <2>2 DEF IInv, JobsRight
<1>5. HandlersRight' BY <1>1, <1>2, HandlersSame
<1>6. MembersRight' BY <1>1, <1>2, MembersSame
<1>7. CountsRight' BY <1>1, CountsSame
<1>8. LanRight' BY <1>1, LanKept DEF IInv
<1>9. QED BY <1>3, <1>4, <1>5, <1>6, <1>7, <1>8 DEF IInv

-----------------------------------------------------------------------------
(* Steps of one game server.                                                *)
LEMMA ServerMoves ==
  ASSUME IInv, NEW g \in Servers, NEW x \in ServerRecords, servers' = [servers EXCEPT ![g] = x],
         servers[g].at # "off", x.at # "off", x.room = servers[g].room,
         room' = room, pending' = pending, ServerRight(g)'
  PROVE  LanRight' /\ servers' \in [Servers -> ServerRecords]
<1>1. /\ servers \in [Servers -> ServerRecords] /\ servers'[g] = x
      /\ \A h \in Servers : h # g => servers'[h] = servers[h]
      /\ servers' \in [Servers -> ServerRecords]
  BY DEF IInv, Typed
<1>2. /\ Launched' = Launched /\ Running' = Running
      /\ \A r : Given(r)' = Given(r)
      /\ \A r : Listed(r)' <=> Listed(r)
  <2>1. \A h \in Servers : servers'[h].room = servers[h].room
                           /\ (servers'[h].at # "off" <=> servers[h].at # "off")
    BY <1>1
  <2>2. Launched' = Launched BY <2>1 DEF Launched
  <2>3. \A r : Given(r)' = Given(r) BY <2>1 DEF Given
  <2>4. QED BY <2>2, <2>3 DEF Running, Listed
<1>3. ASSUME NEW h \in Servers PROVE ServerRight(h)'
  <2>1. CASE h = g BY <2>1
  <2>2. CASE h # g
    <3>1. ServerRight(h) BY DEF IInv, LanRight
    <3>2. QED BY <1>1, <2>2, <3>1 DEF ServerRight
  <2>3. QED BY <2>1, <2>2
<1>4. \A r : Matched(r)' <=> Matched(r) BY <1>2 DEF Matched
<1>5. IsInjective(pending)' BY DEF IInv, LanRight, IsInjective
<1>6. QED BY <1>1, <1>2, <1>3, <1>4, <1>5 DEF IInv, LanRight

LEMMA NotWaiting ==
  ASSUME IInv, NEW g \in Servers, servers[g].at \notin {"asked", "announced"}
  PROVE  ~Waiting(g)
<1> SUFFICES ASSUME NEW r \in Rooms, NEW j \in Queued(r), j.who = g PROVE FALSE
  BY Waits
<1>1. j \in Jobs /\ JobRight(r, j) BY QueuedJobs DEF IInv, JobsRight
<1>2. g \notin Users BY Constants
<1>3. j \in LanJobs BY <1>1, <1>2 DEF Jobs, UserJobs
<1>4. QED BY <1>1, <1>3 DEF LanJobs, JobRight

(* A job of a game server is posted ...                                     *)
LEMMA LanPost ==
  ASSUME IInv, NEW g \in Servers, ~Waiting(g), NEW r \in Rooms, NEW a \in {"settings", "lan"},
         DoAsync(r, a, g), JobRight(r, [act |-> a, who |-> g])',
         joined' = joined, roomNum' = roomNum, room' = room, made' = made,
         \A h \in Servers : h # g => servers'[h] = servers[h]
  PROVE  /\ JobsRight' /\ jobs' \in [Rooms -> Seq(Jobs)] /\ executing' \in [Rooms -> BOOLEAN]
         /\ \A v \in Users : Waiting(v)' <=> Waiting(v)
<1>1. [act |-> a, who |-> g] \in Jobs BY DEF Jobs, LanJobs
<1>2. Typed /\ OneEach BY DEF IInv, JobsRight
<1>3. /\ OneEach' /\ jobs' \in [Rooms -> Seq(Jobs)] /\ executing' \in [Rooms -> BOOLEAN]
      /\ Queued(r)' = Queued(r) \cup {[act |-> a, who |-> g]}
      /\ \A q \in Rooms \ {r} : Queued(q)' = Queued(q)
      /\ \A v : Waiting(v)' <=> Waiting(v) \/ v = g
  BY <1>1, <1>2, PostedJob
<1>4. ASSUME NEW q \in Rooms, NEW i \in Queued(q) PROVE JobRight(q, i)'
  <2>1. JobRight(q, i) /\ i \in Jobs /\ i.who # g
    BY <1>2, QueuedJobs, Waits DEF IInv, JobsRight
  <2>2. CASE i \in UserJobs
    <3>1. i.act \notin {"settings", "lan"} BY <2>2 DEF UserJobs, Acts
    <3>2. QED BY <2>1, <3>1 DEF JobRight
  <2>3. CASE i \in LanJobs
    <3>1. i.act \in {"settings", "lan"} /\ i.who \in Servers BY <2>3 DEF LanJobs
    <3>2. QED BY <2>1, <3>1 DEF JobRight
  <2>4. QED BY <2>1, <2>2, <2>3 DEF Jobs
<1>5. JobsRight' BY <1>3, <1>4 DEF JobsRight
<1>6. \A v \in Users : v # g BY Constants
<1>7. QED BY <1>3, <1>5, <1>6

(* ... or none.                                                             *)
LEMMA LanQuiet ==
  ASSUME IInv, NEW g \in Servers, ~Waiting(g), jobs' = jobs,
         joined' = joined, roomNum' = roomNum, room' = room, made' = made,
         \A h \in Servers : h # g => servers'[h] = servers[h]
  PROVE  /\ JobsRight' /\ \A v \in Users : Waiting(v)' <=> Waiting(v)
<1>1. /\ \A v : Waiting(v)' <=> Waiting(v)
      /\ \A q : Queued(q)' = Queued(q)
  BY DEF Waiting, Queued
<1>2. OneEach' BY DEF IInv, JobsRight, OneEach
<1>3. ASSUME NEW q \in Rooms, NEW i \in Queued(q) PROVE JobRight(q, i)'
  <2>1. JobRight(q, i) /\ i \in Jobs /\ i.who # g
    BY QueuedJobs, Waits DEF IInv, JobsRight
  <2>2. CASE i \in UserJobs
    <3>1. i.act \notin {"settings", "lan"} BY <2>2 DEF UserJobs, Acts
    <3>2. QED BY <2>1, <3>1 DEF JobRight
  <2>3. CASE i \in LanJobs
    <3>1. i.act \in {"settings", "lan"} /\ i.who \in Servers BY <2>3 DEF LanJobs
    <3>2. QED BY <2>1, <3>1 DEF JobRight
  <2>4. QED BY <2>1, <2>2, <2>3 DEF Jobs
<1>4. QED BY <1>1, <1>2, <1>3 DEF JobsRight

LEMMA LanJobSteps ==
  ASSUME IInv, NEW r \in Rooms, SettingsJob(r) \/ BroadCastJob(r) PROVE IInv'
<1>1. PICK g, j : g = Head(jobs[r]).who /\ j = Head(jobs[r]) OBVIOUS
<1>2. /\ Executed(r) /\ jobs[r] # <<>> /\ j.act \in {"settings", "lan"}
      /\ \/ j.act = "settings" /\ SettingsJob(r)
         \/ j.act = "lan" /\ BroadCastJob(r)
  BY <1>1 DEF SettingsJob, BroadCastJob, Current
<1>3. /\ OneEach' /\ jobs' \in [Rooms -> Seq(Jobs)] /\ j \in Jobs /\ JobRight(r, j)
      /\ \A q \in Rooms : \A i \in Queued(q)' : i \in Queued(q) /\ i.who # g
      /\ \A v : v # g => (Waiting(v)' <=> Waiting(v))
      /\ made' = made /\ session' = session /\ executing' = executing
      /\ requests' = requests
  BY <1>1, <1>2, JobDone
<1>4. g \in Servers /\ g \notin Users
  <2>1. j \in LanJobs BY <1>2, <1>3 DEF Jobs, UserJobs, Acts
  <2>2. QED BY <1>1, <2>1, Constants DEF LanJobs
<1>5. \A v \in Users : v # g BY <1>4
<1>6. handler' = handler BY <1>1, <1>2, <1>4 DEF Executed
<1>7. /\ registered' = registered /\ joined' = joined /\ roomNum' = roomNum /\ ready' = ready
      /\ room' = room /\ roomMap' = roomMap /\ usingRooms' = usingRooms /\ pending' = pending
  BY DEF SettingsJob, BroadCastJob, userVars
<1>8. /\ Typed /\ RoomRight(r) /\ ServerRight(g) /\ room[r].cur \in UShorts
      /\ servers[g] \in ServerRecords /\ Cardinality(room[r].members) \in Nat
  BY <1>4, RoomType DEF IInv, MembersRight, LanRight, Typed
<1>9. PICK x \in ServerRecords :
        /\ servers' = [servers EXCEPT ![g] = x] /\ x.room = servers[g].room
        /\ \/ j.act = "settings" /\ x.at = "set" /\ x.required = room[r].cur
           \/ j.act = "lan" /\ x.at = "told" /\ x.required = servers[g].required
  <2>1. CASE j.act = "settings"
    <3>1. PICK x : x = [servers[g] EXCEPT !.at = "set", !.required = room[r].cur] OBVIOUS
    <3>2. /\ x \in ServerRecords /\ x.at = "set" /\ x.required = room[r].cur
          /\ x.room = servers[g].room
      BY <1>8, <3>1 DEF ServerRecords
    <3>3. servers' = [servers EXCEPT ![g] = x]
      BY <1>1, <1>2, <1>4, <1>8, <2>1, <3>1 DEF SettingsJob, Typed
    <3>4. QED BY <2>1, <3>2, <3>3
  <2>2. CASE j.act = "lan"
    <3>1. PICK x : x = [servers[g] EXCEPT !.at = "told"] OBVIOUS
    <3>2. /\ x \in ServerRecords /\ x.at = "told" /\ x.required = servers[g].required
          /\ x.room = servers[g].room
      BY <1>8, <3>1 DEF ServerRecords
    <3>3. servers' = [servers EXCEPT ![g] = x]
      BY <1>1, <1>2, <1>4, <1>8, <2>2, <3>1 DEF BroadCastJob, Typed
    <3>4. QED BY <2>2, <3>2, <3>3
  <2>3. QED BY <1>2, <2>1, <2>2
<1>10. /\ servers'[g] = x /\ \A h \in Servers : h # g => servers'[h] = servers[h]
  BY <1>4, <1>8, <1>9 DEF Typed
<1>11. /\ j.act = "settings" => servers[g].at = "asked" /\ servers[g].room = r
       /\ j.act = "lan" => servers[g].at = "announced" /\ servers[g].room = r
  BY <1>1, <1>3 DEF JobRight
<1>12. ServerRight(g)'
  <2>1. r # NoRoom BY Constants
  <2>2. room[r].running BY <1>2, <1>8, <1>11, <2>1 DEF ServerRight
  <2>3. CASE j.act = "settings"
    <3>1. x.at = "set" /\ x.required = room[r].cur /\ x.room = r BY <1>9, <1>11, <2>3
    <3>2. room[r].cur = Cardinality(room[r].members) BY <1>8 DEF RoomRight
    <3>3. x.required >= Cardinality(room[r].members) BY <1>8, <3>1, <3>2
    <3>4. QED BY <1>7, <1>10, <2>1, <2>2, <3>1, <3>3 DEF ServerRight
  <2>4. CASE j.act = "lan"
    <3>1. x.at = "told" /\ x.required = servers[g].required /\ x.room = r BY <1>9, <1>11, <2>4
    <3>2. servers[g].required >= Cardinality(room[r].members) BY <1>8, <1>11, <2>4 DEF ServerRight
    <3>3. QED BY <1>7, <1>10, <2>1, <2>2, <3>1, <3>2 DEF ServerRight
  <2>5. QED BY <1>2, <2>3, <2>4
<1>13. LanRight' /\ servers' \in [Servers -> ServerRecords]
  <2>1. servers[g].at # "off" /\ x.at # "off" BY <1>2, <1>9, <1>11
  <2>2. QED BY <1>4, <1>7, <1>9, <1>12, <2>1, ServerMoves
<1>14. Typed' BY <1>3, <1>6, <1>7, <1>8, <1>13 DEF Typed
<1>15. JobsRight'
  <2>1. \A v \in Users : v # g =>
           /\ joined'[v] = joined[v] /\ roomNum'[v] = roomNum[v]
           /\ \A q \in Rooms : v \in room[q].members => v \in room'[q].members
    BY <1>7
  <2>2. \A h \in Servers : h # g /\ servers[h].at \in {"asked", "announced"} =>
           servers'[h].at = servers[h].at /\ servers'[h].room = servers[h].room
    BY <1>10
  <2>3. OneEach' /\ made' = made BY <1>3
  <2>4. \A q \in Rooms : \A i \in Queued(q)' : i \in Queued(q) /\ i.who # g BY <1>3
  <2>5. QED BY ONLY IInv, <2>1, <2>2, <2>3, <2>4, OthersJobs
<1>16. \A v \in Users : Waiting(v)' <=> Waiting(v) BY <1>3, <1>5
<1>17. HandlersRight' BY <1>3, <1>6, <1>7, <1>16, HandlersSame
<1>18. MembersRight' BY <1>3, <1>7, <1>16, MembersSame
<1>19. CountsRight' BY <1>3, <1>6, <1>7, CountsSame
<1>20. QED BY <1>13, <1>14, <1>15, <1>17, <1>18, <1>19 DEF IInv

LEMMA NotifyStep == ASSUME IInv, NEW g \in Servers, HandleLanInfoNotify(g) PROVE IInv'
<1>1. /\ session' = session /\ registered' = registered /\ joined' = joined
      /\ roomNum' = roomNum /\ ready' = ready /\ room' = room /\ made' = made
      /\ roomMap' = roomMap /\ usingRooms' = usingRooms /\ pending' = pending
      /\ handler' = handler /\ requests' = requests /\ servers[g].at = "set"
      /\ servers' = [servers EXCEPT ![g].at = "announced"]
  BY DEF HandleLanInfoNotify, userVars
<1>2. /\ Typed /\ ServerRight(g) /\ servers[g] \in ServerRecords
  BY DEF IInv, LanRight, Typed
<1>3. PICK x \in ServerRecords :
        /\ servers' = [servers EXCEPT ![g] = x] /\ x.room = servers[g].room
        /\ x.at = "announced" /\ x.required = servers[g].required
  <2>1. PICK x : x = [servers[g] EXCEPT !.at = "announced"] OBVIOUS
  <2>2. /\ x \in ServerRecords /\ x.at = "announced" /\ x.required = servers[g].required
        /\ x.room = servers[g].room
    BY <1>2, <2>1 DEF ServerRecords
  <2>3. servers' = [servers EXCEPT ![g] = x] BY <1>1, <1>2, <2>1 DEF Typed
  <2>4. QED BY <2>2, <2>3
<1>4. servers'[g] = x /\ \A h \in Servers : h # g => servers'[h] = servers[h]
  BY <1>2, <1>3 DEF Typed
<1>5. ServerRight(g)' BY <1>1, <1>2, <1>3, <1>4 DEF ServerRight
<1>6. LanRight' /\ servers' \in [Servers -> ServerRecords]
  BY <1>1, <1>3, <1>5, ServerMoves
<1>7. ~Waiting(g) BY <1>1, NotWaiting
<1>8. /\ JobsRight' /\ jobs' \in [Rooms -> Seq(Jobs)] /\ executing' \in [Rooms -> BOOLEAN]
      /\ \A v \in Users : Waiting(v)' <=> Waiting(v)
  <2>1. CASE servers[g].room \in roomMap
    <3>1. PICK r : r = servers[g].room OBVIOUS
    <3>2. r \in Rooms /\ r \in roomMap /\ r \in 1 .. made
      BY <1>2, <2>1, <3>1 DEF IInv, CountsRight, RoomsListed, Typed
    <3>3. r <= made'
      <4>1. made \in 0 .. MaxMade /\ MaxMade \in Nat BY <1>2, Constants DEF Typed
      <4>2. QED BY <1>1, <3>2, <4>1
    <3>4. DoAsync(r, "lan", g) BY <2>1, <3>1 DEF HandleLanInfoNotify
    <3>5. JobRight(r, [act |-> "lan", who |-> g])'
      BY <1>3, <1>4, <3>1, <3>3 DEF JobRight
    <3>6. QED BY <1>1, <1>4, <1>7, <3>2, <3>4, <3>5, LanPost
  <2>2. CASE servers[g].room \notin roomMap
    <3>1. jobs' = jobs /\ executing' = executing
      BY <2>2 DEF HandleLanInfoNotify, queueVars
    <3>2. JobsRight' /\ \A v \in Users : Waiting(v)' <=> Waiting(v)
      BY <1>1, <1>4, <1>7, <3>1, LanQuiet
    <3>3. QED BY <1>2, <3>1, <3>2 DEF Typed
  <2>3. QED BY <2>1, <2>2
<1>9. Typed' BY <1>1, <1>2, <1>6, <1>8 DEF Typed
<1>10. HandlersRight' BY <1>1, <1>8, HandlersSame
<1>11. MembersRight' BY <1>1, <1>8, MembersSame
<1>12. CountsRight' BY <1>1, CountsSame
<1>13. QED BY <1>6, <1>8, <1>9, <1>10, <1>11, <1>12 DEF IInv

(* The list without its first room.                                         *)
LEMMA ListTail ==
  ASSUME IInv, pending # <<>>, pending' = Tail(pending), NEW p, p = Head(pending)
  PROVE  /\ pending' \in Seq(Rooms) /\ IsInjective(pending') /\ p \in Rooms /\ Listed(p)
         /\ room[p].running /\ ~Listed(p)'
         /\ \A q : q # p => (Listed(q)' <=> Listed(q))
         /\ \A i \in 1 .. Len(pending') : pending'[i] \in Rooms /\ room[pending'[i]].running
<1>1. /\ pending \in Seq(Rooms) /\ IsInjective(pending)
      /\ \A i \in 1 .. Len(pending) : room[pending[i]].running
  BY DEF IInv, Typed, LanRight
<1>2. PICK n \in Nat : n + 1 = Len(pending)
  <2>1. Len(pending) \in Nat \ {0} BY <1>1, DropJob
  <2>2. \A m \in Nat \ {0} : \E k \in Nat : k + 1 = m
    <3> SUFFICES ASSUME NEW m \in Nat \ {0} PROVE \E k \in Nat : k + 1 = m OBVIOUS
    <3>1. m - 1 \in Nat /\ (m - 1) + 1 = m OBVIOUS
    <3>2. QED BY <3>1
  <2>3. QED BY <2>1, <2>2
<1>3. /\ Len(pending') = n /\ \A i \in 1 .. n : pending'[i] = pending[i + 1]
      /\ p = pending[1] /\ 1 \in 1 .. Len(pending) /\ pending' \in Seq(Rooms) /\ p \in Rooms
  BY <1>1, <1>2, DropJob
<1>4. DOMAIN pending = 1 .. n + 1 /\ DOMAIN pending' = 1 .. n BY <1>1, <1>2, <1>3
<1>5. \A i \in 1 .. n + 1, j \in 1 .. n + 1 : pending[i] = pending[j] => i = j
  BY <1>1, <1>4 DEF IsInjective
<1>6. \A i \in 1 .. n : i + 1 \in 1 .. n + 1 /\ i + 1 # 1 /\ i \in Int BY <1>2
<1>7. IsInjective(pending')
  <2>1. ASSUME NEW i \in 1 .. n, NEW j \in 1 .. n, pending'[i] = pending'[j] PROVE i = j
    <3>1. pending[i + 1] = pending[j + 1] BY <1>3, <2>1
    <3>2. i + 1 = j + 1 BY <1>5, <1>6, <3>1
    <3>3. QED BY <1>6, <3>2
  <2>2. QED BY <1>4, <2>1 DEF IsInjective
<1>8. Listed(p) BY <1>3 DEF Listed
<1>9. ~Listed(p)'
  <2>1. ASSUME NEW i \in 1 .. n PROVE pending'[i] # p
    <3>1. 1 \in 1 .. n + 1 BY <1>2
    <3>2. QED BY <1>3, <1>5, <1>6, <3>1
  <2>2. QED BY <1>3, <2>1 DEF Listed
<1>10. ASSUME NEW q, q # p PROVE Listed(q)' <=> Listed(q)
  <2>1. ASSUME NEW i \in 1 .. n, pending'[i] = q PROVE Listed(q)
    BY <1>2, <1>3, <1>6, <2>1 DEF Listed
  <2>2. ASSUME NEW i \in 1 .. n + 1, pending[i] = q PROVE Listed(q)'
    <3>1. i # 1 BY <1>3, <1>10, <2>2
    <3>2. PICK k \in 1 .. n : i = k + 1
      <4>1. i - 1 \in 1 .. n /\ i = (i - 1) + 1 BY <1>2, <3>1
      <4>2. QED BY <4>1
    <3>3. QED BY <1>3, <2>2, <3>2 DEF Listed
  <2>3. QED BY <1>2, <1>3, <2>1, <2>2 DEF Listed
<1>11. \A i \in 1 .. Len(pending') : pending'[i] \in Rooms /\ room[pending'[i]].running
  <2>1. ASSUME NEW i \in 1 .. n PROVE pending'[i] \in Rooms /\ room[pending'[i]].running
    <3>1. pending'[i] = pending[i + 1] /\ i + 1 \in 1 .. Len(pending) BY <1>2, <1>3, <1>6
    <3>2. pending[i + 1] \in Rooms /\ room[pending[i + 1]].running BY <1>1, <3>1
    <3>3. QED BY <3>1, <3>2
  <2>2. QED BY <1>3, <2>1
<1>12. room[p].running BY <1>1, <1>3
<1>13. QED BY <1>3, <1>7, <1>8, <1>9, <1>10, <1>11, <1>12

LEMMA SettingStep == ASSUME IInv, NEW g \in Servers, HandleGameSettingRequest(g) PROVE IInv'
<1>1. /\ session' = session /\ registered' = registered /\ joined' = joined
      /\ roomNum' = roomNum /\ ready' = ready /\ room' = room /\ made' = made
      /\ roomMap' = roomMap /\ usingRooms' = usingRooms
      /\ handler' = handler /\ requests' = requests /\ servers[g].at = "asking"
      /\ pending' = IF pending = <<>> THEN <<>> ELSE Tail(pending)
  BY DEF HandleGameSettingRequest, userVars
<1>2. /\ Typed /\ ServerRight(g) /\ servers[g] \in ServerRecords
  BY DEF IInv, LanRight, Typed
<1>3. servers[g].room = NoRoom BY <1>1, <1>2 DEF ServerRight
<1>4. ~Waiting(g) BY <1>1, NotWaiting
<1>5. /\ Launched = 1 .. Cardinality(Running) /\ \A h \in Servers : ServerRight(h)
      /\ \A q \in Rooms : room[q].running /\ room[q].members # {} => Matched(q)
      /\ \A q \in Rooms : q \in roomMap <=> room[q].members # {}
      /\ \A q \in Rooms : q # NoRoom
  BY Constants DEF IInv, LanRight, CountsRight, RoomsListed
<1>6. CASE pending # <<>> /\ Head(pending) \in roomMap
  <2>1. PICK p : p = Head(pending) OBVIOUS
  <2>2. /\ pending' = Tail(pending) /\ DoAsync(p, "settings", g)
        /\ servers' = [servers EXCEPT ![g].at = "asked", ![g].room = p]
    BY <1>1, <1>6, <2>1 DEF HandleGameSettingRequest
  <2>3. /\ pending' \in Seq(Rooms) /\ IsInjective(pending') /\ p \in Rooms /\ Listed(p)
        /\ room[p].running /\ ~Listed(p)'
        /\ \A q : q # p => (Listed(q)' <=> Listed(q))
        /\ \A i \in 1 .. Len(pending') : pending'[i] \in Rooms /\ room[pending'[i]].running
    BY <1>6, <2>1, <2>2, ListTail
  <2>4. PICK x : x = [servers[g] EXCEPT !.at = "asked", !.room = p] OBVIOUS
  <2>5. /\ x \in ServerRecords /\ x.at = "asked" /\ x.room = p
    BY <1>2, <2>3, <2>4 DEF ServerRecords
  <2>6. servers' = [servers EXCEPT ![g] = x] BY <1>2, <2>2, <2>4 DEF Typed
  <2>7. /\ servers'[g] = x /\ \A h \in Servers : h # g => servers'[h] = servers[h]
        /\ servers' \in [Servers -> ServerRecords]
    BY <1>2, <2>5, <2>6 DEF Typed
  <2>8. /\ JobsRight' /\ jobs' \in [Rooms -> Seq(Jobs)] /\ executing' \in [Rooms -> BOOLEAN]
        /\ \A v \in Users : Waiting(v)' <=> Waiting(v)
    <3>1. p <= made'
      <4>1. made \in 0 .. MaxMade /\ MaxMade \in Nat /\ roomMap \subseteq 1 .. made
        BY <1>2, Constants DEF Typed
      <4>2. p \in 1 .. made BY <1>6, <2>1, <4>1
      <4>3. QED BY <1>1, <4>1, <4>2
    <3>2. JobRight(p, [act |-> "settings", who |-> g])' BY <2>5, <2>7, <3>1 DEF JobRight
    <3>3. QED BY <1>1, <1>4, <2>2, <2>3, <2>7, <3>2, LanPost
  <2>9. /\ Given(p) = {} /\ Given(p)' = {g}
        /\ \A q \in Rooms : q # p => Given(q)' = Given(q)
    <3>1. Matched(p) BY <1>5, <1>6, <2>1, <2>3
    <3>2. Given(p) = {} BY <2>3, <3>1 DEF Matched
    <3>3. \A h \in Servers : servers'[h].room = p <=> h = g
      BY <2>5, <2>7, <3>2 DEF Given
    <3>4. Given(p)' = {g} BY <3>3 DEF Given
    <3>5. ASSUME NEW q \in Rooms, q # p PROVE Given(q)' = Given(q)
      <4>1. \A h \in Servers : servers'[h].room = q <=> servers[h].room = q
        BY <1>3, <1>5, <2>5, <2>7, <3>5
      <4>2. QED BY <4>1 DEF Given
    <3>6. QED BY <3>2, <3>4, <3>5
  <2>10. LanRight'
    <3>1. Launched' = Launched /\ Running' = Running
      <4>1. \A h \in Servers : servers'[h].at # "off" <=> servers[h].at # "off"
        BY <1>1, <2>5, <2>7
      <4>2. QED BY <1>1, <4>1 DEF Launched, Running
    <3>2. ASSUME NEW h \in Servers PROVE ServerRight(h)'
      <4>1. CASE h = g BY <1>1, <1>5, <2>3, <2>5, <2>7, <4>1 DEF ServerRight
      <4>2. CASE h # g BY <1>1, <1>5, <2>7, <4>2 DEF ServerRight
      <4>3. QED BY <4>1, <4>2
    <3>3. ASSUME NEW q \in Rooms, room'[q].running, room'[q].members # {} PROVE Matched(q)'
      <4>1. CASE q = p BY <2>3, <2>9, <4>1 DEF Matched
      <4>2. CASE q # p
        <5>1. Matched(q) BY <1>1, <1>5, <3>3
        <5>2. QED BY <2>3, <2>9, <4>2, <5>1 DEF Matched
      <4>3. QED BY <4>1, <4>2
    <3>4. IsInjective(pending)' BY <2>3 DEF IsInjective
    <3>5. \A i \in 1 .. Len(pending') : room'[pending'[i]].running BY <1>1, <2>3
    <3>6. QED BY <1>5, <3>1, <3>2, <3>3, <3>4, <3>5 DEF LanRight
  <2>11. Typed' BY <1>1, <1>2, <2>3, <2>7, <2>8 DEF Typed
  <2>12. HandlersRight' BY <1>1, <2>8, HandlersSame
  <2>13. MembersRight' BY <1>1, <2>8, MembersSame
  <2>14. CountsRight' BY <1>1, CountsSame
  <2>15. QED BY <2>8, <2>10, <2>11, <2>12, <2>13, <2>14 DEF IInv
<1>7. CASE ~(pending # <<>> /\ Head(pending) \in roomMap)
  <2>1. /\ servers' = [servers EXCEPT ![g].at = "unanswered"]
        /\ jobs' = jobs /\ executing' = executing
    BY <1>7 DEF HandleGameSettingRequest, queueVars
  <2>2. PICK x : x = [servers[g] EXCEPT !.at = "unanswered"] OBVIOUS
  <2>3. /\ x \in ServerRecords /\ x.at = "unanswered" /\ x.room = NoRoom
    BY <1>2, <1>3, <2>2 DEF ServerRecords
  <2>4. servers' = [servers EXCEPT ![g] = x] BY <1>2, <2>1, <2>2 DEF Typed
  <2>5. /\ servers'[g] = x /\ \A h \in Servers : h # g => servers'[h] = servers[h]
        /\ servers' \in [Servers -> ServerRecords]
    BY <1>2, <2>3, <2>4 DEF Typed
  <2>6. JobsRight' /\ \A v \in Users : Waiting(v)' <=> Waiting(v)
    BY <1>1, <1>4, <2>1, <2>5, LanQuiet
  <2>7. /\ pending' \in Seq(Rooms) /\ IsInjective(pending)'
        /\ \A q \in Rooms : room[q].members # {} => (Listed(q)' <=> Listed(q))
        /\ \A i \in 1 .. Len(pending') : room[pending'[i]].running
    <3>1. CASE pending = <<>>
      <4>1. pending' = pending BY <1>1, <3>1
      <4>2. QED BY <1>2, <4>1 DEF Typed, IInv, LanRight, IsInjective, Listed
    <3>2. CASE pending # <<>>
      <4>1. PICK p : p = Head(pending) OBVIOUS
      <4>2. pending' = Tail(pending) BY <1>1, <3>2
      <4>3. /\ pending' \in Seq(Rooms) /\ IsInjective(pending') /\ p \in Rooms
            /\ \A q : q # p => (Listed(q)' <=> Listed(q))
            /\ \A i \in 1 .. Len(pending') : pending'[i] \in Rooms /\ room[pending'[i]].running
        BY <3>2, <4>1, <4>2, ListTail
      <4>4. room[p].members = {} BY <1>5, <1>7, <3>2, <4>1, <4>3
      <4>5. \A q \in Rooms : room[q].members # {} => (Listed(q)' <=> Listed(q)) BY <4>3, <4>4
      <4>6. IsInjective(pending)' BY <4>3 DEF IsInjective
      <4>7. QED BY <4>3, <4>5, <4>6
    <3>3. QED BY <3>1, <3>2
  <2>8. LanRight'
    <3>1. \A h \in Servers : /\ servers'[h].at # "off" <=> servers[h].at # "off"
                             /\ servers'[h].room = servers[h].room
      BY <1>1, <1>3, <2>3, <2>5
    <3>2. Launched' = Launched /\ Running' = Running /\ \A q : Given(q)' = Given(q)
      <4>1. Launched' = Launched BY <3>1 DEF Launched
      <4>2. \A q : Given(q)' = Given(q) BY <3>1 DEF Given
      <4>3. QED BY <1>1, <4>1, <4>2 DEF Running
    <3>3. ASSUME NEW h \in Servers PROVE ServerRight(h)'
      <4>1. CASE h = g BY <2>3, <2>5, <4>1 DEF ServerRight
      <4>2. CASE h # g BY <1>1, <1>5, <2>5, <4>2 DEF ServerRight
      <4>3. QED BY <4>1, <4>2
    <3>4. ASSUME NEW q \in Rooms, room'[q].running, room'[q].members # {} PROVE Matched(q)'
      <4>1. Matched(q) /\ room[q].members # {} BY <1>1, <1>5, <3>4
      <4>2. Listed(q)' <=> Listed(q) BY <2>7, <4>1
      <4>3. QED BY <3>2, <4>1, <4>2 DEF Matched
    <3>5. \A i \in 1 .. Len(pending') : room'[pending'[i]].running BY <1>1, <2>7
    <3>6. QED BY <1>5, <2>7, <3>2, <3>3, <3>4, <3>5 DEF LanRight
  <2>9. Typed' BY <1>1, <1>2, <2>1, <2>5, <2>7 DEF Typed
  <2>10. HandlersRight' BY <1>1, <2>6, HandlersSame
  <2>11. MembersRight' BY <1>1, <2>6, MembersSame
  <2>12. CountsRight' BY <1>1, CountsSame
  <2>13. QED BY <2>6, <2>8, <2>9, <2>10, <2>11, <2>12 DEF IInv
<1>8. QED BY <1>6, <1>7

-----------------------------------------------------------------------------
LEMMA InitIInv == Init => IInv
<1> SUFFICES ASSUME Init PROVE IInv OBVIOUS
<1>1. /\ room = [r \in Rooms |-> Unmade] /\ made = 0 /\ roomMap = {} /\ usingRooms = 0
      /\ handler = [u \in Users |-> Idle] /\ pending = <<>> /\ requests = 0
      /\ jobs = [r \in Rooms |-> <<>>]
      /\ servers = [g \in Servers |-> [at |-> "off", room |-> NoRoom, required |-> 0]]
      /\ joined = [u \in Users |-> FALSE] /\ roomNum = [u \in Users |-> NoRoom]
  BY DEF Init
<1>2. /\ Unmade.members = {} /\ Unmade.cur = 0 /\ Unmade.running = FALSE
      /\ Idle.at = "idle" /\ Idle.act = "none"
  BY DEF Unmade, Idle
<1>3. /\ MaxMade \in Nat /\ MaxRequests \in Nat /\ MaxRooms \in Nat /\ RoomSize \in Nat
  BY Constants, UShortType
<1>4. Typed
  <2>1. Unmade \in RoomRecords BY UShortType DEF Unmade, RoomRecords
  <2>2. Idle \in Handlers BY DEF Idle, Handlers
  <2>3. [at |-> "off", room |-> NoRoom, required |-> 0] \in ServerRecords
    BY UShortType DEF ServerRecords
  <2>4. made \in 0 .. MaxMade /\ requests \in 0 .. MaxRequests BY <1>1, <1>3
  <2>5. <<>> \in Seq(Jobs) /\ <<>> \in Seq(Rooms) OBVIOUS
  <2>6. /\ room \in [Rooms -> RoomRecords] /\ handler \in [Users -> Handlers]
        /\ servers \in [Servers -> ServerRecords] /\ jobs \in [Rooms -> Seq(Jobs)]
        /\ pending \in Seq(Rooms)
    BY <1>1, <2>1, <2>2, <2>3, <2>5
  <2>7. QED BY <1>1, <2>4, <2>6 DEF Init, Typed
<1>5. /\ \A r \in Rooms : Queued(r) = {}
      /\ \A u : ~Waiting(u)
  BY <1>1 DEF Queued, Waiting
<1>6. JobsRight BY <1>1, <1>5 DEF JobsRight, OneEach
<1>7. HandlersRight BY <1>1, <1>2 DEF HandlersRight, HandlerOf
<1>8. MembersRight
  <2>1. \A u \in Users : UserRight(u) BY <1>1 DEF UserRight
  <2>2. Cardinality({}) = 0 BY FS_EmptySet
  <2>3. ASSUME NEW r \in Rooms PROVE RoomRight(r)
    <3>1. /\ room[r] = Unmade /\ room[r].members = {} /\ room[r].cur = 0 BY <1>1, <1>2
    <3>2. room[r].cur <= RoomSize BY <1>3, <3>1
    <3>3. QED BY <2>2, <3>1, <3>2 DEF RoomRight
  <2>4. QED BY <2>1, <2>3 DEF MembersRight
<1>9. CountsRight
  <2>1. At({"create", "unreserve"}) = {} /\ At({"create"}) = {} /\ Making = {}
    BY <1>1, <1>2 DEF At, Making
  <2>2. Cardinality({}) = 0 BY FS_EmptySet
  <2>3. roomMap = {r \in Rooms : room[r].members # {}} BY <1>1, <1>2
  <2>4. /\ Cardinality(roomMap) = 0 /\ Cardinality(At({"create", "unreserve"})) = 0
        /\ Cardinality(At({"create"})) = 0 /\ Cardinality(Making) = 0
    BY <1>1, <2>1, <2>2
  <2>5. usingRooms = Cardinality(roomMap) + Cardinality(At({"create", "unreserve"}))
    BY <1>1, <2>4
  <2>6. /\ Cardinality(roomMap) <= MaxRooms
        /\ Cardinality(roomMap) + Cardinality(At({"create"})) <= MaxRooms
        /\ made + Cardinality(Making) <= MaxMade
    BY <1>1, <1>3, <2>4
  <2>7. RoomsListed BY <2>3, <2>5, <2>6 DEF RoomsListed, At
  <2>8. QED BY <2>6, <2>7 DEF CountsRight
<1>10. LanRight
  <2>1. Launched = {} /\ Running = {} BY <1>1, <1>2 DEF Launched, Running
  <2>2. Cardinality({}) = 0 BY FS_EmptySet
  <2>3. 1 .. 0 = {} OBVIOUS
  <2>4. Launched = 1 .. Cardinality(Running) BY <2>1, <2>2, <2>3
  <2>5. IsInjective(pending) /\ \A i \in 1 .. Len(pending) : room[pending[i]].running
    BY <1>1 DEF IsInjective
  <2>6. \A g \in Servers : ServerRight(g) BY <1>1 DEF ServerRight
  <2>7. \A r \in Rooms : ~room[r].running BY <1>1, <1>2
  <2>8. QED BY <2>4, <2>5, <2>6, <2>7 DEF LanRight
<1>11. QED BY <1>4, <1>6, <1>7, <1>8, <1>9, <1>10 DEF IInv

LEMMA Stutter == ASSUME IInv, UNCHANGED vars PROVE IInv'
<1>1. /\ session' = session /\ registered' = registered /\ joined' = joined
      /\ roomNum' = roomNum /\ ready' = ready /\ room' = room /\ made' = made
      /\ roomMap' = roomMap /\ usingRooms' = usingRooms /\ pending' = pending
      /\ servers' = servers /\ jobs' = jobs /\ executing' = executing
      /\ handler' = handler /\ requests' = requests
  BY DEF vars, userVars, roomVars, lanVars, queueVars
<1>2. /\ \A v : Waiting(v)' <=> Waiting(v)
      /\ \A q : Queued(q)' = Queued(q)
  BY <1>1 DEF Waiting, Queued
<1>3. Typed' BY <1>1 DEF IInv, Typed
<1>4. JobsRight'
  <2>1. OneEach' BY <1>1 DEF IInv, JobsRight, OneEach
  <2>2. \A q, j : JobRight(q, j)' <=> JobRight(q, j) BY <1>1 DEF JobRight
  <2>3. QED BY <1>2, <2>1, <2>2 DEF IInv, JobsRight
<1>5. HandlersRight' BY <1>1, <1>2, HandlersSame
<1>6. MembersRight' BY <1>1, <1>2, MembersSame
<1>7. CountsRight' BY <1>1, CountsSame
<1>8. LanRight' BY <1>1, LanKept DEF IInv
<1>9. QED BY <1>3, <1>4, <1>5, <1>6, <1>7, <1>8 DEF IInv

LEMMA NextIInv == ASSUME Patient, IInv, [Next]_vars PROVE IInv'
<1>1. ASSUME NEW u \in Users, LogIn(u) \/ Request(u) \/ Disconnect(u) \/ Handle(u) PROVE IInv'
  <2>1. CASE LogIn(u) BY <2>1, LogInStep
  <2>2. CASE Request(u) BY <2>2, RequestStep
  <2>3. CASE Disconnect(u) BY <2>3, DisconnectStep
  <2>4. CASE FindRoom(u) BY <2>4, FindRoomStep
  <2>5. CASE Post(u) BY <2>5, PostStep
  <2>6. CASE EndExecute(u) BY <2>6, EndExecuteStep
  <2>7. CASE CheckMake(u) \/ CheckEnter(u) \/ CheckLeave(u) \/ CheckOwn(u) \/ DisconnectUser(u)
    BY <2>7, CheckSteps
  <2>8. CASE Reserve(u) \/ Unreserve(u) BY <2>8, ReserveSteps
  <2>9. CASE Create(u) BY <2>9, CreateStep
  <2>10. QED BY <1>1, <2>1, <2>2, <2>3, <2>4, <2>5, <2>6, <2>7, <2>8, <2>9 DEF Handle
<1>2. ASSUME NEW r \in Rooms, Execute(r) \/ LeaveBegins(r) PROVE IInv'
  <2>1. CASE EnterJob(r) BY <2>1, EnterStep
  <2>2. CASE ReadyJob(r) BY <2>2, ReadyStep
  <2>3. CASE ChatJob(r) BY <2>3, ChatStep
  <2>4. CASE LeaveJob(r) \/ ByeJob(r) BY <2>4, LeaveSteps
  <2>5. CASE Settle(r) BY <2>5, SettleStep
  <2>6. CASE SettingsJob(r) \/ BroadCastJob(r) BY <2>6, LanJobSteps
  <2>7. CASE LeaveBegins(r) BY <2>7, LeaveBeginsStep
  <2>8. QED BY <1>2, <2>1, <2>2, <2>3, <2>4, <2>5, <2>6, <2>7 DEF Execute
<1>3. ASSUME NEW g \in Servers, HandleLan(g) PROVE IInv'
  <2>1. CASE HandleGameSettingRequest(g) BY <2>1, SettingStep
  <2>2. CASE HandleLanInfoNotify(g) BY <2>2, NotifyStep
  <2>3. QED BY <1>3, <2>1, <2>2 DEF HandleLan
<1>4. CASE UNCHANGED vars BY <1>4, Stutter
<1>5. QED BY <1>1, <1>2, <1>3, <1>4 DEF Next, Quiet

(* With patient clients the inductive invariant holds in every state: types,*)
(* counts, what handlers and jobs rely on, membership and game servers.     *)
THEOREM Invariance == ASSUME Patient PROVE Spec => []IInv
<1>1. IInv /\ [Next]_vars => IInv' BY NextIInv
<1>2. QED BY <1>1, InitIInv, PTL DEF Spec

LEMMA TypeRight == ASSUME IInv PROVE TypeOK
<1>1. /\ usingRooms = Cardinality(roomMap) + Cardinality(At({"create", "unreserve"}))
      /\ Cardinality(roomMap) <= MaxRooms /\ roomMap \in SUBSET Rooms
  BY DEF IInv, CountsRight, RoomsListed, At
<1>2. /\ Cardinality(At({"create", "unreserve"})) <= Cardinality(Users)
      /\ Cardinality(At({"create", "unreserve"})) \in Nat /\ Cardinality(roomMap) \in Nat
  <2>1. At({"create", "unreserve"}) \in SUBSET Users BY DEF At
  <2>2. /\ IsFiniteSet(At({"create", "unreserve"})) /\ IsFiniteSet(roomMap)
        /\ Cardinality(At({"create", "unreserve"})) <= Cardinality(Users)
    BY <1>1, <2>1, Constants, FS_Subset
  <2>3. QED BY <2>2, FS_CardinalityType
<1>3. usingRooms \in 0 .. MaxRooms + Cardinality(Users)
  <2>1. MaxRooms \in Nat /\ Cardinality(Users) \in Nat BY Constants
  <2>2. QED BY ONLY <1>1, <1>2, <2>1
<1>4. Typed BY DEF IInv
<1>5. /\ room \in [Rooms -> [members : SUBSET Users, cur : UShorts, readyCnt : UShorts,
                             owner : Users \cup {"none"}, running : BOOLEAN]]
      /\ jobs \in [Rooms -> Seq([act : Acts, who : Users]
                                \cup [act : {"settings", "lan"}, who : Servers])]
  BY <1>4 DEF Typed, RoomRecords, Jobs, UserJobs, LanJobs
<1>6. QED BY <1>3, <1>4, <1>5 DEF TypeOK, Typed, Handlers, ServerRecords

(* The map of users of a room and what the users say of themselves agree,   *)
(* m_usCurUserCnt is the size of the map and never wraps, and the owner is  *)
(* in the room: handlers act on what they read before, and the jobs of      *)
(* enter, leave and disconnect change both sides.                           *)
THEOREM SpecMembershipExact == ASSUME Patient PROVE Spec => []MembershipExact
<1>1. ASSUME IInv PROVE MembershipExact
  <2>1. /\ \A u \in Users : UserRight(u) /\ roomNum[u] \in Rooms \cup {NoRoom}
        /\ \A r \in Rooms : RoomRight(r)
    BY <1>1 DEF IInv, MembersRight, Typed
  <2>2. \A u \in Users : joined[u] /\ roomNum[u] # NoRoom => u \in room[roomNum[u]].members
    BY <2>1 DEF UserRight
  <2>3. \A r \in Rooms :
       /\ room[r].cur = Cardinality(room[r].members)
       /\ room[r].members # {} => room[r].owner \in room[r].members
       /\ \A u \in room[r].members :
            /\ joined[u] /\ roomNum[u] \in {r, NoRoom}
            /\ \A q \in Rooms \ {r} : u \notin room[q].members
    BY <2>1 DEF RoomRight
  <2>4. QED BY <1>1, <2>2, <2>3, TypeRight DEF MembershipExact
<1>2. QED BY <1>1, Invariance, PTL

(* The map of rooms is exact, m_usUsingRoomCnt counts what it should while  *)
(* rooms are made and destroyed, and there are never more rooms than        *)
(* m_usMaxRoomCnt: CreateRoom counts first and looks then.                  *)
THEOREM SpecRoomsListed == ASSUME Patient PROVE Spec => []RoomsListed
<1>1. IInv => RoomsListed BY DEF IInv, CountsRight
<1>2. QED BY <1>1, Invariance, PTL

(* A running room with members is in the list of pending rooms or has one   *)
(* game server, never both and never two, however many rooms start, empty   *)
(* and are asked for in between; and that server waits for no fewer users   *)
(* than are in the room.                                                    *)
THEOREM SpecServersMatch == ASSUME Patient PROVE Spec => []ServersMatch
<1>1. ASSUME IInv PROVE ServersMatch
  <2> DEFINE given == [r \in Rooms |-> {g \in Servers : servers[g].room = r}]
  <2>1. /\ IsInjective(pending) /\ pending \in Seq(Rooms)
        /\ \A i \in 1 .. Len(pending) : room[pending[i]].running
        /\ \A g \in Servers : ServerRight(g) /\ servers[g] \in ServerRecords
        /\ \A r \in Rooms : room[r].running /\ room[r].members # {} => Matched(r)
        /\ \A r \in Rooms : r # NoRoom
    BY <1>1, Constants DEF IInv, LanRight, Typed
  <2>2. \A r \in Rooms : given[r] = Given(r) BY DEF Given
  <2>3. \A r : r \in ToSet(pending) <=> Listed(r)
    BY <2>1 DEF ToSet, Listed
  <2>4. ASSUME NEW r \in Rooms, room[r].running, room[r].members # {}
        PROVE  Cardinality(given[r]) + Cardinality({r} \cap ToSet(pending)) = 1
    <3>1. Cardinality({}) = 0 /\ Cardinality({r}) = 1 BY FS_EmptySet, FS_Singleton
    <3>2. Matched(r) BY <2>1, <2>4
    <3>3. CASE Listed(r) /\ Given(r) = {}
      <4>1. {r} \cap ToSet(pending) = {r} /\ given[r] = {} BY <2>2, <2>3, <3>3
      <4>2. Cardinality({r} \cap ToSet(pending)) = 1 /\ Cardinality(given[r]) = 0
        BY <3>1, <4>1
      <4>3. QED BY ONLY <4>2
    <3>4. CASE ~Listed(r) /\ \E g \in Servers : Given(r) = {g}
      <4>1. PICK g \in Servers : Given(r) = {g} BY <3>4
      <4>2. {r} \cap ToSet(pending) = {} /\ given[r] = {g} BY <2>2, <2>3, <3>4, <4>1
      <4>3. Cardinality({g}) = 1 BY FS_Singleton
      <4>4. Cardinality({r} \cap ToSet(pending)) = 0 /\ Cardinality(given[r]) = 1
        BY <3>1, <4>2, <4>3
      <4>5. QED BY ONLY <4>4
    <3>5. QED BY <3>2, <3>3, <3>4 DEF Matched
  <2>5. ASSUME NEW r \in Rooms, ~room[r].running
        PROVE  given[r] = {} /\ r \notin ToSet(pending)
    <3>1. ~Listed(r) BY <2>1, <2>5 DEF Listed
    <3>2. Given(r) = {} BY <2>1, <2>5 DEF Given, ServerRight
    <3>3. QED BY <2>2, <2>3, <3>1, <3>2
  <2>6. ASSUME NEW r \in Rooms, NEW g \in given[r], servers[g].at # "asked"
        PROVE  servers[g].required >= Cardinality(room[r].members)
    <3>1. g \in Servers /\ servers[g].room = r OBVIOUS
    <3>2. ServerRight(g) /\ r # NoRoom /\ servers[g] \in ServerRecords BY <2>1, <3>1
    <3>3. servers[g].at \in {"off", "asking", "unanswered", "asked", "set", "announced", "told"}
      BY <3>2 DEF ServerRecords
    <3>4. QED BY <2>6, <3>1, <3>2, <3>3 DEF ServerRight
  <2>7. QED BY <2>1, <2>4, <2>5, <2>6 DEF ServersMatch
<1>2. QED BY <1>1, Invariance, PTL
=============================================================================
