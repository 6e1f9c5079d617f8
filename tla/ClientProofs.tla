---------------------------- MODULE ClientProofs ----------------------------
(***************************************************************************)
(* Proofs about the side that connects.                                    *)
(*                                                                         *)
(* DummyClient, for any finite set of dummies and any rooms: the three     *)
(* containers of the dummies agree, the program ends only by a packet that *)
(* was left behind when its dummy was removed, and each dummy agrees with  *)
(* the lobby about where the two stand in their conversation.              *)
(*                                                                         *)
(* ClientSessions, for any slots, workers and numbers of connections: the  *)
(* types in every mode, and as long as handlers only call on their own     *)
(* session the counter of each slot stands for the threads and operations  *)
(* it has, so that the indices are conserved, each session ends once and   *)
(* each of its two sides is one operation or one thread.                   *)
(***************************************************************************)
EXTENDS DummyClient, ClientSessions, FiniteSetTheorems, TLAPS

Statuses == {"connected", "rtt", "lobby", "enter", "room", "chat", "leave"}
Records == [status : Statuses, next : {"never", "later", "due"}, room : Rooms \cup {0}]
Packets ==
  [dummy : Dummies, rooms : SUBSET Rooms,
   type : {"login", "list", "echo", "made", "entered", "error", "left", "chatted", "notify"}]
Events == [dummy : Dummies, what : {"connect", "disconnect"}]
Requests ==
  [act : {"login", "list", "echo", "make", "enter", "leave", "chat", "bye"}, room : Rooms \cup {0}]
Jobs == [dummy : Dummies, act : {"enter", "leave", "chat", "bye"}]

TypeOK ==
  /\ link \in [Dummies -> {"new", "up", "down"}] /\ first \in BOOLEAN
  /\ net \in Seq(Packets) /\ batch \in Seq(Packets)
  /\ conn \in Seq(Events) /\ events \in Seq(Events)
  /\ pc \in {"net", "handle", "events", "logic", "crashed"}
  /\ DOMAIN dummy \subseteq Dummies /\ dummy \in [DOMAIN dummy -> Records]
  /\ list \in Seq(Dummies) /\ index \in [DOMAIN index -> Nat]
  /\ asked \in [Dummies -> Seq(Requests)]
  /\ at \in [Dummies -> Rooms \cup {0}] /\ jobs \in [Rooms -> Seq(Jobs)]

(* The events of connections that the thread has still to handle.           *)
Pending == events \o conn

(* A dummy is announced once, before it exists, and its end is announced    *)
(* when its connection is down.                                             *)
EventsRight ==
  /\ pc # "events" => events = <<>>
  /\ \A s \in DOMAIN dummy : link[s] # "new"
  /\ \A i \in DOMAIN Pending :
       /\ link[Pending[i].dummy] # "new"
       /\ Pending[i].what = "disconnect" => link[Pending[i].dummy] = "down"
       /\ Pending[i].what = "connect" =>
            /\ Pending[i].dummy \notin DOMAIN dummy
            /\ \A k \in DOMAIN Pending :
                 Pending[k].what = "connect" /\ Pending[k].dummy = Pending[i].dummy => k = i

(* Only a dummy in one of these statuses has a time for its next action.    *)
TimedRight ==
  \A s \in DOMAIN dummy : dummy[s].next # "never" => dummy[s].status \in {"lobby", "rtt", "room"}

(* Whatever is under way for a dummy, it exists or its connection is down.  *)
ExistsOrDown(s) == s \in DOMAIN dummy \/ link[s] = "down"
OfThem(things) == {x \in things : ExistsOrDown(x.dummy)}
UnderWayRight ==
  /\ net \in Seq(OfThem(Packets)) /\ batch \in Seq(OfThem(Packets))
  /\ \A r \in Rooms : jobs[r] \in Seq(OfThem(Jobs))
  /\ \A s \in Dummies : asked[s] # <<>> \/ at[s] # 0 => ExistsOrDown(s)

Crashed == pc = "crashed" => batch # <<>> /\ link[S] = "down"

IInv == TypeOK /\ EventsRight /\ TimedRight /\ ListsAgree /\ UnderWayRight /\ Crashed
-----------------------------------------------------------------------------
(* What a dummy does for itself: it goes on as some d, and may send one     *)
(* request.  All packets of the lobby, the logic and the clock end in this. *)
Acts(s, d) ==
  /\ s \in DOMAIN dummy /\ d \in Records
  /\ d.next # "never" => d.status \in {"lobby", "rtt", "room"}
  /\ dummy' = [dummy EXCEPT ![s] = d]
  /\ asked' = asked \/ \E q \in Requests : asked' = [asked EXCEPT ![s] = Append(@, q)]

DummyMoves == UNCHANGED <<dummy, asked>> \/ \E s \in Dummies, d \in Records : Acts(s, d)

(* Sending a request is such a move.                                        *)
LEMMA SendIsMove ==
  ASSUME TypeOK, NEW s \in DOMAIN dummy,
         NEW act \in {"login", "list", "echo", "make", "enter", "leave", "chat", "bye"},
         NEW r \in Rooms \cup {0}, NEW d \in Records, SendToDummy(s, act, r, d)
  PROVE  DummyMoves
<1>1. [d EXCEPT !.next = "never"] \in Records /\ [d EXCEPT !.next = "never"].next = "never"
  BY DEF Records
<1>2. [act |-> act, room |-> r] \in Requests
  BY DEF Requests
<1>3. Acts(s, [d EXCEPT !.next = "never"])
  BY <1>1, <1>2 DEF SendToDummy, Acts
<1>4. QED BY <1>1, <1>3 DEF DummyMoves, TypeOK

(* Going on after a time is one, in a status with a next action.            *)
LEMMA LaterIsMove ==
  ASSUME TypeOK, S \in DOMAIN dummy, NEW d \in Records,
         d.status \in {"lobby", "rtt", "room"}, Later(d), asked' = asked
  PROVE  DummyMoves
<1>1. [d EXCEPT !.next = "later"] \in Records /\ [d EXCEPT !.next = "later"].status = d.status
  BY DEF Records
<1>2. Acts(S, [d EXCEPT !.next = "later"])
  BY <1>1 DEF Later, Acts
<1>3. QED BY <1>1, <1>2 DEF DummyMoves, TypeOK

(* The head of the batch names a dummy of the thread.                       *)
LEMMA HeadOfBatch ==
  ASSUME TypeOK, batch # <<>>
  PROVE  S \in Dummies /\ Head(batch) \in Packets /\ Tail(batch) \in Seq(Packets)
<1>1. Head(batch) \in Packets /\ Tail(batch) \in Seq(Packets) BY DEF TypeOK
<1>2. QED BY <1>1 DEF S, Packets

HandlesOne ==
  \/ HandleStrange \/ HandleLogInResponse \/ HandleRoomListResponse \/ HandleMakeRoomResponse
  \/ HandleEnterRoomResponse \/ HandleChatNotify \/ HandleChatResponse
  \/ HandleLeaveRoomResponse \/ HandleError \/ HandleEcho

(* Every packet that does not end the program is such a move of its dummy.  *)
LEMMA HandlesOneMoves ==
  ASSUME TypeOK, HandlesOne
  PROVE  /\ batch # <<>> /\ pc = "handle" /\ Handled /\ first' \in BOOLEAN
         /\ DummyMoves
<1>1. batch # <<>> /\ pc = "handle" /\ Handled /\ first' \in BOOLEAN
  BY DEF HandlesOne, HandleStrange, HandleLogInResponse, HandleRoomListResponse,
    HandleMakeRoomResponse, HandleEnterRoomResponse, HandleChatNotify, HandleChatResponse,
    HandleLeaveRoomResponse, HandleError, HandleEcho, Packet, TypeOK
<1> SUFFICES DummyMoves BY <1>1
<1>2. S \in Dummies /\ Head(batch).rooms \in SUBSET Rooms
  BY <1>1, HeadOfBatch DEF Packets
<1>3. Known => dummy[S] \in Records
  BY DEF Known, TypeOK
<1>4. CASE HandleStrange \/ HandleChatNotify
  BY <1>4 DEF HandleStrange, HandleChatNotify, DummyMoves
<1>5. CASE HandleLogInResponse
  <2>1. S \in DOMAIN dummy /\ asked' = asked
    BY <1>5 DEF HandleLogInResponse, In, Known
  <2>2. [dummy[S] EXCEPT !.status = IF first THEN "rtt" ELSE "lobby"] \in Records
    BY <1>3, <2>1 DEF Known, Records, Statuses
  <2>3. QED BY <1>5, <2>1, <2>2, <1>3, LaterIsMove DEF HandleLogInResponse, Known, Records
<1>6. CASE HandleRoomListResponse
  <2>1. S \in DOMAIN dummy
    BY <1>6 DEF HandleRoomListResponse, In, Known
  <2>2. CASE SendToDummy(S, "make", 0, dummy[S])
    BY <1>3, <2>1, <2>2, SendIsMove DEF Known
  <2>3. ASSUME NEW r \in Head(batch).rooms,
               SendToDummy(S, "enter", r, [dummy[S] EXCEPT !.status = "enter", !.room = r])
        PROVE  DummyMoves
    <3>1. [dummy[S] EXCEPT !.status = "enter", !.room = r] \in Records
      BY <1>2, <1>3, <2>1 DEF Known, Records, Statuses
    <3>2. QED BY <1>2, <2>1, <2>3, <3>1, SendIsMove
  <2>4. QED BY <1>6, <2>2, <2>3 DEF HandleRoomListResponse
<1>7. CASE HandleMakeRoomResponse
  <2>1. S \in DOMAIN dummy /\ asked' = asked /\ dummy[S].status = "lobby"
    BY <1>7 DEF HandleMakeRoomResponse, In, Known
  <2>2. CASE Head(batch).rooms = {}
    BY <1>3, <1>7, <2>1, <2>2, LaterIsMove DEF HandleMakeRoomResponse, Known
  <2>3. CASE Head(batch).rooms # {}
    <3> DEFINE d == [status |-> "enter", next |-> "never",
                     room |-> CHOOSE r \in Head(batch).rooms : TRUE]
    <3>1. d \in Records /\ d.next = "never"
      BY <1>2, <2>3 DEF Records, Statuses
    <3>2. dummy' = [dummy EXCEPT ![S] = d]
      BY <1>7, <2>3 DEF HandleMakeRoomResponse
    <3> HIDE DEF d
    <3>3. Acts(S, d) BY <2>1, <3>1, <3>2 DEF Acts
    <3>4. QED BY <1>2, <3>1, <3>3 DEF DummyMoves
  <2>4. QED BY <2>2, <2>3
<1>8. CASE HandleEnterRoomResponse
  <2>1. S \in DOMAIN dummy /\ asked' = asked
    BY <1>8 DEF HandleEnterRoomResponse, In, Known
  <2>2. [dummy[S] EXCEPT !.status = "room"] \in Records
    BY <1>3, <2>1 DEF Known, Records, Statuses
  <2>3. QED BY <1>8, <2>1, <2>2, <1>3, LaterIsMove DEF HandleEnterRoomResponse, Known, Records
<1>9. CASE HandleChatResponse
  <2>1. S \in DOMAIN dummy /\ asked' = asked
    BY <1>9 DEF HandleChatResponse, In, Known
  <2>2. [dummy[S] EXCEPT !.status = "room"] \in Records
    BY <1>3, <2>1 DEF Known, Records, Statuses
  <2>3. QED BY <1>9, <2>1, <2>2, <1>3, LaterIsMove DEF HandleChatResponse, Known, Records
<1>10. CASE HandleLeaveRoomResponse
  <2>1. S \in DOMAIN dummy /\ asked' = asked
    BY <1>10 DEF HandleLeaveRoomResponse, In, Known
  <2>2. [dummy[S] EXCEPT !.status = "lobby", !.room = 0] \in Records
    BY <1>3, <2>1 DEF Known, Records, Statuses
  <2>3. QED BY <1>10, <2>1, <2>2, <1>3, LaterIsMove DEF HandleLeaveRoomResponse, Known, Records
<1>11. CASE HandleError
  <2>1. S \in DOMAIN dummy /\ asked' = asked
    BY <1>11 DEF HandleError, Known
  <2>2. [dummy[S] EXCEPT !.status = "lobby"] \in Records
    BY <1>3, <2>1 DEF Known, Records, Statuses
  <2>3. QED BY <1>11, <2>1, <2>2, <1>3, LaterIsMove DEF HandleError, Known, Records
<1>12. CASE HandleEcho
  BY <1>3, <1>12, LaterIsMove DEF HandleEcho, In, Known
<1>13. QED
  BY <1>4, <1>5, <1>6, <1>7, <1>8, <1>9, <1>10, <1>11, <1>12 DEF HandlesOne

-----------------------------------------------------------------------------
(* Such a move neither makes nor removes a dummy, and only a dummy that     *)
(* exists asks for something.                                               *)
LEMMA MovesKeep ==
  ASSUME TypeOK, TimedRight, DummyMoves
  PROVE  /\ DOMAIN dummy' = DOMAIN dummy /\ dummy' \in [DOMAIN dummy' -> Records]
         /\ asked' \in [Dummies -> Seq(Requests)]
         /\ TimedRight'
         /\ \A s \in Dummies : asked'[s] # <<>> => asked[s] # <<>> \/ s \in DOMAIN dummy
<1>1. CASE UNCHANGED <<dummy, asked>>
  BY <1>1 DEF TypeOK, TimedRight
<1>2. ASSUME NEW s \in Dummies, NEW d \in Records, Acts(s, d)
      PROVE  /\ DOMAIN dummy' = DOMAIN dummy /\ dummy' \in [DOMAIN dummy' -> Records]
             /\ asked' \in [Dummies -> Seq(Requests)]
             /\ TimedRight'
             /\ \A t \in Dummies : asked'[t] # <<>> => asked[t] # <<>> \/ t \in DOMAIN dummy
  <2>1. DOMAIN dummy' = DOMAIN dummy /\ dummy' \in [DOMAIN dummy' -> Records] /\ TimedRight'
    BY <1>2 DEF Acts, TypeOK, TimedRight
  <2>2. CASE asked' = asked
    BY <2>1, <2>2 DEF TypeOK
  <2>3. ASSUME NEW q \in Requests, asked' = [asked EXCEPT ![s] = Append(@, q)]
        PROVE  /\ asked' \in [Dummies -> Seq(Requests)]
               /\ \A t \in Dummies : asked'[t] # <<>> => asked[t] # <<>> \/ t \in DOMAIN dummy
    <3>1. Append(asked[s], q) \in Seq(Requests) /\ s \in DOMAIN dummy
      BY <1>2 DEF TypeOK, Acts
    <3>2. QED BY <2>3, <3>1 DEF TypeOK
  <2>4. QED BY <1>2, <2>1, <2>2, <2>3 DEF Acts
<1>3. QED BY <1>1, <1>2 DEF DummyMoves

(* The logic and the clock move dummies too.                                *)
LEMMA LogicMoves ==
  ASSUME TypeOK, TimedRight, ListsAgree, ProcessDummyLogic
  PROVE  DummyMoves
<1>1. CASE Due = {}
  BY <1>1 DEF ProcessDummyLogic, DummyMoves
<1>2. ASSUME NEW s \in Due, Act(s) PROVE DummyMoves
  <2>1. s \in DOMAIN dummy /\ dummy[s].next # "never"
    BY DEF Due, ListsAgree
  <2>2. dummy[s].status \in {"lobby", "rtt", "room"} /\ dummy[s] \in Records
    BY <2>1 DEF TimedRight, TypeOK
  <2>3. /\ [dummy[s] EXCEPT !.status = "leave"] \in Records
        /\ [dummy[s] EXCEPT !.status = "chat"] \in Records
        /\ dummy[s].room \in Rooms \cup {0}
    BY <2>2 DEF Records, Statuses
  <2>4. CASE dummy[s].status = "lobby"
    <3>1. SendToDummy(s, "list", 0, dummy[s]) BY <1>2, <2>4 DEF Act
    <3>2. QED BY <2>1, <2>2, <3>1, SendIsMove
  <2>5. CASE dummy[s].status = "rtt"
    <3>1. SendToDummy(s, "echo", 0, dummy[s]) BY <1>2, <2>5 DEF Act
    <3>2. QED BY <2>1, <2>2, <3>1, SendIsMove
  <2>6. CASE dummy[s].status = "room"
    <3>1. \/ SendToDummy(s, "leave", dummy[s].room, [dummy[s] EXCEPT !.status = "leave"])
          \/ SendToDummy(s, "chat", dummy[s].room, [dummy[s] EXCEPT !.status = "chat"])
      BY <1>2, <2>6 DEF Act
    <3>2. QED BY <2>1, <2>3, <3>1, SendIsMove
  <2>7. QED BY <2>2, <2>4, <2>5, <2>6
<1>3. QED BY <1>1, <1>2 DEF ProcessDummyLogic

LEMMA ElapseMoves ==
  ASSUME TypeOK, TimedRight, NEW s \in Dummies, Elapse(s)
  PROVE  DummyMoves
<1> DEFINE d == [dummy[s] EXCEPT !.next = "due"]
<1>1. s \in DOMAIN dummy /\ dummy[s] \in Records /\ asked' = asked
  BY DEF Elapse, TypeOK
<1>2. d \in Records /\ d.status = dummy[s].status
  BY <1>1 DEF Records
<1>3. d.status \in {"lobby", "rtt", "room"}
  BY <1>1, <1>2 DEF Elapse, TimedRight
<1>4. dummy' = [dummy EXCEPT ![s] = d]
  BY <1>1 DEF Elapse
<1> HIDE DEF d
<1>5. Acts(s, d) BY <1>1, <1>2, <1>3, <1>4 DEF Acts
<1>6. QED BY <1>2, <1>5 DEF DummyMoves

-----------------------------------------------------------------------------
(* A sequence of some things is one of more things.                         *)
LEMMA SeqGrows ==
  ASSUME NEW A, NEW B, A \subseteq B, NEW q \in Seq(A)
  PROVE  q \in Seq(B)
OBVIOUS

LEMMA EmptySeqOf ==
  ASSUME NEW A
  PROVE  <<>> \in Seq(A)
OBVIOUS

(* A new dummy at the end of the vector.                                    *)
LEMMA ListsAppend ==
  ASSUME TypeOK, ListsAgree, NEW s \in Dummies, s \notin DOMAIN dummy, NEW d \in Records,
         dummy' = Put(dummy, s, d), list' = Append(list, s), index' = Put(index, s, Len(list'))
  PROVE  /\ DOMAIN dummy' = DOMAIN dummy \cup {s} /\ dummy' \in [DOMAIN dummy' -> Records]
         /\ \A t \in DOMAIN dummy : dummy'[t] = dummy[t]
         /\ dummy'[s] = d
         /\ list' \in Seq(Dummies) /\ index' \in [DOMAIN index' -> Nat]
         /\ ListsAgree'
<1>1. /\ list \in Seq(Dummies) /\ Len(list) \in Nat /\ list' \in Seq(Dummies)
      /\ Len(list') = Len(list) + 1 /\ list'[Len(list) + 1] = s
      /\ \A i \in 1 .. Len(list) : list'[i] = list[i]
      /\ DOMAIN list = 1 .. Len(list) /\ DOMAIN list' = 1 .. Len(list) + 1
  BY DEF TypeOK
<1>2. /\ DOMAIN dummy' = DOMAIN dummy \cup {s} /\ dummy'[s] = d
      /\ \A t \in DOMAIN dummy : dummy'[t] = dummy[t]
      /\ DOMAIN index' = DOMAIN index \cup {s} /\ index'[s] = Len(list) + 1
      /\ \A t \in DOMAIN index : t # s => index'[t] = index[t]
      /\ dummy' = [t \in DOMAIN dummy' |-> dummy'[t]] /\ index' = [t \in DOMAIN index' |-> index'[t]]
  BY <1>1 DEF Put
<1>3. \A i \in 1 .. Len(list) : list[i] \in DOMAIN dummy /\ list[i] \in DOMAIN index /\ index[list[i]] = i
  BY <1>1 DEF ListsAgree, ToSet
<1>4. ToSet(list') = ToSet(list) \cup {s}
  BY <1>1 DEF ToSet
<1>5. IsInjective(list')
  BY <1>1, <1>3 DEF IsInjective, ListsAgree
<1>6. \A k \in DOMAIN list' : index'[list'[k]] = k
  BY <1>1, <1>2, <1>3
<1>7. DOMAIN dummy' = ToSet(list') /\ DOMAIN index' = ToSet(list')
  BY <1>2, <1>4 DEF ListsAgree
<1>8. dummy' \in [DOMAIN dummy' -> Records] /\ index' \in [DOMAIN index' -> Nat]
  <2>1. /\ \A t \in DOMAIN dummy : dummy[t] \in Records
        /\ \A t \in DOMAIN index : index[t] \in Nat
    BY DEF TypeOK
  <2>2. /\ \A t \in DOMAIN dummy' : dummy'[t] \in Records
        /\ \A t \in DOMAIN index' : index'[t] \in Nat
    BY <1>1, <1>2, <2>1
  <2>3. QED BY ONLY <1>2, <2>2
<1>9. QED BY <1>1, <1>2, <1>5, <1>6, <1>7, <1>8 DEF ListsAgree

(* The last dummy of the vector takes the place of the one removed, and is  *)
(* told so; removing the last one is the same.                              *)
LEMMA ListsRemove ==
  ASSUME TypeOK, ListsAgree, NEW s \in DOMAIN dummy, Removed(s),
         dummy' = [t \in DOMAIN dummy \ {s} |-> dummy[t]]
  PROVE  /\ list' \in Seq(Dummies) /\ index' \in [DOMAIN index' -> Nat]
         /\ ListsAgree'
<1> DEFINE n == Len(list)
           k == index[s]
           moved == [list EXCEPT ![k] = Last(list)]
<1>1. list \in Seq(Dummies) /\ n \in Nat /\ DOMAIN list = 1 .. n
  BY DEF TypeOK
<1>2. k \in 1 .. n /\ list[k] = s
  <2>1. PICK i \in 1 .. n : list[i] = s
    BY <1>1 DEF ListsAgree, ToSet
  <2>2. QED BY <1>1, <2>1 DEF ListsAgree
<1>3. Last(list) = list[n] /\ list[n] \in Dummies
  BY <1>1, <1>2 DEF Last
<1>4. moved \in Seq(Dummies) /\ Len(moved) = n /\ \A i \in 1 .. n : moved[i] = IF i = k THEN list[n] ELSE list[i]
  BY <1>1, <1>2, <1>3
<1> HIDE DEF moved
<1>5. /\ list' \in Seq(Dummies) /\ Len(list') = n - 1 /\ DOMAIN list' = 1 .. n - 1
      /\ \A i \in 1 .. n - 1 : list'[i] = IF i = k THEN list[n] ELSE list[i]
  <2>1. list' = SubSeq(moved, 1, n - 1) BY DEF Removed, moved
  <2>2. QED BY <1>1, <1>2, <1>4, <2>1
<1>6. \A i, j \in 1 .. n : list[i] = list[j] => i = j
  BY <1>1 DEF ListsAgree, IsInjective
<1>7. ToSet(list') = ToSet(list) \ {s}
  <2>1. ASSUME NEW i \in 1 .. n - 1 PROVE list'[i] \in ToSet(list) /\ list'[i] # s
    <3>1. \E j \in 1 .. n : j # k /\ list'[i] = list[j]
      <4>1. CASE i = k
        <5>1. n \in 1 .. n /\ n # k BY <1>1, <1>2, <4>1
        <5>2. QED BY <1>5, <4>1, <5>1
      <4>2. CASE i # k
        <5>1. i \in 1 .. n BY <1>1
        <5>2. QED BY <1>5, <4>2, <5>1
      <4>3. QED BY <4>1, <4>2
    <3>2. QED BY <1>1, <1>2, <1>6, <3>1 DEF ToSet
  <2>2. ASSUME NEW i \in 1 .. n, list[i] # s PROVE list[i] \in ToSet(list')
    <3>1. CASE i = n
      <4>1. k \in 1 .. n - 1 /\ list'[k] = list[i]
        BY <1>1, <1>2, <1>5, <2>2, <3>1
      <4>2. QED BY <1>5, <4>1 DEF ToSet
    <3>2. CASE i # n
      <4>1. i \in 1 .. n - 1 /\ i # k
        <5>1. i # k BY <1>2, <2>2
        <5>2. i \in 1 .. n - 1
          <6>1. n \in Nat /\ i \in 1 .. n /\ i # n BY <1>1, <3>2
          <6>2. QED BY ONLY <6>1
        <5>3. QED BY <5>1, <5>2
      <4>a. list'[i] = list[i]
        BY <1>5, <4>1
      <4>2. QED BY <1>5, <4>1, <4>a DEF ToSet
    <3>3. QED BY <3>1, <3>2
  <2>3. QED BY <1>1, <1>5, <2>1, <2>2 DEF ToSet
<1>8. IsInjective(list')
  BY <1>1, <1>2, <1>5, <1>6 DEF IsInjective
<1>9. index' = [t \in DOMAIN index \ {s} |-> IF t = list[n] THEN k ELSE index[t]]
  BY <1>3 DEF Removed
<1>10. DOMAIN index' = ToSet(list') /\ DOMAIN dummy' = ToSet(list')
  BY <1>7, <1>9 DEF ListsAgree
<1>11. \A i \in 1 .. n : list[i] \in DOMAIN index /\ index[list[i]] = i
  BY <1>1 DEF ListsAgree, ToSet
<1>12. \A i \in DOMAIN list' : index'[list'[i]] = i
  <2> SUFFICES ASSUME NEW i \in 1 .. n - 1 PROVE index'[list'[i]] = i
    BY <1>5
  <2>1. list'[i] \in DOMAIN index'
    BY <1>5, <1>10 DEF ToSet
  <2>2. QED BY <1>1, <1>2, <1>5, <1>6, <1>9, <1>11, <2>1
<1>13. index' \in [DOMAIN index' -> Nat]
  BY <1>1, <1>2, <1>9 DEF TypeOK
<1>14. QED BY <1>5, <1>8, <1>10, <1>12, <1>13 DEF ListsAgree

-----------------------------------------------------------------------------
LEMMA InitIInv == Init => IInv
<1> SUFFICES ASSUME Init PROVE IInv OBVIOUS
<1> USE DEF Init
<1>1. DOMAIN dummy = {} /\ DOMAIN index = {} /\ DOMAIN list = {} /\ DOMAIN Pending = {}
  BY DEF Pending
<1>2. TypeOK
  <2>1. /\ dummy \in [DOMAIN dummy -> Records] /\ index \in [DOMAIN index -> Nat]
        /\ DOMAIN dummy \subseteq Dummies
    BY <1>1
  <2>2. /\ net \in Seq(Packets) /\ batch \in Seq(Packets) /\ conn \in Seq(Events)
        /\ events \in Seq(Events) /\ list \in Seq(Dummies)
        /\ asked \in [Dummies -> Seq(Requests)] /\ jobs \in [Rooms -> Seq(Jobs)]
    OBVIOUS
  <2>3. QED BY <2>1, <2>2 DEF TypeOK
<1>3. EventsRight /\ TimedRight BY <1>1 DEF EventsRight, TimedRight
<1>4. ListsAgree BY <1>1 DEF ListsAgree, ToSet, IsInjective
<1>5. UnderWayRight BY DEF UnderWayRight
<1>6. QED BY <1>2, <1>3, <1>4, <1>5 DEF IInv, Crashed

(* The events still to handle, when a connection adds one and when the      *)
(* thread takes or handles one.                                             *)
LEMMA PendingSeq ==
  ASSUME TypeOK
  PROVE  /\ Pending \in Seq(Events) /\ DOMAIN Pending = 1 .. Len(Pending)
         /\ \A i \in DOMAIN Pending : Pending[i] \in Events /\ Pending[i].dummy \in Dummies
<1>1. Pending \in Seq(Events) BY DEF TypeOK, Pending
<1>2. /\ DOMAIN Pending = 1 .. Len(Pending)
      /\ \A i \in DOMAIN Pending : Pending[i] \in Events
  BY <1>1
<1>3. QED BY <1>1, <1>2 DEF Events

LEMMA PendingAppend ==
  ASSUME TypeOK, NEW e \in Events, conn' = Append(conn, e), events' = events
  PROVE  /\ DOMAIN Pending' = DOMAIN Pending \cup {Len(Pending) + 1}
         /\ Pending'[Len(Pending) + 1] = e
         /\ \A i \in DOMAIN Pending : Pending'[i] = Pending[i]
<1>1. Pending' = Append(Pending, e)
  BY DEF TypeOK, Pending
<1>2. QED BY <1>1, PendingSeq

LEMMA PendingTail ==
  ASSUME TypeOK, events # <<>>, events' = Tail(events), conn' = conn
  PROVE  /\ 1 \in DOMAIN Pending /\ Pending[1] = Head(events)
         /\ \A i \in DOMAIN Pending' :
              i + 1 \in DOMAIN Pending /\ i + 1 # 1 /\ Pending'[i] = Pending[i + 1]
<1>1. /\ events \in Seq(Events) /\ conn \in Seq(Events) /\ Len(events) \in Nat \ {0}
      /\ Len(conn) \in Nat /\ Tail(events) \in Seq(Events) /\ Len(Tail(events)) = Len(events) - 1
      /\ Head(events) = events[1]
      /\ \A i \in 1 .. Len(Tail(events)) : Tail(events)[i] = events[i + 1]
  BY DEF TypeOK
<1>2. /\ DOMAIN Pending = 1 .. Len(events) + Len(conn)
      /\ \A i \in 1 .. Len(events) + Len(conn) :
           Pending[i] = IF i <= Len(events) THEN events[i] ELSE conn[i - Len(events)]
  BY <1>1 DEF Pending
<1>3. /\ DOMAIN Pending' = 1 .. (Len(events) - 1) + Len(conn)
      /\ \A i \in 1 .. (Len(events) - 1) + Len(conn) :
           Pending'[i] = IF i <= Len(events) - 1 THEN Tail(events)[i]
                         ELSE conn[i - (Len(events) - 1)]
  BY <1>1 DEF Pending
<1>4. QED BY <1>1, <1>2, <1>3

(* The steps that neither connect, disconnect, make nor remove a dummy.     *)
LEMMA SameEvents ==
  ASSUME TypeOK, EventsRight, DOMAIN dummy' = DOMAIN dummy, Pending' = Pending,
         UNCHANGED link, pc' # "events" => events' = <<>>
  PROVE  EventsRight'
BY DEF EventsRight

LEMMA SameLists ==
  ASSUME ListsAgree, DOMAIN dummy' = DOMAIN dummy, UNCHANGED listVars
  PROVE  ListsAgree'
BY DEF ListsAgree, listVars

-----------------------------------------------------------------------------
(* The steps of the thread, of connections and of the clock, without those  *)
(* that make or remove dummies.                                             *)
Steady ==
  \/ HandlesOne \/ SwapNet \/ SwapEvents \/ HandleUnknown \/ EventsDone \/ ProcessDummyLogic
  \/ \E s \in Dummies : Elapse(s) \/ Serve(s)
  \/ \E r \in Rooms : RunJob(r)

(* They keep what there is of dummies and of events.                        *)
LEMMA SteadyKeeps ==
  ASSUME IInv, Steady
  PROVE  /\ DOMAIN dummy' = DOMAIN dummy /\ dummy' \in [DOMAIN dummy' -> Records]
         /\ TimedRight'
         /\ UNCHANGED <<link, listVars>> /\ Pending' = Pending
         /\ pc' # "events" => events' = <<>>
<1> USE DEF IInv
<1>1. ASSUME HandlesOne \/ SwapNet \/ SwapEvents \/ HandleUnknown \/ EventsDone \/ ProcessDummyLogic
      PROVE  /\ DummyMoves
             /\ UNCHANGED <<link, listVars>> /\ Pending' = Pending
             /\ pc' # "events" => events' = <<>>
  <2>1. DummyMoves
    BY <1>1, HandlesOneMoves, LogicMoves DEF SwapNet, SwapEvents, HandleUnknown, EventsDone, DummyMoves
  <2>2. CASE SwapEvents
    <3>1. events = <<>> /\ events' = conn /\ conn' = <<>> /\ conn \in Seq(Events)
      BY <2>2 DEF SwapEvents, EventsRight, TypeOK
    <3>2. Pending' = Pending BY <3>1 DEF Pending
    <3>3. QED BY <2>1, <2>2, <3>2 DEF SwapEvents
  <2>3. CASE HandlesOne
    BY <2>1, <2>3, HandlesOneMoves DEF Handled, EventsRight, Pending
  <2>4. CASE SwapNet \/ HandleUnknown \/ EventsDone \/ ProcessDummyLogic
    BY <2>1, <2>4 DEF SwapNet, HandleUnknown, EventsDone, ProcessDummyLogic, EventsRight, Pending
  <2>5. QED BY <1>1, <2>2, <2>3, <2>4
<1>2. ASSUME NEW s \in Dummies, Elapse(s)
      PROVE  DummyMoves /\ UNCHANGED <<link, listVars, conn, events, pc>>
  BY <1>2, ElapseMoves DEF Elapse
<1>3. ASSUME NEW s \in Dummies, Serve(s)
      PROVE  UNCHANGED <<link, listVars, conn, events, pc, dummy>>
  BY <1>3 DEF Serve, LobbyTells, LobbyMakes, LobbyEnters, LobbyPosts, Read
<1>4. ASSUME NEW r \in Rooms, RunJob(r)
      PROVE  UNCHANGED <<link, listVars, conn, events, pc, dummy>>
  BY <1>4 DEF RunJob, EnterJob, LeaveJob, ChatJob, Ran
<1>5. DummyMoves \/ UNCHANGED dummy
  BY <1>1, <1>2, <1>3, <1>4 DEF Steady
<1>6. DOMAIN dummy' = DOMAIN dummy /\ dummy' \in [DOMAIN dummy' -> Records] /\ TimedRight'
  BY <1>5, MovesKeep DEF TimedRight, TypeOK
<1>7. UNCHANGED <<link, listVars>> /\ Pending' = Pending /\ (pc' # "events" => events' = <<>>)
  BY <1>1, <1>2, <1>3, <1>4 DEF Steady, EventsRight, Pending
<1>8. QED BY <1>6, <1>7

-----------------------------------------------------------------------------
(* Connections, and what the thread does with the news of them.             *)
LEMMA ConnectKeeps ==
  ASSUME IInv, NEW s \in Dummies, Connect(s)
  PROVE  EventsRight' /\ ListsAgree' /\ TimedRight'
<1> USE DEF IInv
<1> DEFINE e == [dummy |-> s, what |-> "connect"]
<1>1. e \in Events /\ conn' = Append(conn, e) /\ UNCHANGED <<events, dummy, listVars, pc>>
  BY DEF Connect, Events
<1>2. link[s] = "new" /\ link' = [link EXCEPT ![s] = "up"] /\ link \in [Dummies -> {"new", "up", "down"}]
  BY DEF Connect, TypeOK
<1>3. s \notin DOMAIN dummy /\ \A i \in DOMAIN Pending : Pending[i].dummy # s
  BY <1>2 DEF EventsRight
<1>4. /\ DOMAIN Pending' = DOMAIN Pending \cup {Len(Pending) + 1}
      /\ Pending'[Len(Pending) + 1] = e
      /\ \A i \in DOMAIN Pending : Pending'[i] = Pending[i]
  BY <1>1, PendingAppend
<1>5. \A i \in DOMAIN Pending : link'[Pending[i].dummy] = link[Pending[i].dummy]
  BY <1>2, <1>3, PendingSeq
<1>6. \A t \in DOMAIN dummy : link'[t] = link[t]
  BY <1>2, <1>3 DEF TypeOK
<1>7. EventsRight'
  BY <1>1, <1>2, <1>3, <1>4, <1>5, <1>6 DEF EventsRight
<1>8. QED BY <1>1, <1>7, SameLists DEF TimedRight

LEMMA DropKeeps ==
  ASSUME IInv, NEW s \in Dummies, Drop(s)
  PROVE  EventsRight' /\ ListsAgree' /\ TimedRight'
<1> USE DEF IInv
<1> DEFINE e == [dummy |-> s, what |-> "disconnect"]
<1>1. e \in Events /\ conn' = Append(conn, e) /\ UNCHANGED <<events, dummy, listVars, pc>>
  BY DEF Drop, Events
<1>2. link' = [link EXCEPT ![s] = "down"] /\ link \in [Dummies -> {"new", "up", "down"}]
  BY DEF Drop, TypeOK
<1>3. /\ DOMAIN Pending' = DOMAIN Pending \cup {Len(Pending) + 1}
      /\ Pending'[Len(Pending) + 1] = e
      /\ \A i \in DOMAIN Pending : Pending'[i] = Pending[i]
  BY <1>1, PendingAppend
<1>4. \A t \in Dummies : /\ link[t] # "new" => link'[t] # "new"
                         /\ link[t] = "down" => link'[t] = "down"
  BY <1>2
<1>5. \A i \in DOMAIN Pending : Pending[i].dummy \in Dummies
  BY PendingSeq
<1>6. \A t \in DOMAIN dummy : t \in Dummies
  BY DEF TypeOK
<1>7. EventsRight'
  BY <1>1, <1>2, <1>3, <1>4, <1>5, <1>6 DEF EventsRight
<1>8. QED BY <1>1, <1>7, SameLists DEF TimedRight

LEMMA ConnectEventKeeps ==
  ASSUME IInv, ConnectEvent
  PROVE  /\ EventsRight' /\ ListsAgree' /\ TimedRight' /\ TypeOK'
         /\ DOMAIN dummy' = DOMAIN dummy \cup {Head(events).dummy}
         /\ \A t \in Dummies : asked'[t] # <<>> => asked[t] # <<>> \/ t \in DOMAIN dummy'
<1> USE DEF IInv
<1> DEFINE s == Head(events).dummy
           d == [status |-> "connected", next |-> "never", room |-> 0]
<1>1. /\ events # <<>> /\ Head(events).what = "connect" /\ pc = "events" /\ EventDone
      /\ dummy' = Put(dummy, s, d) /\ list' = Append(list, s) /\ index' = Put(index, s, Len(list'))
      /\ asked' = IF link[s] = "up" THEN [asked EXCEPT ![s] = Append(@, [act |-> "login", room |-> 0])]
                  ELSE asked
  BY DEF ConnectEvent, Event
<1>2. /\ 1 \in DOMAIN Pending /\ Pending[1] = Head(events)
      /\ \A i \in DOMAIN Pending' :
           i + 1 \in DOMAIN Pending /\ i + 1 # 1 /\ Pending'[i] = Pending[i + 1]
  BY <1>1, PendingTail DEF EventDone
<1>3. s \in Dummies /\ s \notin DOMAIN dummy /\ link[s] # "new"
  BY <1>1, <1>2, PendingSeq DEF EventsRight
<1>4. d \in Records /\ d.next = "never"
  BY DEF Records, Statuses
<1>5. /\ DOMAIN dummy' = DOMAIN dummy \cup {s} /\ dummy' \in [DOMAIN dummy' -> Records]
      /\ \A t \in DOMAIN dummy : dummy'[t] = dummy[t]
      /\ dummy'[s] = d
      /\ list' \in Seq(Dummies) /\ index' \in [DOMAIN index' -> Nat]
      /\ ListsAgree'
  BY <1>1, <1>3, <1>4, ListsAppend
<1> HIDE DEF d
<1>6. TimedRight'
  BY <1>4, <1>5 DEF TimedRight
<1>7. UNCHANGED <<link, net, batch, conn, pc, first, at, jobs>> /\ events' = Tail(events)
  BY <1>1 DEF EventDone, lobbyVars
<1>8. EventsRight'
  <2>1. \A t \in DOMAIN dummy' : link'[t] # "new"
    BY <1>3, <1>5, <1>7 DEF EventsRight
  <2>2. ASSUME NEW i \in DOMAIN Pending'
        PROVE  /\ link'[Pending'[i].dummy] # "new"
               /\ Pending'[i].what = "disconnect" => link'[Pending'[i].dummy] = "down"
    BY <1>2, <1>7 DEF EventsRight
  <2>3. ASSUME NEW i \in DOMAIN Pending', Pending'[i].what = "connect"
        PROVE  Pending'[i].dummy \notin DOMAIN dummy'
    <3>1. i + 1 \in DOMAIN Pending /\ Pending[i + 1].what = "connect" /\ i + 1 # 1
      BY <1>2, <2>3
    <3>2. Pending[i + 1].dummy \notin DOMAIN dummy
      BY <3>1 DEF EventsRight
    <3>3. Pending[i + 1].dummy # s
      BY <1>1, <1>2, <3>1 DEF EventsRight
    <3>4. QED BY <1>2, <1>5, <3>2, <3>3
  <2>4. ASSUME NEW i \in DOMAIN Pending', NEW k \in DOMAIN Pending', Pending'[i].what = "connect",
               Pending'[k].what = "connect", Pending'[k].dummy = Pending'[i].dummy
        PROVE  k = i
    <3>1. i + 1 = k + 1
      BY <1>2, <2>4 DEF EventsRight
    <3>2. i \in Int /\ k \in Int
      <4>1. Pending' \in Seq(Events)
        BY <1>1, <1>7 DEF TypeOK, Pending
      <4>2. QED BY <4>1
    <3>3. QED BY <3>1, <3>2
  <2>5. QED BY <1>1, <1>7, <2>1, <2>2, <2>3, <2>4 DEF EventsRight
<1>9. asked' \in [Dummies -> Seq(Requests)] /\ \A t \in Dummies : t # s => asked'[t] = asked[t]
  <2>1. [act |-> "login", room |-> 0] \in Requests BY DEF Requests
  <2>2. Append(asked[s], [act |-> "login", room |-> 0]) \in Seq(Requests)
    BY <1>3, <2>1 DEF TypeOK
  <2>3. QED BY <1>1, <2>2 DEF TypeOK
<1>10. TypeOK'
  <2>1. events' \in Seq(Events) BY <1>1, <1>7 DEF TypeOK
  <2>2. QED BY <1>3, <1>5, <1>7, <1>9, <2>1 DEF TypeOK
<1>11. QED BY <1>5, <1>6, <1>8, <1>9, <1>10

LEMMA DisconnectEventKeeps ==
  ASSUME IInv, DisconnectEvent
  PROVE  /\ EventsRight' /\ ListsAgree' /\ TimedRight' /\ TypeOK'
         /\ \A t \in DOMAIN dummy : t \in DOMAIN dummy' \/ link[t] = "down"
<1> USE DEF IInv
<1> DEFINE s == Head(events).dummy
<1>1. /\ events # <<>> /\ Head(events).what = "disconnect" /\ pc = "events"
      /\ UNCHANGED <<link, net, batch, conn, pc, first, at, jobs, asked>> /\ events' = Tail(events)
  BY DEF DisconnectEvent, Event, EventDone, lobbyVars
<1>2. /\ 1 \in DOMAIN Pending /\ Pending[1] = Head(events)
      /\ \A i \in DOMAIN Pending' :
           i + 1 \in DOMAIN Pending /\ i + 1 # 1 /\ Pending'[i] = Pending[i + 1]
  BY <1>1, PendingTail
<1>3. link[s] = "down"
  BY <1>1, <1>2 DEF EventsRight
<1>4. /\ DOMAIN dummy' = DOMAIN dummy \ {s} /\ \A t \in DOMAIN dummy' : dummy'[t] = dummy[t]
      /\ dummy' \in [DOMAIN dummy' -> Records]
      /\ list' \in Seq(Dummies) /\ index' \in [DOMAIN index' -> Nat]
      /\ ListsAgree'
  <2>1. CASE s \notin DOMAIN dummy
    <3>1. UNCHANGED <<dummy, list, index>>
      BY <2>1 DEF DisconnectEvent, listVars
    <3>2. QED BY <2>1, <3>1 DEF ListsAgree, TypeOK
  <2>2. CASE s \in DOMAIN dummy
    <3>1. Removed(s) /\ dummy' = [t \in DOMAIN dummy \ {s} |-> dummy[t]]
      BY <2>2 DEF DisconnectEvent
    <3>2. list' \in Seq(Dummies) /\ index' \in [DOMAIN index' -> Nat] /\ ListsAgree'
      BY <2>2, <3>1, ListsRemove
    <3>3. QED BY <3>1, <3>2 DEF TypeOK
  <2>3. QED BY <2>1, <2>2
<1>5. TimedRight'
  BY <1>4 DEF TimedRight
<1>6. EventsRight'
  <2>1. \A t \in DOMAIN dummy' : link'[t] # "new"
    BY <1>1, <1>4 DEF EventsRight
  <2>2. ASSUME NEW i \in DOMAIN Pending'
        PROVE  /\ link'[Pending'[i].dummy] # "new"
               /\ Pending'[i].what = "disconnect" => link'[Pending'[i].dummy] = "down"
               /\ Pending'[i].what = "connect" => Pending'[i].dummy \notin DOMAIN dummy'
    BY <1>1, <1>2, <1>4 DEF EventsRight
  <2>3. ASSUME NEW i \in DOMAIN Pending', NEW k \in DOMAIN Pending', Pending'[i].what = "connect",
               Pending'[k].what = "connect", Pending'[k].dummy = Pending'[i].dummy
        PROVE  k = i
    <3>1. i + 1 = k + 1
      BY <1>2, <2>3 DEF EventsRight
    <3>2. i \in Int /\ k \in Int
      <4>1. Pending' \in Seq(Events)
        BY <1>1 DEF TypeOK, Pending
      <4>2. QED BY <4>1
    <3>3. QED BY <3>1, <3>2
  <2>4. QED BY <1>1, <2>1, <2>2, <2>3 DEF EventsRight
<1>7. TypeOK'
  <2>1. events' \in Seq(Events) BY <1>1 DEF TypeOK
  <2>2. DOMAIN dummy' \subseteq Dummies BY <1>4 DEF TypeOK
  <2>3. QED BY <1>1, <1>4, <2>1, <2>2 DEF TypeOK
<1>8. QED BY <1>3, <1>4, <1>5, <1>6, <1>7

-----------------------------------------------------------------------------
(* What the lobby sends is for dummies that exist or are gone.              *)
LEMMA AnswerSeq ==
  ASSUME NEW s \in Dummies, ExistsOrDown(s), NEW rs \in SUBSET Rooms,
         NEW type \in {"login", "list", "echo", "made", "entered", "error", "left", "chatted", "notify"}
  PROVE  Answer(s, type, rs) \in Seq(OfThem(Packets))
<1>1. [dummy |-> s, type |-> type, rooms |-> rs] \in OfThem(Packets)
  BY DEF OfThem, Packets
<1>2. QED BY <1>1 DEF Answer

LEMMA NotifySeq ==
  ASSUME TypeOK, UnderWayRight, NEW r \in Rooms
  PROVE  Notify({s \in Members(r) : link[s] = "up"}) \in Seq(OfThem(Packets))
<1> DEFINE who == {s \in Members(r) : link[s] = "up"}
           n == Cardinality(who)
<1>1. who \subseteq Dummies /\ IsFiniteSet(who) /\ n \in Nat
  BY DummyAssumption, FS_Subset, FS_CardinalityType DEF Members
<1>2. \A s \in who : ExistsOrDown(s)
  BY <1>1, DummyAssumption DEF Members, UnderWayRight
<1>3. SetToSeq(who) \in [1 .. n -> who]
  <2>1. \E f \in [1 .. n -> who] : IsInjective(f)
    <3>1. PICK f \in Bijection(1 .. n, who) : TRUE
      BY <1>1, FS_CardinalityType DEF ExistsBijection
    <3>2. QED BY <3>1 DEF Bijection, Injection
  <2>2. QED BY <2>1 DEF SetToSeq
<1>4. \A i \in 1 .. n :
        [dummy |-> SetToSeq(who)[i], type |-> "notify", rooms |-> {}] \in OfThem(Packets)
  BY <1>1, <1>2, <1>3 DEF OfThem, Packets
<1> HIDE DEF who, n
<1>5. [i \in 1 .. n |-> [dummy |-> SetToSeq(who)[i], type |-> "notify", rooms |-> {}]]
        \in Seq(OfThem(Packets))
  BY <1>1, <1>4
<1>6. Notify(who) \in Seq(OfThem(Packets)) BY <1>5 DEF Notify, n
<1>7. QED BY <1>6 DEF who

(* What the lobby holds and sends after one of its steps.                   *)
LobbyRight ==
  /\ net' \in Seq(OfThem(Packets))
  /\ jobs' \in [Rooms -> Seq(OfThem(Jobs))]
  /\ asked' \in [Dummies -> Seq(Requests)] /\ at' \in [Dummies -> Rooms \cup {0}]
  /\ \A s \in Dummies : asked'[s] # <<>> \/ at'[s] # 0 => ExistsOrDown(s)
  /\ UNCHANGED <<link, batch, conn, events, pc, dummy, listVars, first>>

LEMMA JobsOfThem ==
  ASSUME TypeOK, UnderWayRight
  PROVE  jobs \in [Rooms -> Seq(OfThem(Jobs))]
BY DEF TypeOK, UnderWayRight

LEMMA ServeRight ==
  ASSUME TypeOK, UnderWayRight, NEW s \in Dummies, Serve(s)
  PROVE  LobbyRight
<1>1. /\ asked[s] # <<>> /\ asked' = [asked EXCEPT ![s] = Tail(@)]
      /\ UNCHANGED <<link, batch, conn, events, pc, dummy, listVars, first>>
  BY DEF Serve, LobbyTells, LobbyMakes, LobbyEnters, LobbyPosts, Request, Read
<1>2. Head(asked[s]) \in Requests /\ Tail(asked[s]) \in Seq(Requests) /\ ExistsOrDown(s)
  BY <1>1 DEF TypeOK, UnderWayRight
<1>3. asked' \in [Dummies -> Seq(Requests)] /\ \A t \in Dummies : asked'[t] # <<>> => ExistsOrDown(t)
  BY <1>1, <1>2 DEF TypeOK, UnderWayRight
<1>4. net \in Seq(OfThem(Packets)) /\ at \in [Dummies -> Rooms \cup {0}]
  BY DEF UnderWayRight, TypeOK
<1>5. \A t \in Dummies : at[t] # 0 => ExistsOrDown(t)
  BY DEF UnderWayRight
<1>a. \A p \in Seq(OfThem(Packets)) : Answered(p) => net' \in Seq(OfThem(Packets))
  BY <1>4 DEF Answered
<1>6. ASSUME NEW a \in {"enter", "leave", "chat", "bye"}, NEW r, Post(s, a, r)
      PROVE  jobs' \in [Rooms -> Seq(OfThem(Jobs))]
  <2>1. [dummy |-> s, act |-> a] \in OfThem(Jobs)
    BY <1>2 DEF OfThem, Jobs
  <2>2. \A q \in Seq(OfThem(Jobs)) : Append(q, [dummy |-> s, act |-> a]) \in Seq(OfThem(Jobs))
    BY <2>1
  <2>3. QED BY <1>6, <2>2, JobsOfThem DEF Post
<1>7. CASE LobbyTells(s)
  <2>1. Head(asked[s]).act \in {"login", "list", "echo"} /\ RoomMap \subseteq Rooms
    BY <1>7 DEF LobbyTells, Request, RoomMap
  <2>2. net' \in Seq(OfThem(Packets))
    BY <1>2, <1>7, <1>a, <2>1, AnswerSeq DEF LobbyTells
  <2>3. QED BY <1>1, <1>3, <1>4, <1>5, <1>7, <2>2, JobsOfThem DEF LobbyTells, LobbyRight, lobbyVars
<1>8. CASE LobbyMakes(s)
  <2>1. jobs' = jobs
    BY <1>8 DEF LobbyMakes
  <2>2. net' \in Seq(OfThem(Packets)) /\ at' \in [Dummies -> Rooms \cup {0}]
        /\ \A t \in Dummies : t # s => at'[t] = at[t]
    <3>1. CASE at[s] # 0
      BY <1>4, <1>8, <3>1 DEF LobbyMakes
    <3>2. CASE at[s] = 0 /\ Cardinality(RoomMap) >= MaxRooms
      <4>1. Answered(Answer(s, "made", {})) /\ at' = at
        BY <1>8, <3>2 DEF LobbyMakes
      <4>2. Answer(s, "made", {}) \in Seq(OfThem(Packets))
        BY <1>2, AnswerSeq
      <4>3. QED BY <1>4, <1>a, <4>1, <4>2
    <3>3. CASE at[s] = 0 /\ ~(Cardinality(RoomMap) >= MaxRooms)
      <4> DEFINE r == CHOOSE f \in Fresh : TRUE
      <4>1. r \in Rooms
        BY <1>8, <3>3 DEF LobbyMakes, Fresh
      <4>2. /\ at' = [at EXCEPT ![s] = r]
            /\ Answered(Answer(s, "made", {r}) \o Answer(s, "entered", {}))
        BY <1>8, <3>3 DEF LobbyMakes
      <4> HIDE DEF r
      <4>3. Answer(s, "made", {r}) \in Seq(OfThem(Packets)) /\ Answer(s, "entered", {}) \in Seq(OfThem(Packets))
        BY <1>2, <4>1, AnswerSeq
      <4>4. Answer(s, "made", {r}) \o Answer(s, "entered", {}) \in Seq(OfThem(Packets))
        BY <4>3
      <4>5. net' \in Seq(OfThem(Packets))
        BY <1>a, <4>2, <4>4
      <4>6. QED BY <1>4, <4>1, <4>2, <4>5
    <3>4. QED BY <3>1, <3>2, <3>3
  <2>3. QED BY <1>1, <1>2, <1>3, <1>5, <2>1, <2>2, JobsOfThem DEF LobbyRight
<1>9. CASE LobbyEnters(s)
  <2>1. at' = at /\ net' \in Seq(OfThem(Packets))
    <3>1. Answer(s, "error", {}) \in Seq(OfThem(Packets))
      BY <1>2, AnswerSeq
    <3>2. at' = at /\ (net' = net \/ Answered(Answer(s, "error", {})))
      BY <1>9 DEF LobbyEnters
    <3>3. QED BY <1>4, <1>a, <3>1, <3>2
  <2>2. jobs' = jobs \/ Post(s, "enter", Head(asked[s]).room)
    BY <1>9 DEF LobbyEnters
  <2>3. jobs' \in [Rooms -> Seq(OfThem(Jobs))]
    BY <1>6, <2>2, JobsOfThem
  <2>4. QED BY <1>1, <1>3, <1>4, <1>5, <2>1, <2>3 DEF LobbyRight
<1>10. CASE LobbyPosts(s)
  <2>1. Head(asked[s]).act \in {"leave", "chat", "bye"} /\ UNCHANGED <<net, at>>
    BY <1>10 DEF LobbyPosts, Request
  <2>2. jobs' = jobs \/ Post(s, Head(asked[s]).act, at[s])
    BY <1>10 DEF LobbyPosts
  <2>3. jobs' \in [Rooms -> Seq(OfThem(Jobs))]
    BY <1>6, <2>1, <2>2, JobsOfThem
  <2>4. QED BY <1>1, <1>3, <1>4, <1>5, <2>1, <2>3 DEF LobbyRight
<1>11. QED BY <1>7, <1>8, <1>9, <1>10 DEF Serve

LEMMA RunJobRight ==
  ASSUME TypeOK, UnderWayRight, NEW r \in Rooms, RunJob(r)
  PROVE  LobbyRight
<1> DEFINE s == Head(jobs[r]).dummy
<1>1. /\ jobs[r] # <<>> /\ jobs' = [jobs EXCEPT ![r] = Tail(@)]
      /\ UNCHANGED <<link, batch, conn, events, pc, dummy, listVars, first, asked>>
  BY DEF RunJob, EnterJob, LeaveJob, ChatJob, Job, Ran
<1>2. jobs[r] \in Seq(OfThem(Jobs))
  BY JobsOfThem
<1>3. Head(jobs[r]) \in OfThem(Jobs) /\ Tail(jobs[r]) \in Seq(OfThem(Jobs))
  BY <1>1, <1>2
<1>4. s \in Dummies /\ ExistsOrDown(s)
  BY <1>3 DEF OfThem, Jobs
<1>5. jobs' \in [Rooms -> Seq(OfThem(Jobs))]
  BY <1>1, <1>3, JobsOfThem
<1>6. net \in Seq(OfThem(Packets)) /\ at \in [Dummies -> Rooms \cup {0}]
      /\ asked \in [Dummies -> Seq(Requests)]
  BY DEF UnderWayRight, TypeOK
<1>7. \A t \in Dummies : asked[t] # <<>> \/ at[t] # 0 => ExistsOrDown(t)
  BY DEF UnderWayRight
<1> SUFFICES /\ net' \in Seq(OfThem(Packets)) /\ at' \in [Dummies -> Rooms \cup {0}]
             /\ \A t \in Dummies : t # s => at'[t] = at[t]
  BY <1>1, <1>4, <1>5, <1>6, <1>7 DEF LobbyRight
<1>a. \A p \in Seq(OfThem(Packets)) : Answered(p) => net' \in Seq(OfThem(Packets))
  BY <1>6 DEF Answered
<1> HIDE DEF s
<1>8. CASE EnterJob(r)
  <2>1. \A type \in {"error", "entered"} : Answer(s, type, {}) \in Seq(OfThem(Packets))
    BY <1>4, AnswerSeq
  <2>2. \/ UNCHANGED <<net, at>>
        \/ at' = at /\ Answered(Answer(s, "error", {}))
        \/ at' = [at EXCEPT ![s] = r] /\ Answered(Answer(s, "entered", {}))
    BY <1>8 DEF EnterJob, s
  <2>3. QED BY <1>4, <1>6, <1>a, <2>1, <2>2
<1>9. CASE LeaveJob(r)
  <2>1. Answer(s, "left", {}) \in Seq(OfThem(Packets))
    BY <1>4, AnswerSeq
  <2>2. at' = [at EXCEPT ![s] = 0] /\ Answered(Answer(s, "left", {}))
    BY <1>9 DEF LeaveJob, s
  <2>3. QED BY <1>4, <1>6, <1>a, <2>1, <2>2
<1>10. CASE ChatJob(r)
  <2>1. Answer(s, "chatted", {}) \in Seq(OfThem(Packets))
    BY <1>4, AnswerSeq
  <2>2. Notify({t \in Members(r) : link[t] = "up"}) \in Seq(OfThem(Packets))
    BY NotifySeq
  <2>3. at' = at /\ Answered(Answer(s, "chatted", {}) \o Notify({t \in Members(r) : link[t] = "up"}))
    BY <1>10 DEF ChatJob, s
  <2>4. Answer(s, "chatted", {}) \o Notify({t \in Members(r) : link[t] = "up"}) \in Seq(OfThem(Packets))
    BY <2>1, <2>2
  <2>5. QED BY <1>6, <1>a, <2>3, <2>4
<1>11. QED BY <1>8, <1>9, <1>10 DEF RunJob

-----------------------------------------------------------------------------
(* A dummy is removed only when its connection is down, and a connection    *)
(* that is down stays so.                                                   *)
LEMMA ExistsOrDownStays ==
  ASSUME IInv, Next
  PROVE  /\ \A s \in Dummies : ExistsOrDown(s) => ExistsOrDown(s)'
         /\ OfThem(Packets) \subseteq OfThem(Packets)' /\ OfThem(Jobs) \subseteq OfThem(Jobs)'
<1>1. CASE Steady
  BY <1>1, SteadyKeeps DEF ExistsOrDown, OfThem
<1>2. ASSUME NEW s \in Dummies, Connect(s) \/ Drop(s)
      PROVE  \A t \in Dummies : ExistsOrDown(t) => ExistsOrDown(t)'
  BY <1>2 DEF Connect, Drop, ExistsOrDown, IInv, TypeOK
<1>3. ASSUME ConnectEvent
      PROVE  \A t \in Dummies : ExistsOrDown(t) => ExistsOrDown(t)'
  <2>1. link' = link BY <1>3 DEF ConnectEvent, EventDone
  <2>2. QED BY <1>3, <2>1, ConnectEventKeeps DEF ExistsOrDown
<1>4. ASSUME DisconnectEvent
      PROVE  \A t \in Dummies : ExistsOrDown(t) => ExistsOrDown(t)'
  <2>1. link' = link BY <1>4 DEF DisconnectEvent, EventDone
  <2>2. QED BY <1>4, <2>1, DisconnectEventKeeps DEF ExistsOrDown
<1>5. Steady \/ ConnectEvent \/ DisconnectEvent \/ \E s \in Dummies : Connect(s) \/ Drop(s)
  <2>1. Logic => Steady \/ ConnectEvent \/ DisconnectEvent
    BY DEF Logic, Steady, HandlesOne
  <2>2. QED BY <2>1 DEF Next, Steady
<1>6. \A s \in Dummies : ExistsOrDown(s) => ExistsOrDown(s)'
  BY <1>1, <1>2, <1>3, <1>4, <1>5
<1>7. QED BY <1>6 DEF OfThem, Packets, Jobs

(* Types, and what is under way, after any step.                            *)
LEMMA UnderWayKept ==
  ASSUME IInv, Next,
         net' \in Seq(OfThem(Packets)), batch' \in Seq(OfThem(Packets)),
         \A r \in Rooms : jobs'[r] \in Seq(OfThem(Jobs)),
         \A s \in Dummies : asked'[s] # <<>> \/ at'[s] # 0 => ExistsOrDown(s) \/ ExistsOrDown(s)'
  PROVE  UnderWayRight'
BY ExistsOrDownStays, SeqGrows DEF UnderWayRight

LEMMA HandledKeeps ==
  ASSUME IInv, Next, HandlesOne
  PROVE  TypeOK' /\ UnderWayRight' /\ Crashed'
<1> USE DEF IInv
<1>1. /\ batch # <<>> /\ pc = "handle" /\ batch' = Tail(batch) /\ first' \in BOOLEAN
      /\ UNCHANGED <<link, net, conn, events, pc, list, index, at, jobs>> /\ DummyMoves
  BY HandlesOneMoves DEF Handled, listVars, lobbyVars
<1>2. /\ DOMAIN dummy' = DOMAIN dummy /\ dummy' \in [DOMAIN dummy' -> Records]
      /\ asked' \in [Dummies -> Seq(Requests)]
      /\ \A s \in Dummies : asked'[s] # <<>> => asked[s] # <<>> \/ s \in DOMAIN dummy
  BY <1>1, MovesKeep
<1>3. TypeOK'
  <2>1. batch' \in Seq(Packets) BY <1>1, HeadOfBatch
  <2>2. QED BY <1>1, <1>2, <2>1 DEF TypeOK
<1>4. UnderWayRight'
  <2>1. batch' \in Seq(OfThem(Packets))
    BY <1>1 DEF UnderWayRight
  <2>2. \A s \in Dummies : asked'[s] # <<>> \/ at'[s] # 0 => ExistsOrDown(s)
    BY <1>1, <1>2 DEF UnderWayRight, ExistsOrDown
  <2>3. QED BY <1>1, <2>1, <2>2, UnderWayKept DEF UnderWayRight
<1>5. QED BY <1>1, <1>3, <1>4 DEF Crashed

(* The packet that ends the program is one of a dummy that is gone, though  *)
(* its requests were answered: so its connection is down.                   *)
LEMMA HandleUnknownKeeps ==
  ASSUME IInv, Next, HandleUnknown
  PROVE  TypeOK' /\ UnderWayRight' /\ Crashed'
<1> USE DEF IInv
<1>1. /\ batch # <<>> /\ S \notin DOMAIN dummy
      /\ UNCHANGED <<link, net, batch, conn, events, dummy, listVars, first, asked, lobbyVars>>
      /\ pc' = "crashed"
  BY DEF HandleUnknown, Known
<1>2. Head(batch) \in OfThem(Packets)
  BY <1>1 DEF UnderWayRight
<1>3. link[S] = "down"
  BY <1>1, <1>2 DEF OfThem, ExistsOrDown, S
<1>4. Crashed'
  BY <1>1, <1>3 DEF Crashed, S
<1>5. TypeOK' /\ UnderWayRight'
  BY <1>1, UnderWayKept DEF TypeOK, UnderWayRight, listVars, lobbyVars
<1>6. QED BY <1>4, <1>5

LEMMA OthersKeep ==
  ASSUME IInv, Next,
         SwapNet \/ SwapEvents \/ EventsDone \/ ProcessDummyLogic \/ \E s \in Dummies : Elapse(s)
  PROVE  TypeOK' /\ UnderWayRight' /\ Crashed'
<1> USE DEF IInv
<1>1. DummyMoves
  BY LogicMoves, ElapseMoves DEF SwapNet, SwapEvents, EventsDone, DummyMoves
<1>2. /\ DOMAIN dummy' = DOMAIN dummy /\ dummy' \in [DOMAIN dummy' -> Records]
      /\ asked' \in [Dummies -> Seq(Requests)]
      /\ \A s \in Dummies : asked'[s] # <<>> => asked[s] # <<>> \/ s \in DOMAIN dummy
  BY <1>1, MovesKeep
<1>3. \/ SwapNet /\ batch' = net /\ net' = <<>> /\ UNCHANGED <<conn, events>>
      \/ SwapEvents /\ events' = conn /\ conn' = <<>> /\ UNCHANGED <<net, batch>>
      \/ UNCHANGED <<net, batch, conn, events>>
  BY DEF SwapNet, SwapEvents, EventsDone, ProcessDummyLogic, Elapse
<1>4. UNCHANGED <<link, list, index, first, at, jobs>>
  BY DEF SwapNet, SwapEvents, EventsDone, ProcessDummyLogic, Elapse, listVars, lobbyVars
<1>5. /\ pc' \in {"net", "handle", "events", "logic", "crashed"}
      /\ pc' = "crashed" => pc = "crashed" /\ UNCHANGED batch
  BY DEF SwapNet, SwapEvents, EventsDone, ProcessDummyLogic, Elapse, TypeOK
<1>6. TypeOK'
  <2>1. /\ net' \in Seq(Packets) /\ batch' \in Seq(Packets)
        /\ conn' \in Seq(Events) /\ events' \in Seq(Events)
    BY <1>3, EmptySeqOf DEF TypeOK
  <2>2. QED BY <1>2, <1>4, <1>5, <2>1 DEF TypeOK
<1>7. UnderWayRight'
  <2>1. net' \in Seq(OfThem(Packets)) /\ batch' \in Seq(OfThem(Packets))
    BY <1>3, EmptySeqOf DEF UnderWayRight
  <2>2. \A s \in Dummies : asked'[s] # <<>> \/ at'[s] # 0 => ExistsOrDown(s)
    BY <1>2, <1>4 DEF UnderWayRight, ExistsOrDown
  <2>3. QED BY <1>4, <2>1, <2>2, UnderWayKept DEF UnderWayRight
<1>8. Crashed'
  BY <1>4, <1>5 DEF Crashed, S
<1>9. QED BY <1>6, <1>7, <1>8

LEMMA ConnectionsKeep ==
  ASSUME IInv, Next, NEW s \in Dummies, Connect(s) \/ Drop(s)
  PROVE  TypeOK' /\ UnderWayRight' /\ Crashed'
<1> USE DEF IInv
<1>1. /\ UNCHANGED <<net, batch, events, pc, dummy, list, index, first, at, jobs>> /\ pc # "crashed"
      /\ \/ Connect(s) /\ asked' = asked /\ link' = [link EXCEPT ![s] = "up"]
         \/ Drop(s) /\ link' = [link EXCEPT ![s] = "down"]
  BY DEF Connect, Drop, listVars, lobbyVars
<1>2. conn' \in Seq(Events)
  <2>1. PICK e \in Events : conn' = Append(conn, e)
    BY DEF Connect, Drop, Events
  <2>2. QED BY <2>1 DEF TypeOK
<1>3. /\ asked' \in [Dummies -> Seq(Requests)]
      /\ \A t \in Dummies : asked'[t] = asked[t] \/ (t = s /\ Drop(s))
  <2>1. CASE Drop(s)
    <3>1. PICK k \in 0 .. Len(asked[s]) :
            asked' = [asked EXCEPT ![s] = Append(SubSeq(@, 1, k), [act |-> "bye", room |-> 0])]
      BY <2>1 DEF Drop
    <3>2. [act |-> "bye", room |-> 0] \in Requests
      BY DEF Requests
    <3>3. asked[s] \in Seq(Requests) /\ Len(asked[s]) \in Nat
      BY DEF TypeOK
    <3>4. SubSeq(asked[s], 1, k) \in Seq(Requests)
      BY <3>3
    <3>5. Append(SubSeq(asked[s], 1, k), [act |-> "bye", room |-> 0]) \in Seq(Requests)
      BY <3>2, <3>4
    <3>6. QED BY <2>1, <3>1, <3>5 DEF TypeOK
  <2>2. CASE Connect(s)
    BY <1>1, <2>2 DEF Connect, TypeOK
  <2>3. QED BY <2>1, <2>2
<1>4. TypeOK'
  BY <1>1, <1>2, <1>3 DEF TypeOK
<1>5. UnderWayRight'
  <2>1. \A t \in Dummies : asked'[t] # <<>> \/ at'[t] # 0 => ExistsOrDown(t) \/ ExistsOrDown(t)'
    BY <1>1, <1>3 DEF UnderWayRight, ExistsOrDown, TypeOK
  <2>2. QED BY <1>1, <2>1, UnderWayKept DEF UnderWayRight
<1>6. QED BY <1>1, <1>4, <1>5 DEF Crashed

LEMMA EventsKeep ==
  ASSUME IInv, Next, ConnectEvent \/ DisconnectEvent
  PROVE  TypeOK' /\ UnderWayRight' /\ Crashed'
<1> USE DEF IInv
<1>1. UNCHANGED <<link, net, batch, conn, pc, at, jobs>> /\ pc = "events"
  BY DEF ConnectEvent, DisconnectEvent, Event, EventDone, lobbyVars
<1>2. \A s \in Dummies : asked'[s] # <<>> => asked[s] # <<>> \/ ExistsOrDown(s)'
  <2>1. CASE ConnectEvent BY <2>1, ConnectEventKeeps DEF ExistsOrDown
  <2>2. CASE DisconnectEvent BY <2>2 DEF DisconnectEvent
  <2>3. QED BY <2>1, <2>2
<1>3. UnderWayRight'
  BY <1>1, <1>2, UnderWayKept DEF UnderWayRight
<1>4. QED BY <1>1, <1>3, ConnectEventKeeps, DisconnectEventKeeps DEF Crashed

LEMMA LobbyKeeps ==
  ASSUME IInv, Next, LobbyRight
  PROVE  TypeOK' /\ UnderWayRight' /\ Crashed'
<1> USE DEF IInv, LobbyRight
<1>1. OfThem(Packets) \subseteq Packets /\ OfThem(Jobs) \subseteq Jobs
  BY DEF OfThem
<1>2. net' \in Seq(Packets) /\ jobs' \in [Rooms -> Seq(Jobs)]
  <2>1. net' \in Seq(Packets) BY <1>1, SeqGrows
  <2>2. \A r \in Rooms : jobs'[r] \in Seq(Jobs) BY <1>1, SeqGrows
  <2>3. QED BY <2>1, <2>2
<1>3. TypeOK'
  BY <1>2 DEF TypeOK, listVars
<1>4. UnderWayRight'
  BY UnderWayKept DEF UnderWayRight
<1>5. Crashed'
  BY DEF Crashed, S
<1>6. QED BY <1>3, <1>4, <1>5

LEMMA StepIInv == IInv /\ [Next]_vars => IInv'
<1> SUFFICES ASSUME IInv, [Next]_vars PROVE IInv' OBVIOUS
<1>1. CASE UNCHANGED vars
  <2>1. /\ UNCHANGED <<link, net, batch, conn, events, pc, dummy, list, index, first, asked, at, jobs>>
        /\ IInv
    BY <1>1 DEF vars, listVars
  <2>2. TypeOK' BY <2>1 DEF IInv, TypeOK
  <2>3. EventsRight' BY <2>1 DEF IInv, EventsRight, Pending
  <2>4. TimedRight' /\ ListsAgree' BY <2>1 DEF IInv, TimedRight, ListsAgree
  <2>5. UnderWayRight'
    <3>1. OfThem(Packets)' = OfThem(Packets) /\ OfThem(Jobs)' = OfThem(Jobs)
      BY <2>1 DEF OfThem, ExistsOrDown
    <3>2. QED BY <2>1, <3>1 DEF IInv, UnderWayRight, ExistsOrDown
  <2>6. Crashed' BY <2>1 DEF IInv, Crashed, S
  <2>7. QED BY <2>2, <2>3, <2>4, <2>5, <2>6 DEF IInv
<1>2. CASE Next /\ Steady
  <2>1. EventsRight' /\ ListsAgree' /\ TimedRight'
    BY <1>2, SteadyKeeps, SameEvents, SameLists DEF IInv
  <2>2. TypeOK' /\ UnderWayRight' /\ Crashed'
    <3>1. ASSUME NEW s \in Dummies, Serve(s) PROVE LobbyRight
      BY <3>1, ServeRight DEF IInv
    <3>2. ASSUME NEW r \in Rooms, RunJob(r) PROVE LobbyRight
      BY <3>2, RunJobRight DEF IInv
    <3>3. QED
      BY <1>2, <3>1, <3>2, HandledKeeps, HandleUnknownKeeps, OthersKeep, LobbyKeeps DEF Steady
  <2>3. QED BY <2>1, <2>2 DEF IInv
<1>3. ASSUME Next, NEW s \in Dummies, Connect(s) \/ Drop(s) PROVE IInv'
  BY <1>3, ConnectKeeps, DropKeeps, ConnectionsKeep DEF IInv
<1>4. CASE Next /\ (ConnectEvent \/ DisconnectEvent)
  BY <1>4, ConnectEventKeeps, DisconnectEventKeeps, EventsKeep DEF IInv
<1>5. Next => \/ Steady \/ ConnectEvent \/ DisconnectEvent
              \/ \E s \in Dummies : Connect(s) \/ Drop(s)
  <2>1. Logic => Steady \/ ConnectEvent \/ DisconnectEvent
    BY DEF Logic, Steady, HandlesOne
  <2>2. QED BY <2>1 DEF Next, Steady
<1>6. QED BY <1>1, <1>2, <1>3, <1>4, <1>5

-----------------------------------------------------------------------------
(* The conversation of a dummy and the lobby.  What of a sequence q is in   *)
(* the set X: nothing, one thing x, or x and y in this order.               *)
NoneIn(q, X) == \A k \in DOMAIN q : q[k] \notin X
OneIn(q, X, x) == \E k \in DOMAIN q : q[k] = x /\ \A m \in DOMAIN q : q[m] \in X => m = k
TwoIn(q, X, x, y) ==
  \E k, l \in DOMAIN q :
    k < l /\ q[k] = x /\ q[l] = y /\ \A m \in DOMAIN q : q[m] \in X => m = k \/ m = l

OwnPackets(s) == {p \in Packets : p.dummy = s /\ p.type # "notify"}
OwnJobs(s) == {j \in Jobs : j.dummy = s}
Packet1(s, type, rs) == [dummy |-> s, type |-> type, rooms |-> rs]

NoPacket(s) == NoneIn(Coming, OwnPackets(s))
OnePacket(s, type, rs) == OneIn(Coming, OwnPackets(s), Packet1(s, type, rs))
TwoPackets(s, r) ==
  TwoIn(Coming, OwnPackets(s), Packet1(s, "made", {r}), Packet1(s, "entered", {}))
NoJob(s) == \A r \in Rooms : NoneIn(jobs[r], OwnJobs(s))
OneJob(s, r, act) ==
  /\ OneIn(jobs[r], OwnJobs(s), [dummy |-> s, act |-> act])
  /\ \A q \in Rooms \ {r} : NoneIn(jobs[q], OwnJobs(s))

(* Where the one thing that is under way for s is.                          *)
Silent(s) == asked[s] = <<>> /\ NoJob(s) /\ NoPacket(s)
Asking(s, act, r) == asked[s] = <<[act |-> act, room |-> r]>> /\ NoJob(s) /\ NoPacket(s)
Posted(s, act, r) == asked[s] = <<>> /\ OneJob(s, r, act) /\ NoPacket(s)
Getting(s, type, rs) == asked[s] = <<>> /\ NoJob(s) /\ OnePacket(s, type, rs)
GettingTwo(s, r) == asked[s] = <<>> /\ NoJob(s) /\ TwoPackets(s, r)

(* What it may be, by the status of the dummy, the room it has noted and    *)
(* the room a the lobby has the user in.                                    *)
SilentFits(st, nx, rm, a) ==
  \/ st \in {"rtt", "lobby"} /\ nx # "never" /\ a = 0
  \/ st = "room" /\ nx # "never" /\ a = rm /\ rm \in Rooms
  \/ st = "enter" /\ nx = "never" /\ a = 0
AskFits(st, rm, a, act, r) ==
  \/ st = "connected" /\ act = "login" /\ a = 0
  \/ st = "rtt" /\ act = "echo" /\ a = 0
  \/ st = "lobby" /\ act \in {"list", "make"} /\ a = 0
  \/ st = "enter" /\ act = "enter" /\ a = 0 /\ r = rm /\ rm \in Rooms
  \/ st \in {"chat", "leave"} /\ act = st /\ a = rm /\ r = rm /\ rm \in Rooms
JobFits(st, rm, a, act, r) ==
  /\ act = st /\ r = rm /\ rm \in Rooms
  /\ (st = "enter" /\ a = 0) \/ (st \in {"chat", "leave"} /\ a = rm)
GetFits(st, rm, a, type, rs) ==
  \/ st = "connected" /\ type = "login" /\ a = 0
  \/ st = "rtt" /\ type = "echo" /\ a = 0
  \/ st = "lobby" /\ type = "list" /\ a = 0
  \/ st = "lobby" /\ type = "made" /\ rs = {} /\ a = 0
  \/ st = "enter" /\ type = "error" /\ a = 0
  \/ st = "enter" /\ type = "entered" /\ a = rm /\ rm \in Rooms
  \/ st = "chat" /\ type = "chatted" /\ a = rm /\ rm \in Rooms
  \/ st = "leave" /\ type = "left" /\ a = 0

Acts1 == {"login", "list", "echo", "make", "enter", "leave", "chat"}
Types1 == {"login", "list", "echo", "made", "entered", "error", "left", "chatted"}
Talk(s, st, nx, rm, a) ==
  \/ Silent(s) /\ SilentFits(st, nx, rm, a)
  \/ /\ nx = "never"
     /\ \/ \E act \in Acts1, r \in Rooms \cup {0} : Asking(s, act, r) /\ AskFits(st, rm, a, act, r)
        \/ \E act \in Acts1, r \in Rooms : Posted(s, act, r) /\ JobFits(st, rm, a, act, r)
        \/ \E type \in Types1, rs \in SUBSET Rooms :
             Getting(s, type, rs) /\ GetFits(st, rm, a, type, rs)
        \/ GettingTwo(s, a) /\ st = "lobby" /\ a \in Rooms

Talks(s) == Talk(s, dummy[s].status, dummy[s].next, dummy[s].room, at[s])
BatchRight == pc \notin {"handle", "crashed"} => batch = <<>>
TalkInv == BatchRight /\ \A s \in DOMAIN dummy : link[s] = "up" => Talks(s)

-----------------------------------------------------------------------------
LEMMA ConcatIs ==
  ASSUME NEW T, NEW q \in Seq(T), NEW p \in Seq(T)
  PROVE  /\ q \o p \in Seq(T) /\ Len(q) \in Nat /\ Len(p) \in Nat
         /\ Len(q \o p) = Len(q) + Len(p) /\ DOMAIN (q \o p) = 1 .. Len(q) + Len(p)
         /\ DOMAIN q = 1 .. Len(q) /\ DOMAIN p = 1 .. Len(p)
         /\ \A k \in 1 .. Len(q) + Len(p) :
              (q \o p)[k] = IF k <= Len(q) THEN q[k] ELSE p[k - Len(q)]
OBVIOUS

(* What a sequence has of X when something is put behind it.                *)
LEMMA NoneBehind ==
  ASSUME NEW T, NEW q \in Seq(T), NEW p \in Seq(T), NEW X, NoneIn(p, X)
  PROVE  /\ NoneIn(q, X) => NoneIn(q \o p, X)
         /\ \A x : OneIn(q, X, x) => OneIn(q \o p, X, x)
         /\ \A x, y : TwoIn(q, X, x, y) => TwoIn(q \o p, X, x, y)
<1>1. /\ q \o p \in Seq(T) /\ DOMAIN (q \o p) = 1 .. Len(q) + Len(p)
      /\ DOMAIN q = 1 .. Len(q) /\ DOMAIN p = 1 .. Len(p) /\ Len(q) \in Nat /\ Len(p) \in Nat
      /\ \A k \in 1 .. Len(q) + Len(p) :
           (q \o p)[k] = IF k <= Len(q) THEN q[k] ELSE p[k - Len(q)]
  BY ConcatIs
<1> DEFINE z == q \o p
<1>2. \A k \in DOMAIN q : k \in DOMAIN z /\ z[k] = q[k]
  BY <1>1
<1>3. \A k \in DOMAIN z : k \in DOMAIN q \/ z[k] \notin X
  BY <1>1 DEF NoneIn
<1> HIDE DEF z
<1>4. NoneIn(q, X) => NoneIn(z, X)
  BY <1>2, <1>3 DEF NoneIn
<1>5. ASSUME NEW x, OneIn(q, X, x) PROVE OneIn(z, X, x)
  BY <1>2, <1>3, <1>5 DEF OneIn
<1>6. ASSUME NEW x, NEW y, TwoIn(q, X, x, y) PROVE TwoIn(z, X, x, y)
  BY <1>2, <1>3, <1>6 DEF TwoIn
<1>7. QED BY <1>4, <1>5, <1>6 DEF z

LEMMA OneAppended ==
  ASSUME NEW T, NEW q \in Seq(T), NEW x \in T
  PROVE  Append(q, x) = q \o <<x>> /\ <<x>> \in Seq(T)
OBVIOUS

LEMMA PairIs ==
  ASSUME NEW T, NEW x \in T, NEW y \in T
  PROVE  LET p == <<x>> \o <<y>> IN p \in Seq(T) /\ Len(p) = 2 /\ p[1] = x /\ p[2] = y
<1> DEFINE a == <<x>>
           b == <<y>>
<1>1. a \in Seq(T) /\ b \in Seq(T) /\ Len(a) = 1 /\ Len(b) = 1 /\ a[1] = x /\ b[1] = y
  OBVIOUS
<1> HIDE DEF a, b
<1> DEFINE z == a \o b
<1>2. /\ z \in Seq(T) /\ Len(z) = 1 + 1
      /\ \A k \in 1 .. 1 + 1 : z[k] = IF k <= 1 THEN a[k] ELSE b[k - 1]
  BY <1>1, ConcatIs
<1> HIDE DEF z
<1>4. z[1] = a[1] /\ z[2] = b[1]
  BY <1>2
<1>5. a \o b \in Seq(T) /\ Len(a \o b) = 2 /\ (a \o b)[1] = x /\ (a \o b)[2] = y
  BY <1>1, <1>2, <1>4 DEF z
<1>3. QED BY <1>5 DEF a, b

LEMMA OneBehind ==
  ASSUME NEW T, NEW q \in Seq(T), NEW X, NEW x \in T, NoneIn(q, X)
  PROVE  OneIn(q \o <<x>>, X, x) /\ OneIn(Append(q, x), X, x)
<1> DEFINE n == Len(q) + 1
<1>1. /\ n \in Nat /\ DOMAIN q = 1 .. n - 1 /\ q \o <<x>> = Append(q, x)
      /\ DOMAIN Append(q, x) = 1 .. n /\ n \in 1 .. n
      /\ Append(q, x)[n] = x /\ \A k \in 1 .. n - 1 : Append(q, x)[k] = q[k]
  OBVIOUS
<1> HIDE DEF n
<1>2. \A m \in 1 .. n : m # n => m \in 1 .. n - 1
  BY <1>1
<1>3. OneIn(Append(q, x), X, x)
  BY <1>1, <1>2 DEF OneIn, NoneIn
<1>4. QED BY <1>1, <1>3

LEMMA TwoBehind ==
  ASSUME NEW T, NEW q \in Seq(T), NEW X, NEW x, NEW y, NoneIn(q, X),
         NEW p \in Seq(T), Len(p) = 2, p[1] = x, p[2] = y
  PROVE  TwoIn(q \o p, X, x, y)
<1> DEFINE n == Len(q) + 1
           z == q \o p
<1>2. /\ Len(q) \in Nat /\ DOMAIN q = 1 .. Len(q) /\ DOMAIN z = 1 .. Len(q) + Len(p)
      /\ \A k \in 1 .. Len(q) + Len(p) : z[k] = IF k <= Len(q) THEN q[k] ELSE p[k - Len(q)]
  <2>1. q \in Seq(T) /\ p \in Seq(T)
    OBVIOUS
  <2>2. QED BY ONLY <2>1, ConcatIs
<1> HIDE DEF z
<1>0. /\ Len(q) \in Nat /\ DOMAIN q = 1 .. Len(q) /\ DOMAIN z = 1 .. Len(q) + 2
      /\ \A k \in 1 .. Len(q) + 2 : z[k] = IF k <= Len(q) THEN q[k] ELSE p[k - Len(q)]
  BY <1>2
<1>1. /\ n \in Nat /\ DOMAIN q = 1 .. n - 1 /\ DOMAIN z = 1 .. n + 1
      /\ z[n] = x /\ z[n + 1] = y /\ \A k \in 1 .. n - 1 : z[k] = q[k]
  BY <1>0
<1>6. n \in DOMAIN z /\ n + 1 \in DOMAIN z /\ n < n + 1
  BY <1>1
<1> HIDE DEF n, z
<1>3. \A m \in DOMAIN z : m = n \/ m = n + 1 \/ m \in DOMAIN q
  BY <1>1
<1>4. TwoIn(z, X, x, y)
  BY <1>1, <1>6, <1>3 DEF TwoIn, NoneIn
<1>5. QED BY <1>4 DEF z

(* And when its head is taken: it is something else, or the first of them.  *)
LEMMA TailSteps ==
  ASSUME NEW T, NEW q \in Seq(T), q # <<>>
  PROVE  /\ Head(q) = q[1] /\ 1 \in DOMAIN q /\ Tail(q) \in Seq(T) /\ DOMAIN q \subseteq Nat
         /\ \A k \in DOMAIN Tail(q) : k + 1 \in DOMAIN q /\ k + 1 # 1 /\ Tail(q)[k] = q[k + 1]
         /\ \A k \in DOMAIN q : k # 1 => k - 1 \in DOMAIN Tail(q) /\ Tail(q)[k - 1] = q[k]
<1>1. /\ Len(q) \in Nat \ {0} /\ DOMAIN q = 1 .. Len(q)
      /\ Tail(q) \in Seq(T) /\ Len(Tail(q)) = Len(q) - 1
      /\ DOMAIN Tail(q) = 1 .. Len(q) - 1
      /\ \A k \in 1 .. Len(q) - 1 : Tail(q)[k] = q[k + 1]
  OBVIOUS
<1>2. ASSUME NEW k \in DOMAIN q, k # 1
      PROVE  k - 1 \in DOMAIN Tail(q) /\ Tail(q)[k - 1] = q[k]
  <2>1. k \in 1 .. Len(q) /\ k - 1 \in 1 .. Len(q) - 1 /\ (k - 1) + 1 = k
    BY <1>1, <1>2
  <2>2. QED BY <1>1, <2>1
<1>3. ASSUME NEW k \in DOMAIN Tail(q)
      PROVE  k + 1 \in DOMAIN q /\ k + 1 # 1 /\ Tail(q)[k] = q[k + 1]
  BY <1>1
<1>4. QED BY <1>1, <1>2, <1>3

LEMMA NoneTaken ==
  ASSUME NEW T, NEW q \in Seq(T), q # <<>>, NEW X, Head(q) \notin X
  PROVE  /\ NoneIn(q, X) => NoneIn(Tail(q), X)
         /\ \A x \in X : OneIn(q, X, x) => OneIn(Tail(q), X, x)
         /\ \A x, y \in X : TwoIn(q, X, x, y) => TwoIn(Tail(q), X, x, y)
<1> DEFINE z == Tail(q)
<1>1. /\ Head(q) = q[1] /\ DOMAIN q \subseteq Nat
      /\ \A k \in DOMAIN z : k + 1 \in DOMAIN q /\ k + 1 # 1 /\ z[k] = q[k + 1]
      /\ \A k \in DOMAIN q : k # 1 => k - 1 \in DOMAIN z /\ z[k - 1] = q[k]
      /\ DOMAIN z \subseteq Nat
  BY TailSteps
<1> HIDE DEF z
<1>2. NoneIn(q, X) => NoneIn(z, X)
  BY <1>1 DEF NoneIn
<1>3. ASSUME NEW x \in X, OneIn(q, X, x) PROVE OneIn(z, X, x)
  <2>1. PICK k \in DOMAIN q : q[k] = x /\ \A m \in DOMAIN q : q[m] \in X => m = k
    BY <1>3 DEF OneIn
  <2>2. k # 1 /\ k - 1 \in DOMAIN z /\ z[k - 1] = x
    BY <1>1, <2>1
  <2>3. \A m \in DOMAIN z : z[m] \in X => m = k - 1
    <3>1. ASSUME NEW m \in DOMAIN z, z[m] \in X PROVE m = k - 1
      <4>1. m + 1 = k /\ m \in Nat
        BY <1>1, <2>1, <3>1
      <4>2. QED BY <4>1
    <3>2. QED BY <3>1
  <2>4. QED BY <2>2, <2>3 DEF OneIn
<1>4. ASSUME NEW x \in X, NEW y \in X, TwoIn(q, X, x, y) PROVE TwoIn(z, X, x, y)
  <2>1. PICK k \in DOMAIN q, l \in DOMAIN q :
          k < l /\ q[k] = x /\ q[l] = y /\ \A m \in DOMAIN q : q[m] \in X => m = k \/ m = l
    BY <1>4 DEF TwoIn
  <2>2. k # 1 /\ k - 1 \in DOMAIN z /\ z[k - 1] = x /\ l # 1 /\ l - 1 \in DOMAIN z /\ z[l - 1] = y
    BY <1>1, <2>1
  <2>3. k - 1 < l - 1
    <3>1. k \in Nat /\ l \in Nat BY <1>1
    <3>2. QED BY <2>1, <3>1
  <2>4. ASSUME NEW m \in DOMAIN z, z[m] \in X PROVE m = k - 1 \/ m = l - 1
    <3>1. (m + 1 = k \/ m + 1 = l) /\ m \in Nat
      BY <1>1, <2>1, <2>4
    <3>2. QED BY <3>1
  <2>5. QED BY <2>2, <2>3, <2>4 DEF TwoIn
<1>5. QED BY <1>2, <1>3, <1>4 DEF z

LEMMA OneTaken ==
  ASSUME NEW T, NEW q \in Seq(T), q # <<>>, NEW X, Head(q) \in X
  PROVE  /\ ~NoneIn(q, X)
         /\ \A x : OneIn(q, X, x) => Head(q) = x /\ NoneIn(Tail(q), X)
         /\ \A x, y : TwoIn(q, X, x, y) => Head(q) = x /\ OneIn(Tail(q), X, y)
<1> DEFINE z == Tail(q)
<1>1. /\ Head(q) = q[1] /\ 1 \in DOMAIN q /\ DOMAIN q \subseteq Nat
      /\ \A k \in DOMAIN z : k + 1 \in DOMAIN q /\ k + 1 # 1 /\ z[k] = q[k + 1]
      /\ \A k \in DOMAIN q : k # 1 => k - 1 \in DOMAIN z /\ z[k - 1] = q[k]
      /\ DOMAIN z \subseteq Nat /\ \A k \in DOMAIN q : k >= 1
  BY TailSteps
<1> HIDE DEF z
<1>2. ~NoneIn(q, X)
  BY <1>1 DEF NoneIn
<1>3. ASSUME NEW x, OneIn(q, X, x) PROVE Head(q) = x /\ NoneIn(z, X)
  BY <1>1, <1>3 DEF OneIn, NoneIn
<1>4. ASSUME NEW x, NEW y, TwoIn(q, X, x, y) PROVE Head(q) = x /\ OneIn(z, X, y)
  <2>1. PICK k \in DOMAIN q, l \in DOMAIN q :
          k < l /\ q[k] = x /\ q[l] = y /\ \A m \in DOMAIN q : q[m] \in X => m = k \/ m = l
    BY <1>4 DEF TwoIn
  <2>2. k = 1 \/ l = 1
    BY <1>1, <2>1
  <2>3. k = 1 /\ l # 1
    <3>1. k \in Nat /\ l \in Nat /\ k >= 1 BY <1>1
    <3>2. QED BY <2>1, <2>2, <3>1
  <2>4. l - 1 \in DOMAIN z /\ z[l - 1] = y
    BY <1>1, <2>1, <2>3
  <2>5. ASSUME NEW m \in DOMAIN z, z[m] \in X PROVE m = l - 1
    <3>1. m + 1 = l /\ m \in Nat
      BY <1>1, <2>1, <2>3, <2>5
    <3>2. QED BY <3>1
  <2>6. QED BY <1>1, <2>1, <2>3, <2>4, <2>5 DEF OneIn
<1>5. QED BY <1>2, <1>3, <1>4 DEF z

-----------------------------------------------------------------------------
(* The packets and the jobs of a dummy when others of them come or go.      *)
PacketsKept(s) ==
  /\ NoPacket(s) => NoPacket(s)'
  /\ \A type \in Types1, rs \in SUBSET Rooms : OnePacket(s, type, rs) => OnePacket(s, type, rs)'
  /\ \A r \in Rooms : TwoPackets(s, r) => TwoPackets(s, r)'
JobsKept(s) ==
  /\ NoJob(s) => NoJob(s)'
  /\ \A act \in Acts1, r \in Rooms : OneJob(s, r, act) => OneJob(s, r, act)'

LEMMA OwnThings ==
  ASSUME NEW s \in Dummies
  PROVE  /\ \A type \in Types1, rs \in SUBSET Rooms : Packet1(s, type, rs) \in OwnPackets(s)
         /\ \A act \in Acts1 : [dummy |-> s, act |-> act] \in Jobs => [dummy |-> s, act |-> act] \in OwnJobs(s)
         /\ OwnPackets(s) \subseteq Packets
BY DEF OwnPackets, OwnJobs, Packet1, Packets, Types1

LEMMA SamePackets ==
  ASSUME NEW s \in Dummies, Coming' = Coming
  PROVE  PacketsKept(s)
BY DEF PacketsKept, NoPacket, OnePacket, TwoPackets

LEMMA SameJobs ==
  ASSUME NEW s \in Dummies, jobs' = jobs
  PROVE  JobsKept(s)
BY DEF JobsKept, NoJob, OneJob

LEMMA ComingSent ==
  ASSUME TypeOK, NEW p \in Seq(Packets), Answered(p), batch' = batch
  PROVE  Coming \in Seq(Packets) /\ Coming' = Coming \o p
<1>1. net \in Seq(Packets) /\ batch \in Seq(Packets)
  BY DEF TypeOK
<1>2. net' = net \o p
  BY DEF Answered
<1>3. batch \o (net \o p) = (batch \o net) \o p
  BY <1>1
<1>4. QED BY <1>1, <1>2, <1>3 DEF Coming

LEMMA OtherPacketsSent ==
  ASSUME TypeOK, NEW s \in Dummies, NEW p \in Seq(Packets), NoneIn(p, OwnPackets(s)),
         Answered(p), batch' = batch
  PROVE  PacketsKept(s)
<1>1. Coming \in Seq(Packets) /\ Coming' = Coming \o p
  BY ComingSent
<1> DEFINE X == OwnPackets(s)
           q == Coming
<1> HIDE DEF X, q
<1>2. /\ NoneIn(q, X) => NoneIn(q \o p, X)
      /\ \A x : OneIn(q, X, x) => OneIn(q \o p, X, x)
      /\ \A x, y : TwoIn(q, X, x, y) => TwoIn(q \o p, X, x, y)
  <2>1. q \in Seq(Packets) /\ NoneIn(p, X) BY <1>1 DEF q, X
  <2>2. QED BY <2>1, NoneBehind
<1>3. Coming' = q \o p /\ OwnPackets(s)' = X
  BY <1>1 DEF q, X, OwnPackets
<1>4. QED BY <1>2, <1>3 DEF PacketsKept, NoPacket, OnePacket, TwoPackets, q, X

LEMMA OwnPacketSent ==
  ASSUME TypeOK, NEW s \in Dummies, NEW type \in Types1, NEW rs \in SUBSET Rooms, NoPacket(s),
         Answered(<<Packet1(s, type, rs)>>), batch' = batch
  PROVE  OnePacket(s, type, rs)'
<1> DEFINE x == Packet1(s, type, rs)
<1>1. x \in Packets
  BY OwnThings
<1>2. <<x>> \in Seq(Packets)
  BY <1>1
<1>3. Coming \in Seq(Packets) /\ Coming' = Coming \o <<x>>
  BY <1>2, ComingSent
<1> HIDE DEF x
<1>4. OneIn(Coming \o <<x>>, OwnPackets(s), x)
  BY <1>1, <1>3, OneBehind DEF NoPacket
<1>5. QED BY <1>3, <1>4 DEF OnePacket, x

LEMMA OwnTwoSent ==
  ASSUME TypeOK, NEW s \in Dummies, NEW r \in Rooms, NoPacket(s),
         Answered(<<Packet1(s, "made", {r})>> \o <<Packet1(s, "entered", {})>>), batch' = batch
  PROVE  TwoPackets(s, r)'
<1> DEFINE x == Packet1(s, "made", {r})
           y == Packet1(s, "entered", {})
<1>1. x \in Packets /\ y \in Packets
  BY OwnThings DEF Types1
<1> HIDE DEF x, y
<1> DEFINE p == <<x>> \o <<y>>
<1>2. p \in Seq(Packets) /\ Len(p) = 2 /\ p[1] = x /\ p[2] = y
  BY <1>1, PairIs
<1>8. Answered(p)
  BY DEF x, y
<1> HIDE DEF p
<1>3. Coming \in Seq(Packets) /\ Coming' = Coming \o p
  BY <1>2, <1>8, ComingSent
<1>4. TwoIn(Coming \o p, OwnPackets(s), x, y)
  BY <1>2, <1>3, TwoBehind DEF NoPacket
<1>5. QED BY <1>3, <1>4 DEF TwoPackets, x, y

LEMMA ComingTaken ==
  ASSUME TypeOK, batch # <<>>, batch' = Tail(batch), net' = net
  PROVE  /\ Coming \in Seq(Packets) /\ Coming # <<>>
         /\ Coming' = Tail(Coming) /\ Head(Coming) = Head(batch)
<1>1. net \in Seq(Packets) /\ batch \in Seq(Packets)
  BY DEF TypeOK
<1>2. /\ batch \o net # <<>> /\ Head(batch \o net) = Head(batch)
      /\ Tail(batch) \o net = Tail(batch \o net) /\ batch \o net \in Seq(Packets)
  BY <1>1
<1>3. QED BY <1>2 DEF Coming

LEMMA OtherPacketTaken ==
  ASSUME TypeOK, NEW s \in Dummies, batch # <<>>, batch' = Tail(batch), net' = net,
         Head(batch) \notin OwnPackets(s)
  PROVE  PacketsKept(s)
<1> DEFINE q == Coming
           X == OwnPackets(s)
<1>1. q \in Seq(Packets) /\ q # <<>> /\ Coming' = Tail(q) /\ Head(q) \notin X
  BY ComingTaken
<1>2. /\ X \subseteq Packets
      /\ \A type \in Types1, rs \in SUBSET Rooms : Packet1(s, type, rs) \in X
  BY OwnThings
<1>3. /\ OwnPackets(s)' = X
      /\ \A r \in Rooms : {r} \in SUBSET Rooms
      /\ {} \in SUBSET Rooms /\ "made" \in Types1 /\ "entered" \in Types1
  BY DEF OwnPackets, Types1
<1>0. \A r \in Rooms : Packet1(s, "made", {r}) \in X /\ Packet1(s, "entered", {}) \in X
  BY <1>2, <1>3
<1> HIDE DEF X, q
<1>4. /\ NoneIn(q, X) => NoneIn(Tail(q), X)
      /\ \A x \in X : OneIn(q, X, x) => OneIn(Tail(q), X, x)
      /\ \A x, y \in X : TwoIn(q, X, x, y) => TwoIn(Tail(q), X, x, y)
  BY <1>1, NoneTaken
<1>5. NoPacket(s) => NoPacket(s)'
  BY <1>1, <1>3, <1>4 DEF NoPacket, q, X
<1>6. \A type \in Types1, rs \in SUBSET Rooms : OnePacket(s, type, rs) => OnePacket(s, type, rs)'
  BY <1>1, <1>2, <1>3, <1>4 DEF OnePacket, q, X
<1>7. \A r \in Rooms : TwoPackets(s, r) => TwoPackets(s, r)'
  BY <1>1, <1>0, <1>3, <1>4 DEF TwoPackets, q, X
<1>8. QED BY <1>5, <1>6, <1>7 DEF PacketsKept

LEMMA OwnPacketTaken ==
  ASSUME TypeOK, NEW s \in Dummies, batch # <<>>, batch' = Tail(batch), net' = net,
         Head(batch) \in OwnPackets(s)
  PROVE  /\ ~NoPacket(s)
         /\ \A type, rs :
              OnePacket(s, type, rs) => Head(batch) = Packet1(s, type, rs) /\ NoPacket(s)'
         /\ \A r : TwoPackets(s, r) =>
              Head(batch) = Packet1(s, "made", {r}) /\ OnePacket(s, "entered", {})'
<1> DEFINE q == Coming
           X == OwnPackets(s)
<1>1. q \in Seq(Packets) /\ q # <<>> /\ Coming' = Tail(q) /\ Head(q) \in X /\ Head(q) = Head(batch)
  BY ComingTaken
<1>3. OwnPackets(s)' = X
  BY DEF OwnPackets
<1> HIDE DEF X, q
<1>4. /\ ~NoneIn(q, X)
      /\ \A x : OneIn(q, X, x) => Head(q) = x /\ NoneIn(Tail(q), X)
      /\ \A x, y : TwoIn(q, X, x, y) => Head(q) = x /\ OneIn(Tail(q), X, y)
  BY <1>1, OneTaken
<1>5. QED BY <1>1, <1>3, <1>4 DEF NoPacket, OnePacket, TwoPackets, q, X

LEMMA OtherJobPosted ==
  ASSUME TypeOK, NEW s \in Dummies, NEW t \in Dummies, t # s, NEW act, NEW r \in Rooms,
         [dummy |-> t, act |-> act] \in Jobs, Post(t, act, r)
  PROVE  JobsKept(s)
<1> DEFINE j == [dummy |-> t, act |-> act]
           X == OwnJobs(s)
           q == jobs[r]
<1>0. q \in Seq(Jobs) /\ j \in Jobs /\ jobs' = [jobs EXCEPT ![r] = Append(q, j)]
  BY DEF Post, TypeOK
<1>1. jobs' = [jobs EXCEPT ![r] = q \o <<j>>] /\ q \in Seq(Jobs) /\ <<j>> \in Seq(Jobs)
      /\ jobs \in [Rooms -> Seq(Jobs)]
  BY <1>0, OneAppended DEF TypeOK
<1>2. j \notin X /\ OwnJobs(s)' = X
  BY DEF OwnJobs
<1> HIDE DEF j, X, q
<1>3. NoneIn(<<j>>, X)
  BY <1>2 DEF NoneIn
<1>4. /\ NoneIn(q, X) => NoneIn(q \o <<j>>, X)
      /\ \A x : OneIn(q, X, x) => OneIn(q \o <<j>>, X, x)
  BY <1>1, <1>3, NoneBehind
<1>5. \A k \in Rooms : /\ NoneIn(jobs[k], X) => NoneIn(jobs'[k], X)
                       /\ \A x : OneIn(jobs[k], X, x) => OneIn(jobs'[k], X, x)
  BY <1>1, <1>4 DEF q
<1>6. QED BY <1>2, <1>5 DEF JobsKept, NoJob, OneJob, X

LEMMA OwnJobPosted ==
  ASSUME TypeOK, NEW s \in Dummies, NEW act, NEW r \in Rooms,
         [dummy |-> s, act |-> act] \in Jobs, Post(s, act, r), NoJob(s)
  PROVE  OneJob(s, r, act)'
<1> DEFINE j == [dummy |-> s, act |-> act]
           X == OwnJobs(s)
           q == jobs[r]
<1>0. q \in Seq(Jobs) /\ j \in Jobs /\ jobs' = [jobs EXCEPT ![r] = Append(q, j)]
  BY DEF Post, TypeOK
<1>1. /\ jobs' = [jobs EXCEPT ![r] = q \o <<j>>] /\ q \in Seq(Jobs)
      /\ jobs \in [Rooms -> Seq(Jobs)] /\ j \in Jobs
  BY <1>0, OneAppended DEF TypeOK
<1>2. OwnJobs(s)' = X /\ \A k \in Rooms : NoneIn(jobs[k], X)
  BY DEF OwnJobs, NoJob
<1> HIDE DEF j, X, q
<1>3. OneIn(q \o <<j>>, X, j)
  BY <1>1, <1>2, OneBehind DEF q
<1>4. OneIn(jobs'[r], X, j) /\ \A k \in Rooms \ {r} : NoneIn(jobs'[k], X)
  BY <1>1, <1>2, <1>3
<1>5. QED BY <1>2, <1>4 DEF OneJob, j, X

LEMMA OtherJobRun ==
  ASSUME TypeOK, NEW s \in Dummies, NEW r \in Rooms, jobs[r] # <<>>,
         jobs' = [jobs EXCEPT ![r] = Tail(@)], Head(jobs[r]).dummy # s
  PROVE  JobsKept(s)
<1> DEFINE X == OwnJobs(s)
           q == jobs[r]
<1>1. q \in Seq(Jobs) /\ q # <<>> /\ Head(q) \notin X /\ OwnJobs(s)' = X
      /\ jobs \in [Rooms -> Seq(Jobs)] /\ jobs' = [jobs EXCEPT ![r] = Tail(q)]
  BY DEF OwnJobs, TypeOK
<1>2. \A act : [dummy |-> s, act |-> act] \in Jobs => [dummy |-> s, act |-> act] \in X
  BY DEF OwnJobs
<1> HIDE DEF X, q
<1>3. /\ NoneIn(q, X) => NoneIn(Tail(q), X)
      /\ \A x \in X : OneIn(q, X, x) => OneIn(Tail(q), X, x)
  BY <1>1, NoneTaken
<1>4. \A k \in Rooms : /\ NoneIn(jobs[k], X) => NoneIn(jobs'[k], X)
                       /\ \A x \in X : OneIn(jobs[k], X, x) => OneIn(jobs'[k], X, x)
  BY <1>1, <1>3 DEF q
<1>5. ASSUME NEW act \in Acts1, NEW k \in Rooms, OneJob(s, k, act) PROVE OneJob(s, k, act)'
  <2>1. OneIn(jobs[k], X, [dummy |-> s, act |-> act])
    BY <1>5 DEF OneJob, X
  <2>2. [dummy |-> s, act |-> act] \in Jobs
    <3>1. jobs[k] \in Seq(Jobs) BY DEF TypeOK
    <3>2. QED BY <2>1, <3>1 DEF OneIn
  <2>3. OneIn(jobs'[k], X, [dummy |-> s, act |-> act])
    BY <1>2, <1>4, <2>1, <2>2
  <2>4. \A l \in Rooms \ {k} : NoneIn(jobs'[l], X)
    BY <1>4, <1>5 DEF OneJob, X
  <2>5. QED BY <1>1, <2>3, <2>4 DEF OneJob
<1>6. NoJob(s) => NoJob(s)'
  BY <1>1, <1>4 DEF NoJob, X
<1>7. QED BY <1>5, <1>6 DEF JobsKept

LEMMA OwnJobRun ==
  ASSUME TypeOK, NEW s \in Dummies, NEW r \in Rooms, jobs[r] # <<>>,
         jobs' = [jobs EXCEPT ![r] = Tail(@)], Head(jobs[r]).dummy = s
  PROVE  /\ ~NoJob(s)
         /\ \A k \in Rooms : \A act : OneJob(s, k, act) => k = r /\ Head(jobs[r]).act = act /\ NoJob(s)'
<1> DEFINE X == OwnJobs(s)
           q == jobs[r]
<1>1. q \in Seq(Jobs) /\ q # <<>> /\ OwnJobs(s)' = X
      /\ jobs \in [Rooms -> Seq(Jobs)] /\ jobs' = [jobs EXCEPT ![r] = Tail(q)]
  BY DEF OwnJobs, TypeOK
<1>2. Head(q) \in X
  <2>1. Head(q) \in Jobs BY <1>1
  <2>2. QED BY <2>1 DEF OwnJobs
<1> HIDE DEF X, q
<1>3. /\ ~NoneIn(q, X)
      /\ \A x : OneIn(q, X, x) => Head(q) = x /\ NoneIn(Tail(q), X)
  BY <1>1, <1>2, OneTaken
<1>4. ~NoJob(s)
  BY <1>3 DEF NoJob, q, X
<1>5. ASSUME NEW act, NEW k \in Rooms, OneJob(s, k, act)
      PROVE  k = r /\ Head(jobs[r]).act = act /\ NoJob(s)'
  <2>1. k = r
    BY <1>3, <1>5 DEF OneJob, q, X
  <2>2. Head(q) = [dummy |-> s, act |-> act] /\ NoneIn(Tail(q), X)
    BY <1>3, <1>5, <2>1 DEF OneJob, q, X
  <2>3. \A l \in Rooms : NoneIn(jobs'[l], X)
    BY <1>1, <1>5, <2>1, <2>2 DEF OneJob, X
  <2>4. QED BY <1>1, <2>1, <2>2, <2>3 DEF NoJob, q
<1>6. QED BY <1>4, <1>5

-----------------------------------------------------------------------------
(* The conversation stays as it is when nothing of s moves.                 *)
LEMMA TalkKept ==
  ASSUME NEW s \in Dummies, NEW st, NEW nx, NEW rm, NEW a, Talk(s, st, nx, rm, a),
         asked'[s] = asked[s], PacketsKept(s), JobsKept(s)
  PROVE  Talk(s, st, nx, rm, a)'
<1>1. Silent(s) => Silent(s)'
  BY DEF Silent, PacketsKept, JobsKept
<1>2. \A act, r : Asking(s, act, r) => Asking(s, act, r)'
  BY DEF Asking, PacketsKept, JobsKept
<1>3. \A act \in Acts1, r \in Rooms : Posted(s, act, r) => Posted(s, act, r)'
  BY DEF Posted, PacketsKept, JobsKept
<1>4. \A type \in Types1, rs \in SUBSET Rooms : Getting(s, type, rs) => Getting(s, type, rs)'
  BY DEF Getting, PacketsKept, JobsKept
<1>5. \A r \in Rooms : GettingTwo(s, r) => GettingTwo(s, r)'
  BY DEF GettingTwo, PacketsKept, JobsKept
<1>6. QED BY <1>1, <1>2, <1>3, <1>4, <1>5 DEF Talk

LEMMA Untouched ==
  ASSUME NEW s \in Dummies, Talks(s), dummy'[s] = dummy[s], at'[s] = at[s],
         asked'[s] = asked[s], PacketsKept(s), JobsKept(s)
  PROVE  Talks(s)'
<1>1. PICK st, nx, rm, a :
        /\ st = dummy[s].status /\ nx = dummy[s].next /\ rm = dummy[s].room /\ a = at[s]
        /\ Talk(s, st, nx, rm, a)
  BY DEF Talks
<1>2. Talk(s, st, nx, rm, a)'
  BY <1>1, TalkKept
<1>3. Talk(s, st, nx, rm, a)' <=>
        Talk(s, dummy[s].status, dummy[s].next, dummy[s].room, at[s])'
  BY <1>1 DEF Talk
<1>4. QED BY <1>2, <1>3 DEF Talks

(* After a step of s it is one of these.                                    *)
LEMMA NowSilent ==
  ASSUME NEW s \in Dummies, Silent(s)',
         SilentFits(dummy'[s].status, dummy'[s].next, dummy'[s].room, at'[s])
  PROVE  Talks(s)'
BY DEF Talks, Talk

LEMMA NowAsking ==
  ASSUME NEW s \in Dummies, NEW act \in Acts1, NEW r \in Rooms \cup {0}, Asking(s, act, r)',
         dummy'[s].next = "never", AskFits(dummy'[s].status, dummy'[s].room, at'[s], act, r)
  PROVE  Talks(s)'
BY DEF Talks, Talk

LEMMA NowPosted ==
  ASSUME NEW s \in Dummies, NEW act \in Acts1, NEW r \in Rooms, Posted(s, act, r)',
         dummy'[s].next = "never", JobFits(dummy'[s].status, dummy'[s].room, at'[s], act, r)
  PROVE  Talks(s)'
BY DEF Talks, Talk

LEMMA NowGetting ==
  ASSUME NEW s \in Dummies, NEW type \in Types1, NEW rs \in SUBSET Rooms, Getting(s, type, rs)',
         dummy'[s].next = "never", GetFits(dummy'[s].status, dummy'[s].room, at'[s], type, rs)
  PROVE  Talks(s)'
BY DEF Talks, Talk

LEMMA NowGettingTwo ==
  ASSUME NEW s \in Dummies, at'[s] \in Rooms, GettingTwo(s, at[s])',
         dummy'[s].next = "never", dummy'[s].status = "lobby"
  PROVE  Talks(s)'
BY DEF Talks, Talk

(* A dummy that is silent sends a request.                                  *)
LEMMA Speaks ==
  ASSUME TypeOK, NEW s \in Dummies, asked[s] = <<>>, NoJob(s)', NoPacket(s)',
         NEW act, NEW r, asked' = [asked EXCEPT ![s] = Append(@, [act |-> act, room |-> r])]
  PROVE  Asking(s, act, r)'
<1>1. asked'[s] = Append(<<>>, [act |-> act, room |-> r])
  BY DEF TypeOK
<1>2. asked'[s] = <<[act |-> act, room |-> r]>>
  BY <1>1
<1>3. QED BY <1>2 DEF Asking

(* Who has a time for its next action is silent.                            *)
LEMMA TimedIsSilent ==
  ASSUME NEW s \in Dummies, Talks(s), dummy[s].next # "never"
  PROVE  Silent(s) /\ SilentFits(dummy[s].status, dummy[s].next, dummy[s].room, at[s])
BY DEF Talks, Talk

(* The packet of s the thread takes is the one that is under way for it.    *)
HeadFits(s) ==
  LET p == Head(batch) IN
  \/ /\ NoPacket(s)' /\ p.type \in Types1
     /\ GetFits(dummy[s].status, dummy[s].room, at[s], p.type, p.rooms)
  \/ /\ OnePacket(s, "entered", {})' /\ p.type = "made" /\ p.rooms = {at[s]}
     /\ dummy[s].status = "lobby" /\ at[s] \in Rooms

LEMMA HeadTalks ==
  ASSUME TypeOK, NEW s \in Dummies, Talks(s), batch # <<>>, batch' = Tail(batch),
         UNCHANGED <<net, jobs>>, S = s, Head(batch).type # "notify"
  PROVE  asked[s] = <<>> /\ NoJob(s)' /\ dummy[s].next = "never" /\ HeadFits(s)
<1>1. Head(batch) \in OwnPackets(s)
  BY HeadOfBatch DEF OwnPackets, S
<1>2. /\ ~NoPacket(s)
      /\ \A type, rs :
           OnePacket(s, type, rs) => Head(batch) = Packet1(s, type, rs) /\ NoPacket(s)'
      /\ \A r : TwoPackets(s, r) =>
           Head(batch) = Packet1(s, "made", {r}) /\ OnePacket(s, "entered", {})'
  BY <1>1, OwnPacketTaken
<1>3. NoJob(s) => NoJob(s)'
  BY SameJobs DEF JobsKept
<1>4. CASE \E type \in Types1, rs \in SUBSET Rooms :
             Getting(s, type, rs) /\ GetFits(dummy[s].status, dummy[s].room, at[s], type, rs)
             /\ dummy[s].next = "never"
  <2>1. PICK type \in Types1, rs \in SUBSET Rooms :
             Getting(s, type, rs) /\ GetFits(dummy[s].status, dummy[s].room, at[s], type, rs)
             /\ dummy[s].next = "never"
    BY <1>4
  <2>2. Head(batch) = Packet1(s, type, rs) /\ NoPacket(s)' /\ asked[s] = <<>> /\ NoJob(s)'
    BY <1>2, <1>3, <2>1 DEF Getting
  <2>3. Head(batch).type = type /\ Head(batch).rooms = rs
    BY <2>2 DEF Packet1
  <2>4. QED BY <2>1, <2>2, <2>3 DEF HeadFits
<1>5. CASE GettingTwo(s, at[s]) /\ dummy[s].status = "lobby" /\ at[s] \in Rooms
           /\ dummy[s].next = "never"
  <2>1. /\ Head(batch) = Packet1(s, "made", {at[s]}) /\ OnePacket(s, "entered", {})'
        /\ asked[s] = <<>> /\ NoJob(s)'
    BY <1>2, <1>3, <1>5 DEF GettingTwo
  <2>2. Head(batch).type = "made" /\ Head(batch).rooms = {at[s]}
    BY <2>1 DEF Packet1
  <2>3. QED BY <1>5, <2>1, <2>2 DEF HeadFits
<1>6. QED BY <1>2, <1>4, <1>5 DEF Talks, Talk, Silent, Asking, Posted

-----------------------------------------------------------------------------
(* What the dummy becomes.                                                  *)
LEMMA LaterIs ==
  ASSUME TypeOK, S \in DOMAIN dummy, NEW d \in Records, Later(d)
  PROVE  dummy'[S].next = "later" /\ dummy'[S].status = d.status /\ dummy'[S].room = d.room
BY DEF Later, TypeOK, Records

LEMMA SendIs ==
  ASSUME TypeOK, NEW s \in DOMAIN dummy, link[s] = "up", NEW act, NEW r, NEW d \in Records,
         SendToDummy(s, act, r, d)
  PROVE  /\ dummy'[s].next = "never" /\ dummy'[s].status = d.status /\ dummy'[s].room = d.room
         /\ asked' = [asked EXCEPT ![s] = Append(@, [act |-> act, room |-> r])]
BY DEF SendToDummy, TypeOK, Records

(* The packet of the dummy that is under way is the one its status is for,  *)
(* and what it does then is what its new status says.                       *)
LEMMA OwnHandled ==
  ASSUME IInv, NEW s \in DOMAIN dummy, link[s] = "up", Talks(s), HandlesOne, S = s,
         Head(batch).type # "notify"
  PROVE  Talks(s)'
<1> DEFINE p == Head(batch)
           d == dummy[s]
<1>1. /\ batch # <<>> /\ batch' = Tail(batch) /\ UNCHANGED <<net, jobs>> /\ at' = at /\ TypeOK
  BY DEF IInv, HandlesOne, HandleStrange, HandleLogInResponse, HandleRoomListResponse,
         HandleMakeRoomResponse, HandleEnterRoomResponse, HandleChatNotify, HandleChatResponse,
         HandleLeaveRoomResponse, HandleError, HandleEcho, Handled, Packet, lobbyVars
<1>2. s \in Dummies /\ Known /\ d \in Records /\ p \in Packets /\ p.rooms \in SUBSET Rooms
  BY <1>1, HeadOfBatch DEF TypeOK, Known, Packets
<1>3. asked[s] = <<>> /\ NoJob(s)' /\ d.next = "never" /\ HeadFits(s)
  BY <1>1, <1>2, HeadTalks
<1>4. asked' = asked /\ NoPacket(s)' => Silent(s)'
  BY <1>3 DEF Silent
<1>5. 0 \notin Rooms
  BY DummyAssumption
<1>6. ~HandleStrange
  BY <1>2, <1>3 DEF HandleStrange, Packet, In, HeadFits, GetFits
<1>7. CASE HandleLogInResponse
  <2>1. p.type = "login" /\ NoPacket(s)' /\ at[s] = 0 /\ asked' = asked
    BY <1>3, <1>7 DEF HandleLogInResponse, Packet, HeadFits, GetFits
  <2>2. PICK st \in {"rtt", "lobby"} : Later([d EXCEPT !.status = st])
    BY <1>7 DEF HandleLogInResponse
  <2>3. [d EXCEPT !.status = st] \in Records /\ [d EXCEPT !.status = st].status = st
    BY <1>2 DEF Records, Statuses
  <2>4. dummy'[s].next = "later" /\ dummy'[s].status = st
    BY <1>1, <2>2, <2>3, LaterIs
  <2>5. QED BY <1>1, <1>2, <1>4, <2>1, <2>4, NowSilent DEF SilentFits
<1>8. CASE HandleRoomListResponse
  <2>1. p.type = "list" /\ NoPacket(s)' /\ at[s] = 0 /\ d.status = "lobby"
    BY <1>3, <1>8 DEF HandleRoomListResponse, Packet, HeadFits, GetFits
  <2>2. CASE SendToDummy(s, "make", 0, d)
    <3>1. /\ dummy'[s].next = "never" /\ dummy'[s].status = "lobby"
          /\ asked' = [asked EXCEPT ![s] = Append(@, [act |-> "make", room |-> 0])]
      BY <1>1, <1>2, <2>1, <2>2, SendIs
    <3>2. Asking(s, "make", 0)'
      BY <1>1, <1>2, <1>3, <2>1, <3>1, Speaks
    <3>3. AskFits(dummy'[s].status, dummy'[s].room, at'[s], "make", 0) /\ "make" \in Acts1
      BY <1>1, <2>1, <3>1 DEF AskFits, Acts1
    <3>4. QED BY <1>2, <3>1, <3>2, <3>3, NowAsking
  <2>3. ASSUME NEW r \in p.rooms,
               SendToDummy(s, "enter", r, [d EXCEPT !.status = "enter", !.room = r])
        PROVE  Talks(s)'
    <3>0. r \in Rooms
      BY <1>2
    <3>5. PICK e \in Records : e.status = "enter" /\ e.room = r /\ SendToDummy(s, "enter", r, e)
      <4>1. [d EXCEPT !.status = "enter", !.room = r] \in Records
            /\ [d EXCEPT !.status = "enter", !.room = r].status = "enter"
            /\ [d EXCEPT !.status = "enter", !.room = r].room = r
        BY <1>2, <3>0 DEF Records, Statuses
      <4>2. QED BY <2>3, <4>1
    <3>1. /\ dummy'[s].next = "never" /\ dummy'[s].status = "enter" /\ dummy'[s].room = r
          /\ asked' = [asked EXCEPT ![s] = Append(@, [act |-> "enter", room |-> r])]
      BY <1>1, <3>5, SendIs
    <3>2. Asking(s, "enter", r)'
      BY <1>1, <1>2, <1>3, <2>1, <3>1, Speaks
    <3>3. AskFits(dummy'[s].status, dummy'[s].room, at'[s], "enter", r) /\ "enter" \in Acts1
      BY <1>1, <2>1, <3>0, <3>1 DEF AskFits, Acts1
    <3>4. QED BY <1>2, <3>0, <3>1, <3>2, <3>3, NowAsking
  <2>4. QED BY <1>8, <2>2, <2>3 DEF HandleRoomListResponse
<1>9. CASE HandleMakeRoomResponse
  <2>1. p.type = "made" /\ asked' = asked /\ d.status = "lobby"
    BY <1>3, <1>9 DEF HandleMakeRoomResponse, Packet, HeadFits, GetFits
  <2>2. CASE p.rooms = {}
    <3>1. NoPacket(s)' /\ at[s] = 0
      BY <2>1, <2>2, <1>3 DEF HeadFits, GetFits
    <3>2. Later(d)
      BY <1>9, <2>2 DEF HandleMakeRoomResponse
    <3>3. dummy'[s].next = "later" /\ dummy'[s].status = "lobby"
      BY <1>1, <1>2, <2>1, <3>2, LaterIs
    <3>4. QED BY <1>1, <1>2, <1>4, <2>1, <3>1, <3>3, NowSilent DEF SilentFits
  <2>3. CASE p.rooms # {}
    <3>1. OnePacket(s, "entered", {})' /\ p.rooms = {at[s]} /\ at[s] \in Rooms
      BY <2>1, <2>3, <1>3 DEF HeadFits, GetFits
    <3>2. dummy' = [dummy EXCEPT ![s] = [status |-> "enter", next |-> "never",
                                         room |-> CHOOSE r \in p.rooms : TRUE]]
      BY <1>9, <2>3 DEF HandleMakeRoomResponse
    <3>3. (CHOOSE r \in p.rooms : TRUE) = at[s]
      BY <3>1
    <3>4. dummy'[s].next = "never" /\ dummy'[s].status = "enter" /\ dummy'[s].room = at[s]
      BY <1>1, <3>2, <3>3 DEF TypeOK
    <3>5. Getting(s, "entered", {})'
      BY <1>3, <2>1, <3>1 DEF Getting
    <3>6. GetFits(dummy'[s].status, dummy'[s].room, at'[s], "entered", {}) /\ "entered" \in Types1
      BY <1>1, <3>1, <3>4 DEF GetFits, Types1
    <3>7. QED BY <1>2, <3>4, <3>5, <3>6, NowGetting
  <2>4. QED BY <2>2, <2>3
<1>10. CASE HandleEnterRoomResponse
  <2>1. /\ p.type = "entered" /\ NoPacket(s)' /\ at[s] = d.room /\ d.room \in Rooms
        /\ asked' = asked
    BY <1>3, <1>10 DEF HandleEnterRoomResponse, Packet, HeadFits, GetFits
  <2>2. [d EXCEPT !.status = "room"] \in Records /\ [d EXCEPT !.status = "room"].room = d.room
        /\ [d EXCEPT !.status = "room"].status = "room" /\ Later([d EXCEPT !.status = "room"])
    BY <1>2, <1>10 DEF Records, Statuses, HandleEnterRoomResponse
  <2>3. dummy'[s].next = "later" /\ dummy'[s].status = "room" /\ dummy'[s].room = d.room
    BY <1>1, <2>2, LaterIs
  <2>4. QED BY <1>1, <1>2, <1>4, <2>1, <2>3, NowSilent DEF SilentFits
<1>11. CASE HandleChatResponse
  <2>1. /\ p.type = "chatted" /\ NoPacket(s)' /\ at[s] = d.room /\ d.room \in Rooms
        /\ asked' = asked
    BY <1>3, <1>11 DEF HandleChatResponse, Packet, HeadFits, GetFits
  <2>2. [d EXCEPT !.status = "room"] \in Records /\ [d EXCEPT !.status = "room"].room = d.room
        /\ [d EXCEPT !.status = "room"].status = "room" /\ Later([d EXCEPT !.status = "room"])
    BY <1>2, <1>11 DEF Records, Statuses, HandleChatResponse
  <2>3. dummy'[s].next = "later" /\ dummy'[s].status = "room" /\ dummy'[s].room = d.room
    BY <1>1, <2>2, LaterIs
  <2>4. QED BY <1>1, <1>2, <1>4, <2>1, <2>3, NowSilent DEF SilentFits
<1>12. CASE HandleLeaveRoomResponse
  <2>1. p.type = "left" /\ NoPacket(s)' /\ at[s] = 0 /\ asked' = asked
    BY <1>3, <1>12 DEF HandleLeaveRoomResponse, Packet, HeadFits, GetFits
  <2>2. /\ [d EXCEPT !.status = "lobby", !.room = 0] \in Records
        /\ [d EXCEPT !.status = "lobby", !.room = 0].status = "lobby"
        /\ Later([d EXCEPT !.status = "lobby", !.room = 0])
    BY <1>2, <1>12 DEF Records, Statuses, HandleLeaveRoomResponse
  <2>3. dummy'[s].next = "later" /\ dummy'[s].status = "lobby"
    BY <1>1, <2>2, LaterIs
  <2>4. QED BY <1>1, <1>2, <1>4, <2>1, <2>3, NowSilent DEF SilentFits
<1>13. CASE HandleError
  <2>1. p.type = "error" /\ NoPacket(s)' /\ at[s] = 0 /\ asked' = asked
    BY <1>3, <1>13 DEF HandleError, Packet, HeadFits, GetFits
  <2>2. /\ [d EXCEPT !.status = "lobby"] \in Records
        /\ [d EXCEPT !.status = "lobby"].status = "lobby" /\ Later([d EXCEPT !.status = "lobby"])
    BY <1>2, <1>13 DEF Records, Statuses, HandleError
  <2>3. dummy'[s].next = "later" /\ dummy'[s].status = "lobby"
    BY <1>1, <2>2, LaterIs
  <2>4. QED BY <1>1, <1>2, <1>4, <2>1, <2>3, NowSilent DEF SilentFits
<1>14. CASE HandleEcho
  <2>1. p.type = "echo" /\ NoPacket(s)' /\ at[s] = 0 /\ d.status = "rtt" /\ asked' = asked
    BY <1>3, <1>14 DEF HandleEcho, Packet, HeadFits, GetFits
  <2>2. Later(d)
    BY <1>14 DEF HandleEcho
  <2>3. dummy'[s].next = "later" /\ dummy'[s].status = "rtt"
    BY <1>1, <1>2, <2>1, <2>2, LaterIs
  <2>4. QED BY <1>1, <1>2, <1>4, <2>1, <2>3, NowSilent DEF SilentFits
<1>15. ~HandleChatNotify
  BY DEF HandleChatNotify, Packet
<1>16. QED
  BY <1>6, <1>7, <1>8, <1>9, <1>10, <1>11, <1>12, <1>13, <1>14, <1>15 DEF HandlesOne

-----------------------------------------------------------------------------
(* A dummy whose time has come asks for something.                          *)
LEMMA OwnAct ==
  ASSUME TypeOK, NEW s \in DOMAIN dummy, link[s] = "up", Talks(s), dummy[s].next = "due", Act(s),
         UNCHANGED <<batch, net, jobs>>, at' = at
  PROVE  Talks(s)'
<1> DEFINE d == dummy[s]
<1>1. s \in Dummies /\ d \in Records
  BY DEF TypeOK
<1>2. Silent(s) /\ SilentFits(d.status, d.next, d.room, at[s])
  BY <1>1, TimedIsSilent
<1>3. asked[s] = <<>> /\ NoJob(s)' /\ NoPacket(s)'
  BY <1>2 DEF Silent, NoJob, NoPacket, Coming, OwnPackets, OwnJobs
<1>4. ASSUME NEW st \in {"lobby", "rtt", "leave", "chat"}, NEW act \in Acts1,
             NEW r \in Rooms \cup {0}, NEW e \in Records, e.status = st, e.room = d.room,
             SendToDummy(s, act, r, e), AskFits(st, d.room, at[s], act, r)
      PROVE  Talks(s)'
  <2>1. /\ dummy'[s].next = "never" /\ dummy'[s].status = st /\ dummy'[s].room = d.room
        /\ asked' = [asked EXCEPT ![s] = Append(@, [act |-> act, room |-> r])]
    BY <1>4, SendIs
  <2>2. Asking(s, act, r)'
    BY <1>1, <1>3, <2>1, Speaks
  <2>3. AskFits(dummy'[s].status, dummy'[s].room, at'[s], act, r)
    BY <1>4, <2>1
  <2>4. QED BY <1>1, <2>1, <2>2, <2>3, NowAsking
<1>5. CASE d.status = "lobby"
  <2>1. SendToDummy(s, "list", 0, d) BY <1>5 DEF Act
  <2>2. AskFits("lobby", d.room, at[s], "list", 0) /\ "list" \in Acts1
    BY <1>2, <1>5 DEF SilentFits, AskFits, Acts1
  <2>3. QED BY <1>1, <1>4, <1>5, <2>1, <2>2
<1>6. CASE d.status = "rtt"
  <2>1. SendToDummy(s, "echo", 0, d) BY <1>6 DEF Act
  <2>2. AskFits("rtt", d.room, at[s], "echo", 0) /\ "echo" \in Acts1
    BY <1>2, <1>6 DEF SilentFits, AskFits, Acts1
  <2>3. QED BY <1>1, <1>4, <1>6, <2>1, <2>2
<1>7. CASE d.status = "room"
  <2>1. PICK st \in {"leave", "chat"}, e \in Records :
          e.status = st /\ e.room = d.room /\ SendToDummy(s, st, d.room, e)
    <3>1. \A st \in {"leave", "chat"} :
            /\ [d EXCEPT !.status = st] \in Records
            /\ [d EXCEPT !.status = st].status = st /\ [d EXCEPT !.status = st].room = d.room
      BY <1>1 DEF Records, Statuses
    <3>2. \/ SendToDummy(s, "leave", d.room, [d EXCEPT !.status = "leave"])
          \/ SendToDummy(s, "chat", d.room, [d EXCEPT !.status = "chat"])
      BY <1>7 DEF Act
    <3>3. QED BY <3>1, <3>2
  <2>2. AskFits(st, d.room, at[s], st, d.room) /\ st \in Acts1 /\ d.room \in Rooms \cup {0}
    BY <1>2, <1>7, <2>1 DEF SilentFits, AskFits, Acts1
  <2>3. QED BY <1>4, <2>1, <2>2
<1>8. d.status \in {"lobby", "rtt", "room"}
  BY <1>2 DEF SilentFits
<1>9. QED BY <1>5, <1>6, <1>7, <1>8

(* Its time comes.                                                          *)
LEMMA OwnElapse ==
  ASSUME TypeOK, NEW s \in DOMAIN dummy, Talks(s), Elapse(s)
  PROVE  Talks(s)'
<1>1. s \in Dummies /\ dummy[s] \in Records
  BY DEF TypeOK
<1>2. Silent(s) /\ SilentFits(dummy[s].status, dummy[s].next, dummy[s].room, at[s])
  BY <1>1, TimedIsSilent DEF Elapse
<1>3. /\ dummy'[s].next = "due" /\ dummy'[s].status = dummy[s].status
      /\ dummy'[s].room = dummy[s].room
      /\ UNCHANGED <<batch, net, jobs, asked, at>> /\ dummy[s].next # "never"
  BY <1>1 DEF Elapse, Records, TypeOK, lobbyVars
<1>4. Silent(s)'
  BY <1>2, <1>3 DEF Silent, NoJob, NoPacket, Coming, OwnPackets, OwnJobs
<1>5. SilentFits(dummy'[s].status, dummy'[s].next, dummy'[s].room, at'[s])
  BY <1>2, <1>3 DEF SilentFits
<1>6. QED BY <1>1, <1>4, <1>5, NowSilent

(* The lobby reads its request, and answers or posts it.                    *)
LEMMA OwnServe ==
  ASSUME IInv, NEW s \in DOMAIN dummy, link[s] = "up", Talks(s), Serve(s)
  PROVE  Talks(s)'
<1> DEFINE d == dummy[s]
<1>1. /\ s \in Dummies /\ d \in Records /\ TypeOK /\ asked[s] # <<>>
      /\ asked' = [asked EXCEPT ![s] = Tail(@)] /\ UNCHANGED <<batch, dummy>> /\ 0 \notin Rooms
  BY DummyAssumption DEF IInv, TypeOK, Serve, LobbyTells, LobbyMakes, LobbyEnters, LobbyPosts,
                         Request, Read
<1>2. PICK act \in Acts1, r \in Rooms \cup {0} :
        Asking(s, act, r) /\ AskFits(d.status, d.room, at[s], act, r) /\ d.next = "never"
  BY <1>1 DEF Talks, Talk, Silent, Posted, Getting, GettingTwo
<1>3. /\ Head(asked[s]) = [act |-> act, room |-> r] /\ asked'[s] = <<>>
      /\ NoJob(s) /\ NoPacket(s) /\ dummy'[s] = d
  <2>1. asked[s] = <<[act |-> act, room |-> r]>>
    BY <1>2 DEF Asking
  <2>2. Head(asked[s]) = [act |-> act, room |-> r] /\ Tail(asked[s]) = <<>>
    BY <2>1
  <2>3. asked'[s] = <<>>
    BY <1>1, <2>2 DEF TypeOK
  <2>4. QED BY <1>1, <1>2, <2>2, <2>3 DEF Asking
<1>4. Head(asked[s]).act = act /\ Head(asked[s]).room = r
  BY <1>3
<1>5. ASSUME NEW type \in Types1, NEW rs \in SUBSET Rooms, Answered(Answer(s, type, rs)),
             jobs' = jobs, GetFits(d.status, d.room, at'[s], type, rs)
      PROVE  Talks(s)'
  <2>1. Answered(<<Packet1(s, type, rs)>>)
    BY <1>5 DEF Answer, Packet1
  <2>2. OnePacket(s, type, rs)'
    BY <1>1, <1>3, <2>1, OwnPacketSent
  <2>3. NoJob(s)'
    BY <1>1, <1>3, <1>5, SameJobs DEF JobsKept
  <2>4. Getting(s, type, rs)'
    BY <1>3, <2>2, <2>3 DEF Getting
  <2>5. GetFits(dummy'[s].status, dummy'[s].room, at'[s], type, rs) /\ dummy'[s].next = "never"
    BY <1>2, <1>3, <1>5
  <2>6. QED BY <1>1, <2>4, <2>5, NowGetting
<1>6. ASSUME NEW q \in Rooms, Post(s, act, q), UNCHANGED <<net, at>>,
             JobFits(d.status, d.room, at[s], act, q)
      PROVE  Talks(s)'
  <2>1. [dummy |-> s, act |-> act] \in Jobs
    BY <1>1, <1>6 DEF JobFits, Jobs
  <2>2. OneJob(s, q, act)'
    BY <1>1, <1>3, <1>6, <2>1, OwnJobPosted
  <2>3. NoPacket(s)'
    BY <1>1, <1>3, <1>6 DEF NoPacket, Coming, OwnPackets
  <2>4. Posted(s, act, q)'
    BY <1>3, <2>2, <2>3 DEF Posted
  <2>5. JobFits(dummy'[s].status, dummy'[s].room, at'[s], act, q) /\ dummy'[s].next = "never"
    BY <1>2, <1>3, <1>6
  <2>6. QED BY <1>1, <2>4, <2>5, NowPosted
<1>7. CASE LobbyTells(s)
  <2>1. /\ act \in {"login", "list", "echo"} /\ act \in Types1 /\ jobs' = jobs /\ at' = at
        /\ RoomMap \in SUBSET Rooms /\ {} \in SUBSET Rooms
    BY <1>4, <1>7 DEF LobbyTells, Request, lobbyVars, Types1, RoomMap
  <2>2. PICK rs \in SUBSET Rooms : Answered(Answer(s, act, rs))
    BY <1>4, <1>7, <2>1 DEF LobbyTells
  <2>3. GetFits(d.status, d.room, at'[s], act, rs)
    BY <1>2, <2>1 DEF AskFits, GetFits
  <2>4. QED BY <1>5, <2>1, <2>2, <2>3
<1>8. CASE LobbyMakes(s)
  <2>1. act = "make" /\ jobs' = jobs
    BY <1>4, <1>8 DEF LobbyMakes, Request
  <2>2. at[s] = 0 /\ d.status = "lobby"
    BY <1>2, <2>1 DEF AskFits
  <2>3. CASE Cardinality(RoomMap) >= MaxRooms
    <3>1. Answered(Answer(s, "made", {})) /\ at' = at
      BY <1>8, <2>2, <2>3 DEF LobbyMakes
    <3>2. GetFits(d.status, d.room, at'[s], "made", {}) /\ "made" \in Types1
      BY <2>2, <3>1 DEF GetFits, Types1
    <3>3. QED BY <1>5, <2>1, <3>1, <3>2
  <2>4. CASE ~(Cardinality(RoomMap) >= MaxRooms)
    <3>1. PICK q \in Rooms :
            /\ at' = [at EXCEPT ![s] = q]
            /\ Answered(Answer(s, "made", {q}) \o Answer(s, "entered", {}))
      <4>1. Fresh # {} /\ \A f \in Fresh : f \in Rooms
        BY <1>8, <2>2, <2>4 DEF LobbyMakes, Fresh
      <4>2. (CHOOSE f \in Fresh : TRUE) \in Rooms
        BY <4>1
      <4>3. QED BY <1>8, <2>2, <2>4, <4>2 DEF LobbyMakes
    <3>2. Answered(<<Packet1(s, "made", {q})>> \o <<Packet1(s, "entered", {})>>)
      BY <3>1 DEF Answer, Packet1
    <3>3. TwoPackets(s, q)'
      BY <1>1, <1>3, <3>2, OwnTwoSent
    <3>4. NoJob(s)'
      BY <1>1, <1>3, <2>1, SameJobs DEF JobsKept
    <3>5. at'[s] = q
      BY <1>1, <3>1 DEF TypeOK
    <3>6. GettingTwo(s, q)'
      BY <1>3, <3>3, <3>4 DEF GettingTwo
    <3>7. GettingTwo(s, at[s])'
      BY <3>5, <3>6 DEF GettingTwo, TwoPackets
    <3>8. QED BY <1>1, <1>2, <1>3, <2>2, <3>5, <3>7, NowGettingTwo
  <2>5. QED BY <2>3, <2>4
<1>9. CASE LobbyEnters(s)
  <2>1. /\ act = "enter" /\ at' = at /\ at[s] = 0 /\ d.status = "enter"
        /\ r = d.room /\ r \in Rooms
    BY <1>2, <1>4, <1>9 DEF LobbyEnters, Request, AskFits
  <2>2. CASE r \notin RoomMap
    <3>1. Answered(Answer(s, "error", {})) /\ jobs' = jobs
      BY <1>4, <1>9, <2>2 DEF LobbyEnters
    <3>2. GetFits(d.status, d.room, at'[s], "error", {}) /\ "error" \in Types1
      BY <2>1 DEF GetFits, Types1
    <3>3. QED BY <1>5, <3>1, <3>2
  <2>3. CASE r \in RoomMap
    <3>1. net' = net /\ Post(s, act, r)
      BY <1>4, <1>9, <2>1, <2>3 DEF LobbyEnters
    <3>2. JobFits(d.status, d.room, at[s], act, r)
      BY <2>1 DEF JobFits
    <3>3. QED BY <1>6, <2>1, <3>1, <3>2
  <2>4. QED BY <2>2, <2>3
<1>10. CASE LobbyPosts(s)
  <2>1. /\ act \in {"leave", "chat"} /\ UNCHANGED <<net, at>> /\ d.status = act
        /\ at[s] = d.room /\ r = d.room /\ r \in Rooms
    BY <1>2, <1>4, <1>10 DEF LobbyPosts, Request, AskFits, Acts1
  <2>2. Post(s, act, r)
    BY <1>1, <1>4, <1>10, <2>1 DEF LobbyPosts
  <2>3. JobFits(d.status, d.room, at[s], act, r)
    BY <2>1 DEF JobFits
  <2>4. QED BY <1>6, <2>1, <2>2, <2>3
<1>11. QED BY <1>7, <1>8, <1>9, <1>10 DEF Serve

-----------------------------------------------------------------------------
(* Messages of a chat are no answers, and those of others are theirs.       *)
LEMMA NotifyIsNone ==
  ASSUME TypeOK, UnderWayRight, NEW r \in Rooms, NEW s \in Dummies
  PROVE  LET p == Notify({t \in Members(r) : link[t] = "up"})
         IN p \in Seq(Packets) /\ NoneIn(p, OwnPackets(s))
<1> DEFINE who == {t \in Members(r) : link[t] = "up"}
<1>1. Notify(who) \in Seq(Packets)
  <2>1. Notify(who) \in Seq(OfThem(Packets)) BY NotifySeq
  <2>2. OfThem(Packets) \subseteq Packets BY DEF OfThem
  <2>3. QED BY <2>1, <2>2, SeqGrows
<1> HIDE DEF who
<1>2. \A k \in DOMAIN Notify(who) : Notify(who)[k].type = "notify"
  BY DEF Notify
<1>3. NoneIn(Notify(who), OwnPackets(s))
  BY <1>2 DEF NoneIn, OwnPackets
<1>4. QED BY <1>1, <1>3 DEF who

LEMMA AnswerIsNone ==
  ASSUME NEW s \in Dummies, NEW t \in Dummies, t # s, NEW type \in Types1, NEW rs \in SUBSET Rooms
  PROVE  Answer(t, type, rs) \in Seq(Packets) /\ NoneIn(Answer(t, type, rs), OwnPackets(s))
<1> DEFINE x == [dummy |-> t, type |-> type, rooms |-> rs]
<1>1. x \in Packets /\ x \notin OwnPackets(s)
  BY DEF Packets, Types1, OwnPackets
<1> HIDE DEF x
<1>2. <<x>> \in Seq(Packets) /\ NoneIn(<<x>>, OwnPackets(s))
  BY <1>1 DEF NoneIn
<1>3. <<>> \in Seq(Packets) /\ NoneIn(<<>>, OwnPackets(s))
  BY DEF NoneIn
<1>4. QED BY <1>2, <1>3 DEF Answer, x

LEMMA NonesJoin ==
  ASSUME NEW p \in Seq(Packets), NEW q \in Seq(Packets), NEW X, NoneIn(p, X), NoneIn(q, X)
  PROVE  p \o q \in Seq(Packets) /\ NoneIn(p \o q, X)
BY NoneBehind

(* The chat of s itself: its answer, and then messages.                     *)
LEMMA OwnChatSent ==
  ASSUME TypeOK, UnderWayRight, NEW s \in Dummies, NEW r \in Rooms, NoPacket(s), link[s] = "up",
         Answered(Answer(s, "chatted", {}) \o Notify({t \in Members(r) : link[t] = "up"})),
         batch' = batch
  PROVE  OnePacket(s, "chatted", {})'
<1> DEFINE x == Packet1(s, "chatted", {})
           n == Notify({t \in Members(r) : link[t] = "up"})
           X == OwnPackets(s)
<1>1. x \in Packets /\ <<x>> \in Seq(Packets) /\ Answer(s, "chatted", {}) = <<x>>
  <2>1. x \in Packets BY OwnThings DEF Types1
  <2>2. Answer(s, "chatted", {}) = <<x>> BY DEF Answer, Packet1
  <2>3. QED BY <2>1, <2>2
<1>2. n \in Seq(Packets) /\ NoneIn(n, X)
  BY NotifyIsNone
<1>3. Answered(<<x>> \o n)
  BY <1>1
<1> HIDE DEF x, n, X
<1>4. <<x>> \o n \in Seq(Packets)
  BY <1>1, <1>2
<1>5. Coming \in Seq(Packets) /\ Coming' = Coming \o (<<x>> \o n)
  BY <1>3, <1>4, ComingSent
<1>6. OneIn(Coming \o <<x>>, X, x) /\ Coming \o <<x>> \in Seq(Packets)
  BY <1>1, <1>5, OneBehind DEF NoPacket, X
<1>7. OneIn((Coming \o <<x>>) \o n, X, x)
  BY <1>2, <1>6, NoneBehind
<1>8. (Coming \o <<x>>) \o n = Coming \o (<<x>> \o n)
  <2>1. Coming \in Seq(Packets) /\ <<x>> \in Seq(Packets) /\ n \in Seq(Packets)
    BY <1>1, <1>2, <1>5
  <2>2. \A a, b, c \in Seq(Packets) : (a \o b) \o c = a \o (b \o c)
    OBVIOUS
  <2>3. QED BY ONLY <2>1, <2>2
<1>9. OwnPackets(s)' = X
  BY DEF OwnPackets, X
<1>10. QED BY <1>5, <1>7, <1>8, <1>9 DEF OnePacket, x

(* A room runs the job of a dummy.                                          *)
LEMMA OwnJob ==
  ASSUME IInv, NEW s \in DOMAIN dummy, link[s] = "up", Talks(s), NEW r \in Rooms, RunJob(r),
         Head(jobs[r]).dummy = s
  PROVE  Talks(s)'
<1> DEFINE d == dummy[s]
<1>1. /\ s \in Dummies /\ TypeOK /\ UnderWayRight /\ jobs[r] # <<>>
      /\ jobs' = [jobs EXCEPT ![r] = Tail(@)] /\ UNCHANGED <<batch, asked>> /\ dummy' = dummy
  BY DEF IInv, TypeOK, RunJob, EnterJob, LeaveJob, ChatJob, Job, Ran
<1>2. /\ ~NoJob(s)
      /\ \A k \in Rooms : \A act : OneJob(s, k, act) => k = r /\ Head(jobs[r]).act = act /\ NoJob(s)'
  BY <1>1, OwnJobRun
<1>3. PICK act \in Acts1, k \in Rooms :
        Posted(s, act, k) /\ JobFits(d.status, d.room, at[s], act, k) /\ d.next = "never"
  BY <1>2 DEF Talks, Talk, Silent, Asking, Getting, GettingTwo
<1>4. /\ Head(jobs[r]).act = act /\ NoJob(s)' /\ asked'[s] = <<>> /\ NoPacket(s)
      /\ JobFits(d.status, d.room, at[s], act, r) /\ 0 \notin Rooms
  <2>1. OneJob(s, k, act) /\ asked'[s] = <<>> /\ NoPacket(s)
    BY <1>1, <1>3 DEF Posted
  <2>2. k = r /\ Head(jobs[r]).act = act /\ NoJob(s)'
    BY <1>2, <2>1
  <2>3. 0 \notin Rooms
    BY DummyAssumption
  <2>4. QED BY <1>3, <2>1, <2>2, <2>3
<1>5. ASSUME NEW type \in Types1, OnePacket(s, type, {})',
             GetFits(d.status, d.room, at'[s], type, {})
      PROVE  Talks(s)'
  <2>1. Getting(s, type, {})'
    BY <1>4, <1>5 DEF Getting
  <2>2. GetFits(dummy'[s].status, dummy'[s].room, at'[s], type, {}) /\ dummy'[s].next = "never"
    BY <1>1, <1>3, <1>5
  <2>3. QED BY <1>1, <2>1, <2>2, NowGetting
<1>6. ASSUME NEW type \in Types1, Answered(Answer(s, type, {})) PROVE OnePacket(s, type, {})'
  <2>1. Answered(<<Packet1(s, type, {})>>)
    BY <1>6 DEF Answer, Packet1
  <2>2. QED BY <1>1, <1>4, <2>1, OwnPacketSent
<1>7. CASE EnterJob(r)
  <2>1. act = "enter" /\ d.status = "enter" /\ at[s] = 0 /\ d.room = r
    BY <1>4, <1>7 DEF EnterJob, Job, JobFits
  <2>2. CASE UNCHANGED <<net, at>>
    <3>1. Silent(s)'
      BY <1>1, <1>4, <2>2 DEF Silent, NoPacket, Coming, OwnPackets
    <3>2. SilentFits(dummy'[s].status, dummy'[s].next, dummy'[s].room, at'[s])
      BY <1>1, <1>3, <2>1, <2>2 DEF SilentFits
    <3>3. QED BY <1>1, <3>1, <3>2, NowSilent
  <2>3. CASE at' = at /\ Answered(Answer(s, "error", {}))
    <3>1. GetFits(d.status, d.room, at'[s], "error", {}) /\ "error" \in Types1
      BY <2>1, <2>3 DEF GetFits, Types1
    <3>2. QED BY <1>5, <1>6, <2>3, <3>1
  <2>4. CASE at' = [at EXCEPT ![s] = r] /\ Answered(Answer(s, "entered", {}))
    <3>1. at'[s] = r
      BY <1>1, <2>4 DEF TypeOK
    <3>2. GetFits(d.status, d.room, at'[s], "entered", {}) /\ "entered" \in Types1
      BY <2>1, <3>1 DEF GetFits, Types1
    <3>3. QED BY <1>5, <1>6, <2>4, <3>2
  <2>5. QED BY <1>7, <2>2, <2>3, <2>4 DEF EnterJob
<1>8. CASE LeaveJob(r)
  <2>1. d.status = "leave" /\ at' = [at EXCEPT ![s] = 0] /\ Answered(Answer(s, "left", {}))
    BY <1>4, <1>8 DEF LeaveJob, Job, JobFits
  <2>2. at'[s] = 0
    BY <1>1, <2>1 DEF TypeOK
  <2>3. GetFits(d.status, d.room, at'[s], "left", {}) /\ "left" \in Types1
    BY <2>1, <2>2 DEF GetFits, Types1
  <2>4. QED BY <1>5, <1>6, <2>1, <2>3
<1>9. CASE ChatJob(r)
  <2>1. /\ d.status = "chat" /\ at[s] = d.room /\ d.room \in Rooms /\ at' = at
        /\ Answered(Answer(s, "chatted", {}) \o Notify({t \in Members(r) : link[t] = "up"}))
    BY <1>4, <1>9 DEF ChatJob, Job, JobFits
  <2>2. OnePacket(s, "chatted", {})'
    BY <1>1, <1>4, <2>1, OwnChatSent
  <2>3. GetFits(d.status, d.room, at'[s], "chatted", {}) /\ "chatted" \in Types1
    BY <2>1 DEF GetFits, Types1
  <2>4. QED BY <1>5, <2>2, <2>3
<1>10. QED BY <1>7, <1>8, <1>9 DEF RunJob

-----------------------------------------------------------------------------
(* What the lobby does for one dummy leaves the conversations of others.    *)
LEMMA OtherServe ==
  ASSUME IInv, NEW s \in DOMAIN dummy, Talks(s), NEW t \in Dummies, t # s, Serve(t)
  PROVE  Talks(s)'
<1>1. /\ s \in Dummies /\ TypeOK /\ asked[t] # <<>> /\ asked' = [asked EXCEPT ![t] = Tail(@)]
      /\ UNCHANGED batch /\ dummy' = dummy
  BY DEF IInv, TypeOK, Serve, LobbyTells, LobbyMakes, LobbyEnters, LobbyPosts, Request, Read
<1>2. asked'[s] = asked[s]
  BY <1>1 DEF TypeOK
<1>3. Head(asked[t]) \in Requests
  BY <1>1 DEF TypeOK
<1>4. \A p \in Seq(Packets) : NoneIn(p, OwnPackets(s)) /\ Answered(p) => PacketsKept(s)
  BY <1>1, OtherPacketsSent
<1>5. ASSUME NEW type \in Types1, NEW rs \in SUBSET Rooms, Answered(Answer(t, type, rs))
      PROVE  PacketsKept(s)
  BY <1>1, <1>4, <1>5, AnswerIsNone
<1>6. net' = net => PacketsKept(s)
  BY <1>1, SamePackets DEF Coming
<1>7. jobs' = jobs => JobsKept(s)
  BY <1>1, SameJobs
<1>8. ASSUME NEW act \in Acts1 \cup {"bye"}, act \in {"enter", "leave", "chat", "bye"},
             NEW r \in Rooms, Post(t, act, r)
      PROVE  JobsKept(s)
  <2>1. [dummy |-> t, act |-> act] \in Jobs
    BY <1>8 DEF Jobs
  <2>2. QED BY <1>1, <1>8, <2>1, OtherJobPosted
<1>9. (at' = at \/ \E r : at' = [at EXCEPT ![t] = r]) => at'[s] = at[s]
  BY <1>1 DEF TypeOK
<1>10. CASE LobbyTells(t)
  <2>1. /\ Head(asked[t]).act \in Types1 /\ jobs' = jobs /\ at' = at
        /\ RoomMap \in SUBSET Rooms /\ {} \in SUBSET Rooms
    BY <1>10 DEF LobbyTells, Request, lobbyVars, Types1, RoomMap
  <2>2. PICK rs \in SUBSET Rooms : Answered(Answer(t, Head(asked[t]).act, rs))
    BY <1>10, <2>1 DEF LobbyTells
  <2>3. QED BY <1>1, <1>2, <1>5, <1>7, <2>1, <2>2, Untouched
<1>11. CASE LobbyMakes(t)
  <2>1. jobs' = jobs /\ "made" \in Types1 /\ "entered" \in Types1
    BY <1>11 DEF LobbyMakes, Types1
  <2>2. /\ at' = at \/ \E r : at' = [at EXCEPT ![t] = r]
        /\ \/ net' = net \/ Answered(Answer(t, "made", {}))
           \/ \E r \in Rooms : Answered(Answer(t, "made", {r}) \o Answer(t, "entered", {}))
    <3>1. \A f \in Fresh : f \in Rooms
      BY DEF Fresh
    <3>2. Fresh # {} => (CHOOSE f \in Fresh : TRUE) \in Rooms
      BY <3>1
    <3>3. QED BY <1>11, <3>2 DEF LobbyMakes
  <2>3. ASSUME NEW r \in Rooms, Answered(Answer(t, "made", {r}) \o Answer(t, "entered", {}))
        PROVE  PacketsKept(s)
    <3> DEFINE a == Answer(t, "made", {r})
               b == Answer(t, "entered", {})
    <3>1. /\ a \in Seq(Packets) /\ NoneIn(a, OwnPackets(s))
          /\ b \in Seq(Packets) /\ NoneIn(b, OwnPackets(s))
      BY <1>1, <2>1, AnswerIsNone
    <3> HIDE DEF a, b
    <3>2. a \o b \in Seq(Packets) /\ NoneIn(a \o b, OwnPackets(s))
      BY <3>1, NonesJoin
    <3>3. Answered(a \o b)
      BY <2>3 DEF a, b
    <3>4. QED BY <1>4, <3>2, <3>3
  <2>4. PacketsKept(s)
    <3>1. Answered(Answer(t, "made", {})) => PacketsKept(s)
      <4>1. {} \in SUBSET Rooms OBVIOUS
      <4>2. QED BY <1>5, <2>1, <4>1
    <3>2. QED BY <1>6, <2>2, <2>3, <3>1
  <2>5. QED BY <1>1, <1>2, <1>7, <1>9, <2>1, <2>2, <2>4, Untouched
<1>12. CASE LobbyEnters(t)
  <2>1. /\ at' = at /\ "error" \in Types1 /\ "enter" \in Acts1
        /\ net' = net \/ Answered(Answer(t, "error", {}))
        /\ \/ jobs' = jobs
           \/ Post(t, "enter", Head(asked[t]).room) /\ Head(asked[t]).room \in RoomMap
    BY <1>12 DEF LobbyEnters, Types1, Acts1
  <2>2. PacketsKept(s)
    BY <1>5, <1>6, <2>1
  <2>3. JobsKept(s)
    BY <1>7, <1>8, <2>1 DEF RoomMap
  <2>4. QED BY <1>1, <1>2, <2>1, <2>2, <2>3, Untouched
<1>13. CASE LobbyPosts(t)
  <2>1. /\ UNCHANGED <<net, at>> /\ Head(asked[t]).act \in {"leave", "chat", "bye"}
        /\ Head(asked[t]).act \in Acts1 \cup {"bye"}
        /\ jobs' = jobs \/ (Post(t, Head(asked[t]).act, at[t]) /\ at[t] \in Rooms)
    BY <1>1, <1>13 DEF LobbyPosts, Request, Acts1, TypeOK
  <2>2. JobsKept(s)
    BY <1>7, <1>8, <2>1
  <2>3. QED BY <1>1, <1>2, <1>6, <2>1, <2>2, Untouched
<1>14. QED BY <1>10, <1>11, <1>12, <1>13 DEF Serve

LEMMA OtherJob ==
  ASSUME IInv, NEW s \in DOMAIN dummy, Talks(s), NEW r \in Rooms, RunJob(r),
         Head(jobs[r]).dummy # s
  PROVE  Talks(s)'
<1> DEFINE t == Head(jobs[r]).dummy
<1>1. /\ s \in Dummies /\ TypeOK /\ UnderWayRight /\ jobs[r] # <<>>
      /\ jobs' = [jobs EXCEPT ![r] = Tail(@)] /\ UNCHANGED <<batch, asked>> /\ dummy' = dummy
  BY DEF IInv, TypeOK, RunJob, EnterJob, LeaveJob, ChatJob, Job, Ran
<1>2. JobsKept(s)
  BY <1>1, OtherJobRun
<1>3. t \in Dummies /\ t # s
  <2>1. jobs[r] \in Seq(Jobs) BY <1>1 DEF TypeOK
  <2>2. Head(jobs[r]) \in Jobs BY <1>1, <2>1
  <2>3. QED BY <2>2 DEF Jobs
<1>4. \A p \in Seq(Packets) : NoneIn(p, OwnPackets(s)) /\ Answered(p) => PacketsKept(s)
  BY <1>1, OtherPacketsSent
<1>5. ASSUME NEW type \in Types1, Answered(Answer(t, type, {})) PROVE PacketsKept(s)
  BY <1>1, <1>3, <1>4, <1>5, AnswerIsNone
<1>6. net' = net => PacketsKept(s)
  BY <1>1, SamePackets DEF Coming
<1>7. (at' = at \/ \E q : at' = [at EXCEPT ![t] = q]) => at'[s] = at[s]
  BY <1>1, <1>3 DEF TypeOK
<1>8. CASE EnterJob(r)
  <2>1. /\ "error" \in Types1 /\ "entered" \in Types1
        /\ net' = net \/ Answered(Answer(t, "error", {})) \/ Answered(Answer(t, "entered", {}))
        /\ at' = at \/ at' = [at EXCEPT ![t] = r]
    BY <1>8 DEF EnterJob, Types1
  <2>2. PacketsKept(s) /\ at'[s] = at[s]
    BY <1>5, <1>6, <1>7, <2>1
  <2>3. QED BY <1>1, <1>2, <2>2, Untouched
<1>9. CASE LeaveJob(r)
  <2>1. "left" \in Types1 /\ Answered(Answer(t, "left", {})) /\ at' = [at EXCEPT ![t] = 0]
    BY <1>9 DEF LeaveJob, Types1
  <2>2. PacketsKept(s) /\ at'[s] = at[s]
    BY <1>5, <1>7, <2>1
  <2>3. QED BY <1>1, <1>2, <2>2, Untouched
<1>10. CASE ChatJob(r)
  <2> DEFINE a == Answer(t, "chatted", {})
             b == Notify({u \in Members(r) : link[u] = "up"})
  <2>1. Answered(a \o b) /\ at' = at /\ "chatted" \in Types1
    BY <1>10 DEF ChatJob, Types1
  <2>2. /\ a \in Seq(Packets) /\ NoneIn(a, OwnPackets(s))
        /\ b \in Seq(Packets) /\ NoneIn(b, OwnPackets(s))
    BY <1>1, <1>3, <2>1, AnswerIsNone, NotifyIsNone
  <2> HIDE DEF a, b
  <2>3. a \o b \in Seq(Packets) /\ NoneIn(a \o b, OwnPackets(s))
    BY <2>2, NonesJoin
  <2>4. PacketsKept(s)
    BY <1>4, <2>1, <2>3
  <2>5. QED BY <1>1, <1>2, <2>1, <2>4, Untouched
<1>11. QED BY <1>8, <1>9, <1>10 DEF RunJob

-----------------------------------------------------------------------------
(* Every step keeps every conversation.                                     *)
LEMMA HandledTalks ==
  ASSUME IInv, HandlesOne, NEW s \in DOMAIN dummy, link[s] = "up", Talks(s)
  PROVE  Talks(s)'
<1>1. /\ batch # <<>> /\ batch' = Tail(batch) /\ UNCHANGED <<net, jobs>> /\ at' = at /\ TypeOK
      /\ s \in Dummies
  BY DEF IInv, TypeOK, HandlesOne, HandleStrange, HandleLogInResponse, HandleRoomListResponse,
         HandleMakeRoomResponse, HandleEnterRoomResponse, HandleChatNotify, HandleChatResponse,
         HandleLeaveRoomResponse, HandleError, HandleEcho, Handled, Packet, lobbyVars
<1>2. CASE S = s /\ Head(batch).type # "notify"
  BY <1>2, OwnHandled
<1>3. CASE S # s \/ Head(batch).type = "notify"
  <2>1. Head(batch) \notin OwnPackets(s)
    BY <1>3 DEF OwnPackets, S
  <2>2. PacketsKept(s) /\ JobsKept(s)
    BY <1>1, <2>1, OtherPacketTaken, SameJobs
  <2>3. dummy'[s] = dummy[s] /\ asked'[s] = asked[s]
    <3>1. CASE Head(batch).type = "notify"
      BY <3>1 DEF HandlesOne, HandleStrange, HandleLogInResponse, HandleRoomListResponse,
         HandleMakeRoomResponse, HandleEnterRoomResponse, HandleChatNotify, HandleChatResponse,
         HandleLeaveRoomResponse, HandleError, HandleEcho, Packet
    <3>2. CASE S # s
      <4>1. dummy' = dummy \/ \E d : dummy' = [dummy EXCEPT ![S] = d]
        BY DEF HandlesOne, HandleStrange, HandleLogInResponse, HandleRoomListResponse,
           HandleMakeRoomResponse, HandleEnterRoomResponse, HandleChatNotify, HandleChatResponse,
           HandleLeaveRoomResponse, HandleError, HandleEcho, Later, SendToDummy
      <4>2. asked' = asked \/ \E q : asked' = [asked EXCEPT ![S] = q]
        BY DEF HandlesOne, HandleStrange, HandleLogInResponse, HandleRoomListResponse,
           HandleMakeRoomResponse, HandleEnterRoomResponse, HandleChatNotify, HandleChatResponse,
           HandleLeaveRoomResponse, HandleError, HandleEcho, Later, SendToDummy
      <4>3. QED BY <1>1, <3>2, <4>1, <4>2 DEF TypeOK
    <3>3. QED BY <1>3, <3>1, <3>2
  <2>4. QED BY <1>1, <2>2, <2>3, Untouched
<1>4. QED BY <1>2, <1>3

LEMMA LogicTalks ==
  ASSUME IInv, NEW s \in DOMAIN dummy, link[s] = "up", Talks(s),
         ProcessDummyLogic \/ \E t \in Dummies : Elapse(t)
  PROVE  Talks(s)'
<1>1. TypeOK /\ s \in Dummies /\ UNCHANGED <<batch, net, jobs>> /\ at' = at
  BY DEF IInv, TypeOK, ProcessDummyLogic, Elapse, lobbyVars
<1>2. PacketsKept(s) /\ JobsKept(s)
  BY <1>1, SamePackets, SameJobs DEF Coming
<1>3. ASSUME NEW t \in Dummies, Elapse(t) PROVE Talks(s)'
  <2>1. CASE t = s
    BY <1>1, <1>3, <2>1, OwnElapse
  <2>2. CASE t # s
    <3>1. dummy'[s] = dummy[s] /\ asked' = asked
      BY <1>3, <2>2 DEF Elapse
    <3>2. QED BY <1>1, <1>2, <3>1, Untouched
  <2>3. QED BY <2>1, <2>2
<1>4. CASE ProcessDummyLogic /\ Due = {}
  BY <1>1, <1>2, <1>4, Untouched DEF ProcessDummyLogic
<1>5. ASSUME NEW t \in Due, Act(t) PROVE Talks(s)'
  <2>1. t \in DOMAIN dummy /\ dummy[t].next = "due"
    BY DEF Due, IInv, ListsAgree
  <2>2. CASE t = s
    BY <1>1, <1>5, <2>1, <2>2, OwnAct
  <2>3. CASE t # s
    <3>1. dummy[t].status \in {"lobby", "rtt", "room"}
      BY <2>1 DEF IInv, TimedRight
    <3>2. \E act, r, d : SendToDummy(t, act, r, d)
      BY <1>5, <3>1 DEF Act
    <3>3. dummy'[s] = dummy[s] /\ asked'[s] = asked[s]
      BY <1>1, <2>3, <3>2 DEF SendToDummy, TypeOK
    <3>4. QED BY <1>1, <1>2, <3>3, Untouched
  <2>4. QED BY <2>2, <2>3
<1>6. QED BY <1>3, <1>4, <1>5 DEF ProcessDummyLogic

(* A dummy that is made asks to log in, and nothing is under way for it.    *)
LEMMA ConnectEventTalks ==
  ASSUME IInv, ConnectEvent, NEW s \in DOMAIN dummy', link'[s] = "up",
         s \in DOMAIN dummy /\ link[s] = "up" => Talks(s)
  PROVE  Talks(s)'
<1> DEFINE t == Head(events).dummy
           d == [status |-> "connected", next |-> "never", room |-> 0]
<1>1. /\ UNCHANGED <<link, net, batch, jobs>> /\ at' = at /\ TypeOK
      /\ dummy' = Put(dummy, t, d) /\ events # <<>> /\ Head(events).what = "connect"
      /\ asked' = IF link[t] = "up" THEN [asked EXCEPT ![t] = Append(@, [act |-> "login", room |-> 0])]
                  ELSE asked
  BY DEF IInv, ConnectEvent, Event, EventDone, lobbyVars
<1>2. s \in Dummies
  BY ConnectEventKeeps DEF TypeOK
<1>3. PacketsKept(s) /\ JobsKept(s)
  BY <1>1, <1>2, SamePackets, SameJobs DEF Coming
<1>4. t \in Dummies /\ t \notin DOMAIN dummy
  <2>1. events' = Tail(events) /\ conn' = conn
    BY DEF ConnectEvent, EventDone
  <2>2. 1 \in DOMAIN Pending /\ Pending[1] = Head(events)
    BY <1>1, <2>1, PendingTail
  <2>3. QED BY <1>1, <2>2, PendingSeq DEF IInv, EventsRight
<1>5. CASE s # t
  <2>1. s \in DOMAIN dummy /\ dummy'[s] = dummy[s] /\ asked'[s] = asked[s]
    BY <1>1, <1>2, <1>5 DEF Put, TypeOK
  <2>2. QED BY <1>1, <1>2, <1>3, <2>1, Untouched
<1>6. CASE s = t
  <2>1. dummy'[s] = d /\ dummy'[s].next = "never" /\ dummy'[s].status = "connected"
    BY <1>1, <1>6 DEF Put
  <2>2. ~ExistsOrDown(s)
    BY <1>1, <1>4, <1>6 DEF ExistsOrDown
  <2>3. asked[s] = <<>> /\ at[s] = 0
    BY <1>2, <2>2 DEF IInv, UnderWayRight
  <2>4. NoPacket(s)
    <3>1. net \in Seq(OfThem(Packets)) /\ batch \in Seq(OfThem(Packets))
      BY DEF IInv, UnderWayRight
    <3>2. Coming \in Seq(OfThem(Packets))
      BY <3>1 DEF Coming
    <3>3. \A k \in DOMAIN Coming : Coming[k].dummy # s
      BY <2>2, <3>2 DEF OfThem
    <3>4. QED BY <3>3 DEF NoPacket, NoneIn, OwnPackets
  <2>5. NoJob(s)
    <3>1. ASSUME NEW r \in Rooms, NEW k \in DOMAIN jobs[r] PROVE jobs[r][k] \notin OwnJobs(s)
      <4>1. jobs[r] \in Seq(OfThem(Jobs))
        BY DEF IInv, UnderWayRight
      <4>2. jobs[r][k] \in OfThem(Jobs)
        BY <4>1
      <4>3. QED BY <2>2, <4>2 DEF OfThem, OwnJobs
    <3>2. QED BY <3>1 DEF NoJob, NoneIn
  <2>6. asked' = [asked EXCEPT ![s] = Append(@, [act |-> "login", room |-> 0])]
    BY <1>1, <1>6
  <2>7. NoPacket(s)' /\ NoJob(s)'
    BY <1>3, <2>4, <2>5 DEF PacketsKept, JobsKept
  <2>8. Asking(s, "login", 0)'
    BY <1>1, <1>2, <2>3, <2>6, <2>7, Speaks
  <2>9. AskFits(dummy'[s].status, dummy'[s].room, at'[s], "login", 0) /\ "login" \in Acts1
    BY <1>1, <2>1, <2>3 DEF AskFits, Acts1
  <2>10. QED BY <1>2, <2>1, <2>8, <2>9, NowAsking
<1>7. QED BY <1>5, <1>6

(* The steps that are not of s, or only move the queues of the thread.      *)
LEMMA QuietTalks ==
  ASSUME IInv, BatchRight, NEW s \in DOMAIN dummy', link'[s] = "up",
         s \in DOMAIN dummy /\ link[s] = "up" => Talks(s),
         \/ SwapNet \/ SwapEvents \/ HandleUnknown \/ EventsDone \/ DisconnectEvent
         \/ \E t \in Dummies : Connect(t) \/ Drop(t)
  PROVE  Talks(s)'
<1>1. Coming' = Coming /\ jobs' = jobs /\ at' = at
  <2>1. UNCHANGED <<jobs, at>>
    BY DEF SwapNet, SwapEvents, HandleUnknown, EventsDone, DisconnectEvent, EventDone, Connect,
           Drop, lobbyVars
  <2>2. CASE SwapNet
    <3>1. batch = <<>> /\ batch' = net /\ net' = <<>> /\ net \in Seq(Packets)
      BY <2>2 DEF SwapNet, BatchRight, IInv, TypeOK
    <3>2. net \o <<>> = <<>> \o net
      BY <3>1
    <3>3. QED BY <2>1, <3>1, <3>2 DEF Coming
  <2>3. CASE UNCHANGED <<net, batch>>
    BY <2>1, <2>3 DEF Coming
  <2>4. SwapNet \/ UNCHANGED <<net, batch>>
    BY DEF SwapEvents, HandleUnknown, EventsDone, DisconnectEvent, EventDone, Connect, Drop
  <2>5. QED BY <2>2, <2>3, <2>4
<1>2. s \in DOMAIN dummy /\ dummy'[s] = dummy[s]
  <2>1. CASE DisconnectEvent
    <3>1. dummy' = dummy \/ dummy' = [t \in DOMAIN dummy \ {Head(events).dummy} |-> dummy[t]]
      BY <2>1 DEF DisconnectEvent
    <3>2. QED BY <3>1
  <2>2. CASE dummy' = dummy
    BY <2>2
  <2>3. DisconnectEvent \/ dummy' = dummy
    BY DEF SwapNet, SwapEvents, HandleUnknown, EventsDone, Connect, Drop
  <2>4. QED BY <2>1, <2>2, <2>3
<1>3. s \in Dummies /\ link[s] # "new"
  BY <1>2 DEF IInv, TypeOK, EventsRight
<1>4. link[s] = "up" /\ asked'[s] = asked[s]
  <2>1. ASSUME NEW t \in Dummies, Connect(t)
        PROVE  link[s] = "up" /\ asked'[s] = asked[s]
    BY <1>3, <2>1 DEF Connect, IInv, TypeOK
  <2>2. ASSUME NEW t \in Dummies, Drop(t)
        PROVE  link[s] = "up" /\ asked'[s] = asked[s]
    BY <1>3, <2>2 DEF Drop, IInv, TypeOK
  <2>3. CASE UNCHANGED <<link, asked>>
    BY <2>3
  <2>4. UNCHANGED <<link, asked>> \/ \E t \in Dummies : Connect(t) \/ Drop(t)
    BY DEF SwapNet, SwapEvents, HandleUnknown, EventsDone, DisconnectEvent, EventDone
  <2>5. QED BY <2>1, <2>2, <2>3, <2>4
<1>5. PacketsKept(s) /\ JobsKept(s)
  BY <1>1, <1>3, SamePackets, SameJobs
<1>6. QED BY <1>1, <1>2, <1>3, <1>4, <1>5, Untouched

LEMMA BatchStep ==
  ASSUME BatchRight, Next
  PROVE  BatchRight'
<1>1. CASE Logic
  BY <1>1 DEF Logic, BatchRight, SwapNet, SwapEvents, HandleUnknown, HandleStrange,
     HandleLogInResponse, HandleRoomListResponse, HandleMakeRoomResponse, HandleEnterRoomResponse,
     HandleChatNotify, HandleChatResponse, HandleLeaveRoomResponse, HandleError, HandleEcho,
     Handled, Packet, ConnectEvent, DisconnectEvent, EventDone, EventsDone, ProcessDummyLogic
<1>2. CASE UNCHANGED <<pc, batch>>
  BY <1>2 DEF BatchRight
<1>3. ASSUME NEW s \in Dummies, Connect(s) \/ Drop(s) \/ Elapse(s) \/ Serve(s)
      PROVE  UNCHANGED <<pc, batch>>
  BY <1>3 DEF Connect, Drop, Elapse, Serve, LobbyTells, LobbyMakes, LobbyEnters, LobbyPosts, Read
<1>4. ASSUME NEW r \in Rooms, RunJob(r)
      PROVE  UNCHANGED <<pc, batch>>
  BY <1>4 DEF RunJob, EnterJob, LeaveJob, ChatJob, Ran
<1>5. QED BY <1>1, <1>2, <1>3, <1>4 DEF Next

LEMMA TalkStep == IInv /\ TalkInv /\ [Next]_vars => TalkInv'
<1> SUFFICES ASSUME IInv, TalkInv, [Next]_vars PROVE TalkInv' OBVIOUS
<1>1. CASE UNCHANGED vars
  <2>1. /\ UNCHANGED <<link, net, batch, conn, events, pc, dummy, list, index, first, asked, at, jobs>>
        /\ TalkInv
    BY <1>1 DEF vars, lobbyVars, listVars
  <2>2. ASSUME NEW s \in DOMAIN dummy, link[s] = "up" PROVE Talks(s)'
    <3>1. s \in Dummies BY DEF IInv, TypeOK
    <3>2. QED BY <2>1, <2>2, <3>1, Untouched, SamePackets, SameJobs DEF TalkInv, Coming
  <2>3. QED BY <2>1, <2>2 DEF TalkInv, BatchRight
<1>2. CASE Next
  <2>1. BatchRight'
    BY <1>2, BatchStep DEF TalkInv
  <2> SUFFICES ASSUME NEW s \in DOMAIN dummy', link'[s] = "up" PROVE Talks(s)'
    BY <2>1 DEF TalkInv
  <2>2. s \in DOMAIN dummy /\ link[s] = "up" => Talks(s)
    BY DEF TalkInv
  <2>3. CASE \/ SwapNet \/ SwapEvents \/ HandleUnknown \/ EventsDone \/ DisconnectEvent
             \/ \E t \in Dummies : Connect(t) \/ Drop(t)
    BY <2>2, <2>3, QuietTalks DEF TalkInv
  <2>4. CASE ConnectEvent
    BY <2>2, <2>4, ConnectEventTalks
  <2>5. CASE \/ HandlesOne \/ ProcessDummyLogic \/ \E t \in Dummies : Elapse(t) \/ Serve(t)
             \/ \E r \in Rooms : RunJob(r)
    <3>1. Steady
      BY <2>5 DEF Steady
    <3>2. s \in DOMAIN dummy /\ link[s] = "up" /\ Talks(s)
      BY <2>2, <3>1, SteadyKeeps
    <3>3. ASSUME NEW t \in Dummies, Serve(t) PROVE Talks(s)'
      BY <3>2, <3>3, OwnServe, OtherServe
    <3>4. ASSUME NEW r \in Rooms, RunJob(r) PROVE Talks(s)'
      BY <3>2, <3>4, OwnJob, OtherJob
    <3>5. QED BY <2>5, <3>2, <3>3, <3>4, HandledTalks, LogicTalks
  <2>6. QED
    <3>1. Logic => \/ SwapNet \/ SwapEvents \/ HandleUnknown \/ EventsDone \/ DisconnectEvent
                   \/ ConnectEvent \/ HandlesOne \/ ProcessDummyLogic
      BY DEF Logic, HandlesOne
    <3>2. QED BY <1>2, <2>3, <2>4, <2>5, <3>1 DEF Next
<1>3. QED BY <1>1, <1>2

LEMMA TalkInit == Init => TalkInv
BY DEF Init, TalkInv, BatchRight

-----------------------------------------------------------------------------
(* What the conversation says in numbers.                                   *)
LEMMA CountOf ==
  ASSUME NEW q, NEW X
  PROVE  LET of == {k \in DOMAIN q : q[k] \in X}
         IN /\ NoneIn(q, X) => Cardinality(of) = 0
            /\ \A x \in X : OneIn(q, X, x) => Cardinality(of) = 1
            /\ DOMAIN q \subseteq Nat =>
                 \A x, y \in X : TwoIn(q, X, x, y) => Cardinality(of) = 2
<1> DEFINE of == {k \in DOMAIN q : q[k] \in X}
<1>1. ASSUME NoneIn(q, X) PROVE Cardinality(of) = 0
  <2>1. of = {} BY <1>1 DEF NoneIn
  <2>2. QED BY <2>1, FS_EmptySet
<1>2. ASSUME NEW x \in X, OneIn(q, X, x) PROVE Cardinality(of) = 1
  <2>1. PICK k : of = {k} BY <1>2 DEF OneIn
  <2>2. QED BY <2>1, FS_Singleton
<1>3. ASSUME DOMAIN q \subseteq Nat, NEW x \in X, NEW y \in X, TwoIn(q, X, x, y)
      PROVE  Cardinality(of) = 2
  <2>1. PICK k \in Nat, l \in Nat : k < l /\ of = {k, l} BY <1>3 DEF TwoIn
  <2>2. of = {k} \cup {l} /\ l \notin {k} BY <2>1
  <2>3. IsFiniteSet({k}) /\ Cardinality({k}) = 1 BY FS_Singleton
  <2>4. Cardinality({k} \cup {l}) = Cardinality({k}) + 1 BY <2>2, <2>3, FS_AddElement
  <2>5. QED BY <2>2, <2>3, <2>4
<1>4. QED BY <1>1, <1>2, <1>3

LEMMA PacketsCounted ==
  ASSUME TypeOK, NEW s \in Dummies
  PROVE  /\ NoPacket(s) => Cardinality(AnswersTo(s)) = 0
         /\ \A type \in Types1, rs \in SUBSET Rooms :
              OnePacket(s, type, rs) => Cardinality(AnswersTo(s)) = 1
         /\ \A r \in Rooms : TwoPackets(s, r) => Cardinality(AnswersTo(s)) = 2
<1> DEFINE X == OwnPackets(s)
<1>1. Coming \in Seq(Packets) /\ DOMAIN Coming \subseteq Nat
  BY DEF TypeOK, Coming
<1>2. AnswersTo(s) = {k \in DOMAIN Coming : Coming[k] \in X}
  BY <1>1 DEF AnswersTo, OwnPackets
<1>3. /\ NoneIn(Coming, X) => Cardinality(AnswersTo(s)) = 0
      /\ \A x \in X : OneIn(Coming, X, x) => Cardinality(AnswersTo(s)) = 1
      /\ \A x, y \in X : TwoIn(Coming, X, x, y) => Cardinality(AnswersTo(s)) = 2
  <2> DEFINE q == Coming
  <2> HIDE DEF q, X
  <2>1. DOMAIN q \subseteq Nat /\ AnswersTo(s) = {k \in DOMAIN q : q[k] \in X}
    BY <1>1, <1>2 DEF q
  <2>2. q \in Seq(Packets)
    BY <1>1 DEF q
  <2>3. /\ NoneIn(q, X) => Cardinality(AnswersTo(s)) = 0
        /\ \A x \in X : OneIn(q, X, x) => Cardinality(AnswersTo(s)) = 1
        /\ \A x, y \in X : TwoIn(q, X, x, y) => Cardinality(AnswersTo(s)) = 2
    BY ONLY <2>1, <2>2, CountOf
  <2>4. QED BY <2>3 DEF q
<1>4. \A type \in Types1, rs \in SUBSET Rooms : Packet1(s, type, rs) \in X
  BY OwnThings
<1>5. \A r \in Rooms : Packet1(s, "made", {r}) \in X /\ Packet1(s, "entered", {}) \in X
  <2>1. /\ \A r \in Rooms : {r} \in SUBSET Rooms
        /\ {} \in SUBSET Rooms /\ "made" \in Types1 /\ "entered" \in Types1
    BY DEF Types1
  <2>2. QED BY <1>4, <2>1
<1>6. QED BY <1>3, <1>4, <1>5 DEF NoPacket, OnePacket, TwoPackets

LEMMA JobsCounted ==
  ASSUME TypeOK, NEW s \in Dummies
  PROVE  /\ NoJob(s) => Cardinality(JobsOf(s)) = 0
         /\ \A act \in Acts1, r \in Rooms : OneJob(s, r, act) => Cardinality(JobsOf(s)) = 1
<1>1. \A r \in Rooms, k \in Nat : k \in DOMAIN jobs[r] =>
        (jobs[r][k].dummy = s <=> jobs[r][k] \in OwnJobs(s))
  <2>1. \A r \in Rooms : jobs[r] \in Seq(Jobs) BY DEF TypeOK
  <2>2. QED BY <2>1 DEF OwnJobs
<1>2. \A r \in Rooms : DOMAIN jobs[r] \subseteq Nat
  <2>1. \A r \in Rooms : jobs[r] \in Seq(Jobs) BY DEF TypeOK
  <2>2. QED BY <2>1
<1>3. ASSUME NoJob(s) PROVE Cardinality(JobsOf(s)) = 0
  <2>1. JobsOf(s) = {} BY <1>1, <1>2, <1>3 DEF JobsOf, NoJob, NoneIn
  <2>2. QED BY <2>1, FS_EmptySet
<1>4. ASSUME NEW act \in Acts1, NEW r \in Rooms, OneJob(s, r, act)
      PROVE  Cardinality(JobsOf(s)) = 1
  <2>1. PICK k \in DOMAIN jobs[r] :
          jobs[r][k] = [dummy |-> s, act |-> act]
          /\ \A m \in DOMAIN jobs[r] : jobs[r][m] \in OwnJobs(s) => m = k
    BY <1>4 DEF OneJob, OneIn
  <2>2. {m \in DOMAIN jobs[r] : jobs[r][m].dummy = s} = {k}
    BY <1>1, <1>2, <2>1
  <2>3. \A q \in Rooms \ {r} : {m \in DOMAIN jobs[q] : jobs[q][m].dummy = s} = {}
    BY <1>1, <1>2, <1>4 DEF OneJob, NoneIn
  <2>4. JobsOf(s) = {<<r, k>>}
    BY <2>2, <2>3 DEF JobsOf
  <2>5. QED BY <2>4, FS_Singleton
<1>5. QED BY <1>3, <1>4

LEMMA TalkAgrees ==
  ASSUME TypeOK, NEW s \in DOMAIN dummy, Talks(s)
  PROVE  LET d == dummy[s]
             n == UnderWay(s)
         IN CASE d.status = "room" -> n = 0 /\ at[s] = d.room /\ d.next # "never"
              [] d.status = "chat" -> n = 1 /\ at[s] = d.room
              [] d.status \in {"connected", "leave"} -> n = 1
              [] d.status = "enter" -> n = 1 \/ Stranded(s)
              [] d.status \in {"rtt", "lobby"} /\ d.next # "never" -> n = 0 /\ at[s] = 0
              [] OTHER -> n = 1 \/ (d.status = "lobby" /\ n = 2)
<1> DEFINE d == dummy[s]
<1>1. s \in Dummies
  BY DEF TypeOK
<1>2. ASSUME Silent(s) PROVE UnderWay(s) = 0
  <2>1. Len(asked[s]) = 0 /\ Cardinality(AnswersTo(s)) = 0 /\ Cardinality(JobsOf(s)) = 0
    BY <1>1, <1>2, PacketsCounted, JobsCounted DEF Silent
  <2>2. QED BY <2>1 DEF UnderWay
<1>3. ASSUME NEW act, NEW r, Asking(s, act, r) PROVE UnderWay(s) = 1
  <2>1. Len(asked[s]) = 1 /\ Cardinality(AnswersTo(s)) = 0 /\ Cardinality(JobsOf(s)) = 0
    BY <1>1, <1>3, PacketsCounted, JobsCounted DEF Asking
  <2>2. QED BY <2>1 DEF UnderWay
<1>4. ASSUME NEW act \in Acts1, NEW r \in Rooms, Posted(s, act, r) PROVE UnderWay(s) = 1
  <2>1. Len(asked[s]) = 0 /\ Cardinality(AnswersTo(s)) = 0 /\ Cardinality(JobsOf(s)) = 1
    BY <1>1, <1>4, PacketsCounted, JobsCounted DEF Posted
  <2>2. QED BY <2>1 DEF UnderWay
<1>5. ASSUME NEW type \in Types1, NEW rs \in SUBSET Rooms, Getting(s, type, rs)
      PROVE  UnderWay(s) = 1
  <2>1. Len(asked[s]) = 0 /\ Cardinality(AnswersTo(s)) = 1 /\ Cardinality(JobsOf(s)) = 0
    BY <1>1, <1>5, PacketsCounted, JobsCounted DEF Getting
  <2>2. QED BY <2>1 DEF UnderWay
<1>6. ASSUME at[s] \in Rooms, GettingTwo(s, at[s]) PROVE UnderWay(s) = 2
  <2>1. Len(asked[s]) = 0 /\ Cardinality(AnswersTo(s)) = 2 /\ Cardinality(JobsOf(s)) = 0
    BY <1>1, <1>6, PacketsCounted, JobsCounted DEF GettingTwo
  <2>2. QED BY <2>1 DEF UnderWay
<1> DEFINE n == UnderWay(s)
<1> HIDE DEF n
<1>7. \/ n = 0 /\ SilentFits(d.status, d.next, d.room, at[s])
      \/ /\ d.next = "never"
         /\ \/ n = 2 /\ d.status = "lobby"
            \/ /\ n = 1
               /\ \/ \E act, r : AskFits(d.status, d.room, at[s], act, r)
                  \/ \E act, r : JobFits(d.status, d.room, at[s], act, r)
                  \/ \E type, rs : GetFits(d.status, d.room, at[s], type, rs)
  BY <1>2, <1>3, <1>4, <1>5, <1>6 DEF Talks, Talk, n
<1>8. CASE n = 0 /\ SilentFits(d.status, d.next, d.room, at[s])
  <2>1. CASE d.status = "enter"
    <3>1. Stranded(s) BY <1>8, <2>1 DEF SilentFits, Stranded, n
    <3>2. QED BY <2>1, <3>1 DEF n
  <2>2. CASE d.status = "room"
    <3>1. n = 0 /\ at[s] = d.room /\ d.next # "never" BY <1>8, <2>2 DEF SilentFits
    <3>2. QED BY <2>2, <3>1 DEF n
  <2>3. CASE d.status \in {"rtt", "lobby"}
    <3>1. n = 0 /\ at[s] = 0 /\ d.next # "never" BY <1>8, <2>3 DEF SilentFits
    <3>2. QED BY <2>3, <3>1 DEF n
  <2>4. QED BY <1>8, <2>1, <2>2, <2>3 DEF SilentFits
<1>9. CASE d.next = "never" /\ n = 2 /\ d.status = "lobby"
  BY <1>9 DEF n
<1>10. CASE /\ d.next = "never" /\ n = 1
            /\ \/ \E act, r : AskFits(d.status, d.room, at[s], act, r)
               \/ \E act, r : JobFits(d.status, d.room, at[s], act, r)
               \/ \E type, rs : GetFits(d.status, d.room, at[s], type, rs)
  <2>1. d.status # "room" /\ (d.status = "chat" => at[s] = d.room)
    BY <1>10 DEF AskFits, JobFits, GetFits
  <2>2. QED BY <1>10, <2>1 DEF n
<1>11. QED BY <1>7, <1>8, <1>9, <1>10

-----------------------------------------------------------------------------
(* The strengthened invariant holds throughout, for any dummies and rooms.  *)
THEOREM DummyInvariance == Spec => []IInv
<1>1. QED BY InitIInv, StepIInv, PTL DEF Spec

(* The map, the vector and the index of the dummies agree after any number  *)
(* of connections and disconnections in any order.                          *)
THEOREM SpecListsAgree == Spec => []ListsAgree
<1>1. IInv => ListsAgree BY DEF IInv
<1>2. QED BY <1>1, DummyInvariance, PTL

(* The null pointer is followed only for a dummy whose connection is down.  *)
THEOREM SpecDiesOfLatePackets == Spec => []DiesOfLatePackets
<1>1. IInv => DiesOfLatePackets BY DEF IInv, Crashed, DiesOfLatePackets
<1>2. QED BY <1>1, DummyInvariance, PTL

(* The conversation of a dummy with the lobby is one request at a time, and *)
(* each answer is for the status it comes in, for any numbers of dummies,   *)
(* rooms and jobs under way (DummyUpdateSystem.cpp:387).                    *)
THEOREM TalkInvariance == Spec => []TalkInv
<1>1. QED BY DummyInvariance, TalkInit, TalkStep, PTL DEF Spec

(* What a dummy takes itself to be is what the lobby has it as.             *)
THEOREM SpecAgreesWithLobby == Spec => []AgreesWithLobby
<1>1. IInv /\ TalkInv => AgreesWithLobby
  BY TalkAgrees DEF IInv, TalkInv, AgreesWithLobby
<1>2. QED BY <1>1, DummyInvariance, TalkInvariance, PTL

-----------------------------------------------------------------------------
(***************************************************************************)
(* ClientSessions.  A step of a thread is first restated as one of its     *)
(* context and of the session of its slot.                                 *)
(***************************************************************************)

(* Where a thread can be, by what it knows there.                           *)
Creates == {"activate", "register", "connectEx"}
Served == {"handler", "recvPost", "sent", "acquire", "acquireRef"}
Sends == {"sendCheck", "sendClaim", "sendPost", "sendReset"}
Calls == {"acquire", "acquireRef", "use", "cancel"}
Deletes == {"delete", "deleteCas", "teardown", "clear", "recycle"}

Contexts == [at : Labels, s : Slots \cup {NoSlot}, on : Slots \cup {NoSlot},
            id : Ids \cup {NoId}, owed : 0 .. 2, back : {"idle", "handler"}]
SessionsSet == [id : Ids \cup {NoId}, socket : Ids \cup {NoId}, count : Int,
                sending : BOOLEAN, connected : BOOLEAN, queued : BOOLEAN]
Entries == [slot : Slots, kind : Kinds, ok : BOOLEAN]
IoSet == [Ids -> [Kinds -> Nat]]
NetSet == [Ids -> {"none", "made", "connecting", "refused", "open", "peerClosed", "closed"}]

(* In every mode: what the place of a thread in the program uses is there.  *)
Placed(h) ==
  /\ h.at = "idle" => h = Idle
  /\ h.at # "idle" => h.s \in Slots
  /\ h.at \in Creates \cup {"deleteCas", "teardown"} => h.id \in Ids
  /\ h.back = "handler" \/ h.at = "handler" => h.on \in Slots
  /\ h.at \in Deletes \cup {"dec"} => h.owed \in 1 .. 2

TypeInv == ClientTypes /\ \A t \in Threads : Placed(th[t])

(* Thread t goes on from h to h2.                                           *)
Moves(t, h, h2) == h = th[t] /\ h2 \in Contexts /\ th' = [th EXCEPT ![t] = h2]

-----------------------------------------------------------------------------
(* What a step does to its thread.                                          *)
LEMMA RecordsAre ==
  ASSUME TypeInv, NEW t \in Threads
  PROVE  th[t] \in Contexts /\ Placed(th[t]) /\ th \in [Threads -> Contexts]
BY DEF TypeInv, ClientTypes, Contexts

LEMMA IdleIs ==
  /\ Idle \in Contexts /\ Placed(Idle) /\ Idle.at = "idle" /\ Idle.s = NoSlot /\ Idle.on = NoSlot
  /\ Idle.id = NoId /\ Idle.owed = 0 /\ Idle.back = "idle"
BY DEF Idle, Contexts, Placed, Labels, Creates, Deletes

Goes(h, h2, l) ==
  h2.at = l /\ h2.s = h.s /\ h2.on = h.on /\ h2.id = h.id /\ h2.owed = h.owed /\ h2.back = h.back

LEMMA GotoIs ==
  ASSUME TypeInv, NEW t \in Threads, NEW l \in Labels, Goto(t, l)
  PROVE  \E h, h2 : Moves(t, h, h2) /\ Goes(h, h2, l)
<1>1. PICK h : h = th[t] OBVIOUS
<1>2. PICK h2 : h2 = [h EXCEPT !.at = l] OBVIOUS
<1>3. h \in Contexts BY <1>1, RecordsAre
<1>4. h2 \in Contexts /\ Goes(h, h2, l)
  BY <1>2, <1>3 DEF Contexts, Goes
<1>5. th' = [th EXCEPT ![t] = h2]
  BY <1>1, <1>2 DEF Goto
<1>6. QED BY <1>1, <1>4, <1>5 DEF Moves

Owes(h, h2, n) ==
  h2.at = "dec" /\ h2.s = h.s /\ h2.on = h.on /\ h2.id = h.id /\ h2.owed = n /\ h2.back = h.back

LEMMA OweIs ==
  ASSUME TypeInv, NEW t \in Threads, NEW n \in 0 .. 2, Owe(t, n)
  PROVE  \E h, h2 : Moves(t, h, h2) /\ Owes(h, h2, n)
<1>1. PICK h : h = th[t] OBVIOUS
<1>2. PICK h2 : h2 = [h EXCEPT !.at = "dec", !.owed = n] OBVIOUS
<1>3. h \in Contexts BY <1>1, RecordsAre
<1>4. h2 \in Contexts /\ Owes(h, h2, n)
  BY <1>2, <1>3 DEF Contexts, Owes, Labels
<1>5. th' = [th EXCEPT ![t] = h2]
  BY <1>1, <1>2 DEF Owe
<1>6. QED BY <1>1, <1>4, <1>5 DEF Moves

Resumes(h, h2) ==
  \/ h.back = "idle" /\ h2 = Idle
  \/ /\ h.back = "handler" /\ h2.at = "handler" /\ h2.s = h.on /\ h2.on = h.on
     /\ h2.id = NoId /\ h2.owed = 0 /\ h2.back = "idle"

LEMMA ResumedIs ==
  ASSUME TypeInv, NEW t \in Threads, th' = Resumed(t)
  PROVE  \E h, h2 : Moves(t, h, h2) /\ Resumes(h, h2)
<1>1. PICK h : h = th[t] OBVIOUS
<1>2. h \in Contexts BY <1>1, RecordsAre
<1>3. PICK h2 : h2 = IF h.back = "idle" THEN Idle
                     ELSE [Idle EXCEPT !.at = "handler", !.s = h.on, !.on = h.on]
  OBVIOUS
<1>4. h2 \in Contexts /\ Resumes(h, h2)
  BY <1>2, <1>3, IdleIs DEF Contexts, Resumes, Labels, Idle
<1>5. th' = [th EXCEPT ![t] = h2]
  BY <1>1, <1>3 DEF Resumed
<1>6. QED BY <1>1, <1>4, <1>5 DEF Moves

(* The next DecreaseIoCount, or the end of the work.                        *)
Returns(h, h2) ==
  IF h.owed > 1 THEN Owes(h, h2, h.owed - 1) ELSE Resumes(h, h2)

LEMMA ReturnIs ==
  ASSUME TypeInv, NEW t \in Threads, Return(t)
  PROVE  \E h, h2 : Moves(t, h, h2) /\ Returns(h, h2)
<1>1. PICK h : h = th[t] OBVIOUS
<1>2. h \in Contexts BY <1>1, RecordsAre
<1>3. h.owed \in 0 .. 2 BY <1>2 DEF Contexts
<1>4. CASE h.owed > 1
  <2>0. PICK n \in 0 .. 2 : n = h.owed - 1 BY <1>3, <1>4
  <2>1. PICK h2 : h2 = [h EXCEPT !.at = "dec", !.owed = n] OBVIOUS
  <2>2. h2 \in Contexts /\ Owes(h, h2, n)
    BY <1>2, <2>1 DEF Contexts, Owes, Labels
  <2>3. th' = [th EXCEPT ![t] = h2]
    BY <1>1, <1>4, <2>0, <2>1 DEF Return
  <2>4. QED BY <1>1, <1>4, <2>0, <2>2, <2>3 DEF Moves, Returns
<1>5. CASE ~ (h.owed > 1)
  <2>1. th' = Resumed(t) BY <1>1, <1>5 DEF Return
  <2>2. QED BY <1>1, <1>5, <2>1, ResumedIs DEF Returns, Moves
<1>6. QED BY <1>4, <1>5

-----------------------------------------------------------------------------
(* What the steps of a thread do, each from a record of the thread and of   *)
(* its slot to the next.                                                    *)

SessMoves(s, x, x2) ==
  /\ s \in Slots /\ x = session[s] /\ x \in SessionsSet /\ x2 \in SessionsSet
  /\ session' = [session EXCEPT ![s] = x2]

Is(x2, i, k, n, f, c, q) ==
  x2.id = i /\ x2.socket = k /\ x2.count = n /\ x2.sending = f /\ x2.connected = c /\ x2.queued = q

LEMMA SessionsAre ==
  ASSUME TypeInv, NEW s \in Slots
  PROVE  session[s] \in SessionsSet /\ session \in [Slots -> SessionsSet]
BY DEF TypeInv, ClientTypes, SessionsSet

LEMMA LongTypes ==
  ASSUME NEW n \in Int
  PROVE  LongInc(n) \in Int /\ LongDec(n) \in Int /\ DeleteFlag \in Int
BY DEF LongInc, LongDec, DeleteFlag

LEMMA ClearedIs ==
  Cleared \in SessionsSet /\ Is(Cleared, NoId, NoId, 0, TRUE, FALSE, FALSE)
BY DEF Cleared, SessionsSet, Is

LEMMA SessionSame ==
  ASSUME TypeInv, NEW s \in Slots, session' = session
  PROVE  \E x : SessMoves(s, x, x)
<1>1. session[s] \in SessionsSet /\ session \in [Slots -> SessionsSet]
  BY SessionsAre
<1>2. session = [session EXCEPT ![s] = session[s]]
  BY <1>1
<1>3. QED BY <1>1, <1>2 DEF SessMoves

LEMMA SessionCounts ==
  ASSUME TypeInv, NEW s \in Slots, NEW n \in Int,
         session' = [session EXCEPT ![s].count = n]
  PROVE  \E x, x2 : /\ SessMoves(s, x, x2)
                    /\ Is(x2, x.id, x.socket, n, x.sending, x.connected, x.queued)
<1>1. PICK x : x = session[s] OBVIOUS
<1>2. x \in SessionsSet BY <1>1, SessionsAre
<1>3. PICK x2 : x2 = [x EXCEPT !.count = n] OBVIOUS
<1>4. x2 \in SessionsSet /\ Is(x2, x.id, x.socket, n, x.sending, x.connected, x.queued)
  BY <1>2, <1>3 DEF SessionsSet, Is
<1>5. session' = [session EXCEPT ![s] = x2]
  BY <1>1, <1>3
<1>6. QED BY <1>1, <1>2, <1>4, <1>5 DEF SessMoves

LEMMA SessionFlag ==
  ASSUME TypeInv, NEW s \in Slots, NEW f \in BOOLEAN,
         session' = [session EXCEPT ![s].sending = f]
  PROVE  \E x, x2 : /\ SessMoves(s, x, x2)
                    /\ Is(x2, x.id, x.socket, x.count, f, x.connected, x.queued)
<1>1. PICK x : x = session[s] OBVIOUS
<1>2. x \in SessionsSet BY <1>1, SessionsAre
<1>3. PICK x2 : x2 = [x EXCEPT !.sending = f] OBVIOUS
<1>4. x2 \in SessionsSet /\ Is(x2, x.id, x.socket, x.count, f, x.connected, x.queued)
  BY <1>2, <1>3 DEF SessionsSet, Is
<1>5. session' = [session EXCEPT ![s] = x2]
  BY <1>1, <1>3
<1>6. QED BY <1>1, <1>2, <1>4, <1>5 DEF SessMoves

(* Connect.                                                                 *)
Created(h2, s, g) ==
  h2.at = "activate" /\ h2.s = s /\ h2.id = g /\ h2.on = NoSlot /\ h2.owed = 0 /\ h2.back = "idle"

LEMMA CreateIs ==
  ASSUME TypeInv, NEW t \in Threads, CreateSession(t)
  PROVE  \E h, h2, s, g :
           /\ Moves(t, h, h2) /\ h = Idle /\ Created(h2, s, g) /\ s \in Slots /\ g \in Ids
           /\ s = Last(indexStack) /\ g = <<s, idGen + 1>> /\ idGen + 1 \in 1 .. MaxConnects
           /\ sockets' = [sockets EXCEPT ![g] = "made"]
<1>1. PICK h : h = th[t] OBVIOUS
<1>2. h \in Contexts /\ h = Idle
  BY <1>1, RecordsAre DEF CreateSession, Placed
<1>3. PICK s : s = Last(indexStack) OBVIOUS
<1>4. s \in Slots
  BY <1>3 DEF CreateSession, TypeInv, ClientTypes, Last
<1>5. PICK g : g = <<s, idGen + 1>> OBVIOUS
<1>6. idGen + 1 \in 1 .. MaxConnects
  BY ClientAssumption DEF CreateSession, TypeInv, ClientTypes
<1>7. g \in Ids BY <1>4, <1>5, <1>6 DEF Ids
<1>8. PICK h2 : h2 = [h EXCEPT !.at = "activate", !.s = s, !.id = g] OBVIOUS
<1>9. h2 \in Contexts /\ Created(h2, s, g)
  BY <1>2, <1>4, <1>7, <1>8, IdleIs DEF Contexts, Created, Labels
<1>10. th' = [th EXCEPT ![t] = h2] /\ sockets' = [sockets EXCEPT ![g] = "made"]
  BY <1>1, <1>3, <1>5, <1>8 DEF CreateSession
<1>11. QED BY <1>1, <1>2, <1>3, <1>4, <1>5, <1>6, <1>7, <1>9, <1>10 DEF Moves

LEMMA ActivateIs ==
  ASSUME TypeInv, NEW t \in Threads, Activate(t)
  PROVE  \E h, h2, x, x2 :
           /\ Moves(t, h, h2) /\ h.at = "activate" /\ Goes(h, h2, "register")
           /\ SessMoves(h.s, x, x2) /\ h.id \in Ids
           /\ IF x.count # 0 THEN x2 = x ELSE Is(x2, h.id, h.id, 1, FALSE, TRUE, x.queued)
<1>1. PICK h, h2 : Moves(t, h, h2) /\ Goes(h, h2, "register")
  BY GotoIs DEF Activate, Labels
<1>2. h = th[t] /\ h.at = "activate" /\ h.s \in Slots /\ h.id \in Ids
  BY <1>1, RecordsAre DEF Moves, Activate, Placed, Creates
<1>3. PICK s, g : s = h.s /\ g = h.id OBVIOUS
<1>4. PICK x : x = session[s] OBVIOUS
<1>5. x \in SessionsSet /\ session \in [Slots -> SessionsSet] BY <1>2, <1>3, <1>4, SessionsAre
<1>6. CASE x.count # 0
  <2>1. session' = session BY <1>2, <1>3, <1>4, <1>6 DEF Activate
  <2>2. SessMoves(s, x, x) BY <1>2, <1>3, <1>4, <2>1, SessionSame DEF SessMoves
  <2>3. QED BY <1>1, <1>2, <1>3, <1>6, <2>2
<1>7. CASE x.count = 0
  <2>1. PICK x2 : x2 = [x EXCEPT !.id = g, !.socket = g, !.count = 1, !.sending = FALSE,
                                 !.connected = TRUE]
    OBVIOUS
  <2>2. x2 \in SessionsSet /\ Is(x2, g, g, 1, FALSE, TRUE, x.queued)
    <3>0. g \in Ids BY <1>2, <1>3
    <3>1. PICK y : y = [x EXCEPT !.id = g, !.socket = g] OBVIOUS
    <3>2. y \in SessionsSet /\ Is(y, g, g, x.count, x.sending, x.connected, x.queued)
      BY <1>5, <3>0, <3>1 DEF SessionsSet, Is
    <3>3. PICK z : z = [y EXCEPT !.count = 1] OBVIOUS
    <3>4. z \in SessionsSet /\ Is(z, g, g, 1, x.sending, x.connected, x.queued)
      BY <3>2, <3>3 DEF SessionsSet, Is
    <3>5. x2 = [z EXCEPT !.sending = FALSE, !.connected = TRUE]
      BY <2>1, <3>1, <3>3
    <3>6. QED BY <3>4, <3>5 DEF SessionsSet, Is
  <2>3. session' = [session EXCEPT ![s] = x2]
    BY <1>2, <1>3, <1>4, <1>7, <2>1 DEF Activate
  <2>4. SessMoves(s, x, x2) BY <1>2, <1>3, <1>4, <1>5, <2>2, <2>3 DEF SessMoves
  <2>5. QED BY <1>1, <1>2, <1>3, <1>7, <2>2, <2>4
<1>8. QED BY <1>6, <1>7

LEMMA RegisterIs ==
  ASSUME TypeInv, NEW t \in Threads, RegisterPort(t)
  PROVE  \E h, h2 :
           /\ Moves(t, h, h2) /\ h.at = "register" /\ h.s \in Slots /\ h.id \in Ids
           /\ \/ Goes(h, h2, "connectEx") /\ UNCHANGED <<indexStack, sessionCount, sockets>>
              \/ /\ h2 = Idle /\ indexStack' = Append(indexStack, h.s)
                 /\ sessionCount' = sessionCount - 1
                 /\ sockets' = [sockets EXCEPT ![h.id] = "closed"]
<1>1. th[t].at = "register" /\ th[t].s \in Slots /\ th[t].id \in Ids /\ th[t] \in Contexts
  BY RecordsAre DEF RegisterPort, Placed, Creates
<1>2. CASE Goto(t, "connectEx") /\ UNCHANGED <<indexStack, sessionCount, sockets>>
  <2>1. PICK h, h2 : Moves(t, h, h2) /\ Goes(h, h2, "connectEx")
    BY <1>2, GotoIs DEF Labels
  <2>2. QED BY <1>1, <1>2, <2>1 DEF Moves
<1>3. CASE /\ th' = [th EXCEPT ![t] = Idle] /\ indexStack' = Append(indexStack, th[t].s)
           /\ sessionCount' = sessionCount - 1
           /\ sockets' = [sockets EXCEPT ![th[t].id] = "closed"]
  BY <1>1, <1>3, IdleIs DEF Moves
<1>4. QED BY <1>2, <1>3 DEF RegisterPort

LEMMA ConnectExIs ==
  ASSUME TypeInv, NEW t \in Threads, ConnectEx(t)
  PROVE  \E h, h2, g :
           /\ Moves(t, h, h2) /\ h.at = "connectEx" /\ h.s \in Slots /\ g \in Ids /\ g = h.id
           /\ \/ /\ h2 = Idle /\ io' = [io EXCEPT ![g]["connect"] = 1]
                 /\ sockets' = [sockets EXCEPT ![g] = "connecting"]
              \/ /\ Owes(h, h2, 1) /\ io' = io
                 /\ sockets' = [sockets EXCEPT ![g] = IF sockets[g] = "made" THEN "refused" ELSE sockets[g]]
<1>1. th[t].at = "connectEx" /\ th[t].s \in Slots /\ th[t].id \in Ids /\ th[t] \in Contexts
  BY RecordsAre DEF ConnectEx, Placed, Creates
<1>2. PICK g : g = th[t].id OBVIOUS
<1>3. CASE /\ io' = [io EXCEPT ![g]["connect"] = 1]
           /\ sockets' = [sockets EXCEPT ![g] = "connecting"]
           /\ th' = [th EXCEPT ![t] = Idle]
  BY <1>1, <1>2, <1>3, IdleIs DEF Moves
<1>4. CASE /\ sockets' = [sockets EXCEPT ![g] = IF @ = "made" THEN "refused" ELSE @]
           /\ Owe(t, 1) /\ UNCHANGED io
  <2>1. PICK h, h2 : Moves(t, h, h2) /\ Owes(h, h2, 1)
    BY <1>4, OweIs
  <2>2. QED BY <1>1, <1>2, <1>4, <2>1 DEF Moves
<1>5. QED BY <1>2, <1>3, <1>4 DEF ConnectEx

(* Workers.                                                                 *)
LEMMA EntryFirst ==
  ASSUME TypeInv, port # <<>>
  PROVE  Head(port) \in Entries /\ Tail(port) \in Seq(Entries)
<1>1. \A Z : \A q \in Seq(Z) : q # <<>> => Head(q) \in Z /\ Tail(q) \in Seq(Z)
  OBVIOUS
<1>2. port \in Seq(Entries) BY DEF TypeInv, ClientTypes, Entries
<1>3. QED BY <1>1, <1>2

LEMMA DequeueIs ==
  ASSUME TypeInv, NEW t \in Threads, Dequeue(t)
  PROVE  \E h, h2, e :
           /\ Moves(t, h, h2) /\ h = Idle /\ port # <<>> /\ e = Head(port) /\ e \in Entries
           /\ h2.s = e.slot /\ h2.on = e.slot /\ h2.id = NoId /\ h2.back = "idle"
           /\ \/ e.ok /\ h2.at = (IF e.kind = "send" THEN "sent" ELSE "handler") /\ h2.owed = 0
              \/ ~e.ok /\ h2.at = "dec" /\ h2.owed = 1
           /\ announced' \subseteq Ids \cup {NoId}
<1>0. port # <<>> BY DEF Dequeue
<1>1. PICK h : h = th[t] OBVIOUS
<1>2. h \in Contexts /\ h = Idle
  BY <1>1, RecordsAre DEF Dequeue, Placed
<1>3. PICK e : e = Head(port) /\ e \in Entries
  BY EntryFirst DEF Dequeue
<1>4. e.slot \in Slots
  BY <1>3 DEF Entries
<1>5. session[e.slot].id \in Ids \cup {NoId} /\ announced \subseteq Ids \cup {NoId}
  BY <1>4, SessionsAre DEF TypeInv, ClientTypes, SessionsSet
<1>6. CASE /\ e.ok
           /\ th' = [th EXCEPT ![t].at = IF e.kind = "send" THEN "sent" ELSE "handler",
                               ![t].s = e.slot, ![t].on = e.slot]
           /\ announced' = IF e.kind # "connect" THEN announced
                           ELSE announced \cup {session[e.slot].id}
  <2>1. PICK l \in Labels : l = IF e.kind = "send" THEN "sent" ELSE "handler"
    BY DEF Labels
  <2>2. PICK h2 : h2 = [h EXCEPT !.at = l, !.s = e.slot, !.on = e.slot] OBVIOUS
  <2>3. h2 \in Contexts /\ h2.at = l /\ h2.s = e.slot /\ h2.on = e.slot /\ h2.id = NoId
        /\ h2.back = "idle" /\ h2.owed = 0
    BY <1>2, <1>4, <2>1, <2>2, IdleIs DEF Contexts
  <2>4. th' = [th EXCEPT ![t] = h2]
    BY <1>1, <1>6, <2>1, <2>2
  <2>5. announced' \subseteq Ids \cup {NoId} BY <1>5, <1>6
  <2>6. Moves(t, h, h2) BY <1>1, <2>3, <2>4 DEF Moves
  <2>7. QED BY <1>0, <1>2, <1>3, <1>6, <2>1, <2>3, <2>5, <2>6
<1>7. CASE /\ ~e.ok /\ announced' = announced
           /\ th' = [[th EXCEPT ![t].at = "dec", ![t].s = e.slot, ![t].on = e.slot]
                       EXCEPT ![t].owed = 1]
  <2>1. PICK y : y = [h EXCEPT !.at = "dec", !.s = e.slot, !.on = e.slot] OBVIOUS
  <2>2. y \in Contexts /\ y.at = "dec" /\ y.s = e.slot /\ y.on = e.slot /\ y.id = NoId
        /\ y.back = "idle"
    BY <1>2, <1>4, <2>1, IdleIs DEF Contexts, Labels
  <2>3. PICK h2 : h2 = [y EXCEPT !.owed = 1] OBVIOUS
  <2>4. h2 \in Contexts /\ h2.at = "dec" /\ h2.s = e.slot /\ h2.on = e.slot /\ h2.id = NoId
        /\ h2.back = "idle" /\ h2.owed = 1
    BY <2>2, <2>3 DEF Contexts
  <2>5. th' = [th EXCEPT ![t] = h2]
    BY <1>1, <1>7, <2>1, <2>3
  <2>6. announced' \subseteq Ids \cup {NoId} BY <1>5, <1>7
  <2>7. Moves(t, h, h2) BY <1>1, <2>4, <2>5 DEF Moves
  <2>8. QED BY <1>0, <1>2, <1>3, <1>7, <2>4, <2>6, <2>7
<1>8. QED BY <1>3, <1>6, <1>7 DEF Dequeue

LEMMA AtWork ==
  ASSUME TypeInv, NEW t \in Threads, th[t].at # "idle"
  PROVE  th[t].s \in Slots /\ session[th[t].s] \in SessionsSet
BY RecordsAre, SessionsAre DEF Placed

LEMMA PostRecvIs ==
  ASSUME TypeInv, NEW t \in Threads, PostRecv(t)
  PROVE  \E h, h2 : /\ Moves(t, h, h2) /\ h.at = "handler"
                    /\ Goes(h, h2, "recvPost") \/ Owes(h, h2, 1)
<1>1. CASE Goto(t, "recvPost")
  BY <1>1, GotoIs DEF Labels, PostRecv, Moves
<1>2. CASE Owe(t, 1)
  BY <1>2, OweIs DEF PostRecv, Moves
<1>3. QED BY <1>1, <1>2 DEF PostRecv

LEMMA WSARecvIs ==
  ASSUME TypeInv, NEW t \in Threads, WSARecv(t)
  PROVE  \E h, h2, x, x2, g :
           /\ Moves(t, h, h2) /\ h.at = "recvPost" /\ SessMoves(h.s, x, x2) /\ g = x.socket
           /\ Is(x2, x.id, x.socket, LongInc(x.count), x.sending, x.connected, x.queued)
           /\ \/ g \in Ids /\ io' = [io EXCEPT ![g]["recv"] = @ + 1] /\ Owes(h, h2, 1)
              \/ io' = io /\ Owes(h, h2, 2)
<1>1. th[t].at = "recvPost" /\ th[t].s \in Slots /\ session[th[t].s] \in SessionsSet
  BY AtWork DEF WSARecv
<1>2. PICK s : s = th[t].s OBVIOUS
<1>3. PICK n \in Int : n = LongInc(session[s].count)
  BY <1>1, <1>2, LongTypes DEF SessionsSet
<1>4. session' = [session EXCEPT ![s].count = n]
  BY <1>2, <1>3 DEF WSARecv
<1>5. PICK x, x2 : /\ SessMoves(s, x, x2)
                   /\ Is(x2, x.id, x.socket, n, x.sending, x.connected, x.queued)
  BY <1>1, <1>2, <1>4, SessionCounts
<1>6. PICK g : g = x.socket OBVIOUS
<1>7. x = session[s] /\ g \in Ids \cup {NoId} BY <1>5, <1>6 DEF SessMoves, SessionsSet
<1>8. CASE Registers(g) /\ io' = [io EXCEPT ![g]["recv"] = @ + 1] /\ Owe(t, 1)
  <2>1. PICK h, h2 : Moves(t, h, h2) /\ Owes(h, h2, 1) BY <1>8, OweIs
  <2>2. g \in Ids BY <1>7, <1>8 DEF Registers
  <2>3. h = th[t] BY <2>1 DEF Moves
  <2>4. QED BY <1>1, <1>2, <1>3, <1>5, <1>6, <1>7, <1>8, <2>1, <2>2, <2>3
<1>9. CASE Owe(t, 2) /\ io' = io
  <2>1. PICK h, h2 : Moves(t, h, h2) /\ Owes(h, h2, 2) BY <1>9, OweIs
  <2>3. h = th[t] BY <2>1 DEF Moves
  <2>4. QED BY <1>1, <1>2, <1>3, <1>5, <1>6, <1>7, <1>9, <2>1, <2>3
<1>10. QED BY <1>2, <1>6, <1>7, <1>8, <1>9 DEF WSARecv

LEMMA ProcessSendIs ==
  ASSUME TypeInv, NEW t \in Threads, ProcessSend(t)
  PROVE  \E h, h2, x, x2 :
           /\ Moves(t, h, h2) /\ h.at = "sent" /\ SessMoves(h.s, x, x2)
           /\ Is(x2, x.id, x.socket, x.count, FALSE, x.connected, x.queued)
           /\ Goes(h, h2, "sendCheck")
<1>1. th[t].at = "sent" /\ th[t].s \in Slots
  BY AtWork DEF ProcessSend
<1>2. PICK s : s = th[t].s OBVIOUS
<1>3. session' = [session EXCEPT ![s].sending = FALSE] BY <1>2 DEF ProcessSend
<1>4. PICK x, x2 : /\ SessMoves(s, x, x2)
                   /\ Is(x2, x.id, x.socket, x.count, FALSE, x.connected, x.queued)
  BY <1>1, <1>2, <1>3, SessionFlag
<1>5. PICK h, h2 : Moves(t, h, h2) /\ Goes(h, h2, "sendCheck")
  BY GotoIs DEF ProcessSend, Labels
<1>6. h = th[t] BY <1>5 DEF Moves
<1>7. QED BY <1>1, <1>2, <1>4, <1>5, <1>6

LEMMA PostSendIs ==
  ASSUME TypeInv, NEW t \in Threads, PostSend(t)
  PROVE  \E h, h2 : /\ Moves(t, h, h2) /\ h.at = "sendCheck"
                    /\ Goes(h, h2, "sendClaim") \/ Owes(h, h2, 1)
<1>1. CASE Goto(t, "sendClaim")
  BY <1>1, GotoIs DEF Labels, PostSend, Moves
<1>2. CASE Owe(t, 1)
  BY <1>2, OweIs DEF PostSend, Moves
<1>3. QED BY <1>1, <1>2 DEF PostSend

LEMMA ClaimIs ==
  ASSUME TypeInv, NEW t \in Threads, Claim(t)
  PROVE  \E h, h2, x, x2 :
           /\ Moves(t, h, h2) /\ h.at = "sendClaim" /\ SessMoves(h.s, x, x2)
           /\ Is(x2, x.id, x.socket, x.count, TRUE, x.connected, x.queued)
           /\ IF x.sending THEN Owes(h, h2, 1) ELSE Goes(h, h2, "sendPost")
<1>1. th[t].at = "sendClaim" /\ th[t].s \in Slots
  BY AtWork DEF Claim
<1>2. PICK s : s = th[t].s OBVIOUS
<1>3. session' = [session EXCEPT ![s].sending = TRUE] BY <1>2 DEF Claim
<1>4. PICK x, x2 : /\ SessMoves(s, x, x2)
                   /\ Is(x2, x.id, x.socket, x.count, TRUE, x.connected, x.queued)
  BY <1>1, <1>2, <1>3, SessionFlag
<1>5. x = session[s] BY <1>4 DEF SessMoves
<1>6. CASE x.sending
  <2>1. Owe(t, 1) BY <1>2, <1>5, <1>6 DEF Claim
  <2>2. PICK h, h2 : Moves(t, h, h2) /\ Owes(h, h2, 1) BY <2>1, OweIs
  <2>3. h = th[t] BY <2>2 DEF Moves
  <2>4. QED BY <1>1, <1>2, <1>4, <1>6, <2>2, <2>3
<1>7. CASE ~x.sending
  <2>1. Goto(t, "sendPost") BY <1>2, <1>5, <1>7 DEF Claim
  <2>2. PICK h, h2 : Moves(t, h, h2) /\ Goes(h, h2, "sendPost") BY <2>1, GotoIs DEF Labels
  <2>3. h = th[t] BY <2>2 DEF Moves
  <2>4. QED BY <1>1, <1>2, <1>4, <1>7, <2>2, <2>3
<1>8. QED BY <1>6, <1>7

LEMMA WSASendIs ==
  ASSUME TypeInv, NEW t \in Threads, WSASend(t)
  PROVE  \E h, h2, x, x2, g :
           /\ Moves(t, h, h2) /\ h.at = "sendPost" /\ SessMoves(h.s, x, x2) /\ g = x.socket
           /\ \/ /\ Is(x2, x.id, x.socket, LongInc(x.count), x.sending, x.connected, FALSE)
                 /\ \/ g \in Ids /\ io' = [io EXCEPT ![g]["send"] = @ + 1] /\ Owes(h, h2, 1)
                    \/ io' = io /\ Owes(h, h2, 2)
              \/ io' = io /\ Goes(h, h2, "sendReset") /\ x2 = x
<1>1. th[t].at = "sendPost" /\ th[t].s \in Slots /\ session[th[t].s] \in SessionsSet
  BY AtWork DEF WSASend
<1>2. PICK s : s = th[t].s OBVIOUS
<1>3. PICK x : x = session[s] OBVIOUS
<1>4. PICK g : g = x.socket OBVIOUS
<1>5. x \in SessionsSet /\ g \in Ids \cup {NoId} BY <1>1, <1>2, <1>3, <1>4 DEF SessionsSet
<1>6. CASE x.queued
  <2>1. PICK n \in Int : n = LongInc(x.count)
    BY <1>5, LongTypes DEF SessionsSet
  <2>2. PICK x2 : x2 = [x EXCEPT !.queued = FALSE, !.count = n] OBVIOUS
  <2>3. x2 \in SessionsSet /\ Is(x2, x.id, x.socket, n, x.sending, x.connected, FALSE)
    BY <1>5, <2>1, <2>2 DEF SessionsSet, Is
  <2>4. session' = [session EXCEPT ![s] = x2]
    BY <1>2, <1>3, <1>6, <2>1, <2>2 DEF WSASend
  <2>5. SessMoves(s, x, x2) BY <1>1, <1>2, <1>3, <1>5, <2>3, <2>4 DEF SessMoves
  <2>6. CASE Registers(g) /\ io' = [io EXCEPT ![g]["send"] = @ + 1] /\ Owe(t, 1)
    <3>1. PICK h, h2 : Moves(t, h, h2) /\ Owes(h, h2, 1) BY <2>6, OweIs
    <3>2. g \in Ids BY <1>5, <2>6 DEF Registers
    <3>3. h = th[t] BY <3>1 DEF Moves
    <3>4. QED BY <1>1, <1>2, <1>4, <2>1, <2>3, <2>5, <2>6, <3>1, <3>2, <3>3
  <2>7. CASE Owe(t, 2) /\ io' = io
    <3>1. PICK h, h2 : Moves(t, h, h2) /\ Owes(h, h2, 2) BY <2>7, OweIs
    <3>3. h = th[t] BY <3>1 DEF Moves
    <3>4. QED BY <1>1, <1>2, <1>4, <2>1, <2>3, <2>5, <2>7, <3>1, <3>3
  <2>8. QED BY <1>2, <1>3, <1>4, <1>6, <2>6, <2>7 DEF WSASend
<1>7. CASE ~x.queued
  <2>1. Goto(t, "sendReset") /\ session' = session /\ io' = io
    BY <1>2, <1>3, <1>7 DEF WSASend
  <2>2. PICK h, h2 : Moves(t, h, h2) /\ Goes(h, h2, "sendReset") BY <2>1, GotoIs DEF Labels
  <2>3. h = th[t] BY <2>2 DEF Moves
  <2>4. SessMoves(s, x, x) BY <1>1, <1>2, <1>3, <2>1, SessionSame DEF SessMoves
  <2>5. QED BY <1>1, <1>2, <1>4, <2>1, <2>2, <2>3, <2>4
<1>8. QED BY <1>6, <1>7

LEMMA SendResetIs ==
  ASSUME TypeInv, NEW t \in Threads, SendReset(t)
  PROVE  \E h, h2, x, x2 :
           /\ Moves(t, h, h2) /\ h.at = "sendReset" /\ SessMoves(h.s, x, x2)
           /\ Is(x2, x.id, x.socket, x.count, FALSE, x.connected, x.queued)
           /\ Owes(h, h2, 1)
<1>1. th[t].at = "sendReset" /\ th[t].s \in Slots
  BY AtWork DEF SendReset
<1>2. PICK s : s = th[t].s OBVIOUS
<1>3. session' = [session EXCEPT ![s].sending = FALSE] BY <1>2 DEF SendReset
<1>4. PICK x, x2 : /\ SessMoves(s, x, x2)
                   /\ Is(x2, x.id, x.socket, x.count, FALSE, x.connected, x.queued)
  BY <1>1, <1>2, <1>3, SessionFlag
<1>5. PICK h, h2 : Moves(t, h, h2) /\ Owes(h, h2, 1)
  BY OweIs DEF SendReset
<1>6. h = th[t] BY <1>5 DEF Moves
<1>7. QED BY <1>1, <1>2, <1>4, <1>5, <1>6

(* Calls.                                                                   *)
Acquires(h, h2, g) ==
  /\ h2.at = "acquire" /\ h2.s = SlotOf(g) /\ h2.id = g /\ h2.on = h.on
  /\ h2.owed = h.owed /\ h2.back = h.at

LEMMA SlotOfId ==
  ASSUME NEW g \in Ids
  PROVE  SlotOf(g) \in Slots /\ g[2] \in 1 .. MaxConnects
BY DEF Ids, SlotOf

LEMMA StartCallIs ==
  ASSUME TypeInv, NEW t \in Threads, StartCall(t), th[t].at \in {"idle", "handler"},
         t = Caller \/ th[t].at = "handler"
  PROVE  \E h, h2, g :
           /\ Moves(t, h, h2) /\ g \in Ids /\ Acquires(h, h2, g)
           /\ t # Caller => g = session[h.s].id
<1>1. PICK g : /\ g \in IF t = Caller THEN announced \ {NoId} ELSE {session[th[t].s].id} \ {NoId}
               /\ th' = [th EXCEPT ![t].at = "acquire", ![t].s = SlotOf(g), ![t].id = g,
                                   ![t].back = th[t].at]
  BY DEF StartCall
<1>2. PICK h : h = th[t] OBVIOUS
<1>3. h \in Contexts BY <1>2, RecordsAre
<1>4. g \in Ids
  <2>1. CASE t = Caller BY <1>1, <2>1 DEF TypeInv, ClientTypes
  <2>2. CASE t # Caller
    <3>1. g = session[h.s].id /\ g # NoId BY <1>1, <1>2, <2>2
    <3>2. CASE h.s \in Slots
      BY <3>1, <3>2, SessionsAre DEF SessionsSet
    <3>3. h.s \in Slots
      BY <1>2, <2>2, RecordsAre DEF Placed
    <3>4. QED BY <3>2, <3>3
  <2>3. QED BY <2>1, <2>2
<1>5. SlotOf(g) \in Slots BY <1>4, SlotOfId
<1>6. PICK s : s = SlotOf(g) OBVIOUS
<1>7. PICK b : b = h.at /\ b \in {"idle", "handler"} BY <1>2
<1>8. PICK h2 : h2 = [h EXCEPT !.at = "acquire", !.s = s, !.id = g, !.back = b] OBVIOUS
<1>9. PICK y : y = [h EXCEPT !.at = "acquire", !.s = s] OBVIOUS
<1>10. y \in Contexts /\ y.at = "acquire" /\ y.s = s /\ y.on = h.on /\ y.owed = h.owed
  BY <1>3, <1>5, <1>6, <1>9 DEF Contexts, Labels
<1>11. h2 = [y EXCEPT !.id = g, !.back = b]
  BY <1>8, <1>9
<1>12. h2 \in Contexts /\ h2.at = "acquire" /\ h2.s = s /\ h2.on = h.on /\ h2.owed = h.owed
       /\ h2.id = g /\ h2.back = b
  BY <1>4, <1>7, <1>10, <1>11 DEF Contexts
<1>13. th' = [th EXCEPT ![t] = h2]
  BY <1>1, <1>2, <1>6, <1>7, <1>8
<1>14. Moves(t, h, h2) /\ Acquires(h, h2, g)
  BY <1>2, <1>6, <1>7, <1>12, <1>13 DEF Moves, Acquires
<1>15. t # Caller => g = session[h.s].id BY <1>1, <1>2
<1>16. QED BY <1>4, <1>14, <1>15

LEMMA TryAcquireIs ==
  ASSUME TypeInv, NEW t \in Threads, TryAcquireSession(t)
  PROVE  \E h, h2 : /\ Moves(t, h, h2) /\ h.at = "acquire"
                    /\ Goes(h, h2, "acquireRef") \/ Resumes(h, h2)
<1>1. CASE Goto(t, "acquireRef")
  BY <1>1, GotoIs DEF Labels, TryAcquireSession, Moves
<1>2. CASE th' = Resumed(t)
  BY <1>2, ResumedIs DEF TryAcquireSession, Moves
<1>3. QED BY <1>1, <1>2 DEF TryAcquireSession, Goto

LEMMA AcquireRefIs ==
  ASSUME TypeInv, NEW t \in Threads, AcquireRef(t)
  PROVE  \E h, h2, x, x2 :
           /\ Moves(t, h, h2) /\ h.at = "acquireRef" /\ SessMoves(h.s, x, x2)
           /\ Is(x2, x.id, x.socket, LongInc(x.count), x.sending, x.connected, x.queued)
           /\ IF LongInc(x.count) < 0 THEN Owes(h, h2, 1) ELSE Goes(h, h2, "use")
<1>1. th[t].at = "acquireRef" /\ th[t].s \in Slots /\ session[th[t].s] \in SessionsSet
  BY AtWork DEF AcquireRef
<1>2. PICK s : s = th[t].s OBVIOUS
<1>3. PICK n \in Int : n = LongInc(session[s].count)
  BY <1>1, <1>2, LongTypes DEF SessionsSet
<1>4. session' = [session EXCEPT ![s].count = n]
  BY <1>2, <1>3 DEF AcquireRef
<1>5. PICK x, x2 : /\ SessMoves(s, x, x2)
                   /\ Is(x2, x.id, x.socket, n, x.sending, x.connected, x.queued)
  BY <1>1, <1>2, <1>4, SessionCounts
<1>6. x = session[s] BY <1>5 DEF SessMoves
<1>7. CASE n < 0
  <2>1. Owe(t, 1) BY <1>2, <1>3, <1>7 DEF AcquireRef
  <2>2. PICK h, h2 : Moves(t, h, h2) /\ Owes(h, h2, 1) BY <2>1, OweIs
  <2>3. h = th[t] BY <2>2 DEF Moves
  <2>4. QED BY <1>1, <1>2, <1>3, <1>5, <1>6, <1>7, <2>2, <2>3
<1>8. CASE ~ (n < 0)
  <2>1. Goto(t, "use") BY <1>2, <1>3, <1>8 DEF AcquireRef
  <2>2. PICK h, h2 : Moves(t, h, h2) /\ Goes(h, h2, "use") BY <2>1, GotoIs DEF Labels
  <2>3. h = th[t] BY <2>2 DEF Moves
  <2>4. QED BY <1>1, <1>2, <1>3, <1>5, <1>6, <1>8, <2>2, <2>3
<1>9. QED BY <1>7, <1>8

LEMMA SendPacketIs ==
  ASSUME TypeInv, NEW t \in Threads, SendPacket(t)
  PROVE  \E h, h2, x, x2 :
           /\ Moves(t, h, h2) /\ h.at = "use" /\ SessMoves(h.s, x, x2)
           /\ Is(x2, x.id, x.socket, x.count, x.sending, x.connected, TRUE)
           /\ Goes(h, h2, "sendCheck")
<1>1. th[t].at = "use" /\ th[t].s \in Slots /\ session[th[t].s] \in SessionsSet
  BY AtWork DEF SendPacket
<1>2. PICK s, x : s = th[t].s /\ x = session[s] OBVIOUS
<1>3. PICK x2 : x2 = [x EXCEPT !.queued = TRUE] OBVIOUS
<1>4. x2 \in SessionsSet /\ Is(x2, x.id, x.socket, x.count, x.sending, x.connected, TRUE)
  BY <1>1, <1>2, <1>3 DEF SessionsSet, Is
<1>5. session' = [session EXCEPT ![s] = x2] BY <1>2, <1>3 DEF SendPacket
<1>6. PICK h, h2 : Moves(t, h, h2) /\ Goes(h, h2, "sendCheck")
  BY GotoIs DEF SendPacket, Labels
<1>7. h = th[t] BY <1>6 DEF Moves
<1>8. QED BY <1>1, <1>2, <1>4, <1>5, <1>6, <1>7 DEF SessMoves

LEMMA DisconnectIs ==
  ASSUME TypeInv, NEW t \in Threads, Disconnect(t)
  PROVE  \E h, h2, x, x2 :
           /\ Moves(t, h, h2) /\ h.at = "use" /\ SessMoves(h.s, x, x2)
           /\ Is(x2, x.id, x.socket, x.count, x.sending, FALSE, x.queued)
           /\ Goes(h, h2, "cancel")
<1>1. th[t].at = "use" /\ th[t].s \in Slots /\ session[th[t].s] \in SessionsSet
  BY AtWork DEF Disconnect
<1>2. PICK s, x : s = th[t].s /\ x = session[s] OBVIOUS
<1>3. PICK x2 : x2 = [x EXCEPT !.connected = FALSE] OBVIOUS
<1>4. x2 \in SessionsSet /\ Is(x2, x.id, x.socket, x.count, x.sending, FALSE, x.queued)
  BY <1>1, <1>2, <1>3 DEF SessionsSet, Is
<1>5. session' = [session EXCEPT ![s] = x2] BY <1>2, <1>3 DEF Disconnect
<1>6. PICK h, h2 : Moves(t, h, h2) /\ Goes(h, h2, "cancel")
  BY GotoIs DEF Disconnect, Labels
<1>7. h = th[t] BY <1>6 DEF Moves
<1>8. QED BY <1>1, <1>2, <1>4, <1>5, <1>6, <1>7 DEF SessMoves

LEMMA CancelIoIs ==
  ASSUME TypeInv, NEW t \in Threads, CancelIo(t)
  PROVE  \E h, h2, x, g :
           /\ Moves(t, h, h2) /\ h.at = "cancel" /\ SessMoves(h.s, x, x) /\ g = x.socket
           /\ \/ g = NoId /\ UNCHANGED <<port, io>>
              \/ g \in Ids /\ AbortIo(g)
           /\ Owes(h, h2, 1)
<1>1. th[t].at = "cancel" /\ th[t].s \in Slots /\ session[th[t].s] \in SessionsSet
  BY AtWork DEF CancelIo
<1>2. PICK h, h2 : Moves(t, h, h2) /\ Owes(h, h2, 1)
  BY OweIs DEF CancelIo
<1>3. h = th[t] BY <1>2 DEF Moves
<1>4. PICK x : SessMoves(h.s, x, x)
  BY <1>1, <1>3, SessionSame DEF CancelIo
<1>5. x = session[h.s] /\ x.socket \in Ids \cup {NoId}
  BY <1>4 DEF SessMoves, SessionsSet
<1>6. CASE x.socket = NoId
  <2>1. UNCHANGED <<port, io>> BY <1>3, <1>5, <1>6 DEF CancelIo
  <2>2. QED BY <1>1, <1>2, <1>3, <1>4, <1>6, <2>1
<1>7. CASE x.socket # NoId
  <2>1. AbortIo(x.socket) BY <1>3, <1>5, <1>7 DEF CancelIo
  <2>2. QED BY <1>1, <1>2, <1>3, <1>4, <1>5, <1>7, <2>1
<1>8. QED BY <1>6, <1>7

-----------------------------------------------------------------------------
(* DecreaseIoCount and what follows.                                        *)
LEMMA DecreaseIs ==
  ASSUME TypeInv, NEW t \in Threads, DecreaseIoCount(t)
  PROVE  \E h, h2, x, x2 :
           /\ Moves(t, h, h2) /\ h.at = "dec" /\ SessMoves(h.s, x, x2)
           /\ Is(x2, x.id, x.socket, LongDec(x.count), x.sending, x.connected, x.queued)
           /\ IF LongDec(x.count) = 0 THEN Goes(h, h2, "delete") ELSE Returns(h, h2)
<1>1. th[t].at = "dec" /\ th[t].s \in Slots /\ session[th[t].s] \in SessionsSet
  BY AtWork DEF DecreaseIoCount
<1>2. PICK s : s = th[t].s OBVIOUS
<1>3. PICK n \in Int : n = LongDec(session[s].count)
  BY <1>1, <1>2, LongTypes DEF SessionsSet
<1>4. session' = [session EXCEPT ![s].count = n]
  BY <1>2, <1>3 DEF DecreaseIoCount
<1>5. PICK x, x2 : /\ SessMoves(s, x, x2)
                   /\ Is(x2, x.id, x.socket, n, x.sending, x.connected, x.queued)
  BY <1>1, <1>2, <1>4, SessionCounts
<1>6. x = session[s] BY <1>5 DEF SessMoves
<1>7. CASE n = 0
  <2>1. Goto(t, "delete") BY <1>2, <1>3, <1>7 DEF DecreaseIoCount
  <2>2. PICK h, h2 : Moves(t, h, h2) /\ Goes(h, h2, "delete") BY <2>1, GotoIs DEF Labels
  <2>3. h = th[t] BY <2>2 DEF Moves
  <2>4. QED BY <1>1, <1>2, <1>3, <1>5, <1>6, <1>7, <2>2, <2>3
<1>8. CASE n # 0
  <2>1. Return(t) BY <1>2, <1>3, <1>8 DEF DecreaseIoCount
  <2>2. PICK h, h2 : Moves(t, h, h2) /\ Returns(h, h2) BY <2>1, ReturnIs
  <2>3. h = th[t] BY <2>2 DEF Moves
  <2>4. QED BY <1>1, <1>2, <1>3, <1>5, <1>6, <1>8, <2>2, <2>3
<1>9. QED BY <1>7, <1>8

Names(h, h2, l, g) ==
  h2.at = l /\ h2.s = h.s /\ h2.on = h.on /\ h2.id = g /\ h2.owed = h.owed /\ h2.back = h.back

LEMMA DeleteSessionIs ==
  ASSUME TypeInv, NEW t \in Threads, DeleteSession(t)
  PROVE  \E h, h2, x :
           /\ Moves(t, h, h2) /\ h.at = "delete" /\ SessMoves(h.s, x, x)
           /\ IF x.id = NoId THEN Returns(h, h2)
              ELSE x.id \in Ids /\ Names(h, h2, "deleteCas", x.id)
<1>1. th[t].at = "delete" /\ th[t].s \in Slots /\ session[th[t].s] \in SessionsSet
      /\ th[t] \in Contexts
  BY AtWork, RecordsAre DEF DeleteSession
<1>2. PICK h : h = th[t] OBVIOUS
<1>3. PICK x : SessMoves(h.s, x, x)
  BY <1>1, <1>2, SessionSame DEF DeleteSession
<1>4. x = session[h.s] /\ x.id \in Ids \cup {NoId}
  BY <1>3 DEF SessMoves, SessionsSet
<1>5. CASE x.id = NoId
  <2>1. Return(t) BY <1>2, <1>4, <1>5 DEF DeleteSession
  <2>2. PICK h0, h2 : Moves(t, h0, h2) /\ Returns(h0, h2) BY <2>1, ReturnIs
  <2>3. h0 = h BY <1>2, <2>2 DEF Moves
  <2>4. QED BY <1>1, <1>2, <1>3, <1>5, <2>2, <2>3
<1>6. CASE x.id # NoId
  <2>1. PICK g \in Ids : g = x.id BY <1>4, <1>6
  <2>2. PICK h2 : h2 = [h EXCEPT !.at = "deleteCas", !.id = g] OBVIOUS
  <2>3. h2 \in Contexts /\ Names(h, h2, "deleteCas", g)
    BY <1>1, <1>2, <2>2 DEF Contexts, Names, Labels
  <2>4. th' = [th EXCEPT ![t] = h2]
    BY <1>2, <1>4, <1>6, <2>1, <2>2 DEF DeleteSession
  <2>5. QED BY <1>1, <1>2, <1>3, <1>6, <2>1, <2>3, <2>4 DEF Moves
<1>7. QED BY <1>5, <1>6

LEMMA DeleteCasIs ==
  ASSUME TypeInv, NEW t \in Threads, DeleteCas(t)
  PROVE  \E h, h2, x, x2 :
           /\ Moves(t, h, h2) /\ h.at = "deleteCas" /\ SessMoves(h.s, x, x2)
           /\ IF x.count = 0
              THEN /\ Is(x2, x.id, x.socket, DeleteFlag, x.sending, x.connected, x.queued)
                   /\ Goes(h, h2, "teardown")
              ELSE x2 = x /\ Returns(h, h2)
<1>1. th[t].at = "deleteCas" /\ th[t].s \in Slots
  BY AtWork DEF DeleteCas
<1>2. PICK s : s = th[t].s OBVIOUS
<1>3. CASE session[s].count = 0
  <2>1. session' = [session EXCEPT ![s].count = DeleteFlag] /\ Goto(t, "teardown")
    BY <1>2, <1>3 DEF DeleteCas
  <2>2. PICK n \in Int : n = DeleteFlag BY LongTypes
  <2>3. PICK x, x2 : /\ SessMoves(s, x, x2)
                     /\ Is(x2, x.id, x.socket, n, x.sending, x.connected, x.queued)
    BY <1>1, <1>2, <2>1, <2>2, SessionCounts
  <2>4. x = session[s] BY <2>3 DEF SessMoves
  <2>5. PICK h, h2 : Moves(t, h, h2) /\ Goes(h, h2, "teardown") BY <2>1, GotoIs DEF Labels
  <2>6. h = th[t] BY <2>5 DEF Moves
  <2>7. QED BY <1>1, <1>2, <1>3, <2>2, <2>3, <2>4, <2>5, <2>6
<1>4. CASE session[s].count # 0
  <2>1. session' = session /\ Return(t)
    BY <1>2, <1>4 DEF DeleteCas
  <2>2. PICK x : SessMoves(s, x, x) BY <1>1, <1>2, <2>1, SessionSame
  <2>3. x = session[s] BY <2>2 DEF SessMoves
  <2>4. PICK h, h2 : Moves(t, h, h2) /\ Returns(h, h2) BY <2>1, ReturnIs
  <2>5. h = th[t] BY <2>4 DEF Moves
  <2>6. QED BY <1>1, <1>2, <1>4, <2>2, <2>3, <2>4, <2>5
<1>5. QED BY <1>3, <1>4

LEMMA TeardownIs ==
  ASSUME TypeInv, NEW t \in Threads, Teardown(t)
  PROVE  \E h, h2, x, g :
           /\ Moves(t, h, h2) /\ h.at = "teardown" /\ SessMoves(h.s, x, x) /\ g = x.socket
           /\ h.id \in Ids /\ gone' = [gone EXCEPT ![h.id] = @ + 1]
           /\ \/ g = NoId /\ UNCHANGED <<port, sockets, io>>
              \/ g \in Ids /\ sockets' = [sockets EXCEPT ![g] = "closed"] /\ AbortIo(g)
           /\ Goes(h, h2, "clear")
<1>1. th[t].at = "teardown" /\ th[t].s \in Slots
  BY AtWork DEF Teardown
<1>2. PICK h, h2 : Moves(t, h, h2) /\ Goes(h, h2, "clear")
  BY GotoIs DEF Teardown, Labels
<1>3. h = th[t] /\ h.id \in Ids BY <1>1, <1>2, RecordsAre DEF Moves, Placed
<1>4. PICK x : SessMoves(h.s, x, x)
  BY <1>1, <1>3, SessionSame DEF Teardown
<1>5. x = session[h.s] /\ x.socket \in Ids \cup {NoId}
  BY <1>4 DEF SessMoves, SessionsSet
<1>6. gone' = [gone EXCEPT ![h.id] = @ + 1] BY <1>3 DEF Teardown
<1>7. CASE x.socket = NoId
  <2>1. UNCHANGED <<port, sockets, io>> BY <1>3, <1>5, <1>7 DEF Teardown
  <2>2. QED BY <1>1, <1>2, <1>3, <1>4, <1>6, <1>7, <2>1
<1>8. CASE x.socket # NoId
  <2>1. sockets' = [sockets EXCEPT ![x.socket] = "closed"] /\ AbortIo(x.socket)
    BY <1>3, <1>5, <1>8 DEF Teardown
  <2>2. QED BY <1>1, <1>2, <1>3, <1>4, <1>5, <1>6, <1>8, <2>1
<1>9. QED BY <1>7, <1>8

LEMMA ClearIs ==
  ASSUME TypeInv, NEW t \in Threads, Clear(t)
  PROVE  \E h, h2, x : /\ Moves(t, h, h2) /\ h.at = "clear" /\ SessMoves(h.s, x, Cleared)
                       /\ Goes(h, h2, "recycle")
<1>1. th[t].at = "clear" /\ th[t].s \in Slots /\ session[th[t].s] \in SessionsSet
  BY AtWork DEF Clear
<1>2. PICK h, h2 : Moves(t, h, h2) /\ Goes(h, h2, "recycle")
  BY GotoIs DEF Clear, Labels
<1>3. h = th[t] BY <1>2 DEF Moves
<1>4. SessMoves(h.s, session[h.s], Cleared)
  BY <1>1, <1>3, ClearedIs DEF SessMoves, Clear
<1>5. QED BY <1>1, <1>2, <1>3, <1>4

LEMMA RecycleIs ==
  ASSUME TypeInv, NEW t \in Threads, Recycle(t)
  PROVE  \E h, h2 : /\ Moves(t, h, h2) /\ h.at = "recycle" /\ h.s \in Slots
                    /\ indexStack' = Append(indexStack, h.s)
                    /\ sessionCount' = sessionCount - 1 /\ Returns(h, h2)
<1>1. th[t].at = "recycle" /\ th[t].s \in Slots
  BY AtWork DEF Recycle
<1>2. PICK h, h2 : Moves(t, h, h2) /\ Returns(h, h2)
  BY ReturnIs DEF Recycle
<1>3. h = th[t] BY <1>2 DEF Moves
<1>4. QED BY <1>1, <1>2, <1>3 DEF Recycle

-----------------------------------------------------------------------------
(* Types, whoever calls.                                                    *)
RestTypes ==
  /\ session \in [Slots -> SessionsSet] /\ indexStack \in Seq(Slots)
  /\ sessionCount \in Int /\ idGen \in 0 .. MaxConnects
  /\ port \in Seq(Entries) /\ sockets \in NetSet /\ io \in IoSet
  /\ announced \subseteq Ids \cup {NoId} /\ gone \in [Ids -> Nat]
  /\ mode \in Modes /\ msgs \in 0 .. MaxMsgs /\ calls \in 0 .. MaxCalls

ThreadTypes == th \in [Threads -> Contexts] /\ \A t \in Threads : Placed(th[t])

LEMMA TypeInvIs == TypeInv <=> RestTypes /\ ThreadTypes
BY DEF TypeInv, ClientTypes, RestTypes, ThreadTypes, SessionsSet, Entries, NetSet, IoSet, Contexts

LEMMA TypeInvNext == TypeInv' <=> RestTypes' /\ ThreadTypes'
BY DEF TypeInv, ClientTypes, RestTypes, ThreadTypes, SessionsSet, Entries, NetSet, IoSet, Contexts

LEMMA MovesTyped ==
  ASSUME TypeInv, NEW t \in Threads, NEW h, NEW h2, Moves(t, h, h2), Placed(h2)
  PROVE  ThreadTypes'
<1>1. ThreadTypes BY TypeInvIs
<1>2. QED BY <1>1 DEF ThreadTypes, Moves

LEMMA SessTyped ==
  ASSUME TypeInv, NEW s, NEW x, NEW x2, SessMoves(s, x, x2)
  PROVE  session' \in [Slots -> SessionsSet]
<1>1. RestTypes BY TypeInvIs
<1>2. QED BY <1>1 DEF RestTypes, SessMoves

LEMMA GoesPlaced ==
  ASSUME NEW h, NEW h2, NEW l, Placed(h), h.at # "idle", Goes(h, h2, l), l # "idle",
         l \notin Creates \cup {"deleteCas", "teardown"} \/ h.at \in Creates \cup {"deleteCas"},
         l # "handler", l \in Deletes \cup {"dec"} => h.at \in Deletes \cup {"dec"}
  PROVE  Placed(h2)
BY DEF Placed, Goes, Creates

LEMMA OwesPlaced ==
  ASSUME NEW h, NEW h2, NEW n, n \in 1 .. 2, Placed(h), h.at # "idle", Owes(h, h2, n)
  PROVE  Placed(h2)
BY DEF Placed, Owes, Creates

LEMMA ResumesPlaced ==
  ASSUME NEW h, NEW h2, Placed(h), Resumes(h, h2)
  PROVE  Placed(h2)
BY IdleIs DEF Placed, Resumes, Creates, Deletes

LEMMA ReturnsPlaced ==
  ASSUME NEW h, NEW h2, Placed(h), h.at \in Deletes \cup {"dec"}, Returns(h, h2)
  PROVE  Placed(h2)
<1>1. h.owed \in 1 .. 2 /\ h.at # "idle" BY DEF Placed, Deletes
<1>2. CASE h.owed > 1
  <2>1. PICK n : n = h.owed - 1 /\ n \in 1 .. 2 BY <1>1, <1>2
  <2>2. QED BY <1>1, <1>2, <2>1, OwesPlaced DEF Returns
<1>3. CASE ~ (h.owed > 1)
  BY <1>3, ResumesPlaced DEF Returns
<1>4. QED BY <1>2, <1>3

LEMMA CompletionTyped ==
  ASSUME NEW g \in Ids, NEW k \in Kinds, NEW ok \in BOOLEAN
  PROVE  Completion(SlotOf(g), k, ok) \in Entries
BY SlotOfId DEF Completion, Entries

(* What a closed or cancelled socket puts into the port.                    *)
Given(g, k) == [i \in 1 .. io[g][k] |-> Completion(SlotOf(g), k, FALSE)]

LEMMA GivenTyped ==
  ASSUME TypeInv, NEW g \in Ids, NEW k \in Kinds
  PROVE  Given(g, k) \in Seq(Entries) /\ Len(Given(g, k)) = io[g][k] /\ io[g][k] \in Nat
<1>1. PICK n \in Nat : n = io[g][k]
  BY DEF TypeInv, ClientTypes
<1>2. PICK e : e = Completion(SlotOf(g), k, FALSE) OBVIOUS
<1>3. e \in Entries
  BY <1>2, SlotOfId DEF Completion, Entries
<1>4. [i \in 1 .. n |-> e] \in Seq(Entries) /\ Len([i \in 1 .. n |-> e]) = n
  BY <1>3
<1>5. Given(g, k) = [i \in 1 .. n |-> e] BY <1>1, <1>2 DEF Given
<1>6. QED BY <1>1, <1>4, <1>5

LEMMA AbortIs ==
  ASSUME NEW g \in Ids, AbortIo(g)
  PROVE  /\ port' = port \o (Given(g, "connect") \o Given(g, "recv") \o Given(g, "send"))
         /\ io' = [io EXCEPT ![g] = [k \in Kinds |-> 0]]
BY DEF AbortIo, Aborted, Given

LEMMA AbortTyped ==
  ASSUME TypeInv, NEW g \in Ids, AbortIo(g)
  PROVE  port' \in Seq(Entries) /\ io' \in IoSet
<1>1. port \in Seq(Entries) /\ io \in IoSet BY TypeInvIs DEF RestTypes
<1>2. \A a, b \in Seq(Entries) : a \o b \in Seq(Entries) OBVIOUS
<1>3. /\ Given(g, "connect") \in Seq(Entries) /\ Given(g, "recv") \in Seq(Entries)
      /\ Given(g, "send") \in Seq(Entries)
  BY GivenTyped DEF Kinds
<1>4. port' \in Seq(Entries)
  <2>1. Given(g, "connect") \o Given(g, "recv") \o Given(g, "send") \in Seq(Entries)
    BY <1>2, <1>3
  <2>2. QED BY <1>1, <1>2, <2>1, AbortIs
<1>5. io' \in IoSet
  <2>1. PICK f : f = [k \in Kinds |-> 0] OBVIOUS
  <2>2. f \in [Kinds -> Nat] BY <2>1
  <2>3. io' = [io EXCEPT ![g] = f] BY <2>1, AbortIs
  <2>4. QED BY <1>1, <2>2, <2>3 DEF IoSet
<1>6. QED BY <1>4, <1>5

LEMMA InitTypes == ClientInit => TypeInv
<1> SUFFICES ASSUME ClientInit PROVE TypeInv OBVIOUS
<1>1. ThreadTypes
  BY IdleIs DEF ClientInit, ThreadTypes
<1>2. indexStack \in Seq(Slots)
  <2>1. PICK n \in Nat : n = Cardinality(Slots)
    BY ClientAssumption, FS_CardinalityType
  <2>2. \E f \in [1 .. n -> Slots] : IsInjective(f)
    <3>1. PICK f \in Bijection(1 .. n, Slots) : TRUE
      BY <2>1, ClientAssumption, FS_CardinalityType DEF ExistsBijection
    <3>2. f \in [1 .. n -> Slots] /\ IsInjective(f)
      BY <3>1 DEF Bijection, Injection, IsInjective
    <3>3. QED BY <3>2
  <2>3. indexStack \in [1 .. n -> Slots]
    BY <2>1, <2>2 DEF ClientInit, SetToSeq
  <2>4. QED BY <2>1, <2>3
<1>3. session \in [Slots -> SessionsSet] BY ClearedIs DEF ClientInit
<1>4. QED
  BY <1>1, <1>2, <1>3, TypeInvIs, ClientAssumption
  DEF ClientInit, RestTypes, NetSet, IoSet, Entries

LEMMA PlainTyped ==
  ASSUME TypeInv, NEW t \in Threads, NEW h, NEW h2, Moves(t, h, h2), Placed(h2),
         session' \in [Slots -> SessionsSet],
         UNCHANGED <<poolVars, kernelVars, histVars, boundVars>>
  PROVE  TypeInv'
<1>1. RestTypes BY TypeInvIs
<1>2. ThreadTypes' BY MovesTyped
<1>3. RestTypes' BY <1>1 DEF RestTypes, poolVars, kernelVars, histVars, boundVars
<1>4. QED BY <1>2, <1>3, TypeInvNext

LEMMA SessionStays ==
  ASSUME TypeInv, UNCHANGED session
  PROVE  session' \in [Slots -> SessionsSet]
BY TypeInvIs DEF RestTypes

LEMMA IoTyped ==
  ASSUME TypeInv, NEW g \in Ids, NEW k \in Kinds, NEW n \in Nat, io' = [io EXCEPT ![g][k] = n]
  PROVE  io' \in IoSet
<1>1. io \in IoSet BY TypeInvIs DEF RestTypes
<1>2. PICK f : f = [io[g] EXCEPT ![k] = n] OBVIOUS
<1>3. f \in [Kinds -> Nat] BY <1>1, <1>2 DEF IoSet
<1>4. io' = [io EXCEPT ![g] = f] BY <1>2
<1>5. QED BY <1>1, <1>3, <1>4 DEF IoSet

LEMMA IoRaised ==
  ASSUME TypeInv, NEW g \in Ids, NEW k \in Kinds, io' = [io EXCEPT ![g][k] = @ + 1]
  PROVE  io' \in IoSet
<1>1. io \in IoSet BY TypeInvIs DEF RestTypes
<1>2. PICK n : n = io[g][k] + 1 OBVIOUS
<1>3. n \in Nat BY <1>1, <1>2 DEF IoSet
<1>4. io' = [io EXCEPT ![g][k] = n] BY <1>2
<1>5. QED BY <1>3, <1>4, IoTyped

LEMMA PlacedBefore ==
  ASSUME TypeInv, NEW t \in Threads, NEW h, NEW h2, Moves(t, h, h2)
  PROVE  Placed(h)
BY RecordsAre DEF Moves

LEMMA ConnectTyped ==
  ASSUME TypeInv, NEW t \in Threads,
         CreateSession(t) \/ Activate(t) \/ RegisterPort(t) \/ ConnectEx(t)
  PROVE  TypeInv'
<1>1. RestTypes BY TypeInvIs
<1>2. CASE CreateSession(t)
  <2>1. PICK h, h2, s, g :
           /\ Moves(t, h, h2) /\ h = Idle /\ Created(h2, s, g) /\ s \in Slots /\ g \in Ids
           /\ s = Last(indexStack) /\ g = <<s, idGen + 1>> /\ idGen + 1 \in 1 .. MaxConnects
           /\ sockets' = [sockets EXCEPT ![g] = "made"]
    BY <1>2, CreateIs
  <2>2. Placed(h2) BY <2>1 DEF Placed, Created, Deletes
  <2>3. ThreadTypes' BY <2>1, <2>2, MovesTyped
  <2>4. sockets' \in NetSet BY <1>1, <2>1 DEF RestTypes, NetSet
  <2>5. indexStack' \in Seq(Slots)
    <3>1. \A Z : \A q \in Seq(Z) : q # <<>> => Front(q) \in Seq(Z) BY DEF Front
    <3>2. QED BY <1>1, <1>2, <3>1 DEF RestTypes, CreateSession
  <2>6. sessionCount' \in Int /\ idGen' \in 0 .. MaxConnects
    BY <1>1, <1>2, <2>1 DEF RestTypes, CreateSession
  <2>7. RestTypes'
    BY <1>1, <1>2, <2>4, <2>5, <2>6 DEF RestTypes, CreateSession, histVars, boundVars
  <2>8. QED BY <2>3, <2>7, TypeInvNext
<1>3. CASE Activate(t)
  <2>1. PICK h, h2, x, x2 : Moves(t, h, h2) /\ h.at = "activate" /\ Goes(h, h2, "register")
                            /\ SessMoves(h.s, x, x2)
    BY <1>3, ActivateIs
  <2>2. Placed(h) BY <2>1, PlacedBefore
  <2>3. Placed(h2) BY <2>1, <2>2, GoesPlaced DEF Creates, Deletes
  <2>4. session' \in [Slots -> SessionsSet] BY <2>1, SessTyped
  <2>5. QED BY <1>3, <2>1, <2>3, <2>4, PlainTyped DEF Activate
<1>4. CASE RegisterPort(t)
  <2>1. PICK h, h2 :
           /\ Moves(t, h, h2) /\ h.at = "register" /\ h.s \in Slots /\ h.id \in Ids
           /\ \/ Goes(h, h2, "connectEx") /\ UNCHANGED <<indexStack, sessionCount, sockets>>
              \/ /\ h2 = Idle /\ indexStack' = Append(indexStack, h.s)
                 /\ sessionCount' = sessionCount - 1
                 /\ sockets' = [sockets EXCEPT ![h.id] = "closed"]
    BY <1>4, RegisterIs
  <2>2. Placed(h) BY <2>1, PlacedBefore
  <2>3. Placed(h2) BY <2>1, <2>2, GoesPlaced, IdleIs DEF Creates, Deletes
  <2>4. ThreadTypes' BY <2>1, <2>3, MovesTyped
  <2>5. sockets' \in NetSet BY <1>1, <2>1 DEF RestTypes, NetSet
  <2>6. indexStack' \in Seq(Slots)
    <3>1. \A Z : \A q \in Seq(Z), s \in Z : Append(q, s) \in Seq(Z) OBVIOUS
    <3>2. indexStack \in Seq(Slots) BY <1>1 DEF RestTypes
    <3>3. Append(indexStack, h.s) \in Seq(Slots) BY <2>1, <3>1, <3>2
    <3>4. QED BY <2>1, <3>2, <3>3
  <2>7. sessionCount' \in Int BY <1>1, <2>1 DEF RestTypes
  <2>8. RestTypes'
    BY <1>1, <1>4, <2>5, <2>6, <2>7 DEF RestTypes, RegisterPort, histVars, boundVars
  <2>9. QED BY <2>4, <2>8, TypeInvNext
<1>5. CASE ConnectEx(t)
  <2>1. PICK h, h2, g :
           /\ Moves(t, h, h2) /\ h.at = "connectEx" /\ h.s \in Slots /\ g \in Ids /\ g = h.id
           /\ \/ /\ h2 = Idle /\ io' = [io EXCEPT ![g]["connect"] = 1]
                 /\ sockets' = [sockets EXCEPT ![g] = "connecting"]
              \/ /\ Owes(h, h2, 1) /\ io' = io
                 /\ sockets' = [sockets EXCEPT ![g] = IF sockets[g] = "made" THEN "refused" ELSE sockets[g]]
    BY <1>5, ConnectExIs
  <2>2. Placed(h) BY <2>1, PlacedBefore
  <2>3. Placed(h2) BY <2>1, <2>2, OwesPlaced, IdleIs
  <2>4. ThreadTypes' BY <2>1, <2>3, MovesTyped
  <2>5. sockets' \in NetSet BY <1>1, <2>1 DEF RestTypes, NetSet
  <2>6. io' \in IoSet BY <1>1, <2>1, IoTyped DEF RestTypes, Kinds
  <2>7. RestTypes'
    BY <1>1, <1>5, <2>5, <2>6 DEF RestTypes, ConnectEx, poolVars, histVars, boundVars
  <2>8. QED BY <2>4, <2>7, TypeInvNext
<1>6. QED BY <1>2, <1>3, <1>4, <1>5

LEMMA DequeueTyped ==
  ASSUME TypeInv, NEW t \in Threads, Dequeue(t)
  PROVE  TypeInv'
<1>1. RestTypes BY TypeInvIs
<1>2. PICK h, h2, e :
           /\ Moves(t, h, h2) /\ h = Idle /\ port # <<>> /\ e = Head(port) /\ e \in Entries
           /\ h2.s = e.slot /\ h2.on = e.slot /\ h2.id = NoId /\ h2.back = "idle"
           /\ \/ e.ok /\ h2.at = (IF e.kind = "send" THEN "sent" ELSE "handler") /\ h2.owed = 0
              \/ ~e.ok /\ h2.at = "dec" /\ h2.owed = 1
           /\ announced' \subseteq Ids \cup {NoId}
  BY DequeueIs
<1>3. e.slot \in Slots BY <1>2 DEF Entries
<1>4. Placed(h2) BY <1>2, <1>3 DEF Placed, Creates, Deletes
<1>5. ThreadTypes' BY <1>2, <1>4, MovesTyped
<1>6. port' \in Seq(Entries) BY <1>2, EntryFirst DEF Dequeue
<1>7. RestTypes' BY <1>1, <1>2, <1>6 DEF RestTypes, Dequeue, poolVars, boundVars
<1>8. QED BY <1>5, <1>7, TypeInvNext

LEMMA RecvTyped ==
  ASSUME TypeInv, NEW t \in Threads, PostRecv(t) \/ WSARecv(t)
  PROVE  TypeInv'
<1>1. RestTypes BY TypeInvIs
<1>2. CASE PostRecv(t)
  <2>1. PICK h, h2 : /\ Moves(t, h, h2) /\ h.at = "handler"
                     /\ Goes(h, h2, "recvPost") \/ Owes(h, h2, 1)
    BY <1>2, PostRecvIs
  <2>2. Placed(h) BY <2>1, PlacedBefore
  <2>3. Placed(h2) BY <2>1, <2>2, GoesPlaced, OwesPlaced DEF Creates, Deletes
  <2>4. QED BY <1>2, <2>1, <2>3, PlainTyped, SessionStays DEF PostRecv
<1>3. CASE WSARecv(t)
  <2>1. PICK h, h2, x, x2, g :
           /\ Moves(t, h, h2) /\ h.at = "recvPost" /\ SessMoves(h.s, x, x2)
           /\ \/ g \in Ids /\ io' = [io EXCEPT ![g]["recv"] = @ + 1] /\ Owes(h, h2, 1)
              \/ io' = io /\ Owes(h, h2, 2)
    BY <1>3, WSARecvIs
  <2>2. Placed(h) BY <2>1, PlacedBefore
  <2>3. Placed(h2) BY <2>1, <2>2, OwesPlaced
  <2>4. ThreadTypes' BY <2>1, <2>3, MovesTyped
  <2>5. session' \in [Slots -> SessionsSet] BY <2>1, SessTyped
  <2>6. io' \in IoSet BY <1>1, <2>1, IoRaised DEF RestTypes, Kinds
  <2>7. RestTypes'
    BY <1>1, <1>3, <2>5, <2>6 DEF RestTypes, WSARecv, poolVars, histVars, boundVars
  <2>8. QED BY <2>4, <2>7, TypeInvNext
<1>4. QED BY <1>2, <1>3

LEMMA SendTyped ==
  ASSUME TypeInv, NEW t \in Threads,
         ProcessSend(t) \/ PostSend(t) \/ Claim(t) \/ WSASend(t) \/ SendReset(t)
  PROVE  TypeInv'
<1>1. RestTypes BY TypeInvIs
<1>2. CASE ProcessSend(t)
  <2>1. PICK h, h2, x, x2 : Moves(t, h, h2) /\ h.at = "sent" /\ SessMoves(h.s, x, x2)
                            /\ Goes(h, h2, "sendCheck")
    BY <1>2, ProcessSendIs
  <2>2. Placed(h) BY <2>1, PlacedBefore
  <2>3. Placed(h2) BY <2>1, <2>2, GoesPlaced DEF Creates, Deletes
  <2>4. QED BY <1>2, <2>1, <2>3, PlainTyped, SessTyped DEF ProcessSend
<1>3. CASE PostSend(t)
  <2>1. PICK h, h2 : /\ Moves(t, h, h2) /\ h.at = "sendCheck"
                     /\ Goes(h, h2, "sendClaim") \/ Owes(h, h2, 1)
    BY <1>3, PostSendIs
  <2>2. Placed(h) BY <2>1, PlacedBefore
  <2>3. Placed(h2) BY <2>1, <2>2, GoesPlaced, OwesPlaced DEF Creates, Deletes
  <2>4. QED BY <1>3, <2>1, <2>3, PlainTyped, SessionStays DEF PostSend
<1>4. CASE Claim(t)
  <2>1. PICK h, h2, x, x2 : /\ Moves(t, h, h2) /\ h.at = "sendClaim" /\ SessMoves(h.s, x, x2)
                            /\ Owes(h, h2, 1) \/ Goes(h, h2, "sendPost")
    BY <1>4, ClaimIs
  <2>2. Placed(h) BY <2>1, PlacedBefore
  <2>3. Placed(h2) BY <2>1, <2>2, GoesPlaced, OwesPlaced DEF Creates, Deletes
  <2>4. QED BY <1>4, <2>1, <2>3, PlainTyped, SessTyped DEF Claim
<1>5. CASE WSASend(t)
  <2>1. PICK h, h2, x, x2, g :
           /\ Moves(t, h, h2) /\ h.at = "sendPost" /\ SessMoves(h.s, x, x2) /\ g = x.socket
           /\ \/ /\ Is(x2, x.id, x.socket, LongInc(x.count), x.sending, x.connected, FALSE)
                 /\ \/ g \in Ids /\ io' = [io EXCEPT ![g]["send"] = @ + 1] /\ Owes(h, h2, 1)
                    \/ io' = io /\ Owes(h, h2, 2)
              \/ io' = io /\ Goes(h, h2, "sendReset") /\ x2 = x
    BY <1>5, WSASendIs
  <2>2. Placed(h) BY <2>1, PlacedBefore
  <2>3. Placed(h2)
    <3>1. CASE Goes(h, h2, "sendReset")
      BY <2>1, <2>2, <3>1, GoesPlaced DEF Creates, Deletes
    <3>2. CASE Owes(h, h2, 1) \/ Owes(h, h2, 2)
      BY <2>1, <2>2, <3>2, OwesPlaced
    <3>3. QED BY <2>1, <3>1, <3>2
  <2>4. ThreadTypes' BY <2>1, <2>3, MovesTyped
  <2>5. session' \in [Slots -> SessionsSet] BY <2>1, SessTyped
  <2>6. io' \in IoSet BY <1>1, <2>1, IoRaised DEF RestTypes, Kinds
  <2>7. RestTypes'
    BY <1>1, <1>5, <2>5, <2>6 DEF RestTypes, WSASend, poolVars, histVars, boundVars
  <2>8. QED BY <2>4, <2>7, TypeInvNext
<1>6. CASE SendReset(t)
  <2>1. PICK h, h2, x, x2 : Moves(t, h, h2) /\ h.at = "sendReset" /\ SessMoves(h.s, x, x2)
                            /\ Owes(h, h2, 1)
    BY <1>6, SendResetIs
  <2>2. Placed(h) BY <2>1, PlacedBefore
  <2>3. Placed(h2) BY <2>1, <2>2, OwesPlaced
  <2>4. QED BY <1>6, <2>1, <2>3, PlainTyped, SessTyped DEF SendReset
<1>7. QED BY <1>2, <1>3, <1>4, <1>5, <1>6

LEMMA StartCallTyped ==
  ASSUME TypeInv, NEW t \in Threads, StartCall(t), th[t].at \in {"idle", "handler"},
         t = Caller \/ th[t].at = "handler"
  PROVE  TypeInv'
<1>1. RestTypes BY TypeInvIs
<1>2. PICK h, h2, g : Moves(t, h, h2) /\ g \in Ids /\ Acquires(h, h2, g)
  BY StartCallIs
<1>3. Placed(h) /\ h = th[t] BY <1>2, PlacedBefore DEF Moves
<1>4. Placed(h2) BY <1>2, <1>3, SlotOfId DEF Placed, Acquires, Creates, Deletes
<1>5. ThreadTypes' BY <1>2, <1>4, MovesTyped
<1>6. calls' \in 0 .. MaxCalls
  BY <1>1, ClientAssumption DEF RestTypes, StartCall
<1>7. RestTypes' BY <1>1, <1>6 DEF RestTypes, StartCall, poolVars, kernelVars, histVars
<1>8. QED BY <1>5, <1>7, TypeInvNext

LEMMA CallTyped ==
  ASSUME TypeInv, NEW t \in Threads,
         TryAcquireSession(t) \/ AcquireRef(t) \/ SendPacket(t) \/ Disconnect(t) \/ CancelIo(t)
  PROVE  TypeInv'
<1>1. RestTypes BY TypeInvIs
<1>2. CASE TryAcquireSession(t)
  <2>1. PICK h, h2 : /\ Moves(t, h, h2) /\ h.at = "acquire"
                     /\ Goes(h, h2, "acquireRef") \/ Resumes(h, h2)
    BY <1>2, TryAcquireIs
  <2>2. Placed(h) BY <2>1, PlacedBefore
  <2>3. Placed(h2) BY <2>1, <2>2, GoesPlaced, ResumesPlaced DEF Creates, Deletes
  <2>4. QED BY <1>2, <2>1, <2>3, PlainTyped, SessionStays DEF TryAcquireSession
<1>3. CASE AcquireRef(t)
  <2>1. PICK h, h2, x, x2 : /\ Moves(t, h, h2) /\ h.at = "acquireRef" /\ SessMoves(h.s, x, x2)
                            /\ Owes(h, h2, 1) \/ Goes(h, h2, "use")
    BY <1>3, AcquireRefIs
  <2>2. Placed(h) BY <2>1, PlacedBefore
  <2>3. Placed(h2) BY <2>1, <2>2, GoesPlaced, OwesPlaced DEF Creates, Deletes
  <2>4. QED BY <1>3, <2>1, <2>3, PlainTyped, SessTyped DEF AcquireRef
<1>4. CASE SendPacket(t)
  <2>1. PICK h, h2, x, x2 : Moves(t, h, h2) /\ h.at = "use" /\ SessMoves(h.s, x, x2)
                            /\ Goes(h, h2, "sendCheck")
    BY <1>4, SendPacketIs
  <2>2. Placed(h) BY <2>1, PlacedBefore
  <2>3. Placed(h2) BY <2>1, <2>2, GoesPlaced DEF Creates, Deletes
  <2>4. QED BY <1>4, <2>1, <2>3, PlainTyped, SessTyped DEF SendPacket
<1>5. CASE Disconnect(t)
  <2>1. PICK h, h2, x, x2 : Moves(t, h, h2) /\ h.at = "use" /\ SessMoves(h.s, x, x2)
                            /\ Goes(h, h2, "cancel")
    BY <1>5, DisconnectIs
  <2>2. Placed(h) BY <2>1, PlacedBefore
  <2>3. Placed(h2) BY <2>1, <2>2, GoesPlaced DEF Creates, Deletes
  <2>4. QED BY <1>5, <2>1, <2>3, PlainTyped, SessTyped DEF Disconnect
<1>6. CASE CancelIo(t)
  <2>1. PICK h, h2, x, g :
           /\ Moves(t, h, h2) /\ h.at = "cancel" /\ SessMoves(h.s, x, x) /\ g = x.socket
           /\ \/ g = NoId /\ UNCHANGED <<port, io>>
              \/ g \in Ids /\ AbortIo(g)
           /\ Owes(h, h2, 1)
    BY <1>6, CancelIoIs
  <2>2. Placed(h) BY <2>1, PlacedBefore
  <2>3. Placed(h2) BY <2>1, <2>2, OwesPlaced
  <2>4. ThreadTypes' BY <2>1, <2>3, MovesTyped
  <2>5. port' \in Seq(Entries) /\ io' \in IoSet
    BY <1>1, <2>1, AbortTyped DEF RestTypes
  <2>6. RestTypes'
    BY <1>1, <1>6, <2>5 DEF RestTypes, CancelIo, poolVars, histVars, boundVars
  <2>7. QED BY <2>4, <2>6, TypeInvNext
<1>7. QED BY <1>2, <1>3, <1>4, <1>5, <1>6

LEMMA EndTyped ==
  ASSUME TypeInv, NEW t \in Threads,
         \/ DecreaseIoCount(t) \/ DeleteSession(t) \/ DeleteCas(t) \/ Teardown(t) \/ Clear(t)
         \/ Recycle(t)
  PROVE  TypeInv'
<1>1. RestTypes BY TypeInvIs
<1>2. CASE DecreaseIoCount(t)
  <2>1. PICK h, h2, x, x2 : /\ Moves(t, h, h2) /\ h.at = "dec" /\ SessMoves(h.s, x, x2)
                            /\ Goes(h, h2, "delete") \/ Returns(h, h2)
    BY <1>2, DecreaseIs
  <2>2. Placed(h) BY <2>1, PlacedBefore
  <2>3. Placed(h2) BY <2>1, <2>2, GoesPlaced, ReturnsPlaced DEF Creates, Deletes
  <2>4. QED BY <1>2, <2>1, <2>3, PlainTyped, SessTyped DEF DecreaseIoCount
<1>3. CASE DeleteSession(t)
  <2>1. PICK h, h2, x :
           /\ Moves(t, h, h2) /\ h.at = "delete" /\ SessMoves(h.s, x, x)
           /\ IF x.id = NoId THEN Returns(h, h2)
              ELSE x.id \in Ids /\ Names(h, h2, "deleteCas", x.id)
    BY <1>3, DeleteSessionIs
  <2>2. Placed(h) BY <2>1, PlacedBefore
  <2>3. Placed(h2)
    <3>1. CASE Returns(h, h2)
      BY <2>1, <2>2, <3>1, ReturnsPlaced DEF Deletes
    <3>2. CASE x.id \in Ids /\ Names(h, h2, "deleteCas", x.id)
      BY <2>1, <2>2, <3>2 DEF Placed, Names, Deletes
    <3>3. QED BY <2>1, <3>1, <3>2
  <2>4. QED BY <1>3, <2>1, <2>3, PlainTyped, SessTyped DEF DeleteSession
<1>4. CASE DeleteCas(t)
  <2>1. PICK h, h2, x, x2 : /\ Moves(t, h, h2) /\ h.at = "deleteCas" /\ SessMoves(h.s, x, x2)
                            /\ Goes(h, h2, "teardown") \/ Returns(h, h2)
    BY <1>4, DeleteCasIs
  <2>2. Placed(h) BY <2>1, PlacedBefore
  <2>3. Placed(h2) BY <2>1, <2>2, GoesPlaced, ReturnsPlaced DEF Creates, Deletes
  <2>4. QED BY <1>4, <2>1, <2>3, PlainTyped, SessTyped DEF DeleteCas
<1>5. CASE Teardown(t)
  <2>1. PICK h, h2, x, g :
           /\ Moves(t, h, h2) /\ h.at = "teardown" /\ SessMoves(h.s, x, x) /\ g = x.socket
           /\ h.id \in Ids /\ gone' = [gone EXCEPT ![h.id] = @ + 1]
           /\ \/ g = NoId /\ UNCHANGED <<port, sockets, io>>
              \/ g \in Ids /\ sockets' = [sockets EXCEPT ![g] = "closed"] /\ AbortIo(g)
           /\ Goes(h, h2, "clear")
    BY <1>5, TeardownIs
  <2>2. Placed(h) BY <2>1, PlacedBefore
  <2>3. Placed(h2) BY <2>1, <2>2, GoesPlaced DEF Creates, Deletes
  <2>4. ThreadTypes' BY <2>1, <2>3, MovesTyped
  <2>5. port' \in Seq(Entries) /\ io' \in IoSet
    BY <1>1, <2>1, AbortTyped DEF RestTypes
  <2>6. sockets' \in NetSet BY <1>1, <2>1 DEF RestTypes, NetSet
  <2>7. gone' \in [Ids -> Nat] BY <1>1, <2>1 DEF RestTypes
  <2>8. RestTypes'
    BY <1>1, <1>5, <2>5, <2>6, <2>7 DEF RestTypes, Teardown, poolVars, boundVars
  <2>9. QED BY <2>4, <2>8, TypeInvNext
<1>6. CASE Clear(t)
  <2>1. PICK h, h2, x : /\ Moves(t, h, h2) /\ h.at = "clear" /\ SessMoves(h.s, x, Cleared)
                        /\ Goes(h, h2, "recycle")
    BY <1>6, ClearIs
  <2>2. Placed(h) BY <2>1, PlacedBefore
  <2>3. Placed(h2) BY <2>1, <2>2, GoesPlaced DEF Creates, Deletes
  <2>4. QED BY <1>6, <2>1, <2>3, PlainTyped, SessTyped DEF Clear
<1>7. CASE Recycle(t)
  <2>1. PICK h, h2 : /\ Moves(t, h, h2) /\ h.at = "recycle" /\ h.s \in Slots
                     /\ indexStack' = Append(indexStack, h.s)
                     /\ sessionCount' = sessionCount - 1 /\ Returns(h, h2)
    BY <1>7, RecycleIs
  <2>2. Placed(h) BY <2>1, PlacedBefore
  <2>3. Placed(h2) BY <2>1, <2>2, ReturnsPlaced DEF Deletes
  <2>4. ThreadTypes' BY <2>1, <2>3, MovesTyped
  <2>5. indexStack' \in Seq(Slots)
    <3>1. \A Z : \A q \in Seq(Z), s \in Z : Append(q, s) \in Seq(Z) OBVIOUS
    <3>2. QED BY <1>1, <2>1, <3>1 DEF RestTypes
  <2>6. sessionCount' \in Int BY <1>1, <2>1 DEF RestTypes
  <2>7. RestTypes'
    BY <1>1, <1>7, <2>5, <2>6 DEF RestTypes, Recycle, kernelVars, histVars, boundVars
  <2>8. QED BY <2>4, <2>7, TypeInvNext
<1>8. QED BY <1>2, <1>3, <1>4, <1>5, <1>6, <1>7

LEMMA KernelTyped ==
  ASSUME TypeInv, NEW g \in Ids, Kernel(g) \/ PeerCloses(g)
  PROVE  TypeInv'
<1>1. RestTypes /\ ThreadTypes BY TypeInvIs
<1>2. \A Z : \A q \in Seq(Z), s \in Z : Append(q, s) \in Seq(Z) OBVIOUS
<1>3. CASE ConnectCompletes(g)
  <2>1. PICK ok \in BOOLEAN :
          /\ sockets' = [sockets EXCEPT ![g] = IF ok THEN "open" ELSE "refused"]
          /\ port' = Append(port, Completion(SlotOf(g), "connect", ok))
    BY <1>3 DEF ConnectCompletes
  <2>2. PICK e : e = Completion(SlotOf(g), "connect", ok) OBVIOUS
  <2>3. e \in Entries BY <2>2, CompletionTyped DEF Kinds
  <2>4. port' \in Seq(Entries) BY <1>1, <1>2, <2>1, <2>2, <2>3 DEF RestTypes
  <2>5. sockets' \in NetSet BY <1>1, <2>1 DEF RestTypes, NetSet
  <2>6. io' \in IoSet BY <1>1, <1>3 DEF RestTypes, IoSet, ConnectCompletes
  <2>7. RestTypes' /\ ThreadTypes'
    BY <1>1, <1>3, <2>4, <2>5, <2>6
    DEF RestTypes, ThreadTypes, ConnectCompletes, poolVars, histVars, boundVars
  <2>8. QED BY <2>7, TypeInvNext
<1>4. CASE RecvCompletes(g)
  <2>1. PICK ok \in BOOLEAN : port' = Append(port, Completion(SlotOf(g), "recv", ok))
    BY <1>4 DEF RecvCompletes
  <2>2. PICK e : e = Completion(SlotOf(g), "recv", ok) OBVIOUS
  <2>3. e \in Entries BY <2>2, CompletionTyped DEF Kinds
  <2>4. port' \in Seq(Entries) BY <1>1, <1>2, <2>1, <2>2, <2>3 DEF RestTypes
  <2>5. io' \in IoSet
    <3>1. PICK n : n = io[g]["recv"] - 1 OBVIOUS
    <3>2. n \in Nat BY <1>1, <1>4, <3>1 DEF RestTypes, IoSet, RecvCompletes, Kinds
    <3>3. io' = [io EXCEPT ![g]["recv"] = n] BY <1>1, <1>4, <3>1 DEF RecvCompletes, RestTypes, IoSet
    <3>4. QED BY <1>1, <3>2, <3>3 DEF RestTypes, IoSet
  <2>6. msgs' \in 0 .. MaxMsgs
    <3>1. msgs' = msgs \/ (msgs < MaxMsgs /\ msgs' = msgs + 1)
      BY <1>4 DEF RecvCompletes
    <3>2. QED BY <1>1, <3>1, ClientAssumption DEF RestTypes
  <2>7. RestTypes' /\ ThreadTypes'
    BY <1>1, <1>4, <2>4, <2>5, <2>6
    DEF RestTypes, ThreadTypes, RecvCompletes, poolVars, histVars
  <2>8. QED BY <2>7, TypeInvNext
<1>5. CASE SendCompletes(g)
  <2>1. PICK ok \in BOOLEAN : port' = Append(port, Completion(SlotOf(g), "send", ok))
    BY <1>5 DEF SendCompletes
  <2>2. PICK e : e = Completion(SlotOf(g), "send", ok) OBVIOUS
  <2>3. e \in Entries BY <2>2, CompletionTyped DEF Kinds
  <2>4. port' \in Seq(Entries) BY <1>1, <1>2, <2>1, <2>2, <2>3 DEF RestTypes
  <2>5. io' \in IoSet
    <3>1. PICK n : n = io[g]["send"] - 1 OBVIOUS
    <3>2. n \in Nat BY <1>1, <1>5, <3>1 DEF RestTypes, IoSet, SendCompletes, Kinds
    <3>3. io' = [io EXCEPT ![g]["send"] = n] BY <1>1, <1>5, <3>1 DEF SendCompletes, RestTypes, IoSet
    <3>4. QED BY <1>1, <3>2, <3>3 DEF RestTypes, IoSet
  <2>7. RestTypes' /\ ThreadTypes'
    BY <1>1, <1>5, <2>4, <2>5
    DEF RestTypes, ThreadTypes, SendCompletes, poolVars, histVars, boundVars
  <2>8. QED BY <2>7, TypeInvNext
<1>6. CASE PeerCloses(g)
  <2>1. sockets' \in NetSet BY <1>1, <1>6 DEF RestTypes, NetSet, PeerCloses
  <2>2. RestTypes' /\ ThreadTypes'
    BY <1>1, <1>6, <2>1
    DEF RestTypes, ThreadTypes, PeerCloses, poolVars, histVars, boundVars
  <2>3. QED BY <2>2, TypeInvNext
<1>7. QED BY <1>3, <1>4, <1>5, <1>6 DEF Kernel

LEMMA TypeStep == TypeInv /\ [ClientNext]_clientVars => TypeInv'
<1> SUFFICES ASSUME TypeInv, [ClientNext]_clientVars PROVE TypeInv' OBVIOUS
<1>1. CASE ConnectTurn
  BY <1>1, ConnectTyped DEF ConnectTurn, Threads
<1>2. ASSUME NEW t \in Workers, Dequeue(t) \/ (th[t].at = "handler" /\ StartCall(t))
      PROVE  TypeInv'
  BY <1>2, DequeueTyped, StartCallTyped DEF Threads
<1>3. CASE mode = "foreign" /\ th[Caller].at = "idle" /\ StartCall(Caller)
  BY <1>3, StartCallTyped DEF Threads
<1>4. ASSUME NEW t \in Threads, Continue(t) PROVE TypeInv'
  BY <1>4, RecvTyped, SendTyped, CallTyped, EndTyped DEF Continue
<1>5. ASSUME NEW g \in Ids, Kernel(g) \/ PeerCloses(g) PROVE TypeInv'
  BY <1>5, KernelTyped
<1>6. CASE UNCHANGED clientVars
  <2>1. RestTypes /\ ThreadTypes BY TypeInvIs
  <2>2. RestTypes' /\ ThreadTypes'
    BY <1>6, <2>1
    DEF clientVars, RestTypes, ThreadTypes, poolVars, kernelVars, histVars, boundVars
  <2>3. QED BY <2>2, TypeInvNext
<1>7. QED BY <1>1, <1>2, <1>3, <1>4, <1>5, <1>6 DEF ClientNext

-----------------------------------------------------------------------------
(* As long as handlers only call on their own session.  A thread holds      *)
(* references to the slot it works on: its own, one more in a call, and     *)
(* those it still owes.                                                     *)
Base(h) == IF h.back = "handler" THEN 1 ELSE 0

Weight(h) ==
  IF h.at \in {"register", "connectEx"} \cup Served THEN 1
  ELSE IF h.at \in {"use", "cancel"} THEN 2
  ELSE IF h.at \in Sends THEN 1 + Base(h)
  ELSE IF h.at = "dec" THEN h.owed + Base(h) ELSE 0

Share(h, s) == IF h.s = s THEN Weight(h) ELSE 0

HeldBy(H, s) == {x \in Threads \X (1 .. 3) : x[2] <= Share(H[x[1]], s)}

RecvKinds == {"connect", "recv"}
SendKinds == {"send"}

(* An operation of the slot is with the kernel, or its completion queued;   *)
(* and there is one of them at most.                                        *)
Away(p, o, s, K) ==
  \/ \E g \in Ids, k \in K : SlotOf(g) = s /\ o[g][k] > 0
  \/ \E i \in DOMAIN p : p[i].slot = s /\ p[i].kind \in K

One(p, o, s, K) ==
  /\ \A i, j \in DOMAIN p :
       p[i].slot = s /\ p[i].kind \in K /\ p[j].slot = s /\ p[j].kind \in K => i = j
  /\ \A g, f \in Ids, k, l \in K :
       SlotOf(g) = s /\ SlotOf(f) = s /\ o[g][k] > 0 /\ o[f][l] > 0 => g = f /\ k = l
  /\ \A i \in DOMAIN p, g \in Ids, k \in K :
       ~ (p[i].slot = s /\ p[i].kind \in K /\ SlotOf(g) = s /\ o[g][k] > 0)

Flag(b) == IF b THEN 1 ELSE 0

(* What the counter of a slot stands for.                                   *)
Refs(s) ==
  Cardinality(HeldBy(th, s)) + Flag(Away(port, io, s, RecvKinds))
    + Flag(Away(port, io, s, SendKinds))

Quiet(s) == ~Away(port, io, s, RecvKinds) /\ ~Away(port, io, s, SendKinds)
Alone(t, s) == (\A u \in Threads : u # t => th[u].s # s) /\ Quiet(s)
Nobody(s) == (\A u \in Threads : th[u].s # s) /\ Quiet(s)

(* A slot whose index is free was cleared, or was given back by a Connect   *)
(* whose CreateIoCompletionPort failed.                                     *)
Unused(x) == x.count = 0 \/ (x.count = 1 /\ x.id \in Ids /\ gone[x.id] = 0)

Shape(h) ==
  /\ h.at \in Creates => h.id \in Ids /\ SlotOf(h.id) = h.s /\ h.id[2] <= idGen
  /\ h.back = "handler" => h.at \in Calls \cup Sends \cup {"dec"} /\ h.on = h.s
  /\ h.at \in Calls => h.back = "handler"
  /\ h.at \in {"handler", "recvPost"} => h.on = h.s
  /\ h.at \in Deletes => h.owed = 1

ThreadOk(t, h, s, x) ==
  /\ h.at \in Creates \cup Deletes => Alone(t, s)
  /\ h.at = "activate" => Unused(x) /\ gone[h.id] = 0
  /\ h.at \in {"delete", "deleteCas"} => x.count = 0
  /\ h.at \in {"delete", "deleteCas", "teardown"} => x.id \in Ids /\ gone[x.id] = 0
  /\ h.at \in {"deleteCas", "teardown", "clear"} => h.id = x.id
  /\ h.at \in {"teardown", "clear"} => x.count = DeleteFlag
  /\ h.at = "recycle" => x = Cleared

Used(s) ==
  \/ \E t \in Threads : th[t].s = s /\ Weight(th[t]) > 0
  \/ ~Quiet(s)

Own(s, x) ==
  /\ x.id # NoId => SlotOf(x.id) = s /\ x.id[2] <= idGen
  /\ x.socket = x.id

Counted(s, x) == x.count = Refs(s) /\ x.id \in Ids /\ gone[x.id] = 0

Taken(s) == \E i \in DOMAIN indexStack : indexStack[i] = s

SlotOk(s) ==
  /\ Own(s, session[s])
  /\ Taken(s) => Nobody(s) /\ Unused(session[s])
  /\ \A t \in Threads : th[t].s = s => ~Taken(s) /\ ThreadOk(t, th[t], s, session[s])
  /\ Used(s) => Counted(s, session[s])

(* The sides of a session: the threads at each, and the operations away.    *)
RecvH(h) == h.at \in {"handler", "recvPost"} \/ h.back = "handler"
SendH(h) == h.at \in {"sent", "sendPost", "sendReset"}

RecvSide(s) ==
  /\ One(port, io, s, RecvKinds)
  /\ \A t, u \in Threads :
       th[t].s = s /\ th[u].s = s /\ RecvH(th[t]) /\ RecvH(th[u]) => t = u
  /\ \A t \in Threads : th[t].s = s /\ RecvH(th[t]) => ~Away(port, io, s, RecvKinds)

SendSide(s) ==
  /\ One(port, io, s, SendKinds)
  /\ \A t, u \in Threads :
       th[t].s = s /\ th[u].s = s /\ SendH(th[t]) /\ SendH(th[u]) => t = u
  /\ \A t \in Threads :
       th[t].s = s /\ SendH(th[t]) => ~Away(port, io, s, SendKinds) /\ session[s].sending
  /\ Away(port, io, s, SendKinds) => session[s].sending

SlotCalm(s) == SlotOk(s) /\ RecvSide(s) /\ SendSide(s)

Shapes == \A t \in Threads : Shape(th[t])
GoneOnce == \A g \in Ids : gone[g] <= 1 /\ (gone[g] > 0 => g[2] <= idGen)
IoOnce == \A g \in Ids, k \in Kinds : io[g][k] <= 1
IndexOnce ==
  IsInjective(indexStack) /\ Len(indexStack) + sessionCount = Cardinality(Slots)

Calm == Shapes /\ (\A s \in Slots : SlotCalm(s)) /\ GoneOnce /\ IoOnce /\ IndexOnce

ClientInv == TypeInv /\ (mode # "foreign" => Calm)

-----------------------------------------------------------------------------
(* The references that threads hold, when one thread goes on.               *)
LEMMA SharesAre ==
  ASSUME NEW h \in Contexts, NEW s
  PROVE  Weight(h) \in 0 .. 3 /\ Share(h, s) \in 0 .. 3
<1>1. h.owed \in 0 .. 2 BY DEF Contexts
<1>2. Base(h) \in 0 .. 1 BY DEF Base
<1>3. PICK n, b : n = h.owed /\ b = Base(h) OBVIOUS
<1>4. n \in 0 .. 2 /\ b \in 0 .. 1 BY <1>1, <1>2, <1>3
<1>5. Weight(h) \in 0 .. 3 BY <1>3, <1>4 DEF Weight
<1>6. QED BY <1>5 DEF Share

LEMMA UpTo ==
  ASSUME NEW n \in Nat
  PROVE  IsFiniteSet(1 .. n) /\ Cardinality(1 .. n) = n
<1>1. PICK a \in Int : a = 1 OBVIOUS
<1>2. n \in Int OBVIOUS
<1>3. IsFiniteSet(a .. n) /\ Cardinality(a .. n) = IF a > n THEN 0 ELSE n - a + 1
  BY <1>2, FS_Interval
<1>4. (IF a > n THEN 0 ELSE n - a + 1) = n BY <1>1
<1>5. QED BY <1>1, <1>3, <1>4

LEMMA ThreadsFinite ==
  IsFiniteSet(Threads) /\ Cardinality(Threads) \in Nat
  /\ IsFiniteSet(Threads \X (1 .. 3))
  /\ Cardinality(Threads \X (1 .. 3)) = Cardinality(Threads) * 3
<1>1. IsFiniteSet(Workers \cup {Connector}) BY ClientAssumption, FS_AddElement
<1>2. IsFiniteSet((Workers \cup {Connector}) \cup {Caller}) BY <1>1, FS_AddElement
<1>3. Threads = (Workers \cup {Connector}) \cup {Caller} BY DEF Threads
<1>4. IsFiniteSet(Threads) BY <1>2, <1>3
<1>5. IsFiniteSet(1 .. 3) /\ Cardinality(1 .. 3) = 3 BY UpTo
<1>6. QED BY <1>4, <1>5, FS_Product, FS_CardinalityType

LEMMA HeldBounded ==
  ASSUME NEW H, NEW s
  PROVE  /\ IsFiniteSet(HeldBy(H, s)) /\ Cardinality(HeldBy(H, s)) \in Nat
         /\ Cardinality(HeldBy(H, s)) <= 3 * Cardinality(Threads)
<1>1. HeldBy(H, s) \in SUBSET (Threads \X (1 .. 3)) BY DEF HeldBy
<1>2. /\ IsFiniteSet(HeldBy(H, s))
      /\ Cardinality(HeldBy(H, s)) <= Cardinality(Threads \X (1 .. 3))
  BY <1>1, ThreadsFinite, FS_Subset
<1>3. Cardinality(HeldBy(H, s)) \in Nat BY <1>2, FS_CardinalityType
<1>4. QED BY <1>2, <1>3, ThreadsFinite

HeldElse(H, s, t) == {x \in HeldBy(H, s) : x[1] # t}

LEMMA HeldSplit ==
  ASSUME NEW H, NEW s, NEW t \in Threads, NEW n \in 0 .. 3, Share(H[t], s) = n
  PROVE  /\ Cardinality(HeldElse(H, s, t)) \in Nat
         /\ Cardinality(HeldBy(H, s)) = Cardinality(HeldElse(H, s, t)) + n
<1>1. HeldElse(H, s, t) \in SUBSET HeldBy(H, s) BY DEF HeldElse
<1>2. IsFiniteSet(HeldElse(H, s, t)) BY <1>1, HeldBounded, FS_Subset
<1>3. PICK M : M = {t} \X (1 .. n) OBVIOUS
<1>4. IsFiniteSet({t}) /\ Cardinality({t}) = 1 BY FS_Singleton
<1>5. IsFiniteSet(1 .. n) /\ Cardinality(1 .. n) = n BY UpTo
<1>6. IsFiniteSet(M) /\ Cardinality(M) = n
  <2>1. IsFiniteSet(M) /\ Cardinality(M) = Cardinality({t}) * Cardinality(1 .. n)
    BY <1>3, <1>4, <1>5, FS_Product
  <2>2. QED BY <1>4, <1>5, <2>1
<1>7. HeldBy(H, s) = HeldElse(H, s, t) \cup M
  <2>1. ASSUME NEW x \in HeldBy(H, s) PROVE x \in HeldElse(H, s, t) \cup M
    <3>1. x \in Threads \X (1 .. 3) /\ x[2] <= Share(H[x[1]], s) BY DEF HeldBy
    <3>2. CASE x[1] # t BY <3>2 DEF HeldElse
    <3>3. CASE x[1] = t
      <4>1. x[2] \in 1 .. n BY <3>1, <3>3
      <4>2. x = <<t, x[2]>> BY <3>1, <3>3
      <4>3. QED BY <1>3, <4>1, <4>2
    <3>4. QED BY <3>2, <3>3
  <2>2. ASSUME NEW x \in M PROVE x \in HeldBy(H, s)
    <3>1. x \in Threads \X (1 .. 3) /\ x[1] = t /\ x[2] <= n BY <1>3
    <3>2. QED BY <3>1 DEF HeldBy
  <2>3. QED BY <1>1, <2>1, <2>2
<1>8. HeldElse(H, s, t) \cap M = {} BY <1>3 DEF HeldElse
<1>9. Cardinality(HeldElse(H, s, t) \cap M) = 0 BY <1>8, FS_EmptySet
<1>10. /\ Cardinality(HeldElse(H, s, t)) \in Nat
       /\ Cardinality(HeldBy(H, s)) = Cardinality(HeldElse(H, s, t)) + Cardinality(M) - 0
  BY <1>2, <1>6, <1>7, <1>9, FS_Union, FS_CardinalityType
<1>11. QED BY <1>6, <1>10

Turned(H, H2, t, h, h2) ==
  /\ h \in Contexts /\ h2 \in Contexts /\ H[t] = h /\ H2[t] = h2
  /\ \A u \in Threads : u # t => H2[u] = H[u]

LEMMA HeldChanges ==
  ASSUME NEW H, NEW H2, NEW t \in Threads, NEW h, NEW h2, Turned(H, H2, t, h, h2), NEW s
  PROVE  Cardinality(HeldBy(H2, s)) = Cardinality(HeldBy(H, s)) - Share(h, s) + Share(h2, s)
<1>1. /\ h \in Contexts /\ h2 \in Contexts /\ H[t] = h /\ H2[t] = h2
      /\ \A u \in Threads : u # t => H2[u] = H[u]
  BY DEF Turned
<1>2. PICK n \in 0 .. 3 : n = Share(H[t], s) BY <1>1, SharesAre
<1>3. PICK m \in 0 .. 3 : m = Share(h2, s) BY <1>1, SharesAre
<1>4. Share(H2[t], s) = m BY <1>1, <1>3
<1>5. HeldElse(H2, s, t) = HeldElse(H, s, t) BY <1>1 DEF HeldElse, HeldBy
<1>6. /\ Cardinality(HeldElse(H, s, t)) \in Nat
      /\ Cardinality(HeldBy(H, s)) = Cardinality(HeldElse(H, s, t)) + n
  BY <1>2, HeldSplit
<1>7. Cardinality(HeldBy(H2, s)) = Cardinality(HeldElse(H2, s, t)) + m
  BY <1>4, HeldSplit
<1>8. QED BY <1>1, <1>2, <1>3, <1>5, <1>6, <1>7

(* Where nobody holds a reference no thread has weight; and where only one  *)
(* thread is, it holds what there is.                                       *)
LEMMA HeldNone ==
  ASSUME NEW H \in [Threads -> Contexts], NEW s, Cardinality(HeldBy(H, s)) = 0,
         NEW t \in Threads
  PROVE  Share(H[t], s) = 0
<1>1. PICK n \in 0 .. 3 : n = Share(H[t], s) BY SharesAre
<1>2. /\ Cardinality(HeldElse(H, s, t)) \in Nat
      /\ Cardinality(HeldBy(H, s)) = Cardinality(HeldElse(H, s, t)) + n
  BY <1>1, HeldSplit
<1>3. QED BY <1>1, <1>2

LEMMA HeldAlone ==
  ASSUME NEW H \in [Threads -> Contexts], NEW s, NEW t \in Threads,
         \A u \in Threads : u # t => H[u].s # s
  PROVE  Cardinality(HeldBy(H, s)) = Share(H[t], s)
<1>1. PICK n \in 0 .. 3 : n = Share(H[t], s) BY SharesAre
<1>2. /\ Cardinality(HeldElse(H, s, t)) \in Nat
      /\ Cardinality(HeldBy(H, s)) = Cardinality(HeldElse(H, s, t)) + n
  BY <1>1, HeldSplit
<1>3. HeldElse(H, s, t) = {} BY DEF HeldElse, HeldBy, Share
<1>4. Cardinality(HeldElse(H, s, t)) = 0 BY <1>3, FS_EmptySet
<1>5. QED BY <1>1, <1>2, <1>4

-----------------------------------------------------------------------------
(* The port and the kernel: what a call or a completion does to the         *)
(* operations of one side of a slot.                                        *)
Kept(p, o, p2, o2, s, K) ==
  /\ Away(p2, o2, s, K) <=> Away(p, o, s, K)
  /\ One(p, o, s, K) => One(p2, o2, s, K)

LEMMA KeptTwice ==
  ASSUME NEW p, NEW o, NEW p1, NEW o1, NEW p2, NEW o2, NEW s, NEW K,
         Kept(p, o, p1, o1, s, K), Kept(p1, o1, p2, o2, s, K)
  PROVE  Kept(p, o, p2, o2, s, K)
BY DEF Kept

LEMMA StartsElse ==
  ASSUME NEW p, NEW o \in IoSet, NEW o2, NEW s, NEW K \in SUBSET Kinds,
         NEW g \in Ids, NEW k \in Kinds, o2 = [o EXCEPT ![g][k] = 1],
         SlotOf(g) # s \/ k \notin K
  PROVE  Kept(p, o, p, o2, s, K)
<1>1. \A f \in Ids, l \in K : SlotOf(f) = s => o2[f][l] = o[f][l]
  BY DEF IoSet
<1>2. QED BY ONLY <1>1 DEF Kept, Away, One

LEMMA StartsHere ==
  ASSUME NEW p, NEW o \in IoSet, NEW o2, NEW s, NEW K \in SUBSET Kinds,
         NEW g \in Ids, NEW k \in K, o2 = [o EXCEPT ![g][k] = 1],
         SlotOf(g) = s, ~Away(p, o, s, K)
  PROVE  Away(p, o2, s, K) /\ One(p, o2, s, K)
<1>1. o2[g][k] > 0
  BY DEF IoSet
<1>2. \A f \in Ids, l \in K : f # g \/ l # k => o2[f][l] = o[f][l]
  BY DEF IoSet
<1>3. \A f \in Ids, l \in K : SlotOf(f) = s /\ o2[f][l] > 0 => f = g /\ l = k
  BY <1>2 DEF Away
<1>4. \A i \in DOMAIN p : ~ (p[i].slot = s /\ p[i].kind \in K)
  BY DEF Away
<1>5. Away(p, o2, s, K) BY <1>1 DEF Away
<1>6. One(p, o2, s, K) BY <1>3, <1>4 DEF One
<1>7. QED BY <1>5, <1>6

LEMMA TailIs ==
  \A Z : \A q \in Seq(Z) : q # <<>> =>
    /\ DOMAIN Tail(q) = 1 .. (Len(q) - 1) /\ Len(q) \in Nat /\ Len(q) > 0
    /\ DOMAIN q = 1 .. Len(q)
    /\ \A i \in 1 .. (Len(q) - 1) : Tail(q)[i] = q[i + 1]
    /\ Head(q) = q[1]
OBVIOUS

LEMMA TailOf ==
  ASSUME NEW p \in Seq(Entries), p # <<>>
  PROVE  \E n, q : /\ n \in Nat /\ n = Len(p) /\ q = Tail(p) /\ DOMAIN q = 1 .. (n - 1)
                    /\ n > 0 /\ DOMAIN p = 1 .. n /\ Head(p) = p[1]
                    /\ \A i \in 1 .. (n - 1) : q[i] = p[i + 1]
<1>1. PICK n, q : n = Len(p) /\ q = Tail(p) OBVIOUS
<1>2. /\ n \in Nat /\ n > 0 /\ DOMAIN q = 1 .. (n - 1) /\ DOMAIN p = 1 .. n
      /\ Head(p) = p[1] /\ \A i \in 1 .. (n - 1) : q[i] = p[i + 1]
  BY <1>1, TailIs
<1>3. QED BY <1>1, <1>2

LEMMA TakesElse ==
  ASSUME NEW p \in Seq(Entries), p # <<>>, NEW o, NEW s, NEW K,
         Head(p).slot # s \/ Head(p).kind \notin K
  PROVE  Kept(p, o, Tail(p), o, s, K)
<1>1. PICK n, q : /\ n \in Nat /\ n = Len(p) /\ q = Tail(p) /\ DOMAIN q = 1 .. (n - 1)
                 /\ n > 0 /\ DOMAIN p = 1 .. n /\ Head(p) = p[1]
                 /\ \A i \in 1 .. (n - 1) : q[i] = p[i + 1]
  BY TailOf
<1>2. /\ DOMAIN q = 1 .. (n - 1) /\ n \in Nat /\ n > 0 /\ DOMAIN p = 1 .. n
      /\ \A i \in 1 .. (n - 1) : q[i] = p[i + 1]
  BY <1>1
<1>3. ~ (p[1].slot = s /\ p[1].kind \in K)
  BY <1>1
<1>4. ASSUME Away(p, o, s, K) PROVE Away(q, o, s, K)
  <2>1. CASE \E g \in Ids, k \in K : SlotOf(g) = s /\ o[g][k] > 0
    BY <2>1 DEF Away
  <2>2. CASE \E i \in DOMAIN p : p[i].slot = s /\ p[i].kind \in K
    <3>1. PICK i \in 1 .. n : p[i].slot = s /\ p[i].kind \in K BY <1>2, <2>2
    <3>2. PICK j : j = i - 1 /\ j \in 1 .. (n - 1) /\ i = j + 1 BY <1>2, <1>3, <3>1
    <3>3. q[j].slot = s /\ q[j].kind \in K BY <1>2, <3>1, <3>2
    <3>4. QED BY <1>2, <3>2, <3>3 DEF Away
  <2>3. QED BY <1>4, <2>1, <2>2 DEF Away
<1>5. ASSUME Away(q, o, s, K) PROVE Away(p, o, s, K)
  <2>1. CASE \E g \in Ids, k \in K : SlotOf(g) = s /\ o[g][k] > 0
    BY <2>1 DEF Away
  <2>2. CASE \E i \in DOMAIN q : q[i].slot = s /\ q[i].kind \in K
    <3>1. PICK i \in 1 .. (n - 1) : q[i].slot = s /\ q[i].kind \in K BY <1>2, <2>2
    <3>2. PICK j : j = i + 1 /\ j \in 1 .. n BY <1>2, <3>1
    <3>3. p[j].slot = s /\ p[j].kind \in K BY <1>2, <3>1, <3>2
    <3>4. QED BY <1>2, <3>2, <3>3 DEF Away
  <2>3. QED BY <1>5, <2>1, <2>2 DEF Away
<1>6. ASSUME One(p, o, s, K) PROVE One(q, o, s, K)
  <2>1. ASSUME NEW i \in DOMAIN q, NEW j \in DOMAIN q,
               q[i].slot = s /\ q[i].kind \in K /\ q[j].slot = s /\ q[j].kind \in K
        PROVE  i = j
    <3>1. i + 1 \in DOMAIN p /\ j + 1 \in DOMAIN p /\ q[i] = p[i + 1] /\ q[j] = p[j + 1]
      BY <1>2
    <3>2. i + 1 = j + 1 BY <1>6, <2>1, <3>1 DEF One
    <3>3. QED BY <1>2, <3>2
  <2>2. ASSUME NEW i \in DOMAIN q, NEW g \in Ids, NEW k \in K
        PROVE  ~ (q[i].slot = s /\ q[i].kind \in K /\ SlotOf(g) = s /\ o[g][k] > 0)
    <3>1. i + 1 \in DOMAIN p /\ q[i] = p[i + 1] BY <1>2
    <3>2. QED BY <1>6, <3>1 DEF One
  <2>3. QED BY <1>6, <2>1, <2>2 DEF One
<1>7. QED BY <1>1, <1>4, <1>5, <1>6 DEF Kept

LEMMA TakesHere ==
  ASSUME NEW p \in Seq(Entries), p # <<>>, NEW o, NEW s, NEW K,
         Head(p).slot = s, Head(p).kind \in K, One(p, o, s, K)
  PROVE  Away(p, o, s, K) /\ ~Away(Tail(p), o, s, K) /\ One(Tail(p), o, s, K)
<1>1. PICK n, q : /\ n \in Nat /\ n = Len(p) /\ q = Tail(p) /\ DOMAIN q = 1 .. (n - 1)
                 /\ n > 0 /\ DOMAIN p = 1 .. n /\ Head(p) = p[1]
                 /\ \A i \in 1 .. (n - 1) : q[i] = p[i + 1]
  BY TailOf
<1>2. /\ DOMAIN q = 1 .. (n - 1) /\ n \in Nat /\ n > 0 /\ DOMAIN p = 1 .. n
      /\ \A i \in 1 .. (n - 1) : q[i] = p[i + 1]
  BY <1>1
<1>3. p[1].slot = s /\ p[1].kind \in K /\ 1 \in DOMAIN p
  BY <1>1
<1>4. \A g \in Ids, k \in K : ~ (SlotOf(g) = s /\ o[g][k] > 0)
  BY <1>3 DEF One
<1>5. ASSUME NEW i \in DOMAIN q, q[i].slot = s, q[i].kind \in K PROVE FALSE
  <2>1. i + 1 \in DOMAIN p /\ q[i] = p[i + 1] BY <1>2
  <2>2. i + 1 = 1 BY <1>3, <1>5, <2>1 DEF One
  <2>3. QED BY <1>2, <2>2
<1>6. ~Away(q, o, s, K) BY <1>4, <1>5 DEF Away
<1>7. One(q, o, s, K) BY <1>4, <1>5 DEF One
<1>8. Away(p, o, s, K) BY <1>3 DEF Away
<1>9. QED BY <1>1, <1>6, <1>7, <1>8

LEMMA AppendIs ==
  \A Z : \A q \in Seq(Z) : \A e \in Z :
    /\ DOMAIN Append(q, e) = 1 .. (Len(q) + 1) /\ Len(q) \in Nat /\ DOMAIN q = 1 .. Len(q)
    /\ \A i \in 1 .. Len(q) : Append(q, e)[i] = q[i]
    /\ Append(q, e)[Len(q) + 1] = e
OBVIOUS

LEMMA EntryIs ==
  ASSUME NEW s, NEW k, NEW ok
  PROVE  /\ Completion(s, k, ok).slot = s /\ Completion(s, k, ok).kind = k
         /\ Completion(s, k, ok).ok = ok
BY DEF Completion

(* An operation completes: from the kernel to the port.                     *)
LEMMA CompletesKeeps ==
  ASSUME NEW p \in Seq(Entries), NEW o \in IoSet, NEW g \in Ids, NEW k \in Kinds,
         NEW ok \in BOOLEAN, NEW p2, NEW o2, NEW s, NEW K \in SUBSET Kinds,
         o[g][k] = 1, o2 = [o EXCEPT ![g][k] = 0],
         p2 = Append(p, Completion(SlotOf(g), k, ok))
  PROVE  Kept(p, o, p2, o2, s, K)
<1>1. PICK n, e : n \in Nat /\ n = Len(p) /\ e = Completion(SlotOf(g), k, ok) OBVIOUS
<1>2. e.slot = SlotOf(g) /\ e.kind = k /\ e \in Entries BY <1>1, EntryIs, CompletionTyped
<1>3. /\ DOMAIN p2 = 1 .. (n + 1) /\ DOMAIN p = 1 .. n /\ n \in Nat
      /\ \A i \in 1 .. n : p2[i] = p[i]
      /\ p2[n + 1] = e
  BY <1>1, <1>2, AppendIs
<1>4. PICK m : m = n + 1 /\ m \in DOMAIN p2 /\ m \notin DOMAIN p BY <1>3
<1>5. p2[m] = e /\ (\A i \in DOMAIN p2 : i # m => i \in DOMAIN p /\ p2[i] = p[i])
      /\ (\A i \in DOMAIN p : i \in DOMAIN p2 /\ p2[i] = p[i])
  BY <1>3, <1>4
<1>6. ~ (o2[g][k] > 0) /\ o[g][k] > 0
  BY DEF IoSet
<1>7. \A f \in Ids, l \in Kinds : f # g \/ l # k => o2[f][l] = o[f][l]
  BY DEF IoSet
<1>8. ASSUME Away(p, o, s, K) PROVE Away(p2, o2, s, K)
  <2>1. CASE \E i \in DOMAIN p : p[i].slot = s /\ p[i].kind \in K
    BY <1>5, <2>1 DEF Away
  <2>2. CASE \E f \in Ids, l \in K : SlotOf(f) = s /\ o[f][l] > 0
    <3>1. PICK f \in Ids, l \in K : SlotOf(f) = s /\ o[f][l] > 0 BY <2>2
    <3>2. CASE f = g /\ l = k
      BY <1>2, <1>4, <1>5, <3>1, <3>2 DEF Away
    <3>3. CASE f # g \/ l # k
      BY <1>7, <3>1, <3>3 DEF Away
    <3>4. QED BY <3>2, <3>3
  <2>3. QED BY <1>8, <2>1, <2>2 DEF Away
<1>9. ASSUME Away(p2, o2, s, K) PROVE Away(p, o, s, K)
  <2>1. CASE \E i \in DOMAIN p2 : p2[i].slot = s /\ p2[i].kind \in K
    <3>1. PICK i \in DOMAIN p2 : p2[i].slot = s /\ p2[i].kind \in K BY <2>1
    <3>2. CASE i = m BY <1>2, <1>5, <1>6, <3>1, <3>2 DEF Away
    <3>3. CASE i # m BY <1>5, <3>1, <3>3 DEF Away
    <3>4. QED BY <3>2, <3>3
  <2>2. CASE \E f \in Ids, l \in K : SlotOf(f) = s /\ o2[f][l] > 0
    BY <1>6, <1>7, <2>2 DEF Away
  <2>3. QED BY <1>9, <2>1, <2>2 DEF Away
<1>10. ASSUME One(p, o, s, K) PROVE One(p2, o2, s, K)
  <2>1. \A i, j \in DOMAIN p2 :
          p2[i].slot = s /\ p2[i].kind \in K /\ p2[j].slot = s /\ p2[j].kind \in K => i = j
    BY <1>2, <1>5, <1>6, <1>10 DEF One
  <2>2. \A a, b \in Ids, c, d \in K :
          SlotOf(a) = s /\ SlotOf(b) = s /\ o2[a][c] > 0 /\ o2[b][d] > 0 => a = b /\ c = d
    BY <1>6, <1>7, <1>10 DEF One
  <2>3. ASSUME NEW i \in DOMAIN p2, NEW f \in Ids, NEW l \in K, p2[i].slot = s,
               p2[i].kind \in K, SlotOf(f) = s, o2[f][l] > 0
        PROVE  FALSE
    <3>1. f # g \/ l # k BY <1>6, <2>3
    <3>2. o[f][l] > 0 BY <1>7, <2>3, <3>1
    <3>3. CASE i = m BY <1>2, <1>5, <1>6, <1>10, <2>3, <3>1, <3>2, <3>3 DEF One
    <3>4. CASE i # m BY <1>5, <1>10, <2>3, <3>2, <3>4 DEF One
    <3>5. QED BY <3>3, <3>4
  <2>4. QED BY <2>1, <2>2, <2>3 DEF One
<1>11. QED BY <1>8, <1>9, <1>10 DEF Kept

(* The operations of one kind of a socket that is closed or cancelled: none *)
(* or one, from the kernel to the port.                                     *)
Zeroed(o2, o, g, k) == o2 = [o EXCEPT ![g][k] = 0]
Dropped(G, o, g, k) == G = [i \in 1 .. o[g][k] |-> Completion(SlotOf(g), k, FALSE)]

LEMMA DropsKeep ==
  ASSUME NEW p \in Seq(Entries), NEW o \in IoSet, NEW g \in Ids, NEW k \in Kinds,
         NEW s, NEW K \in SUBSET Kinds, o[g][k] <= 1, NEW G,
         Dropped(G, o, g, k), NEW o2, Zeroed(o2, o, g, k)
  PROVE  /\ Kept(p, o, p \o G, o2, s, K) /\ p \o G \in Seq(Entries) /\ G \in Seq(Entries)
         /\ o2 \in IoSet
<1>0. o2 = [o EXCEPT ![g][k] = 0] BY DEF Zeroed
<1>1. PICK e : e = Completion(SlotOf(g), k, FALSE) OBVIOUS
<1>2. e \in Entries BY <1>1, CompletionTyped
<1>3. PICK n : n = o[g][k] OBVIOUS
<1>4. n \in Nat /\ n <= 1 BY <1>3 DEF IoSet
<1>5. G \in Seq(Entries) /\ Len(G) = n /\ (n = 1 => G[1] = e)
  <2>1. [i \in 1 .. n |-> e] \in Seq(Entries) /\ Len([i \in 1 .. n |-> e]) = n
        /\ (n = 1 => [i \in 1 .. n |-> e][1] = e)
    BY <1>2, <1>4
  <2>2. G = [i \in 1 .. n |-> e] BY <1>1, <1>3 DEF Dropped
  <2>3. QED BY <2>1, <2>2
<1>6. o2 \in IoSet
  <2>1. PICK f : f = [o[g] EXCEPT ![k] = 0] OBVIOUS
  <2>2. f \in [Kinds -> Nat] BY <2>1 DEF IoSet
  <2>3. o2 = [o EXCEPT ![g] = f] BY <1>0, <2>1
  <2>4. QED BY <2>2, <2>3 DEF IoSet
<1>7. CASE n = 0
  <2>1. G = <<>>
    <3>1. \A Z : \A q \in Seq(Z) : Len(q) = 0 => q = <<>> OBVIOUS
    <3>2. QED BY <1>5, <1>7, <3>1
  <2>2. \A Z : \A q \in Seq(Z) : q \o <<>> = q OBVIOUS
  <2>3. p \o G = p BY <2>1, <2>2
  <2>4. o2 = o
    <3>1. PICK f : f = [o[g] EXCEPT ![k] = 0] OBVIOUS
    <3>2. f = o[g] BY <1>3, <1>7, <3>1 DEF IoSet
    <3>3. o2 = [o EXCEPT ![g] = f] BY <1>0, <3>1
    <3>4. QED BY <3>2, <3>3 DEF IoSet
  <2>5. Kept(p, o, p \o G, o2, s, K) BY <2>3, <2>4 DEF Kept
  <2>6. G \in Seq(Entries) BY <1>5
  <2>7. QED BY <1>6, <2>3, <2>5, <2>6
<1>8. CASE n = 1
  <2>1. G = <<e>>
    <3>1. \A Z : \A q \in Seq(Z) : Len(q) = 1 => q = <<q[1]>> OBVIOUS
    <3>2. QED BY <1>5, <1>8, <3>1
  <2>2. \A Z : \A q \in Seq(Z), a \in Z : q \o <<a>> = Append(q, a) /\ Append(q, a) \in Seq(Z)
                                          /\ <<a>> \in Seq(Z)
    OBVIOUS
  <2>3. p \o G = Append(p, e) /\ Append(p, e) \in Seq(Entries) /\ G \in Seq(Entries)
    BY <1>2, <2>1, <2>2
  <2>4. o[g][k] = 1 BY <1>3, <1>8
  <2>5. Kept(p, o, Append(p, e), o2, s, K) BY <1>0, <1>1, <2>4, CompletesKeeps
  <2>6. QED BY <1>6, <2>3, <2>5
<1>9. QED BY <1>4, <1>7, <1>8

LEMMA AbortKeeps ==
  ASSUME TypeInv, NEW g \in Ids, AbortIo(g), \A k \in Kinds : io[g][k] <= 1,
         NEW s, NEW K \in SUBSET Kinds
  PROVE  Kept(port, io, port', io', s, K)
<1>1. port \in Seq(Entries) /\ io \in IoSet BY TypeInvIs DEF RestTypes
<1>2. PICK a, b, c : a = "connect" /\ b = "recv" /\ c = "send" OBVIOUS
<1>3. Kinds = {a, b, c} /\ a # b /\ b # c /\ a # c BY <1>2 DEF Kinds
<1>4. PICK o1 : o1 = [io EXCEPT ![g][a] = 0] OBVIOUS
<1>5. PICK o2 : o2 = [o1 EXCEPT ![g][b] = 0] OBVIOUS
<1>6. PICK o3 : o3 = [o2 EXCEPT ![g][c] = 0] OBVIOUS
<1>7. PICK A : A = Given(g, a) OBVIOUS
<1>8. PICK B : B = Given(g, b) OBVIOUS
<1>9. PICK C : C = Given(g, c) OBVIOUS
<1>10. Kept(port, io, port \o A, o1, s, K) /\ port \o A \in Seq(Entries) /\ A \in Seq(Entries)
       /\ o1 \in IoSet
  <2>1. Dropped(A, io, g, a) /\ Zeroed(o1, io, g, a)
    BY <1>4, <1>7 DEF Given, Dropped, Zeroed
  <2>2. io[g][a] <= 1 /\ a \in Kinds BY <1>3
  <2>3. QED BY ONLY <1>1, <2>1, <2>2, DropsKeep, g \in Ids, K \in SUBSET Kinds
<1>11. o1[g][b] = io[g][b] /\ o1[g][c] = io[g][c] BY <1>1, <1>3, <1>4 DEF IoSet
<1>12. Kept(port \o A, o1, (port \o A) \o B, o2, s, K) /\ (port \o A) \o B \in Seq(Entries)
       /\ B \in Seq(Entries) /\ o2 \in IoSet
  <2>1. Dropped(B, o1, g, b) /\ Zeroed(o2, o1, g, b)
    BY <1>5, <1>8, <1>11 DEF Given, Dropped, Zeroed
  <2>2. o1[g][b] <= 1 /\ b \in Kinds BY <1>3, <1>11
  <2>3. PICK p : p = port \o A OBVIOUS
  <2>4. p \in Seq(Entries) /\ o1 \in IoSet BY <1>10, <2>3
  <2>5. Kept(p, o1, p \o B, o2, s, K) /\ p \o B \in Seq(Entries) /\ B \in Seq(Entries)
        /\ o2 \in IoSet
    BY ONLY <2>1, <2>2, <2>4, DropsKeep, g \in Ids, K \in SUBSET Kinds
  <2>6. QED BY <2>3, <2>5
<1>13. o2[g][c] = io[g][c] BY <1>3, <1>5, <1>10, <1>11 DEF IoSet
<1>14. Kept((port \o A) \o B, o2, ((port \o A) \o B) \o C, o3, s, K) /\ C \in Seq(Entries)
  <2>1. Dropped(C, o2, g, c) /\ Zeroed(o3, o2, g, c)
    BY <1>6, <1>9, <1>13 DEF Given, Dropped, Zeroed
  <2>2. o2[g][c] <= 1 /\ c \in Kinds BY <1>3, <1>13
  <2>3. PICK p : p = (port \o A) \o B OBVIOUS
  <2>4. p \in Seq(Entries) /\ o2 \in IoSet BY <1>12, <2>3
  <2>5. Kept(p, o2, p \o C, o3, s, K) /\ C \in Seq(Entries)
    BY ONLY <2>1, <2>2, <2>4, DropsKeep, g \in Ids, K \in SUBSET Kinds
  <2>6. QED BY <2>3, <2>5
<1>15. Kept(port, io, ((port \o A) \o B) \o C, o3, s, K)
  BY <1>10, <1>12, <1>14, KeptTwice
<1>16. port' = ((port \o A) \o B) \o C
  <2>1. \A Z : \A w, x, y, z \in Seq(Z) : w \o (x \o y \o z) = ((w \o x) \o y) \o z OBVIOUS
  <2>2. port' = port \o (A \o B \o C) BY <1>2, <1>7, <1>8, <1>9, AbortIs
  <2>3. PICK E : E = Entries OBVIOUS
  <2>4. port \in Seq(E) /\ A \in Seq(E) /\ B \in Seq(E) /\ C \in Seq(E)
    BY <1>1, <1>10, <1>12, <1>14, <2>3
  <2>5. port \o (A \o B \o C) = ((port \o A) \o B) \o C BY ONLY <2>1, <2>4
  <2>6. QED BY ONLY <2>2, <2>5
<1>17. io' = o3
  <2>1. io' = [io EXCEPT ![g] = [k \in Kinds |-> 0]] BY AbortIs
  <2>2. o1 = [io EXCEPT ![g] = [io[g] EXCEPT ![a] = 0]] BY <1>4
  <2>3. PICK f1, f2, f3 : f1 = [io[g] EXCEPT ![a] = 0] /\ f2 = [f1 EXCEPT ![b] = 0]
                          /\ f3 = [f2 EXCEPT ![c] = 0]
    OBVIOUS
  <2>4. io[g] \in [Kinds -> Nat] BY <1>1 DEF IoSet
  <2>5. f1 \in [Kinds -> Nat] /\ f1[a] = 0 BY <1>3, <2>3, <2>4
  <2>6. f2 \in [Kinds -> Nat] /\ f2[a] = 0 /\ f2[b] = 0 BY <1>3, <2>3, <2>5
  <2>7. f3 \in [Kinds -> Nat] /\ f3[a] = 0 /\ f3[b] = 0 /\ f3[c] = 0 BY <1>3, <2>3, <2>6
  <2>8. f3 = [k \in Kinds |-> 0] BY <1>3, <2>7
  <2>9. o1 = [io EXCEPT ![g] = f1] BY <2>2, <2>3
  <2>10. o2 = [io EXCEPT ![g] = f2] BY <1>1, <1>5, <2>3, <2>9 DEF IoSet
  <2>11. o3 = [io EXCEPT ![g] = f3] BY <1>1, <1>6, <2>3, <2>10 DEF IoSet
  <2>12. QED BY <2>1, <2>8, <2>11
<1>18. QED BY <1>15, <1>16, <1>17

-----------------------------------------------------------------------------
(* A slot that a step does not touch.                                       *)
Apart(s) == \A u \in Threads : th[u].s = s \/ th'[u].s = s => th'[u] = th[u]

KeptBoth(s) ==
  /\ Kept(port, io, port', io', s, RecvKinds)
  /\ Kept(port, io, port', io', s, SendKinds)

GoneSame(s) == \A g \in Ids : SlotOf(g) = s => gone'[g] = gone[g]

Frame(s) ==
  /\ session'[s] = session[s] /\ Apart(s) /\ KeptBoth(s) /\ (Taken(s)' <=> Taken(s))
  /\ GoneSame(s) /\ idGen <= idGen'

LEMMA QuietKept ==
  ASSUME NEW s, KeptBoth(s)
  PROVE  /\ Quiet(s)' <=> Quiet(s)
         /\ Away(port, io, s, RecvKinds)' <=> Away(port, io, s, RecvKinds)
         /\ Away(port, io, s, SendKinds)' <=> Away(port, io, s, SendKinds)
BY DEF KeptBoth, Kept, Quiet

LEMMA HeldApart ==
  ASSUME NEW s, Apart(s)
  PROVE  HeldBy(th', s) = HeldBy(th, s)
<1>1. \A u \in Threads : Share(th'[u], s) = Share(th[u], s)
  BY DEF Apart, Share
<1>2. QED BY <1>1 DEF HeldBy

LEMMA RefsApart ==
  ASSUME NEW s, Apart(s), KeptBoth(s)
  PROVE  Refs(s)' = Refs(s)
BY HeldApart, QuietKept DEF Refs, Flag

LEMMA UsedApart ==
  ASSUME NEW s, Apart(s), KeptBoth(s)
  PROVE  Used(s)' <=> Used(s)
BY QuietKept DEF Used, Apart

LEMMA UnusedKept ==
  ASSUME NEW s, NEW x, GoneSame(s), x.id \in Ids => SlotOf(x.id) = s
  PROVE  /\ Unused(x)' <=> Unused(x)
         /\ (x.id \in Ids /\ gone[x.id] = 0)' <=> (x.id \in Ids /\ gone[x.id] = 0)
BY DEF Unused, GoneSame

LEMMA ShapeKept ==
  ASSUME NEW h, Shape(h), TypeInv, TypeInv', idGen <= idGen'
  PROVE  Shape(h)'
<1>1. idGen \in Nat /\ idGen' \in Nat
  BY TypeInvIs, TypeInvNext DEF RestTypes
<1>2. h.id \in Ids => h.id[2] \in Nat
  BY SlotOfId
<1>3. h.at \in Creates => h.id[2] <= idGen'
  BY <1>1, <1>2 DEF Shape
<1>4. QED BY <1>3 DEF Shape

LEMMA OwnKept ==
  ASSUME NEW s \in Slots, NEW x \in SessionsSet, Own(s, x), TypeInv, TypeInv', idGen <= idGen'
  PROVE  Own(s, x)' /\ (x.id \in Ids => SlotOf(x.id) = s)
<1>1. idGen \in Nat /\ idGen' \in Nat
  BY TypeInvIs, TypeInvNext DEF RestTypes
<1>2. x.id \in Ids \cup {NoId} /\ NoId \notin Ids BY ClientAssumption DEF SessionsSet
<1>3. x.id # NoId => x.id[2] \in Nat
  BY <1>2, SlotOfId
<1>4. QED BY <1>1, <1>2, <1>3 DEF Own

LEMMA FrameSlot ==
  ASSUME TypeInv, TypeInv', NEW s \in Slots, SlotCalm(s), Frame(s), Shapes
  PROVE  SlotCalm(s)'
<1>1. PICK x : x = session[s] OBVIOUS
<1>2. x \in SessionsSet /\ session'[s] = x BY <1>1, SessionsAre DEF Frame
<1>3. Apart(s) /\ KeptBoth(s) /\ GoneSame(s) /\ idGen <= idGen' /\ (Taken(s)' <=> Taken(s))
  BY DEF Frame
<1>4. SlotOk(s) /\ RecvSide(s) /\ SendSide(s) BY DEF SlotCalm
<1>5. Own(s, x) /\ Own(s, x)' /\ (x.id \in Ids => SlotOf(x.id) = s)
  BY <1>1, <1>2, <1>3, <1>4, OwnKept DEF SlotOk
<1>6. /\ Unused(x)' <=> Unused(x)
      /\ x.id \in Ids /\ gone[x.id] = 0 => x.id \in Ids /\ gone'[x.id] = 0
  BY <1>3, <1>5, UnusedKept
<1>7. Quiet(s)' <=> Quiet(s) BY <1>3, QuietKept
<1>8. Nobody(s) => Nobody(s)' BY <1>3, <1>7 DEF Nobody, Apart
<1>9. ASSUME NEW u \in Threads, th'[u].s = s
      PROVE  ~Taken(s)' /\ ThreadOk(u, th[u], s, x)'
  <2>1. PICK h : h = th[u] OBVIOUS
  <2>2. th'[u] = h /\ h.s = s BY <1>3, <1>9, <2>1 DEF Apart
  <2>3. ~Taken(s) /\ ThreadOk(u, h, s, x) BY <1>1, <1>4, <2>1, <2>2 DEF SlotOk
  <2>4. Alone(u, s) => Alone(u, s)' BY <1>3, <1>7 DEF Alone, Apart
  <2>5. h.at = "activate" => gone[h.id] = 0 /\ gone'[h.id] = 0
    <3>1. h.at = "activate" => h.id \in Ids /\ SlotOf(h.id) = s
      BY <2>1, <2>2 DEF Shapes, Shape, Creates
    <3>2. QED BY <1>3, <2>3, <3>1 DEF ThreadOk, GoneSame
  <2>6. ThreadOk(u, h, s, x)' BY <1>6, <2>3, <2>4, <2>5 DEF ThreadOk
  <2>7. QED BY <1>3, <2>2, <2>3, <2>6
<1>10. Used(s)' => Counted(s, x)'
  <2>1. Used(s)' => Used(s) BY <1>3, UsedApart
  <2>2. Used(s) => Counted(s, x) BY <1>1, <1>4 DEF SlotOk
  <2>3. Refs(s)' = Refs(s) BY <1>3, RefsApart
  <2>4. QED BY <1>6, <2>1, <2>2, <2>3 DEF Counted
<1>11. SlotOk(s)'
  <2>1. Taken(s)' => Nobody(s)' /\ Unused(x)'
    BY <1>1, <1>3, <1>4, <1>6, <1>8 DEF SlotOk
  <2>2. QED BY <1>2, <1>5, <1>9, <1>10, <2>1 DEF SlotOk
<1>12. RecvSide(s)'
  <2>1. One(port', io', s, RecvKinds) BY <1>3, <1>4 DEF RecvSide, KeptBoth, Kept
  <2>2. Away(port', io', s, RecvKinds) <=> Away(port, io, s, RecvKinds)
    BY <1>3 DEF KeptBoth, Kept
  <2>3. QED BY <1>3, <1>4, <2>1, <2>2 DEF RecvSide, Apart
<1>13. SendSide(s)'
  <2>1. One(port', io', s, SendKinds) BY <1>3, <1>4 DEF SendSide, KeptBoth, Kept
  <2>2. Away(port', io', s, SendKinds) <=> Away(port, io, s, SendKinds)
    BY <1>3 DEF KeptBoth, Kept
  <2>3. QED BY <1>1, <1>2, <1>3, <1>4, <2>1, <2>2 DEF SendSide, Apart
<1>14. QED BY <1>11, <1>12, <1>13 DEF SlotCalm

-----------------------------------------------------------------------------
(* A step of a thread on a slot that is in use.                             *)
LEMMA TurnApart ==
  ASSUME TypeInv, NEW t \in Threads, NEW h, NEW h2, Moves(t, h, h2), NEW s, h.s # s, h2.s # s
  PROVE  Apart(s)
BY RecordsAre DEF Moves, Apart

LEMMA TurnIs ==
  ASSUME TypeInv, NEW t \in Threads, NEW h, NEW h2, Moves(t, h, h2)
  PROVE  /\ h = th[t] /\ th'[t] = h2 /\ h \in Contexts /\ h2 \in Contexts /\ Placed(h)
         /\ th \in [Threads -> Contexts] /\ th' = [th EXCEPT ![t] = h2]
         /\ \A u \in Threads : u # t => th'[u] = th[u]
BY RecordsAre DEF Moves

LEMMA TurnShapes ==
  ASSUME TypeInv, TypeInv', Shapes, NEW t \in Threads, NEW h, NEW h2, Moves(t, h, h2),
         Shape(h2)', idGen <= idGen'
  PROVE  Shapes'
<1>1. th'[t] = h2 /\ \A u \in Threads : u # t => th'[u] = th[u] BY TurnIs
<1>2. ASSUME NEW u \in Threads PROVE Shape(th[u])'
  <2>1. CASE u = t BY <1>1, <2>1
  <2>2. CASE u # t
    <3>1. PICK k : k = th[u] OBVIOUS
    <3>2. Shape(k) BY <3>1 DEF Shapes
    <3>3. Shape(k)' BY <3>2, ShapeKept
    <3>4. th'[u] = k BY <1>1, <2>2, <3>1
    <3>5. QED BY <3>3, <3>4
  <2>3. QED BY <2>1, <2>2
<1>3. QED BY <1>2 DEF Shapes

LEMMA WeightIs ==
  ASSUME NEW h \in Contexts, Placed(h), h.s \in Slots, h.at \notin Creates \cup Deletes
  PROVE  Weight(h) > 0
<1>1. h.at # "idle"
  BY IdleIs, ClientAssumption DEF Placed
<1>2. h.owed \in 0 .. 2 /\ Base(h) \in 0 .. 1 BY DEF Contexts, Base
<1>3. h.at = "dec" => h.owed >= 1 BY DEF Placed
<1>4. h.at \in Served \cup {"use", "cancel", "dec"} \cup Sends
  BY <1>1 DEF Contexts, Labels, Creates, Deletes, Served, Sends
<1>5. PICK n, b : n = h.owed /\ b = Base(h) OBVIOUS
<1>6. n \in 0 .. 2 /\ b \in 0 .. 1 /\ (h.at = "dec" => n >= 1) BY <1>2, <1>3, <1>5
<1>7. QED BY <1>4, <1>5, <1>6 DEF Weight, Served, Sends

LEMMA RefsNatural ==
  ASSUME NEW s
  PROVE  Refs(s) \in Nat /\ Refs(s) < 2147483647
<1>1. /\ Cardinality(HeldBy(th, s)) \in Nat
      /\ Cardinality(HeldBy(th, s)) <= 3 * Cardinality(Threads)
  BY HeldBounded
<1>2. PICK n, c : n = Cardinality(HeldBy(th, s)) /\ c = 3 * Cardinality(Threads) OBVIOUS
<1>3. n \in Nat /\ n <= c /\ c + 2 < 2147483647 /\ c \in Nat
  BY <1>1, <1>2, CounterAssumption, ThreadsFinite
<1>4. PICK a, b : a = Flag(Away(port, io, s, RecvKinds)) /\ b = Flag(Away(port, io, s, SendKinds))
  OBVIOUS
<1>5. a \in 0 .. 1 /\ b \in 0 .. 1 BY <1>4 DEF Flag
<1>6. n + a + b \in Nat /\ n + a + b < 2147483647 BY <1>3, <1>5
<1>7. QED BY <1>2, <1>4, <1>6 DEF Refs

(* What a step of a thread changes of the references.                       *)
LEMMA RefsTurn ==
  ASSUME TypeInv, NEW t \in Threads, NEW h, NEW h2, Moves(t, h, h2), NEW s
  PROVE  /\ Share(h, s) \in 0 .. 3 /\ Share(h2, s) \in 0 .. 3
         /\ Refs(s)' = Refs(s) - Share(h, s) + Share(h2, s)
              - Flag(Away(port, io, s, RecvKinds)) + Flag(Away(port', io', s, RecvKinds))
              - Flag(Away(port, io, s, SendKinds)) + Flag(Away(port', io', s, SendKinds))
<1>1. h = th[t] /\ h \in Contexts /\ h2 \in Contexts /\ th \in [Threads -> Contexts]
      /\ th' = [th EXCEPT ![t] = h2]
  BY TurnIs
<1>2. Share(h, s) \in 0 .. 3 /\ Share(h2, s) \in 0 .. 3 BY <1>1, SharesAre
<1>3. Cardinality(HeldBy(th', s)) = Cardinality(HeldBy(th, s)) - Share(h, s) + Share(h2, s)
  <2>1. \A u \in Threads : u # t => th'[u] = th[u] BY TurnIs
  <2>2. th'[t] = h2 BY TurnIs
  <2>3. Turned(th, th', t, h, h2) BY <1>1, <2>1, <2>2 DEF Turned
  <2>4. QED BY <2>3, HeldChanges
<1>4. Cardinality(HeldBy(th, s)) \in Nat BY HeldBounded
<1>5. PICK n, m, i, j : /\ n = Cardinality(HeldBy(th, s)) /\ m = Cardinality(HeldBy(th', s))
                        /\ i = Share(h, s) /\ j = Share(h2, s)
  OBVIOUS
<1>6. PICK a, b, c, d : /\ a = Flag(Away(port, io, s, RecvKinds))
                        /\ b = Flag(Away(port', io', s, RecvKinds))
                        /\ c = Flag(Away(port, io, s, SendKinds))
                        /\ d = Flag(Away(port', io', s, SendKinds))
  OBVIOUS
<1>7. a \in 0 .. 1 /\ b \in 0 .. 1 /\ c \in 0 .. 1 /\ d \in 0 .. 1 BY <1>6 DEF Flag
<1>8. Refs(s) = n + a + c /\ Refs(s)' = m + b + d BY <1>5, <1>6 DEF Refs
<1>9. n \in Nat /\ i \in 0 .. 3 /\ j \in 0 .. 3 /\ m = n - i + j BY <1>2, <1>3, <1>4, <1>5
<1>10. m + b + d = n + a + c - i + j - a + b - c + d BY <1>7, <1>9
<1>11. Refs(s)' = Refs(s) - i + j - a + b - c + d BY ONLY <1>7, <1>8, <1>9, <1>10
<1>12. QED BY ONLY <1>2, <1>5, <1>6, <1>11

LEMMA RefsNone ==
  ASSUME TypeInv', NEW s, Refs(s)' = 0
  PROVE  Quiet(s)' /\ \A u \in Threads : Share(th'[u], s) = 0
<1>1. th' \in [Threads -> Contexts] BY TypeInvNext DEF ThreadTypes
<1>2. Cardinality(HeldBy(th', s)) \in Nat BY HeldBounded
<1>3. PICK n : n = Cardinality(HeldBy(th', s)) OBVIOUS
<1>4. PICK b, d : /\ b = Flag(Away(port', io', s, RecvKinds))
                  /\ d = Flag(Away(port', io', s, SendKinds))
  OBVIOUS
<1>5. b \in 0 .. 1 /\ d \in 0 .. 1 BY <1>4 DEF Flag
<1>6. n + b + d = 0 BY <1>3, <1>4 DEF Refs
<1>7. n = 0 /\ b = 0 /\ d = 0
  <2>1. n \in Nat BY <1>2, <1>3
  <2>2. QED BY ONLY <1>5, <1>6, <2>1
<1>8. Quiet(s)' BY <1>4, <1>7 DEF Quiet, Flag
<1>9. QED BY <1>1, <1>3, <1>7, <1>8, HeldNone

(* Nobody else is setting a used slot up or taking it down.                 *)
Crowd(t, s) ==
  \A u \in Threads : u # t /\ th[u].s = s => th[u].at \notin Creates \cup Deletes

LEMMA CrowdIs ==
  ASSUME NEW s, SlotOk(s), NEW t \in Threads, th[t].s = s \/ ~Quiet(s)
  PROVE  Crowd(t, s)
BY DEF Crowd, SlotOk, ThreadOk, Alone

LEMMA UsedTaken ==
  ASSUME NEW s, SlotOk(s), Used(s)
  PROVE  ~Taken(s)
BY DEF Used, SlotOk, Nobody

LEMMA BusySlot ==
  ASSUME TypeInv, TypeInv', NEW s \in Slots, SlotOk(s), Used(s), NEW t \in Threads, NEW h, NEW h2,
         Moves(t, h, h2), Crowd(t, s), NEW x, NEW x2, SessMoves(s, x, x2),
         x2.id = x.id, x2.socket = x.socket, Taken(s)' <=> Taken(s), UNCHANGED <<gone, idGen>>,
         x2.count = Refs(s)',
         h2.at \notin Creates \cup Deletes \/ (h2.at = "delete" /\ x2.count = 0)
  PROVE  SlotOk(s)'
<1>1. /\ h = th[t] /\ th'[t] = h2 /\ h \in Contexts /\ h2 \in Contexts /\ Placed(h)
      /\ \A u \in Threads : u # t => th'[u] = th[u]
  BY TurnIs
<1>2. x = session[s] /\ session'[s] = x2
  BY SessionsAre DEF SessMoves
<1>3. Own(s, x) /\ Counted(s, x) /\ ~Taken(s) BY <1>2, UsedTaken DEF SlotOk
<1>4. Own(s, x2)' BY <1>3 DEF Own
<1>5. x2.id \in Ids /\ gone'[x2.id] = 0 BY <1>3 DEF Counted
<1>6. Counted(s, x2)' BY <1>5 DEF Counted
<1>7. ASSUME h2.at = "delete", x2.count = 0 PROVE Alone(t, s)'
  <2>1. Quiet(s)' /\ \A u \in Threads : Share(th'[u], s) = 0 BY <1>7, RefsNone
  <2>2. ASSUME NEW u \in Threads, u # t, th[u].s = s PROVE FALSE
    <3>1. th[u] \in Contexts /\ Placed(th[u]) BY RecordsAre
    <3>2. Weight(th[u]) > 0 BY <2>2, <3>1, WeightIs DEF Crowd
    <3>3. Share(th[u], s) = 0 BY <1>1, <2>1, <2>2
    <3>4. QED BY <2>2, <3>2, <3>3 DEF Share
  <2>3. QED BY <1>1, <2>1, <2>2 DEF Alone
<1>8. ThreadOk(t, h2, s, x2)'
  <2>1. CASE h2.at \notin Creates \cup Deletes
    BY <2>1 DEF ThreadOk, Creates, Deletes
  <2>2. CASE h2.at = "delete" /\ x2.count = 0
    BY <1>5, <1>7, <2>2 DEF ThreadOk
  <2>3. QED BY <2>1, <2>2
<1>9. ASSUME NEW u \in Threads, th'[u].s = s PROVE ThreadOk(u, th[u], s, x2)'
  <2>1. CASE u = t BY <1>1, <1>8, <2>1
  <2>2. CASE u # t
    <3>1. th'[u].at \notin Creates \cup Deletes BY <1>1, <1>9, <2>2 DEF Crowd
    <3>2. QED BY <3>1 DEF ThreadOk, Creates, Deletes
  <2>3. QED BY <2>1, <2>2
<1>10. QED BY <1>2, <1>3, <1>4, <1>6, <1>9 DEF SlotOk

Unpooled == UNCHANGED <<indexStack, sessionCount, idGen, gone>>

LEMMA BusyStep ==
  ASSUME TypeInv, TypeInv', Calm, NEW s \in Slots, NEW t \in Threads, NEW h, NEW h2,
         Moves(t, h, h2), h.s \in {s, NoSlot}, h2.s \in {s, NoSlot},
         NEW x, NEW x2, SessMoves(s, x, x2), x2.id = x.id, x2.socket = x.socket,
         Unpooled, Used(s), Crowd(t, s), Shape(h2)',
         \A q \in Slots : q # s => KeptBoth(q),
         x2.count = Refs(s)',
         h2.at \notin Creates \cup Deletes \/ (h2.at = "delete" /\ x2.count = 0),
         RecvSide(s)', SendSide(s)', IoOnce'
  PROVE  Calm'
<1>1. idGen <= idGen' BY TypeInvIs DEF RestTypes, Unpooled
<1>2. Shapes' BY <1>1, TurnShapes DEF Calm
<1>3. SlotOk(s) BY DEF Calm, SlotCalm
<1>4. \A q : Taken(q)' <=> Taken(q) BY DEF Taken, Unpooled
<1>5. UNCHANGED <<gone, idGen>> BY DEF Unpooled
<1>6. SlotOk(s)' BY <1>3, <1>4, <1>5, BusySlot
<1>7. ASSUME NEW q \in Slots PROVE SlotCalm(q)'
  <2>1. CASE q = s BY <1>6, <2>1 DEF SlotCalm
  <2>2. CASE q # s
    <3>1. Apart(q) BY <2>2, TurnApart, ClientAssumption
    <3>2. session'[q] = session[q] BY <2>2, SessionsAre DEF SessMoves
    <3>3. GoneSame(q) BY DEF GoneSame, Unpooled
    <3>4. Frame(q) BY <1>1, <1>4, <2>2, <3>1, <3>2, <3>3 DEF Frame
    <3>5. QED BY <3>4, FrameSlot DEF Calm
  <2>3. QED BY <2>1, <2>2
<1>8. GoneOnce' /\ IndexOnce' BY DEF Calm, Unpooled, GoneOnce, IndexOnce
<1>9. QED BY <1>2, <1>7, <1>8 DEF Calm

(* Steps that leave the operations of every slot where they are.            *)
AtSend(h, h2, x, x2) ==
  \/ SendH(h2) /\ x2.sending /\ (SendH(h) \/ ~x.sending)
  \/ ~SendH(h2) /\ (x.sending => x2.sending \/ SendH(h))

LEMMA RecvSideKept ==
  ASSUME TypeInv, NEW s \in Slots, RecvSide(s), NEW t \in Threads, NEW h, NEW h2,
         Moves(t, h, h2), h2.s = s => h.s = s, Kept(port, io, port', io', s, RecvKinds),
         RecvH(h2) => RecvH(h)
  PROVE  RecvSide(s)'
<1>1. h = th[t] /\ th'[t] = h2 /\ \A u \in Threads : u # t => th'[u] = th[u]
  BY TurnIs
<1>2. One(port', io', s, RecvKinds) BY DEF RecvSide, Kept
<1>3. Away(port', io', s, RecvKinds) <=> Away(port, io, s, RecvKinds)
  BY DEF Kept
<1>4. \A u \in Threads : th'[u].s = s /\ RecvH(th'[u]) => th[u].s = s /\ RecvH(th[u])
  BY <1>1
<1>5. QED BY <1>2, <1>3, <1>4 DEF RecvSide

LEMMA SendSideKept ==
  ASSUME TypeInv, NEW s \in Slots, SendSide(s), NEW t \in Threads, NEW h, NEW h2,
         Moves(t, h, h2), h.s = s \/ (~SendH(h) /\ ~SendH(h2)), NEW x, NEW x2,
         SessMoves(s, x, x2), Kept(port, io, port', io', s, SendKinds), AtSend(h, h2, x, x2)
  PROVE  SendSide(s)'
<1>1. h = th[t] /\ th'[t] = h2 /\ \A u \in Threads : u # t => th'[u] = th[u]
  BY TurnIs
<1>2. x = session[s] /\ session'[s] = x2 BY SessionsAre DEF SessMoves
<1>3. One(port', io', s, SendKinds) BY DEF SendSide, Kept
<1>4. Away(port', io', s, SendKinds) <=> Away(port, io, s, SendKinds)
  BY DEF Kept
<1>5. CASE SendH(h2) /\ x2.sending /\ (SendH(h) \/ ~x.sending)
  <2>1. \A u \in Threads : u # t /\ th'[u].s = s /\ SendH(th'[u]) => FALSE
    BY <1>1, <1>2, <1>5 DEF SendSide
  <2>2. ~Away(port, io, s, SendKinds) BY <1>1, <1>2, <1>5 DEF SendSide
  <2>3. QED BY <1>1, <1>2, <1>3, <1>4, <1>5, <2>1, <2>2 DEF SendSide
<1>6. CASE ~SendH(h2) /\ (x.sending => x2.sending \/ SendH(h))
  <2>1. \A u \in Threads : th'[u].s = s /\ SendH(th'[u])
                            => u # t /\ th[u].s = s /\ SendH(th[u])
    BY <1>1, <1>6
  <2>2. \A u \in Threads : th'[u].s = s /\ SendH(th'[u]) => x2.sending
    BY <1>1, <1>2, <1>6, <2>1 DEF SendSide
  <2>3. Away(port, io, s, SendKinds) => x2.sending BY <1>1, <1>2, <1>6 DEF SendSide
  <2>4. QED BY <1>2, <1>3, <1>4, <2>1, <2>2, <2>3 DEF SendSide
<1>7. QED BY <1>5, <1>6 DEF AtSend

LEMMA BusyIs ==
  ASSUME TypeInv, Calm, NEW s \in Slots, NEW t \in Threads, NEW h, h = th[t], h.s = s,
         Weight(h) > 0, NEW x, x = session[s]
  PROVE  /\ Used(s) /\ Counted(s, x) /\ Crowd(t, s) /\ Own(s, x) /\ RecvSide(s) /\ SendSide(s)
         /\ ThreadOk(t, h, s, x) /\ x.id \in Ids /\ SlotOf(x.id) = s /\ x.socket = x.id
         /\ x.count = Refs(s) /\ x.count \in Nat /\ LongInc(x.count) = x.count + 1
         /\ LongDec(x.count) = x.count - 1 /\ Shape(h)
<1>1. SlotOk(s) /\ RecvSide(s) /\ SendSide(s) /\ Shape(h) BY DEF Calm, SlotCalm, Shapes
<1>2. Used(s) BY DEF Used
<1>3. Counted(s, x) /\ Own(s, x) /\ ThreadOk(t, h, s, x) BY <1>1, <1>2 DEF SlotOk
<1>4. Crowd(t, s) BY <1>1, CrowdIs
<1>5. x.count = Refs(s) /\ x.id \in Ids /\ x.id # NoId BY <1>3, ClientAssumption DEF Counted
<1>6. PICK n : n = Refs(s) OBVIOUS
<1>7. n \in Nat /\ n < 2147483647 BY <1>6, RefsNatural
<1>8. LongInc(n) = n + 1 /\ LongDec(n) = n - 1 BY <1>7 DEF LongInc, LongDec, DeleteFlag
<1>9. SlotOf(x.id) = s /\ x.socket = x.id BY <1>3, <1>5 DEF Own
<1>10. QED BY <1>1, <1>2, <1>3, <1>4, <1>5, <1>6, <1>7, <1>8, <1>9

LEMMA ShareOf ==
  ASSUME NEW h, NEW s
  PROVE  /\ h.s = s => Share(h, s) = Weight(h)
         /\ h.s # s => Share(h, s) = 0
BY DEF Share

LEMMA BusyKept ==
  ASSUME TypeInv, TypeInv', Calm, NEW s \in Slots, NEW t \in Threads, NEW h, NEW h2,
         Moves(t, h, h2), h.s = s, h2.s \in {s, NoSlot},
         NEW x, NEW x2, SessMoves(s, x, x2), x2.id = x.id, x2.socket = x.socket,
         Unpooled, Weight(h) > 0, Shape(h2)',
         \A q \in Slots : KeptBoth(q), IoOnce',
         x2.count = x.count - Weight(h) + Share(h2, s),
         h2.at \notin Creates \cup Deletes \/ (h2.at = "delete" /\ x2.count = 0),
         RecvH(h2) => RecvH(h), AtSend(h, h2, x, x2)
  PROVE  Calm'
<1>1. h = th[t] BY TurnIs
<1>2. x = session[s] BY DEF SessMoves
<1>3. /\ Used(s) /\ Crowd(t, s) /\ RecvSide(s) /\ SendSide(s) /\ x.count = Refs(s)
      /\ x.count \in Nat
  BY <1>1, <1>2, BusyIs
<1>4. RecvSide(s)' /\ SendSide(s)' BY <1>3, RecvSideKept, SendSideKept DEF KeptBoth
<1>5. x2.count = Refs(s)'
  <2>1. /\ Share(h, s) \in 0 .. 3 /\ Share(h2, s) \in 0 .. 3
        /\ Refs(s)' = Refs(s) - Share(h, s) + Share(h2, s)
              - Flag(Away(port, io, s, RecvKinds)) + Flag(Away(port', io', s, RecvKinds))
              - Flag(Away(port, io, s, SendKinds)) + Flag(Away(port', io', s, SendKinds))
    BY RefsTurn
  <2>2. /\ Flag(Away(port', io', s, RecvKinds)) = Flag(Away(port, io, s, RecvKinds))
        /\ Flag(Away(port', io', s, SendKinds)) = Flag(Away(port, io, s, SendKinds))
    BY QuietKept DEF Flag
  <2>3. PICK a, b : /\ a = Flag(Away(port, io, s, RecvKinds))
                    /\ b = Flag(Away(port, io, s, SendKinds))
    OBVIOUS
  <2>4. a \in 0 .. 1 /\ b \in 0 .. 1 BY <2>3 DEF Flag
  <2>5. PICK n, i, j : n = Refs(s) /\ i = Share(h, s) /\ j = Share(h2, s) OBVIOUS
  <2>6. n \in Nat /\ i \in 0 .. 3 /\ j \in 0 .. 3 BY <1>3, <2>1, <2>5
  <2>7. Refs(s)' = n - i + j - a + a - b + b BY <2>1, <2>2, <2>3, <2>5
  <2>8. x2.count = n - i + j BY <1>3, <2>5, ShareOf
  <2>9. QED BY <2>4, <2>6, <2>7, <2>8
<1>6. QED BY <1>3, <1>4, <1>5, BusyStep

(* What a thread holds where it goes on.                                    *)
LEMMA WeightTable ==
  ASSUME NEW h
  PROVE  /\ h.at \in Served \cup {"register", "connectEx"} => Weight(h) = 1
         /\ h.at \in {"use", "cancel"} => Weight(h) = 2
         /\ h.at \in Sends => Weight(h) = 1 + Base(h)
         /\ h.at = "dec" => Weight(h) = h.owed + Base(h)
         /\ h.at \in Deletes \cup {"idle", "activate"} => Weight(h) = 0
         /\ Base(h) \in 0 .. 1 /\ (h.back = "handler" <=> Base(h) = 1)
         /\ (h.back # "handler" <=> Base(h) = 0)
BY DEF Weight, Served, Sends, Deletes, Base

Leads(h, h2, s, n) ==
  /\ h2.s \in {s, NoSlot} /\ Share(h2, s) = n /\ (RecvH(h2) => RecvH(h)) /\ ~SendH(h2)
  /\ h2.at \notin Creates \cup Deletes

LEMMA OwesLeads ==
  ASSUME NEW h, NEW h2, NEW n \in 0 .. 2, Owes(h, h2, n), Shape(h)
  PROVE  Leads(h, h2, h.s, n + Base(h)) /\ Shape(h2)'
<1>1. h2.at = "dec" /\ h2.s = h.s /\ h2.on = h.on /\ h2.owed = n /\ h2.back = h.back
  BY DEF Owes
<1>2. Weight(h2) = n + Base(h2) /\ Base(h2) = Base(h) BY <1>1, WeightTable DEF Base
<1>3. Leads(h, h2, h.s, n + Base(h))
  BY <1>1, <1>2, ShareOf DEF Leads, RecvH, SendH, Creates, Deletes
<1>4. Shape(h2)' BY <1>1 DEF Shape, Creates, Calls, Deletes
<1>5. QED BY <1>3, <1>4

LEMMA ResumesLeads ==
  ASSUME NEW h, NEW h2, Resumes(h, h2), Shape(h), h.s \in Slots
  PROVE  Leads(h, h2, h.s, Base(h)) /\ Shape(h2)'
<1>1. CASE h.back = "idle" /\ h2 = Idle
  <2>1. h2.at = "idle" /\ h2.s = NoSlot /\ h2.back = "idle" BY <1>1, IdleIs
  <2>2. h2.s # h.s BY <2>1, ClientAssumption
  <2>3. Base(h) = 0 BY <1>1 DEF Base
  <2>4. Leads(h, h2, h.s, Base(h))
    BY <2>1, <2>2, <2>3, ShareOf DEF Leads, RecvH, SendH, Creates, Deletes
  <2>5. Shape(h2)' BY <2>1 DEF Shape, Creates, Calls, Deletes
  <2>6. QED BY <2>4, <2>5
<1>2. CASE /\ h.back = "handler" /\ h2.at = "handler" /\ h2.s = h.on /\ h2.on = h.on
           /\ h2.id = NoId /\ h2.owed = 0 /\ h2.back = "idle"
  <2>1. h2.s = h.s BY <1>2 DEF Shape
  <2>2. Weight(h2) = 1 /\ Base(h) = 1 BY <1>2, WeightTable DEF Served
  <2>3. Leads(h, h2, h.s, Base(h))
    BY <1>2, <2>1, <2>2, ShareOf DEF Leads, RecvH, SendH, Creates, Deletes
  <2>4. Shape(h2)' BY <1>2 DEF Shape, Creates, Calls, Deletes
  <2>5. QED BY <2>3, <2>4
<1>3. QED BY <1>1, <1>2 DEF Resumes

LEMMA ReturnsLeads ==
  ASSUME NEW h, NEW h2, Returns(h, h2), Shape(h), h.s \in Slots, h.owed \in 1 .. 2
  PROVE  Leads(h, h2, h.s, h.owed - 1 + Base(h)) /\ Shape(h2)'
<1>1. CASE h.owed > 1
  <2>1. PICK n \in 0 .. 2 : n = h.owed - 1 BY <1>1
  <2>2. Owes(h, h2, n) BY <1>1, <2>1 DEF Returns
  <2>3. Leads(h, h2, h.s, n + Base(h)) /\ Shape(h2)' BY <2>2, OwesLeads
  <2>4. QED BY <2>1, <2>3
<1>2. CASE ~ (h.owed > 1)
  <2>1. Resumes(h, h2) BY <1>2 DEF Returns
  <2>2. Leads(h, h2, h.s, Base(h)) /\ Shape(h2)' BY <2>1, ResumesLeads
  <2>3. h.owed - 1 + Base(h) = Base(h) BY <1>2 DEF Base
  <2>4. QED BY <2>2, <2>3
<1>3. QED BY <1>1, <1>2

LEMMA BusyLeads ==
  ASSUME TypeInv, TypeInv', Calm, NEW s \in Slots, NEW t \in Threads, NEW h, NEW h2,
         Moves(t, h, h2), h.s = s, NEW x, NEW x2, SessMoves(s, x, x2), x2.id = x.id,
         x2.socket = x.socket, Unpooled, Weight(h) > 0,
         \A q \in Slots : KeptBoth(q), IoOnce',
         NEW n, Leads(h, h2, s, n), Shape(h2)', x2.count = x.count - Weight(h) + n,
         x.sending => x2.sending \/ SendH(h)
  PROVE  Calm'
<1>1. AtSend(h, h2, x, x2) BY DEF AtSend, Leads
<1>2. /\ h2.s \in {s, NoSlot} /\ Share(h2, s) = n /\ (RecvH(h2) => RecvH(h))
      /\ h2.at \notin Creates \cup Deletes
  BY DEF Leads
<1>3. QED BY <1>1, <1>2, BusyKept

LEMMA KernelSame ==
  ASSUME UNCHANGED <<port, io>>, Calm
  PROVE  (\A q \in Slots : KeptBoth(q)) /\ IoOnce'
<1>1. IoOnce' BY DEF Calm, IoOnce
<1>2. QED BY <1>1 DEF KeptBoth, Kept

LEMMA GoesShape ==
  ASSUME NEW h, NEW h2, NEW l, Shape(h), Goes(h, h2, l),
         l \notin Creates \cup Deletes \cup {"handler"},
         h.back = "handler" => l \in Calls \cup Sends \cup {"dec"},
         l \in Calls => h.back = "handler", l = "recvPost" => h.on = h.s
  PROVE  Shape(h2)'
BY DEF Shape, Goes

LEMMA PostRecvCalm ==
  ASSUME TypeInv, TypeInv', Calm, NEW t \in Threads, PostRecv(t)
  PROVE  Calm'
<1>1. PICK h, h2 : /\ Moves(t, h, h2) /\ h.at = "handler"
                   /\ Goes(h, h2, "recvPost") \/ Owes(h, h2, 1)
  BY PostRecvIs
<1>2. h = th[t] /\ h.s \in Slots BY <1>1, TurnIs, AtWork
<1>3. PICK s : s = h.s OBVIOUS
<1>4. PICK x : SessMoves(s, x, x) BY <1>2, <1>3, SessionSame DEF PostRecv
<1>5. Weight(h) = 1 /\ x = session[s] BY <1>1, <1>4, WeightTable DEF Served, SessMoves
<1>6. Shape(h) /\ x.count \in Nat BY <1>2, <1>3, <1>5, BusyIs
<1>7. Unpooled /\ UNCHANGED <<port, io>>
  BY DEF PostRecv, Unpooled, poolVars, histVars, kernelVars
<1>8. (\A q \in Slots : KeptBoth(q)) /\ IoOnce' BY <1>7, KernelSame
<1>9. h.back # "handler" BY <1>1, <1>6 DEF Shape, Calls, Sends
<1>10. Leads(h, h2, s, 1) /\ Shape(h2)'
  <2>1. CASE Goes(h, h2, "recvPost")
    <3>1. Shape(h2)' BY <1>1, <1>6, <1>9, <2>1, GoesShape DEF Creates, Deletes, Calls, Shape
    <3>2. h2.at = "recvPost" /\ h2.s = s BY <1>3, <2>1 DEF Goes
    <3>3. Leads(h, h2, s, 1)
      BY <1>1, <3>2, WeightTable, ShareOf DEF Leads, RecvH, SendH, Creates, Deletes, Served
    <3>4. QED BY <3>1, <3>3
  <2>2. CASE Owes(h, h2, 1)
    <3>1. Leads(h, h2, s, 1 + Base(h)) /\ Shape(h2)' BY <1>3, <1>6, <2>2, OwesLeads
    <3>2. Base(h) = 0 BY <1>9, WeightTable
    <3>3. 1 + Base(h) = 1 BY <3>2
    <3>4. QED BY <3>1, <3>3
  <2>3. QED BY <1>1, <2>1, <2>2
<1>11. x.count = x.count - Weight(h) + 1 /\ Weight(h) > 0 BY <1>5, <1>6
<1>12. QED BY <1>1, <1>2, <1>3, <1>4, <1>7, <1>8, <1>10, <1>11, BusyLeads

(* A thread posts an operation: its reference is the operation's.           *)
LEMMA StartSides ==
  ASSUME TypeInv, NEW s \in Slots, RecvSide(s), SendSide(s), NEW t \in Threads,
         NEW h, NEW h2, Moves(t, h, h2), h.s = s, NEW x, NEW x2, SessMoves(s, x, x2),
         NEW g \in Ids, NEW k \in Kinds, SlotOf(g) = s, port' = port,
         io' = [io EXCEPT ![g][k] = 1], ~SendH(h2), RecvH(h2) => RecvH(h),
         x2.sending = x.sending, k \in SendKinds => SendH(h),
         k \in RecvKinds => ~RecvH(h2) /\ (RecvH(h) \/ Alone(t, s))
  PROVE  /\ RecvSide(s)' /\ SendSide(s)'
         /\ k \in RecvKinds =>
              /\ ~Away(port, io, s, RecvKinds) /\ Away(port', io', s, RecvKinds)
              /\ Away(port', io', s, SendKinds) <=> Away(port, io, s, SendKinds)
         /\ k \in SendKinds =>
              /\ ~Away(port, io, s, SendKinds) /\ Away(port', io', s, SendKinds)
              /\ Away(port', io', s, RecvKinds) <=> Away(port, io, s, RecvKinds)
<1>1. h = th[t] /\ th'[t] = h2 /\ \A u \in Threads : u # t => th'[u] = th[u]
  BY TurnIs
<1>2. x = session[s] /\ session'[s] = x2 BY SessionsAre DEF SessMoves
<1>3. io \in IoSet BY TypeInvIs DEF RestTypes
<1>4. RecvKinds \in SUBSET Kinds /\ SendKinds \in SUBSET Kinds BY DEF RecvKinds, SendKinds, Kinds
<1>5. CASE k \in RecvKinds
  <2>1. k \notin SendKinds BY <1>5 DEF RecvKinds, SendKinds
  <2>2. ~Away(port, io, s, RecvKinds) BY <1>1, <1>5 DEF RecvSide, Alone, Quiet
  <2>3. Away(port, io', s, RecvKinds) /\ One(port, io', s, RecvKinds)
    BY <1>3, <1>4, <1>5, <2>2, StartsHere
  <2>4. Kept(port, io, port, io', s, SendKinds) BY <1>3, <1>4, <2>1, StartsElse
  <2>5. \A u \in Threads : ~ (th'[u].s = s /\ RecvH(th'[u]))
    BY <1>1, <1>5 DEF RecvSide, Alone
  <2>6. RecvSide(s)' BY <2>3, <2>5 DEF RecvSide
  <2>7. SendSide(s)' BY <2>4, SendSideKept DEF AtSend
  <2>8. QED BY <2>1, <2>2, <2>3, <2>4, <2>6, <2>7 DEF Kept
<1>6. CASE k \in SendKinds
  <2>1. k \notin RecvKinds BY <1>6 DEF RecvKinds, SendKinds
  <2>2. SendH(h) /\ ~Away(port, io, s, SendKinds) /\ x.sending BY <1>1, <1>2, <1>6 DEF SendSide
  <2>3. Away(port, io', s, SendKinds) /\ One(port, io', s, SendKinds)
    BY <1>3, <1>4, <1>6, <2>2, StartsHere
  <2>4. Kept(port, io, port, io', s, RecvKinds) BY <1>3, <1>4, <2>1, StartsElse
  <2>5. \A u \in Threads : ~ (th'[u].s = s /\ SendH(th'[u]))
    BY <1>1, <2>2 DEF SendSide
  <2>6. SendSide(s)' BY <1>2, <2>2, <2>3, <2>5 DEF SendSide
  <2>7. RecvSide(s)' BY <2>4, RecvSideKept
  <2>8. QED BY <2>1, <2>2, <2>3, <2>4, <2>6, <2>7 DEF Kept
<1>7. QED BY <1>5, <1>6 DEF RecvKinds, SendKinds, Kinds

LEMMA StartOthers ==
  ASSUME TypeInv, IoOnce, NEW g \in Ids, NEW k \in Kinds, port' = port,
         io' = [io EXCEPT ![g][k] = 1]
  PROVE  IoOnce' /\ \A q : q # SlotOf(g) => KeptBoth(q)
<1>1. io \in IoSet BY TypeInvIs DEF RestTypes
<1>2. RecvKinds \in SUBSET Kinds /\ SendKinds \in SUBSET Kinds BY DEF RecvKinds, SendKinds, Kinds
<1>3. IoOnce' BY <1>1 DEF IoOnce, IoSet
<1>4. ASSUME NEW q, q # SlotOf(g) PROVE KeptBoth(q)
  <2>1. Kept(port, io, port, io', q, RecvKinds) BY <1>1, <1>2, <1>4, StartsElse
  <2>2. Kept(port, io, port, io', q, SendKinds) BY <1>1, <1>2, <1>4, StartsElse
  <2>3. QED BY <2>1, <2>2 DEF KeptBoth
<1>5. QED BY <1>3, <1>4

Posts(g, k) == g \in Ids /\ k \in Kinds /\ port' = port /\ io' = [io EXCEPT ![g][k] = 1]

(* The side the thread leaves is the side of what it posts.                 *)
Passes(t, s, h, h2, k) ==
  /\ ~SendH(h2) /\ (RecvH(h2) => RecvH(h)) /\ (k \in SendKinds => SendH(h))
  /\ k \in RecvKinds => ~RecvH(h2) /\ (RecvH(h) \/ Alone(t, s))
  /\ h2.at \notin Creates \cup Deletes

LEMMA BusyStart ==
  ASSUME TypeInv, TypeInv', Calm, NEW s \in Slots, NEW t \in Threads, NEW h, NEW h2,
         Moves(t, h, h2), h.s = s, NEW x, NEW x2, SessMoves(s, x, x2), x2.id = x.id,
         x2.socket = x.socket, Unpooled, Weight(h) > 0, Shape(h2)', h2.s \in {s, NoSlot},
         NEW g, NEW k, SlotOf(g) = s, Posts(g, k), Passes(t, s, h, h2, k), x2.sending = x.sending,
         x2.count = x.count - Weight(h) + Share(h2, s) + 1
  PROVE  Calm'
<1>0. /\ g \in Ids /\ k \in Kinds /\ port' = port /\ io' = [io EXCEPT ![g][k] = 1]
      /\ ~SendH(h2) /\ (RecvH(h2) => RecvH(h)) /\ (k \in SendKinds => SendH(h))
      /\ k \in RecvKinds => ~RecvH(h2) /\ (RecvH(h) \/ Alone(t, s))
      /\ h2.at \notin Creates \cup Deletes
  BY DEF Posts, Passes
<1>1. h = th[t] BY TurnIs
<1>2. x = session[s] BY DEF SessMoves
<1>3. /\ Used(s) /\ Crowd(t, s) /\ RecvSide(s) /\ SendSide(s) /\ x.count = Refs(s)
      /\ x.count \in Nat
  BY <1>1, <1>2, BusyIs
<1>4. /\ RecvSide(s)' /\ SendSide(s)'
      /\ k \in RecvKinds =>
              /\ ~Away(port, io, s, RecvKinds) /\ Away(port', io', s, RecvKinds)
              /\ Away(port', io', s, SendKinds) <=> Away(port, io, s, SendKinds)
      /\ k \in SendKinds =>
              /\ ~Away(port, io, s, SendKinds) /\ Away(port', io', s, SendKinds)
              /\ Away(port', io', s, RecvKinds) <=> Away(port, io, s, RecvKinds)
  BY <1>0, <1>3, StartSides
<1>5. x2.count = Refs(s)'
  <2>1. /\ Share(h, s) \in 0 .. 3 /\ Share(h2, s) \in 0 .. 3
        /\ Refs(s)' = Refs(s) - Share(h, s) + Share(h2, s)
              - Flag(Away(port, io, s, RecvKinds)) + Flag(Away(port', io', s, RecvKinds))
              - Flag(Away(port, io, s, SendKinds)) + Flag(Away(port', io', s, SendKinds))
    BY ONLY TypeInv, t \in Threads, Moves(t, h, h2), RefsTurn
  <2>2. PICK a, b, c, d : /\ a = Flag(Away(port, io, s, RecvKinds))
                          /\ b = Flag(Away(port', io', s, RecvKinds))
                          /\ c = Flag(Away(port, io, s, SendKinds))
                          /\ d = Flag(Away(port', io', s, SendKinds))
    OBVIOUS
  <2>3. a \in 0 .. 1 /\ b \in 0 .. 1 /\ c \in 0 .. 1 /\ d \in 0 .. 1 BY <2>2 DEF Flag
  <2>4. k \in RecvKinds \/ k \in SendKinds BY <1>0 DEF RecvKinds, SendKinds, Kinds
  <2>5. a + c + 1 = b + d
    <3>1. CASE k \in RecvKinds
      <4>1. a = 0 /\ b = 1 /\ c = d BY <1>4, <2>2, <3>1 DEF Flag
      <4>2. QED BY <2>3, <4>1
    <3>2. CASE k \in SendKinds
      <4>1. c = 0 /\ d = 1 /\ a = b BY <1>4, <2>2, <3>2 DEF Flag
      <4>2. QED BY <2>3, <4>1
    <3>3. QED BY <2>4, <3>1, <3>2
  <2>6. PICK n, i, j : n = Refs(s) /\ i = Share(h, s) /\ j = Share(h2, s) OBVIOUS
  <2>7. n \in Nat /\ i \in 0 .. 3 /\ j \in 0 .. 3 BY <1>3, <2>1, <2>6
  <2>8. Refs(s)' = n - i + j - a + b - c + d BY <2>1, <2>2, <2>6
  <2>9. x2.count = n - i + j + 1 BY <1>3, <2>6, ShareOf
  <2>10. QED BY <2>3, <2>5, <2>7, <2>8, <2>9
<1>6. IoOnce' /\ \A q \in Slots : q # s => KeptBoth(q) BY <1>0, StartOthers DEF Calm
<1>7. QED BY <1>0, <1>3, <1>4, <1>5, <1>6, BusyStep

LEMMA NoneAway ==
  ASSUME TypeInv, NEW g \in Ids, NEW k, NEW K \in SUBSET Kinds, k \in K,
         ~Away(port, io, SlotOf(g), K), io' = [io EXCEPT ![g][k] = @ + 1]
  PROVE  io' = [io EXCEPT ![g][k] = 1]
<1>1. io[g][k] \in Nat BY TypeInvIs DEF RestTypes, IoSet
<1>2. ~ (io[g][k] > 0) BY DEF Away
<1>3. io[g][k] + 1 = 1 BY <1>1, <1>2
<1>4. QED BY <1>3

LEMMA WSARecvCalm ==
  ASSUME TypeInv, TypeInv', Calm, NEW t \in Threads, WSARecv(t)
  PROVE  Calm'
<1>1. PICK h, h2, x, x2, g :
           /\ Moves(t, h, h2) /\ h.at = "recvPost" /\ SessMoves(h.s, x, x2) /\ g = x.socket
           /\ Is(x2, x.id, x.socket, LongInc(x.count), x.sending, x.connected, x.queued)
           /\ \/ g \in Ids /\ io' = [io EXCEPT ![g]["recv"] = @ + 1] /\ Owes(h, h2, 1)
              \/ io' = io /\ Owes(h, h2, 2)
  BY WSARecvIs
<1>2. h = th[t] /\ h.s \in Slots BY <1>1, TurnIs, AtWork
<1>3. PICK s : s = h.s OBVIOUS
<1>4. SessMoves(s, x, x2) /\ x = session[s] BY <1>1, <1>3 DEF SessMoves
<1>5. Weight(h) = 1 /\ RecvH(h) BY <1>1, WeightTable DEF Served, RecvH
<1>6. /\ Shape(h) /\ x.count \in Nat /\ LongInc(x.count) = x.count + 1 /\ RecvSide(s)
      /\ x.socket = x.id /\ SlotOf(x.id) = s
  BY <1>2, <1>3, <1>4, <1>5, BusyIs
<1>7. Unpooled /\ port' = port
  BY DEF WSARecv, Unpooled, poolVars, histVars
<1>8. h.back # "handler" /\ Base(h) = 0 BY <1>1, <1>6, WeightTable DEF Shape, Calls, Sends
<1>9. x2.count = x.count + 1 /\ x2.id = x.id /\ x2.socket = x.socket /\ x2.sending = x.sending
  BY <1>1, <1>6 DEF Is
<1>10. CASE g \in Ids /\ io' = [io EXCEPT ![g]["recv"] = @ + 1] /\ Owes(h, h2, 1)
  <2>1. Leads(h, h2, s, 1 + Base(h)) /\ Shape(h2)' BY <1>3, <1>6, <1>10, OwesLeads
  <2>2. Leads(h, h2, s, 1) BY <1>8, <2>1
  <2>3. ~Away(port, io, s, RecvKinds) BY <1>2, <1>3, <1>5, <1>6 DEF RecvSide
  <2>4. SlotOf(g) = s BY <1>1, <1>6
  <2>5. PICK k : k = "recv" OBVIOUS
  <2>6. k \in RecvKinds /\ k \in Kinds /\ k \notin SendKinds /\ RecvKinds \in SUBSET Kinds
    BY <2>5 DEF RecvKinds, SendKinds, Kinds
  <2>7. io' = [io EXCEPT ![g][k] = 1] BY <1>10, <2>3, <2>4, <2>5, <2>6, NoneAway
  <2>8. /\ h2.s \in {s, NoSlot} /\ Share(h2, s) = 1 /\ ~SendH(h2)
        /\ h2.at \notin Creates \cup Deletes /\ (RecvH(h2) => RecvH(h))
    BY <2>2 DEF Leads
  <2>9. ~RecvH(h2) BY <1>8, <1>10 DEF Owes, RecvH
  <2>10. x2.count = x.count - Weight(h) + Share(h2, s) + 1 /\ Weight(h) > 0
    BY <1>5, <1>6, <1>9, <2>8
  <2>11. Posts(g, k) BY <1>7, <1>10, <2>6, <2>7 DEF Posts
  <2>12. Passes(t, s, h, h2, k) BY <1>5, <2>6, <2>8, <2>9 DEF Passes
  <2>13. QED
    BY <1>1, <1>2, <1>3, <1>4, <1>7, <1>9, <2>1, <2>4, <2>8, <2>10, <2>11, <2>12, BusyStart
<1>11. CASE io' = io /\ Owes(h, h2, 2)
  <2>1. Leads(h, h2, s, 2 + Base(h)) /\ Shape(h2)' BY <1>3, <1>6, <1>11, OwesLeads
  <2>2. 2 + Base(h) = 2 BY <1>8
  <2>3. Leads(h, h2, s, 2) BY <2>1, <2>2
  <2>4. (\A q \in Slots : KeptBoth(q)) /\ IoOnce' BY <1>7, <1>11, KernelSame
  <2>5. x2.count = x.count - Weight(h) + 2 /\ Weight(h) > 0 BY <1>5, <1>6, <1>9
  <2>6. QED BY <1>1, <1>2, <1>3, <1>4, <1>7, <1>9, <2>1, <2>3, <2>4, <2>5, BusyLeads
<1>12. QED BY <1>1, <1>10, <1>11

LEMMA ProcessSendCalm ==
  ASSUME TypeInv, TypeInv', Calm, NEW t \in Threads, ProcessSend(t)
  PROVE  Calm'
<1>1. PICK h, h2, x, x2 :
           /\ Moves(t, h, h2) /\ h.at = "sent" /\ SessMoves(h.s, x, x2)
           /\ Is(x2, x.id, x.socket, x.count, FALSE, x.connected, x.queued)
           /\ Goes(h, h2, "sendCheck")
  BY ProcessSendIs
<1>2. h = th[t] /\ h.s \in Slots BY <1>1, TurnIs, AtWork
<1>3. PICK s : s = h.s OBVIOUS
<1>4. SessMoves(s, x, x2) /\ x = session[s] BY <1>1, <1>3 DEF SessMoves
<1>5. Weight(h) = 1 /\ SendH(h) BY <1>1, WeightTable DEF Served, SendH
<1>6. Shape(h) /\ x.count \in Nat BY <1>2, <1>3, <1>4, <1>5, BusyIs
<1>7. Unpooled /\ UNCHANGED <<port, io>>
  BY DEF ProcessSend, Unpooled, poolVars, histVars, kernelVars
<1>8. (\A q \in Slots : KeptBoth(q)) /\ IoOnce' BY <1>7, KernelSame
<1>9. h.back # "handler" BY <1>1, <1>6 DEF Shape, Calls, Sends
<1>10. Shape(h2)' BY <1>1, <1>6, <1>9, GoesShape DEF Creates, Deletes, Calls
<1>11. h2.at = "sendCheck" /\ h2.s = s /\ h2.back = h.back BY <1>1, <1>3 DEF Goes
<1>12. Weight(h2) = 1 + Base(h2) /\ Base(h2) = 0 BY <1>9, <1>11, WeightTable DEF Sends
<1>13. Share(h2, s) = 1 BY <1>11, <1>12, ShareOf
<1>14. Leads(h, h2, s, 1) BY <1>9, <1>11, <1>13 DEF Leads, RecvH, SendH, Creates, Deletes
<1>15. x2.count = x.count - Weight(h) + 1 /\ Weight(h) > 0 /\ x2.id = x.id /\ x2.socket = x.socket
  BY <1>1, <1>5, <1>6 DEF Is
<1>16. QED BY <1>1, <1>2, <1>3, <1>4, <1>5, <1>7, <1>8, <1>10, <1>14, <1>15, BusyLeads

LEMMA PostSendCalm ==
  ASSUME TypeInv, TypeInv', Calm, NEW t \in Threads, PostSend(t)
  PROVE  Calm'
<1>1. PICK h, h2 : /\ Moves(t, h, h2) /\ h.at = "sendCheck"
                   /\ Goes(h, h2, "sendClaim") \/ Owes(h, h2, 1)
  BY PostSendIs
<1>2. h = th[t] /\ h.s \in Slots BY <1>1, TurnIs, AtWork
<1>3. PICK s : s = h.s OBVIOUS
<1>4. PICK x : SessMoves(s, x, x) BY <1>2, <1>3, SessionSame DEF PostSend
<1>5. Weight(h) = 1 + Base(h) /\ Base(h) \in 0 .. 1 /\ x = session[s]
  BY <1>1, <1>4, WeightTable DEF Sends, SessMoves
<1>6. Weight(h) > 0 BY <1>5
<1>7. Shape(h) /\ x.count \in Nat BY <1>2, <1>3, <1>5, <1>6, BusyIs
<1>8. Unpooled /\ UNCHANGED <<port, io>>
  BY DEF PostSend, Unpooled, poolVars, histVars, kernelVars
<1>9. (\A q \in Slots : KeptBoth(q)) /\ IoOnce' BY <1>8, KernelSame
<1>10. Leads(h, h2, s, 1 + Base(h)) /\ Shape(h2)'
  <2>1. CASE Goes(h, h2, "sendClaim")
    <3>1. Shape(h2)' BY <1>7, <2>1, GoesShape DEF Creates, Deletes, Calls, Sends
    <3>2. h2.at = "sendClaim" /\ h2.s = s /\ h2.back = h.back BY <1>3, <2>1 DEF Goes
    <3>3. Weight(h2) = 1 + Base(h2) /\ Base(h2) = Base(h)
      BY <3>2, WeightTable DEF Sends, Base
    <3>4. Leads(h, h2, s, 1 + Base(h))
      BY <1>1, <3>2, <3>3, ShareOf DEF Leads, RecvH, SendH, Creates, Deletes
    <3>5. QED BY <3>1, <3>4
  <2>2. CASE Owes(h, h2, 1)
    BY <1>3, <1>7, <2>2, OwesLeads
  <2>3. QED BY <1>1, <2>1, <2>2
<1>11. x.count = x.count - Weight(h) + (1 + Base(h)) BY <1>5, <1>7
<1>12. QED BY <1>1, <1>2, <1>3, <1>4, <1>6, <1>8, <1>9, <1>10, <1>11, BusyLeads

LEMMA ClaimCalm ==
  ASSUME TypeInv, TypeInv', Calm, NEW t \in Threads, Claim(t)
  PROVE  Calm'
<1>1. PICK h, h2, x, x2 :
           /\ Moves(t, h, h2) /\ h.at = "sendClaim" /\ SessMoves(h.s, x, x2)
           /\ Is(x2, x.id, x.socket, x.count, TRUE, x.connected, x.queued)
           /\ IF x.sending THEN Owes(h, h2, 1) ELSE Goes(h, h2, "sendPost")
  BY ClaimIs
<1>2. h = th[t] /\ h.s \in Slots BY <1>1, TurnIs, AtWork
<1>3. PICK s : s = h.s OBVIOUS
<1>4. SessMoves(s, x, x2) /\ x = session[s] BY <1>1, <1>3 DEF SessMoves
<1>5. Weight(h) = 1 + Base(h) /\ Base(h) \in 0 .. 1
  BY <1>1, WeightTable DEF Sends
<1>6. Weight(h) > 0 BY <1>5
<1>7. Shape(h) /\ x.count \in Nat BY <1>2, <1>3, <1>4, <1>6, BusyIs
<1>8. Unpooled /\ UNCHANGED <<port, io>>
  BY DEF Claim, Unpooled, poolVars, histVars, kernelVars
<1>9. (\A q \in Slots : KeptBoth(q)) /\ IoOnce' BY <1>8, KernelSame
<1>10. x2.id = x.id /\ x2.socket = x.socket /\ x2.sending /\ x2.count = x.count
  BY <1>1 DEF Is
<1>11. CASE Owes(h, h2, 1)
  <2>1. Leads(h, h2, s, 1 + Base(h)) /\ Shape(h2)' BY <1>3, <1>7, <1>11, OwesLeads
  <2>2. x2.count = x.count - Weight(h) + (1 + Base(h)) BY <1>5, <1>7, <1>10
  <2>3. QED BY <1>1, <1>2, <1>3, <1>4, <1>6, <1>8, <1>9, <1>10, <2>1, <2>2, BusyLeads
<1>12. CASE ~x.sending /\ Goes(h, h2, "sendPost")
  <2>1. Shape(h2)' BY <1>7, <1>12, GoesShape DEF Creates, Deletes, Calls, Sends
  <2>2. h2.at = "sendPost" /\ h2.s = s /\ h2.back = h.back BY <1>3, <1>12 DEF Goes
  <2>3. Weight(h2) = 1 + Base(h2) /\ Base(h2) = Base(h)
    BY <2>2, WeightTable DEF Sends, Base
  <2>4. Share(h2, s) = Weight(h) BY <1>5, <2>2, <2>3, ShareOf
  <2>5. x2.count = x.count - Weight(h) + Share(h2, s) BY <1>5, <1>7, <1>10, <2>4
  <2>6. AtSend(h, h2, x, x2) BY <1>10, <1>12, <2>2 DEF AtSend, SendH
  <2>7. (RecvH(h2) => RecvH(h)) /\ h2.at \notin Creates \cup Deletes /\ h2.s \in {s, NoSlot}
    BY <2>2 DEF RecvH, Creates, Deletes
  <2>8. QED
    BY <1>1, <1>2, <1>3, <1>4, <1>6, <1>8, <1>9, <1>10, <2>1, <2>5, <2>6, <2>7, BusyKept
<1>13. QED BY <1>1, <1>11, <1>12

LEMMA WSASendCalm ==
  ASSUME TypeInv, TypeInv', Calm, NEW t \in Threads, WSASend(t)
  PROVE  Calm'
<1>1. PICK h, h2, x, x2, g :
           /\ Moves(t, h, h2) /\ h.at = "sendPost" /\ SessMoves(h.s, x, x2) /\ g = x.socket
           /\ \/ /\ Is(x2, x.id, x.socket, LongInc(x.count), x.sending, x.connected, FALSE)
                 /\ \/ g \in Ids /\ io' = [io EXCEPT ![g]["send"] = @ + 1] /\ Owes(h, h2, 1)
                    \/ io' = io /\ Owes(h, h2, 2)
              \/ io' = io /\ Goes(h, h2, "sendReset") /\ x2 = x
  BY WSASendIs
<1>2. h = th[t] /\ h.s \in Slots BY <1>1, TurnIs, AtWork
<1>3. PICK s : s = h.s OBVIOUS
<1>4. SessMoves(s, x, x2) /\ x = session[s] BY <1>1, <1>3 DEF SessMoves
<1>5. Weight(h) = 1 + Base(h) /\ Base(h) \in 0 .. 1 /\ SendH(h)
  BY <1>1, WeightTable DEF Sends, SendH
<1>6. Weight(h) > 0 BY <1>5
<1>7. /\ Shape(h) /\ x.count \in Nat /\ LongInc(x.count) = x.count + 1 /\ SendSide(s)
      /\ x.socket = x.id /\ SlotOf(x.id) = s
  BY <1>2, <1>3, <1>4, <1>6, BusyIs
<1>8. Unpooled /\ port' = port
  BY DEF WSASend, Unpooled, poolVars, histVars
<1>9. CASE /\ Is(x2, x.id, x.socket, LongInc(x.count), x.sending, x.connected, FALSE)
           /\ g \in Ids /\ io' = [io EXCEPT ![g]["send"] = @ + 1] /\ Owes(h, h2, 1)
  <2>1. Leads(h, h2, s, 1 + Base(h)) /\ Shape(h2)' BY <1>3, <1>7, <1>9, OwesLeads
  <2>2. x2.count = x.count + 1 /\ x2.id = x.id /\ x2.socket = x.socket /\ x2.sending = x.sending
    BY <1>7, <1>9 DEF Is
  <2>3. ~Away(port, io, s, SendKinds) BY <1>2, <1>3, <1>5, <1>7 DEF SendSide
  <2>4. SlotOf(g) = s BY <1>1, <1>7
  <2>5. PICK k : k = "send" OBVIOUS
  <2>6. k \in SendKinds /\ k \in Kinds /\ k \notin RecvKinds /\ SendKinds \in SUBSET Kinds
    BY <2>5 DEF RecvKinds, SendKinds, Kinds
  <2>7. io' = [io EXCEPT ![g][k] = 1] BY <1>9, <2>3, <2>4, <2>5, <2>6, NoneAway
  <2>8. /\ h2.s \in {s, NoSlot} /\ Share(h2, s) = 1 + Base(h) /\ ~SendH(h2)
        /\ h2.at \notin Creates \cup Deletes /\ (RecvH(h2) => RecvH(h))
    BY <2>1 DEF Leads
  <2>9. x2.count = x.count - Weight(h) + Share(h2, s) + 1
    BY <1>5, <1>7, <2>2, <2>8
  <2>10. Posts(g, k) BY <1>8, <1>9, <2>6, <2>7 DEF Posts
  <2>11. Passes(t, s, h, h2, k) BY <1>5, <2>6, <2>8 DEF Passes
  <2>12. QED
    BY <1>1, <1>2, <1>3, <1>4, <1>6, <1>8, <2>1, <2>2, <2>4, <2>8, <2>9, <2>10, <2>11, BusyStart
<1>10. CASE /\ Is(x2, x.id, x.socket, LongInc(x.count), x.sending, x.connected, FALSE)
            /\ io' = io /\ Owes(h, h2, 2)
  <2>1. Leads(h, h2, s, 2 + Base(h)) /\ Shape(h2)' BY <1>3, <1>7, <1>10, OwesLeads
  <2>2. x2.count = x.count + 1 /\ x2.id = x.id /\ x2.socket = x.socket /\ x2.sending = x.sending
    BY <1>7, <1>10 DEF Is
  <2>3. (\A q \in Slots : KeptBoth(q)) /\ IoOnce' BY <1>8, <1>10, KernelSame
  <2>4. x2.count = x.count - Weight(h) + (2 + Base(h)) BY <1>5, <1>7, <2>2
  <2>5. QED BY <1>1, <1>2, <1>3, <1>4, <1>6, <1>8, <2>1, <2>2, <2>3, <2>4, BusyLeads
<1>11. CASE io' = io /\ Goes(h, h2, "sendReset") /\ x2 = x
  <2>1. (\A q \in Slots : KeptBoth(q)) /\ IoOnce' BY <1>8, <1>11, KernelSame
  <2>2. Shape(h2)' BY <1>7, <1>11, <1>1, GoesShape DEF Creates, Deletes, Calls, Sends
  <2>3. h2.at = "sendReset" /\ h2.s = s /\ h2.back = h.back BY <1>3, <1>11 DEF Goes
  <2>4. Weight(h2) = 1 + Base(h2) /\ Base(h2) = Base(h)
    BY <2>3, WeightTable DEF Sends, Base
  <2>5. Share(h2, s) = Weight(h) BY <1>5, <2>3, <2>4, ShareOf
  <2>6. x2.count = x.count - Weight(h) + Share(h2, s) BY <1>5, <1>7, <1>11, <2>5
  <2>7. x.sending BY <1>2, <1>3, <1>4, <1>5, <1>7 DEF SendSide
  <2>8. AtSend(h, h2, x, x2) BY <1>5, <1>11, <2>3, <2>7 DEF AtSend, SendH
  <2>9. (RecvH(h2) => RecvH(h)) /\ h2.at \notin Creates \cup Deletes /\ h2.s \in {s, NoSlot}
    BY <2>3 DEF RecvH, Creates, Deletes
  <2>10. x2.id = x.id /\ x2.socket = x.socket BY <1>11
  <2>11. QED
    BY <1>1, <1>2, <1>3, <1>4, <1>6, <1>8, <2>1, <2>2, <2>6, <2>8, <2>9, <2>10, BusyKept
<1>12. QED BY <1>1, <1>9, <1>10, <1>11

LEMMA SendResetCalm ==
  ASSUME TypeInv, TypeInv', Calm, NEW t \in Threads, SendReset(t)
  PROVE  Calm'
<1>1. PICK h, h2, x, x2 :
           /\ Moves(t, h, h2) /\ h.at = "sendReset" /\ SessMoves(h.s, x, x2)
           /\ Is(x2, x.id, x.socket, x.count, FALSE, x.connected, x.queued)
           /\ Owes(h, h2, 1)
  BY SendResetIs
<1>2. h = th[t] /\ h.s \in Slots BY <1>1, TurnIs, AtWork
<1>3. PICK s : s = h.s OBVIOUS
<1>4. SessMoves(s, x, x2) /\ x = session[s] BY <1>1, <1>3 DEF SessMoves
<1>5. Weight(h) = 1 + Base(h) /\ Base(h) \in 0 .. 1 /\ SendH(h)
  BY <1>1, WeightTable DEF Sends, SendH
<1>6. Weight(h) > 0 BY <1>5
<1>7. Shape(h) /\ x.count \in Nat BY <1>2, <1>3, <1>4, <1>6, BusyIs
<1>8. Unpooled /\ UNCHANGED <<port, io>>
  BY DEF SendReset, Unpooled, poolVars, histVars, kernelVars
<1>9. (\A q \in Slots : KeptBoth(q)) /\ IoOnce' BY <1>8, KernelSame
<1>10. x2.id = x.id /\ x2.socket = x.socket /\ x2.count = x.count
  BY <1>1 DEF Is
<1>11. Leads(h, h2, s, 1 + Base(h)) /\ Shape(h2)' BY <1>1, <1>3, <1>7, OwesLeads
<1>12. x2.count = x.count - Weight(h) + (1 + Base(h)) BY <1>5, <1>7, <1>10
<1>13. QED BY <1>1, <1>2, <1>3, <1>4, <1>5, <1>6, <1>8, <1>9, <1>10, <1>11, <1>12, BusyLeads

LEMMA StartCallCalm ==
  ASSUME TypeInv, TypeInv', Calm, NEW t \in Threads, t # Caller, th[t].at = "handler",
         StartCall(t)
  PROVE  Calm'
<1>1. PICK h, h2, g : Moves(t, h, h2) /\ g \in Ids /\ Acquires(h, h2, g) /\ g = session[h.s].id
  BY StartCallIs
<1>2. h = th[t] /\ h.s \in Slots /\ h.at = "handler" BY <1>1, TurnIs, AtWork
<1>3. PICK s : s = h.s OBVIOUS
<1>4. PICK x : SessMoves(s, x, x) BY <1>2, <1>3, SessionSame DEF StartCall
<1>5. Weight(h) = 1 /\ x = session[s] BY <1>2, <1>4, WeightTable DEF Served, SessMoves
<1>6. Shape(h) /\ x.count \in Nat /\ SlotOf(x.id) = s BY <1>2, <1>3, <1>5, BusyIs
<1>7. Unpooled /\ UNCHANGED <<port, io>>
  BY DEF StartCall, Unpooled, poolVars, histVars, kernelVars
<1>8. (\A q \in Slots : KeptBoth(q)) /\ IoOnce' BY <1>7, KernelSame
<1>9. h2.at = "acquire" /\ h2.s = s /\ h2.on = h.on /\ h2.back = "handler"
  BY <1>1, <1>2, <1>3, <1>5, <1>6 DEF Acquires
<1>10. Shape(h2)' BY <1>2, <1>3, <1>6, <1>9 DEF Shape, Creates, Calls, Deletes
<1>11. Weight(h2) = 1 BY <1>9, WeightTable DEF Served
<1>12. Leads(h, h2, s, 1)
  BY <1>2, <1>9, <1>11, ShareOf DEF Leads, RecvH, SendH, Creates, Deletes
<1>13. x.count = x.count - Weight(h) + 1 /\ Weight(h) > 0 BY <1>5, <1>6
<1>14. QED BY <1>1, <1>2, <1>3, <1>4, <1>7, <1>8, <1>10, <1>12, <1>13, BusyLeads

LEMMA TryAcquireCalm ==
  ASSUME TypeInv, TypeInv', Calm, NEW t \in Threads, TryAcquireSession(t)
  PROVE  Calm'
<1>1. PICK h, h2 : /\ Moves(t, h, h2) /\ h.at = "acquire"
                   /\ Goes(h, h2, "acquireRef") \/ Resumes(h, h2)
  BY TryAcquireIs
<1>2. h = th[t] /\ h.s \in Slots BY <1>1, TurnIs, AtWork
<1>3. PICK s : s = h.s OBVIOUS
<1>4. PICK x : SessMoves(s, x, x) BY <1>2, <1>3, SessionSame DEF TryAcquireSession
<1>5. Weight(h) = 1 /\ x = session[s] BY <1>1, <1>4, WeightTable DEF Served, SessMoves
<1>6. Shape(h) /\ x.count \in Nat BY <1>2, <1>3, <1>5, BusyIs
<1>7. Unpooled /\ UNCHANGED <<port, io>>
  BY DEF TryAcquireSession, Unpooled, poolVars, histVars, kernelVars
<1>8. (\A q \in Slots : KeptBoth(q)) /\ IoOnce' BY <1>7, KernelSame
<1>9. h.back = "handler" /\ Base(h) = 1 BY <1>1, <1>6, WeightTable DEF Shape, Calls
<1>10. Leads(h, h2, s, 1) /\ Shape(h2)'
  <2>1. CASE Goes(h, h2, "acquireRef")
    <3>1. Shape(h2)' BY <1>6, <1>9, <2>1, GoesShape DEF Creates, Deletes, Calls
    <3>2. h2.at = "acquireRef" /\ h2.s = s /\ h2.back = h.back BY <1>3, <2>1 DEF Goes
    <3>3. Weight(h2) = 1 BY <3>2, WeightTable DEF Served
    <3>4. Leads(h, h2, s, 1)
      BY <1>9, <3>2, <3>3, ShareOf DEF Leads, RecvH, SendH, Creates, Deletes
    <3>5. QED BY <3>1, <3>4
  <2>2. CASE Resumes(h, h2)
    BY <1>2, <1>3, <1>6, <1>9, <2>2, ResumesLeads
  <2>3. QED BY <1>1, <2>1, <2>2
<1>11. x.count = x.count - Weight(h) + 1 /\ Weight(h) > 0 BY <1>5, <1>6
<1>12. QED BY <1>1, <1>2, <1>3, <1>4, <1>7, <1>8, <1>10, <1>11, BusyLeads

LEMMA AcquireRefCalm ==
  ASSUME TypeInv, TypeInv', Calm, NEW t \in Threads, AcquireRef(t)
  PROVE  Calm'
<1>1. PICK h, h2, x, x2 :
           /\ Moves(t, h, h2) /\ h.at = "acquireRef" /\ SessMoves(h.s, x, x2)
           /\ Is(x2, x.id, x.socket, LongInc(x.count), x.sending, x.connected, x.queued)
           /\ IF LongInc(x.count) < 0 THEN Owes(h, h2, 1) ELSE Goes(h, h2, "use")
  BY AcquireRefIs
<1>2. h = th[t] /\ h.s \in Slots BY <1>1, TurnIs, AtWork
<1>3. PICK s : s = h.s OBVIOUS
<1>4. SessMoves(s, x, x2) /\ x = session[s] BY <1>1, <1>3 DEF SessMoves
<1>5. Weight(h) = 1 BY <1>1, WeightTable DEF Served
<1>6. Shape(h) /\ x.count \in Nat /\ LongInc(x.count) = x.count + 1
  BY <1>2, <1>3, <1>4, <1>5, BusyIs
<1>7. Unpooled /\ UNCHANGED <<port, io>>
  BY DEF AcquireRef, Unpooled, poolVars, histVars, kernelVars
<1>8. (\A q \in Slots : KeptBoth(q)) /\ IoOnce' BY <1>7, KernelSame
<1>9. h.back = "handler" BY <1>1, <1>6 DEF Shape, Calls
<1>10. Goes(h, h2, "use") BY <1>1, <1>6
<1>11. Shape(h2)' BY <1>6, <1>9, <1>10, GoesShape DEF Creates, Deletes, Calls
<1>12. h2.at = "use" /\ h2.s = s /\ h2.back = h.back BY <1>3, <1>10 DEF Goes
<1>13. Weight(h2) = 2 BY <1>12, WeightTable
<1>14. Leads(h, h2, s, 2)
  BY <1>9, <1>12, <1>13, ShareOf DEF Leads, RecvH, SendH, Creates, Deletes
<1>15. /\ x2.count = x.count - Weight(h) + 2 /\ Weight(h) > 0 /\ x2.id = x.id
       /\ x2.socket = x.socket /\ x2.sending = x.sending
  BY <1>1, <1>5, <1>6 DEF Is
<1>16. QED BY <1>1, <1>2, <1>3, <1>4, <1>7, <1>8, <1>11, <1>14, <1>15, BusyLeads

LEMMA UseCalm ==
  ASSUME TypeInv, TypeInv', Calm, NEW t \in Threads, NEW l \in {"sendCheck", "cancel"},
         NEW h, NEW h2, Moves(t, h, h2), h.at = "use", Goes(h, h2, l), NEW x, NEW x2,
         SessMoves(h.s, x, x2), x2.id = x.id, x2.socket = x.socket, x2.count = x.count,
         x2.sending = x.sending, Unpooled, UNCHANGED <<port, io>>
  PROVE  Calm'
<1>2. h = th[t] /\ h.s \in Slots BY TurnIs, AtWork
<1>3. PICK s : s = h.s OBVIOUS
<1>4. SessMoves(s, x, x2) /\ x = session[s] BY <1>3 DEF SessMoves
<1>5. Weight(h) = 2 BY WeightTable
<1>6. Shape(h) /\ x.count \in Nat BY <1>2, <1>3, <1>4, <1>5, BusyIs
<1>8. (\A q \in Slots : KeptBoth(q)) /\ IoOnce' BY KernelSame
<1>9. h.back = "handler" BY <1>6 DEF Shape, Calls
<1>11. Shape(h2)' BY <1>6, <1>9, GoesShape DEF Creates, Deletes, Calls, Sends
<1>12. h2.at = l /\ h2.s = s /\ h2.back = h.back BY <1>3 DEF Goes
<1>13. Weight(h2) = 2
  <2>1. CASE l = "cancel" BY <1>12, <2>1, WeightTable
  <2>2. CASE l = "sendCheck"
    <3>1. Weight(h2) = 1 + Base(h2) /\ Base(h2) = 1 BY <1>9, <1>12, <2>2, WeightTable DEF Sends
    <3>2. QED BY <3>1
  <2>3. QED BY <2>1, <2>2
<1>14. Leads(h, h2, s, 2)
  BY <1>9, <1>12, <1>13, ShareOf DEF Leads, RecvH, SendH, Creates, Deletes
<1>15. x2.count = x.count - Weight(h) + 2 /\ Weight(h) > 0 BY <1>5, <1>6
<1>16. QED BY <1>2, <1>3, <1>4, <1>8, <1>11, <1>14, <1>15, BusyLeads

LEMMA SendPacketCalm ==
  ASSUME TypeInv, TypeInv', Calm, NEW t \in Threads, SendPacket(t) \/ Disconnect(t)
  PROVE  Calm'
<1>1. CASE SendPacket(t)
  <2>1. PICK h, h2, x, x2 :
           /\ Moves(t, h, h2) /\ h.at = "use" /\ SessMoves(h.s, x, x2)
           /\ Is(x2, x.id, x.socket, x.count, x.sending, x.connected, TRUE)
           /\ Goes(h, h2, "sendCheck")
    BY <1>1, SendPacketIs
  <2>2. Unpooled /\ UNCHANGED <<port, io>>
    BY <1>1 DEF SendPacket, Unpooled, poolVars, histVars, kernelVars
  <2>3. x2.id = x.id /\ x2.socket = x.socket /\ x2.count = x.count /\ x2.sending = x.sending
    BY <2>1 DEF Is
  <2>4. QED BY <2>1, <2>2, <2>3, UseCalm
<1>2. CASE Disconnect(t)
  <2>1. PICK h, h2, x, x2 :
           /\ Moves(t, h, h2) /\ h.at = "use" /\ SessMoves(h.s, x, x2)
           /\ Is(x2, x.id, x.socket, x.count, x.sending, FALSE, x.queued)
           /\ Goes(h, h2, "cancel")
    BY <1>2, DisconnectIs
  <2>2. Unpooled /\ UNCHANGED <<port, io>>
    BY <1>2 DEF Disconnect, Unpooled, poolVars, histVars, kernelVars
  <2>3. x2.id = x.id /\ x2.socket = x.socket /\ x2.count = x.count /\ x2.sending = x.sending
    BY <2>1 DEF Is
  <2>4. QED BY <2>1, <2>2, <2>3, UseCalm
<1>3. QED BY <1>1, <1>2

LEMMA AbortOthers ==
  ASSUME TypeInv, IoOnce, NEW g \in Ids, AbortIo(g)
  PROVE  IoOnce' /\ \A q : KeptBoth(q)
<1>1. io \in IoSet BY TypeInvIs DEF RestTypes
<1>2. RecvKinds \in SUBSET Kinds /\ SendKinds \in SUBSET Kinds BY DEF RecvKinds, SendKinds, Kinds
<1>3. \A k \in Kinds : io[g][k] <= 1 BY DEF IoOnce
<1>4. PICK f : f = [k \in Kinds |-> 0] OBVIOUS
<1>5. io' = [io EXCEPT ![g] = f] /\ \A k \in Kinds : f[k] = 0 BY <1>4, AbortIs
<1>6. IoOnce' BY <1>1, <1>5 DEF IoOnce, IoSet
<1>7. ASSUME NEW q PROVE KeptBoth(q)
  BY <1>2, <1>3, AbortKeeps DEF KeptBoth
<1>8. QED BY <1>6, <1>7

LEMMA CancelIoCalm ==
  ASSUME TypeInv, TypeInv', Calm, NEW t \in Threads, CancelIo(t)
  PROVE  Calm'
<1>1. PICK h, h2, x, g :
           /\ Moves(t, h, h2) /\ h.at = "cancel" /\ SessMoves(h.s, x, x) /\ g = x.socket
           /\ \/ g = NoId /\ UNCHANGED <<port, io>>
              \/ g \in Ids /\ AbortIo(g)
           /\ Owes(h, h2, 1)
  BY CancelIoIs
<1>2. h = th[t] /\ h.s \in Slots BY <1>1, TurnIs, AtWork
<1>3. PICK s : s = h.s OBVIOUS
<1>4. SessMoves(s, x, x) /\ x = session[s] BY <1>1, <1>3 DEF SessMoves
<1>5. Weight(h) = 2 BY <1>1, WeightTable
<1>6. Shape(h) /\ x.count \in Nat BY <1>2, <1>3, <1>4, <1>5, BusyIs
<1>7. Unpooled BY DEF CancelIo, Unpooled, poolVars, histVars
<1>8. (\A q \in Slots : KeptBoth(q)) /\ IoOnce' BY <1>1, KernelSame, AbortOthers DEF Calm
<1>9. Base(h) = 1 BY <1>1, <1>6, WeightTable DEF Shape, Calls
<1>10. Leads(h, h2, s, 1 + Base(h)) /\ Shape(h2)' BY <1>1, <1>3, <1>6, OwesLeads
<1>11. x.count = x.count - Weight(h) + (1 + Base(h)) /\ Weight(h) > 0 BY <1>5, <1>6, <1>9
<1>12. QED BY <1>1, <1>2, <1>3, <1>4, <1>7, <1>8, <1>10, <1>11, BusyLeads

LEMMA ShareBounded ==
  ASSUME TypeInv, NEW t \in Threads, NEW s
  PROVE  Share(th[t], s) <= Refs(s)
<1>1. th[t] \in Contexts BY RecordsAre
<1>2. PICK n \in 0 .. 3 : n = Share(th[t], s) BY <1>1, SharesAre
<1>3. /\ Cardinality(HeldElse(th, s, t)) \in Nat
      /\ Cardinality(HeldBy(th, s)) = Cardinality(HeldElse(th, s, t)) + n
  BY <1>2, HeldSplit
<1>4. PICK a, b : a = Flag(Away(port, io, s, RecvKinds)) /\ b = Flag(Away(port, io, s, SendKinds))
  OBVIOUS
<1>5. a \in 0 .. 1 /\ b \in 0 .. 1 BY <1>4 DEF Flag
<1>6. Refs(s) = Cardinality(HeldBy(th, s)) + a + b BY <1>4 DEF Refs
<1>7. QED BY <1>2, <1>3, <1>5, <1>6

LEMMA DecreaseCalm ==
  ASSUME TypeInv, TypeInv', Calm, NEW t \in Threads, DecreaseIoCount(t)
  PROVE  Calm'
<1>1. PICK h, h2, x, x2 :
           /\ Moves(t, h, h2) /\ h.at = "dec" /\ SessMoves(h.s, x, x2)
           /\ Is(x2, x.id, x.socket, LongDec(x.count), x.sending, x.connected, x.queued)
           /\ IF LongDec(x.count) = 0 THEN Goes(h, h2, "delete") ELSE Returns(h, h2)
  BY DecreaseIs
<1>2. h = th[t] /\ h.s \in Slots /\ Placed(h) /\ h \in Contexts BY <1>1, TurnIs, AtWork
<1>3. PICK s : s = h.s OBVIOUS
<1>4. SessMoves(s, x, x2) /\ x = session[s] BY <1>1, <1>3 DEF SessMoves
<1>5. Weight(h) = h.owed + Base(h) /\ Base(h) \in 0 .. 1 /\ h.owed \in 1 .. 2
  BY <1>1, <1>2, WeightTable DEF Placed
<1>6. Weight(h) > 0 BY <1>5
<1>7. /\ Shape(h) /\ x.count \in Nat /\ LongDec(x.count) = x.count - 1 /\ x.count = Refs(s)
  BY <1>2, <1>3, <1>4, <1>6, BusyIs
<1>8. Unpooled /\ UNCHANGED <<port, io>>
  BY DEF DecreaseIoCount, Unpooled, poolVars, histVars, kernelVars
<1>9. (\A q \in Slots : KeptBoth(q)) /\ IoOnce' BY <1>8, KernelSame
<1>10. /\ x2.count = x.count - 1 /\ x2.id = x.id /\ x2.socket = x.socket
       /\ x2.sending = x.sending
  BY <1>1, <1>7 DEF Is
<1>11. CASE x.count = 1 /\ Goes(h, h2, "delete")
  <2>1. Weight(h) <= 1 BY <1>2, <1>3, <1>7, <1>11, ShareBounded, ShareOf
  <2>2. h.owed = 1 /\ Base(h) = 0 /\ Weight(h) = 1 BY <1>5, <2>1
  <2>3. h.back # "handler" BY <2>2, WeightTable
  <2>4. h2.at = "delete" /\ h2.s = s /\ h2.back = h.back /\ h2.owed = h.owed /\ h2.on = h.on
    BY <1>3, <1>11 DEF Goes
  <2>5. Shape(h2)' BY <2>2, <2>3, <2>4 DEF Shape, Creates, Calls, Deletes
  <2>6. Weight(h2) = 0 BY <2>4, WeightTable DEF Deletes
  <2>7. Share(h2, s) = 0 BY <2>4, <2>6, ShareOf
  <2>8. x2.count = x.count - Weight(h) + Share(h2, s) BY <1>7, <1>10, <2>2, <2>7
  <2>9. AtSend(h, h2, x, x2) /\ (RecvH(h2) => RecvH(h))
    BY <1>10, <2>3, <2>4 DEF AtSend, SendH, RecvH
  <2>10. h2.at = "delete" /\ x2.count = 0 /\ h2.s \in {s, NoSlot} BY <1>10, <1>11, <2>4
  <2>11. QED
    BY <1>1, <1>2, <1>3, <1>4, <1>6, <1>8, <1>9, <1>10, <2>5, <2>8, <2>9, <2>10, BusyKept
<1>12. CASE Returns(h, h2)
  <2>1. Leads(h, h2, s, h.owed - 1 + Base(h)) /\ Shape(h2)'
    BY <1>2, <1>3, <1>5, <1>7, <1>12, ReturnsLeads
  <2>2. x2.count = x.count - Weight(h) + (h.owed - 1 + Base(h)) BY <1>5, <1>7, <1>10
  <2>3. QED BY <1>1, <1>2, <1>3, <1>4, <1>6, <1>8, <1>9, <1>10, <2>1, <2>2, BusyLeads
<1>13. QED BY <1>1, <1>7, <1>11, <1>12

LEMMA ConnectExCalm ==
  ASSUME TypeInv, TypeInv', Calm, NEW t \in Threads, ConnectEx(t)
  PROVE  Calm'
<1>1. PICK h, h2, g :
           /\ Moves(t, h, h2) /\ h.at = "connectEx" /\ h.s \in Slots /\ g \in Ids /\ g = h.id
           /\ \/ h2 = Idle /\ io' = [io EXCEPT ![g]["connect"] = 1]
              \/ Owes(h, h2, 1) /\ io' = io
  BY ConnectExIs
<1>2. h = th[t] BY <1>1, TurnIs
<1>3. PICK s : s = h.s OBVIOUS
<1>4. PICK x : SessMoves(s, x, x) BY <1>1, <1>3, SessionSame DEF ConnectEx
<1>5. Weight(h) = 1 /\ x = session[s] BY <1>1, <1>4, WeightTable DEF SessMoves
<1>6. Shape(h) /\ x.count \in Nat /\ ThreadOk(t, h, s, x)
  BY <1>1, <1>2, <1>3, <1>5, BusyIs
<1>7. Unpooled /\ port' = port BY DEF ConnectEx, Unpooled, poolVars, histVars
<1>8. Alone(t, s) /\ SlotOf(g) = s BY <1>1, <1>3, <1>6 DEF ThreadOk, Shape, Creates
<1>9. CASE h2 = Idle /\ io' = [io EXCEPT ![g]["connect"] = 1]
  <2>1. h2.at = "idle" /\ h2.s = NoSlot /\ h2.back = "idle" BY <1>9, IdleIs
  <2>2. Shape(h2)' BY <2>1 DEF Shape, Creates, Calls, Deletes
  <2>3. NoSlot # s BY <1>1, <1>3, ClientAssumption
  <2>4. Share(h2, s) = 0 BY <2>1, <2>3, ShareOf
  <2>5. PICK k : k = "connect" OBVIOUS
  <2>6. Posts(g, k) BY <1>1, <1>7, <1>9, <2>5 DEF Posts, Kinds
  <2>7. Passes(t, s, h, h2, k)
    BY <1>8, <2>1, <2>5 DEF Passes, RecvH, SendH, Creates, Deletes, SendKinds
  <2>8. x.count = x.count - Weight(h) + Share(h2, s) + 1 /\ Weight(h) > 0 BY <1>5, <1>6, <2>4
  <2>9. QED BY <1>1, <1>3, <1>4, <1>7, <1>8, <2>1, <2>2, <2>6, <2>7, <2>8, BusyStart
<1>10. CASE Owes(h, h2, 1) /\ io' = io
  <2>1. Leads(h, h2, s, 1 + Base(h)) /\ Shape(h2)' BY <1>3, <1>6, <1>10, OwesLeads
  <2>2. Base(h) = 0 BY <1>1, <1>6, WeightTable DEF Shape, Calls, Sends
  <2>3. (\A q \in Slots : KeptBoth(q)) /\ IoOnce' BY <1>7, <1>10, KernelSame
  <2>4. x.count = x.count - Weight(h) + (1 + Base(h)) /\ Weight(h) > 0 BY <1>5, <1>6, <2>2
  <2>5. QED BY <1>1, <1>3, <1>4, <1>7, <2>1, <2>3, <2>4, BusyLeads
<1>11. QED BY <1>1, <1>9, <1>10

(* A completion is taken from the port: its reference is now the thread's.  *)
LEMMA TakeSides ==
  ASSUME TypeInv, NEW s \in Slots, RecvSide(s), SendSide(s), NEW t \in Threads,
         NEW h, NEW h2, Moves(t, h, h2), h.s # s, h2.s = s, NEW e, port # <<>>,
         e = Head(port), e.slot = s, e \in Entries, session' = session,
         port' = Tail(port), io' = io, ~SendH(h), h2.back = "idle",
         h2.at \in (IF e.kind = "send" THEN {"sent", "dec"} ELSE {"handler", "dec"})
  PROVE  /\ RecvSide(s)' /\ SendSide(s)' /\ ~Quiet(s)
         /\ \/ /\ Away(port, io, s, RecvKinds) /\ ~Away(port', io', s, RecvKinds)
               /\ Away(port', io', s, SendKinds) <=> Away(port, io, s, SendKinds)
            \/ /\ Away(port, io, s, SendKinds) /\ ~Away(port', io', s, SendKinds)
               /\ Away(port', io', s, RecvKinds) <=> Away(port, io, s, RecvKinds)
<1>1. h = th[t] /\ th'[t] = h2 /\ \A u \in Threads : u # t => th'[u] = th[u]
  BY TurnIs
<1>2. port \in Seq(Entries) BY TypeInvIs DEF RestTypes
<1>3. e.kind \in Kinds BY DEF Entries
<1>4. CASE e.kind \in RecvKinds
  <2>1. e.kind \notin SendKinds /\ h2.at \in {"handler", "dec"}
    BY <1>4 DEF RecvKinds, SendKinds
  <2>2. /\ Away(port, io, s, RecvKinds) /\ ~Away(Tail(port), io, s, RecvKinds)
        /\ One(Tail(port), io, s, RecvKinds)
    BY <1>2, <1>4, TakesHere DEF RecvSide
  <2>3. Kept(port, io, Tail(port), io, s, SendKinds) BY <1>2, <2>1, TakesElse
  <2>4. \A u \in Threads : th'[u].s = s /\ RecvH(th'[u]) => u = t
    BY <1>1, <2>2 DEF RecvSide
  <2>5. RecvSide(s)' BY <2>2, <2>4 DEF RecvSide
  <2>6. One(Tail(port), io, s, SendKinds)
        /\ (Away(Tail(port), io, s, SendKinds) <=> Away(port, io, s, SendKinds))
    BY <2>3 DEF Kept, SendSide
  <2>7. \A u \in Threads : th'[u].s = s /\ SendH(th'[u])
                            => u # t /\ th[u].s = s /\ SendH(th[u])
    BY <1>1, <2>1 DEF SendH
  <2>8. SendSide(s)' BY <1>1, <2>6, <2>7 DEF SendSide
  <2>9. QED BY <2>2, <2>5, <2>6, <2>8 DEF Quiet
<1>5. CASE e.kind \in SendKinds
  <2>1. e.kind \notin RecvKinds /\ h2.at \in {"sent", "dec"}
    BY <1>5 DEF RecvKinds, SendKinds
  <2>2. /\ Away(port, io, s, SendKinds) /\ ~Away(Tail(port), io, s, SendKinds)
        /\ One(Tail(port), io, s, SendKinds)
    BY <1>2, <1>5, TakesHere DEF SendSide
  <2>3. Kept(port, io, Tail(port), io, s, RecvKinds) BY <1>2, <2>1, TakesElse
  <2>4. \A u \in Threads : th'[u].s = s /\ SendH(th'[u]) => u = t
    BY <1>1, <2>2 DEF SendSide
  <2>5. session[s].sending BY <2>2 DEF SendSide
  <2>6. SendSide(s)' BY <2>2, <2>4, <2>5 DEF SendSide
  <2>7. One(Tail(port), io, s, RecvKinds)
        /\ (Away(Tail(port), io, s, RecvKinds) <=> Away(port, io, s, RecvKinds))
    BY <2>3 DEF Kept, RecvSide
  <2>8. \A u \in Threads : th'[u].s = s /\ RecvH(th'[u])
                            => u # t /\ th[u].s = s /\ RecvH(th[u])
    BY <1>1, <2>1 DEF RecvH
  <2>9. RecvSide(s)' BY <1>1, <2>7, <2>8 DEF RecvSide
  <2>10. QED BY <2>2, <2>6, <2>7, <2>9 DEF Quiet
<1>6. QED BY <1>3, <1>4, <1>5 DEF Kinds, RecvKinds, SendKinds

LEMMA DequeueCalm ==
  ASSUME TypeInv, TypeInv', Calm, NEW t \in Threads, Dequeue(t)
  PROVE  Calm'
<1>1. PICK h, h2, e :
           /\ Moves(t, h, h2) /\ h = Idle /\ port # <<>> /\ e = Head(port) /\ e \in Entries
           /\ h2.s = e.slot /\ h2.on = e.slot /\ h2.id = NoId /\ h2.back = "idle"
           /\ \/ e.ok /\ h2.at = (IF e.kind = "send" THEN "sent" ELSE "handler") /\ h2.owed = 0
              \/ ~e.ok /\ h2.at = "dec" /\ h2.owed = 1
  BY DequeueIs
<1>2. PICK s \in Slots : s = e.slot BY <1>1 DEF Entries
<1>3. h = th[t] /\ h.at = "idle" /\ h.s = NoSlot BY <1>1, TurnIs, IdleIs
<1>4. NoSlot # s BY <1>2, ClientAssumption
<1>5. port' = Tail(port) /\ io' = io /\ session' = session BY DEF Dequeue
<1>6. h2.at \in (IF e.kind = "send" THEN {"sent", "dec"} ELSE {"handler", "dec"})
  BY <1>1
<1>7. ~SendH(h) BY <1>3 DEF SendH
<1>8. SlotOk(s) /\ RecvSide(s) /\ SendSide(s) BY DEF Calm, SlotCalm
<1>9. /\ RecvSide(s)' /\ SendSide(s)' /\ ~Quiet(s)
      /\ \/ /\ Away(port, io, s, RecvKinds) /\ ~Away(port', io', s, RecvKinds)
            /\ Away(port', io', s, SendKinds) <=> Away(port, io, s, SendKinds)
         \/ /\ Away(port, io, s, SendKinds) /\ ~Away(port', io', s, SendKinds)
            /\ Away(port', io', s, RecvKinds) <=> Away(port, io, s, RecvKinds)
  BY <1>1, <1>2, <1>3, <1>4, <1>5, <1>6, <1>7, <1>8, TakeSides
<1>10. Used(s) /\ Crowd(t, s) BY <1>8, <1>9, CrowdIs DEF Used
<1>11. Shape(h2)' BY <1>1 DEF Shape, Creates, Calls, Deletes
<1>12. PICK x : SessMoves(s, x, x) BY <1>5, SessionSame
<1>13. x = session[s] BY <1>12 DEF SessMoves
<1>14. Unpooled BY DEF Dequeue, Unpooled, poolVars
<1>15. ASSUME NEW q \in Slots, q # s PROVE KeptBoth(q)
  <2>1. port \in Seq(Entries) BY TypeInvIs DEF RestTypes
  <2>2. Kept(port, io, Tail(port), io, q, RecvKinds) /\ Kept(port, io, Tail(port), io, q, SendKinds)
    BY <1>1, <1>2, <1>15, <2>1, TakesElse
  <2>3. QED BY <1>5, <2>2 DEF KeptBoth
<1>16. IoOnce' BY <1>5 DEF Calm, IoOnce
<1>17. h2.at \notin Creates \cup Deletes BY <1>1 DEF Creates, Deletes
<1>18. Weight(h2) = 1
  <2>1. CASE h2.at = "dec" /\ h2.owed = 1
    <3>1. Base(h2) = 0 BY <1>1, WeightTable
    <3>2. QED BY <2>1, <3>1, WeightTable
  <2>2. CASE h2.at \in {"sent", "handler"} BY <2>2, WeightTable DEF Served
  <2>3. QED BY <1>1, <2>1, <2>2
<1>19. x.count = Refs(s)'
  <2>1. x.count = Refs(s) BY <1>8, <1>10, <1>13 DEF SlotOk, Counted
  <2>2. /\ Share(h, s) \in 0 .. 3 /\ Share(h2, s) \in 0 .. 3
        /\ Refs(s)' = Refs(s) - Share(h, s) + Share(h2, s)
              - Flag(Away(port, io, s, RecvKinds)) + Flag(Away(port', io', s, RecvKinds))
              - Flag(Away(port, io, s, SendKinds)) + Flag(Away(port', io', s, SendKinds))
    BY <1>1, RefsTurn
  <2>3. Share(h, s) = 0 /\ Share(h2, s) = 1 BY <1>1, <1>2, <1>3, <1>4, <1>18, ShareOf
  <2>4. PICK a, b, c, d : /\ a = Flag(Away(port, io, s, RecvKinds))
                          /\ b = Flag(Away(port', io', s, RecvKinds))
                          /\ c = Flag(Away(port, io, s, SendKinds))
                          /\ d = Flag(Away(port', io', s, SendKinds))
    OBVIOUS
  <2>5. \/ a = 1 /\ b = 0 /\ c = d /\ c \in 0 .. 1
        \/ c = 1 /\ d = 0 /\ a = b /\ a \in 0 .. 1
    BY <1>9, <2>4 DEF Flag
  <2>6. PICK n : n = Refs(s) OBVIOUS
  <2>7. n \in Nat BY <2>6, RefsNatural
  <2>8. Refs(s)' = n - 0 + 1 - a + b - c + d BY <2>2, <2>3, <2>4, <2>6
  <2>9. QED BY ONLY <2>1, <2>5, <2>6, <2>7, <2>8
<1>20. QED
  BY <1>1, <1>2, <1>3, <1>9, <1>10, <1>11, <1>12, <1>14, <1>15, <1>16, <1>17, <1>19, BusyStep

(* Steps of the kernel and of the peers leave threads and slots alone.      *)
LEMMA StillCalm ==
  ASSUME TypeInv, TypeInv', Calm, UNCHANGED <<session, poolVars, th, gone>>,
         \A q \in Slots : KeptBoth(q), IoOnce'
  PROVE  Calm'
<1>1. UNCHANGED <<indexStack, sessionCount, idGen>> BY DEF poolVars
<1>2. idGen <= idGen' BY <1>1, TypeInvIs DEF RestTypes
<1>3. Shapes' BY <1>1 DEF Calm, Shapes, Shape
<1>4. ASSUME NEW q \in Slots PROVE SlotCalm(q)'
  <2>1. Frame(q) BY <1>1, <1>2, <1>4 DEF Frame, Apart, Taken, GoneSame
  <2>2. QED BY <2>1, FrameSlot DEF Calm
<1>5. GoneOnce' /\ IndexOnce' BY <1>1 DEF Calm, GoneOnce, IndexOnce
<1>6. QED BY <1>3, <1>4, <1>5 DEF Calm

LEMMA CompletesCalm ==
  ASSUME TypeInv, TypeInv', Calm, NEW g \in Ids, NEW k \in Kinds, NEW ok \in BOOLEAN,
         io[g][k] > 0, io' = [io EXCEPT ![g][k] = 0] \/ io' = [io EXCEPT ![g][k] = @ - 1],
         port' = Append(port, Completion(SlotOf(g), k, ok)),
         UNCHANGED <<session, poolVars, th, gone>>
  PROVE  Calm'
<1>1. io \in IoSet /\ port \in Seq(Entries) BY TypeInvIs DEF RestTypes
<1>2. PICK n : n = io[g][k] OBVIOUS
<1>3. n \in Nat /\ n <= 1 /\ n > 0 BY <1>1, <1>2 DEF IoSet, Calm, IoOnce
<1>4. n = 1 BY <1>3
<1>5. io' = [io EXCEPT ![g][k] = 0] \/ io' = [io EXCEPT ![g][k] = n - 1] BY <1>2
<1>6. io' = [io EXCEPT ![g][k] = 0] BY <1>4, <1>5
<1>7. IoOnce' BY <1>1, <1>6 DEF Calm, IoOnce, IoSet
<1>8. RecvKinds \in SUBSET Kinds /\ SendKinds \in SUBSET Kinds
  BY DEF RecvKinds, SendKinds, Kinds
<1>9. ASSUME NEW q \in Slots PROVE KeptBoth(q)
  BY <1>1, <1>2, <1>4, <1>6, <1>8, CompletesKeeps DEF KeptBoth
<1>10. QED BY <1>7, <1>9, StillCalm

LEMMA KernelCalm ==
  ASSUME TypeInv, TypeInv', Calm, NEW g \in Ids, Kernel(g)
  PROVE  Calm'
<1>1. CASE ConnectCompletes(g)
  <2>1. PICK ok \in BOOLEAN : port' = Append(port, Completion(SlotOf(g), "connect", ok))
    BY <1>1 DEF ConnectCompletes
  <2>2. /\ io[g]["connect"] > 0 /\ io' = [io EXCEPT ![g]["connect"] = 0]
        /\ UNCHANGED <<session, poolVars, th, gone>>
    BY <1>1 DEF ConnectCompletes, histVars
  <2>3. "connect" \in Kinds BY DEF Kinds
  <2>4. QED BY <2>1, <2>2, <2>3, CompletesCalm
<1>2. CASE RecvCompletes(g)
  <2>1. PICK ok \in BOOLEAN : port' = Append(port, Completion(SlotOf(g), "recv", ok))
    BY <1>2 DEF RecvCompletes
  <2>2. /\ io[g]["recv"] > 0 /\ io' = [io EXCEPT ![g]["recv"] = @ - 1]
        /\ UNCHANGED <<session, poolVars, th, gone>>
    BY <1>2 DEF RecvCompletes, histVars
  <2>3. "recv" \in Kinds BY DEF Kinds
  <2>4. QED BY <2>1, <2>2, <2>3, CompletesCalm
<1>3. CASE SendCompletes(g)
  <2>1. PICK ok \in BOOLEAN : port' = Append(port, Completion(SlotOf(g), "send", ok))
    BY <1>3 DEF SendCompletes
  <2>2. /\ io[g]["send"] > 0 /\ io' = [io EXCEPT ![g]["send"] = @ - 1]
        /\ UNCHANGED <<session, poolVars, th, gone>>
    BY <1>3 DEF SendCompletes, histVars
  <2>3. "send" \in Kinds BY DEF Kinds
  <2>4. QED BY <2>1, <2>2, <2>3, CompletesCalm
<1>4. QED BY <1>1, <1>2, <1>3 DEF Kernel

LEMMA QuietStepCalm ==
  ASSUME TypeInv, TypeInv', Calm, UNCHANGED <<session, poolVars, port, io, th, gone>>
  PROVE  Calm'
<1>1. (\A q \in Slots : KeptBoth(q)) /\ IoOnce' BY KernelSame
<1>2. QED BY <1>1, StillCalm

-----------------------------------------------------------------------------
(* A slot that one thread sets up or takes down, and a slot nobody works on.*)
LEMMA QuietOne ==
  ASSUME NEW p, NEW o, NEW s, NEW K, ~Away(p, o, s, K)
  PROVE  One(p, o, s, K)
BY DEF Away, One

LEMMA LoneSlot ==
  ASSUME TypeInv', NEW s \in Slots, NEW t \in Threads, NEW h2, h2 = th'[t],
         h2.at \in Creates \cup Deletes, Shape(h2)', Alone(t, s)', ~Taken(s)',
         NEW x2, x2 = session'[s], Own(s, x2)', ThreadOk(t, h2, s, x2)',
         h2.at \in {"register", "connectEx"} =>
           x2.count = 1 /\ x2.id \in Ids /\ gone'[x2.id] = 0
  PROVE  SlotCalm(s)'
<1>1. (\A u \in Threads : u # t => th'[u].s # s) /\ Quiet(s)' BY DEF Alone
<1>2. ~Away(port', io', s, RecvKinds) /\ ~Away(port', io', s, SendKinds)
  BY <1>1 DEF Quiet
<1>3. h2.back # "handler" BY DEF Shape, Creates, Deletes, Calls, Sends
<1>4. ~RecvH(h2) /\ ~SendH(h2) BY <1>3 DEF RecvH, SendH, Creates, Deletes
<1>5. RecvSide(s)'
  <2>1. One(port', io', s, RecvKinds) BY <1>2, QuietOne
  <2>2. \A u \in Threads : ~ (th'[u].s = s /\ RecvH(th'[u])) BY <1>1, <1>4
  <2>3. QED BY <2>1, <2>2 DEF RecvSide
<1>6. SendSide(s)'
  <2>1. One(port', io', s, SendKinds) BY <1>2, QuietOne
  <2>2. \A u \in Threads : ~ (th'[u].s = s /\ SendH(th'[u])) BY <1>1, <1>4
  <2>3. QED BY <1>2, <2>1, <2>2 DEF SendSide
<1>7. Used(s)' => Counted(s, x2)'
  <2>1. SUFFICES ASSUME Used(s)' PROVE Counted(s, x2)' OBVIOUS
  <2>2. Weight(h2) > 0 /\ h2.s = s BY <1>1, <2>1 DEF Used
  <2>3. h2.at \in {"register", "connectEx"}
    <3>1. h2.at \in Deletes \cup {"activate"} => Weight(h2) = 0 BY WeightTable
    <3>2. QED BY <2>2, <3>1 DEF Creates
  <2>4. Weight(h2) = 1 BY <2>3, WeightTable
  <2>5. th' \in [Threads -> Contexts] BY TypeInvNext DEF ThreadTypes
  <2>6. Cardinality(HeldBy(th', s)) = Share(th'[t], s) BY <1>1, <2>5, HeldAlone
  <2>7. Share(th'[t], s) = 1 BY <2>2, <2>4, ShareOf
  <2>8. Refs(s)' = 1 BY <1>2, <2>6, <2>7 DEF Refs, Flag
  <2>9. QED BY <2>3, <2>8 DEF Counted
<1>8. \A u \in Threads : th'[u].s = s => u = t BY <1>1
<1>9. SlotOk(s)'
  <2>1. ASSUME NEW u \in Threads, th'[u].s = s PROVE ThreadOk(u, th[u], s, x2)'
    BY <1>8, <2>1
  <2>2. QED BY <1>7, <2>1 DEF SlotOk
<1>10. QED BY <1>5, <1>6, <1>9 DEF SlotCalm

LEMMA EmptySlot ==
  ASSUME NEW s \in Slots, Nobody(s)', NEW x2, x2 = session'[s], Own(s, x2)', Unused(x2)'
  PROVE  SlotCalm(s)'
<1>1. (\A u \in Threads : th'[u].s # s) /\ Quiet(s)' BY DEF Nobody
<1>2. ~Away(port', io', s, RecvKinds) /\ ~Away(port', io', s, SendKinds)
  BY <1>1 DEF Quiet
<1>3. RecvSide(s)' /\ SendSide(s)'
  BY <1>1, <1>2, QuietOne DEF RecvSide, SendSide
<1>4. ~Used(s)' BY <1>1 DEF Used
<1>5. SlotOk(s)' BY <1>1, <1>4 DEF SlotOk
<1>6. QED BY <1>3, <1>5 DEF SlotCalm

LEMMA LoneStays ==
  ASSUME TypeInv, NEW s, NEW t \in Threads, NEW h, NEW h2, Moves(t, h, h2),
         Alone(t, s), KeptBoth(s)
  PROVE  Alone(t, s)' /\ (h2.s # s => Nobody(s)')
<1>1. th'[t] = h2 /\ \A u \in Threads : u # t => th'[u] = th[u] BY TurnIs
<1>2. Quiet(s)' BY QuietKept DEF Alone
<1>3. QED BY <1>1, <1>2 DEF Alone, Nobody

(* The other slots, and the rest, in a step of a thread on one slot.        *)
LEMMA FrameOthers ==
  ASSUME TypeInv, TypeInv', Calm, NEW s \in Slots, NEW t \in Threads, NEW h, NEW h2,
         Moves(t, h, h2), h.s \in {s, NoSlot}, h2.s \in {s, NoSlot}, Shape(h2)',
         \A q \in Slots : q # s => session'[q] = session[q],
         \A q \in Slots : KeptBoth(q), \A q \in Slots : q # s => (Taken(q)' <=> Taken(q)),
         \A q \in Slots : q # s => GoneSame(q), idGen <= idGen',
         SlotCalm(s)', GoneOnce', IoOnce', IndexOnce'
  PROVE  Calm'
<1>1. Shapes' BY TurnShapes DEF Calm
<1>2. ASSUME NEW q \in Slots, q # s PROVE SlotCalm(q)'
  <2>1. Apart(q) BY <1>2, TurnApart, ClientAssumption
  <2>2. Frame(q) BY <1>2, <2>1 DEF Frame
  <2>3. QED BY <2>2, FrameSlot DEF Calm
<1>3. QED BY <1>1, <1>2 DEF Calm

LEMMA LoneIs ==
  ASSUME TypeInv, Calm, NEW s \in Slots, NEW t \in Threads, NEW h, h = th[t], h.s = s,
         h.at \in Creates \cup Deletes, NEW x, x = session[s]
  PROVE  /\ Alone(t, s) /\ ~Taken(s) /\ ThreadOk(t, h, s, x) /\ Own(s, x) /\ Shape(h)
         /\ x \in SessionsSet /\ (Weight(h) > 0 => Counted(s, x))
<1>1. SlotOk(s) /\ Shape(h) BY DEF Calm, SlotCalm, Shapes
<1>2. ThreadOk(t, h, s, x) /\ ~Taken(s) /\ Own(s, x) BY <1>1 DEF SlotOk
<1>3. Alone(t, s) BY <1>2 DEF ThreadOk
<1>4. Weight(h) > 0 => Counted(s, x) BY <1>1 DEF SlotOk, Used
<1>5. QED BY <1>1, <1>2, <1>3, <1>4, SessionsAre

(* A step within the setting up or the taking down of a slot.               *)
LEMMA LoneStep ==
  ASSUME TypeInv, TypeInv', Calm, NEW s \in Slots, NEW t \in Threads, NEW h, NEW h2,
         Moves(t, h, h2), h.s = s, h2.s = s, h.at \in Creates \cup Deletes,
         h2.at \in Creates \cup Deletes, NEW x, NEW x2, SessMoves(s, x, x2),
         UNCHANGED <<indexStack, sessionCount, idGen>>,
         \A q \in Slots : KeptBoth(q), IoOnce', GoneOnce',
         \A q \in Slots : q # s => GoneSame(q), Own(s, x2), Shape(h2)',
         Alone(t, s)' => ThreadOk(t, h2, s, x2)',
         h2.at \in {"register", "connectEx"} =>
           x2.count = 1 /\ x2.id \in Ids /\ gone'[x2.id] = 0
  PROVE  Calm'
<1>1. h = th[t] /\ th'[t] = h2 BY TurnIs
<1>2. x = session[s] /\ session'[s] = x2 /\ \A q \in Slots : q # s => session'[q] = session[q]
  BY SessionsAre DEF SessMoves
<1>3. Alone(t, s) /\ ~Taken(s) BY <1>1, <1>2, LoneIs
<1>4. Alone(t, s)' BY <1>3, LoneStays
<1>5. \A q : Taken(q)' <=> Taken(q) BY DEF Taken
<1>6. Own(s, x2)' BY DEF Own
<1>7. SlotCalm(s)' BY <1>1, <1>2, <1>3, <1>4, <1>5, <1>6, LoneSlot
<1>8. IndexOnce' BY DEF Calm, IndexOnce
<1>9. idGen <= idGen' BY TypeInvIs DEF RestTypes
<1>10. QED BY <1>2, <1>5, <1>7, <1>8, <1>9, FrameOthers

LEMMA GoneStays ==
  ASSUME Calm, UNCHANGED <<gone, idGen>>
  PROVE  GoneOnce' /\ \A q : GoneSame(q)
BY DEF Calm, GoneOnce, GoneSame

LEMMA ActivateCalm ==
  ASSUME TypeInv, TypeInv', Calm, NEW t \in Threads, Activate(t)
  PROVE  Calm'
<1>1. PICK h, h2, x, x2 :
           /\ Moves(t, h, h2) /\ h.at = "activate" /\ Goes(h, h2, "register")
           /\ SessMoves(h.s, x, x2) /\ h.id \in Ids
           /\ IF x.count # 0 THEN x2 = x ELSE Is(x2, h.id, h.id, 1, FALSE, TRUE, x.queued)
  BY ActivateIs
<1>2. h = th[t] /\ h.s \in Slots BY <1>1, TurnIs, AtWork
<1>3. PICK s : s = h.s OBVIOUS
<1>4. SessMoves(s, x, x2) /\ x = session[s] BY <1>1, <1>3 DEF SessMoves
<1>5. ThreadOk(t, h, s, x) /\ Own(s, x) /\ Shape(h)
  BY <1>1, <1>2, <1>3, <1>4, LoneIs DEF Creates
<1>6. UNCHANGED <<indexStack, sessionCount, idGen, gone, port, io>>
  BY DEF Activate, poolVars, kernelVars, histVars
<1>7. Unused(x) /\ gone[h.id] = 0 /\ SlotOf(h.id) = s /\ h.id[2] <= idGen
  BY <1>1, <1>3, <1>5 DEF ThreadOk, Shape, Creates
<1>8. x2.count = 1 /\ x2.id \in Ids /\ gone'[x2.id] = 0 /\ Own(s, x2)
  <2>1. CASE x.count # 0
    BY <1>1, <1>5, <1>6, <1>7, <2>1 DEF Unused
  <2>2. CASE x.count = 0
    BY <1>1, <1>6, <1>7, <2>2 DEF Is, Own
  <2>3. QED BY <2>1, <2>2
<1>9. h2.at = "register" /\ h2.s = s /\ h2.id = h.id /\ h2.back = h.back
  BY <1>1, <1>3 DEF Goes
<1>10. Shape(h2)' BY <1>1, <1>3, <1>5, <1>6, <1>7, <1>9 DEF Shape, Creates, Calls, Deletes, Sends
<1>11. Alone(t, s)' => ThreadOk(t, h2, s, x2)' BY <1>9 DEF ThreadOk
<1>12. (\A q \in Slots : KeptBoth(q)) /\ IoOnce' BY <1>6, KernelSame
<1>13. GoneOnce' /\ \A q \in Slots : GoneSame(q) BY <1>6, GoneStays
<1>14. h.at \in Creates \cup Deletes /\ h2.at \in Creates \cup Deletes
  BY <1>1, <1>9 DEF Creates
<1>15. UNCHANGED <<indexStack, sessionCount, idGen>> BY <1>6
<1>16. QED
  BY <1>1, <1>2, <1>3, <1>4, <1>8, <1>9, <1>10, <1>11, <1>12, <1>13, <1>14, <1>15, LoneStep

(* The id is there, nobody else can have raised the counter, and the first  *)
(* exchange succeeds.                                                       *)
LEMMA DeleteSessionCalm ==
  ASSUME TypeInv, TypeInv', Calm, NEW t \in Threads, DeleteSession(t)
  PROVE  Calm'
<1>1. PICK h, h2, x :
           /\ Moves(t, h, h2) /\ h.at = "delete" /\ SessMoves(h.s, x, x)
           /\ IF x.id = NoId THEN Returns(h, h2)
              ELSE x.id \in Ids /\ Names(h, h2, "deleteCas", x.id)
  BY DeleteSessionIs
<1>2. h = th[t] /\ h.s \in Slots BY <1>1, TurnIs, AtWork
<1>3. PICK s : s = h.s OBVIOUS
<1>4. SessMoves(s, x, x) /\ x = session[s] BY <1>1, <1>3 DEF SessMoves
<1>5. ThreadOk(t, h, s, x) /\ Own(s, x) /\ Shape(h)
  BY <1>1, <1>2, <1>3, <1>4, LoneIs DEF Deletes
<1>6. UNCHANGED <<indexStack, sessionCount, idGen, gone, port, io>>
  BY DEF DeleteSession, poolVars, kernelVars, histVars
<1>7. x.count = 0 /\ x.id \in Ids /\ gone[x.id] = 0 BY <1>1, <1>5 DEF ThreadOk
<1>8. Names(h, h2, "deleteCas", x.id) BY <1>1, <1>7, ClientAssumption
<1>9. h2.at = "deleteCas" /\ h2.s = s /\ h2.id = x.id /\ h2.back = h.back /\ h2.owed = h.owed
  BY <1>3, <1>8 DEF Names
<1>10. Shape(h2)' BY <1>1, <1>5, <1>9 DEF Shape, Creates, Calls, Deletes, Sends
<1>11. Alone(t, s)' => ThreadOk(t, h2, s, x)' BY <1>6, <1>7, <1>9 DEF ThreadOk
<1>12. (\A q \in Slots : KeptBoth(q)) /\ IoOnce' BY <1>6, KernelSame
<1>13. GoneOnce' /\ \A q \in Slots : GoneSame(q) BY <1>6, GoneStays
<1>14. h.at \in Creates \cup Deletes /\ h2.at \in Creates \cup Deletes
       /\ h2.at \notin {"register", "connectEx"}
  BY <1>1, <1>9 DEF Deletes
<1>15. UNCHANGED <<indexStack, sessionCount, idGen>> BY <1>6
<1>16. QED
  BY <1>1, <1>2, <1>3, <1>4, <1>5, <1>9, <1>10, <1>11, <1>12, <1>13, <1>14, <1>15, LoneStep

LEMMA DeleteCasCalm ==
  ASSUME TypeInv, TypeInv', Calm, NEW t \in Threads, DeleteCas(t)
  PROVE  Calm'
<1>1. PICK h, h2, x, x2 :
           /\ Moves(t, h, h2) /\ h.at = "deleteCas" /\ SessMoves(h.s, x, x2)
           /\ IF x.count = 0
              THEN /\ Is(x2, x.id, x.socket, DeleteFlag, x.sending, x.connected, x.queued)
                   /\ Goes(h, h2, "teardown")
              ELSE x2 = x /\ Returns(h, h2)
  BY DeleteCasIs
<1>2. h = th[t] /\ h.s \in Slots BY <1>1, TurnIs, AtWork
<1>3. PICK s : s = h.s OBVIOUS
<1>4. SessMoves(s, x, x2) /\ x = session[s] BY <1>1, <1>3 DEF SessMoves
<1>5. ThreadOk(t, h, s, x) /\ Own(s, x) /\ Shape(h)
  BY <1>1, <1>2, <1>3, <1>4, LoneIs DEF Deletes
<1>6. UNCHANGED <<indexStack, sessionCount, idGen, gone, port, io>>
  BY DEF DeleteCas, poolVars, kernelVars, histVars
<1>7. x.count = 0 /\ x.id \in Ids /\ gone[x.id] = 0 /\ h.id = x.id
  BY <1>1, <1>5 DEF ThreadOk
<1>8. x2.count = DeleteFlag /\ x2.id = x.id /\ x2.socket = x.socket BY <1>1, <1>7 DEF Is
<1>9. h2.at = "teardown" /\ h2.s = s /\ h2.id = h.id /\ h2.back = h.back /\ h2.owed = h.owed
  BY <1>1, <1>3, <1>7 DEF Goes
<1>10. Shape(h2)' BY <1>1, <1>5, <1>9 DEF Shape, Creates, Calls, Deletes, Sends
<1>11. Alone(t, s)' => ThreadOk(t, h2, s, x2)' BY <1>6, <1>7, <1>8, <1>9 DEF ThreadOk
<1>12. (\A q \in Slots : KeptBoth(q)) /\ IoOnce' BY <1>6, KernelSame
<1>13. GoneOnce' /\ \A q \in Slots : GoneSame(q) BY <1>6, GoneStays
<1>14. h.at \in Creates \cup Deletes /\ h2.at \in Creates \cup Deletes
       /\ h2.at \notin {"register", "connectEx"}
  BY <1>1, <1>9 DEF Deletes
<1>15. UNCHANGED <<indexStack, sessionCount, idGen>> BY <1>6
<1>16. Own(s, x2) BY <1>5, <1>8 DEF Own
<1>17. QED
  BY <1>1, <1>2, <1>3, <1>4, <1>9, <1>10, <1>11, <1>12, <1>13, <1>14, <1>15, <1>16, LoneStep

LEMMA TeardownCalm ==
  ASSUME TypeInv, TypeInv', Calm, NEW t \in Threads, Teardown(t)
  PROVE  Calm'
<1>1. PICK h, h2, x, g :
           /\ Moves(t, h, h2) /\ h.at = "teardown" /\ SessMoves(h.s, x, x) /\ g = x.socket
           /\ h.id \in Ids /\ gone' = [gone EXCEPT ![h.id] = @ + 1]
           /\ \/ g = NoId /\ UNCHANGED <<port, sockets, io>>
              \/ g \in Ids /\ sockets' = [sockets EXCEPT ![g] = "closed"] /\ AbortIo(g)
           /\ Goes(h, h2, "clear")
  BY TeardownIs
<1>2. h = th[t] /\ h.s \in Slots BY <1>1, TurnIs, AtWork
<1>3. PICK s : s = h.s OBVIOUS
<1>4. SessMoves(s, x, x) /\ x = session[s] BY <1>1, <1>3 DEF SessMoves
<1>5. ThreadOk(t, h, s, x) /\ Own(s, x) /\ Shape(h)
  BY <1>1, <1>2, <1>3, <1>4, LoneIs DEF Deletes
<1>6. UNCHANGED <<indexStack, sessionCount, idGen>>
  BY DEF Teardown, poolVars
<1>7. x.id \in Ids /\ gone[x.id] = 0 /\ h.id = x.id /\ x.count = DeleteFlag
  BY <1>1, <1>5 DEF ThreadOk
<1>8. SlotOf(x.id) = s /\ x.id[2] <= idGen BY <1>5, <1>7, ClientAssumption DEF Own
<1>9. h2.at = "clear" /\ h2.s = s /\ h2.id = h.id /\ h2.back = h.back /\ h2.owed = h.owed
  BY <1>1, <1>3 DEF Goes
<1>10. Shape(h2)' BY <1>1, <1>5, <1>9 DEF Shape, Creates, Calls, Deletes, Sends
<1>11. Alone(t, s)' => ThreadOk(t, h2, s, x)' BY <1>7, <1>9 DEF ThreadOk
<1>12. (\A q \in Slots : KeptBoth(q)) /\ IoOnce'
  BY <1>1, KernelSame, AbortOthers DEF Calm
<1>13. gone' = [gone EXCEPT ![h.id] = 1] /\ gone \in [Ids -> Nat]
  <2>1. gone' = [gone EXCEPT ![h.id] = gone[h.id] + 1] BY <1>1
  <2>2. gone[h.id] + 1 = 1 BY <1>7
  <2>3. QED BY <2>1, <2>2, TypeInvIs DEF RestTypes
<1>14. GoneOnce' /\ \A q \in Slots : q # s => GoneSame(q)
  <2>1. \A q \in Slots : q # s => GoneSame(q) BY <1>7, <1>8, <1>13 DEF GoneSame
  <2>2. ASSUME NEW f \in Ids PROVE gone'[f] <= 1 /\ (gone'[f] > 0 => f[2] <= idGen)
    <3>1. CASE f = h.id BY <1>7, <1>8, <1>13, <3>1
    <3>2. CASE f # h.id BY <1>13, <3>2 DEF Calm, GoneOnce
    <3>3. QED BY <3>1, <3>2
  <2>3. QED BY <1>6, <2>1, <2>2 DEF GoneOnce
<1>15. h.at \in Creates \cup Deletes /\ h2.at \in Creates \cup Deletes
       /\ h2.at \notin {"register", "connectEx"}
  BY <1>1, <1>9 DEF Deletes
<1>16. QED
  BY <1>1, <1>2, <1>3, <1>4, <1>5, <1>6, <1>9, <1>10, <1>11, <1>12, <1>14, <1>15, LoneStep

LEMMA ClearCalm ==
  ASSUME TypeInv, TypeInv', Calm, NEW t \in Threads, Clear(t)
  PROVE  Calm'
<1>1. PICK h, h2, x : /\ Moves(t, h, h2) /\ h.at = "clear" /\ SessMoves(h.s, x, Cleared)
                      /\ Goes(h, h2, "recycle")
  BY ClearIs
<1>2. h = th[t] /\ h.s \in Slots BY <1>1, TurnIs, AtWork
<1>3. PICK s : s = h.s OBVIOUS
<1>4. SessMoves(s, x, Cleared) /\ x = session[s] BY <1>1, <1>3 DEF SessMoves
<1>5. Shape(h) BY <1>2 DEF Calm, Shapes
<1>6. UNCHANGED <<indexStack, sessionCount, idGen, gone, port, io>>
  BY DEF Clear, poolVars, kernelVars, histVars
<1>7. h2.at = "recycle" /\ h2.s = s /\ h2.back = h.back /\ h2.owed = h.owed
  BY <1>1, <1>3 DEF Goes
<1>8. Shape(h2)' BY <1>1, <1>5, <1>7 DEF Shape, Creates, Calls, Deletes, Sends
<1>9. Alone(t, s)' => ThreadOk(t, h2, s, Cleared)' BY <1>7 DEF ThreadOk, Cleared
<1>10. (\A q \in Slots : KeptBoth(q)) /\ IoOnce' BY <1>6, KernelSame
<1>11. GoneOnce' /\ \A q \in Slots : GoneSame(q) BY <1>6, GoneStays
<1>12. h.at \in Creates \cup Deletes /\ h2.at \in Creates \cup Deletes
       /\ h2.at \notin {"register", "connectEx"}
  BY <1>1, <1>7 DEF Deletes
<1>13. UNCHANGED <<indexStack, sessionCount, idGen>> BY <1>6
<1>14. Own(s, Cleared) BY ClearedIs DEF Own, Is
<1>15. QED
  BY <1>1, <1>2, <1>3, <1>4, <1>7, <1>8, <1>9, <1>10, <1>11, <1>12, <1>13, <1>14, LoneStep

-----------------------------------------------------------------------------
(* The stack of free indices.                                               *)
Among(q, y) == \E i \in DOMAIN q : q[i] = y

LEMMA PushIs ==
  ASSUME NEW q \in Seq(Slots), NEW s \in Slots, IsInjective(q), ~Among(q, s), NEW q2,
         q2 = Append(q, s)
  PROVE  /\ IsInjective(q2) /\ Len(q2) = Len(q) + 1 /\ Len(q) \in Nat
         /\ \A y : Among(q2, y) <=> Among(q, y) \/ y = s
<1>1. PICK n \in Nat : n = Len(q) OBVIOUS
<1>2. /\ DOMAIN q2 = 1 .. (n + 1) /\ DOMAIN q = 1 .. n /\ Len(q2) = n + 1
      /\ (\A i \in 1 .. n : q2[i] = q[i]) /\ q2[n + 1] = s
  BY <1>1, AppendIs
<1>3. \A i \in DOMAIN q2 : i \in DOMAIN q \/ i = n + 1 BY <1>2
<1>4. \A i \in DOMAIN q : i \in DOMAIN q2 /\ q2[i] = q[i] BY <1>2
<1>5. n + 1 \in DOMAIN q2 BY <1>2
<1>6. \A y : Among(q2, y) <=> Among(q, y) \/ y = s BY <1>2, <1>3, <1>4, <1>5 DEF Among
<1>7. IsInjective(q2) BY <1>2, <1>3, <1>4 DEF IsInjective, Among
<1>8. QED BY <1>1, <1>2, <1>6, <1>7

LEMMA PartIs ==
  \A Z : \A q \in Seq(Z) : \A m \in Nat : m <= Len(q) =>
    /\ DOMAIN SubSeq(q, 1, m) = 1 .. m /\ Len(SubSeq(q, 1, m)) = m
    /\ \A i \in 1 .. m : SubSeq(q, 1, m)[i] = q[i]
OBVIOUS

LEMMA FrontIs ==
  ASSUME NEW q \in Seq(Slots), q # <<>>
  PROVE  \E n \in Nat :
           /\ DOMAIN Front(q) = 1 .. (n - 1) /\ Len(Front(q)) = n - 1
           /\ n = Len(q) /\ n > 0 /\ DOMAIN q = 1 .. n
           /\ \A i \in 1 .. (n - 1) : Front(q)[i] = q[i]
           /\ Last(q) = q[n]
<1>1. PICK n \in Nat : n = Len(q) /\ n > 0 /\ DOMAIN q = 1 .. n BY TailIs
<1>2. PICK m \in Nat : m = n - 1 BY <1>1
<1>3. m <= Len(q) BY <1>1, <1>2
<1>4. /\ DOMAIN SubSeq(q, 1, m) = 1 .. m /\ Len(SubSeq(q, 1, m)) = m
      /\ \A i \in 1 .. m : SubSeq(q, 1, m)[i] = q[i]
  BY <1>3, PartIs
<1>5. Front(q) = SubSeq(q, 1, m) BY <1>1, <1>2 DEF Front
<1>6. Last(q) = q[n] BY <1>1 DEF Last
<1>7. QED BY <1>1, <1>2, <1>4, <1>5, <1>6

LEMMA PopIs ==
  ASSUME NEW q \in Seq(Slots), q # <<>>, IsInjective(q), NEW q2, q2 = Front(q)
  PROVE  /\ IsInjective(q2) /\ Len(q2) = Len(q) - 1 /\ Len(q) \in Nat
         /\ Among(q, Last(q))
         /\ \A y : Among(q2, y) <=> Among(q, y) /\ y # Last(q)
<1>1. PICK n, y :
           /\ n \in Nat /\ n = Len(q) /\ y = Last(q) /\ DOMAIN q2 = 1 .. (n - 1) /\ Len(q2) = n - 1
           /\ n > 0 /\ DOMAIN q = 1 .. n /\ (\A i \in 1 .. (n - 1) : q2[i] = q[i])
           /\ y = q[n]
  BY FrontIs
<1>2. /\ DOMAIN q2 = 1 .. (n - 1) /\ DOMAIN q = 1 .. n /\ Len(q2) = n - 1
      /\ n \in Nat /\ n > 0 /\ (\A i \in 1 .. (n - 1) : q2[i] = q[i]) /\ y = q[n]
  BY <1>1
<1>3. \A i \in DOMAIN q : i \in DOMAIN q2 \/ i = n BY <1>2
<1>4. \A i \in DOMAIN q2 : i \in DOMAIN q /\ q2[i] = q[i] /\ i # n BY <1>2
<1>5. n \in DOMAIN q BY <1>2
<1>6. \A z : Among(q2, z) <=> Among(q, z) /\ z # y
  BY <1>2, <1>3, <1>4, <1>5 DEF Among, IsInjective
<1>7. IsInjective(q2) BY <1>4 DEF IsInjective
<1>8. QED BY <1>1, <1>2, <1>5, <1>6, <1>7 DEF Among

(* A thread gives a slot back and leaves it.                                *)
LEMMA LeaveStep ==
  ASSUME TypeInv, TypeInv', Calm, NEW s \in Slots, NEW t \in Threads, NEW h, NEW h2,
         Moves(t, h, h2), h.s = s, h2 = Idle, h.at \in Creates \cup Deletes,
         UNCHANGED <<session, idGen, gone, port, io>>, indexStack' = Append(indexStack, s),
         sessionCount' = sessionCount - 1, Unused(session[s])
  PROVE  Calm'
<1>1. h = th[t] /\ th'[t] = h2 BY TurnIs
<1>2. PICK x : x = session[s] OBVIOUS
<1>3. Alone(t, s) /\ ~Taken(s) /\ Own(s, x) BY <1>1, <1>2, LoneIs
<1>4. h2.s = NoSlot /\ h2.at = "idle" /\ h2.back = "idle" BY IdleIs
<1>5. NoSlot # s BY ClientAssumption
<1>6. (\A q \in Slots : KeptBoth(q)) /\ IoOnce' BY KernelSame
<1>7. Nobody(s)' BY <1>3, <1>4, <1>5, <1>6, LoneStays
<1>8. Own(s, x)' BY <1>3 DEF Own
<1>9. Unused(x)' BY <1>2 DEF Unused
<1>10. x = session'[s] BY <1>2
<1>11. SlotCalm(s)' BY <1>7, <1>8, <1>9, <1>10, EmptySlot
<1>12. indexStack \in Seq(Slots) /\ sessionCount \in Int BY TypeInvIs DEF RestTypes
<1>13. IsInjective(indexStack) /\ Len(indexStack) + sessionCount = Cardinality(Slots)
  BY DEF Calm, IndexOnce
<1>14. ~Among(indexStack, s) BY <1>3 DEF Taken, Among
<1>15. PICK q2 : q2 = indexStack' OBVIOUS
<1>16. /\ IsInjective(q2) /\ Len(q2) = Len(indexStack) + 1 /\ Len(indexStack) \in Nat
       /\ \A y : Among(q2, y) <=> Among(indexStack, y) \/ y = s
  BY <1>12, <1>13, <1>14, <1>15, PushIs
<1>17. \A q \in Slots : q # s => (Taken(q)' <=> Taken(q))
  BY <1>15, <1>16 DEF Taken, Among
<1>18. IndexOnce'
  <2>1. PICK n, c, z : n = Len(indexStack) /\ c = sessionCount /\ z = Cardinality(Slots) OBVIOUS
  <2>2. n \in Nat /\ c \in Int /\ n + c = z BY <1>12, <1>13, <1>16, <2>1
  <2>3. Len(q2) = n + 1 /\ sessionCount' = c - 1 BY <1>16, <2>1
  <2>4. (n + 1) + (c - 1) = z BY ONLY <2>2
  <2>5. QED BY <1>15, <1>16, <2>1, <2>3, <2>4 DEF IndexOnce
<1>19. Shape(h2)' BY <1>4 DEF Shape, Creates, Calls, Deletes
<1>20. GoneOnce' /\ \A q : GoneSame(q) BY GoneStays
<1>21. idGen <= idGen' BY TypeInvIs DEF RestTypes
<1>22. QED
  BY <1>4, <1>6, <1>11, <1>17, <1>18, <1>19, <1>20, <1>21, FrameOthers

LEMMA RegisterPortCalm ==
  ASSUME TypeInv, TypeInv', Calm, NEW t \in Threads, RegisterPort(t)
  PROVE  Calm'
<1>1. PICK h, h2 :
           /\ Moves(t, h, h2) /\ h.at = "register" /\ h.s \in Slots /\ h.id \in Ids
           /\ \/ Goes(h, h2, "connectEx") /\ UNCHANGED <<indexStack, sessionCount, sockets>>
              \/ /\ h2 = Idle /\ indexStack' = Append(indexStack, h.s)
                 /\ sessionCount' = sessionCount - 1
                 /\ sockets' = [sockets EXCEPT ![h.id] = "closed"]
  BY RegisterIs
<1>2. h = th[t] BY <1>1, TurnIs
<1>3. PICK s : s = h.s OBVIOUS
<1>4. UNCHANGED <<session, idGen, gone, port, io>>
  BY DEF RegisterPort, histVars
<1>5. PICK x : SessMoves(s, x, x) BY <1>1, <1>3, <1>4, SessionSame
<1>6. x = session[s] BY <1>5 DEF SessMoves
<1>7. Weight(h) > 0 BY <1>1, WeightTable
<1>8. Alone(t, s) /\ ThreadOk(t, h, s, x) /\ Own(s, x) /\ Shape(h) /\ Counted(s, x)
  BY <1>1, <1>2, <1>3, <1>6, <1>7, LoneIs DEF Creates
<1>9. x.count = 1 /\ x.id \in Ids /\ gone[x.id] = 0
  <2>1. th \in [Threads -> Contexts] BY <1>1, TurnIs
  <2>2. Cardinality(HeldBy(th, s)) = Share(th[t], s) BY <1>8, <2>1, HeldAlone DEF Alone
  <2>3. Share(th[t], s) = 1 BY <1>1, <1>2, <1>3, WeightTable, ShareOf
  <2>4. Refs(s) = 1 BY <1>8, <2>2, <2>3 DEF Alone, Quiet, Refs, Flag
  <2>5. QED BY <1>8, <2>4 DEF Counted
<1>10. CASE Goes(h, h2, "connectEx") /\ UNCHANGED <<indexStack, sessionCount, sockets>>
  <2>1. h2.at = "connectEx" /\ h2.s = s /\ h2.id = h.id /\ h2.back = h.back
    BY <1>3, <1>10 DEF Goes
  <2>2. Shape(h2)' BY <1>1, <1>3, <1>4, <1>8, <2>1 DEF Shape, Creates, Calls, Deletes, Sends
  <2>3. Alone(t, s)' => ThreadOk(t, h2, s, x)' BY <2>1 DEF ThreadOk
  <2>4. (\A q \in Slots : KeptBoth(q)) /\ IoOnce' BY <1>4, KernelSame
  <2>5. GoneOnce' /\ \A q \in Slots : GoneSame(q) BY <1>4, GoneStays
  <2>6. h.at \in Creates \cup Deletes /\ h2.at \in Creates \cup Deletes
    BY <1>1, <2>1 DEF Creates
  <2>7. UNCHANGED <<indexStack, sessionCount, idGen>> BY <1>4, <1>10
  <2>8. gone'[x.id] = 0 BY <1>4, <1>9
  <2>9. QED
    BY <1>1, <1>3, <1>5, <1>8, <1>9, <2>1, <2>2, <2>3, <2>4, <2>5, <2>6, <2>7, <2>8, LoneStep
<1>11. CASE /\ h2 = Idle /\ indexStack' = Append(indexStack, h.s)
            /\ sessionCount' = sessionCount - 1
  <2>1. Unused(session[s]) BY <1>6, <1>9 DEF Unused
  <2>2. h.at \in Creates \cup Deletes BY <1>1 DEF Creates
  <2>3. indexStack' = Append(indexStack, s) /\ sessionCount' = sessionCount - 1 BY <1>3, <1>11
  <2>4. QED BY <1>1, <1>3, <1>4, <1>11, <2>1, <2>2, <2>3, LeaveStep
<1>12. QED BY <1>1, <1>10, <1>11

LEMMA RecycleCalm ==
  ASSUME TypeInv, TypeInv', Calm, NEW t \in Threads, Recycle(t)
  PROVE  Calm'
<1>1. PICK h, h2 : /\ Moves(t, h, h2) /\ h.at = "recycle" /\ h.s \in Slots
                   /\ indexStack' = Append(indexStack, h.s)
                   /\ sessionCount' = sessionCount - 1 /\ Returns(h, h2)
  BY RecycleIs
<1>2. h = th[t] BY <1>1, TurnIs
<1>3. PICK s : s = h.s OBVIOUS
<1>4. UNCHANGED <<session, idGen, gone, port, io>>
  BY DEF Recycle, kernelVars, histVars
<1>5. PICK x : x = session[s] OBVIOUS
<1>6. ThreadOk(t, h, s, x) /\ Shape(h)
  BY <1>1, <1>2, <1>3, <1>5, LoneIs DEF Deletes
<1>7. h.owed = 1 /\ h.back # "handler" BY <1>1, <1>6 DEF Shape, Deletes, Calls, Sends
<1>8. h2 = Idle BY <1>1, <1>7 DEF Returns, Resumes
<1>9. Unused(session[s]) BY <1>1, <1>5, <1>6, ClearedIs DEF ThreadOk, Unused, Is
<1>10. h.at \in Creates \cup Deletes BY <1>1 DEF Deletes
<1>11. QED BY <1>1, <1>3, <1>4, <1>8, <1>9, <1>10, LeaveStep

LEMMA CreateSessionCalm ==
  ASSUME TypeInv, TypeInv', Calm, NEW t \in Threads, CreateSession(t)
  PROVE  Calm'
<1>1. PICK h, h2, s, g :
           /\ Moves(t, h, h2) /\ h = Idle /\ Created(h2, s, g) /\ s \in Slots /\ g \in Ids
           /\ s = Last(indexStack) /\ g = <<s, idGen + 1>> /\ idGen + 1 \in 1 .. MaxConnects
  BY CreateIs
<1>2. h = th[t] /\ th'[t] = h2 /\ h.s = NoSlot /\ (\A u \in Threads : u # t => th'[u] = th[u])
  BY <1>1, TurnIs, IdleIs
<1>3. /\ indexStack # <<>> /\ indexStack' = Front(indexStack)
      /\ sessionCount' = sessionCount + 1 /\ idGen' = idGen + 1
      /\ UNCHANGED <<session, gone, port, io>>
  BY DEF CreateSession, histVars
<1>4. indexStack \in Seq(Slots) /\ sessionCount \in Int /\ idGen \in Nat
  BY TypeInvIs DEF RestTypes
<1>5. IsInjective(indexStack) /\ Len(indexStack) + sessionCount = Cardinality(Slots)
  BY DEF Calm, IndexOnce
<1>6. PICK q2 : q2 = indexStack' OBVIOUS
<1>7. /\ IsInjective(q2) /\ Len(q2) = Len(indexStack) - 1 /\ Len(indexStack) \in Nat
      /\ Among(indexStack, s) /\ \A y : Among(q2, y) <=> Among(indexStack, y) /\ y # s
  BY <1>1, <1>3, <1>4, <1>5, <1>6, PopIs
<1>8. Taken(s) /\ ~Taken(s)' /\ \A q \in Slots : q # s => (Taken(q)' <=> Taken(q))
  BY <1>6, <1>7 DEF Taken, Among
<1>9. IndexOnce'
  <2>1. PICK n, c, z : n = Len(indexStack) /\ c = sessionCount /\ z = Cardinality(Slots) OBVIOUS
  <2>2. n \in Nat /\ c \in Int /\ n + c = z BY <1>4, <1>5, <1>7, <2>1
  <2>3. Len(q2) = n - 1 /\ sessionCount' = c + 1 BY <1>3, <1>7, <2>1
  <2>4. (n - 1) + (c + 1) = z BY ONLY <2>2
  <2>5. QED BY <1>6, <1>7, <2>1, <2>3, <2>4 DEF IndexOnce
<1>10. PICK x : x = session[s] OBVIOUS
<1>11. Nobody(s) /\ Unused(x) /\ Own(s, x)
  BY <1>1, <1>8, <1>10 DEF Calm, SlotCalm, SlotOk
<1>12. idGen <= idGen' BY <1>3, <1>4
<1>13. (\A q \in Slots : KeptBoth(q)) /\ IoOnce'
  BY <1>3, KernelSame
<1>14. Alone(t, s)'
  <2>1. Quiet(s)' BY <1>1, <1>11, <1>13, QuietKept DEF Nobody
  <2>2. QED BY <1>2, <1>11, <2>1 DEF Alone, Nobody
<1>15. h2.at = "activate" /\ h2.s = s /\ h2.id = g /\ h2.back = "idle"
  BY <1>1 DEF Created
<1>16. SlotOf(g) = s /\ g[2] = idGen' BY <1>1, <1>3 DEF SlotOf
<1>17. gone[g] = 0
  <2>1. PICK n : n = gone[g] OBVIOUS
  <2>2. n \in Nat BY <1>1, <2>1, TypeInvIs DEF RestTypes
  <2>3. n > 0 => g[2] <= idGen BY <1>1, <2>1 DEF Calm, GoneOnce
  <2>4. ~ (idGen + 1 <= idGen) BY <1>4
  <2>5. ~ (n > 0) BY <1>3, <1>16, <2>3, <2>4
  <2>6. QED BY <2>1, <2>2, <2>5
<1>18. Shape(h2)'
  <2>1. g[2] <= idGen' BY <1>3, <1>4, <1>16
  <2>2. QED BY <1>1, <1>15, <1>16, <2>1 DEF Shape, Creates, Calls, Deletes
<1>19. Unused(x)' BY <1>3, <1>11 DEF Unused
<1>20. x = session'[s] BY <1>3, <1>10
<1>21. Own(s, x)'
  <2>1. x \in SessionsSet BY <1>1, <1>10, SessionsAre
  <2>2. QED BY <1>1, <1>11, <1>12, <2>1, OwnKept
<1>22. gone'[g] = 0 BY <1>3, <1>17
<1>23. ThreadOk(t, h2, s, x)' BY <1>14, <1>15, <1>19, <1>22 DEF ThreadOk
<1>24. h2.at \in Creates \cup Deletes /\ h2.at \notin {"register", "connectEx"}
  BY <1>15 DEF Creates
<1>25. SlotCalm(s)'
  BY <1>1, <1>2, <1>8, <1>14, <1>18, <1>20, <1>21, <1>23, <1>24, LoneSlot
<1>26. \A q \in Slots : GoneSame(q) BY <1>3 DEF GoneSame
<1>27. GoneOnce'
  <2>1. ASSUME NEW f \in Ids PROVE gone'[f] <= 1 /\ (gone'[f] > 0 => f[2] <= idGen')
    <3>1. gone[f] <= 1 /\ (gone[f] > 0 => f[2] <= idGen) BY DEF Calm, GoneOnce
    <3>2. f[2] \in Nat BY SlotOfId
    <3>3. f[2] <= idGen => f[2] <= idGen' BY <1>3, <1>4, <3>2
    <3>4. QED BY <1>3, <3>1, <3>3
  <2>2. QED BY <2>1 DEF GoneOnce
<1>28. QED
  BY <1>1, <1>2, <1>3, <1>8, <1>9, <1>12, <1>13, <1>15, <1>18, <1>25, <1>26, <1>27, FrameOthers

-----------------------------------------------------------------------------
LEMMA InitCalm ==
  ASSUME ClientInit, mode # "foreign"
  PROVE  Calm
<1>1. \A t \in Threads : th[t] = Idle BY DEF ClientInit
<1>2. Idle.at = "idle" /\ Idle.s = NoSlot /\ Idle.back = "idle" BY IdleIs
<1>3. Shapes BY <1>1, <1>2 DEF Shapes, Shape, Creates, Calls, Deletes
<1>4. io \in IoSet /\ port = <<>> /\ \A g \in Ids, k \in Kinds : io[g][k] = 0
  BY DEF ClientInit, IoSet
<1>5. DOMAIN port = {} BY <1>4
<1>6. IoOnce BY <1>4 DEF IoOnce
<1>7. GoneOnce BY DEF ClientInit, GoneOnce
<1>8. RecvKinds \in SUBSET Kinds /\ SendKinds \in SUBSET Kinds
  BY DEF RecvKinds, SendKinds, Kinds
<1>9. ASSUME NEW s \in Slots PROVE SlotCalm(s)
  <2>1. ~Away(port, io, s, RecvKinds) /\ ~Away(port, io, s, SendKinds)
    BY <1>4, <1>5, <1>8 DEF Away
  <2>2. \A t \in Threads : th[t].s # s BY <1>1, <1>2, ClientAssumption
  <2>3. Nobody(s) BY <2>1, <2>2 DEF Nobody, Quiet
  <2>4. session[s] = Cleared BY DEF ClientInit
  <2>5. Own(s, session[s]) /\ Unused(session[s])
    BY <2>4, ClearedIs DEF Own, Unused, Is
  <2>6. ~Used(s) BY <2>1, <2>2 DEF Used, Quiet
  <2>7. SlotOk(s) BY <2>2, <2>3, <2>5, <2>6 DEF SlotOk
  <2>8. RecvSide(s) /\ SendSide(s)
    BY <2>1, <2>2, QuietOne DEF RecvSide, SendSide
  <2>9. QED BY <2>7, <2>8 DEF SlotCalm
<1>10. IndexOnce
  <2>1. PICK n \in Nat : n = Cardinality(Slots)
    BY ClientAssumption, FS_CardinalityType
  <2>2. \E f \in [1 .. n -> Slots] : IsInjective(f)
    <3>1. PICK f \in Bijection(1 .. n, Slots) : TRUE
      BY <2>1, ClientAssumption, FS_CardinalityType DEF ExistsBijection
    <3>2. f \in [1 .. n -> Slots] /\ IsInjective(f)
      BY <3>1 DEF Bijection, Injection, IsInjective
    <3>3. QED BY <3>2
  <2>3. indexStack \in [1 .. n -> Slots] /\ IsInjective(indexStack)
    BY <2>1, <2>2 DEF ClientInit, SetToSeq
  <2>4. Len(indexStack) = n BY <2>1, <2>3
  <2>5. sessionCount = 0 BY DEF ClientInit
  <2>6. QED BY <2>1, <2>3, <2>4, <2>5 DEF IndexOnce
<1>11. QED BY <1>3, <1>6, <1>7, <1>9, <1>10 DEF Calm

LEMMA ModeSame == [ClientNext]_clientVars => mode' = mode
<1> SUFFICES ASSUME [ClientNext]_clientVars PROVE mode' = mode OBVIOUS
<1>1. CASE ConnectTurn
  BY <1>1
  DEF ConnectTurn, CreateSession, Activate, RegisterPort, ConnectEx, boundVars
<1>2. ASSUME NEW t, StartCall(t) \/ Dequeue(t) PROVE mode' = mode
  BY <1>2 DEF StartCall, Dequeue, boundVars
<1>3. ASSUME NEW t, Continue(t) PROVE mode' = mode
  BY <1>3
  DEF Continue, PostRecv, WSARecv, ProcessSend, PostSend, Claim, WSASend, SendReset,
      TryAcquireSession, AcquireRef, SendPacket, Disconnect, CancelIo, DecreaseIoCount,
      DeleteSession, DeleteCas, Teardown, Clear, Recycle, boundVars
<1>4. ASSUME NEW g, Kernel(g) \/ PeerCloses(g) PROVE mode' = mode
  BY <1>4
  DEF Kernel, ConnectCompletes, RecvCompletes, SendCompletes, PeerCloses, boundVars
<1>5. CASE UNCHANGED clientVars BY <1>5 DEF clientVars, boundVars
<1>6. QED BY <1>1, <1>2, <1>3, <1>4, <1>5 DEF ClientNext

LEMMA ContinueCalm ==
  ASSUME TypeInv, TypeInv', Calm, NEW t \in Threads, Continue(t)
  PROVE  Calm'
BY PostRecvCalm, WSARecvCalm, ProcessSendCalm, PostSendCalm, ClaimCalm, WSASendCalm,
   SendResetCalm, TryAcquireCalm, AcquireRefCalm, SendPacketCalm, CancelIoCalm,
   DecreaseCalm, DeleteSessionCalm, DeleteCasCalm, TeardownCalm, ClearCalm, RecycleCalm
DEF Continue

LEMMA CalmStep ==
  ASSUME TypeInv, TypeInv', Calm, mode # "foreign", [ClientNext]_clientVars
  PROVE  Calm'
<1>1. CASE ConnectTurn
  BY <1>1, CreateSessionCalm, ActivateCalm, RegisterPortCalm, ConnectExCalm
  DEF ConnectTurn, Threads
<1>2. ASSUME NEW t \in Workers, Dequeue(t) PROVE Calm'
  BY <1>2, DequeueCalm DEF Threads
<1>3. ASSUME NEW t \in Workers, th[t].at = "handler", StartCall(t) PROVE Calm'
  BY <1>3, StartCallCalm, ClientAssumption DEF Threads
<1>4. ASSUME NEW t \in Threads, Continue(t) PROVE Calm'
  BY <1>4, ContinueCalm
<1>5. ASSUME NEW g \in Ids, Kernel(g) PROVE Calm'
  BY <1>5, KernelCalm
<1>6. ASSUME NEW g \in Ids, PeerCloses(g) PROVE Calm'
  BY <1>6, QuietStepCalm DEF PeerCloses, histVars
<1>7. CASE UNCHANGED clientVars
  BY <1>7, QuietStepCalm DEF clientVars, kernelVars, histVars
<1>8. QED BY <1>1, <1>2, <1>3, <1>4, <1>5, <1>6, <1>7 DEF ClientNext

LEMMA ClientStep == ClientInv /\ [ClientNext]_clientVars => ClientInv'
<1> SUFFICES ASSUME ClientInv, [ClientNext]_clientVars PROVE ClientInv' OBVIOUS
<1>1. TypeInv /\ TypeInv' BY TypeStep DEF ClientInv
<1>2. mode' = mode BY ModeSame
<1>3. CASE mode = "foreign" BY <1>1, <1>2, <1>3 DEF ClientInv
<1>4. CASE mode # "foreign"
  <2>1. Calm BY <1>4 DEF ClientInv
  <2>2. Calm' BY <1>1, <1>4, <2>1, CalmStep
  <2>3. QED BY <1>1, <2>2 DEF ClientInv
<1>5. QED BY <1>3, <1>4

(* The invariant of the sessions of the client holds always: in every mode  *)
(* the types, and as long as handlers only call on their own session the    *)
(* counter of each slot stands for the threads and operations it has.       *)
THEOREM ClientInvariance == ClientSpec => []ClientInv
<1>1. ClientInit => ClientInv BY InitTypes, InitCalm DEF ClientInv
<1>2. ClientInv /\ [ClientNext]_clientVars => ClientInv' BY ClientStep
<1>3. QED BY <1>1, <1>2, PTL DEF ClientSpec

(* The free indices and m_lSessionCount make up the array, and              *)
(* OnDisconnected is called once for a session.                             *)
THEOREM IndexAlwaysConserved == ClientSpec => []IndexConserved
<1>1. ClientInv => IndexConserved
  BY DEF ClientInv, TypeInv, IndexConserved, Calm, IndexOnce, GoneOnce
<1>2. QED BY <1>1, ClientInvariance, PTL

LEMMA OneAtMost ==
  ASSUME NEW Z, \A x, y \in Z : x = y
  PROVE  Cardinality(Z) = (IF Z = {} THEN 0 ELSE 1)
<1>1. CASE Z = {} BY <1>1, FS_EmptySet
<1>2. CASE Z # {}
  <2>1. PICK x : x \in Z BY <1>2
  <2>2. Z = {x} BY <2>1
  <2>3. QED BY <1>2, <2>2, FS_Singleton
<1>3. QED BY <1>1, <1>2

LEMMA OneOfThree ==
  ASSUME NEW A, NEW B, NEW C, \A x, y \in A : x = y, \A x, y \in B : x = y,
         \A x, y \in C : x = y, A = {} \/ (B = {} /\ C = {}), B = {} \/ C = {}
  PROVE  Cardinality(A) + Cardinality(B) + Cardinality(C) <= 1
<1>1. /\ Cardinality(A) = (IF A = {} THEN 0 ELSE 1)
      /\ Cardinality(B) = (IF B = {} THEN 0 ELSE 1)
      /\ Cardinality(C) = (IF C = {} THEN 0 ELSE 1)
  BY OneAtMost
<1>2. PICK a, b, c : a = Cardinality(A) /\ b = Cardinality(B) /\ c = Cardinality(C) OBVIOUS
<1>3. /\ a \in 0 .. 1 /\ b \in 0 .. 1 /\ c \in 0 .. 1
      /\ (a = 0 \/ (b = 0 /\ c = 0)) /\ (b = 0 \/ c = 0)
  BY <1>1, <1>2
<1>4. a + b + c <= 1 BY <1>3
<1>5. QED BY <1>2, <1>4

LEMMA OperationsOne ==
  ASSUME NEW s, NEW K \in SUBSET Kinds, One(port, io, s, K)
  PROVE  /\ \A x, y \in Outstanding(s, K) : x = y
         /\ \A i, j \in Queued(s, K) : i = j
         /\ Outstanding(s, K) = {} \/ Queued(s, K) = {}
         /\ ~Away(port, io, s, K) => Outstanding(s, K) = {} /\ Queued(s, K) = {}
<1>1. ASSUME NEW x \in Outstanding(s, K)
      PROVE  /\ x[1] \in Ids /\ x[2] \in K /\ x = <<x[1], x[2]>> /\ SlotOf(x[1]) = s
             /\ io[x[1]][x[2]] > 0
  BY DEF Outstanding
<1>2. \A x, y \in Outstanding(s, K) : x = y
  <2>1. SUFFICES ASSUME NEW x \in Outstanding(s, K), NEW y \in Outstanding(s, K) PROVE x = y OBVIOUS
  <2>2. x[1] = y[1] /\ x[2] = y[2] BY <1>1 DEF One
  <2>3. QED BY <1>1, <2>2
<1>3. \A i, j \in Queued(s, K) : i = j BY DEF Queued, One
<1>4. Outstanding(s, K) = {} \/ Queued(s, K) = {} BY <1>1 DEF Queued, One
<1>5. ~Away(port, io, s, K) => Outstanding(s, K) = {} /\ Queued(s, K) = {}
  BY <1>1 DEF Queued, Away
<1>6. QED BY <1>2, <1>3, <1>4, <1>5

LEMMA SidesAre ==
  ASSUME TypeInv, Calm
  PROVE  SidesSerial
<1>1. \A g \in Ids, k \in Kinds : io[g][k] <= 1 BY DEF Calm, IoOnce
<1>2. RecvKinds \in SUBSET Kinds /\ SendKinds \in SUBSET Kinds
  BY DEF RecvKinds, SendKinds, Kinds
<1>3. ASSUME NEW s \in Slots
      PROVE  /\ Cardinality(Sending(s)) + Cardinality(Outstanding(s, {"send"}))
                  + Cardinality(Queued(s, {"send"})) <= 1
             /\ Cardinality(Receiving(s)) + Cardinality(Outstanding(s, {"connect", "recv"}))
                  + Cardinality(Queued(s, {"connect", "recv"})) <= 1
  <2>1. RecvSide(s) /\ SendSide(s) BY DEF Calm, SlotCalm
  <2>2. \A t \in Sending(s) : t \in Threads /\ th[t].s = s /\ SendH(th[t])
    BY DEF Sending, SendH
  <2>3. \A t \in Receiving(s) : t \in Threads /\ th[t].s = s /\ RecvH(th[t])
    BY DEF Receiving, RecvH, Calm, Shapes, Shape
  <2>4. /\ \A t, u \in Sending(s) : t = u
        /\ Sending(s) = {} \/ ~Away(port, io, s, SendKinds)
    BY <2>1, <2>2 DEF SendSide
  <2>5. /\ \A t, u \in Receiving(s) : t = u
        /\ Receiving(s) = {} \/ ~Away(port, io, s, RecvKinds)
    BY <2>1, <2>3 DEF RecvSide
  <2>6. One(port, io, s, RecvKinds) /\ One(port, io, s, SendKinds)
    BY <2>1 DEF RecvSide, SendSide
  <2>7. /\ \A x, y \in Outstanding(s, SendKinds) : x = y
        /\ \A i, j \in Queued(s, SendKinds) : i = j
        /\ Outstanding(s, SendKinds) = {} \/ Queued(s, SendKinds) = {}
        /\ ~Away(port, io, s, SendKinds)
             => Outstanding(s, SendKinds) = {} /\ Queued(s, SendKinds) = {}
    BY <1>2, <2>6, OperationsOne
  <2>8. /\ \A x, y \in Outstanding(s, RecvKinds) : x = y
        /\ \A i, j \in Queued(s, RecvKinds) : i = j
        /\ Outstanding(s, RecvKinds) = {} \/ Queued(s, RecvKinds) = {}
        /\ ~Away(port, io, s, RecvKinds)
             => Outstanding(s, RecvKinds) = {} /\ Queued(s, RecvKinds) = {}
    BY <1>2, <2>6, OperationsOne
  <2>9. Cardinality(Sending(s)) + Cardinality(Outstanding(s, SendKinds))
          + Cardinality(Queued(s, SendKinds)) <= 1
    BY <2>4, <2>7, OneOfThree
  <2>10. Cardinality(Receiving(s)) + Cardinality(Outstanding(s, RecvKinds))
          + Cardinality(Queued(s, RecvKinds)) <= 1
    BY <2>5, <2>8, OneOfThree
  <2>11. QED BY <2>9, <2>10 DEF SendKinds, RecvKinds
<1>4. QED BY <1>1, <1>3 DEF SidesSerial

(* One WSASend and one WSARecv of a session at a time, whoever else sends   *)
(* through PostSend, as long as handlers only call on their own session.    *)
THEOREM SidesAlwaysSerial == ClientSpec => [](mode # "foreign" => SidesSerial)
<1>1. ClientInv => (mode # "foreign" => SidesSerial) BY SidesAre DEF ClientInv
<1>2. QED BY <1>1, ClientInvariance, PTL
=============================================================================
