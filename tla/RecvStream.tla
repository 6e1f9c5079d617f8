----------------------------- MODULE RecvStream -----------------------------
(***************************************************************************)
(* The receive side of one connection: the peer's packets go into a TCP    *)
(* stream, the kernel fills the buffers of the posted WSARecv from it in   *)
(* pieces of any size, and ProcessRecv cuts the ring of bytes back into    *)
(* packets that handlers take apart.                                       *)
(*                                                                         *)
(* A byte is known by its place in the stream, 1, 2, ...  Framing is that  *)
(* of the lobby and the game, a header of size and type; the ECHO build    *)
(* has a header of the size alone.                                         *)
(***************************************************************************)
EXTENDS PacketLayout, RingBuffer

CONSTANTS
  RingSize,      (* capacity of m_recvBuffer: 16384                         *)
  MaxPackets,    (* bound: packets of the peer                              *)
  Followers,     (* bound: kinds of the packets after the first             *)
  Counts,        (* bound: lengths of what varies                           *)
  MaxCuts,       (* bound: receives the network completes early             *)
  FromFront      (* PostRecv of IocpClient, not of IocpServer               *)

ASSUME StreamAssumption ==
  RingSize \in Nat \ {0, 1} /\ Counts \subseteq Nat /\ FromFront \in BOOLEAN

VARIABLES
  sent,    (* packets of the peer, and at, the place of their first byte    *)
  got,     (* bytes of the stream the kernel has handed over                *)
  cuts,    (* used part of MaxCuts                                          *)
  recvBuffer,  (* m_recvBuffer                                              *)
  posted,  (* buffers of the posted WSARecv: <<start, length>>              *)
  pc,      (* worker: "post", "idle", "arrived", "cut", "done"              *)
  came,    (* transferredBytes                                              *)
  conn,    (* m_bConnectedFlag, and who cleared it: "up", "asked", "failed" *)
  given    (* packets given to OnRecv: kind, bytes, and the fields taken    *)

streamVars == <<sent, got, cuts, recvBuffer, posted, pc, came, conn, given>>

Lesser(a, b) == IF a < b THEN a ELSE b
Run(from, n) == [j \in 1 .. n |-> from + j - 1]

(* The packets the builders can make; each fills a buffer of the size its struct *)
(* has at least, or the program ends.                                       *)
PacketsOf(k, n) ==
  {[kind |-> k, n |-> n, fields |-> fs, at |-> 0,
    size |-> SizeOf(DeclaredFields(n, k)), long |-> SizeOf(fs)] :
     fs \in {f \in Ways(Builders(n), k) : n = 0 \/ f \notin Ways(Builders(0), k)}}
Packets == UNION {PacketsOf(k, n) : k \in Kinds, n \in Counts}

(* Where each field of a list of fields begins, and where the last one ends. *)
Layouts == {p.fields : p \in Packets}
           \cup UNION {Ways(Handlers(n), k) : k \in Kinds, n \in Counts}
Starts ==
  [fs \in Layouts |-> [j \in 1 .. Len(fs) + 1 |-> SizeOf(SubSeq(fs, 1, j - 1)) + 1]]

(* The last byte of packet i, and of all.                                   *)
EndOf(i) == IF i = 0 THEN 0 ELSE sent[i].at + HeaderSize + sent[i].long - 1
StreamLength == EndOf(Len(sent))

StreamInit ==
  /\ sent = <<>> /\ got = 0 /\ cuts = 0 /\ recvBuffer = NewRing(RingSize)
  /\ posted = <<>> /\ pc = "post" /\ came = 0 /\ conn = "up" /\ given = <<>>

(* The peer sends all its packets before the first byte arrives, which only *)
(* says that the network is slow.                                           *)
Send(p) ==
  /\ Len(sent) < MaxPackets /\ got = 0 /\ pc = "post"
  /\ Len(sent) > 0 => p.kind \in Followers
  /\ FoldLeft(PutField, NewBuffer(HeaderSize + p.size), PacketHeader \o p.fields).ok
  /\ sent' = Append(sent, [p EXCEPT !.at = StreamLength + 1])
  /\ UNCHANGED <<got, cuts, recvBuffer, posted, pc, came, conn, given>>

(* Variant of Space: the part behind the wrap is longer by one. *)
SpaceOver(r, at) ==
  LET k == DirectEnqueueSize(r)
      rest == GetFreeSize(r) - k
  IN IF rest > 0 THEN <<<<at, k>>, <<0, rest + 1>>>> ELSE <<<<at, k>>>>

(* The WSABUFs for the free part of the ring; the first begins at at.       *)
Space(r, at) ==
  LET k == DirectEnqueueSize(r)
      rest == GetFreeSize(r) - k
  IN IF rest > 0 THEN <<<<at, k>>, <<0, rest>>>> ELSE <<<<at, k>>>>

PostRecv ==
  /\ pc = "post"
  /\ IF conn = "up"
     THEN /\ posted' = Space(recvBuffer, IF FromFront THEN recvBuffer.front ELSE recvBuffer.rear)
          /\ pc' = "idle"
     ELSE posted' = <<>> /\ pc' = "done"
  /\ UNCHANGED <<sent, got, cuts, recvBuffer, came, conn, given>>

Room == posted[1][2] + (IF Len(posted) = 2 THEN posted[2][2] ELSE 0)

(* The kernel puts n bytes into the posted buffers, the first one first.    *)
(* A receive without room completes with no bytes, as the end of a stream   *)
(* does, and the worker disconnects.                                        *)
Fill ==
  LET most == Lesser(Room, StreamLength - got)
  IN /\ pc = "idle" /\ got < StreamLength
     /\ \E n \in (IF most = 0 THEN 0 ELSE 1) .. most :
          LET one == Lesser(n, posted[1][2])
              first == Write(recvBuffer, posted[1][1], Run(got + 1, one))
          IN /\ n < most => cuts < MaxCuts
             /\ cuts' = IF n < most THEN cuts + 1 ELSE cuts
             /\ recvBuffer' = IF n = one THEN first
                        ELSE Write(first, posted[2][1], Run(got + one + 1, n - one))
             /\ got' = got + n /\ came' = n
             /\ pc' = IF n = 0 THEN "done" ELSE "arrived"
             /\ conn' = IF n = 0 THEN "failed" ELSE conn
     /\ posted' = <<>>
     /\ UNCHANGED <<sent, given>>

(* The start of ProcessRecv.                                                *)
Arrive ==
  /\ pc = "arrived"
  /\ IF GetFreeSize(recvBuffer) < came
     THEN conn' = "failed" /\ pc' = "done" /\ recvBuffer' = recvBuffer
     ELSE recvBuffer' = MoveRear(recvBuffer, came) /\ pc' = "cut" /\ conn' = conn
  /\ came' = 0 /\ UNCHANGED <<sent, got, cuts, posted, given>>

(* The header the first bytes of the ring read as: that of a packet, or     *)
(* nonsense, of which one size is enough here.                              *)
Nonsense == [kind |-> "none", n |-> 0, fields |-> <<>>, size |-> 0, long |-> 0, at |-> 0]
Header ==
  LET bytes == PeekRetBool(recvBuffer, HeaderSize)
      of == {p \in Range(sent) : bytes = Run(p.at, HeaderSize)}
  IN IF of = {} THEN Nonsense ELSE CHOOSE p \in of : TRUE

Whole ==
  /\ GetUseSize(recvBuffer) >= HeaderSize
  /\ GetUseSize(recvBuffer) >= HeaderSize + Header.size

(* What a handler takes: the bytes of each field in turn.                   *)
Fields(bytes, fs) ==
  [j \in 1 .. Len(fs) |->
     SubSeq(bytes, Starts[fs][j], Lesser(Starts[fs][j + 1] - 1, Len(bytes)))]

(* One pass of the loop of ProcessRecv, with OnRecv and a handler.          *)
Deliver ==
  /\ pc = "cut" /\ Whole
  /\ LET p == Header
         body == MoveFront(recvBuffer, HeaderSize)
         bytes == PeekRetBool(body, p.size)
         ways == IF p.kind \in Kinds THEN Ways(Handlers(p.n), p.kind) ELSE {}
     IN /\ recvBuffer' = DequeueRetBool(body, p.size)
        /\ IF GetUseSize(body) < p.size
           THEN conn' = "failed" /\ pc' = "done" /\ given' = given
           ELSE /\ UNCHANGED <<conn, pc>>
                /\ \E fs \in IF ways = {} THEN {<<>>} ELSE ways :
                     given' = Append(given, [kind |-> p.kind, bytes |-> bytes, fields |-> fs])
  /\ UNCHANGED <<sent, got, cuts, posted, came>>

(* The end of the loop.                                                     *)
Again ==
  /\ pc = "cut" /\ ~Whole /\ pc' = "post"
  /\ UNCHANGED <<sent, got, cuts, recvBuffer, posted, came, conn, given>>

(* Disconnect by another thread; a posted receive is cancelled.             *)
Disconnect ==
  /\ conn = "up" /\ conn' = "asked"
  /\ posted' = <<>> /\ pc' = IF pc = "idle" THEN "done" ELSE pc
  /\ UNCHANGED <<sent, got, cuts, recvBuffer, came, given>>

Worker == PostRecv \/ Fill \/ Arrive \/ Deliver \/ Again
StreamNext == (\E p \in Packets : Send(p)) \/ Worker \/ Disconnect
StreamSpec == StreamInit /\ [][StreamNext]_streamVars

(* The workers go on and TCP delivers what was sent.                        *)
FairSpec == StreamSpec /\ WF_streamVars(Worker)

-----------------------------------------------------------------------------
(* The ring holds what has arrived and has not been given away, in order,   *)
(* however the bytes were cut and wherever the ring wraps                   *)
(* (IocpServer.cpp:646, RingBuffer.cpp:83).                                 *)
RingHolds ==
  conn # "failed" =>
    /\ Len(given) <= Len(sent)
    /\ LET out == EndOf(Len(given))
       IN Content(recvBuffer) = Run(out + 1, got - came - out)

(* OnRecv is given the packets of the peer, whole, one after the other: the *)
(* size a header declares is the size of what its builder put behind it     *)
(* (IocpServer.cpp:412, PacketDefine.h:127).                                *)
PacketsWhole ==
  \A i \in DOMAIN given :
    /\ i \in DOMAIN sent /\ given[i].kind = sent[i].kind
    /\ given[i].bytes = Run(sent[i].at + HeaderSize, sent[i].long)

(* A handler finds in each field it takes what the builder put there, and   *)
(* none runs past the end of its packet, which would end the program.       *)
FieldsReadBack ==
  \A i \in DOMAIN given \cap DOMAIN sent :
    LET p == sent[i]
        put == Fields(Run(p.at + HeaderSize, p.long), p.fields)
        size == Len(given[i].bytes)
        packet == MoveRearPos(NewBuffer(size), size)
    IN /\ IsPrefix(Fields(given[i].bytes, given[i].fields), put)
       /\ FoldLeft(TakeField, packet, given[i].fields).ok

(* What is sent arrives unless somebody disconnects, or a packet does not   *)
(* fit into the ring, which ends the connection and never hangs it.         *)
AllArrive ==
  <>[](\/ Len(given) = Len(sent)
       \/ conn = "asked"
       \/ conn = "failed" /\ \E p \in Range(sent) : HeaderSize + p.long >= RingSize)
=============================================================================
