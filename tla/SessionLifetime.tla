--------------------------- MODULE SessionLifetime ---------------------------
(***************************************************************************)
(* The life of the sessions of jh::IocpServer.  A session is a slot of     *)
(* m_pSessionArray that is used again and again; what keeps it alive is    *)
(* the counter m_lIoCount: one for the creator, one for every overlapped   *)
(* operation registered with the kernel, one for every completion that     *)
(* waits in the completion port or is being processed, and one for every   *)
(* TryAcquireSession.  The thread that brings the counter to zero tears    *)
(* the session down and returns its index to m_sessionIndexStack.          *)
(*                                                                         *)
(* One action is one interlocked operation, one locked section or one      *)
(* kernel call of a thread, so that the steps of the acceptor and of the   *)
(* workers interleave as they do in the program.                           *)
(***************************************************************************)
EXTENDS Integers, Sequences, FiniteSets, SequencesExt

CONSTANTS
  Slots,         (* indices of m_pSessionArray                              *)
  Workers,       (* threads that run the ProcessIO loop                     *)
  Acceptor,      (* the thread that runs ProcessAccept                      *)
  NoSlot, NoId,  (* no session pointer; INVALID_SESSION_ID                  *)
  MaxAccept,     (* bound: connections accepted                             *)
  MaxForeignAccept, (* and with foreign calls                               *)
  MaxMsgs,       (* bound: messages the peers send, over all connections    *)
  MaxCalls,      (* bound: calls of SendPacket, Disconnect, UpdateHeartbeat *)
  CallModes      (* TRUE in it: contents code may name any session it has   *)
                 (* heard of; FALSE: the one whose handler is running       *)

Threads == Workers \cup {Acceptor}
Ids == Slots \X (1 .. MaxAccept)
SlotOf(g) == g[1]

ASSUME SlotsAssumption ==
  /\ IsFiniteSet(Slots) /\ Slots # {}
  /\ NoSlot \notin Slots /\ NoId \notin Ids
ASSUME ThreadsAssumption ==
  /\ IsFiniteSet(Workers) /\ Workers # {} /\ Acceptor \notin Workers
ASSUME BoundsAssumption ==
  /\ MaxAccept \in Nat \ {0} /\ MaxForeignAccept \in 0 .. MaxAccept
  /\ MaxMsgs \in Nat /\ MaxCalls \in Nat
  /\ CallModes \subseteq BOOLEAN /\ CallModes # {}
(* The references to a session fit in a LONG: at most three of each thread, *)
(* one receive, one send and the requests that wait in the port.            *)
ASSUME CounterAssumption ==
  3 * Cardinality(Threads) + MaxCalls + 2 < 2147483647

(* SESSION_DELETE_FLAG is the sign bit of the 32-bit counter: a counter     *)
(* below zero also shows it.                                                *)
DeleteFlag == -2147483647 - 1
LongInc(n) == IF n = 2147483647 THEN DeleteFlag ELSE n + 1
LongDec(n) == IF n = DeleteFlag THEN 2147483647 ELSE n - 1

VARIABLES
  sessionId, socket, ioCount, sendFlag, connected, (* fields of Session     *)
  sendQ,         (* Session::m_sendQ: the session each packet is meant for  *)
  indexStack,    (* m_sessionIndexStack, top at the end                     *)
  idGen,         (* sessionIdGen of CreateSession                           *)
  sessionCount,  (* m_lSessionCount                                         *)
  active,        (* m_activeSessionManager                                  *)
  port,          (* completions queued in m_hCompletionPort                 *)
  conn,          (* kernel: state of the connection of each session id      *)
  recvIo, sendIo,(* kernel: overlapped receives and sends outstanding       *)
  msgs, calls,   (* used part of MaxMsgs and MaxCalls                       *)
  foreign,       (* whether contents code names sessions of other handlers  *)
  pc,            (* where each thread is                                    *)
  cur, kind,     (* session and completion a thread processes               *)
  op, tgt,       (* API call in progress and its argument                   *)
  owed,          (* DecreaseIoCount calls a thread has still to make, the   *)
                 (* slot of the one in progress first                       *)
  back,          (* and what it returns to then: its handler, or its loop   *)
  announced,     (* history: ids given to OnConnected                       *)
  gone,          (* history: how often OnDisconnected was given each id     *)
  sid,           (* history: the session a thread's work belongs to         *)
  held,          (* history: references to each slot a thread owns          *)
  sentTo         (* history: <<meant for, sent on>> of every packet sent    *)

fieldVars == <<sessionId, socket, sendFlag, connected, sendQ>>
poolVars == <<indexStack, idGen, sessionCount, active>>
kernelVars == <<conn, recvIo, sendIo>>
ctxVars == <<cur, kind, sid>>
callVars == <<op, tgt>>
decVars == <<owed, back>>
histVars == <<announced, gone, sentTo>>
boundVars == <<msgs, calls, foreign>>
outerVars == <<port, kernelVars, boundVars, histVars>>
globalVars == <<fieldVars, ioCount, held, poolVars, outerVars>>
localVars == <<ctxVars, callVars, decVars>>
vars == <<globalVars, pc, localVars>>

Goto(t, l) == pc' = [pc EXCEPT ![t] = l]

(* Continue with DecreaseIoCount of each slot of q and afterwards at k.     *)
DecreaseThen(t, q, k) ==
  /\ Goto(t, "dec")
  /\ owed' = [owed EXCEPT ![t] = q]
  /\ back' = [back EXCEPT ![t] = k]

(* Variant of Finish: ProcessIO returns early. *)
FinishEarly(t) == Goto(t, "idle") /\ UNCHANGED <<owed, back>>

(* DecreaseIoCount at the end of ProcessIO and of ProcessAccept.            *)
Finish(t) == DecreaseThen(t, <<cur[t]>>, "idle")

Hold(t, s) == held' = [held EXCEPT ![t][s] = @ + 1]

(* Variant of Register: the posted work takes no reference. *)
RegisterUncounted(s) == ioCount' = ioCount

(* A reference for an operation or a completion that is about to be posted. *)
Register(s) == ioCount' = [ioCount EXCEPT ![s] = LongInc(@)]

Completion(s, k, n, g) == [slot |-> s, kind |-> k, bytes |-> n, sid |-> g]

(* Outstanding operations of connection g, completed with no bytes.         *)
Aborted(g) ==
  [i \in 1 .. recvIo[g] |-> Completion(SlotOf(g), "recv", FALSE, g)] \o
  [i \in 1 .. sendIo[g] |-> Completion(SlotOf(g), "send", FALSE, g)]

AbortIo(g) ==
  /\ port' = port \o Aborted(g)
  /\ recvIo' = [recvIo EXCEPT ![g] = 0]
  /\ sendIo' = [sendIo EXCEPT ![g] = 0]

Init ==
  /\ sessionId = [s \in Slots |-> NoId]
  /\ socket    = [s \in Slots |-> NoId]
  /\ ioCount   = [s \in Slots |-> 0]
  /\ sendFlag  = [s \in Slots |-> TRUE]
  /\ connected = [s \in Slots |-> FALSE]
  /\ sendQ     = [s \in Slots |-> <<>>]
  /\ indexStack = SetToSeq(Slots)
  /\ idGen = 0 /\ sessionCount = 0 /\ active = {}
  /\ port = <<>>
  /\ conn   = [g \in Ids |-> "none"]
  /\ recvIo = [g \in Ids |-> 0]
  /\ sendIo = [g \in Ids |-> 0]
  /\ msgs = 0 /\ calls = 0 /\ foreign \in CallModes
  /\ pc   = [t \in Threads |-> "idle"]
  /\ cur  = [t \in Threads |-> NoSlot]
  /\ kind = [t \in Threads |-> "none"]
  /\ op   = [t \in Threads |-> "none"]
  /\ tgt  = [t \in Threads |-> NoId]
  /\ owed = [t \in Threads |-> <<>>]
  /\ back = [t \in Threads |-> "idle"]
  /\ announced = {}
  /\ gone = [g \in Ids |-> 0]
  /\ sid  = [t \in Threads |-> NoId]
  /\ held = [t \in Threads |-> [s \in Slots |-> 0]]
  /\ sentTo = {}

-----------------------------------------------------------------------------
(* ProcessAccept and CreateSession, on the accepting thread.                *)

(* accept() returned a socket and TryPop an index.  With an empty pool the  *)
(* socket is closed again and nothing else changes.                         *)
PopIndex(a) ==
  /\ pc[a] = "idle"
  /\ idGen < (IF foreign THEN MaxForeignAccept ELSE MaxAccept)
  /\ indexStack # <<>>
  /\ LET s == Last(indexStack)
         g == <<s, idGen + 1>>
     IN /\ cur' = [cur EXCEPT ![a] = s]
        /\ sid' = [sid EXCEPT ![a] = g]
        /\ conn' = [conn EXCEPT ![g] = "open"]
  /\ kind' = [kind EXCEPT ![a] = "accept"]
  /\ indexStack' = Front(indexStack)
  /\ idGen' = idGen + 1
  /\ Goto(a, "activate")
  /\ UNCHANGED <<fieldVars, ioCount, sessionCount, active, port, recvIo,
                 sendIo, boundVars, callVars, decVars, histVars, held>>

(* Session::Activate up to the flags; when the counter is not zero the new  *)
(* connection is closed and the slot cleared and given back.                *)
Activate(a) ==
  /\ pc[a] = "activate"
  /\ LET s == cur[a]  g == sid[a]
     IN IF ioCount[s] = 0
        THEN /\ ioCount' = [ioCount EXCEPT ![s] = 1]
             /\ Hold(a, s)
             /\ sessionId' = [sessionId EXCEPT ![s] = g]
             /\ socket' = [socket EXCEPT ![s] = g]
             /\ Goto(a, "open")
             /\ UNCHANGED <<conn, decVars>>
        ELSE /\ conn' = [conn EXCEPT ![g] = "closed"]
             /\ owed' = [owed EXCEPT ![a] = <<s>>]
             /\ Goto(a, "clear")
             /\ UNCHANGED <<back, ioCount, held, sessionId, socket>>
  /\ UNCHANGED <<sendFlag, connected, sendQ, poolVars, port, recvIo, sendIo,
                 boundVars, ctxVars, callVars, histVars>>

(* The flags of Activate, AddActiveSession, and CreateIoCompletionPort.     *)
(* When the registration fails the slot is cleared, but the id stays among  *)
(* the active ones.  OnConnected tells the contents code the id.            *)
Open(a) ==
  /\ pc[a] = "open"
  /\ LET s == cur[a]  g == sid[a]
     IN /\ sendFlag'  = [sendFlag  EXCEPT ![s] = FALSE]
        /\ connected' = [connected EXCEPT ![s] = TRUE]
        /\ active' = active \cup {g}
        /\ \/ /\ sessionCount' = sessionCount + 1
              /\ announced' = announced \cup {g}
              /\ kind' = [kind EXCEPT ![a] = "connect"]
              /\ Goto(a, "handler")
              /\ UNCHANGED <<conn, decVars>>
           \/ /\ conn' = [conn EXCEPT ![g] = "closed"]
              /\ owed' = [owed EXCEPT ![a] = <<s>>]
              /\ Goto(a, "clear")
              /\ UNCHANGED <<back, sessionCount, announced, kind>>
  /\ UNCHANGED <<sessionId, socket, ioCount, sendQ, indexStack, idGen, port,
                 recvIo, sendIo, boundVars, cur, sid, callVars, gone, sentTo,
                 held>>

-----------------------------------------------------------------------------
(* ProcessIO, on the worker threads.                                        *)

(* GetQueuedCompletionStatus: one branch per kind of completion; one with   *)
(* no bytes (peer gone, operation cancelled) goes to DecreaseIoCount.       *)
Dequeue(t) ==
  /\ pc[t] = "idle" /\ port # <<>>
  /\ LET e == Head(port)
     IN /\ cur'  = [cur  EXCEPT ![t] = e.slot]
        /\ sid'  = [sid  EXCEPT ![t] = e.sid]
        /\ kind' = [kind EXCEPT ![t] = e.kind]
        /\ Hold(t, e.slot)
        /\ \/ /\ e.bytes
              /\ Goto(t, CASE e.kind = "recv" -> "handler"
                           [] e.kind = "send" -> "sent"
                           [] e.kind = "request" -> "sendCheck")
              /\ UNCHANGED decVars
           \/ /\ ~e.bytes
              /\ DecreaseThen(t, <<e.slot>>, "idle")
  /\ port' = Tail(port)
  /\ UNCHANGED <<fieldVars, ioCount, poolVars, kernelVars, boundVars, callVars,
                 histVars>>

(* The handler (OnRecv, or OnConnected on the acceptor) is over.  PostRecv  *)
(* first reads the connected flag ...                                       *)
EndHandler(t) ==
  /\ pc[t] = "handler"
  /\ IF connected[cur[t]]
     THEN Goto(t, "recvPost") /\ UNCHANGED decVars
     ELSE Finish(t)
  /\ UNCHANGED <<globalVars, ctxVars, callVars>>

(* ... then the counter is raised and WSARecv called.  It can fail only on  *)
(* a socket that is closed or whose peer is gone; an error other than       *)
(* WSAECONNRESET calls Disconnect before the counter is lowered again.      *)
RecvPost(t) ==
  /\ pc[t] = "recvPost"
  /\ LET s == cur[t]  g == socket[s]
     IN /\ Register(s)
        /\ \/ /\ g # NoId /\ conn[g] \in {"open", "peerClosed"}
              /\ recvIo' = [recvIo EXCEPT ![g] = @ + 1]
              /\ Finish(t)
              /\ UNCHANGED <<callVars, held>>
           \/ /\ g # NoId /\ conn[g] = "peerClosed"
              /\ DecreaseThen(t, <<s, s>>, "idle")
              /\ Hold(t, s)
              /\ UNCHANGED <<recvIo, callVars>>
           \/ /\ g # NoId => conn[g] \in {"peerClosed", "closed"}
              /\ Goto(t, "acquire")
              /\ op'  = [op  EXCEPT ![t] = "disconnect"]
              /\ tgt' = [tgt EXCEPT ![t] = sessionId[s]]
              /\ owed' = [owed EXCEPT ![t] = <<s, s>>]
              /\ back' = [back EXCEPT ![t] = "idle"]
              /\ Hold(t, s)
              /\ UNCHANGED recvIo
  /\ UNCHANGED <<fieldVars, poolVars, port, conn, sendIo, boundVars, ctxVars,
                 histVars>>

(* ProcessSend: the pending list is dropped and the flag lowered ...        *)
SendDone(t) ==
  /\ pc[t] = "sent"
  /\ sendFlag' = [sendFlag EXCEPT ![cur[t]] = FALSE]
  /\ Goto(t, "sentMore")
  /\ UNCHANGED <<localVars, sessionId, socket, connected, sendQ, ioCount,
                 poolVars, held, outerVars>>

(* ... and PostSend called again if packets have come in meanwhile.         *)
SendMore(t) ==
  /\ pc[t] = "sentMore"
  /\ IF sendQ[cur[t]] # <<>>
     THEN Goto(t, "sendCheck") /\ UNCHANGED decVars
     ELSE Finish(t)
  /\ UNCHANGED <<globalVars, ctxVars, callVars>>

(* PostSend: the connected flag, then the send flag, then the queue.        *)
SendCheck(t) ==
  /\ pc[t] = "sendCheck"
  /\ IF connected[cur[t]]
     THEN Goto(t, "sendClaim") /\ UNCHANGED decVars
     ELSE Finish(t)
  /\ UNCHANGED <<globalVars, ctxVars, callVars>>

SendClaim(t) ==
  /\ pc[t] = "sendClaim"
  /\ IF sendFlag[cur[t]]
     THEN Finish(t)
     ELSE Goto(t, "sendPost") /\ UNCHANGED decVars
  /\ sendFlag' = [sendFlag EXCEPT ![cur[t]] = TRUE]
  /\ UNCHANGED <<sessionId, socket, connected, sendQ, ioCount, poolVars,
                 ctxVars, callVars, held, outerVars>>

(* An empty queue gives the flag back; otherwise the whole queue moves to   *)
(* the pending list and one WSASend takes it.  A failed WSASend leaves the  *)
(* send flag raised.                                                        *)
SendPost(t) ==
  /\ pc[t] = "sendPost"
  /\ LET s == cur[t]  g == socket[s]
     IN \/ /\ sendQ[s] = <<>>
           /\ Goto(t, "sendReset")
           /\ UNCHANGED <<sendQ, ioCount, sendIo, sentTo, held, decVars>>
        \/ /\ sendQ[s] # <<>>
           /\ g # NoId /\ conn[g] \in {"open", "peerClosed"}
           /\ sendIo' = [sendIo EXCEPT ![g] = @ + 1]
           /\ sentTo' = sentTo \cup {<<m, g>> : m \in ToSet(sendQ[s])}
           /\ sendQ' = [sendQ EXCEPT ![s] = <<>>]
           /\ Register(s)
           /\ Finish(t)
           /\ UNCHANGED held
        \/ /\ sendQ[s] # <<>>
           /\ g # NoId => conn[g] \in {"peerClosed", "closed"}
           /\ sendQ' = [sendQ EXCEPT ![s] = <<>>]
           /\ Register(s) /\ Hold(t, s)
           /\ DecreaseThen(t, <<s, s>>, "idle")
           /\ UNCHANGED <<sendIo, sentTo>>
  /\ UNCHANGED <<sessionId, socket, sendFlag, connected, poolVars, port, conn,
                 recvIo, boundVars, ctxVars, callVars, announced, gone>>

(* Variant of SendReset: goes on with PostRecv. *)
SendResetReceives(t) ==
  /\ pc[t] = "sendReset"
  /\ sendFlag' = [sendFlag EXCEPT ![cur[t]] = FALSE]
  /\ Goto(t, "handler")
  /\ UNCHANGED <<localVars, sessionId, socket, connected, sendQ, ioCount,
                 poolVars, held, outerVars>>

SendReset(t) ==
  /\ pc[t] = "sendReset"
  /\ sendFlag' = [sendFlag EXCEPT ![cur[t]] = FALSE]
  /\ Finish(t)
  /\ UNCHANGED <<sessionId, socket, connected, sendQ, ioCount, poolVars,
                 ctxVars, callVars, held, outerVars>>

-----------------------------------------------------------------------------
(* The calls of contents code: SendPacket, Disconnect, UpdateHeartbeat.  A  *)
(* handler names its own session; in foreign mode a handler, and a job or   *)
(* timer a worker runs between two completions, may name any announced one. *)

Targets(t) ==
  (IF pc[t] = "handler" THEN {sessionId[cur[t]]} \ {NoId} ELSE {})
    \cup (IF foreign THEN announced ELSE {})

StartCall(t) ==
  /\ pc[t] = "handler" \/ (pc[t] = "idle" /\ t \in Workers)
  /\ calls < MaxCalls
  /\ calls' = calls + 1
  /\ \E g \in Targets(t), o \in {"send", "disconnect", "touch"} :
       /\ op'  = [op  EXCEPT ![t] = o]
       /\ tgt' = [tgt EXCEPT ![t] = g]
  /\ back' = [back EXCEPT ![t] = pc[t]]
  /\ Goto(t, "acquire")
  /\ UNCHANGED <<fieldVars, ioCount, held, poolVars, port, kernelVars, msgs,
                 foreign, histVars, ctxVars, owed>>

(* What follows a call: the DecreaseIoCount calls still owed, if any.       *)
Resume(t) == IF owed[t] = <<>> THEN back[t] ELSE "dec"

(* Give back the reference of TryAcquireSession, and n - 1 more.            *)
EndCall(t, n) ==
  DecreaseThen(t, [i \in 1 .. n |-> SlotOf(tgt[t])] \o owed[t], back[t])

(* TryAcquireSession: the id of the slot is compared ...                    *)
AcquireId(t) ==
  /\ pc[t] = "acquire"
  /\ Goto(t, IF tgt[t] # NoId /\ sessionId[SlotOf(tgt[t])] = tgt[t]
             THEN "acquireConn" ELSE Resume(t))
  /\ UNCHANGED <<globalVars, localVars>>

(* ... then the connected flag is read ...                                  *)
AcquireConnected(t) ==
  /\ pc[t] = "acquireConn"
  /\ Goto(t, IF connected[SlotOf(tgt[t])] THEN "acquireRef" ELSE Resume(t))
  /\ UNCHANGED <<globalVars, localVars>>

(* ... then the counter is raised, and given back if it shows the flag.     *)
AcquireRef(t) ==
  /\ pc[t] = "acquireRef"
  /\ LET s == SlotOf(tgt[t])
     IN /\ ioCount' = [ioCount EXCEPT ![s] = LongInc(@)]
        /\ Hold(t, s)
        /\ IF LongInc(ioCount[s]) < 0
           THEN EndCall(t, 1)
           ELSE Goto(t, "use") /\ UNCHANGED decVars
  /\ UNCHANGED <<fieldVars, poolVars, outerVars, ctxVars, callVars>>

(* UpdateHeartbeat: only the time stamp of the session changes.             *)
Touch(t) ==
  /\ pc[t] = "use" /\ op[t] = "touch"
  /\ EndCall(t, 1)
  /\ UNCHANGED <<globalVars, ctxVars, callVars>>

(* SendPacket and SendRequest: the packet is queued and a completion posted *)
(* that holds a reference of its own, given back at once when               *)
(* PostQueuedCompletionStatus fails.                                        *)
SendPacket(t) ==
  /\ pc[t] = "use" /\ op[t] = "send"
  /\ LET s == SlotOf(tgt[t])
     IN /\ sendQ' = [sendQ EXCEPT ![s] = Append(@, tgt[t])]
        /\ Register(s)
        /\ \/ /\ port' = Append(port, Completion(s, "request", TRUE, tgt[t]))
              /\ EndCall(t, 1)
              /\ UNCHANGED held
           \/ /\ Hold(t, s)
              /\ EndCall(t, 2)
              /\ UNCHANGED port
  /\ UNCHANGED <<sessionId, socket, sendFlag, connected, poolVars, kernelVars,
                 boundVars, histVars, ctxVars, callVars>>

(* Disconnect: further I/O is forbidden ...                                 *)
DropConnected(t) ==
  /\ pc[t] = "use" /\ op[t] = "disconnect"
  /\ connected' = [connected EXCEPT ![SlotOf(tgt[t])] = FALSE]
  /\ Goto(t, "cancel")
  /\ UNCHANGED <<sessionId, socket, sendFlag, sendQ, ioCount, held, poolVars,
                 outerVars, localVars>>

(* ... and CancelIoEx aborts what is outstanding on the socket.             *)
CancelIo(t) ==
  /\ pc[t] = "cancel"
  /\ LET g == socket[SlotOf(tgt[t])]
     IN IF g = NoId THEN UNCHANGED <<port, recvIo, sendIo>> ELSE AbortIo(g)
  /\ EndCall(t, 1)
  /\ UNCHANGED <<fieldVars, ioCount, held, poolVars, conn, boundVars, histVars,
                 ctxVars, callVars>>

-----------------------------------------------------------------------------
(* DecreaseIoCount and DeleteSession, on any thread.                        *)

(* A thread that gives up its last reference forgets the session.           *)
Forget(t) ==
  IF Len(owed[t]) = 1 /\ back[t] = "idle"
  THEN /\ cur'  = [cur  EXCEPT ![t] = NoSlot]
       /\ sid'  = [sid  EXCEPT ![t] = NoId]
       /\ kind' = [kind EXCEPT ![t] = "none"]
  ELSE UNCHANGED ctxVars

(* The next DecreaseIoCount, or the end of the work.                        *)
Return(t) ==
  /\ owed' = [owed EXCEPT ![t] = Tail(@)]
  /\ Goto(t, IF Len(owed[t]) > 1 THEN "dec" ELSE back[t])
  /\ UNCHANGED back
  /\ Forget(t)

Decrease(t) ==
  /\ pc[t] = "dec"
  /\ LET s == Head(owed[t])  n == LongDec(ioCount[s])
     IN /\ ioCount' = [ioCount EXCEPT ![s] = n]
        /\ held' = [held EXCEPT ![t][s] = @ - 1]
        /\ IF n = 0
           THEN Goto(t, "delete") /\ Forget(t) /\ UNCHANGED decVars
           ELSE Return(t)
  /\ UNCHANGED <<fieldVars, poolVars, outerVars, callVars>>

(* The id is read after the decrement.  DeleteSession compares it with the  *)
(* id of the slot ...                                                       *)
DeleteCheck(t) ==
  /\ pc[t] = "delete"
  /\ IF sessionId[Head(owed[t])] = NoId
     THEN Return(t)
     ELSE Goto(t, "deleteCas") /\ UNCHANGED <<ctxVars, decVars>>
  /\ UNCHANGED <<globalVars, callVars>>

(* ... and turns the counter from zero to the delete flag, if it still is.  *)
DeleteCas(t) ==
  /\ pc[t] = "deleteCas"
  /\ LET s == Head(owed[t])
     IN IF ioCount[s] = 0
        THEN /\ ioCount' = [ioCount EXCEPT ![s] = DeleteFlag]
             /\ Goto(t, "teardown")
             /\ UNCHANGED <<ctxVars, decVars>>
        ELSE Return(t) /\ UNCHANGED ioCount
  /\ UNCHANGED <<fieldVars, held, poolVars, outerVars, callVars>>

(* OnDisconnected, closesocket (which aborts what is outstanding) and       *)
(* RemoveActiveSession, each with the field as it reads now.                *)
Teardown(t) ==
  /\ pc[t] = "teardown"
  /\ LET s == Head(owed[t])  g == sessionId[s]  k == socket[s]
     IN /\ gone' = IF g = NoId THEN gone ELSE [gone EXCEPT ![g] = @ + 1]
        /\ active' = active \ {g}
        /\ IF k = NoId
           THEN UNCHANGED <<conn, port, recvIo, sendIo>>
           ELSE conn' = [conn EXCEPT ![k] = "closed"] /\ AbortIo(k)
  /\ Goto(t, "clear")
  /\ UNCHANGED <<fieldVars, ioCount, held, indexStack, idGen, sessionCount,
                 boundVars, announced, sentTo, localVars>>

(* Variant of ClearFields: the queue is left. *)
ClearFieldsKeepQueue(t) ==
  /\ pc[t] = "clear"
  /\ sessionId' = [sessionId EXCEPT ![Head(owed[t])] = NoId]
  /\ socket' = [socket EXCEPT ![Head(owed[t])] = NoId]
  /\ Goto(t, "clearCount")
  /\ UNCHANGED <<sendQ, sendFlag, connected, ioCount, held, poolVars, outerVars,
                 localVars>>

(* Session::Clear: id, socket and queue first ...                           *)
ClearFields(t) ==
  /\ pc[t] = "clear"
  /\ sessionId' = [sessionId EXCEPT ![Head(owed[t])] = NoId]
  /\ socket' = [socket EXCEPT ![Head(owed[t])] = NoId]
  /\ sendQ' = [sendQ EXCEPT ![Head(owed[t])] = <<>>]
  /\ Goto(t, "clearCount")
  /\ UNCHANGED <<sendFlag, connected, ioCount, held, poolVars, outerVars,
                 localVars>>

(* ... then the counter and the send flag.                                  *)
ClearCount(t) ==
  /\ pc[t] = "clearCount"
  /\ LET s == Head(owed[t])
     IN /\ ioCount' = [ioCount EXCEPT ![s] = 0]
        /\ sendFlag' = [sendFlag EXCEPT ![s] = TRUE]
        /\ held' = IF kind[t] = "accept" THEN [held EXCEPT ![t][s] = 0] ELSE held
  /\ Goto(t, "recycle")
  /\ UNCHANGED <<sessionId, socket, connected, sendQ, poolVars, outerVars,
                 localVars>>

(* Variant of Recycle: the session count is lowered always. *)
RecycleMiscounts(t) ==
  /\ pc[t] = "recycle"
  /\ connected' = [connected EXCEPT ![Head(owed[t])] = FALSE]
  /\ indexStack' = Append(indexStack, Head(owed[t]))
  /\ sessionCount' = sessionCount - 1
  /\ Return(t)
  /\ UNCHANGED <<sessionId, socket, sendFlag, sendQ, ioCount, held, idGen,
                 active, outerVars, callVars>>

(* The connected flag is cleared last and the index goes back to the stack. *)
(* Only DeleteSession lowers the session count: a creation that failed has  *)
(* not raised it.                                                           *)
Recycle(t) ==
  /\ pc[t] = "recycle"
  /\ connected' = [connected EXCEPT ![Head(owed[t])] = FALSE]
  /\ indexStack' = Append(indexStack, Head(owed[t]))
  /\ sessionCount' = IF kind[t] = "accept" THEN sessionCount ELSE sessionCount - 1
  /\ Return(t)
  /\ UNCHANGED <<sessionId, socket, sendFlag, sendQ, ioCount, held, idGen,
                 active, outerVars, callVars>>

-----------------------------------------------------------------------------
(* The kernel and the peers (external).                                     *)

RecvCompletes(g) ==
  /\ recvIo[g] > 0 /\ conn[g] \in {"open", "peerClosed"}
  /\ \/ /\ conn[g] = "open" /\ msgs < MaxMsgs
        /\ msgs' = msgs + 1
        /\ port' = Append(port, Completion(SlotOf(g), "recv", TRUE, g))
     \/ /\ conn[g] = "peerClosed"
        /\ port' = Append(port, Completion(SlotOf(g), "recv", FALSE, g))
        /\ UNCHANGED msgs
  /\ recvIo' = [recvIo EXCEPT ![g] = @ - 1]
  /\ UNCHANGED <<localVars, fieldVars, ioCount, poolVars, conn, sendIo, calls,
                 foreign, pc, histVars, held>>

SendCompletes(g) ==
  /\ sendIo[g] > 0
  /\ \E ok \in IF conn[g] = "open" THEN {TRUE} ELSE BOOLEAN :
       port' = Append(port, Completion(SlotOf(g), "send", ok, g))
  /\ sendIo' = [sendIo EXCEPT ![g] = @ - 1]
  /\ UNCHANGED <<localVars, fieldVars, ioCount, poolVars, conn, recvIo,
                 boundVars, pc, histVars, held>>

PeerCloses(g) ==
  /\ conn[g] = "open"
  /\ conn' = [conn EXCEPT ![g] = "peerClosed"]
  /\ UNCHANGED <<localVars, fieldVars, ioCount, poolVars, port, recvIo, sendIo,
                 boundVars, pc, histVars, held>>

-----------------------------------------------------------------------------
AcceptorStep ==
  PopIndex(Acceptor) \/ Activate(Acceptor) \/ Open(Acceptor)

(* Steps that a thread which has begun some work goes on with.              *)
Continue(t) ==
  \/ EndHandler(t) \/ RecvPost(t)
  \/ SendDone(t) \/ SendMore(t) \/ SendCheck(t) \/ SendClaim(t)
  \/ SendPost(t) \/ SendReset(t)
  \/ AcquireId(t) \/ AcquireConnected(t) \/ AcquireRef(t)
  \/ Touch(t) \/ SendPacket(t) \/ DropConnected(t) \/ CancelIo(t)
  \/ Decrease(t) \/ DeleteCheck(t) \/ DeleteCas(t) \/ Teardown(t)
  \/ ClearFields(t) \/ ClearCount(t) \/ Recycle(t)

(* GetQueuedCompletionStatus gives up after its timeout and the loop goes   *)
(* round.                                                                   *)
Timeout(t) == pc[t] = "idle" /\ port = <<>> /\ UNCHANGED vars

(* What the kernel completes without waiting for the peer to send.          *)
Prompt(g) == SendCompletes(g) \/ (conn[g] = "peerClosed" /\ RecvCompletes(g))

Next ==
  \/ AcceptorStep
  \/ \E t \in Workers : Dequeue(t) \/ Timeout(t)
  \/ \E t \in Threads : Continue(t) \/ StartCall(t)
  \/ \E g \in Ids : RecvCompletes(g) \/ SendCompletes(g) \/ PeerCloses(g)

Spec == Init /\ [][Next]_vars

(* The operating system schedules every thread and completes what it can;   *)
(* peers read what is sent to them or close.  Nothing obliges a peer to     *)
(* send, to close or to connect, or contents code to call.                  *)
Fairness ==
  /\ WF_vars(Activate(Acceptor) \/ Open(Acceptor))
  /\ WF_vars(\E t \in Workers : Dequeue(t))
  /\ \A t \in Threads : WF_vars(Continue(t))
  /\ \A g \in Ids : WF_vars(Prompt(g))

FairSpec == Spec /\ Fairness

-----------------------------------------------------------------------------
Labels ==
  {"idle", "activate", "open", "handler", "recvPost", "sent", "sentMore",
   "sendCheck", "sendClaim", "sendPost", "sendReset", "acquire", "acquireConn",
   "acquireRef", "use", "cancel", "dec", "delete", "deleteCas", "teardown",
   "clear", "clearCount", "recycle"}

Completions ==
  [slot : Slots, kind : {"recv", "send", "request"}, bytes : BOOLEAN, sid : Ids]

TypeOK ==
  /\ sessionId \in [Slots -> Ids \cup {NoId}]
  /\ socket \in [Slots -> Ids \cup {NoId}]
  /\ ioCount \in [Slots -> Int]
  /\ sendFlag \in [Slots -> BOOLEAN]
  /\ connected \in [Slots -> BOOLEAN]
  /\ sendQ \in [Slots -> Seq(Ids)]
  /\ indexStack \in Seq(Slots)
  /\ idGen \in 0 .. MaxAccept /\ sessionCount \in Int
  /\ active \subseteq Ids \cup {NoId}
  /\ port \in Seq(Completions)
  /\ conn \in [Ids -> {"none", "open", "peerClosed", "closed"}]
  /\ recvIo \in [Ids -> Nat] /\ sendIo \in [Ids -> Nat]
  /\ msgs \in 0 .. MaxMsgs /\ calls \in 0 .. MaxCalls
  /\ foreign \in CallModes
  /\ pc \in [Threads -> Labels]
  /\ cur \in [Threads -> Slots \cup {NoSlot}]
  /\ kind \in [Threads -> {"none", "accept", "connect", "recv", "send", "request"}]
  /\ op \in [Threads -> {"none", "send", "disconnect", "touch"}]
  /\ tgt \in [Threads -> Ids \cup {NoId}]
  /\ owed \in [Threads -> Seq(Slots)]
  /\ back \in [Threads -> {"idle", "handler"}]
  /\ announced \subseteq Ids
  /\ gone \in [Ids -> Nat]
  /\ sid \in [Threads -> Ids \cup {NoId}]
  /\ held \in [Threads -> [Slots -> Int]]
  /\ sentTo \subseteq Ids \X Ids

-----------------------------------------------------------------------------
(* Properties.  Those that need it are stated of sessions whose own         *)
(* handlers are the only callers (~foreign).                                *)

(* References to slot s, one by one: those the threads hold, the operations *)
(* outstanding in the kernel and the completions waiting in the port.       *)
HeldRefs(h, s) == UNION {{t} \X (1 .. h[t][s]) : t \in Threads}
Outstanding(io, s) == UNION {{g} \X (1 .. io[g]) : g \in {i \in Ids : SlotOf(i) = s}}
QueuedFor(q, s) == {i \in 1 .. Len(q) : q[i].slot = s}

References(s) ==
  Cardinality(HeldRefs(held, s)) + Cardinality(Outstanding(recvIo, s))
    + Cardinality(Outstanding(sendIo, s)) + Cardinality(QueuedFor(port, s))

(* m_lIoCount counts the references, none missing and none twice, until the *)
(* delete flag takes its place, which is when none is left.                 *)
RefCountExact ==
  /\ TypeOK
  /\ ~foreign =>
       \A s \in Slots :
         References(s) = IF ioCount[s] = DeleteFlag THEN 0 ELSE ioCount[s]

(* Overlapped operations and the completions and handlers they lead to keep *)
(* their session: it is not cleared under a handler, nor a buffer given     *)
(* back that the kernel still fills or sends, nor the slot given to another *)
(* connection.  Without foreign calls nothing else outlives it either: no   *)
(* request to send and no thread.                                           *)
NoUseAfterRelease ==
  /\ \A t \in Threads :
       /\ cur[t] # NoSlot
       /\ kind[t] \in {"connect", "recv", "send"} \/ (kind[t] = "request" /\ ~foreign)
       => sessionId[cur[t]] = sid[t]
  /\ \A i \in 1 .. Len(port) :
       port[i].kind # "request" \/ ~foreign
         => sessionId[port[i].slot] = port[i].sid
  /\ \A g \in Ids : recvIo[g] + sendIo[g] > 0 => sessionId[SlotOf(g)] = g

(* No index is lost or counted twice: the free ones, the sessions counted   *)
(* by m_lSessionCount and the one being created make up the array.  An      *)
(* index on the free stack is there once, its slot is cleared and nobody    *)
(* refers to it: the next CreateSession cannot fail or share the slot.      *)
IndexConserved ==
  ~foreign =>
    /\ Len(indexStack) + sessionCount
         + Cardinality({t \in Threads : kind[t] = "accept"}) = Cardinality(Slots)
    /\ IsInjective(indexStack)
    /\ \A s \in ToSet(indexStack) :
         sessionId[s] = NoId /\ ioCount[s] = 0 /\ ~connected[s]

(* Threads that handle what was received on slot s or post the next WSARecv.*)
ReceivingThreads(s) ==
  {t \in Threads : cur[t] = s /\ kind[t] \in {"connect", "recv"}
     /\ \/ pc[t] \in {"handler", "recvPost"}
        \/ back[t] = "handler" /\ pc[t] \in
             {"acquire", "acquireConn", "acquireRef", "use", "cancel"}}

(* The two sides of a session belong to one at a time, whoever calls.  The  *)
(* receive side: an outstanding WSARecv, its queued completion, or the      *)
(* thread that handles it; m_recvBuffer has no lock of its own.  The send   *)
(* side: an outstanding WSASend, its queued completion or the thread in     *)
(* ProcessSend before it lowers the flag, and then the flag is up: the      *)
(* pending list holds the buffers of one WSASend only.                      *)
SidesSerial ==
  \A s \in Slots :
    LET queued(k) == Cardinality({i \in QueuedFor(port, s) : port[i].kind = k})
        sending == Cardinality({t \in Threads :
                     cur[t] = s /\ pc[t] \in {"sent", "sendPost", "sendReset"}})
                   + Cardinality(Outstanding(sendIo, s)) + queued("send")
    IN /\ Cardinality(ReceivingThreads(s)) + Cardinality(Outstanding(recvIo, s))
            + queued("recv") <= 1
       /\ sending <= 1
       /\ sending = 1 /\ connected[s] => sendFlag[s]

(* OnDisconnected is given each announced id once at most and never one     *)
(* OnConnected was not given, and no handler of the session runs then.      *)
DisconnectedOnce ==
  \A g \in Ids :
    /\ gone[g] <= 1
    /\ gone[g] = 1 =>
         /\ g \in announced
         /\ \A t \in Threads : sid[t] = g /\ cur[t] # NoSlot => pc[t] # "handler"

(* A packet leaves on the connection it was meant for.                      *)
NoMisdelivery == ~foreign => \A p \in sentTo : p[1] = p[2]

(* Every session whose peer has closed is torn down in the end and its      *)
(* socket closed; so is, without foreign calls, every session Disconnect    *)
(* has marked.                                                              *)
Doomed(g) ==
  \/ conn[g] = "peerClosed"
  \/ /\ ~foreign
     /\ g \in announced /\ sessionId[SlotOf(g)] = g /\ ~connected[SlotOf(g)]

DoomedAreReleased == \A g \in Ids : Doomed(g) ~> conn[g] = "closed"

(* What the comment of TryAcquireSession says: "just handing the session    *)
(* out, it may have been released: so its id is checked before it is handed *)
(* over".  A thread uses the session it has named.                          *)
AcquiredIsNamed ==
  \A t \in Threads :
    pc[t] \in {"use", "cancel"} => sessionId[SlotOf(tgt[t])] = tgt[t]
=============================================================================
