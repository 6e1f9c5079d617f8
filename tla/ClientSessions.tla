---------------------------- MODULE ClientSessions ----------------------------
(***************************************************************************)
(* The sessions of jh::IocpClient, the side that connects.  It keeps the   *)
(* slots and the counter of IocpServer, but not its order of things:       *)
(* Connect creates the session, flags up, before there is a connection,    *)
(* with the creator's reference standing for the ConnectEx; the result of  *)
(* Session::Activate is not looked at; SendPacket runs PostSend in the     *)
(* thread that calls it; and a failed WSARecv or WSASend only gives its    *)
(* reference back.                                                         *)
(*                                                                         *)
(* One action is one interlocked operation or one kernel call of a thread. *)
(* The fields of a session that one call clears are cleared in one step:   *)
(* no other thread tells the steps apart.                                  *)
(***************************************************************************)
EXTENDS Integers, Sequences, FiniteSets, SequencesExt

CONSTANTS
  Slots,         (* indices of m_pClientSessionArr                          *)
  Workers,       (* threads that run WorkerThreadMain                       *)
  Connector,     (* the thread that calls Connect                           *)
  Caller,        (* a thread of the contents code, as DummyUpdateSystem's   *)
  NoSlot, NoId,  (* no session pointer; INVALID_SESSION_ID                  *)
  Modes,         (* "own": only handlers call, each on its own session;     *)
                 (* "foreign": Caller names any announced session;          *)
                 (* "faulty": CreateIoCompletionPort may fail               *)
  MaxConnects,   (* bound: turns of the loop in Connect                     *)
  MaxMsgs,       (* bound: messages the peers send                          *)
  MaxCalls       (* bound: calls of SendPacket and Disconnect               *)

Threads == Workers \cup {Connector, Caller}
Ids == Slots \X (1 .. MaxConnects)
SlotOf(g) == g[1]
Kinds == {"connect", "recv", "send"}

ASSUME ClientAssumption ==
  /\ IsFiniteSet(Slots) /\ NoSlot \notin Slots /\ NoId \notin Ids
  /\ IsFiniteSet(Workers) /\ Connector \notin Workers /\ Caller \notin Workers
  /\ Modes \subseteq {"own", "foreign", "faulty"}
  /\ MaxConnects \in Nat /\ MaxMsgs \in Nat /\ MaxCalls \in Nat

(* SESSION_DELETE_FLAG, the sign bit of the counter.                        *)
DeleteFlag == -2147483647 - 1
LongInc(n) == IF n = 2147483647 THEN DeleteFlag ELSE n + 1
LongDec(n) == IF n = DeleteFlag THEN 2147483647 ELSE n - 1

(* A thread holds three references to a session at most, the kernel two.    *)
ASSUME CounterAssumption == 3 * Cardinality(Threads) + 2 < 2147483647

VARIABLES
  session,       (* Session of each slot: m_ullSessionId, m_socket,         *)
                 (* m_lIoCount, m_bSendFlag, m_bConnectedFlag, and whether  *)
                 (* m_sendQ holds packets                                   *)
  indexStack,    (* m_sessionIndexStack, top at the end                     *)
  sessionCount,  (* m_lSessionCount                                         *)
  idGen,         (* sessionIdGen                                            *)
  port,          (* completions queued in m_hCompletionPort                 *)
  sockets,       (* kernel: the socket made for each id                     *)
  io,            (* kernel: operations outstanding on it                    *)
  th,            (* threads: label, slot they work on, completion's slot,   *)
                 (* session a call names, DecreaseIoCount calls still owed  *)
                 (* on the slot, and where they go on then                  *)
  announced,     (* history: ids given to OnConnected                       *)
  gone,          (* history: how often OnDisconnected was given each id     *)
  mode, msgs, calls

poolVars == <<indexStack, sessionCount, idGen>>
kernelVars == <<port, sockets, io>>
boundVars == <<mode, msgs, calls>>
histVars == <<announced, gone>>
clientVars == <<session, poolVars, kernelVars, th, histVars, boundVars>>

(* Session::Clear.                                                          *)
Cleared == [id |-> NoId, socket |-> NoId, count |-> 0, sending |-> TRUE,
            connected |-> FALSE, queued |-> FALSE]

Idle == [at |-> "idle", s |-> NoSlot, on |-> NoSlot, id |-> NoId, owed |-> 0,
         back |-> "idle"]

(* InitSessionArray and Start.                                              *)
ClientInit ==
  /\ session = [s \in Slots |-> Cleared]
  /\ indexStack = SetToSeq(Slots) /\ sessionCount = 0 /\ idGen = 0
  /\ port = <<>>
  /\ sockets = [g \in Ids |-> "none"]
  /\ io = [g \in Ids |-> [k \in Kinds |-> 0]]
  /\ th = [t \in Threads |-> Idle]
  /\ announced = {} /\ gone = [g \in Ids |-> 0]
  /\ mode \in Modes /\ msgs = 0 /\ calls = 0

Goto(t, l) == th' = [th EXCEPT ![t].at = l]

(* DecreaseIoCount n times on the slot at hand, and then back.              *)
Owe(t, n) == th' = [th EXCEPT ![t].at = "dec", ![t].owed = n]

Completion(s, k, ok) == [slot |-> s, kind |-> k, ok |-> ok]

(* CancelIoEx and closesocket: what is outstanding on the socket completes  *)
(* with nothing transferred.                                                *)
Aborted(g) ==
  LET of(k) == [i \in 1 .. io[g][k] |-> Completion(SlotOf(g), k, FALSE)]
  IN of("connect") \o of("recv") \o of("send")

AbortIo(g) ==
  /\ port' = port \o Aborted(g)
  /\ io' = [io EXCEPT ![g] = [k \in Kinds |-> 0]]

-----------------------------------------------------------------------------
(* Connect and CreateSession.                                               *)

(* With a free index the session count and the id generator are raised; no  *)
(* free index, or a socket that cannot be made, leaves everything as it was.*)
CreateSession(t) ==
  /\ th[t].at = "idle" /\ idGen < MaxConnects /\ indexStack # <<>>
  /\ LET s == Last(indexStack)  g == <<s, idGen + 1>>
     IN /\ th' = [th EXCEPT ![t].at = "activate", ![t].s = s, ![t].id = g]
        /\ sockets' = [sockets EXCEPT ![g] = "made"]
  /\ indexStack' = Front(indexStack)
  /\ sessionCount' = sessionCount + 1
  /\ idGen' = idGen + 1
  /\ UNCHANGED <<session, port, io, histVars, boundVars>>

(* Session::Activate.  When the counter is not zero the slot stays as it is *)
(* and CreateSession goes on all the same.                                  *)
Activate(t) ==
  /\ th[t].at = "activate"
  /\ LET s == th[t].s  g == th[t].id
     IN session' = IF session[s].count # 0 THEN session
                   ELSE [session EXCEPT ![s].id = g, ![s].socket = g,
                           ![s].count = 1, ![s].sending = FALSE,
                           ![s].connected = TRUE]
  /\ Goto(t, "register")
  /\ UNCHANGED <<poolVars, kernelVars, histVars, boundVars>>

(* Variant of RegisterPort: the index is not given back. *)
RegisterPortKeeps(t) ==
  /\ th[t].at = "register"
  /\ \/ /\ Goto(t, "connectEx")
        /\ UNCHANGED <<indexStack, sessionCount, sockets>>
     \/ /\ mode = "faulty"
        /\ sessionCount' = sessionCount - 1
        /\ sockets' = [sockets EXCEPT ![th[t].id] = "closed"]
        /\ th' = [th EXCEPT ![t] = Idle]
        /\ UNCHANGED indexStack
  /\ UNCHANGED <<session, idGen, port, io, histVars, boundVars>>

(* CreateIoCompletionPort; when it fails the index and the count are given  *)
(* back and Connect closes the socket, but the session is not cleared.      *)
RegisterPort(t) ==
  /\ th[t].at = "register"
  /\ \/ /\ Goto(t, "connectEx")
        /\ UNCHANGED <<indexStack, sessionCount, sockets>>
     \/ /\ mode = "faulty"
        /\ indexStack' = Append(indexStack, th[t].s)
        /\ sessionCount' = sessionCount - 1
        /\ sockets' = [sockets EXCEPT ![th[t].id] = "closed"]
        /\ th' = [th EXCEPT ![t] = Idle]
  /\ UNCHANGED <<session, idGen, port, io, histVars, boundVars>>

(* ConnectEx uses the reference Activate left; when it fails at once the    *)
(* reference is given back.                                                 *)
ConnectEx(t) ==
  /\ th[t].at = "connectEx"
  /\ LET g == th[t].id
     IN \/ /\ sockets[g] = "made"
           /\ io' = [io EXCEPT ![g]["connect"] = 1]
           /\ sockets' = [sockets EXCEPT ![g] = "connecting"]
           /\ th' = [th EXCEPT ![t] = Idle]
        \/ /\ sockets' = [sockets EXCEPT ![g] = IF @ = "made" THEN "refused" ELSE @]
           /\ Owe(t, 1)
           /\ UNCHANGED io
  /\ UNCHANGED <<session, poolVars, port, histVars, boundVars>>

-----------------------------------------------------------------------------
(* WorkerThreadMain.                                                        *)

(* Variant of Dequeue: a ConnectEx that failed is left at once. *)
DequeueLeaves(t) ==
  /\ th[t].at = "idle" /\ port # <<>>
  /\ LET e == Head(port)
         work(l) == [th EXCEPT ![t].at = l, ![t].s = e.slot, ![t].on = e.slot]
     IN \/ /\ e.ok
           /\ th' = work(IF e.kind = "send" THEN "sent" ELSE "handler")
           /\ announced' = IF e.kind # "connect" THEN announced
                           ELSE announced \cup {session[e.slot].id}
        \/ /\ ~e.ok
           /\ th' = IF e.kind = "connect" THEN th
                    ELSE [work("dec") EXCEPT ![t].owed = 1]
           /\ UNCHANGED announced
  /\ port' = Tail(port)
  /\ UNCHANGED <<session, poolVars, sockets, io, gone, boundVars>>

(* One branch per kind of completion; OnConnected is told the id the slot   *)
(* has.  A failed ConnectEx, and a transfer of nothing, only give their     *)
(* reference back.                                                          *)
Dequeue(t) ==
  /\ th[t].at = "idle" /\ port # <<>>
  /\ LET e == Head(port)
         work(l) == [th EXCEPT ![t].at = l, ![t].s = e.slot, ![t].on = e.slot]
     IN \/ /\ e.ok
           /\ th' = work(IF e.kind = "send" THEN "sent" ELSE "handler")
           /\ announced' = IF e.kind # "connect" THEN announced
                           ELSE announced \cup {session[e.slot].id}
        \/ /\ ~e.ok
           /\ th' = [work("dec") EXCEPT ![t].owed = 1]
           /\ UNCHANGED announced
  /\ port' = Tail(port)
  /\ UNCHANGED <<session, poolVars, sockets, io, gone, boundVars>>

(* OnConnected or the OnRecv calls of ProcessRecv are over: PostRecv.       *)
PostRecv(t) ==
  /\ th[t].at = "handler"
  /\ IF session[th[t].s].connected THEN Goto(t, "recvPost") ELSE Owe(t, 1)
  /\ UNCHANGED <<session, poolVars, kernelVars, histVars, boundVars>>

(* Whether an operation can be registered on a socket, or can fail to be.   *)
Registers(g) == g # NoId /\ sockets[g] \in {"open", "peerClosed"}
Fails(g) == g # NoId => sockets[g] # "open"

WSARecv(t) ==
  /\ th[t].at = "recvPost"
  /\ LET s == th[t].s  g == session[s].socket
     IN /\ session' = [session EXCEPT ![s].count = LongInc(@)]
        /\ \/ Registers(g) /\ io' = [io EXCEPT ![g]["recv"] = @ + 1] /\ Owe(t, 1)
           \/ Fails(g) /\ Owe(t, 2) /\ UNCHANGED io
  /\ UNCHANGED <<poolVars, port, sockets, histVars, boundVars>>

(* ProcessSend lowers the flag and calls PostSend whatever is queued.       *)
ProcessSend(t) ==
  /\ th[t].at = "sent"
  /\ session' = [session EXCEPT ![th[t].s].sending = FALSE]
  /\ Goto(t, "sendCheck")
  /\ UNCHANGED <<poolVars, kernelVars, histVars, boundVars>>

(* PostSend: the connected flag, the send flag, the queue.                  *)
PostSend(t) ==
  /\ th[t].at = "sendCheck"
  /\ IF session[th[t].s].connected THEN Goto(t, "sendClaim") ELSE Owe(t, 1)
  /\ UNCHANGED <<session, poolVars, kernelVars, histVars, boundVars>>

(* Variant of Claim: the flag is read and not exchanged. *)
ClaimReads(t) ==
  /\ th[t].at = "sendClaim"
  /\ IF session[th[t].s].sending THEN Owe(t, 1) ELSE Goto(t, "sendPost")
  /\ UNCHANGED <<session, poolVars, kernelVars, histVars, boundVars>>

Claim(t) ==
  /\ th[t].at = "sendClaim"
  /\ IF session[th[t].s].sending THEN Owe(t, 1) ELSE Goto(t, "sendPost")
  /\ session' = [session EXCEPT ![th[t].s].sending = TRUE]
  /\ UNCHANGED <<poolVars, kernelVars, histVars, boundVars>>

(* The whole queue goes out with one WSASend.  When that fails, its         *)
(* reference is given back and the flag stays raised.                       *)
WSASend(t) ==
  /\ th[t].at = "sendPost"
  /\ LET s == th[t].s  g == session[s].socket
     IN IF session[s].queued
        THEN /\ session' = [session EXCEPT ![s].queued = FALSE, ![s].count = LongInc(@)]
             /\ \/ /\ Registers(g)
                   /\ io' = [io EXCEPT ![g]["send"] = @ + 1]
                   /\ Owe(t, 1)
                \/ Fails(g) /\ Owe(t, 2) /\ UNCHANGED io
        ELSE Goto(t, "sendReset") /\ UNCHANGED <<session, io>>
  /\ UNCHANGED <<poolVars, port, sockets, histVars, boundVars>>

SendReset(t) ==
  /\ th[t].at = "sendReset"
  /\ session' = [session EXCEPT ![th[t].s].sending = FALSE]
  /\ Owe(t, 1)
  /\ UNCHANGED <<poolVars, kernelVars, histVars, boundVars>>

-----------------------------------------------------------------------------
(* SendPacket and Disconnect: from a handler on its own session, and in     *)
(* foreign mode from another thread on any it has heard of.                 *)

StartCall(t) ==
  /\ calls < MaxCalls /\ calls' = calls + 1
  /\ \E g \in IF t = Caller THEN announced \ {NoId}
              ELSE {session[th[t].s].id} \ {NoId} :
       th' = [th EXCEPT ![t].at = "acquire", ![t].s = SlotOf(g), ![t].id = g,
                        ![t].back = th[t].at]
  /\ UNCHANGED <<session, poolVars, kernelVars, histVars, mode, msgs>>

(* What follows a piece of work: the loop, or the handler a call came from. *)
Resumed(t) ==
  [th EXCEPT ![t] = IF @.back = "idle" THEN Idle
                    ELSE [Idle EXCEPT !.at = "handler", !.s = th[t].on,
                                      !.on = th[t].on]]

(* TryAcquireSession: the id is compared, then the counter raised; the      *)
(* connected flag is not looked at.                                         *)
TryAcquireSession(t) ==
  /\ th[t].at = "acquire"
  /\ th' = IF session[th[t].s].id = th[t].id
           THEN [th EXCEPT ![t].at = "acquireRef"] ELSE Resumed(t)
  /\ UNCHANGED <<session, poolVars, kernelVars, histVars, boundVars>>

AcquireRef(t) ==
  /\ th[t].at = "acquireRef"
  /\ LET s == th[t].s
     IN /\ session' = [session EXCEPT ![s].count = LongInc(@)]
        /\ IF LongInc(session[s].count) < 0 THEN Owe(t, 1) ELSE Goto(t, "use")
  /\ UNCHANGED <<poolVars, kernelVars, histVars, boundVars>>

SendPacket(t) ==
  /\ th[t].at = "use"
  /\ session' = [session EXCEPT ![th[t].s].queued = TRUE]
  /\ Goto(t, "sendCheck")
  /\ UNCHANGED <<poolVars, kernelVars, histVars, boundVars>>

Disconnect(t) ==
  /\ th[t].at = "use"
  /\ session' = [session EXCEPT ![th[t].s].connected = FALSE]
  /\ Goto(t, "cancel")
  /\ UNCHANGED <<poolVars, kernelVars, histVars, boundVars>>

CancelIo(t) ==
  /\ th[t].at = "cancel"
  /\ LET g == session[th[t].s].socket
     IN IF g = NoId THEN UNCHANGED <<port, io>> ELSE AbortIo(g)
  /\ Owe(t, 1)
  /\ UNCHANGED <<session, poolVars, sockets, histVars, boundVars>>

-----------------------------------------------------------------------------
(* DecreaseIoCount and DeleteSession.                                       *)

(* The next DecreaseIoCount that is owed, or the end of the work.           *)
Return(t) ==
  th' = IF th[t].owed > 1 THEN [th EXCEPT ![t].at = "dec", ![t].owed = @ - 1]
        ELSE Resumed(t)

DecreaseIoCount(t) ==
  /\ th[t].at = "dec"
  /\ LET s == th[t].s  n == LongDec(session[s].count)
     IN /\ session' = [session EXCEPT ![s].count = n]
        /\ IF n = 0 THEN Goto(t, "delete") ELSE Return(t)
  /\ UNCHANGED <<poolVars, kernelVars, histVars, boundVars>>

(* The id is read after the decrement and is compared with that of the slot.*)
DeleteSession(t) ==
  /\ th[t].at = "delete"
  /\ LET g == session[th[t].s].id
     IN IF g = NoId THEN Return(t)
        ELSE th' = [th EXCEPT ![t].at = "deleteCas", ![t].id = g]
  /\ UNCHANGED <<session, poolVars, kernelVars, histVars, boundVars>>

DeleteCas(t) ==
  /\ th[t].at = "deleteCas"
  /\ LET s == th[t].s
     IN IF session[s].count = 0
        THEN session' = [session EXCEPT ![s].count = DeleteFlag] /\ Goto(t, "teardown")
        ELSE Return(t) /\ UNCHANGED session
  /\ UNCHANGED <<poolVars, kernelVars, histVars, boundVars>>

(* OnDisconnected, with the id read before, and closesocket, with the field *)
(* as it reads now.                                                         *)
Teardown(t) ==
  /\ th[t].at = "teardown"
  /\ LET k == session[th[t].s].socket
     IN /\ gone' = [gone EXCEPT ![th[t].id] = @ + 1]
        /\ IF k = NoId THEN UNCHANGED <<port, sockets, io>>
           ELSE sockets' = [sockets EXCEPT ![k] = "closed"] /\ AbortIo(k)
  /\ Goto(t, "clear")
  /\ UNCHANGED <<session, poolVars, announced, boundVars>>

Clear(t) ==
  /\ th[t].at = "clear"
  /\ session' = [session EXCEPT ![th[t].s] = Cleared]
  /\ Goto(t, "recycle")
  /\ UNCHANGED <<poolVars, kernelVars, histVars, boundVars>>

Recycle(t) ==
  /\ th[t].at = "recycle"
  /\ indexStack' = Append(indexStack, th[t].s)
  /\ sessionCount' = sessionCount - 1
  /\ Return(t)
  /\ UNCHANGED <<session, idGen, kernelVars, histVars, boundVars>>

-----------------------------------------------------------------------------
(* The kernel and the peers (external).                                     *)

(* A server that is not there also shows only in the completion.            *)
ConnectCompletes(g) ==
  /\ io[g]["connect"] > 0
  /\ io' = [io EXCEPT ![g]["connect"] = 0]
  /\ \E ok \in BOOLEAN :
       /\ sockets' = [sockets EXCEPT ![g] = IF ok THEN "open" ELSE "refused"]
       /\ port' = Append(port, Completion(SlotOf(g), "connect", ok))
  /\ UNCHANGED <<session, poolVars, th, histVars, boundVars>>

RecvCompletes(g) ==
  /\ io[g]["recv"] > 0
  /\ \/ /\ sockets[g] = "open" /\ msgs < MaxMsgs
        /\ msgs' = msgs + 1
        /\ port' = Append(port, Completion(SlotOf(g), "recv", TRUE))
     \/ /\ sockets[g] = "peerClosed"
        /\ port' = Append(port, Completion(SlotOf(g), "recv", FALSE))
        /\ UNCHANGED msgs
  /\ io' = [io EXCEPT ![g]["recv"] = @ - 1]
  /\ UNCHANGED <<session, poolVars, sockets, th, histVars, mode, calls>>

SendCompletes(g) ==
  /\ io[g]["send"] > 0
  /\ \E ok \in IF sockets[g] = "open" THEN {TRUE} ELSE BOOLEAN :
       port' = Append(port, Completion(SlotOf(g), "send", ok))
  /\ io' = [io EXCEPT ![g]["send"] = @ - 1]
  /\ UNCHANGED <<session, poolVars, sockets, th, histVars, boundVars>>

PeerCloses(g) ==
  /\ sockets[g] = "open"
  /\ sockets' = [sockets EXCEPT ![g] = "peerClosed"]
  /\ UNCHANGED <<session, poolVars, port, io, th, histVars, boundVars>>

-----------------------------------------------------------------------------
ConnectTurn ==
  CreateSession(Connector) \/ Activate(Connector)
    \/ RegisterPort(Connector) \/ ConnectEx(Connector)

Continue(t) ==
  \/ PostRecv(t) \/ WSARecv(t) \/ ProcessSend(t) \/ PostSend(t) \/ Claim(t)
  \/ WSASend(t) \/ SendReset(t) \/ TryAcquireSession(t) \/ AcquireRef(t)
  \/ SendPacket(t) \/ Disconnect(t) \/ CancelIo(t) \/ DecreaseIoCount(t)
  \/ DeleteSession(t) \/ DeleteCas(t) \/ Teardown(t) \/ Clear(t) \/ Recycle(t)

Kernel(g) == ConnectCompletes(g) \/ RecvCompletes(g) \/ SendCompletes(g)

ClientNext ==
  \/ ConnectTurn
  \/ \E t \in Workers : Dequeue(t) \/ (th[t].at = "handler" /\ StartCall(t))
  \/ mode = "foreign" /\ th[Caller].at = "idle" /\ StartCall(Caller)
  \/ \E t \in Threads : Continue(t)
  \/ \E g \in Ids : Kernel(g) \/ PeerCloses(g)

ClientSpec == ClientInit /\ [][ClientNext]_clientVars

(* The operating system schedules every thread and completes what it can.   *)
(* Nothing obliges a peer to send or to close, or anybody to connect.       *)
ClientFairness ==
  /\ WF_clientVars(Activate(Connector) \/ RegisterPort(Connector) \/ ConnectEx(Connector))
  /\ WF_clientVars(\E t \in Workers : Dequeue(t))
  /\ \A t \in Threads : WF_clientVars(Continue(t))
  /\ \A g \in Ids :
       /\ WF_clientVars(ConnectCompletes(g)) /\ WF_clientVars(SendCompletes(g))
       /\ WF_clientVars(sockets[g] = "peerClosed" /\ RecvCompletes(g))

ClientFairSpec == ClientSpec /\ ClientFairness

-----------------------------------------------------------------------------
Labels == {"idle", "activate", "register", "connectEx", "handler", "recvPost",
  "sent", "sendCheck", "sendClaim", "sendPost", "sendReset", "acquire",
  "acquireRef", "use", "cancel", "dec", "delete", "deleteCas", "teardown",
  "clear", "recycle"}

ClientTypes ==
  /\ session \in [Slots -> [id : Ids \cup {NoId}, socket : Ids \cup {NoId},
       count : Int, sending : BOOLEAN, connected : BOOLEAN, queued : BOOLEAN]]
  /\ indexStack \in Seq(Slots) /\ sessionCount \in Int /\ idGen \in 0 .. MaxConnects
  /\ port \in Seq([slot : Slots, kind : Kinds, ok : BOOLEAN])
  /\ sockets \in [Ids -> {"none", "made", "connecting", "refused", "open",
                          "peerClosed", "closed"}]
  /\ io \in [Ids -> [Kinds -> Nat]]
  /\ th \in [Threads -> [at : Labels, s : Slots \cup {NoSlot},
       on : Slots \cup {NoSlot}, id : Ids \cup {NoId}, owed : 0 .. 2,
       back : {"idle", "handler"}]]
  /\ announced \subseteq Ids \cup {NoId} /\ gone \in [Ids -> Nat]
  /\ mode \in Modes /\ msgs \in 0 .. MaxMsgs /\ calls \in 0 .. MaxCalls

(* The indices that are free and those m_lSessionCount counts make up the   *)
(* array, none is free twice and OnDisconnected is called for a session     *)
(* once, however an attempt or a session ends, also after                   *)
(* CreateIoCompletionPort has failed, as long as handlers only call on      *)
(* their own session.                                                       *)
IndexConserved ==
  /\ ClientTypes
  /\ mode # "foreign" =>
       /\ IsInjective(indexStack)
       /\ Len(indexStack) + sessionCount = Cardinality(Slots)
       /\ \A g \in Ids : gone[g] <= 1

(* Operations of a slot with the kernel, its completions, and the threads   *)
(* that are at its side of sends and of receives.                           *)
Outstanding(s, kinds) ==
  {x \in Ids \X kinds : SlotOf(x[1]) = s /\ io[x[1]][x[2]] > 0}
Queued(s, kinds) ==
  {i \in DOMAIN port : port[i].slot = s /\ port[i].kind \in kinds}
Sending(s) ==
  {t \in Threads : th[t].s = s /\ th[t].at \in {"sent", "sendPost", "sendReset"}}
Receiving(s) ==
  {t \in Threads : \/ th[t].s = s /\ th[t].at \in {"handler", "recvPost"}
                   \/ th[t].on = s /\ th[t].back = "handler"}

(* One WSASend at a time holds the pending list of a session, although      *)
(* every thread that sends runs PostSend itself; and one WSARecv at a time  *)
(* fills m_recvBuffer.                                                      *)
SidesSerial ==
  /\ \A g \in Ids, k \in Kinds : io[g][k] <= 1
  /\ \A s \in Slots :
       /\ Cardinality(Sending(s)) + Cardinality(Outstanding(s, {"send"}))
            + Cardinality(Queued(s, {"send"})) <= 1
       /\ Cardinality(Receiving(s)) + Cardinality(Outstanding(s, {"connect", "recv"}))
            + Cardinality(Queued(s, {"connect", "recv"})) <= 1

(* As long as a session is only called on by its own handlers and is bound  *)
(* to the port, every attempt that is refused and every connection whose    *)
(* peer closes ends with its socket closed, so that its slot is used again. *)
AttemptsEnd ==
  \A g \in Ids :
    mode = "own" /\ sockets[g] \in {"refused", "peerClosed"} ~> sockets[g] = "closed"
=============================================================================
