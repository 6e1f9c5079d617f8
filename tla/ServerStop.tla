----------------------------- MODULE ServerStop -----------------------------
(***************************************************************************)
(* Start and Stop of jh::IocpServer.  Start creates half as many threads   *)
(* again as may run at once; Stop closes the listening socket, posts an    *)
(* empty completion for every thread that may run at once, waits for all   *)
(* threads, and only then closes the port and clears what sessions are     *)
(* left, without any lock.                                                 *)
(***************************************************************************)
EXTENDS Naturals, Sequences, FiniteSets

CONSTANTS
  Concurrent,   (* m_dwConcurrentWorkerThreadCount                          *)
  MaxSessions,  (* m_dwMaxSessionCnt                                        *)
  MaxAccept,    (* bound: connections that come in                          *)
  MaxWork       (* bound: I/O the kernel completes                          *)

(* int(Concurrent * 1.5)                                                    *)
IoThreads == 1 .. (3 * Concurrent) \div 2

ASSUME StopAssumption ==
  /\ Concurrent \in Nat \ {0} /\ MaxSessions \in Nat
  /\ MaxAccept \in Nat /\ MaxWork \in Nat

VARIABLES
  stop,       (* where the thread is that calls Start and Stop              *)
  posted,     (* empty completions posted by Stop                           *)
  listening,  (* m_listenSock is open                                       *)
  portOpen,   (* m_hCompletionPort is open                                  *)
  port,       (* what the port holds: "io" and "null" completions           *)
  worker,     (* where each worker thread is                                *)
  acceptor,   (* where the accepting thread is                              *)
  sessions,   (* sessions in use                                            *)
  arrived, work  (* used part of MaxAccept and MaxWork                      *)

stopVars == <<stop, posted, listening, portOpen, port, worker, acceptor, sessions, arrived, work>>

(* The server as Start leaves it.                                           *)
StopInit ==
  /\ stop = "running" /\ posted = 0
  /\ listening = TRUE /\ portOpen = TRUE /\ port = <<>>
  /\ worker = [w \in IoThreads |-> "loop"]
  /\ acceptor = "accept"
  /\ sessions = 0 /\ arrived = 0 /\ work = 0

-----------------------------------------------------------------------------
(* ProcessAccept: accept() fails once the listening socket is closed.       *)
Accept ==
  /\ acceptor = "accept" /\ listening
  /\ arrived < MaxAccept /\ arrived' = arrived + 1
  /\ acceptor' = "create"
  /\ UNCHANGED <<stop, posted, listening, portOpen, port, worker, sessions, work>>

Create ==
  /\ acceptor = "create" /\ acceptor' = "accept"
  /\ sessions' = IF sessions < MaxSessions THEN sessions + 1 ELSE sessions
  /\ UNCHANGED <<stop, posted, listening, portOpen, port, worker, arrived, work>>

EndAccept ==
  /\ acceptor = "accept" /\ ~listening
  /\ acceptor' = "done"
  /\ UNCHANGED <<stop, posted, listening, portOpen, port, worker, sessions, arrived, work>>

(* The worker loop: a completion with a session is processed, which may     *)
(* release the session; one without ends the loop.                          *)
TakeIo(w) ==
  /\ worker[w] = "loop" /\ port # <<>> /\ Head(port) = "io"
  /\ port' = Tail(port)
  /\ worker' = [worker EXCEPT ![w] = "busy"]
  /\ UNCHANGED <<stop, posted, listening, portOpen, acceptor, sessions, arrived, work>>

EndIo(w) ==
  /\ worker[w] = "busy"
  /\ worker' = [worker EXCEPT ![w] = "loop"]
  /\ \/ UNCHANGED sessions
     \/ sessions > 0 /\ sessions' = sessions - 1
  /\ UNCHANGED <<stop, posted, listening, portOpen, port, acceptor, arrived, work>>

TakeNull(w) ==
  /\ worker[w] = "loop" /\ port # <<>> /\ Head(port) = "null"
  /\ port' = Tail(port)
  /\ worker' = [worker EXCEPT ![w] = "done"]
  /\ UNCHANGED <<stop, posted, listening, portOpen, acceptor, sessions, arrived, work>>

(* The kernel completes I/O of a session (external).                        *)
Completes ==
  /\ sessions > 0 /\ portOpen
  /\ work < MaxWork /\ work' = work + 1
  /\ port' = Append(port, "io")
  /\ UNCHANGED <<stop, posted, listening, portOpen, worker, acceptor, sessions, arrived>>

-----------------------------------------------------------------------------
(* Stop.                                                                    *)
CloseListen ==
  /\ stop = "running" /\ stop' = "post"
  /\ listening' = FALSE
  /\ UNCHANGED <<posted, portOpen, port, worker, acceptor, sessions, arrived, work>>

(* Variant of PostNulls: one completion is missing. *)
PostNullsOneLess ==
  /\ stop = "post"
  /\ \/ /\ posted + 1 < Concurrent
        /\ port' = Append(port, "null") /\ posted' = posted + 1
        /\ UNCHANGED stop
     \/ /\ posted + 1 = Concurrent
        /\ stop' = "join"
        /\ UNCHANGED <<port, posted>>
  /\ UNCHANGED <<listening, portOpen, worker, acceptor, sessions, arrived, work>>

PostNulls ==
  /\ stop = "post"
  /\ \/ /\ posted < Concurrent
        /\ port' = Append(port, "null") /\ posted' = posted + 1
        /\ UNCHANGED stop
     \/ /\ posted = Concurrent
        /\ stop' = "join"
        /\ UNCHANGED <<port, posted>>
  /\ UNCHANGED <<listening, portOpen, worker, acceptor, sessions, arrived, work>>

(* Variant of Join: the accepting thread is not waited for. *)
JoinWorkers ==
  /\ stop = "join"
  /\ \A w \in IoThreads : worker[w] = "done"
  /\ stop' = "close"
  /\ UNCHANGED <<posted, listening, portOpen, port, worker, acceptor, sessions, arrived, work>>

Join ==
  /\ stop = "join"
  /\ acceptor = "done" /\ \A w \in IoThreads : worker[w] = "done"
  /\ stop' = "close"
  /\ UNCHANGED <<posted, listening, portOpen, port, worker, acceptor, sessions, arrived, work>>

ClosePort ==
  /\ stop = "close" /\ stop' = "clear"
  /\ portOpen' = FALSE /\ port' = <<>>
  /\ UNCHANGED <<posted, listening, worker, acceptor, sessions, arrived, work>>

ClearSessions ==
  /\ stop = "clear" /\ stop' = "returned"
  /\ sessions' = 0
  /\ UNCHANGED <<posted, listening, portOpen, port, worker, acceptor, arrived, work>>

(* Stop has returned, or the workers go round without a completion.         *)
Wait ==
  /\ stop = "returned" \/ port = <<>>
  /\ UNCHANGED stopVars

Worker(w) == TakeIo(w) \/ EndIo(w) \/ TakeNull(w)
Acceptor == Create \/ EndAccept
Stop == PostNulls \/ Join \/ ClosePort \/ ClearSessions

StopNext ==
  \/ \E w \in IoThreads : Worker(w)
  \/ Acceptor \/ Stop
  \/ Accept \/ Completes \/ CloseListen \/ Wait

StopSpec == StopInit /\ [][StopNext]_stopVars

(* Every thread is scheduled; nothing obliges anybody to call Stop.         *)
StopFairSpec ==
  /\ StopSpec
  /\ \A w \in IoThreads : WF_stopVars(Worker(w))
  /\ WF_stopVars(Acceptor) /\ WF_stopVars(Stop)

-----------------------------------------------------------------------------
StopTypes ==
  /\ stop \in {"running", "post", "join", "close", "clear", "returned"}
  /\ posted \in 0 .. Concurrent
  /\ listening \in BOOLEAN /\ portOpen \in BOOLEAN
  /\ port \in Seq({"io", "null"})
  /\ worker \in [IoThreads -> {"loop", "busy", "done"}]
  /\ acceptor \in {"accept", "create", "done"}
  /\ sessions \in 0 .. MaxSessions
  /\ arrived \in 0 .. MaxAccept /\ work \in 0 .. MaxWork

(* ClearSessions and the closing of the port have the sessions to           *)
(* themselves: no worker and no acceptor is left that could touch one, and  *)
(* none appears after Stop has returned.                                    *)
ClearedAlone ==
  /\ StopTypes
  /\ stop \in {"close", "clear", "returned"} =>
       /\ acceptor = "done" /\ \A w \in IoThreads : worker[w] = "done"
       /\ stop = "returned" => sessions = 0

(* "Clean up the sessions that have not been cleaned up" (ClearSessions):   *)
(* a Stop that is called gets there and returns.                            *)
StopReturns == stop = "post" ~> stop = "returned"
=============================================================================
