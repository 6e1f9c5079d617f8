---------------------------- MODULE SendPipeline ----------------------------
(***************************************************************************)
(* The way of a packet through IocpServer::SendPacket, SendRequest,        *)
(* PostSend and ProcessSend, for one session that stays allocated          *)
(* (SessionLifetime is about that).  Any thread queues a packet and posts  *)
(* a SEND_REQUEST; a worker that takes the request sends what is queued,   *)
(* unless m_bSendFlag says that a WSASend is outstanding: then the worker  *)
(* that takes its completion goes on sending.                              *)
(***************************************************************************)
EXTENDS Integers, Sequences, FiniteSets

CONSTANTS
  Workers,      (* threads in ProcessIO                                     *)
  Others,       (* other threads that call SendPacket                       *)
  Packets       (* what gets sent, each once                                *)

Threads == Workers \cup Others

VARIABLES
  connected,  (* Session::m_bConnectedFlag                                  *)
  alive,      (* the socket can still carry data                            *)
  lost,       (* history: a SEND_REQUEST could not be posted                *)
  sendQ,      (* Session::m_sendQ                                           *)
  flag,       (* Session::m_bSendFlag                                       *)
  pending,    (* SendOverlapped::m_pendingList, which holds the buffers     *)
  inFlight,   (* the packets the WSABUFs of the outstanding WSASend point at*)
  send,       (* that WSASend: none, outstanding, or completed in a way     *)
  requests,   (* SEND_REQUEST completions in the completion port            *)
  pc,         (* where a thread is                                          *)
  accepted,   (* history: packets in the order of m_sendQ.Push              *)
  wire        (* packets the peer's side of the connection was given        *)

line == <<connected, alive, lost>>
net  == <<inFlight, send, wire>>
vars == <<line, sendQ, flag, pending, net, requests, pc, accepted>>

Init ==
  /\ connected = TRUE /\ alive = TRUE /\ lost = FALSE
  /\ sendQ = <<>> /\ flag = FALSE /\ pending = <<>>
  /\ inFlight = <<>> /\ send = "none" /\ requests = 0
  /\ pc = [t \in Threads |-> "idle"]
  /\ accepted = <<>> /\ wire = <<>>

At(t, here, next) == pc[t] = here /\ pc' = [pc EXCEPT ![t] = next]

-----------------------------------------------------------------------------
(* SendPacket on an acquired session, called between two completions, from  *)
(* OnRecv or a job: the packet is queued ...                                *)
Push(t, p) ==
  /\ At(t, "idle", "request")
  /\ \A i \in 1 .. Len(accepted) : accepted[i] # p
  /\ sendQ' = Append(sendQ, p)
  /\ accepted' = Append(accepted, p)
  /\ UNCHANGED <<line, flag, pending, net, requests>>

(* ... and SendRequest posts a completion, or fails to: then the packet     *)
(* stays queued until another one is sent.                                  *)
Request(t) ==
  /\ At(t, "request", "idle")
  /\ \/ requests' = requests + 1 /\ UNCHANGED lost
     \/ lost' = TRUE /\ UNCHANGED requests
  /\ UNCHANGED <<connected, alive, sendQ, flag, pending, net, accepted>>

(* ProcessIO takes a SEND_REQUEST: PostSend is called.                      *)
TakeRequest(t) ==
  /\ requests > 0
  /\ At(t, "idle", "check")
  /\ requests' = requests - 1
  /\ UNCHANGED <<line, sendQ, flag, pending, net, accepted>>

(* It takes the completion of the WSASend: ProcessSend is called.           *)
TakeSent(t) ==
  /\ send = "sent" /\ send' = "none"
  /\ At(t, "idle", "clear")
  /\ UNCHANGED <<line, sendQ, flag, pending, inFlight, wire, requests, accepted>>

(* Variant of TakeAborted: the flag is lowered. *)
TakeAbortedLowers(t) ==
  /\ send = "aborted" /\ send' = "none"
  /\ pc[t] = "idle"
  /\ flag' = FALSE /\ pending' = <<>>
  /\ UNCHANGED <<line, sendQ, inFlight, wire, requests, pc, accepted>>

(* With no bytes transferred nothing is done; the flag stays up and keeps   *)
(* anyone from sending what would come after a gap.                         *)
TakeAborted(t) ==
  /\ send = "aborted" /\ send' = "none"
  /\ pc[t] = "idle"
  /\ UNCHANGED <<line, sendQ, flag, pending, inFlight, wire, requests, pc, accepted>>

(* ProcessSend: the buffers are released, the flag lowered, and the queue   *)
(* looked at once more.                                                     *)
Clear(t) ==
  /\ At(t, "clear", "release")
  /\ pending' = <<>>
  /\ UNCHANGED <<line, sendQ, flag, net, requests, accepted>>

Release(t) ==
  /\ At(t, "release", "recheck")
  /\ flag' = FALSE
  /\ UNCHANGED <<line, sendQ, pending, net, requests, accepted>>

Recheck(t) ==
  /\ \/ sendQ # <<>> /\ At(t, "recheck", "check")
     \/ sendQ = <<>> /\ At(t, "recheck", "idle")
  /\ UNCHANGED <<line, sendQ, flag, pending, net, requests, accepted>>

(* PostSend: the connected flag ...                                         *)
Check(t) ==
  /\ \/ connected /\ At(t, "check", "claim")
     \/ ~connected /\ At(t, "check", "idle")
  /\ UNCHANGED <<line, sendQ, flag, pending, net, requests, accepted>>

(* Variant of Claim: the flag is raised but not respected. *)
ClaimAlways(t) ==
  /\ At(t, "claim", "size")
  /\ flag' = TRUE
  /\ UNCHANGED <<line, sendQ, pending, net, requests, accepted>>

(* ... the send flag, exchanged with 1 ...                                  *)
Claim(t) ==
  /\ \/ flag /\ At(t, "claim", "idle") /\ UNCHANGED flag
     \/ ~flag /\ At(t, "claim", "size") /\ flag' = TRUE
  /\ UNCHANGED <<line, sendQ, pending, net, requests, accepted>>

(* ... the size of the queue ...                                            *)
Size(t) ==
  /\ \/ sendQ # <<>> /\ At(t, "size", "swap")
     \/ sendQ = <<>> /\ At(t, "size", "lower")
  /\ UNCHANGED <<line, sendQ, flag, pending, net, requests, accepted>>

(* Variant of Lower: returns with the flag up. *)
LowerNot(t) ==
  /\ At(t, "lower", "idle")
  /\ flag' = flag
  /\ UNCHANGED <<line, sendQ, pending, net, requests, accepted>>

(* ... nothing to send: the flag is lowered.                                *)
Lower(t) ==
  /\ At(t, "lower", "idle")
  /\ flag' = FALSE
  /\ UNCHANGED <<line, sendQ, pending, net, requests, accepted>>

(* The whole queue goes to the pending list by way of a thread-local queue. *)
Swap(t) ==
  /\ At(t, "swap", "send")
  /\ pending' = pending \o sendQ
  /\ sendQ' = <<>>
  /\ UNCHANGED <<line, flag, net, requests, accepted>>

(* One WSASend for all that is pending.  If it fails the flag stays up and  *)
(* the pending list as it is.                                               *)
WSASend(t) ==
  /\ At(t, "send", "idle")
  /\ \/ /\ send' = "outstanding" /\ inFlight' = pending
        /\ UNCHANGED wire
     \/ ~alive /\ UNCHANGED net
  /\ UNCHANGED <<line, sendQ, flag, pending, requests, accepted>>

-----------------------------------------------------------------------------
(* The network, external.  An outstanding WSASend is carried out, or it is  *)
(* aborted when the connection breaks or is cancelled, after a part of it   *)
(* may have gone.                                                           *)
SendCompletes ==
  /\ send = "outstanding" /\ alive
  /\ send' = "sent"
  /\ wire' = wire \o inFlight /\ inFlight' = <<>>
  /\ UNCHANGED <<line, sendQ, flag, pending, requests, pc, accepted>>

SendAborted ==
  /\ send = "outstanding" /\ ~(alive /\ connected)
  /\ send' = "aborted"
  /\ \E n \in 0 .. Len(inFlight) : wire' = wire \o SubSeq(inFlight, 1, n)
  /\ inFlight' = <<>>
  /\ UNCHANGED <<line, sendQ, flag, pending, requests, pc, accepted>>

LineBreaks ==
  /\ alive /\ alive' = FALSE
  /\ UNCHANGED <<connected, lost, sendQ, flag, pending, net, requests, pc, accepted>>

(* Disconnect lowers m_bConnectedFlag, whatever sends are going on.         *)
Disconnect ==
  /\ connected /\ connected' = FALSE
  /\ UNCHANGED <<alive, lost, sendQ, flag, pending, net, requests, pc, accepted>>

(* Threads wait for packets to send and for completions.                    *)
Idle ==
  /\ \A t \in Threads : pc[t] = "idle"
  /\ requests = 0 /\ send = "none"
  /\ UNCHANGED vars

Continue(t) ==
  \/ Request(t) \/ Clear(t) \/ Release(t) \/ Recheck(t) \/ Check(t) \/ Claim(t)
  \/ Size(t) \/ Lower(t) \/ Swap(t) \/ WSASend(t)

Network == SendCompletes \/ SendAborted

Next ==
  \/ \E t \in Threads : Continue(t)
  \/ \E t \in Threads, p \in Packets : Push(t, p)
  \/ \E t \in Workers : TakeRequest(t) \/ TakeSent(t) \/ TakeAborted(t)
  \/ Network \/ LineBreaks \/ Disconnect \/ Idle

Spec == Init /\ [][Next]_vars

(* Threads go on with what they have begun, the completion port hands out   *)
(* what it holds, and the network does something with what it was given.    *)
Fairness ==
  /\ \A t \in Threads : WF_vars(Continue(t))
  /\ WF_vars(\E t \in Workers : TakeRequest(t))
  /\ WF_vars(\E t \in Workers : TakeSent(t) \/ TakeAborted(t))
  /\ WF_vars(Network)

FairSpec == Spec /\ Fairness

-----------------------------------------------------------------------------
TypeOK ==
  /\ connected \in BOOLEAN /\ alive \in BOOLEAN /\ lost \in BOOLEAN /\ flag \in BOOLEAN
  /\ sendQ \in Seq(Packets) /\ pending \in Seq(Packets) /\ inFlight \in Seq(Packets)
  /\ send \in {"none", "outstanding", "sent", "aborted"}
  /\ requests \in Nat
  /\ pc \in [Threads -> {"idle", "request", "check", "claim", "size", "lower",
                         "swap", "send", "clear", "release", "recheck"}]
  /\ accepted \in Seq(Packets) /\ wire \in Seq(Packets)

(* While the kernel may read the buffers of a WSASend, the pending list     *)
(* holds a reference to every packet of them, and to nothing else.          *)
BuffersHeld == send = "outstanding" => pending = inFlight /\ inFlight # <<>>

(* A thread works under the flag it has raised itself, or took over from a  *)
(* completed WSASend.                                                       *)
Owner(t) == pc[t] \in {"size", "lower", "swap", "send", "clear", "release"}

(* What has been taken from m_sendQ and not reached the peer.               *)
Transit == IF send = "outstanding" \/ \E t \in Threads : pc[t] = "send" THEN pending ELSE <<>>

(* There is one owner at most, and none while a WSASend is outstanding or   *)
(* its completion waits.                                                    *)
OneOwner ==
  /\ \A s, t \in Threads : Owner(s) /\ Owner(t) => s = t
  /\ \A t \in Threads : Owner(t) => flag /\ send = "none"
  /\ send # "none" => flag

PendingShape ==
  /\ send # "outstanding" => inFlight = <<>>
  /\ ~flag => pending = <<>>
  /\ \A t \in Threads :
       /\ pc[t] \in {"size", "lower", "swap", "release"} => pending = <<>>
       /\ pc[t] = "swap" => sendQ # <<>>
       /\ pc[t] = "send" => pending # <<>>

(* The peer has a prefix of what was accepted.  Unless a WSASend has failed *)
(* or been aborted, which leaves the flag up for good, the rest is in       *)
(* transit or queued.                                                       *)
WirePrefix ==
  /\ Len(wire) <= Len(accepted)
  /\ \A i \in 1 .. Len(wire) : wire[i] = accepted[i]

NothingLost ==
  ~flag \/ send \in {"outstanding", "sent"} \/ (\E t \in Threads : Owner(t))
    => accepted = (wire \o Transit) \o sendQ

(* These are inductive together, and give the order of delivery.            *)
SendInv == TypeOK /\ OneOwner /\ PendingShape /\ BuffersHeld /\ WirePrefix /\ NothingLost

-----------------------------------------------------------------------------
(* Refinement: the peer gets what was accepted, in that order.              *)
Fifo == INSTANCE FifoChannel WITH up <- connected /\ alive /\ ~lost

SendsInOrder == Fifo!Spec

(* And gets all of it while the connection lasts, unless a request could    *)
(* not be posted: no packet is left in m_sendQ with nobody to send it.      *)
SendsEverything == Fifo!FairSpec
=============================================================================
