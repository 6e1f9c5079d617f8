---------------------------- MODULE FifoChannel ----------------------------
(***************************************************************************)
(* What IocpServer::SendPacket promises of one session: the peer receives  *)
(* the packets in the order in which they were accepted, none twice, none  *)
(* skipped, and all of them unless the connection comes to an end.         *)
(***************************************************************************)
EXTENDS Naturals, Sequences

CONSTANT Packets

VARIABLES
  accepted,  (* packets SendPacket has queued, oldest first                 *)
  wire,      (* packets handed to the peer                                  *)
  up         (* the connection lasts                                        *)

vars == <<accepted, wire, up>>

Init == accepted = <<>> /\ wire = <<>> /\ up = TRUE

Accept(p) ==
  /\ \A i \in 1 .. Len(accepted) : accepted[i] # p
  /\ accepted' = Append(accepted, p)
  /\ UNCHANGED <<wire, up>>

(* One WSASend carries any number of packets.                               *)
Deliver ==
  \E n \in Len(wire) + 1 .. Len(accepted) :
    /\ wire' = SubSeq(accepted, 1, n)
    /\ UNCHANGED <<accepted, up>>

Break == up /\ up' = FALSE /\ UNCHANGED <<accepted, wire>>

Next == (\E p \in Packets : Accept(p)) \/ Deliver \/ Break

Spec == Init /\ [][Next]_vars

FairSpec == Spec /\ WF_vars(up /\ Deliver)
=============================================================================
