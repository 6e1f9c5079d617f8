------------------------------ MODULE RingCalls ------------------------------
(***************************************************************************)
(* One RingBuffer and a caller that makes any calls in any order, and the  *)
(* queue of bytes it is to implement.                                      *)
(***************************************************************************)
EXTENDS RingBuffer

CONSTANTS Data,        (* the sequences of bytes the caller has             *)
          Capacities   (* bound: the capacities it asks for                 *)

ASSUME CallsAssumption ==
  Capacities \subseteq Nat \ {0} /\ Data \subseteq Seq(Nat)

VARIABLES ring, answer   (* the ring; result and bytes of the last call     *)
vars == <<ring, answer>>

Init == ring \in {NewRing(c) : c \in Capacities} /\ answer = <<0, <<>>>>

(* A bool that is returned.                                                 *)
Ok(p) == IF p THEN 1 ELSE 0

(* EnqueueRetBool and Enqueue.                                              *)
CallEnqueue(d) ==
  \/ /\ ring' = EnqueueRetBool(ring, d)
     /\ answer' = <<Ok(GetFreeSize(ring) >= Len(d)), <<>>>>
  \/ /\ ring' = Enqueue(ring, d)
     /\ answer' = <<GetFreeSize(ring) - GetFreeSize(ring'), <<>>>>

(* The caller writes to the ring itself, as PostRecv lets the kernel do.    *)
CallMoveRear(d) ==
  LET k == IF DirectEnqueueSize(ring) < Len(d) THEN DirectEnqueueSize(ring) ELSE Len(d)
      here == SubSeq(d, 1, k)
      there == SubSeq(d, k + 1, Len(d))
  IN /\ Len(d) <= GetFreeSize(ring)
     /\ ring' = MoveRear(Write(Write(ring, ring.rear, here), 0, there), Len(d))
     /\ answer' = <<1, <<>>>>

CallDequeue(n) ==
  \/ /\ ring' = DequeueRetBool(ring, n)
     /\ answer' = <<Ok(GetUseSize(ring) >= n), PeekRetBool(ring, n)>>
  \/ /\ ring' = Taken(ring, Given(ring, n))
     /\ answer' = <<Given(ring, n), Copied(ring, Given(ring, n))>>

CallPeek(n) ==
  /\ ring' = ring
  /\ \/ answer' = <<Ok(GetUseSize(ring) >= n), PeekRetBool(ring, n)>>
     \/ answer' = <<Given(ring, n), Copied(ring, Given(ring, n))>>

CallMoveFront(n) ==
  ring' = MoveFront(ring, n) /\ answer' = <<Ok(GetUseSize(ring) >= n), <<>>>>

CallResize(c) == ring' = Resize(ring, c) /\ answer' = <<Ok(c >= ring.cap), <<>>>>

CallClearBuffer == ring' = ClearBuffer(ring) /\ answer' = <<0, <<>>>>

Next ==
  \/ \E d \in Data : CallEnqueue(d) \/ CallMoveRear(d)
  \/ \E n \in 0 .. ring.cap : CallDequeue(n) \/ CallPeek(n) \/ CallMoveFront(n)
  \/ \E c \in Capacities : CallResize(c)
  \/ CallClearBuffer

Spec == Init /\ [][Next]_vars

-----------------------------------------------------------------------------
(* Whatever the calls, with the wrap and the growth where they fall, every  *)
(* answer is the one a bounded queue of bytes gives (RingBuffer.cpp:118).   *)
Queue == INSTANCE ByteQueue WITH
  bytes <- Content(ring), room <- ring.cap - 1, Rooms <- {c - 1 : c \in Capacities}
ImplementsQueue == Queue!Spec
=============================================================================
