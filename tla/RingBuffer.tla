----------------------------- MODULE RingBuffer -----------------------------
(***************************************************************************)
(* jh_utility::RingBuffer, the operators: a ring of cap bytes of which one *)
(* stays unused, so that front = rear says empty.  A caller that fills the *)
(* ring itself asks for the pointers and the direct sizes and then moves   *)
(* rear.  The bytes are numbers; 0 stands for one never written.           *)
(***************************************************************************)
EXTENDS Integers, Sequences

NewRing(c) == [cap |-> c, front |-> 0, rear |-> 0, buf |-> [x \in 0 .. c - 1 |-> 0]]

IsFull(r) == r.front = (r.rear + 1) % r.cap

GetUseSize(r) ==
  IF IsFull(r) THEN r.cap - 1
  ELSE IF r.rear >= r.front THEN r.rear - r.front ELSE r.cap - (r.front - r.rear)

(* Variant of GetFreeSize: the byte that stays unused is offered too. *)
GetFreeSizeAll(r) ==
  IF r.rear >= r.front THEN r.cap - (r.rear - r.front) ELSE r.front - r.rear

GetFreeSize(r) ==
  IF IsFull(r) THEN 0
  ELSE IF r.rear >= r.front THEN r.cap - (r.rear - r.front) - 1
  ELSE r.front - r.rear - 1

(* How many bytes can be written from rear on without wrapping.             *)
DirectEnqueueSize(r) ==
  IF IsFull(r) THEN 0
  ELSE IF r.rear < r.front THEN r.front - r.rear - 1
  ELSE IF r.front = 0 THEN r.cap - r.rear - 1 ELSE r.cap - r.rear

DirectDequeueSize(r) ==
  IF r.rear >= r.front THEN r.rear - r.front ELSE r.cap - r.front

MoveRear(r, n) ==
  IF GetFreeSize(r) < n THEN r ELSE [r EXCEPT !.rear = (@ + n) % r.cap]

MoveFront(r, n) ==
  IF GetUseSize(r) < n THEN r ELSE [r EXCEPT !.front = (@ + n) % r.cap]

(* memcpy to and from offset at.                                            *)
Write(r, at, d) ==
  [r EXCEPT !.buf = [x \in DOMAIN @ |->
                       IF x - at + 1 \in DOMAIN d THEN d[x - at + 1] ELSE @[x]]]
Read(r, at, n) == [j \in 1 .. n |-> r.buf[at + j - 1]]

(* What EnqueueRetBool and Enqueue share: d fits, perhaps in two parts.     *)
Put(r, d) ==
  LET k == DirectEnqueueSize(r)
      one == MoveRear(Write(r, r.rear, SubSeq(d, 1, k)), k)
  IN IF k < Len(d)
     THEN MoveRear(Write(one, 0, SubSeq(d, k + 1, Len(d))), Len(d) - k)
     ELSE MoveRear(Write(r, r.rear, d), Len(d))

(* What PeekRetBool, DequeueRetBool, Peek and Dequeue copy: n bytes.        *)
Copied(r, n) ==
  LET k == DirectDequeueSize(r) IN
  IF n > k THEN Read(r, r.front, k) \o Read(r, 0, n - k) ELSE Read(r, r.front, n)

(* Variant of Taken: the second part is not left out of the ring. *)
TakenOnce(r, n) ==
  LET k == DirectDequeueSize(r) IN
  IF n > k THEN MoveFront(r, k) ELSE MoveFront(r, n)

(* What DequeueRetBool and Dequeue leave.                                   *)
Taken(r, n) ==
  LET k == DirectDequeueSize(r) IN
  IF n > k THEN MoveFront(MoveFront(r, k), n - k) ELSE MoveFront(r, n)

EnqueueRetBool(r, d) == IF GetFreeSize(r) < Len(d) THEN r ELSE Put(r, d)
DequeueRetBool(r, n) == IF GetUseSize(r) < n THEN r ELSE Taken(r, n)
PeekRetBool(r, n) == IF GetUseSize(r) < n THEN <<>> ELSE Copied(r, n)

Enqueue(r, d) ==
  Put(r, SubSeq(d, 1, IF GetFreeSize(r) < Len(d) THEN GetFreeSize(r) ELSE Len(d)))

(* How many bytes Dequeue and Peek hand out when asked for n.               *)
Given(r, n) == IF GetUseSize(r) < n THEN GetUseSize(r) ELSE n

Resize(r, c) ==
  IF c < r.cap THEN r
  ELSE LET n == GetUseSize(r) IN [Write(NewRing(c), 0, Copied(r, n)) EXCEPT !.rear = n]

ClearBuffer(r) == [r EXCEPT !.front = 0, !.rear = 0]

(* What the ring holds: the bytes from front to rear.                       *)
Content(r) == [j \in 1 .. (r.rear - r.front) % r.cap |-> r.buf[(r.front + j - 1) % r.cap]]
=============================================================================
