--------------------------- MODULE RingProofs ---------------------------
(***************************************************************************)
(* Proofs about RingCalls and RecvStream: for every capacity and any bytes, *)
(* a RingBuffer answers as a bounded queue of bytes does; every builder     *)
(* puts the fields its packet declares and every handler takes fields that  *)
(* are there; and OnRecv is given the packets of the peer, whole and in     *)
(* order, however the network cuts the stream.                              *)
(*                                                                         *)
(* The content of a ring is known by the place of each byte: byte i is at   *)
(* front + i - 1, less the capacity once past the end of the array.  As no  *)
(* index is ever more than one round ahead, a remainder is one subtraction  *)
(* (ModWrap), and all of the four cases of the direct sizes come down to    *)
(* linear inequalities between places.  The lemmas then say: what is        *)
(* written, at once or in two parts, comes behind what is there             *)
(* (FilledAppends); what is copied is what comes first (CopiedRight); what  *)
(* is taken leaves the rest (FrontDrops); a new array has the same bytes    *)
(* (ResizeKeeps).  Each call follows from them.                             *)
(*                                                                         *)
(* For the stream, each byte is its place, so that what a ring holds is a   *)
(* run of numbers.  The kernel prolongs the run (KernelFills), a peek is    *)
(* the front of it (RunPeeked) and a dequeue its rest (RunTaken).  The      *)
(* invariant StreamInv says where the run begins, right behind the last     *)
(* packet given away, and where it ends; a header that is read there can    *)
(* only be that of the next packet, as no two begin at the same place.      *)
(***************************************************************************)
EXTENDS RingCalls, RecvStream, SequenceTheorems, FiniteSetTheorems, TLAPS

(* Indices: x % c is one subtraction away, or one addition.                 *)
Wrap(x, c) == IF x < c THEN x ELSE x - c

LEMMA ModWrap ==
  ASSUME NEW c \in Nat \ {0}, NEW x \in 0 .. 2 * c - 1
  PROVE  x % c = Wrap(x, c)
BY DEF Wrap

LEMMA ModDifference ==
  ASSUME NEW c \in Nat \ {0}, NEW x \in 0 .. c - 1, NEW y \in 0 .. c - 1
  PROVE  (x - y) % c = IF x >= y THEN x - y ELSE c - (y - x)
OBVIOUS

-----------------------------------------------------------------------------
(* What a ring is between two calls.                                        *)
Indices(r) == 0 .. r.cap - 1

RingRight(r) ==
  /\ r = [cap |-> r.cap, front |-> r.front, rear |-> r.rear, buf |-> r.buf]
  /\ r.cap \in Nat \ {0}
  /\ r.front \in Indices(r) /\ r.rear \in Indices(r)
  /\ r.buf \in [Indices(r) -> Nat]

(* How much is in it, and the i-th byte of that.                            *)
Used(r) == IF r.rear >= r.front THEN r.rear - r.front ELSE r.cap - (r.front - r.rear)
Place(r, i) == Wrap(r.front + i - 1, r.cap)
Byte(r, i) == r.buf[Place(r, i)]

LEMMA SizesRight ==
  ASSUME NEW r, RingRight(r)
  PROVE  /\ Used(r) \in 0 .. r.cap - 1
         /\ IsFull(r) <=> Used(r) = r.cap - 1
         /\ GetUseSize(r) = Used(r)
         /\ GetFreeSize(r) = r.cap - 1 - Used(r)
<1>1. (r.rear + 1) % r.cap = Wrap(r.rear + 1, r.cap)
  BY ModWrap DEF RingRight, Indices
<1>2. Used(r) \in 0 .. r.cap - 1
  BY DEF RingRight, Indices, Used
<1>3. IsFull(r) <=> Used(r) = r.cap - 1
  BY <1>1 DEF RingRight, Indices, Used, IsFull, Wrap
<1>4. GetUseSize(r) = Used(r)
  BY <1>3 DEF GetUseSize, Used
<1>5. GetFreeSize(r) = r.cap - 1 - Used(r)
  BY <1>3 DEF GetFreeSize, Used, RingRight, Indices
<1>6. QED BY <1>2, <1>3, <1>4, <1>5

LEMMA RingTypes ==
  ASSUME NEW r, RingRight(r)
  PROVE  /\ r.cap \in Nat /\ r.front \in Nat /\ r.rear \in Nat /\ Used(r) \in Nat
         /\ r.front < r.cap /\ r.rear < r.cap /\ Used(r) < r.cap
<1>1. r.cap \in Nat /\ r.front \in Nat /\ r.rear \in Nat /\ r.front < r.cap /\ r.rear < r.cap
  BY DEF RingRight, Indices
<1>2. QED BY <1>1, SizesRight

(* A function on 1 .. n is a sequence of length n.                          *)
LEMMA FunSeq ==
  ASSUME NEW n \in Nat, NEW f \in [1 .. n -> Nat]
  PROVE  f \in Seq(Nat) /\ Len(f) = n
OBVIOUS

LEMMA ContentRight ==
  ASSUME NEW r, RingRight(r)
  PROVE  /\ Content(r) \in Seq(Nat)
         /\ Len(Content(r)) = Used(r)
         /\ \A i \in 1 .. Used(r) :
              Content(r)[i] = Byte(r, i) /\ Place(r, i) \in Indices(r) /\ Byte(r, i) \in Nat
<1>1. (r.rear - r.front) % r.cap = Used(r)
  BY ModDifference DEF RingRight, Indices, Used
<1>2. Used(r) \in 0 .. r.cap - 1
  BY SizesRight
<1>3. ASSUME NEW i \in 1 .. Used(r)
      PROVE  (r.front + i - 1) % r.cap = Place(r, i) /\ Place(r, i) \in Indices(r)
  <2>1. r.front + i - 1 \in 0 .. 2 * r.cap - 1
    BY <1>2 DEF RingRight, Indices
  <2>2. (r.front + i - 1) % r.cap = Wrap(r.front + i - 1, r.cap)
    BY <2>1, ModWrap DEF RingRight
  <2>3. Place(r, i) \in Indices(r)
    BY <2>1 DEF Place, Wrap, RingRight, Indices
  <2>4. QED BY <2>2, <2>3 DEF Place
<1>4. \A i \in 1 .. Used(r) : r.buf[(r.front + i - 1) % r.cap] = Byte(r, i)
  BY <1>3 DEF Byte
<1>5. Content(r) = [i \in 1 .. Used(r) |-> r.buf[(r.front + i - 1) % r.cap]]
  <2>1. Content(r)
          = [j \in 1 .. (r.rear - r.front) % r.cap |-> r.buf[(r.front + j - 1) % r.cap]]
    BY DEF Content
  <2>2. QED BY ONLY <1>1, <2>1
<1>6. \A i \in 1 .. Used(r) : Content(r)[i] = Byte(r, i)
  BY <1>4, <1>5
<1>7. \A i \in 1 .. Used(r) : Byte(r, i) \in Nat
  BY <1>3 DEF Byte, RingRight
<1>8. Content(r) \in [1 .. Used(r) -> Nat]
  BY <1>5, <1>4, <1>7
<1>9. QED BY <1>2, <1>3, <1>6, <1>7, <1>8, FunSeq

(* Two sequences of the same length and elements are the same.              *)
LEMMA SameSeq ==
  ASSUME NEW a \in Seq(Nat), NEW b \in Seq(Nat), Len(a) = Len(b),
         \A i \in 1 .. Len(a) : a[i] = b[i]
  PROVE  a = b
OBVIOUS

LEMMA ConcatSame ==
  ASSUME NEW a \in Seq(Nat), NEW b \in Seq(Nat), NEW t \in Seq(Nat),
         Len(t) = Len(a) + Len(b),
         \A i \in 1 .. Len(a) : t[i] = a[i],
         \A i \in 1 .. Len(b) : t[Len(a) + i] = b[i]
  PROVE  t = a \o b
<1>1. Len(a) \in Nat /\ Len(b) \in Nat
  OBVIOUS
<1>2. /\ a \o b \in Seq(Nat) /\ Len(a \o b) = Len(t)
      /\ \A i \in 1 .. Len(t) : (a \o b)[i] = IF i <= Len(a) THEN a[i] ELSE b[i - Len(a)]
  BY ConcatProperties
<1>3. ASSUME NEW i \in 1 .. Len(t) PROVE t[i] = (a \o b)[i]
  <2>1. CASE i <= Len(a)
    BY <1>1, <1>2, <2>1
  <2>2. CASE i > Len(a)
    <3>1. i - Len(a) \in 1 .. Len(b) /\ Len(a) + (i - Len(a)) = i
      BY <1>1, <2>2
    <3>2. t[i] = b[i - Len(a)]
      BY <3>1
    <3>3. QED BY <1>1, <1>2, <2>2, <3>2
  <2>3. QED BY <1>1, <2>1, <2>2
<1>4. QED BY <1>2, <1>3, SameSeq

-----------------------------------------------------------------------------
(* Moving an index, within what is free or used.                            *)
RearMovedBy(r, n, s) ==
  /\ RingRight(s) /\ Used(s) = Used(r) + n
  /\ s.cap = r.cap /\ s.front = r.front /\ s.buf = r.buf
  /\ s.rear = Wrap(r.rear + n, r.cap)

LEMMA RearMoved ==
  ASSUME NEW r, RingRight(r), NEW n \in 0 .. r.cap - 1 - Used(r)
  PROVE  RearMovedBy(r, n, MoveRear(r, n))
<1>1. (r.rear + n) % r.cap = Wrap(r.rear + n, r.cap)
  <2>1. r.rear + n \in 0 .. 2 * r.cap - 1
    BY SizesRight DEF RingRight, Indices
  <2>2. QED BY <2>1, ModWrap DEF RingRight
<1>2. ~(GetFreeSize(r) < n)
  BY SizesRight DEF RingRight
<1>3. MoveRear(r, n) = [r EXCEPT !.rear = Wrap(r.rear + n, r.cap)]
  BY <1>1, <1>2 DEF MoveRear
<1>4. PICK s : s = [r EXCEPT !.rear = Wrap(r.rear + n, r.cap)]
  OBVIOUS
<1>5. /\ s = [cap |-> r.cap, front |-> r.front, rear |-> Wrap(r.rear + n, r.cap), buf |-> r.buf]
      /\ s.cap = r.cap /\ s.front = r.front /\ s.buf = r.buf
      /\ s.rear = Wrap(r.rear + n, r.cap)
  BY <1>4 DEF RingRight
<1>6. PICK c \in Nat, f \in Nat, e \in Nat :
        c = r.cap /\ f = r.front /\ e = r.rear /\ f < c /\ e < c
  BY DEF RingRight, Indices
<1>7. PICK x \in Int : x = s.rear /\ x = IF e + n < c THEN e + n ELSE e + n - c
  BY <1>5, <1>6 DEF Wrap
<1>8. PICK u \in Int : u = Used(r) /\ u = IF e >= f THEN e - f ELSE c - (f - e)
  BY <1>6 DEF Used
<1>9. Used(s) = IF x >= f THEN x - f ELSE c - (f - x)
  BY <1>5, <1>6, <1>7 DEF Used
<1>10. n \in 0 .. c - 1 - u
  BY <1>6, <1>8
<1>11. x \in 0 .. c - 1 /\ Used(s) = u + n
  BY ONLY <1>6, <1>7, <1>8, <1>9, <1>10
<1>12. RingRight(s)
  BY <1>5, <1>6, <1>7, <1>11 DEF RingRight, Indices
<1>13. QED BY <1>3, <1>4, <1>5, <1>8, <1>11, <1>12 DEF RearMovedBy

FrontMovedBy(r, n, s) ==
  /\ RingRight(s) /\ Used(s) = Used(r) - n
  /\ s.cap = r.cap /\ s.rear = r.rear /\ s.buf = r.buf
  /\ s.front = Wrap(r.front + n, r.cap)

LEMMA FrontMoved ==
  ASSUME NEW r, RingRight(r), NEW n \in 0 .. Used(r)
  PROVE  FrontMovedBy(r, n, MoveFront(r, n))
<1>1. (r.front + n) % r.cap = Wrap(r.front + n, r.cap)
  <2>1. r.front + n \in 0 .. 2 * r.cap - 1
    BY SizesRight DEF RingRight, Indices
  <2>2. QED BY <2>1, ModWrap DEF RingRight
<1>2. ~(GetUseSize(r) < n)
  BY SizesRight DEF RingRight
<1>3. MoveFront(r, n) = [r EXCEPT !.front = Wrap(r.front + n, r.cap)]
  BY <1>1, <1>2 DEF MoveFront
<1>4. PICK s : s = [r EXCEPT !.front = Wrap(r.front + n, r.cap)]
  OBVIOUS
<1>5. /\ s = [cap |-> r.cap, front |-> Wrap(r.front + n, r.cap), rear |-> r.rear, buf |-> r.buf]
      /\ s.cap = r.cap /\ s.rear = r.rear /\ s.buf = r.buf
      /\ s.front = Wrap(r.front + n, r.cap)
  BY <1>4 DEF RingRight
<1>6. PICK c \in Nat, f \in Nat, e \in Nat :
        c = r.cap /\ f = r.front /\ e = r.rear /\ f < c /\ e < c
  BY DEF RingRight, Indices
<1>7. PICK x \in Int : x = s.front /\ x = IF f + n < c THEN f + n ELSE f + n - c
  BY <1>5, <1>6 DEF Wrap
<1>8. PICK u \in Int : u = Used(r) /\ u = IF e >= f THEN e - f ELSE c - (f - e)
  BY <1>6 DEF Used
<1>9. Used(s) = IF e >= x THEN e - x ELSE c - (x - e)
  BY <1>5, <1>6, <1>7 DEF Used
<1>10. n \in 0 .. u
  BY <1>6, <1>8
<1>11. x \in 0 .. c - 1 /\ Used(s) = u - n
  BY ONLY <1>6, <1>7, <1>8, <1>9, <1>10
<1>12. RingRight(s)
  BY <1>5, <1>6, <1>7, <1>11 DEF RingRight, Indices
<1>13. QED BY <1>3, <1>4, <1>5, <1>8, <1>11, <1>12 DEF FrontMovedBy

(* The direct sizes end where the array does, or where there is no more.    *)
LEMMA DirectRight ==
  ASSUME NEW r, RingRight(r)
  PROVE  /\ DirectEnqueueSize(r) \in 0 .. r.cap - 1 - Used(r)
         /\ r.rear + DirectEnqueueSize(r) <= r.cap
         /\ DirectEnqueueSize(r) < r.cap - 1 - Used(r) => r.rear + DirectEnqueueSize(r) = r.cap
         /\ DirectDequeueSize(r) \in 0 .. Used(r)
         /\ r.front + DirectDequeueSize(r) <= r.cap
         /\ DirectDequeueSize(r) < Used(r) => r.front + DirectDequeueSize(r) = r.cap
<1>1. IsFull(r) <=> Used(r) = r.cap - 1
  BY SizesRight
<1>2. PICK c \in Nat, f \in Nat, e \in Nat :
        c = r.cap /\ f = r.front /\ e = r.rear /\ f < c /\ e < c
  BY DEF RingRight, Indices
<1>3. PICK u \in Int : u = Used(r) /\ u = IF e >= f THEN e - f ELSE c - (f - e)
  BY <1>2 DEF Used
<1>4. PICK k \in Int :
        /\ k = DirectEnqueueSize(r)
        /\ k = IF u = c - 1 THEN 0
               ELSE IF e < f THEN f - e - 1 ELSE IF f = 0 THEN c - e - 1 ELSE c - e
  BY <1>1, <1>2, <1>3 DEF DirectEnqueueSize
<1>5. PICK l \in Int : l = DirectDequeueSize(r) /\ l = IF e >= f THEN e - f ELSE c - f
  BY <1>2 DEF DirectDequeueSize
<1>6. l \in 0 .. u /\ f + l <= c /\ (l < u => f + l = c)
  BY ONLY <1>2, <1>3, <1>5
<1>7. k \in 0 .. c - 1 - u /\ e + k <= c /\ (k < c - 1 - u => e + k = c)
  <2>1. CASE e < f
    <3>1. u = c - (f - e) /\ k = f - e - 1
      BY ONLY <1>2, <1>3, <1>4, <2>1
    <3>2. QED BY ONLY <1>2, <2>1, <3>1
  <2>2. CASE e >= f /\ f = 0
    <3>1. u = e /\ k = c - e - 1
      BY ONLY <1>2, <1>3, <1>4, <2>2
    <3>2. QED BY ONLY <1>2, <2>2, <3>1
  <2>3. CASE e >= f /\ f > 0
    <3>1. u = e - f /\ u # c - 1 /\ k = c - e
      BY ONLY <1>2, <1>3, <1>4, <2>3
    <3>2. QED BY ONLY <1>2, <2>3, <3>1
  <2>4. QED BY <1>2, <2>1, <2>2, <2>3
<1>8. QED BY <1>2, <1>3, <1>4, <1>5, <1>6, <1>7

(* memcpy into the ring, as far as the array goes.                          *)
WrittenAt(r, at, d, w) ==
  /\ RingRight(w)
  /\ w.cap = r.cap /\ w.front = r.front /\ w.rear = r.rear /\ Used(w) = Used(r)
  /\ \A i \in 1 .. Len(d) : w.buf[at + i - 1] = d[i]
  /\ \A x \in Indices(r) : x < at \/ x >= at + Len(d) => w.buf[x] = r.buf[x]

LEMMA Written ==
  ASSUME NEW r, RingRight(r), NEW at \in Nat, NEW d \in Seq(Nat), at + Len(d) <= r.cap
  PROVE  WrittenAt(r, at, d, Write(r, at, d))
<1>0. PICK w : w = Write(r, at, d)
  OBVIOUS
<1>1. DOMAIN r.buf = Indices(r) /\ r.cap \in Nat
  BY DEF RingRight
<1>2. DOMAIN d = 1 .. Len(d) /\ Len(d) \in Nat
  BY LenProperties
<1>3. /\ w = [cap |-> r.cap, front |-> r.front, rear |-> r.rear, buf |-> w.buf]
      /\ w.cap = r.cap /\ w.front = r.front /\ w.rear = r.rear
      /\ w.buf = [x \in Indices(r) |->
                    IF x - at + 1 \in 1 .. Len(d) THEN d[x - at + 1] ELSE r.buf[x]]
  BY <1>0, <1>1, <1>2 DEF Write, RingRight
<1>4. \A i \in 1 .. Len(d) : d[i] \in Nat
  BY ElementOfSeq
<1>5. ASSUME NEW x \in Indices(r)
      PROVE  /\ w.buf[x] = IF x - at + 1 \in 1 .. Len(d) THEN d[x - at + 1] ELSE r.buf[x]
             /\ w.buf[x] \in Nat
  <2>1. r.buf[x] \in Nat
    BY DEF RingRight
  <2>2. QED BY <1>3, <1>4, <2>1
<1>6. w.buf \in [Indices(r) -> Nat]
  BY <1>3, <1>5
<1>7. RingRight(w) /\ Used(w) = Used(r)
  BY <1>3, <1>6 DEF RingRight, Indices, Used
<1>8. ASSUME NEW i \in 1 .. Len(d) PROVE w.buf[at + i - 1] = d[i]
  <2>1. at + i - 1 \in Indices(r) /\ (at + i - 1) - at + 1 = i
    BY <1>1, <1>2 DEF Indices
  <2>2. QED BY <1>5, <2>1
<1>9. ASSUME NEW x \in Indices(r), x < at \/ x >= at + Len(d) PROVE w.buf[x] = r.buf[x]
  <2>1. x - at + 1 \notin 1 .. Len(d)
    BY <1>1, <1>2, <1>9 DEF Indices
  <2>2. QED BY <1>5, <2>1
<1>10. QED BY <1>0, <1>3, <1>7, <1>8, <1>9 DEF WrittenAt

-----------------------------------------------------------------------------
(* Putting.  d is written from rear on, and from the start of the array     *)
(* once its end is reached: then the ring holds what it held and d.         *)
Filled(r, s, d, k) ==
  /\ RingRight(s) /\ s.cap = r.cap /\ s.front = r.front
  /\ s.rear = Wrap(r.rear + Len(d), r.cap)
  /\ Used(s) = Used(r) + Len(d)
  /\ \A i \in 1 .. k : s.buf[r.rear + i - 1] = d[i]
  /\ \A i \in 1 .. Len(d) - k : s.buf[i - 1] = d[k + i]
  /\ \A x \in Indices(r) : /\ x < r.rear \/ x >= r.rear + k
                           /\ x >= Len(d) - k
                           => s.buf[x] = r.buf[x]

(* Where the bytes of a ring are that were in it, and where those that come *)
(* are: capacity c, front f, rear e, u bytes in use, m to come of which k   *)
(* fit before the end of the array.                                         *)
Layout(c, f, e, u, m, k) ==
  /\ c \in Nat /\ f \in Nat /\ e \in Nat /\ f < c /\ e < c
  /\ u \in Int /\ (e >= f => u = e - f) /\ (e < f => u = c - (f - e))
  /\ m \in Nat /\ k \in Int /\ k \in 0 .. m /\ m <= c - 1 - u
  /\ e + k <= c /\ (k < m => e + k = c)

At(c, f, i, p) ==
  /\ i \in Int /\ p \in Int
  /\ f + i - 1 < c => p = f + i - 1
  /\ f + i - 1 >= c => p = f + i - 1 - c

LEMMA OldPlaces ==
  ASSUME NEW c, NEW f, NEW e, NEW u, NEW m, NEW k, Layout(c, f, e, u, m, k),
         NEW i, NEW p, At(c, f, i, p), i \in 1 .. u
  PROVE  p \in 0 .. c - 1 /\ (p < e \/ p >= e + k) /\ p >= m - k
BY DEF Layout, At

LEMMA NewPlaces ==
  ASSUME NEW c, NEW f, NEW e, NEW u, NEW m, NEW k, Layout(c, f, e, u, m, k),
         NEW i, i \in 1 .. m, NEW j, j = u + i, NEW p, At(c, f, j, p)
  PROVE  (i <= k => p = e + i - 1) /\ (i > k => p = (i - k) - 1)
BY DEF Layout, At

LEMMA FilledAppends ==
  ASSUME NEW r, RingRight(r), NEW s, NEW d \in Seq(Nat), NEW k \in 0 .. Len(d),
         Len(d) <= r.cap - 1 - Used(r),
         r.rear + k <= r.cap, k < Len(d) => r.rear + k = r.cap,
         Filled(r, s, d, k)
  PROVE  Content(s) = Content(r) \o d
<1>1. PICK c \in Nat, f \in Nat, e \in Nat :
        c = r.cap /\ f = r.front /\ e = r.rear /\ f < c /\ e < c
  BY DEF RingRight, Indices
<1>2. PICK u \in Int : u = Used(r) /\ (e >= f => u = e - f) /\ (e < f => u = c - (f - e))
  BY <1>1 DEF Used
<1>3. PICK m \in Nat : m = Len(d)
  BY LenProperties
<1>4. k \in 0 .. m /\ m <= c - 1 - u /\ e + k <= c /\ (k < m => e + k = c)
  BY <1>1, <1>2, <1>3
<1>5. u \in 0 .. c - 1
  BY ONLY <1>1, <1>2
<1>6. /\ RingRight(s) /\ s.cap = c /\ s.front = f /\ Used(s) = u + m
      /\ \A i \in 1 .. k : s.buf[e + i - 1] = d[i]
      /\ \A i \in 1 .. m - k : s.buf[i - 1] = d[k + i]
      /\ \A x \in 0 .. c - 1 : (x < e \/ x >= e + k) /\ x >= m - k => s.buf[x] = r.buf[x]
  BY <1>1, <1>2, <1>3 DEF Filled, Indices
<1>7. Layout(c, f, e, u, m, k)
  BY <1>1, <1>2, <1>3, <1>4 DEF Layout
<1>8. \A i \in Int : At(c, f, i, Place(s, i)) /\ At(c, f, i, Place(r, i))
  BY <1>1, <1>6 DEF At, Place, Wrap
<1>9. ASSUME NEW i \in 1 .. u PROVE Byte(s, i) = Byte(r, i)
  <2>1. PICK p : p = Place(r, i)
    OBVIOUS
  <2>2. Place(s, i) = p /\ At(c, f, i, p)
    BY <1>1, <1>6, <1>8, <2>1 DEF Place
  <2>3. p \in 0 .. c - 1 /\ (p < e \/ p >= e + k) /\ p >= m - k
    BY <1>7, <2>2, OldPlaces
  <2>4. s.buf[p] = r.buf[p]
    BY <1>6, <2>3
  <2>5. QED BY <2>1, <2>2, <2>4 DEF Byte
<1>10. ASSUME NEW i \in 1 .. m PROVE Byte(s, u + i) = d[i]
  <2>1. PICK j, p : j = u + i /\ p = Place(s, j)
    OBVIOUS
  <2>2. At(c, f, j, p)
    BY <1>8, <2>1
  <2>3. (i <= k => p = e + i - 1) /\ (i > k => p = (i - k) - 1)
    BY <1>7, <2>1, <2>2, NewPlaces
  <2>4. CASE i <= k
    <3>1. s.buf[e + i - 1] = d[i]
      BY <1>6, <2>4
    <3>2. QED BY <2>1, <2>3, <2>4, <3>1 DEF Byte
  <2>5. CASE i > k
    <3>1. i - k \in 1 .. m - k /\ k + (i - k) = i
      BY <1>4, <2>5
    <3>2. s.buf[(i - k) - 1] = d[i]
      BY <1>6, <3>1
    <3>3. QED BY <2>1, <2>3, <2>5, <3>2 DEF Byte
  <2>6. QED BY <1>4, <2>4, <2>5
<1>11. /\ Content(r) \in Seq(Nat) /\ Len(Content(r)) = u
      /\ \A i \in 1 .. u : Content(r)[i] = Byte(r, i)
  BY <1>2, ContentRight
<1>12. /\ Content(s) \in Seq(Nat) /\ Len(Content(s)) = u + m
       /\ \A i \in 1 .. u + m : Content(s)[i] = Byte(s, i)
  BY <1>6, ContentRight
<1>13. \A i \in 1 .. u : Content(s)[i] = Content(r)[i]
  BY <1>3, <1>5, <1>9, <1>11, <1>12
<1>14. \A i \in 1 .. m : Content(s)[u + i] = d[i]
  <2>1. \A i \in 1 .. m : u + i \in 1 .. u + m
    BY <1>3, <1>5
  <2>2. QED BY <1>10, <1>12, <2>1
<1>15. QED BY <1>3, <1>11, <1>12, <1>13, <1>14, ConcatSame

(* d in one part ...                                                        *)
LEMMA FilledAtOnce ==
  ASSUME NEW r, RingRight(r), NEW d \in Seq(Nat), Len(d) <= r.cap - 1 - Used(r),
         r.rear + Len(d) <= r.cap,
         NEW s, s = MoveRear(Write(r, r.rear, d), Len(d))
  PROVE  Filled(r, s, d, Len(d))
<1>1. PICK w : w = Write(r, r.rear, d)
  OBVIOUS
<1>2. r.rear \in Nat /\ Len(d) \in Nat /\ r.cap \in Nat /\ Used(r) \in Nat
  BY LenProperties, RingTypes
<1>3. WrittenAt(r, r.rear, d, w)
  BY <1>1, <1>2, Written
<1>4. RingRight(w) /\ Len(d) \in 0 .. w.cap - 1 - Used(w)
  BY <1>2, <1>3 DEF WrittenAt
<1>5. RearMovedBy(w, Len(d), s)
  BY <1>1, <1>4, RearMoved
<1>6. 1 .. Len(d) - Len(d) = {}
  BY <1>2
<1>7. QED BY <1>3, <1>5, <1>6 DEF Filled, WrittenAt, RearMovedBy

(* The two parts of d, and what is where after they have been written.      *)
Parts(d, k, here, there) ==
  /\ here \in Seq(Nat) /\ Len(here) = k /\ \A i \in 1 .. k : here[i] = d[i]
  /\ there \in Seq(Nat) /\ Len(there) = Len(d) - k
  /\ \A i \in 1 .. Len(d) - k : there[i] = d[k + i]

LEMMA PartsRight ==
  ASSUME NEW d \in Seq(Nat), NEW k \in Nat, k <= Len(d)
  PROVE  Parts(d, k, SubSeq(d, 1, k), SubSeq(d, k + 1, Len(d)))
<1>1. \A i \in 1 .. Len(d) : d[i] \in Nat
  BY ElementOfSeq
<1>2. PICK m \in Nat : m = Len(d)
  BY LenProperties
<1>3. PICK here, there : here = SubSeq(d, 1, k) /\ there = SubSeq(d, k + 1, m)
  OBVIOUS
<1>4. here \in Seq(Nat) /\ Len(here) = k /\ \A i \in 1 .. k : here[i] = d[i]
  BY <1>1, <1>2, <1>3
<1>5. there \in Seq(Nat) /\ Len(there) = m - k /\ \A i \in 1 .. m - k : there[i] = d[k + i]
  BY <1>1, <1>2, <1>3
<1>6. QED BY <1>2, <1>3, <1>4, <1>5 DEF Parts

TwiceWritten(r, d, k, v) ==
  /\ \A i \in 1 .. k : v.buf[r.rear + i - 1] = d[i]
  /\ \A i \in 1 .. Len(d) - k : v.buf[i - 1] = d[k + i]
  /\ \A x \in Indices(r) : /\ x < r.rear \/ x >= r.rear + k
                           /\ x >= Len(d) - k
                           => v.buf[x] = r.buf[x]

LEMMA WrittenTwice ==
  ASSUME NEW r, RingRight(r), NEW d \in Seq(Nat), NEW k \in Nat, k <= Len(d),
         Len(d) < r.cap, r.rear + k <= r.cap, k < Len(d) => r.rear + k = r.cap,
         NEW here, NEW there, Parts(d, k, here, there),
         NEW w, WrittenAt(r, r.rear, here, w),
         NEW o, o.buf = w.buf, o.cap = w.cap,
         NEW v, WrittenAt(o, 0, there, v)
  PROVE  TwiceWritten(r, d, k, v)
<1>1. PICK m \in Nat, c \in Nat, e \in Nat : m = Len(d) /\ c = r.cap /\ e = r.rear
  BY LenProperties DEF RingRight, Indices
<1>2. Indices(r) = 0 .. c - 1 /\ Indices(o) = 0 .. c - 1 /\ e < c
  BY <1>1 DEF WrittenAt, Indices, RingRight
<1>3. /\ \A i \in 1 .. k : w.buf[e + i - 1] = d[i]
      /\ \A x \in 0 .. c - 1 : x < e \/ x >= e + k => w.buf[x] = r.buf[x]
  BY <1>1, <1>2 DEF WrittenAt, Parts
<1>4. /\ \A i \in 1 .. m - k : v.buf[0 + i - 1] = d[k + i]
      /\ \A x \in 0 .. c - 1 : x < 0 \/ x >= 0 + (m - k) => v.buf[x] = w.buf[x]
  BY <1>1, <1>2 DEF WrittenAt, Parts
<1>5. ASSUME NEW i \in 1 .. k PROVE v.buf[e + i - 1] = d[i]
  <2>1. PICK x \in Int : x = e + i - 1
    BY <1>1
  <2>2. x \in 0 .. c - 1 /\ x >= m - k
    BY <1>1, <1>2, <2>1
  <2>3. w.buf[e + i - 1] = d[i]
    BY <1>3
  <2>4. v.buf[x] = w.buf[x]
    BY <1>1, <1>4, <2>2
  <2>5. QED BY <2>1, <2>3, <2>4
<1>6. ASSUME NEW i \in 1 .. m - k PROVE v.buf[i - 1] = d[k + i]
  <2>1. 0 + i - 1 = i - 1
    BY <1>1
  <2>2. QED BY <1>4, <2>1
<1>7. ASSUME NEW x \in 0 .. c - 1, x < e \/ x >= e + k, x >= m - k
      PROVE  v.buf[x] = r.buf[x]
  BY <1>1, <1>3, <1>4, <1>7
<1>8. QED BY <1>1, <1>2, <1>5, <1>6, <1>7 DEF TwiceWritten

(* ... in two, with rear moved after each ...                               *)
LEMMA FilledInTwo ==
  ASSUME NEW r, RingRight(r), NEW d \in Seq(Nat), Len(d) <= r.cap - 1 - Used(r),
         NEW k \in Nat, k < Len(d), r.rear + k = r.cap,
         NEW one, one = MoveRear(Write(r, r.rear, SubSeq(d, 1, k)), k),
         NEW s, s = MoveRear(Write(one, 0, SubSeq(d, k + 1, Len(d))), Len(d) - k)
  PROVE  Filled(r, s, d, k)
<1>1. PICK m \in Nat, l \in Nat : m = Len(d) /\ l = m - k
  BY LenProperties
<1>2. PICK here, there : here = SubSeq(d, 1, k) /\ there = SubSeq(d, k + 1, m)
  OBVIOUS
<1>3. Parts(d, k, here, there) /\ Len(there) = l
  BY <1>1, <1>2, PartsRight DEF Parts
<1>4. /\ r.rear \in Nat /\ r.cap \in Nat /\ Used(r) \in Nat /\ r.rear < r.cap
      /\ m <= r.cap - 1 - Used(r) /\ k < m /\ r.rear + k = r.cap
  BY <1>1, RingTypes
<1>5. PICK w : w = Write(r, r.rear, here)
  OBVIOUS
<1>6. WrittenAt(r, r.rear, here, w)
  <2>1. here \in Seq(Nat) /\ r.rear + Len(here) <= r.cap
    BY <1>3, <1>4 DEF Parts
  <2>2. QED BY <1>4, <1>5, <2>1, Written
<1>7. RingRight(w) /\ k \in 0 .. w.cap - 1 - Used(w)
  BY <1>4, <1>6 DEF WrittenAt
<1>8. RearMovedBy(w, k, one)
  BY <1>2, <1>5, <1>7, RearMoved
<1>9. /\ RingRight(one) /\ Used(one) = Used(r) + k
      /\ one.cap = r.cap /\ one.front = r.front /\ one.rear = 0 /\ one.buf = w.buf
  BY <1>4, <1>6, <1>8 DEF WrittenAt, RearMovedBy, Wrap
<1>10. PICK v : v = Write(one, 0, there)
  OBVIOUS
<1>11. 0 + Len(there) <= one.cap
  BY <1>1, <1>3, <1>4, <1>9
<1>12. WrittenAt(one, 0, there, v)
  BY <1>3, <1>9, <1>10, <1>11, Written DEF Parts
<1>13. RingRight(v) /\ l \in 0 .. v.cap - 1 - Used(v)
  BY <1>1, <1>4, <1>9, <1>12 DEF WrittenAt
<1>14. s = MoveRear(v, l)
  BY <1>1, <1>2, <1>10
<1>15. RearMovedBy(v, l, s)
  BY <1>13, <1>14, RearMoved
<1>16. /\ RingRight(s) /\ Used(s) = Used(r) + m
       /\ s.cap = r.cap /\ s.front = r.front /\ s.buf = v.buf
       /\ s.rear = Wrap(r.rear + m, r.cap)
  <2>1. v.cap = r.cap /\ v.front = r.front /\ v.rear = 0 /\ Used(v) = Used(r) + k
    BY <1>9, <1>12 DEF WrittenAt
  <2>2. /\ RingRight(s) /\ Used(s) = Used(v) + l
        /\ s.cap = v.cap /\ s.front = v.front /\ s.buf = v.buf /\ s.rear = Wrap(v.rear + l, v.cap)
    BY <1>15 DEF RearMovedBy
  <2>0. l = m - k
    BY <1>1
  <2>3. Wrap(0 + l, r.cap) = Wrap(r.rear + m, r.cap)
    BY ONLY <1>4, <2>0 DEF Wrap
  <2>4. Used(r) + k + l = Used(r) + m
    BY ONLY <1>4, <2>0
  <2>5. QED BY <2>1, <2>2, <2>3, <2>4
<1>17. TwiceWritten(r, d, k, v)
  <2>1. k <= Len(d) /\ Len(d) < r.cap /\ r.rear + k <= r.cap
    BY <1>1, <1>4
  <2>2. one.buf = w.buf /\ one.cap = w.cap
    BY <1>6, <1>9 DEF WrittenAt
  <2>3. QED BY <1>3, <1>6, <1>12, <2>1, <2>2, WrittenTwice
<1>18. QED BY <1>1, <1>16, <1>17 DEF Filled, TwiceWritten

(* ... and by the caller, who moves rear once.                              *)
LEMMA FilledByCaller ==
  ASSUME NEW r, RingRight(r), NEW d \in Seq(Nat), Len(d) <= r.cap - 1 - Used(r),
         NEW k \in 0 .. Len(d), r.rear + k <= r.cap, k < Len(d) => r.rear + k = r.cap,
         NEW s, s = MoveRear(Write(Write(r, r.rear, SubSeq(d, 1, k)), 0,
                                   SubSeq(d, k + 1, Len(d))), Len(d))
  PROVE  Filled(r, s, d, k)
<1>1. PICK m \in Nat, l \in Nat : m = Len(d) /\ l = m - k
  BY LenProperties
<1>2. PICK here, there : here = SubSeq(d, 1, k) /\ there = SubSeq(d, k + 1, m)
  OBVIOUS
<1>0. k \in Nat /\ k <= m
  BY <1>1
<1>3. Parts(d, k, here, there) /\ Len(there) = l
  BY <1>0, <1>1, <1>2, PartsRight DEF Parts
<1>4. /\ r.rear \in Nat /\ r.cap \in Nat /\ Used(r) \in Nat /\ r.rear < r.cap
      /\ m <= r.cap - 1 - Used(r)
  BY <1>1, RingTypes
<1>5. PICK w : w = Write(r, r.rear, here)
  OBVIOUS
<1>6. WrittenAt(r, r.rear, here, w)
  <2>1. here \in Seq(Nat) /\ r.rear + Len(here) <= r.cap
    BY <1>3, <1>4 DEF Parts
  <2>2. QED BY <1>4, <1>5, <2>1, Written
<1>7. RingRight(w) /\ w.cap = r.cap
  BY <1>6 DEF WrittenAt
<1>8. PICK v : v = Write(w, 0, there)
  OBVIOUS
<1>9. 0 + Len(there) <= w.cap
  BY <1>0, <1>1, <1>3, <1>4, <1>7
<1>10. WrittenAt(w, 0, there, v)
  BY <1>3, <1>7, <1>8, <1>9, Written DEF Parts
<1>11. RingRight(v) /\ m \in 0 .. v.cap - 1 - Used(v)
  BY <1>4, <1>6, <1>10 DEF WrittenAt
<1>12. RearMovedBy(v, m, s)
  BY <1>1, <1>2, <1>5, <1>8, <1>11, RearMoved
<1>13. TwiceWritten(r, d, k, v)
  <2>1. k <= Len(d) /\ Len(d) < r.cap
    BY <1>0, <1>1, <1>4
  <2>2. QED BY <1>0, <1>3, <1>6, <1>10, <2>1, WrittenTwice
<1>14. QED BY <1>1, <1>6, <1>10, <1>12, <1>13 DEF Filled, TwiceWritten, WrittenAt, RearMovedBy

(* Put, when d fits, appends it to what the ring holds.                     *)
Appended(r, s, d) ==
  /\ RingRight(s) /\ s.cap = r.cap /\ Used(s) = Used(r) + Len(d)
  /\ Content(s) = Content(r) \o d

LEMMA PutAppends ==
  ASSUME NEW r, RingRight(r), NEW d \in Seq(Nat), Len(d) <= r.cap - 1 - Used(r)
  PROVE  Appended(r, Put(r, d), d)
<1>1. PICK k : k = DirectEnqueueSize(r)
  OBVIOUS
<1>2. PICK m \in Nat : m = Len(d)
  BY LenProperties
<1>3. /\ k \in Nat /\ r.rear + k <= r.cap /\ m <= r.cap - 1 - Used(r)
      /\ k < r.cap - 1 - Used(r) => r.rear + k = r.cap
      /\ r.rear \in Nat /\ r.cap \in Nat /\ Used(r) \in Nat
  BY <1>1, <1>2, DirectRight, RingTypes
<1>4. PICK s : s = Put(r, d)
  OBVIOUS
<1>5. CASE k < m
  <2>1. PICK one : one = MoveRear(Write(r, r.rear, SubSeq(d, 1, k)), k)
    OBVIOUS
  <2>2. s = MoveRear(Write(one, 0, SubSeq(d, k + 1, Len(d))), Len(d) - k)
    BY <1>1, <1>2, <1>4, <1>5, <2>1 DEF Put
  <2>3. r.rear + k = r.cap
    BY ONLY <1>3, <1>5
  <2>4. Filled(r, s, d, k)
    BY <1>2, <1>3, <1>5, <2>1, <2>2, <2>3, FilledInTwo
  <2>5. k \in 0 .. Len(d)
    BY <1>2, <1>3, <1>5
  <2>6. Content(s) = Content(r) \o d
    BY <1>3, <2>3, <2>4, <2>5, FilledAppends
  <2>7. QED BY <1>4, <2>4, <2>6 DEF Appended, Filled
<1>6. CASE ~(k < m)
  <2>1. s = MoveRear(Write(r, r.rear, d), Len(d))
    BY <1>1, <1>2, <1>4, <1>6 DEF Put
  <2>2. r.rear + Len(d) <= r.cap
    <3>1. r.rear + m <= r.cap
      BY ONLY <1>3, <1>6
    <3>2. QED BY <1>2, <3>1
  <2>3. Filled(r, s, d, Len(d))
    BY <2>1, <2>2, FilledAtOnce
  <2>4. Len(d) \in 0 .. Len(d) /\ ~(Len(d) < Len(d))
    BY <1>2
  <2>5. Content(s) = Content(r) \o d
    BY <2>2, <2>3, <2>4, FilledAppends
  <2>6. QED BY <1>4, <2>3, <2>5 DEF Appended, Filled
<1>7. QED BY <1>5, <1>6

-----------------------------------------------------------------------------
(* Getting.  What is copied is the first n bytes of what the ring holds.    *)
ReadAt(r, at, n, a) ==
  a \in Seq(Nat) /\ Len(a) = n /\ \A i \in 1 .. n : a[i] = r.buf[at + i - 1]

LEMMA ReadRight ==
  ASSUME NEW r, RingRight(r), NEW at \in Nat, NEW n \in Nat, at + n <= r.cap
  PROVE  ReadAt(r, at, n, Read(r, at, n))
<1>1. r.cap \in Nat
  BY RingTypes
<1>2. \A i \in 1 .. n : r.buf[at + i - 1] \in Nat
  <2> SUFFICES ASSUME NEW i \in 1 .. n PROVE r.buf[at + i - 1] \in Nat
    OBVIOUS
  <2>1. PICK x \in Int : x = at + i - 1
    OBVIOUS
  <2>2. x \in Indices(r)
    BY <1>1, <2>1 DEF Indices
  <2>3. QED BY <2>1, <2>2 DEF RingRight
<1>3. Read(r, at, n) \in [1 .. n -> Nat]
  BY <1>2 DEF Read
<1>4. \A i \in 1 .. n : Read(r, at, n)[i] = r.buf[at + i - 1]
  BY DEF Read
<1>5. QED BY <1>3, <1>4, FunSeq DEF ReadAt

(* The first n elements of a sequence, by their values.                     *)
LEMMA FirstSame ==
  ASSUME NEW t \in Seq(Nat), NEW n \in Nat, n <= Len(t),
         NEW a \in Seq(Nat), Len(a) = n, \A i \in 1 .. n : a[i] = t[i]
  PROVE  a = SubSeq(t, 1, n)
<1>1. PICK b : b = SubSeq(t, 1, n)
  OBVIOUS
<1>2. \A i \in 1 .. Len(t) : t[i] \in Nat
  BY ElementOfSeq
<1>3. b \in Seq(Nat) /\ Len(b) = n /\ \A i \in 1 .. n : b[i] = t[i]
  BY <1>1, <1>2
<1>4. QED BY <1>1, <1>3, SameSeq

LEMMA CopiedRight ==
  ASSUME NEW r, RingRight(r), NEW n \in 0 .. Used(r)
  PROVE  Copied(r, n) = SubSeq(Content(r), 1, n)
<1>1. PICK k : k = DirectDequeueSize(r)
  OBVIOUS
<1>2. PICK c \in Nat, f \in Nat, u \in Nat :
        c = r.cap /\ f = r.front /\ u = Used(r) /\ f < c /\ u < c
  BY RingTypes
<1>3. k \in Nat /\ k <= u /\ f + k <= c /\ (k < u => f + k = c) /\ n \in Nat /\ n <= u
  BY <1>1, <1>2, DirectRight
<1>4. PICK t : t = Content(r)
  OBVIOUS
<1>5. /\ t \in Seq(Nat) /\ Len(t) = u
      /\ \A i \in 1 .. u : t[i] = r.buf[Place(r, i)]
  BY <1>2, <1>4, ContentRight DEF Byte
<1>6. PICK a : a = Copied(r, n)
  OBVIOUS
<1>7. CASE n > k
  <2>0. PICK l \in Nat, z \in Nat : l = n - k /\ z = 0
    BY <1>3, <1>7
  <2>1. PICK g, h : g = Read(r, f, k) /\ h = Read(r, z, l)
    OBVIOUS
  <2>2. a = g \o h
    BY <1>1, <1>2, <1>6, <1>7, <2>0, <2>1 DEF Copied
  <2>3. f + k = c /\ f + k <= c /\ z + l <= c
    BY ONLY <1>2, <1>3, <1>7, <2>0
  <2>4. g \in Seq(Nat) /\ Len(g) = k /\ \A i \in 1 .. k : g[i] = r.buf[f + i - 1]
    <3>1. f + k <= r.cap
      BY <1>2, <2>3
    <3>2. ReadAt(r, f, k, g)
      BY <1>2, <1>3, <2>1, <3>1, ReadRight
    <3>3. QED BY <3>2 DEF ReadAt
  <2>5. h \in Seq(Nat) /\ Len(h) = l /\ \A i \in 1 .. l : h[i] = r.buf[z + i - 1]
    <3>1. z + l <= r.cap
      BY <1>2, <2>3
    <3>2. ReadAt(r, z, l, h)
      BY <2>0, <2>1, <3>1, ReadRight
    <3>3. QED BY <3>2 DEF ReadAt
  <2>6. PICK b : b = SubSeq(t, 1, n)
    OBVIOUS
  <2>7. b \in Seq(Nat) /\ Len(b) = n /\ \A i \in 1 .. n : b[i] = t[i]
    <3>1. \A i \in 1 .. Len(t) : t[i] \in Nat
      BY <1>5, ElementOfSeq
    <3>2. QED BY <1>3, <1>5, <2>6, <3>1
  <2>8. ASSUME NEW i \in 1 .. k PROVE b[i] = g[i]
    <3>1. i \in 1 .. n /\ i \in 1 .. u
      BY <1>3, <1>7
    <3>2. Place(r, i) = f + i - 1
      BY <1>2, <1>3 DEF Place, Wrap
    <3>3. QED BY <1>5, <2>4, <2>7, <3>1, <3>2
  <2>9. ASSUME NEW i \in 1 .. l PROVE b[k + i] = h[i]
    <3>1. PICK j \in Int : j = k + i
      BY <1>3
    <3>2. j \in 1 .. n /\ j \in 1 .. u
      BY <1>3, <2>0, <3>1
    <3>3. Place(r, j) = z + i - 1
      BY <1>2, <1>3, <2>0, <2>3, <3>1 DEF Place, Wrap
    <3>4. QED BY <1>5, <2>5, <2>7, <3>1, <3>2, <3>3
  <2>10. Len(b) = Len(g) + Len(h)
    BY <1>3, <2>0, <2>4, <2>5, <2>7
  <2>11. b = g \o h
    BY <2>4, <2>5, <2>7, <2>8, <2>9, <2>10, ConcatSame
  <2>12. QED BY <1>4, <1>6, <2>2, <2>6, <2>11
<1>8. CASE ~(n > k)
  <2>1. a = Read(r, f, n)
    BY <1>1, <1>2, <1>6, <1>8 DEF Copied
  <2>2. f + n <= c
    BY ONLY <1>2, <1>3, <1>8
  <2>3. a \in Seq(Nat) /\ Len(a) = n /\ \A i \in 1 .. n : a[i] = r.buf[f + i - 1]
    <3>1. f + n <= r.cap
      BY <1>2, <2>2
    <3>2. ReadAt(r, f, n, a)
      BY <1>2, <1>3, <2>1, <3>1, ReadRight
    <3>3. QED BY <3>2 DEF ReadAt
  <2>4. ASSUME NEW i \in 1 .. n PROVE a[i] = t[i]
    <3>1. Place(r, i) = f + i - 1 /\ i \in 1 .. u
      BY <1>2, <1>3, <2>2 DEF Place, Wrap
    <3>2. QED BY <1>5, <2>3, <3>1
  <2>5. QED BY <1>3, <1>4, <1>5, <1>6, <2>3, <2>4, FirstSame
<1>9. QED BY <1>7, <1>8

(* Taken leaves the rest.                                                   *)
LEMMA TakenFront ==
  ASSUME NEW r, RingRight(r), NEW n \in 0 .. Used(r)
  PROVE  FrontMovedBy(r, n, Taken(r, n))
<1>1. PICK k : k = DirectDequeueSize(r)
  OBVIOUS
<1>2. PICK c \in Nat, f \in Nat, u \in Nat :
        c = r.cap /\ f = r.front /\ u = Used(r) /\ f < c /\ u < c
  BY RingTypes
<1>3. k \in Nat /\ k <= u /\ f + k <= c /\ (k < u => f + k = c) /\ n \in Nat /\ n <= u
  BY <1>1, <1>2, DirectRight
<1>4. CASE n > k
  <2>0. PICK o : o = MoveFront(r, k)
    OBVIOUS
  <2>1. PICK l \in Nat : l = n - k
    BY <1>3, <1>4
  <2>2. FrontMovedBy(r, k, o)
    BY <1>2, <1>3, <2>0, FrontMoved
  <2>3. f + k = c
    BY ONLY <1>2, <1>3, <1>4
  <2>4. /\ RingRight(o) /\ Used(o) = u - k
        /\ o.cap = c /\ o.rear = r.rear /\ o.buf = r.buf /\ o.front = 0
    <3>1. Wrap(f + k, c) = 0
      BY <1>2, <2>3 DEF Wrap
    <3>2. QED BY <1>2, <2>2, <3>1 DEF FrontMovedBy
  <2>5. l \in 0 .. Used(o)
    BY <1>2, <1>3, <2>1, <2>4
  <2>6. PICK s : s = MoveFront(o, l)
    OBVIOUS
  <2>7. FrontMovedBy(o, l, s)
    BY <2>4, <2>5, <2>6, FrontMoved
  <2>8. Wrap(0 + l, c) = Wrap(f + n, c)
    BY <1>2, <1>3, <2>1, <2>3 DEF Wrap
  <2>9. (u - k) - l = u - n
    BY <1>2, <1>3, <2>1
  <2>10. FrontMovedBy(r, n, s)
    BY <1>2, <2>4, <2>7, <2>8, <2>9 DEF FrontMovedBy
  <2>11. Taken(r, n) = s
    BY <1>1, <1>4, <2>0, <2>1, <2>6 DEF Taken
  <2>12. QED BY <2>10, <2>11
<1>5. CASE ~(n > k)
  <2>1. Taken(r, n) = MoveFront(r, n)
    BY <1>1, <1>5 DEF Taken
  <2>2. QED BY <2>1, FrontMoved
<1>6. QED BY <1>4, <1>5

(* Whatever moves front by n drops the first n bytes.                       *)
(* What is left of a sequence without its first n members.                  *)
LEMMA RestIs ==
  ASSUME NEW t \in Seq(Nat), NEW n \in Nat, NEW l \in Nat, n + l = Len(t)
  PROVE  LET b == SubSeq(t, n + 1, Len(t))
         IN b \in Seq(Nat) /\ Len(b) = l /\ \A i \in 1 .. l : b[i] = t[n + i]
<1>1. \A i \in 1 .. Len(t) : t[i] \in Nat
  BY ElementOfSeq
<1>2. QED BY <1>1

LEMMA FrontDrops ==
  ASSUME NEW r, RingRight(r), NEW n \in 0 .. Used(r), NEW s, FrontMovedBy(r, n, s)
  PROVE  Content(s) = SubSeq(Content(r), n + 1, Len(Content(r)))
<1>1. PICK c \in Nat, f \in Nat, u \in Nat :
        c = r.cap /\ f = r.front /\ u = Used(r) /\ f < c /\ u < c
  BY RingTypes
<1>2. PICK l \in Nat : l = u - n
  BY <1>1
<1>3. RingRight(s) /\ Used(s) = l /\ s.cap = c /\ s.buf = r.buf /\ s.front = Wrap(f + n, c)
  BY <1>1, <1>2 DEF FrontMovedBy
<1>4. PICK t, a : t = Content(r) /\ a = Content(s)
  OBVIOUS
<1>5. t \in Seq(Nat) /\ Len(t) = u /\ \A i \in 1 .. u : t[i] = r.buf[Place(r, i)]
  BY <1>1, <1>4, ContentRight DEF Byte
<1>6. a \in Seq(Nat) /\ Len(a) = l /\ \A i \in 1 .. l : a[i] = r.buf[Place(s, i)]
  BY <1>3, <1>4, ContentRight DEF Byte
<1>7. PICK b : b = SubSeq(t, n + 1, u)
  OBVIOUS
<1>8. b \in Seq(Nat) /\ Len(b) = l /\ \A i \in 1 .. l : b[i] = t[n + i]
  <2>1. t \in Seq(Nat) /\ n \in Nat /\ l \in Nat /\ n + l = Len(t) /\ u = Len(t)
    BY <1>1, <1>2, <1>5
  <2>2. QED BY ONLY <1>7, <2>1, RestIs
<1>9. ASSUME NEW i \in 1 .. l PROVE a[i] = b[i]
  <2>1. PICK j \in Int : j = n + i
    BY <1>1
  <2>2. j \in 1 .. u
    BY <1>1, <1>2, <2>1
  <2>3. Place(s, i) = Place(r, j)
    <3>1. n + i <= u
      BY <1>1, <1>2
    <3>2. Wrap(Wrap(f + n, c) + i - 1, c) = Wrap(f + j - 1, c)
      BY <1>1, <2>1, <3>1 DEF Wrap
    <3>3. QED BY <1>1, <1>3, <3>2 DEF Place
  <2>4. QED BY <1>5, <1>6, <1>8, <2>1, <2>2, <2>3
<1>10. a = b
  BY <1>6, <1>8, <1>9, SameSeq
<1>11. QED BY <1>4, <1>5, <1>7, <1>10

-----------------------------------------------------------------------------
(* Making, growing and clearing a ring.                                     *)
LEMMA EmptyContent ==
  ASSUME NEW r, RingRight(r), r.front = 0, r.rear = 0
  PROVE  Used(r) = 0 /\ Content(r) = <<>>
<1>1. Used(r) = 0
  BY DEF Used
<1>2. Content(r) \in Seq(Nat) /\ Len(Content(r)) = 0
  BY <1>1, ContentRight
<1>3. QED BY <1>1, <1>2, EmptySeq

LEMMA NewRight ==
  ASSUME NEW c \in Nat \ {0}
  PROVE  /\ RingRight(NewRing(c))
         /\ NewRing(c).cap = c /\ NewRing(c).front = 0 /\ NewRing(c).rear = 0
<1>1. 0 \in 0 .. c - 1
  OBVIOUS
<1>2. QED BY <1>1 DEF NewRing, RingRight, Indices

LEMMA ResizeKeeps ==
  ASSUME NEW r, RingRight(r), NEW c \in Nat \ {0}, c >= r.cap
  PROVE  /\ RingRight(Resize(r, c)) /\ Resize(r, c).cap = c
         /\ Content(Resize(r, c)) = Content(r)
<1>1. PICK n : n = Used(r)
  OBVIOUS
<1>2. PICK t : t = Content(r)
  OBVIOUS
<1>3. n \in Nat /\ n < r.cap /\ r.cap \in Nat /\ n < c
  BY <1>1, RingTypes
<1>4. t \in Seq(Nat) /\ Len(t) = n
  BY <1>1, <1>2, ContentRight
<1>5. Copied(r, n) = t
  <2>1. n \in 0 .. Used(r)
    BY <1>1, <1>3
  <2>2. Copied(r, n) = SubSeq(t, 1, n)
    BY <1>2, <2>1, CopiedRight
  <2>3. SubSeq(t, 1, Len(t)) = t
    BY <1>4, SubSeqFull
  <2>4. QED BY <1>4, <2>2, <2>3
<1>6. PICK o, w, z : o = NewRing(c) /\ z = 0 /\ w = Write(o, z, t)
  OBVIOUS
<1>7. RingRight(o) /\ o.cap = c /\ o.front = 0 /\ o.rear = 0
  BY <1>6, NewRight
<1>8. WrittenAt(o, z, t, w)
  <2>1. z \in Nat /\ z + Len(t) <= o.cap
    BY <1>3, <1>4, <1>6, <1>7
  <2>2. QED BY <1>4, <1>6, <1>7, <2>1, Written
<1>9. PICK s : s = [w EXCEPT !.rear = n]
  OBVIOUS
<1>10. Resize(r, c) = s
  <2>1. GetUseSize(r) = n /\ ~(c < r.cap)
    BY <1>1, <1>3, SizesRight
  <2>2. QED BY <1>5, <1>6, <1>9, <2>1 DEF Resize
<1>11. /\ s = [cap |-> s.cap, front |-> s.front, rear |-> s.rear, buf |-> s.buf]
       /\ s.cap = c /\ s.front = 0 /\ s.rear = n /\ s.buf = w.buf
  BY <1>7, <1>8, <1>9 DEF WrittenAt, RingRight
<1>12. RingRight(s)
  <2>1. Indices(s) = Indices(w) /\ Indices(s) = 0 .. c - 1
    BY <1>7, <1>8, <1>11 DEF WrittenAt, Indices
  <2>2. w.buf \in [Indices(w) -> Nat]
    BY <1>8 DEF WrittenAt, RingRight
  <2>3. n \in 0 .. c - 1 /\ 0 \in 0 .. c - 1
    BY <1>3
  <2>4. QED BY <1>11, <2>1, <2>2, <2>3 DEF RingRight
<1>13. Used(s) = n
  BY <1>3, <1>11 DEF Used
<1>14. Content(s) = t
  <2>1. PICK a : a = Content(s)
    OBVIOUS
  <2>2. a \in Seq(Nat) /\ Len(a) = n /\ \A i \in 1 .. n : a[i] = s.buf[Place(s, i)]
    BY <1>12, <1>13, <2>1, ContentRight DEF Byte
  <2>3. ASSUME NEW i \in 1 .. n PROVE a[i] = t[i]
    <3>1. Place(s, i) = z + i - 1
      BY <1>3, <1>6, <1>11 DEF Place, Wrap
    <3>2. w.buf[z + i - 1] = t[i]
      BY <1>4, <1>8 DEF WrittenAt
    <3>3. QED BY <1>11, <2>2, <3>1, <3>2
  <2>4. QED BY <1>4, <2>1, <2>2, <2>3, SameSeq
<1>15. QED BY <1>2, <1>10, <1>11, <1>12, <1>14

LEMMA ClearRight ==
  ASSUME NEW r, RingRight(r)
  PROVE  /\ RingRight(ClearBuffer(r)) /\ ClearBuffer(r).cap = r.cap
         /\ Content(ClearBuffer(r)) = <<>>
<1>1. PICK s : s = ClearBuffer(r)
  OBVIOUS
<1>2. s = [cap |-> r.cap, front |-> 0, rear |-> 0, buf |-> r.buf]
  BY <1>1 DEF ClearBuffer, RingRight
<1>3. 0 \in Indices(r)
  BY DEF RingRight, Indices
<1>4. RingRight(s)
  BY <1>2, <1>3 DEF RingRight, Indices
<1>5. QED BY <1>1, <1>2, <1>4, EmptyContent

-----------------------------------------------------------------------------
(* The calls, one by one.  u bytes are in use and v are free.               *)
Sizes(u, v) ==
  /\ u \in Nat /\ v \in Nat /\ ring.cap \in Nat /\ ring.cap - 1 = u + v
  /\ Used(ring) = u /\ GetUseSize(ring) = u /\ GetFreeSize(ring) = v
  /\ Content(ring) \in Seq(Nat) /\ Len(Content(ring)) = u

LEMMA SizesExist ==
  ASSUME RingRight(ring)
  PROVE  \E u, v : Sizes(u, v)
<1>1. PICK u, v : u = Used(ring) /\ v = ring.cap - 1 - Used(ring)
  OBVIOUS
<1>2. /\ u \in Nat /\ ring.cap \in Nat /\ u < ring.cap
      /\ GetUseSize(ring) = u /\ GetFreeSize(ring) = v
  BY <1>1, RingTypes, SizesRight
<1>3. v \in Nat /\ ring.cap - 1 = u + v
  BY <1>1, <1>2
<1>4. Content(ring) \in Seq(Nat) /\ Len(Content(ring)) = u
  BY <1>1, ContentRight
<1>5. Sizes(u, v)
  BY <1>1, <1>2, <1>3, <1>4 DEF Sizes
<1>6. QED BY <1>5

LEMMA EnqueueStep ==
  ASSUME RingRight(ring), NEW d \in Data, CallEnqueue(d)
  PROVE  RingRight(ring)' /\ (Queue!Put(d) \/ Queue!PutSome(d))
<1>1. PICK u, v : Sizes(u, v)
  BY SizesExist
<1>2. PICK m \in Nat : m = Len(d) /\ d \in Seq(Nat)
  BY CallsAssumption, LenProperties
<1>3. PICK b : b = Content(ring)
  OBVIOUS
<1>4. ASSUME NEW e \in Seq(Nat), Len(e) <= v, ring' = Put(ring, e)
      PROVE  RingRight(ring') /\ ring'.cap = ring.cap /\ Used(ring') = u + Len(e)
             /\ Content(ring') = b \o e
  <2>1. Len(e) <= ring.cap - 1 - Used(ring)
    BY <1>1, <1>4 DEF Sizes
  <2>2. Appended(ring, ring', e)
    BY <1>4, <2>1, PutAppends
  <2>3. QED BY <1>1, <1>3, <2>2 DEF Appended, Sizes
<1>5. CASE /\ ring' = EnqueueRetBool(ring, d)
           /\ answer' = <<Ok(GetFreeSize(ring) >= Len(d)), <<>>>>
  <2>1. CASE m <= v
    <3>1. ring' = Put(ring, d) /\ answer' = <<1, <<>>>>
      BY <1>1, <1>2, <1>5, <2>1 DEF EnqueueRetBool, Sizes, Ok
    <3>2. RingRight(ring') /\ ring'.cap = ring.cap /\ Content(ring') = b \o d
      BY <1>2, <1>4, <2>1, <3>1
    <3>3. Len(b) + Len(d) <= ring.cap - 1 /\ ~(Len(b) + Len(d) > ring.cap - 1)
      BY <1>1, <1>2, <1>3, <2>1 DEF Sizes
    <3>4. QED BY <1>3, <3>1, <3>2, <3>3 DEF Queue!Put, Queue!Ok
  <2>2. CASE m > v
    <3>1. ring' = ring /\ answer' = <<0, <<>>>>
      BY <1>1, <1>2, <1>5, <2>2 DEF EnqueueRetBool, Sizes, Ok
    <3>2. ~(Len(b) + Len(d) <= ring.cap - 1) /\ Len(b) + Len(d) > ring.cap - 1
      BY <1>1, <1>2, <1>3, <2>2 DEF Sizes
    <3>3. QED BY <1>3, <3>1, <3>2 DEF Queue!Put, Queue!Ok
  <2>3. QED BY <1>1, <1>2, <2>1, <2>2 DEF Sizes
<1>6. CASE /\ ring' = Enqueue(ring, d)
           /\ answer' = <<GetFreeSize(ring) - GetFreeSize(ring'), <<>>>>
  <2>1. PICK n \in Nat : n = Queue!Lesser(m, v) /\ n <= m /\ n <= v
                         /\ n = IF v < m THEN v ELSE m
    BY <1>1, <1>2 DEF Queue!Lesser, Sizes
  <2>2. PICK e : e = SubSeq(d, 1, n)
    OBVIOUS
  <2>3. e \in Seq(Nat) /\ Len(e) = n
    <3>1. \A i \in 1 .. Len(d) : d[i] \in Nat
      BY <1>2, ElementOfSeq
    <3>2. QED BY <1>2, <2>1, <2>2, <3>1
  <2>4. ring' = Put(ring, e)
    BY <1>1, <1>2, <1>6, <2>1, <2>2 DEF Enqueue, Sizes
  <2>5. RingRight(ring') /\ ring'.cap = ring.cap /\ Used(ring') = u + n
        /\ Content(ring') = b \o e
    BY <1>4, <2>1, <2>3, <2>4
  <2>6. GetFreeSize(ring') = v - n
    <3>1. GetFreeSize(ring') = ring'.cap - 1 - Used(ring')
      BY <2>5, SizesRight
    <3>2. QED BY <1>1, <2>1, <2>5, <3>1 DEF Sizes
  <2>7. answer' = <<n, <<>>>>
    BY <1>1, <1>6, <2>1, <2>6 DEF Sizes
  <2>8. ring.cap - 1 - Len(b) = v
    BY <1>1, <1>3 DEF Sizes
  <2>9. QED BY <1>2, <1>3, <2>1, <2>2, <2>5, <2>7, <2>8 DEF Queue!PutSome
<1>7. QED BY <1>5, <1>6 DEF CallEnqueue

LEMMA MoveRearStep ==
  ASSUME RingRight(ring), NEW d \in Data, CallMoveRear(d)
  PROVE  RingRight(ring)' /\ Queue!Put(d)
<1>1. PICK u, v : Sizes(u, v)
  BY SizesExist
<1>2. PICK m \in Nat : m = Len(d) /\ d \in Seq(Nat)
  BY CallsAssumption, LenProperties
<1>3. PICK b : b = Content(ring)
  OBVIOUS
<1>4. PICK k : k = IF DirectEnqueueSize(ring) < m THEN DirectEnqueueSize(ring) ELSE m
  OBVIOUS
<1>5. PICK s : s = ring'
  OBVIOUS
<1>6. /\ m <= v /\ answer' = <<1, <<>>>>
      /\ s = MoveRear(Write(Write(ring, ring.rear, SubSeq(d, 1, k)), 0,
                            SubSeq(d, k + 1, Len(d))), Len(d))
  BY <1>1, <1>2, <1>4, <1>5 DEF CallMoveRear, Sizes
<1>7. k \in 0 .. m /\ ring.rear + k <= ring.cap /\ (k < m => ring.rear + k = ring.cap)
  <2>1. PICK l : l = DirectEnqueueSize(ring)
    OBVIOUS
  <2>2. /\ l \in Nat /\ l <= v /\ ring.rear + l <= ring.cap
        /\ l < v => ring.rear + l = ring.cap
        /\ ring.rear \in Nat /\ ring.cap \in Nat
    <3>1. ring.cap - 1 - Used(ring) = v
      BY <1>1 DEF Sizes
    <3>2. l \in 0 .. v /\ (l < v => ring.rear + l = ring.cap) /\ ring.rear + l <= ring.cap
      BY <2>1, <3>1, DirectRight
    <3>3. QED BY <1>1, <3>2, RingTypes DEF Sizes
  <2>3. k = IF l < m THEN l ELSE m
    BY <1>4, <2>1
  <2>4. QED BY <1>1, <1>2, <1>6, <2>2, <2>3 DEF Sizes
<1>8. Len(d) <= ring.cap - 1 - Used(ring)
  BY <1>1, <1>2, <1>6 DEF Sizes
<1>9. k \in 0 .. Len(d) /\ (k < Len(d) => ring.rear + k = ring.cap) /\ ring.rear + k <= ring.cap
  BY <1>2, <1>7
<1>10. Filled(ring, s, d, k)
  BY <1>2, <1>6, <1>8, <1>9, FilledByCaller
<1>11. Content(s) = b \o d
  BY <1>2, <1>3, <1>8, <1>9, <1>10, FilledAppends
<1>12. RingRight(s) /\ s.cap = ring.cap
  BY <1>10 DEF Filled
<1>13. Len(b) + Len(d) <= ring.cap - 1 /\ ~(Len(b) + Len(d) > ring.cap - 1)
  BY <1>1, <1>2, <1>3, <1>6 DEF Sizes
<1>14. QED BY <1>3, <1>5, <1>6, <1>11, <1>12, <1>13 DEF Queue!Put, Queue!Ok

(* What Dequeue and Peek hand out and what Taken and MoveFront leave.       *)
LEMMA Removal ==
  ASSUME RingRight(ring), NEW u, NEW v, Sizes(u, v), NEW n \in Nat, n <= u
  PROVE  /\ Copied(ring, n) = SubSeq(Content(ring), 1, n)
         /\ \A s \in {Taken(ring, n), MoveFront(ring, n)} :
              /\ RingRight(s) /\ s.cap = ring.cap
              /\ Content(s) = SubSeq(Content(ring), n + 1, Len(Content(ring)))
<1>1. n \in 0 .. Used(ring)
  BY DEF Sizes
<1>2. FrontMovedBy(ring, n, Taken(ring, n)) /\ FrontMovedBy(ring, n, MoveFront(ring, n))
  BY <1>1, TakenFront, FrontMoved
<1>3. \A s : FrontMovedBy(ring, n, s) =>
        /\ RingRight(s) /\ s.cap = ring.cap
        /\ Content(s) = SubSeq(Content(ring), n + 1, Len(Content(ring)))
  BY <1>1, FrontDrops DEF FrontMovedBy
<1>4. QED BY <1>1, <1>2, <1>3, CopiedRight

LEMMA DequeueStep ==
  ASSUME RingRight(ring), NEW n \in 0 .. ring.cap, CallDequeue(n)
  PROVE  RingRight(ring)' /\ (Queue!Get(n, FALSE) \/ Queue!GetSome(n, FALSE))
<1>1. PICK u, v : Sizes(u, v)
  BY SizesExist
<1>2. PICK b : b = Content(ring)
  OBVIOUS
<1>3. n \in Nat /\ u \in Nat /\ Len(b) = u /\ GetUseSize(ring) = u
  BY <1>1, <1>2 DEF Sizes
<1>4. CASE /\ ring' = DequeueRetBool(ring, n)
           /\ answer' = <<Ok(GetUseSize(ring) >= n), PeekRetBool(ring, n)>>
  <2>1. CASE n <= u
    <3>1. ring' = Taken(ring, n) /\ answer' = <<1, Copied(ring, n)>>
      BY <1>3, <1>4, <2>1 DEF DequeueRetBool, PeekRetBool, Ok
    <3>2. /\ Copied(ring, n) = SubSeq(b, 1, n)
          /\ RingRight(ring') /\ ring'.cap = ring.cap
          /\ Content(ring') = SubSeq(b, n + 1, Len(b))
      BY <1>1, <1>2, <1>3, <2>1, <3>1, Removal
    <3>3. ~(n > Len(b))
      BY <1>3, <2>1
    <3>4. QED BY <1>2, <3>1, <3>2, <3>3 DEF Queue!Get, Queue!First, Queue!Rest
  <2>2. CASE n > u
    <3>1. ring' = ring /\ answer' = <<0, <<>>>>
      BY <1>3, <1>4, <2>2 DEF DequeueRetBool, PeekRetBool, Ok
    <3>2. n > Len(b)
      BY <1>3, <2>2
    <3>3. QED BY <1>2, <3>1, <3>2 DEF Queue!Get
  <2>3. n <= u \/ n > u
    BY <1>3
  <2>4. QED BY <2>1, <2>2, <2>3
<1>5. CASE /\ ring' = Taken(ring, Given(ring, n))
           /\ answer' = <<Given(ring, n), Copied(ring, Given(ring, n))>>
  <2>1. PICK m \in Nat : m = Given(ring, n) /\ m = Queue!Lesser(n, u) /\ m <= u
    BY <1>3 DEF Given, Queue!Lesser
  <2>2. /\ Copied(ring, m) = SubSeq(b, 1, m)
        /\ RingRight(ring') /\ ring'.cap = ring.cap
        /\ Content(ring') = SubSeq(b, m + 1, Len(b))
    BY <1>1, <1>2, <1>5, <2>1, Removal
  <2>3. QED BY <1>2, <1>3, <1>5, <2>1, <2>2 DEF Queue!GetSome, Queue!First, Queue!Rest
<1>6. QED BY <1>4, <1>5 DEF CallDequeue

LEMMA PeekStep ==
  ASSUME RingRight(ring), NEW n \in 0 .. ring.cap, CallPeek(n)
  PROVE  RingRight(ring)' /\ (Queue!Get(n, TRUE) \/ Queue!GetSome(n, TRUE))
<1>1. PICK u, v : Sizes(u, v)
  BY SizesExist
<1>2. PICK b : b = Content(ring)
  OBVIOUS
<1>3. n \in Nat /\ u \in Nat /\ Len(b) = u /\ GetUseSize(ring) = u
  BY <1>1, <1>2 DEF Sizes
<1>4. ring' = ring
  BY DEF CallPeek
<1>5. CASE answer' = <<Ok(GetUseSize(ring) >= n), PeekRetBool(ring, n)>>
  <2>1. CASE n <= u
    <3>1. answer' = <<1, SubSeq(b, 1, n)>>
      BY <1>1, <1>2, <1>3, <1>5, <2>1, Removal DEF PeekRetBool, Ok
    <3>2. ~(n > Len(b))
      BY <1>3, <2>1
    <3>3. QED BY <1>2, <1>4, <3>1, <3>2 DEF Queue!Get, Queue!First
  <2>2. CASE n > u
    <3>1. answer' = <<0, <<>>>> /\ n > Len(b)
      BY <1>3, <1>5, <2>2 DEF PeekRetBool, Ok
    <3>2. QED BY <1>2, <1>4, <3>1 DEF Queue!Get
  <2>3. n <= u \/ n > u
    BY <1>3
  <2>4. QED BY <2>1, <2>2, <2>3
<1>6. CASE answer' = <<Given(ring, n), Copied(ring, Given(ring, n))>>
  <2>1. PICK m \in Nat : m = Given(ring, n) /\ m = Queue!Lesser(n, u) /\ m <= u
    BY <1>3 DEF Given, Queue!Lesser
  <2>2. Copied(ring, m) = SubSeq(b, 1, m)
    BY <1>1, <1>2, <2>1, Removal
  <2>3. QED BY <1>2, <1>3, <1>4, <1>6, <2>1, <2>2 DEF Queue!GetSome, Queue!First
<1>7. QED BY <1>4, <1>5, <1>6 DEF CallPeek

LEMMA MoveFrontStep ==
  ASSUME RingRight(ring), NEW n \in 0 .. ring.cap, CallMoveFront(n)
  PROVE  RingRight(ring)' /\ Queue!Skip(n)
<1>1. PICK u, v : Sizes(u, v)
  BY SizesExist
<1>2. PICK b : b = Content(ring)
  OBVIOUS
<1>3. n \in Nat /\ u \in Nat /\ Len(b) = u /\ GetUseSize(ring) = u
  BY <1>1, <1>2 DEF Sizes
<1>4. CASE n <= u
  <2>1. /\ RingRight(ring') /\ ring'.cap = ring.cap
        /\ Content(ring') = SubSeq(b, n + 1, Len(b))
    BY <1>1, <1>2, <1>3, <1>4, Removal DEF CallMoveFront
  <2>2. answer' = <<1, <<>>>> /\ n <= Len(b) /\ ~(n > Len(b))
    BY <1>3, <1>4 DEF CallMoveFront, Ok
  <2>3. QED BY <1>2, <2>1, <2>2 DEF Queue!Skip, Queue!Ok, Queue!Rest
<1>5. CASE n > u
  <2>1. ring' = ring /\ answer' = <<0, <<>>>> /\ n > Len(b) /\ ~(n <= Len(b))
    BY <1>3, <1>5 DEF CallMoveFront, MoveFront, Ok
  <2>2. QED BY <1>2, <2>1 DEF Queue!Skip, Queue!Ok
<1>6. QED BY <1>3, <1>4, <1>5

LEMMA ResizeStep ==
  ASSUME RingRight(ring), NEW c \in Capacities, CallResize(c)
  PROVE  RingRight(ring)' /\ Queue!Grow(c - 1)
<1>1. c \in Nat \ {0} /\ c \in Nat /\ ring.cap \in Nat
  BY CallsAssumption, RingTypes
<1>2. CASE c < ring.cap
  <2>1. ring' = ring /\ answer' = <<0, <<>>>>
    BY <1>1, <1>2 DEF CallResize, Resize, Ok
  <2>2. c - 1 < ring.cap - 1 /\ ~(c - 1 >= ring.cap - 1)
    BY <1>1, <1>2
  <2>3. QED BY <2>1, <2>2 DEF Queue!Grow, Queue!Ok
<1>3. CASE c >= ring.cap
  <2>1. RingRight(ring') /\ ring'.cap = c /\ Content(ring') = Content(ring)
    BY <1>1, <1>3, ResizeKeeps DEF CallResize
  <2>2. answer' = <<1, <<>>>>
    BY <1>1, <1>3 DEF CallResize, Ok
  <2>3. ~(c - 1 < ring.cap - 1) /\ c - 1 >= ring.cap - 1
    BY <1>1, <1>3
  <2>4. QED BY <2>1, <2>2, <2>3 DEF Queue!Grow, Queue!Ok
<1>4. QED BY <1>1, <1>2, <1>3

LEMMA ClearStep ==
  ASSUME RingRight(ring), CallClearBuffer
  PROVE  RingRight(ring)' /\ Queue!Empty
BY ClearRight DEF CallClearBuffer, Queue!Empty

LEMMA InitQueue == Init => RingRight(ring) /\ Queue!Init
<1> SUFFICES ASSUME Init PROVE RingRight(ring) /\ Queue!Init OBVIOUS
<1>1. PICK c \in Capacities : ring = NewRing(c)
  BY DEF Init
<1>2. c \in Nat \ {0}
  BY CallsAssumption
<1>3. RingRight(ring) /\ ring.cap = c /\ ring.front = 0 /\ ring.rear = 0
  BY <1>1, <1>2, NewRight
<1>4. Content(ring) = <<>>
  BY <1>3, EmptyContent
<1>5. QED BY <1>3, <1>4 DEF Init, Queue!Init

LEMMA StepQueue ==
  RingRight(ring) /\ [Next]_vars => RingRight(ring)' /\ [Queue!Next]_(Queue!vars)
<1> SUFFICES ASSUME RingRight(ring), [Next]_vars
             PROVE  RingRight(ring)' /\ [Queue!Next]_(Queue!vars)
  OBVIOUS
<1>1. ring.cap - 1 + 1 = ring.cap
  BY RingTypes
<1>2. ASSUME NEW d \in Data, CallEnqueue(d) \/ CallMoveRear(d)
      PROVE  RingRight(ring)' /\ Queue!Next
  BY <1>2, EnqueueStep, MoveRearStep DEF Queue!Next
<1>3. ASSUME NEW n \in 0 .. ring.cap, CallDequeue(n) \/ CallPeek(n) \/ CallMoveFront(n)
      PROVE  RingRight(ring)' /\ Queue!Next
  <2>1. n \in 0 .. ring.cap - 1 + 1
    BY <1>1
  <2>2. TRUE \in BOOLEAN /\ FALSE \in BOOLEAN
    OBVIOUS
  <2>3. CASE CallDequeue(n)
    BY <2>1, <2>2, <2>3, DequeueStep DEF Queue!Next
  <2>4. CASE CallPeek(n)
    BY <2>1, <2>2, <2>4, PeekStep DEF Queue!Next
  <2>5. CASE CallMoveFront(n)
    BY <2>1, <2>5, MoveFrontStep DEF Queue!Next
  <2>6. QED BY <1>3, <2>3, <2>4, <2>5
<1>4. ASSUME NEW c \in Capacities, CallResize(c)
      PROVE  RingRight(ring)' /\ Queue!Next
  <2>1. c - 1 \in {x - 1 : x \in Capacities}
    OBVIOUS
  <2>2. QED BY <1>4, <2>1, ResizeStep DEF Queue!Next
<1>5. CASE CallClearBuffer
  BY <1>5, ClearStep DEF Queue!Next
<1>6. CASE UNCHANGED vars
  BY <1>6 DEF vars, Queue!vars
<1>7. QED BY <1>2, <1>3, <1>4, <1>5, <1>6 DEF Next

(* The indices of a ring are below its capacity and its bytes are bytes,    *)
(* whatever the calls and the capacities.                                   *)
THEOREM RingStaysRight == Spec => []RingRight(ring)
BY InitQueue, StepQueue, PTL DEF Spec

(* A RingBuffer is a bounded queue of bytes: for any capacities and data,   *)
(* with every wrap and every growth, what is put comes out once, in order,  *)
(* and the answers of the calls say how much was put or handed out.         *)
THEOREM RingIsQueue == Spec => ImplementsQueue
BY InitQueue, StepQueue, PTL DEF Spec, ImplementsQueue, Queue!Spec

-----------------------------------------------------------------------------
(* The packets of the stream.  A field has one of these types.              *)
FieldTypes == {"b", "h", "f", "q", "c", "name", "ip"}

(* Rows of the same kind have the same fields, which are such types.        *)
TableRight(table) ==
  /\ \A r, s \in table : r[1] = s[1] => r = s
  /\ \A r \in table : r = <<r[1], r[2]>> /\ r[2] \in Seq(FieldTypes)

LEMMA TimesRight ==
  ASSUME NEW n \in Nat, NEW fs \in Seq(FieldTypes)
  PROVE  Times(n, fs) \in Seq(FieldTypes)
<1>1. Len(fs) \in Nat /\ \A i \in 1 .. Len(fs) : fs[i] \in FieldTypes
  BY LenProperties, ElementOfSeq
<1>2. PICK m : m = n * Len(fs)
  OBVIOUS
<1>3. m \in Nat
  BY <1>1, <1>2
<1>4. ASSUME NEW j \in 1 .. m PROVE ((j - 1) % Len(fs)) + 1 \in 1 .. Len(fs)
  <2>1. Len(fs) > 0
    <3>1. CASE Len(fs) = 0 BY <1>2, <1>4, <3>1
    <3>2. QED BY <1>1, <3>1
  <2>2. QED BY <1>1, <2>1
<1>5. Times(n, fs) \in [1 .. m -> FieldTypes]
  BY <1>1, <1>2, <1>4 DEF Times
<1>6. QED BY <1>3, <1>5

LEMMA PartsTyped ==
  ASSUME NEW n \in Nat
  PROVE  /\ Vector3 \in Seq(FieldTypes) /\ RoomInfo \in Seq(FieldTypes)
         /\ Text(n) \in Seq(FieldTypes)
         /\ Times(n, RoomInfo) \in Seq(FieldTypes) /\ Times(n, <<"q">>) \in Seq(FieldTypes)
<1>1. /\ Vector3 \in Seq(FieldTypes) /\ RoomInfo \in Seq(FieldTypes)
      /\ <<"q">> \in Seq(FieldTypes) /\ <<"c">> \in Seq(FieldTypes)
  BY DEF Vector3, RoomInfo, FieldTypes
<1>2. QED BY <1>1, TimesRight DEF Text

(* The sequences of fields that are written out in the tables.              *)
LEMMA Literals ==
  /\ <<>> \in Seq(FieldTypes)
  /\ <<"b">> \in Seq(FieldTypes)
  /\ <<"f">> \in Seq(FieldTypes)
  /\ <<"h">> \in Seq(FieldTypes)
  /\ <<"q">> \in Seq(FieldTypes)
  /\ <<"name">> \in Seq(FieldTypes)
  /\ <<"b", "h">> \in Seq(FieldTypes)
  /\ <<"b", "q">> \in Seq(FieldTypes)
  /\ <<"h", "h">> \in Seq(FieldTypes)
  /\ <<"q", "h">> \in Seq(FieldTypes)
  /\ <<"q", "q">> \in Seq(FieldTypes)
  /\ <<"h", "name">> \in Seq(FieldTypes)
  /\ <<"h", "h", "h">> \in Seq(FieldTypes)
  /\ <<"ip", "h", "h", "q">> \in Seq(FieldTypes)
BY DEF FieldTypes

LEMMA TalkRight ==
  ASSUME NEW n \in Nat
  PROVE  /\ TableRight(DeclaredTalk(n))
         /\ \A r \in DeclaredTalk(n) :
              r[1] \in {"Echo", "LogInResponse", "OwnerChangeNotify", "LogOutNotify",
                        "ChatRoomResponse", "LeaveRoomResponse", "Error", "LogInRequest",
                        "ChatRoomRequest", "ChatNotify"}
<1>1. PICK a, b :
        /\ a = <<"h", "h">> \o Text(n)
        /\ b = <<"q", "h">> \o Text(n)
  OBVIOUS
<1>2. /\ a \in Seq(FieldTypes)
      /\ b \in Seq(FieldTypes)
  BY <1>1, Literals, PartsTyped, ConcatProperties
<1>3. ASSUME NEW r \in DeclaredTalk(n)
      PROVE  /\ r = <<r[1], r[2]>>
             /\ \/ r[1] \in {"Echo", "LogInResponse", "OwnerChangeNotify",
                                  "LogOutNotify"} /\ r[2] = <<"q">>
                \/ r[1] \in {"ChatRoomResponse", "LeaveRoomResponse"} /\ r[2] = <<>>
                \/ r[1] \in {"Error"} /\ r[2] = <<"h">>
                \/ r[1] \in {"LogInRequest"} /\ r[2] = <<"q", "q">>
                \/ r[1] \in {"ChatRoomRequest"} /\ r[2] = a
                \/ r[1] \in {"ChatNotify"} /\ r[2] = b
  BY <1>1 DEF DeclaredTalk, Rows
<1>4. \A r, s \in DeclaredTalk(n) : r[1] = s[1] => r = s
  BY <1>3
<1>5. \A r \in DeclaredTalk(n) : r[2] \in Seq(FieldTypes)
  BY <1>2, <1>3, Literals
<1>6. TableRight(DeclaredTalk(n))
  BY <1>3, <1>4, <1>5 DEF TableRight
<1>7. QED BY <1>3, <1>6

LEMMA RoomsRight ==
  ASSUME NEW n \in Nat
  PROVE  /\ TableRight(DeclaredRooms(n))
         /\ \A r \in DeclaredRooms(n) :
              r[1] \in {"EnterRoomNotify", "LeaveRoomNotify", "RoomListRequest",
                        "GameStartNotify", "MakeRoomRequest", "GameReadyRequest",
                        "EnterRoomRequest", "LeaveRoomRequest", "MakeRoomResponse",
                        "EnterRoomResponse", "RoomListResponse", "GameReadyNotify"}
<1>1. PICK a, b, c :
        /\ a = <<"b">> \o RoomInfo
        /\ b = <<"b", "h">> \o Times(n, <<"q">>)
        /\ c = <<"h">> \o Times(n, RoomInfo)
  OBVIOUS
<1>2. /\ a \in Seq(FieldTypes)
      /\ b \in Seq(FieldTypes)
      /\ c \in Seq(FieldTypes)
  BY <1>1, Literals, PartsTyped, ConcatProperties
<1>3. ASSUME NEW r \in DeclaredRooms(n)
      PROVE  /\ r = <<r[1], r[2]>>
             /\ \/ r[1] \in {"EnterRoomNotify", "LeaveRoomNotify"} /\ r[2] = <<"q">>
                \/ r[1] \in {"RoomListRequest", "GameStartNotify"} /\ r[2] = <<>>
                \/ r[1] \in {"MakeRoomRequest"} /\ r[2] = <<"name">>
                \/ r[1] \in {"GameReadyRequest"} /\ r[2] = <<"b">>
                \/ r[1] \in {"EnterRoomRequest", "LeaveRoomRequest"} /\ r[2] = <<"h", "name">>
                \/ r[1] \in {"MakeRoomResponse"} /\ r[2] = a
                \/ r[1] \in {"EnterRoomResponse"} /\ r[2] = b
                \/ r[1] \in {"RoomListResponse"} /\ r[2] = c
                \/ r[1] \in {"GameReadyNotify"} /\ r[2] = <<"b", "q">>
  BY <1>1 DEF DeclaredRooms, Rows
<1>4. \A r, s \in DeclaredRooms(n) : r[1] = s[1] => r = s
  BY <1>3
<1>5. \A r \in DeclaredRooms(n) : r[2] \in Seq(FieldTypes)
  BY <1>2, <1>3, Literals
<1>6. TableRight(DeclaredRooms(n))
  BY <1>3, <1>4, <1>5 DEF TableRight
<1>7. QED BY <1>3, <1>6

LEMMA LanRight ==
  /\ TableRight(DeclaredLan)
  /\ \A r \in DeclaredLan :
       r[1] \in {"GameServerSettingRequest", "GameServerSettingResponse",
                 "GameServerLanInfo"}
<1>3. ASSUME NEW r \in DeclaredLan
      PROVE  /\ r = <<r[1], r[2]>>
             /\ \/ r[1] \in {"GameServerSettingRequest"} /\ r[2] = <<>>
                \/ r[1] \in {"GameServerSettingResponse"} /\ r[2] = <<"h", "h", "h">>
                \/ r[1] \in {"GameServerLanInfo"} /\ r[2] = <<"ip", "h", "h", "q">>
  BY DEF DeclaredLan, Rows
<1>4. \A r, s \in DeclaredLan : r[1] = s[1] => r = s
  BY <1>3
<1>5. \A r \in DeclaredLan : r[2] \in Seq(FieldTypes)
  BY <1>3, Literals
<1>6. TableRight(DeclaredLan)
  BY <1>3, <1>4, <1>5 DEF TableRight
<1>7. QED BY <1>3, <1>6

LEMMA EntryRight ==
  /\ TableRight(DeclaredEntry)
  /\ \A r \in DeclaredEntry :
       r[1] \in {"GameInitDone", "EnterGameResponse", "GameLoadComplete",
                 "EnterGameRequest", "LeaveGameNotify", "DeleteOtherCharacter",
                 "MakeMyCharacter", "MakeOtherCharacter"}
<1>1. PICK a :
        /\ a = <<"q">> \o Vector3
  OBVIOUS
<1>2. /\ a \in Seq(FieldTypes)
  BY <1>1, Literals, PartsTyped, ConcatProperties
<1>3. ASSUME NEW r \in DeclaredEntry
      PROVE  /\ r = <<r[1], r[2]>>
             /\ \/ r[1] \in {"GameInitDone", "EnterGameResponse", "GameLoadComplete"} /\ r[2] = <<>>
                \/ r[1] \in {"EnterGameRequest"} /\ r[2] = <<"q", "q">>
                \/ r[1] \in {"LeaveGameNotify", "DeleteOtherCharacter"} /\ r[2] = <<"q">>
                \/ r[1] \in {"MakeMyCharacter", "MakeOtherCharacter"} /\ r[2] = a
  BY <1>1 DEF DeclaredEntry, Rows
<1>4. \A r, s \in DeclaredEntry : r[1] = s[1] => r = s
  BY <1>3
<1>5. \A r \in DeclaredEntry : r[2] \in Seq(FieldTypes)
  BY <1>2, <1>3, Literals
<1>6. TableRight(DeclaredEntry)
  BY <1>3, <1>4, <1>5 DEF TableRight
<1>7. QED BY <1>3, <1>6

LEMMA PlayRight ==
  /\ TableRight(DeclaredPlay)
  /\ \A r \in DeclaredPlay :
       r[1] \in {"AttackRequest", "SpectatorInit", "GameEndNotify", "WinnerInfoNotify",
                 "AttackNotify", "DieNotify", "InvalidateWinnerNotify", "Heartbeat",
                 "UpdateWinnerNotify", "AttackedNotify", "MoveStartRequest",
                 "MoveStopRequest", "MoveStartNotify", "MoveStopNotify",
                 "CharacterPositionSync", "UpdateTransform"}
<1>1. PICK a, b, c, d :
        /\ a = Vector3 \o <<"f">>
        /\ b = <<"q">> \o Vector3 \o <<"f">>
        /\ c = <<"q">> \o Vector3 \o Vector3
        /\ d = <<"q", "q">> \o Vector3 \o Vector3
  OBVIOUS
<1>2. /\ a \in Seq(FieldTypes)
      /\ b \in Seq(FieldTypes)
      /\ c \in Seq(FieldTypes)
      /\ d \in Seq(FieldTypes)
  BY <1>1, Literals, PartsTyped, ConcatProperties
<1>3. ASSUME NEW r \in DeclaredPlay
      PROVE  /\ r = <<r[1], r[2]>>
             /\ \/ r[1] \in {"AttackRequest", "SpectatorInit", "GameEndNotify",
                                  "WinnerInfoNotify"} /\ r[2] = <<>>
                \/ r[1] \in {"AttackNotify", "DieNotify", "InvalidateWinnerNotify",
                                  "Heartbeat"} /\ r[2] = <<"q">>
                \/ r[1] \in {"UpdateWinnerNotify"} /\ r[2] = <<"q", "q">>
                \/ r[1] \in {"AttackedNotify"} /\ r[2] = <<"q", "h">>
                \/ r[1] \in {"MoveStartRequest", "MoveStopRequest"} /\ r[2] = a
                \/ r[1] \in {"MoveStartNotify", "MoveStopNotify"} /\ r[2] = b
                \/ r[1] \in {"CharacterPositionSync"} /\ r[2] = c
                \/ r[1] \in {"UpdateTransform"} /\ r[2] = d
  BY <1>1 DEF DeclaredPlay, Rows
<1>4. \A r, s \in DeclaredPlay : r[1] = s[1] => r = s
  BY <1>3
<1>5. \A r \in DeclaredPlay : r[2] \in Seq(FieldTypes)
  BY <1>2, <1>3, Literals
<1>6. TableRight(DeclaredPlay)
  BY <1>3, <1>4, <1>5 DEF TableRight
<1>7. QED BY <1>3, <1>6

(* Every kind is declared once, with fields of the types there are.         *)
LEMMA DeclaredRight ==
  ASSUME NEW n \in Nat
  PROVE  TableRight(Declared(n))
<1> DEFINE talk == DeclaredTalk(n)
           rooms == DeclaredRooms(n)
           lan == DeclaredLan
           entry == DeclaredEntry
           play == DeclaredPlay
<1>1. /\ TableRight(talk) /\ TableRight(rooms) /\ TableRight(lan)
      /\ TableRight(entry) /\ TableRight(play)
  BY TalkRight, RoomsRight, LanRight, EntryRight, PlayRight
<1>2. /\ \A r \in talk, s \in rooms \cup lan \cup entry \cup play : r[1] # s[1]
      /\ \A r \in rooms, s \in lan \cup entry \cup play : r[1] # s[1]
      /\ \A r \in lan, s \in entry \cup play : r[1] # s[1]
      /\ \A r \in entry, s \in play : r[1] # s[1]
  BY TalkRight, RoomsRight, LanRight, EntryRight, PlayRight
<1>3. Declared(n) = talk \cup rooms \cup lan \cup entry \cup play
  BY DEF Declared
<1> HIDE DEF talk, rooms, lan, entry, play
<1>4. \A r, s \in Declared(n) : r[1] = s[1] => r = s
  <2>1. \A r, s \in talk : r[1] = s[1] => r = s BY <1>1 DEF TableRight
  <2>2. \A r, s \in rooms : r[1] = s[1] => r = s BY <1>1 DEF TableRight
  <2>3. \A r, s \in lan : r[1] = s[1] => r = s BY <1>1 DEF TableRight
  <2>4. \A r, s \in entry : r[1] = s[1] => r = s BY <1>1 DEF TableRight
  <2>5. \A r, s \in play : r[1] = s[1] => r = s BY <1>1 DEF TableRight
  <2>6. QED BY <1>2, <1>3, <2>1, <2>2, <2>3, <2>4, <2>5
<1>5. \A r \in Declared(n) : r = <<r[1], r[2]>> /\ r[2] \in Seq(FieldTypes)
  BY <1>1, <1>3 DEF TableRight
<1>6. QED BY <1>4, <1>5 DEF TableRight

(* The fields a builder puts behind the header are those its struct adds up *)
(* to header.size, in that order.                                           *)
LEMMA BuiltForRoomsFit == ASSUME NEW n PROVE BuiltForRooms(n) \subseteq Declared(n)
BY DEF BuiltForRooms, Declared, DeclaredTalk, DeclaredRooms, Rows

LEMMA BuiltForMembersFit == ASSUME NEW n PROVE BuiltForMembers(n) \subseteq Declared(n)
BY DEF BuiltForMembers, Declared, DeclaredTalk, DeclaredRooms, DeclaredLan, Rows

LEMMA BuiltByRoomFit == ASSUME NEW n PROVE BuiltByRoom \subseteq Declared(n)
BY DEF BuiltByRoom, Declared, DeclaredTalk, Rows

LEMMA BuiltForEntitiesFit == ASSUME NEW n PROVE BuiltForEntities \subseteq Declared(n)
BY DEF BuiltForEntities, Declared, DeclaredTalk, DeclaredEntry, DeclaredPlay, Rows

LEMMA BuiltForGameFit == ASSUME NEW n PROVE BuiltForGame(n) \subseteq Declared(n)
BY DEF BuiltForGame, CharacterSync, Declared, DeclaredTalk, DeclaredRooms, DeclaredLan,
  DeclaredEntry, DeclaredPlay, Rows

LEMMA BuiltByDummyFit == ASSUME NEW n PROVE BuiltByDummy(n) \subseteq Declared(n)
BY DEF BuiltByDummy, Declared, DeclaredTalk, DeclaredRooms, DeclaredPlay, Rows

LEMMA PutByOperatorFit == ASSUME NEW n PROVE PutByOperator \subseteq Declared(n)
BY DEF PutByOperator, Declared, DeclaredTalk, DeclaredRooms, Rows

LEMMA BuiltByPlayersFit == ASSUME NEW n \in Nat PROVE BuiltByPlayers \subseteq Declared(n)
<1> SUFFICES ASSUME NEW r \in BuiltByPlayers PROVE r \in Declared(n)
  OBVIOUS
<1>1. /\ r \in Declared(0)
      /\ r[1] \in {"EnterGameRequest", "GameReadyRequest", "GameLoadComplete",
                   "MoveStartRequest", "MoveStopRequest", "AttackRequest"}
  BY DEF BuiltByPlayers
<1>2. /\ r \notin DeclaredTalk(0)
      /\ r \in DeclaredRooms(0) => r \in DeclaredRooms(n)
  <2>1. r \notin DeclaredTalk(0)
    BY <1>1, TalkRight
  <2>2. ASSUME r \in DeclaredRooms(0) PROVE r \in DeclaredRooms(n)
    <3>1. r \in Rows({"GameReadyRequest"}, <<"b">>)
      BY <1>1, <2>2 DEF DeclaredRooms, Rows
    <3>2. QED BY <3>1 DEF DeclaredRooms
  <2>3. QED BY <2>1, <2>2
<1>3. QED BY <1>1, <1>2 DEF Declared

(* What every builder of the repository puts is what its struct declares,   *)
(* for every length of names, addresses and lists (PacketDefine.h:127).     *)
THEOREM BuildersFit ==
  ASSUME NEW n \in Nat
  PROVE  UNION Builders(n) \subseteq Declared(n)
BY BuiltForRoomsFit, BuiltForMembersFit, BuiltByRoomFit, BuiltForEntitiesFit, BuiltForGameFit,
  BuiltByDummyFit, PutByOperatorFit, BuiltByPlayersFit DEF Builders

(* What every handler takes is what its struct declares, from the first     *)
(* field on: all of it, or of EnterRoomResponse the bool alone.             *)
LEMMA TakenInLobbyFit == ASSUME NEW n PROVE TakenInLobby(n) \subseteq Declared(n)
BY DEF TakenInLobby, Declared, DeclaredTalk, DeclaredRooms, Rows

LEMMA TakenInRoomsFit == ASSUME NEW n PROVE TakenInRooms \subseteq Declared(n)
BY DEF TakenInRooms, Declared, DeclaredRooms, DeclaredPlay, Rows

LEMMA TakenFromLanFit == ASSUME NEW n PROVE TakenFromLan \subseteq Declared(n)
BY DEF TakenFromLan, Declared, DeclaredLan, Rows

LEMMA TakenByGameFit == ASSUME NEW n PROVE TakenByGame \subseteq Declared(n)
BY DEF TakenByGame, Declared, DeclaredEntry, DeclaredPlay, Rows

LEMMA TakenBesideGameFit == ASSUME NEW n PROVE TakenBesideGame(n) \subseteq Declared(n)
BY DEF TakenBesideGame, Declared, DeclaredTalk, DeclaredLan, Rows

LEMMA TakenByDummyFit ==
  ASSUME NEW n
  PROVE  TakenByDummy(n) \subseteq Declared(n) \cup {<<"EnterRoomResponse", <<"b">>>>}
BY DEF TakenByDummy, RoomList, Declared, DeclaredTalk, DeclaredRooms, Rows

LEMMA TakenByOperatorFit == ASSUME NEW n PROVE TakenByOperator \subseteq Declared(n)
BY DEF TakenByOperator, Declared, DeclaredTalk, DeclaredRooms, Rows

Joins(s, t, u, a, b) ==
  /\ u \in Seq(FieldTypes) /\ Len(u) = a + b
  /\ \A x \in 1 .. a + b : u[x] = IF x <= a THEN s[x] ELSE t[x - a]

LEMMA Joined ==
  ASSUME NEW s \in Seq(FieldTypes), NEW t \in Seq(FieldTypes)
  PROVE  Joins(s, t, s \o t, Len(s), Len(t))
BY ConcatProperties DEF Joins

(* A handler finds the fields it takes at the front of what is declared.    *)
THEOREM HandlersFit ==
  ASSUME NEW n \in Nat, NEW r \in UNION Handlers(n)
  PROVE  /\ r = <<r[1], r[2]>> /\ r[2] \in Seq(FieldTypes)
         /\ \E rest \in Seq(FieldTypes) : <<r[1], r[2] \o rest>> \in Declared(n)
<1>1. r \in Declared(n) \/ r = <<"EnterRoomResponse", <<"b">>>>
  BY TakenInLobbyFit, TakenInRoomsFit, TakenFromLanFit, TakenByGameFit, TakenBesideGameFit,
    TakenByDummyFit, TakenByOperatorFit DEF Handlers
<1>2. CASE r \in Declared(n)
  <2>1. r = <<r[1], r[2]>> /\ r[2] \in Seq(FieldTypes)
    BY <1>2, DeclaredRight DEF TableRight
  <2>2. r[2] \o <<>> = r[2] /\ <<>> \in Seq(FieldTypes)
    BY <2>1, EmptySeq
  <2>3. QED BY <1>2, <2>1, <2>2
<1>3. CASE r = <<"EnterRoomResponse", <<"b">>>>
  <2>1. PICK ids : ids = Times(n, <<"q">>) /\ ids \in Seq(FieldTypes)
    BY PartsTyped
  <2>2. <<"EnterRoomResponse", <<"b", "h">> \o ids>> \in Declared(n)
    BY <2>1 DEF Declared, DeclaredRooms, Rows
  <2>3. /\ <<"h">> \o ids \in Seq(FieldTypes)
        /\ <<"b">> \o (<<"h">> \o ids) = <<"b", "h">> \o ids
    <3>1. PICK b, h, bh : b = <<"b">> /\ h = <<"h">> /\ bh = <<"b", "h">>
      OBVIOUS
    <3>2. /\ b \in Seq(FieldTypes) /\ h \in Seq(FieldTypes) /\ bh \in Seq(FieldTypes)
          /\ Len(b) = 1 /\ Len(h) = 1 /\ Len(bh) = 2
          /\ b[1] = bh[1] /\ h[1] = bh[2]
      BY <3>1, Literals
    <3>3. PICK m \in Nat : m = Len(ids)
      BY <2>1, LenProperties
    <3>4. PICK rest : rest = h \o ids
      OBVIOUS
    <3>5. /\ rest \in Seq(FieldTypes) /\ Len(rest) = 1 + m
          /\ \A x \in 1 .. 1 + m : rest[x] = IF x <= 1 THEN h[x] ELSE ids[x - 1]
      <4>1. Joins(h, ids, h \o ids, Len(h), Len(ids))
        BY <2>1, <3>2, Joined
      <4>2. Joins(h, ids, rest, 1, m)
        BY <2>1, <3>2, <3>3, <3>4, <4>1
      <4>3. QED BY <4>2 DEF Joins
    <3>6. PICK one, two : one = b \o rest /\ two = bh \o ids
      OBVIOUS
    <3>7. /\ one \in Seq(FieldTypes) /\ Len(one) = 1 + (1 + m)
          /\ \A x \in 1 .. 1 + (1 + m) : one[x] = IF x <= 1 THEN b[x] ELSE rest[x - 1]
      <4>1. Joins(b, rest, b \o rest, Len(b), Len(rest))
        BY <3>2, <3>3, <3>5, Joined
      <4>2. Joins(b, rest, one, 1, 1 + m)
        BY <3>2, <3>3, <3>5, <3>6, <4>1
      <4>3. QED BY <4>2 DEF Joins
    <3>8. /\ two \in Seq(FieldTypes) /\ Len(two) = 2 + m
          /\ \A x \in 1 .. 2 + m : two[x] = IF x <= 2 THEN bh[x] ELSE ids[x - 2]
      <4>1. Joins(bh, ids, bh \o ids, Len(bh), Len(ids))
        BY <2>1, <3>2, <3>3, Joined
      <4>2. Joins(bh, ids, two, 2, m)
        BY <2>1, <3>2, <3>3, <3>6, <4>1
      <4>3. QED BY <4>2 DEF Joins
    <3>9. ASSUME NEW x \in 1 .. 2 + m PROVE one[x] = two[x]
      <4>1. CASE x = 1
        BY <3>2, <3>3, <3>7, <3>8, <4>1
      <4>2. CASE x # 1
        <5>1. x - 1 \in 1 .. 1 + m /\ one[x] = rest[x - 1]
          BY <3>3, <3>7, <4>2
        <5>2. CASE x = 2
          BY <3>2, <3>3, <3>5, <3>8, <5>1, <5>2
        <5>3. CASE x # 2
          <6>1. rest[x - 1] = ids[(x - 1) - 1] /\ two[x] = ids[x - 2]
            BY <3>3, <3>5, <3>8, <4>2, <5>1, <5>3
          <6>2. (x - 1) - 1 = x - 2
            OBVIOUS
          <6>3. QED BY <5>1, <6>1, <6>2
        <5>4. QED BY <5>2, <5>3
      <4>3. QED BY <4>1, <4>2
    <3>10. one = two
      BY ONLY <3>3, <3>7, <3>8, <3>9, SeqEqual
    <3>11. QED BY <3>1, <3>4, <3>5, <3>6, <3>10
  <2>4. <<"b">> \in Seq(FieldTypes)
    BY Literals
  <2>5. QED BY <1>3, <2>2, <2>3, <2>4
<1>4. QED BY <1>1, <1>2, <1>3

(* The size of fields is a number.                                          *)
LEMMA SizeFinite ==
  ASSUME NEW fs \in Seq(FieldTypes)
  PROVE  /\ IsFiniteSet(UNION {{j} \X (1 .. Width[fs[j]]) : j \in DOMAIN fs})
         /\ SizeOf(fs) \in Nat
<1> DEFINE most == NameLen + IpLen + 8
           bytes == UNION {{j} \X (1 .. Width[fs[j]]) : j \in DOMAIN fs}
<1>1. \A x \in FieldTypes : Width[x] \in 0 .. most
  BY LayoutAssumption DEF FieldTypes, Width
<1>2. \A j \in DOMAIN fs : Width[fs[j]] \in 0 .. most
  <2>1. \A j \in DOMAIN fs : fs[j] \in FieldTypes
    OBVIOUS
  <2>2. QED BY <1>1, <2>1
<1>3. bytes \subseteq (DOMAIN fs) \X (1 .. most)
  <2>1. most \in Nat
    BY LayoutAssumption
  <2>2. \A j \in DOMAIN fs : 1 .. Width[fs[j]] \subseteq 1 .. most
    BY <1>2, <2>1
  <2>3. QED BY <2>2
<1>4. IsFiniteSet((DOMAIN fs) \X (1 .. most))
  <2>1. DOMAIN fs = 1 .. Len(fs) /\ Len(fs) \in Nat /\ most \in Nat
    BY LayoutAssumption
  <2>2. IsFiniteSet(1 .. Len(fs)) /\ IsFiniteSet(1 .. most)
    BY <2>1, FS_Interval
  <2>3. QED BY <2>1, <2>2, FS_Product
<1>5. IsFiniteSet(bytes)
  BY <1>3, <1>4, FS_Subset
<1>6. QED BY <1>5, FS_CardinalityType DEF SizeOf

LEMMA HeaderRight == HeaderSize \in Nat \ {0}
<1>1. PacketHeader \in Seq(FieldTypes)
  BY Literals DEF PacketHeader
<1> DEFINE bytes == UNION {{j} \X (1 .. Width[PacketHeader[j]]) : j \in DOMAIN PacketHeader}
<1>2. IsFiniteSet(bytes) /\ HeaderSize = Cardinality(bytes) /\ HeaderSize \in Nat
  BY <1>1, SizeFinite DEF HeaderSize, SizeOf
<1>3. <<1, 1>> \in bytes
  BY DEF PacketHeader, Width
<1>4. QED BY <1>2, <1>3, FS_EmptySet

(* A packet of the peer is as long as its header says.                      *)
PacketRecords ==
  [kind : Kinds, n : Nat, fields : Seq(FieldTypes), at : Nat, size : Nat, long : Nat]

LEMMA PacketRight ==
  ASSUME NEW p \in Packets
  PROVE  p \in PacketRecords /\ p.size = p.long
<1>1. PICK k \in Kinds, n \in Counts : p \in PacketsOf(k, n)
  BY DEF Packets
<1>2. PICK fs \in Ways(Builders(n), k) :
        p = [kind |-> k, n |-> n, fields |-> fs, at |-> 0,
             size |-> SizeOf(DeclaredFields(n, k)), long |-> SizeOf(fs)]
  BY <1>1 DEF PacketsOf
<1>3. n \in Nat
  BY StreamAssumption
<1>4. PICK r \in UNION Builders(n) : r[1] = k /\ r[2] = fs
  BY <1>2 DEF Ways
<1>5. r \in Declared(n) /\ TableRight(Declared(n))
  BY <1>3, <1>4, BuildersFit, DeclaredRight
<1>6. (CHOOSE row \in Declared(n) : row[1] = k) = r
  BY <1>4, <1>5 DEF TableRight
<1>7. DeclaredFields(n, k) = fs /\ fs \in Seq(FieldTypes)
  BY <1>4, <1>5, <1>6 DEF DeclaredFields, TableRight
<1>8. SizeOf(fs) \in Nat
  BY <1>7, SizeFinite
<1>9. QED BY <1>2, <1>3, <1>7, <1>8 DEF PacketRecords

-----------------------------------------------------------------------------
(* Places of the stream.                                                    *)
RunOf(t, a, n) == t \in Seq(Nat) /\ Len(t) = n /\ \A i \in 1 .. n : t[i] = a + i - 1

LEMMA RunIs ==
  ASSUME NEW a \in Nat, NEW n \in Nat
  PROVE  RunOf(Run(a, n), a, n)
<1>1. \A j \in 1 .. n : a + j - 1 \in Nat
  OBVIOUS
<1>2. Run(a, n) \in [1 .. n -> Nat]
  BY <1>1 DEF Run
<1>3. QED BY <1>2, FunSeq DEF Run, RunOf

(* The members lo to hi of the n from a on are the m from b on.             *)
PartOf(a, n, lo, hi, b, m) ==
  /\ a \in Nat /\ n \in Nat /\ m \in Nat /\ lo \in Nat \ {0} /\ hi <= n
  /\ hi = lo - 1 + m /\ b = a + lo - 1

LEMMA RunPart ==
  ASSUME NEW a, NEW n, NEW lo, NEW hi, NEW b, NEW m, PartOf(a, n, lo, hi, b, m)
  PROVE  SubSeq(Run(a, n), lo, hi) = Run(b, m)
<1>0. PICK i \in Nat : /\ a \in Nat /\ n \in Nat /\ m \in Nat /\ b \in Nat
                       /\ lo = i + 1 /\ hi = i + m /\ b = a + i /\ i + m <= n
  <2>1. lo - 1 \in Nat
    BY DEF PartOf
  <2>2. QED BY <2>1 DEF PartOf
<1>1. PICK r, s, t : r = Run(a, n) /\ s = SubSeq(r, lo, hi) /\ t = Run(b, m)
  OBVIOUS
<1>2. RunOf(r, a, n) /\ RunOf(t, b, m)
  BY <1>0, <1>1, RunIs
<1>3. s \in Seq(Nat) /\ Len(s) = m /\ \A j \in 1 .. m : s[j] = r[i + j]
  <2>1. \A j \in 1 .. Len(r) : r[j] \in Nat
    BY <1>2, ElementOfSeq DEF RunOf
  <2>2. s = SubSeq(r, i + 1, i + m)
    BY <1>0, <1>1
  <2>3. QED BY <1>0, <1>2, <2>1, <2>2 DEF RunOf
<1>4. ASSUME NEW j \in 1 .. m PROVE s[j] = t[j]
  <2>1. i + j \in 1 .. n
    BY <1>0
  <2>2. s[j] = a + (i + j) - 1
    BY <1>2, <1>3, <2>1 DEF RunOf
  <2>3. QED BY <1>0, <1>2, <2>2 DEF RunOf
<1>5. s = t
  BY <1>2, <1>3, <1>4, SameSeq DEF RunOf
<1>6. QED BY <1>1, <1>5

LEMMA FirstOfRun ==
  ASSUME NEW a \in Nat, NEW n \in Nat, NEW m \in Nat, m <= n
  PROVE  SubSeq(Run(a, n), 1, m) = Run(a, m)
<1>1. PartOf(a, n, 1, m, a, m)
  BY DEF PartOf
<1>2. QED BY <1>1, RunPart

LEMMA RunJoined ==
  ASSUME NEW a \in Nat, NEW n \in Nat, NEW m \in Nat
  PROVE  Run(a, n) \o Run(a + n, m) = Run(a, n + m)
<1>1. PICK r, s, t : r = Run(a, n) /\ s = Run(a + n, m) /\ t = Run(a, n + m)
  OBVIOUS
<1>2. RunOf(r, a, n) /\ RunOf(s, a + n, m) /\ RunOf(t, a, n + m)
  <2>1. a + n \in Nat /\ n + m \in Nat OBVIOUS
  <2>2. QED BY <1>1, <2>1, RunIs
<1>3. /\ \A j \in 1 .. Len(r) : t[j] = r[j]
      /\ \A j \in 1 .. Len(s) : t[Len(r) + j] = s[j]
  BY <1>2 DEF RunOf
<1>4. t = r \o s
  BY <1>2, <1>3, ConcatSame DEF RunOf
<1>5. QED BY <1>1, <1>4

(* Runs that begin at different places differ.                              *)
LEMMA RunsDiffer ==
  ASSUME NEW a \in Nat, NEW b \in Nat, NEW n \in Nat \ {0}, Run(a, n) = Run(b, n)
  PROVE  a = b
<1>1. PICK r : r = Run(a, n)
  OBVIOUS
<1>2. RunOf(r, a, n) /\ RunOf(r, b, n)
  BY <1>1, RunIs
<1>3. r[1] = a + 1 - 1 /\ r[1] = b + 1 - 1
  BY <1>2 DEF RunOf
<1>4. QED BY <1>3

-----------------------------------------------------------------------------
(* What a ring holds before its rear is moved over what was written.        *)
LEMMA NotYetMoved ==
  ASSUME NEW r, RingRight(r), NEW n \in 0 .. r.cap - 1 - Used(r), NEW s, s = MoveRear(r, n)
  PROVE  Content(r) = SubSeq(Content(s), 1, Used(r))
<1>1. RearMovedBy(r, n, s)
  BY RearMoved
<1>2. PICK u \in Nat, m \in Nat : u = Used(r) /\ m = Used(s) /\ m = u + n
  BY <1>1, RingTypes DEF RearMovedBy
<1>3. PICK a, t : a = Content(r) /\ t = Content(s)
  OBVIOUS
<1>4. a \in Seq(Nat) /\ Len(a) = u /\ \A i \in 1 .. u : a[i] = Byte(r, i)
  BY <1>2, <1>3, ContentRight
<1>5. t \in Seq(Nat) /\ Len(t) = m /\ \A i \in 1 .. m : t[i] = Byte(s, i)
  BY <1>1, <1>2, <1>3, ContentRight DEF RearMovedBy
<1>6. \A i : Byte(r, i) = Byte(s, i)
  BY <1>1 DEF RearMovedBy, Byte, Place
<1>7. \A i \in 1 .. u : a[i] = t[i]
  BY <1>2, <1>4, <1>5, <1>6
<1>8. a = SubSeq(t, 1, u)
  <2>1. u <= Len(t)
    BY <1>2, <1>5
  <2>2. QED BY <1>4, <1>5, <1>7, <2>1, FirstSame
<1>9. QED BY <1>2, <1>3, <1>8

(* What the kernel leaves in a ring that holds a run of the stream when it  *)
(* puts the next n bytes into the two parts that PostRecv gave it.          *)
FilledByKernel(r, at, n) ==
  LET k == DirectEnqueueSize(r)
  IN IF n <= k THEN Write(r, r.rear, Run(at, n))
     ELSE Write(Write(r, r.rear, Run(at, k)), 0, Run(at + k, n - k))

Received(r, w, x, u, n) ==
  /\ RingRight(w) /\ w.cap = r.cap /\ n <= w.cap - 1 - Used(w)
  /\ Content(w) = Run(x, u)
  /\ RingRight(MoveRear(w, n)) /\ Content(MoveRear(w, n)) = Run(x, u + n)

LEMMA KernelFills ==
  ASSUME NEW r, RingRight(r), NEW x \in Nat, NEW u \in Nat, Content(r) = Run(x, u),
         NEW n \in Nat, n <= r.cap - 1 - Used(r), NEW w, w = FilledByKernel(r, x + u, n)
  PROVE  Received(r, w, x, u, n)
<1>0. PICK d : d = Run(x + u, n)
  OBVIOUS
<1>1. PICK c \in Nat, e \in Nat, k \in Nat, y \in Nat :
        /\ c = r.cap /\ e = r.rear /\ k = DirectEnqueueSize(r) /\ y = x + u /\ d = Run(y, n)
  <2>1. DirectEnqueueSize(r) \in Nat /\ x + u \in Nat
    BY DirectRight, RingTypes
  <2>2. QED BY <1>0, <2>1, RingTypes
<1>2. /\ e + k <= c /\ (k < n => e + k = c) /\ n < c /\ c > 0
  BY <1>1, DirectRight, RingTypes
<1>3. d \in Seq(Nat) /\ Len(d) = n
  <2>1. RunOf(Run(y, n), y, n)
    BY RunIs
  <2>2. QED BY <1>1, <2>1 DEF RunOf
<1>4. PICK s : s = MoveRear(w, n)
  OBVIOUS
<1>5. w = FilledByKernel(r, y, n)
  BY <1>1
<1>6. /\ RingRight(w) /\ w.cap = c /\ Used(w) = Used(r)
      /\ RingRight(s) /\ Content(s) = Content(r) \o d
  <2>1. CASE n <= k
    <3>1. w = Write(r, r.rear, d) /\ r.rear \in Nat /\ r.rear + Len(d) <= r.cap
      BY <1>1, <1>2, <1>3, <1>5, <2>1 DEF FilledByKernel
    <3>2. WrittenAt(r, r.rear, d, w)
      BY <1>3, <3>1, Written
    <3>3. Len(d) <= r.cap - 1 - Used(r) /\ s = MoveRear(Write(r, r.rear, d), Len(d))
      BY <1>3, <1>4, <3>1
    <3>4. Filled(r, s, d, Len(d))
      BY <1>3, <3>1, <3>3, FilledAtOnce
    <3>5. Len(d) \in 0 .. Len(d)
      BY <1>3
    <3>6. Content(s) = Content(r) \o d
      BY <1>3, <1>4, <3>1, <3>4, <3>5, FilledAppends
    <3>7. RingRight(w) /\ w.cap = r.cap /\ Used(w) = Used(r)
      BY <3>2 DEF WrittenAt
    <3>8. RingRight(s)
      BY <3>4 DEF Filled
    <3>9. QED BY <1>1, <3>6, <3>7, <3>8
  <2>2. CASE k < n
    <3>1. PICK here, there : here = SubSeq(d, 1, k) /\ there = SubSeq(d, k + 1, n)
      OBVIOUS
    <3>2. PICK m \in Nat, z \in Nat : m = n - k /\ z = y + k
      <4>1. n - k \in Nat /\ y + k \in Nat
        BY <2>2
      <4>2. QED BY <4>1
    <3>3. here = Run(y, k) /\ there = Run(z, m)
      <4>1. k <= n
        BY <2>2
      <4>2. SubSeq(Run(y, n), 1, k) = Run(y, k)
        BY <4>1, FirstOfRun
      <4>3. SubSeq(Run(y, n), k + 1, n) = Run(z, m)
        <5>1. PartOf(y, n, k + 1, n, z, m)
          BY <3>2, <4>1 DEF PartOf
        <5>2. QED BY <5>1, RunPart
      <4>4. QED BY <1>1, <3>1, <4>2, <4>3
    <3>4. w = Write(Write(r, r.rear, here), 0, there)
      <4>1. FilledByKernel(r, y, n) = Write(Write(r, r.rear, Run(y, k)), 0, Run(y + k, n - k))
        BY <1>1, <2>2 DEF FilledByKernel
      <4>2. QED BY <1>5, <3>2, <3>3, <4>1
    <3>5. here \in Seq(Nat) /\ Len(here) = k /\ there \in Seq(Nat) /\ Len(there) = m
      <4>1. RunOf(here, y, k) /\ RunOf(there, z, m)
        BY <3>3, RunIs
      <4>2. QED BY <4>1 DEF RunOf
    <3>6. PICK v : v = Write(r, r.rear, here)
      OBVIOUS
    <3>7. WrittenAt(r, r.rear, here, v)
      BY <1>1, <1>2, <3>5, <3>6, Written
    <3>8. RingRight(v) /\ v.cap = c /\ Used(v) = Used(r)
      BY <1>1, <3>7 DEF WrittenAt
    <3>9. 0 + Len(there) <= v.cap
      BY <1>2, <3>2, <3>5, <3>8
    <3>10. WrittenAt(v, 0, there, w)
      BY <3>4, <3>5, <3>6, <3>8, <3>9, Written
    <3>11. s = MoveRear(Write(Write(r, r.rear, SubSeq(d, 1, k)), 0,
                              SubSeq(d, k + 1, Len(d))), Len(d))
      BY <1>3, <1>4, <3>1, <3>4
    <3>12. /\ Len(d) <= r.cap - 1 - Used(r) /\ k \in 0 .. Len(d)
           /\ r.rear + k <= r.cap /\ (k < Len(d) => r.rear + k = r.cap)
      BY <1>1, <1>2, <1>3, <2>2
    <3>13. Filled(r, s, d, k)
      BY <1>3, <3>11, <3>12, FilledByCaller
    <3>14. Content(s) = Content(r) \o d
      BY <1>3, <3>12, <3>13, FilledAppends
    <3>15. QED BY <3>8, <3>10, <3>13, <3>14 DEF WrittenAt, Filled
  <2>3. QED BY <1>1, <2>1, <2>2
<1>7. Content(s) = Run(x, u + n)
  <2>1. Run(x, u) \o Run(x + u, n) = Run(x, u + n)
    BY RunJoined
  <2>2. QED BY <1>1, <1>6, <2>1
<1>8. u = Used(r)
  <2>1. Len(Content(r)) = Used(r) /\ Len(Run(x, u)) = u
    BY ContentRight, RunIs DEF RunOf
  <2>2. QED BY <2>1
<1>9. n \in 0 .. w.cap - 1 - Used(w)
  BY <1>1, <1>6
<1>10. Content(w) = SubSeq(Content(s), 1, Used(w))
  BY <1>4, <1>6, <1>9, NotYetMoved
<1>11. SubSeq(Run(x, u + n), 1, u) = Run(x, u)
  <2>1. u + n \in Nat /\ u <= u + n
    OBVIOUS
  <2>2. QED BY <2>1, FirstOfRun
<1>12. Content(w) = Run(x, u)
  BY <1>6, <1>7, <1>8, <1>10, <1>11
<1>13. QED BY <1>1, <1>4, <1>6, <1>7, <1>9, <1>12 DEF Received

(* What is left when the first n bytes of a run are taken.                  *)
LEMMA RunTaken ==
  ASSUME NEW r, RingRight(r), NEW x \in Nat, NEW u \in Nat, Content(r) = Run(x, u),
         NEW n \in Nat, n <= u, NEW s, FrontMovedBy(r, n, s)
  PROVE  RingRight(s) /\ s.cap = r.cap /\ Content(s) = Run(x + n, u - n)
<1>1. u = Used(r) /\ Len(Content(r)) = u
  <2>1. Len(Content(r)) = Used(r) /\ Len(Run(x, u)) = u
    BY ContentRight, RunIs DEF RunOf
  <2>2. QED BY <2>1
<1>2. n \in 0 .. Used(r)
  BY <1>1
<1>3. Content(s) = SubSeq(Content(r), n + 1, Len(Content(r)))
  BY <1>2, FrontDrops
<1>4. PICK m \in Nat, z \in Nat : m = u - n /\ z = x + n
  <2>1. u - n \in Nat /\ x + n \in Nat
    OBVIOUS
  <2>2. QED BY <2>1
<1>5. SubSeq(Run(x, u), n + 1, u) = Run(z, m)
  <2>1. PartOf(x, u, n + 1, u, z, m)
    BY <1>4 DEF PartOf
  <2>2. QED BY <2>1, RunPart
<1>6. QED BY <1>1, <1>3, <1>4, <1>5 DEF FrontMovedBy

LEMMA RunPeeked ==
  ASSUME NEW r, RingRight(r), NEW x \in Nat, NEW u \in Nat, Content(r) = Run(x, u),
         NEW n \in Nat, n <= u
  PROVE  PeekRetBool(r, n) = Run(x, n)
<1>1. u = Used(r) /\ GetUseSize(r) = u
  <2>1. Len(Content(r)) = Used(r) /\ Len(Run(x, u)) = u /\ GetUseSize(r) = Used(r)
    BY ContentRight, RunIs, SizesRight DEF RunOf
  <2>2. QED BY <2>1
<1>2. n \in 0 .. Used(r)
  BY <1>1
<1>3. PeekRetBool(r, n) = SubSeq(Content(r), 1, n)
  BY <1>1, <1>2, CopiedRight DEF PeekRetBool
<1>4. SubSeq(Run(x, u), 1, n) = Run(x, n)
  BY FirstOfRun
<1>5. QED BY <1>3, <1>4

-----------------------------------------------------------------------------
(* The packets of the peer lie in the stream one behind the other.          *)
End(s, i) == IF i = 0 THEN 0 ELSE s[i].at + HeaderSize + s[i].long - 1

Lined(s) ==
  /\ s \in Seq(PacketRecords)
  /\ \A i \in 1 .. Len(s) : s[i].size = s[i].long /\ s[i].at = End(s, i - 1) + 1
  /\ \A i, j \in 0 .. Len(s) : i < j => End(s, i) < End(s, j)

LEMMA EndIs == \A i : EndOf(i) = End(sent, i)
BY DEF EndOf, End

LEMMA EndTyped ==
  ASSUME NEW s, Lined(s), NEW i \in 0 .. Len(s)
  PROVE  /\ Len(s) \in Nat /\ End(s, i) \in Nat /\ End(s, i) <= End(s, Len(s))
         /\ i > 0 => /\ s[i] \in PacketRecords /\ s[i].size = s[i].long
                     /\ s[i].at = End(s, i - 1) + 1
                     /\ End(s, i) = s[i].at + HeaderSize + s[i].long - 1
<1>1. Len(s) \in Nat
  BY LenProperties DEF Lined
<1>2. \A j \in 0 .. Len(s) : End(s, j) \in Nat
  <2>1. ASSUME NEW j \in 0 .. Len(s) PROVE End(s, j) \in Nat
    <3>1. CASE j = 0
      BY <3>1 DEF End
    <3>2. CASE j > 0
      <4>1. s[j] \in PacketRecords
        BY <1>1, <3>2, ElementOfSeq DEF Lined
      <4>2. s[j].at \in Nat /\ s[j].long \in Nat
        BY <4>1 DEF PacketRecords
      <4>3. End(s, j) = s[j].at + HeaderSize + s[j].long - 1
        BY <3>2 DEF End
      <4>4. QED BY <4>2, <4>3, HeaderRight
    <3>3. QED BY <1>1, <3>1, <3>2
  <2>2. QED BY <2>1
<1>3. End(s, i) <= End(s, Len(s))
  <2>1. CASE i = Len(s)
    BY <1>1, <1>2, <2>1
  <2>2. CASE i < Len(s)
    <3>1. End(s, i) < End(s, Len(s))
      BY <1>1, <2>2 DEF Lined
    <3>2. QED BY <1>1, <1>2, <3>1
  <2>3. QED BY <1>1, <2>1, <2>2
<1>4. ASSUME i > 0
      PROVE  /\ s[i] \in PacketRecords /\ s[i].size = s[i].long
             /\ s[i].at = End(s, i - 1) + 1
             /\ End(s, i) = s[i].at + HeaderSize + s[i].long - 1
  <2>1. i \in 1 .. Len(s)
    BY <1>1, <1>4
  <2>2. s[i] \in PacketRecords
    BY <2>1, ElementOfSeq DEF Lined
  <2>3. End(s, i) = s[i].at + HeaderSize + s[i].long - 1
    BY <1>4 DEF End
  <2>4. QED BY <2>1, <2>2, <2>3 DEF Lined
<1>5. QED BY <1>1, <1>2, <1>3, <1>4

(* The next packet comes behind the last one.                               *)
Follows(s, t) ==
  /\ Lined(t) /\ Len(t) = Len(s) + 1
  /\ \A i \in 1 .. Len(s) : t[i] = s[i]
  /\ \A i \in 0 .. Len(s) : End(t, i) = End(s, i)

LEMMA SentFollows ==
  ASSUME NEW s, Lined(s), NEW p \in Packets, NEW q, q = [p EXCEPT !.at = End(s, Len(s)) + 1],
         NEW t, t = Append(s, q)
  PROVE  Follows(s, t)
<1>1. PICK l \in Nat, e \in Nat : l = Len(s) /\ e = End(s, l)
  <2>1. Len(s) \in 0 .. Len(s)
    BY LenProperties DEF Lined
  <2>2. QED BY <2>1, EndTyped
<1>2. q \in PacketRecords /\ q.size = q.long /\ q.at = e + 1 /\ q.long \in Nat
  <2>1. p \in PacketRecords /\ p.size = p.long
    BY PacketRight
  <2>2. q = [p EXCEPT !.at = e + 1]
    BY <1>1
  <2>3. QED BY <2>1, <2>2 DEF PacketRecords
<1>3. /\ t \in Seq(PacketRecords) /\ Len(t) = l + 1 /\ t[l + 1] = q
      /\ \A i \in 1 .. l : t[i] = s[i]
  BY <1>1, <1>2, AppendProperties DEF Lined
<1>4. \A i \in 0 .. l : End(t, i) = End(s, i)
  BY <1>3 DEF End
<1>5. End(t, l + 1) = e + HeaderSize + q.long
  <2>1. End(t, l + 1) = q.at + HeaderSize + q.long - 1
    BY <1>1, <1>3 DEF End
  <2>2. QED BY <1>1, <1>2, <2>1, HeaderRight
<1>6. ASSUME NEW i \in 1 .. l + 1
      PROVE  t[i].size = t[i].long /\ t[i].at = End(t, i - 1) + 1
  <2>1. CASE i = l + 1
    <3>1. t[i] = q /\ i - 1 = l /\ l \in 0 .. l
      BY <1>1, <1>3, <2>1
    <3>2. End(t, i - 1) = e
      BY <1>1, <1>4, <3>1
    <3>3. QED BY <1>2, <3>1, <3>2
  <2>2. CASE i # l + 1
    <3>1. i \in 1 .. l /\ i - 1 \in 0 .. l
      BY <1>1, <2>2
    <3>2. t[i] = s[i] /\ End(t, i - 1) = End(s, i - 1)
      BY <1>3, <1>4, <3>1
    <3>3. QED BY <1>1, <3>1, <3>2 DEF Lined
  <2>3. QED BY <2>1, <2>2
<1>7. ASSUME NEW i \in 0 .. l + 1, NEW j \in 0 .. l + 1, i < j
      PROVE  End(t, i) < End(t, j)
  <2>1. i \in 0 .. l
    BY <1>1, <1>7
  <2>2. End(t, i) = End(s, i) /\ End(s, i) \in Nat /\ End(s, i) <= e
    BY <1>1, <1>4, <2>1, EndTyped
  <2>3. CASE j = l + 1
    <3>1. End(t, j) = e + HeaderSize + q.long
      BY <1>5, <2>3
    <3>2. QED BY <1>1, <1>2, <2>2, <3>1, HeaderRight
  <2>4. CASE j # l + 1
    <3>1. j \in 0 .. l
      BY <1>1, <2>4
    <3>2. End(s, i) < End(s, j)
      BY <1>1, <1>7, <2>1, <3>1 DEF Lined
    <3>3. QED BY <1>4, <2>2, <3>1, <3>2
  <2>5. QED BY <2>3, <2>4
<1>8. Lined(t)
  BY <1>3, <1>6, <1>7 DEF Lined
<1>9. QED BY <1>1, <1>3, <1>4, <1>8 DEF Follows

-----------------------------------------------------------------------------
(* A ring r in which x bytes of the stream have come, the last c of them    *)
(* not yet counted, and of which k packets have been given away; and what   *)
(* it is once they are counted.                                             *)
Carries(r, s, k, x, c) ==
  /\ RingRight(r) /\ r.cap = RingSize
  /\ k \in 0 .. Len(s) /\ x \in Nat /\ c \in Nat
  /\ End(s, k) + c <= x /\ x <= End(s, Len(s))
  /\ Content(r) = Run(End(s, k) + 1, x - c - End(s, k))

Awaits(r, s, k, x, c) ==
  /\ c <= r.cap - 1 - Used(r) /\ RingRight(MoveRear(r, c))
  /\ Content(MoveRear(r, c)) = Run(End(s, k) + 1, x - End(s, k))


LEMMA KernelCarries ==
  ASSUME NEW r, NEW s, Lined(s), NEW k, NEW x, Carries(r, s, k, x, 0),
         NEW n \in Nat, n <= r.cap - 1 - Used(r), NEW y, y = x + n, y <= End(s, Len(s)),
         NEW w, w = FilledByKernel(r, x + 1, n)
  PROVE  Carries(w, s, k, y, n) /\ Awaits(w, s, k, y, n)
<1>1. PICK e \in Nat : e = End(s, k) /\ k \in 0 .. Len(s) /\ x \in Nat /\ e <= x
  BY EndTyped DEF Carries
<1>2. PICK a \in Nat, u \in Nat : a = e + 1 /\ u = x - e
  <2>1. e + 1 \in Nat /\ x - e \in Nat
    BY <1>1
  <2>2. QED BY <2>1
<1>3. RingRight(r) /\ r.cap = RingSize /\ Content(r) = Run(a, u) /\ a + u = x + 1
  <2>1. x - 0 - End(s, k) = u /\ a = End(s, k) + 1
    BY <1>1, <1>2
  <2>2. QED BY <1>1, <1>2, <2>1 DEF Carries
<1>4. w = FilledByKernel(r, a + u, n)
  BY <1>3
<1>5. Received(r, w, a, u, n)
  BY ONLY <1>3, <1>4, KernelFills, n \in Nat, n <= r.cap - 1 - Used(r), a \in Nat, u \in Nat
<1>6. y - n - End(s, k) = u /\ y - End(s, k) = u + n /\ y \in Nat /\ End(s, k) + n <= y
  BY <1>1, <1>2
<1>7. Carries(w, s, k, y, n)
  BY <1>1, <1>2, <1>3, <1>5, <1>6 DEF Carries, Received
<1>8. Awaits(w, s, k, y, n)
  BY <1>1, <1>2, <1>5, <1>6 DEF Awaits, Received
<1>9. QED BY <1>7, <1>8

LEMMA CountedCarries ==
  ASSUME NEW r, NEW s, Lined(s), NEW k, NEW x, NEW c, Carries(r, s, k, x, c),
         Awaits(r, s, k, x, c)
  PROVE  ~(GetFreeSize(r) < c) /\ Carries(MoveRear(r, c), s, k, x, 0)
<1>1. PICK e \in Nat : /\ e = End(s, k) /\ k \in 0 .. Len(s) /\ x \in Nat /\ c \in Nat
                       /\ e + c <= x /\ x <= End(s, Len(s)) /\ RingRight(r)
  BY EndTyped DEF Carries
<1>2. c \in 0 .. r.cap - 1 - Used(r)
  BY <1>1 DEF Awaits
<1>3. ~(GetFreeSize(r) < c)
  BY <1>1, <1>2, SizesRight, RingTypes
<1>4. RearMovedBy(r, c, MoveRear(r, c))
  BY <1>1, <1>2, RearMoved
<1>5. MoveRear(r, c).cap = RingSize
  BY <1>4 DEF RearMovedBy, Carries
<1>6. x - 0 - End(s, k) = x - End(s, k) /\ End(s, k) + 0 <= x
  BY <1>1
<1>7. Carries(MoveRear(r, c), s, k, x, 0)
  BY <1>1, <1>5, <1>6 DEF Carries, Awaits
<1>8. QED BY <1>3, <1>7

(* The header a ring reads as, when there are at least its bytes.           *)
HeaderOf(r, s) ==
  LET bytes == PeekRetBool(r, HeaderSize)
      of == {p \in Range(s) : bytes = Run(p.at, HeaderSize)}
  IN IF of = {} THEN Nonsense ELSE CHOOSE p \in of : TRUE

LEMMA HeaderIs ==
  ASSUME NEW r, NEW s, Lined(s), NEW k, NEW x, Carries(r, s, k, x, 0),
         GetUseSize(r) >= HeaderSize
  PROVE  k + 1 \in 1 .. Len(s) /\ HeaderOf(r, s) = s[k + 1]
<1>1. PICK e \in Nat : /\ e = End(s, k) /\ k \in 0 .. Len(s) /\ x \in Nat /\ e <= x
                       /\ x <= End(s, Len(s)) /\ RingRight(r)
  BY EndTyped DEF Carries
<1>2. PICK a \in Nat, u \in Nat : a = e + 1 /\ u = x - e
  <2>1. e + 1 \in Nat /\ x - e \in Nat
    BY <1>1
  <2>2. QED BY <2>1
<1>3. Content(r) = Run(a, u)
  <2>1. x - 0 - End(s, k) = u /\ a = End(s, k) + 1
    BY <1>1, <1>2
  <2>2. QED BY <2>1 DEF Carries
<1>4. u = GetUseSize(r)
  <2>1. Len(Content(r)) = Used(r) /\ Len(Run(a, u)) = u /\ GetUseSize(r) = Used(r)
    BY <1>1, ContentRight, RunIs, SizesRight DEF RunOf
  <2>2. QED BY <1>3, <2>1
<1>5. PICK h \in Nat \ {0} : h = HeaderSize /\ h <= u
  BY <1>4, HeaderRight
<1>6. PICK i : i = k + 1 /\ i \in 1 .. Len(s) /\ i \in 0 .. Len(s)
  <2>1. e < End(s, Len(s)) /\ Len(s) \in Nat
    BY <1>1, <1>2, <1>5, EndTyped
  <2>2. k # Len(s)
    BY <1>1, <2>1
  <2>3. QED BY <1>1, <2>1, <2>2
<1>7. s[i].at = a /\ s[i] \in Range(s)
  <2>1. s[i].at = End(s, i - 1) + 1 /\ i - 1 = k
    BY <1>1, <1>6, EndTyped
  <2>2. s[i] \in Range(s)
    BY <1>6, LenProperties DEF Range, Lined
  <2>3. QED BY <1>1, <1>2, <2>1, <2>2
<1>8. PeekRetBool(r, h) = Run(a, h)
  BY <1>1, <1>3, <1>5, RunPeeked
<1>9. PICK of : of = {p \in Range(s) : PeekRetBool(r, h) = Run(p.at, h)}
  OBVIOUS
<1>10. s[i] \in of
  BY <1>7, <1>8, <1>9
<1>11. ASSUME NEW p \in of PROVE p = s[i]
  <2>1. PICK j \in 1 .. Len(s) : p = s[j]
    BY <1>9, LenProperties DEF Range, Lined
  <2>2. Run(s[j].at, h) = Run(a, h)
    BY <1>8, <1>9, <2>1
  <2>3. PICK b \in Nat : b = s[j].at
    <3>1. j \in 0 .. Len(s) /\ j > 0
      BY <1>1, <2>1
    <3>2. s[j] \in PacketRecords
      BY <3>1, EndTyped
    <3>3. QED BY <3>2 DEF PacketRecords
  <2>4. b = a
    <3>1. Run(b, h) = Run(a, h)
      BY <2>2, <2>3
    <3>2. QED BY ONLY <3>1, RunsDiffer, h \in Nat \ {0}, a \in Nat, b \in Nat
  <2>5. j = i
    <3>1. /\ j - 1 \in 0 .. Len(s) /\ End(s, j - 1) + 1 = a /\ End(s, j - 1) \in Nat
          /\ j \in 0 .. Len(s)
      <4>1. j \in 0 .. Len(s) /\ j > 0 /\ j - 1 \in 0 .. Len(s)
        BY <1>1, <2>1
      <4>2. QED BY <2>3, <2>4, <4>1, EndTyped
    <3>2. ~(End(s, j - 1) < e) /\ ~(e < End(s, j - 1))
      BY <1>2, <3>1
    <3>3. ~(j - 1 < k) /\ ~(k < j - 1)
      BY <1>1, <3>1, <3>2 DEF Lined
    <3>4. QED BY <1>1, <1>6, <2>1, <3>3
  <2>6. QED BY <2>1, <2>5
<1>12. HeaderOf(r, s) = IF of = {} THEN Nonsense ELSE CHOOSE p \in of : TRUE
  BY <1>5, <1>9 DEF HeaderOf
<1>13. HeaderOf(r, s) = s[i]
  <2>1. (CHOOSE p \in of : TRUE) \in of
    BY <1>10
  <2>2. QED BY <1>10, <1>11, <1>12, <2>1
<1>14. QED BY <1>6, <1>13


LEMMA PacketTaken ==
  ASSUME NEW r, NEW s, Lined(s), NEW k, NEW x, Carries(r, s, k, x, 0),
         NEW i, i = k + 1, i \in 1 .. Len(s), NEW q, q = s[i],
         GetUseSize(r) >= HeaderSize + q.size,
         NEW bytes, bytes = PeekRetBool(MoveFront(r, HeaderSize), q.size),
         NEW t, t = DequeueRetBool(MoveFront(r, HeaderSize), q.size)
  PROVE  /\ ~(GetUseSize(MoveFront(r, HeaderSize)) < q.size)
         /\ bytes = Run(q.at + HeaderSize, q.long) /\ bytes \in Seq(Nat)
         /\ Carries(t, s, i, x, 0)
<1>1. PICK e \in Nat : /\ e = End(s, k) /\ k \in 0 .. Len(s) /\ x \in Nat /\ e <= x
                       /\ x <= End(s, Len(s)) /\ RingRight(r) /\ r.cap = RingSize
  BY EndTyped DEF Carries
<1>2. PICK a \in Nat, u \in Nat : a = e + 1 /\ u = x - e
  <2>1. e + 1 \in Nat /\ x - e \in Nat
    BY <1>1
  <2>2. QED BY <2>1
<1>3. Content(r) = Run(a, u)
  <2>1. x - 0 - End(s, k) = u /\ a = End(s, k) + 1
    BY <1>1, <1>2
  <2>2. QED BY <2>1 DEF Carries
<1>4. u = Used(r) /\ u = GetUseSize(r)
  <2>1. Len(Content(r)) = Used(r) /\ Len(Run(a, u)) = u /\ GetUseSize(r) = Used(r)
    BY <1>1, ContentRight, RunIs, SizesRight DEF RunOf
  <2>2. QED BY <1>3, <2>1
<1>5. PICK h \in Nat, z \in Nat :
        /\ h = HeaderSize /\ z = q.size /\ z = q.long /\ q.at = a /\ h + z <= u
        /\ End(s, i) = a + h + z - 1
  <2>1. i \in 0 .. Len(s) /\ i > 0 /\ i - 1 = k
    BY <1>1
  <2>2. /\ q \in PacketRecords /\ q.size = q.long /\ q.at = End(s, i - 1) + 1
        /\ End(s, i) = q.at + HeaderSize + q.long - 1
    BY <2>1, EndTyped
  <2>3. q.size \in Nat /\ q.long \in Nat /\ HeaderSize \in Nat
    BY <2>2, HeaderRight DEF PacketRecords
  <2>4. q.at = a
    BY <1>1, <1>2, <2>1, <2>2
  <2>5. QED BY <1>4, <2>2, <2>3, <2>4
<1>6. PICK b \in Nat, v \in Nat, c \in Nat, l \in Nat :
        b = a + h /\ v = u - h /\ c = b + z /\ l = v - z
  <2>1. a + h \in Nat /\ u - h \in Nat /\ a + h + z \in Nat /\ u - h - z \in Nat
    BY <1>5
  <2>2. QED BY <2>1
<1>7. PICK body : body = MoveFront(r, h)
  OBVIOUS
<1>8. RingRight(body) /\ body.cap = RingSize /\ Content(body) = Run(b, v)
  <2>1. h \in 0 .. Used(r) /\ h <= u
    BY <1>4, <1>5
  <2>2. FrontMovedBy(r, h, body)
    BY <1>1, <1>7, <2>1, FrontMoved
  <2>3. RingRight(body) /\ body.cap = r.cap /\ Content(body) = Run(a + h, u - h)
    BY <1>1, <1>3, <2>1, <2>2, RunTaken
  <2>4. QED BY <1>1, <1>6, <2>3
<1>9. v = Used(body) /\ v = GetUseSize(body) /\ z <= v
  <2>1. Len(Content(body)) = Used(body) /\ Len(Run(b, v)) = v /\ GetUseSize(body) = Used(body)
    BY <1>8, ContentRight, RunIs, SizesRight DEF RunOf
  <2>2. QED BY <1>5, <1>6, <1>8, <2>1
<1>10. bytes = Run(b, z)
  <2>1. PeekRetBool(body, z) = Run(b, z)
    BY <1>8, <1>9, RunPeeked
  <2>2. QED BY <1>5, <1>7, <2>1
<1>11. t = Taken(body, z)
  BY <1>5, <1>7, <1>9 DEF DequeueRetBool
<1>12. RingRight(t) /\ t.cap = RingSize /\ Content(t) = Run(c, l)
  <2>1. z \in 0 .. Used(body)
    BY <1>9
  <2>2. FrontMovedBy(body, z, t)
    BY <1>8, <1>11, <2>1, TakenFront
  <2>3. RingRight(t) /\ t.cap = body.cap /\ Content(t) = Run(b + z, v - z)
    BY <1>8, <1>9, <2>2, RunTaken
  <2>4. QED BY <1>6, <1>8, <2>3
<1>13. End(s, i) + 1 = c /\ x - 0 - End(s, i) = l /\ End(s, i) + 0 <= x /\ i \in 0 .. Len(s)
  <2>1. PICK f \in Nat : f = End(s, i)
    BY <1>1, EndTyped
  <2>2. f + 1 = c /\ x - 0 - f = l /\ f + 0 <= x
    <3>1. f = a + h + z - 1
      BY <1>5, <2>1
    <3>2. x \in Nat /\ e <= x /\ a = e + 1 /\ u = x - e /\ h + z <= u
      BY <1>1, <1>2, <1>5
    <3>3. b = a + h /\ v = u - h /\ c = b + z /\ l = v - z
      BY <1>6
    <3>4. c = a + h + z /\ l = u - h - z
      BY <3>2, <3>3
    <3>5. f + 1 = c
      BY <3>1, <3>2, <3>4
    <3>6. x - f = l
      BY <3>1, <3>2, <3>4
    <3>7. QED BY <3>2, <3>4, <3>5, <3>6
  <2>3. QED BY <1>1, <2>1, <2>2
<1>14. Carries(t, s, i, x, 0)
  BY <1>1, <1>12, <1>13 DEF Carries
<1>15. bytes \in Seq(Nat)
  BY <1>10, RunIs DEF RunOf
<1>16. QED BY <1>5, <1>6, <1>7, <1>9, <1>10, <1>14, <1>15

-----------------------------------------------------------------------------
(* What always holds of a receive path: what is in the ring, and what was   *)
(* given to OnRecv.                                                         *)
Deliveries == [kind : Kinds, bytes : Seq(Nat), fields : Seq(FieldTypes)]

(* The packets g were given to OnRecv, the first ones of s.                 *)
GivenOf(g, s) ==
  /\ g \in Seq(Deliveries) /\ Len(g) <= Len(s)
  /\ \A i \in 1 .. Len(g) :
       g[i].kind = s[i].kind /\ g[i].bytes = Run(s[i].at + HeaderSize, s[i].long)

StreamInv ==
  /\ Lined(sent) /\ GivenOf(given, sent)
  /\ conn = "failed" => pc = "done"
  /\ conn # "failed" =>
       /\ Carries(recvBuffer, sent, Len(given), got, came)
       /\ pc = "arrived" => Awaits(recvBuffer, sent, Len(given), got, came)
       /\ pc # "arrived" => came = 0
       /\ pc = "idle" => posted = Space(recvBuffer, recvBuffer.rear)

LEMMA InvInit == StreamInit => StreamInv
<1> SUFFICES ASSUME StreamInit PROVE StreamInv
  OBVIOUS
<1>1. /\ sent = <<>> /\ got = 0 /\ recvBuffer = NewRing(RingSize) /\ pc = "post" /\ came = 0
      /\ conn = "up" /\ given = <<>>
  BY DEF StreamInit
<1>2. sent \in Seq(PacketRecords) /\ Len(sent) = 0 /\ given \in Seq(Deliveries) /\ Len(given) = 0
  BY <1>1, EmptySeq
<1>3. Lined(sent) /\ End(sent, 0) = 0
  BY <1>2 DEF Lined, End
<1>4. GivenOf(given, sent)
  BY <1>2 DEF GivenOf
<1>5. PICK c, r : c = RingSize /\ c \in Nat \ {0} /\ r = NewRing(c) /\ r = recvBuffer
  BY <1>1, StreamAssumption
<1>6. RingRight(r) /\ r.cap = c /\ r.front = 0 /\ r.rear = 0
  BY ONLY <1>5, NewRight
<1>7. Content(r) = Run(1, 0)
  <2>1. Used(r) = 0
    BY <1>6 DEF Used
  <2>2. Content(r) \in Seq(Nat) /\ Len(Content(r)) = 0
    BY <1>6, <2>1, ContentRight
  <2>3. Run(1, 0) \in Seq(Nat) /\ Len(Run(1, 0)) = 0
    BY RunIs DEF RunOf
  <2>4. QED BY <2>2, <2>3, SameSeq
<1>8. Carries(recvBuffer, sent, Len(given), got, came)
  <2>1. 0 - 0 - 0 = 0 /\ 0 + 1 = 1 /\ 0 + 0 <= 0 /\ 0 \in 0 .. 0 /\ 0 \in Nat
    OBVIOUS
  <2>2. QED BY <1>1, <1>2, <1>3, <1>5, <1>6, <1>7, <2>1 DEF Carries
<1>9. QED BY <1>1, <1>3, <1>4, <1>8 DEF StreamInv

LEMMA SendKeeps ==
  ASSUME StreamInv, NEW p \in Packets, Send(p)
  PROVE  StreamInv'
<1>1. /\ got = 0 /\ pc = "post"
      /\ sent' = Append(sent, [p EXCEPT !.at = StreamLength + 1])
      /\ UNCHANGED <<got, recvBuffer, posted, pc, came, conn, given>>
  BY DEF Send
<1>2. Lined(sent) /\ GivenOf(given, sent)
  BY DEF StreamInv
<1>3. PICK s, t, g : s = sent /\ t = sent' /\ g = given
  OBVIOUS
<1>4. PICK q : q = [p EXCEPT !.at = End(s, Len(s)) + 1]
  OBVIOUS
<1>5. t = Append(s, q)
  BY <1>1, <1>3, <1>4, EndIs DEF StreamLength
<1>6. Follows(s, t)
  BY <1>2, <1>3, <1>4, <1>5, SentFollows
<1>7. PICK l \in Nat, k \in Nat : l = Len(s) /\ k = Len(g) /\ k <= l /\ Len(t) = l + 1
  BY <1>2, <1>3, <1>6, LenProperties DEF GivenOf, Lined, Follows
<1>8. GivenOf(g, t)
  <2>1. \A i \in 1 .. k : i \in 1 .. l /\ t[i] = s[i]
    BY <1>6, <1>7 DEF Follows
  <2>2. QED BY <1>2, <1>3, <1>7, <2>1 DEF GivenOf
<1>9. conn # "failed" /\ Carries(recvBuffer, s, k, got, came) /\ came = 0
  BY <1>1, <1>3, <1>7 DEF StreamInv
<1>10. Carries(recvBuffer, t, k, got, came)
  <2>1. End(t, k) = End(s, k) /\ k \in 0 .. Len(t)
    BY <1>6, <1>7 DEF Follows
  <2>2. End(t, Len(t)) \in Nat
    BY <1>6, <1>7, EndTyped DEF Follows
  <2>3. got <= End(t, Len(t))
    BY <1>1, <2>2
  <2>4. QED BY <1>9, <2>1, <2>3 DEF Carries
<1>11. Lined(t)
  BY <1>6 DEF Follows
<1>12. /\ sent' = t /\ given' = g /\ recvBuffer' = recvBuffer /\ got' = got /\ came' = came
       /\ Len(given') = k /\ pc' = "post" /\ conn' = conn
  BY <1>1, <1>3, <1>7
<1>13. QED BY <1>8, <1>9, <1>10, <1>11, <1>12 DEF StreamInv

LEMMA PostRecvKeeps ==
  ASSUME StreamInv, ~FromFront, PostRecv
  PROVE  StreamInv'
<1>1. /\ UNCHANGED <<sent, got, recvBuffer, came, conn, given>> /\ pc = "post"
      /\ \/ pc' = "idle" /\ posted' = Space(recvBuffer, recvBuffer.rear)
         \/ pc' = "done"
  BY DEF PostRecv
<1>2. QED BY <1>1 DEF StreamInv

LEMMA ArriveKeeps ==
  ASSUME StreamInv, Arrive
  PROVE  StreamInv'
<1>1. PICK r, s, k, x, c :
        r = recvBuffer /\ s = sent /\ k = Len(given) /\ x = got /\ c = came
  OBVIOUS
<1>2. Lined(s) /\ GivenOf(given, s) /\ conn # "failed" /\ Carries(r, s, k, x, c)
      /\ Awaits(r, s, k, x, c)
  BY <1>1 DEF StreamInv, Arrive
<1>3. ~(GetFreeSize(r) < c) /\ Carries(MoveRear(r, c), s, k, x, 0)
  BY ONLY <1>2, CountedCarries
<1>4. /\ recvBuffer' = MoveRear(r, c) /\ pc' = "cut" /\ conn' = conn /\ came' = 0
      /\ sent' = s /\ given' = given /\ got' = x /\ Len(given') = k
  BY <1>1, <1>3 DEF Arrive
<1>5. QED BY <1>2, <1>3, <1>4 DEF StreamInv

LEMMA OthersKeep ==
  ASSUME StreamInv, Again \/ Disconnect \/ UNCHANGED streamVars
  PROVE  StreamInv'
<1>1. CASE Again
  <2>1. pc' = "post" /\ pc = "cut" /\ UNCHANGED <<sent, got, recvBuffer, came, conn, given>>
    BY <1>1 DEF Again
  <2>2. QED BY <2>1 DEF StreamInv
<1>2. CASE Disconnect
  <2>1. /\ conn = "up" /\ conn' = "asked"
        /\ UNCHANGED <<sent, got, recvBuffer, came, given>>
        /\ posted' = <<>> /\ pc' = IF pc = "idle" THEN "done" ELSE pc
    BY <1>2 DEF Disconnect
  <2>2. CASE pc = "idle"
    BY <2>1, <2>2 DEF StreamInv
  <2>3. CASE pc # "idle"
    BY <2>1, <2>3 DEF StreamInv
  <2>4. QED BY <2>2, <2>3
<1>3. CASE UNCHANGED streamVars
  BY <1>3 DEF StreamInv, streamVars
<1>4. QED BY <1>1, <1>2, <1>3

LEMMA FillKeeps ==
  ASSUME StreamInv, Fill
  PROVE  StreamInv'
<1>1. PICK r, s, g, k, x, p :
        r = recvBuffer /\ s = sent /\ g = given /\ k = Len(g) /\ x = got /\ p = posted
  OBVIOUS
<1>2. /\ Lined(s) /\ GivenOf(g, s) /\ conn # "failed" /\ Carries(r, s, k, x, 0)
      /\ p = Space(r, r.rear)
  BY <1>1 DEF StreamInv, Fill
<1>3. PICK d \in Nat, f \in Nat : /\ d = DirectEnqueueSize(r) /\ f = GetFreeSize(r)
                                  /\ f = r.cap - 1 - Used(r) /\ d <= f
  BY <1>2, SizesRight, RingTypes, DirectRight DEF Carries
<1>4. /\ p[1] = <<r.rear, d>>
      /\ (f - d > 0 => Len(p) = 2 /\ p[2] = <<0, f - d>>)
      /\ (~(f - d > 0) => Len(p) = 1)
  BY <1>2, <1>3 DEF Space
<1>5. Room = f
  <2>1. CASE f - d > 0
    BY <1>1, <1>3, <1>4, <2>1 DEF Room
  <2>2. CASE ~(f - d > 0)
    BY <1>1, <1>3, <1>4, <2>2 DEF Room
  <2>3. QED BY <2>1, <2>2
<1>6. PICK m \in Nat : m = StreamLength - got /\ x + m = End(s, Len(s))
  <2>1. got < StreamLength /\ StreamLength = End(s, Len(s)) /\ x \in Nat
    BY <1>1, <1>2, EndIs DEF Fill, StreamLength, Carries
  <2>2. End(s, Len(s)) \in Nat
    <3>1. Len(s) \in 0 .. Len(s)
      BY <1>2, LenProperties DEF Lined
    <3>2. QED BY <1>2, <3>1, EndTyped
  <2>3. QED BY <1>1, <2>1, <2>2
<1>7. PICK n \in Nat, one \in Nat :
        /\ n <= f /\ n <= m /\ one = Lesser(n, d)
        /\ recvBuffer' =
             IF n = one THEN Write(r, r.rear, Run(x + 1, one))
             ELSE Write(Write(r, r.rear, Run(x + 1, one)), p[2][1], Run(x + one + 1, n - one))
        /\ got' = x + n /\ came' = n
        /\ pc' = IF n = 0 THEN "done" ELSE "arrived"
        /\ conn' = IF n = 0 THEN "failed" ELSE conn
  <2> DEFINE one(n) == Lesser(n, p[1][2])
             first(n) == Write(r, p[1][1], Run(x + 1, one(n)))
  <2>1. PICK n \in (IF Lesser(f, m) = 0 THEN 0 ELSE 1) .. Lesser(f, m) :
          /\ recvBuffer' = IF n = one(n) THEN first(n)
                           ELSE Write(first(n), p[2][1], Run(x + one(n) + 1, n - one(n)))
          /\ got' = x + n /\ came' = n
          /\ pc' = IF n = 0 THEN "done" ELSE "arrived"
          /\ conn' = IF n = 0 THEN "failed" ELSE conn
    BY <1>1, <1>5, <1>6 DEF Fill
  <2>2. p[1][2] = d /\ p[1][1] = r.rear
    BY <1>4
  <2>3. n \in Nat /\ n <= f /\ n <= m
    BY DEF Lesser
  <2>4. Lesser(n, d) \in Nat
    BY <2>3 DEF Lesser
  <2>5. QED BY <2>1, <2>2, <2>3, <2>4
<1>8. sent' = s /\ given' = g /\ Len(given') = k
  BY <1>1 DEF Fill
<1>9. CASE n = 0
  BY <1>2, <1>7, <1>8, <1>9 DEF StreamInv
<1>10. CASE n # 0
  <2>1. PICK w : w = recvBuffer'
    OBVIOUS
  <2>2. w = FilledByKernel(r, x + 1, n)
    <3>1. CASE n <= d
      <4>1. one = n
        BY <1>7, <3>1 DEF Lesser
      <4>2. w = Write(r, r.rear, Run(x + 1, n))
        BY <1>7, <2>1, <4>1
      <4>3. QED BY <1>3, <3>1, <4>2 DEF FilledByKernel
    <3>2. CASE d < n
      <4>1. one = d /\ n # one
        BY <1>7, <3>2 DEF Lesser
      <4>2. p[2][1] = 0
        BY <1>3, <1>4, <1>7, <3>2
      <4>3. w = Write(Write(r, r.rear, Run(x + 1, d)), 0, Run(x + d + 1, n - d))
        BY <1>7, <2>1, <4>1, <4>2
      <4>4. x + d + 1 = x + 1 + d
        BY <1>2 DEF Carries
      <4>5. QED BY <1>3, <3>2, <4>3, <4>4 DEF FilledByKernel
    <3>3. QED BY <3>1, <3>2
  <2>3. PICK y : y = x + n /\ y <= End(s, Len(s))
    BY <1>2, <1>6, <1>7 DEF Carries
  <2>4. n <= r.cap - 1 - Used(r)
    BY <1>3, <1>7
  <2>5. Carries(w, s, k, y, n) /\ Awaits(w, s, k, y, n)
    BY ONLY <1>2, <2>2, <2>3, <2>4, KernelCarries, n \in Nat
  <2>6. pc' = "arrived" /\ conn' = conn /\ got' = y /\ came' = n
    BY <1>7, <1>10, <2>3
  <2>7. QED BY <1>2, <1>8, <2>1, <2>5, <2>6 DEF StreamInv
<1>11. QED BY <1>9, <1>10

LEMMA DeliverKeeps ==
  ASSUME StreamInv, Deliver
  PROVE  StreamInv'
<1>1. PICK r, s, g, k, x :
        r = recvBuffer /\ s = sent /\ g = given /\ k = Len(g) /\ x = got
  OBVIOUS
<1>2. /\ Lined(s) /\ GivenOf(g, s) /\ conn # "failed" /\ Carries(r, s, k, x, 0)
      /\ pc = "cut" /\ came = 0
  BY <1>1 DEF StreamInv, Deliver
<1>3. PICK i, q : i = k + 1 /\ i \in 1 .. Len(s) /\ q = s[i] /\ Header = q
  <2>1. Header = HeaderOf(r, s) /\ GetUseSize(r) >= HeaderSize
    BY <1>1 DEF Deliver, Whole, Header, HeaderOf
  <2>2. k + 1 \in 1 .. Len(s) /\ HeaderOf(r, s) = s[k + 1]
    BY ONLY <1>2, <2>1, HeaderIs
  <2>3. QED BY <2>1, <2>2
<1>4. q \in PacketRecords
  <2>1. i \in 0 .. Len(s) /\ i > 0
    BY <1>2, <1>3, LenProperties DEF Lined
  <2>2. QED BY <1>2, <1>3, <2>1, EndTyped
<1>5. PICK body, bytes, t :
        /\ body = MoveFront(r, HeaderSize) /\ bytes = PeekRetBool(body, q.size)
        /\ t = DequeueRetBool(body, q.size)
  OBVIOUS
<1>6. GetUseSize(r) >= HeaderSize + q.size
  BY <1>1, <1>3 DEF Deliver, Whole
<1>7. /\ ~(GetUseSize(body) < q.size)
      /\ bytes = Run(q.at + HeaderSize, q.long) /\ bytes \in Seq(Nat)
      /\ Carries(t, s, i, x, 0)
  BY ONLY <1>2, <1>3, <1>5, <1>6, PacketTaken
<1>8. /\ recvBuffer' = t /\ UNCHANGED <<conn, pc, sent, got, came>>
      /\ \E fs \in IF Ways(Handlers(q.n), q.kind) = {} THEN {<<>>}
                   ELSE Ways(Handlers(q.n), q.kind) :
           given' = Append(g, [kind |-> q.kind, bytes |-> bytes, fields |-> fs])
  <2>1. q.kind \in Kinds
    BY <1>4 DEF PacketRecords
  <2>2. PICK ways : ways = Ways(Handlers(q.n), q.kind)
    OBVIOUS
  <2>3. /\ UNCHANGED <<sent, got, came>> /\ recvBuffer' = t
        /\ IF GetUseSize(body) < q.size
           THEN conn' = "failed" /\ pc' = "done" /\ given' = given
           ELSE /\ UNCHANGED <<conn, pc>>
                /\ \E fs \in IF ways = {} THEN {<<>>} ELSE ways :
                     given' = Append(given, [kind |-> q.kind, bytes |-> bytes, fields |-> fs])
    BY <1>1, <1>3, <1>5, <2>1, <2>2 DEF Deliver
  <2>4. QED BY <1>1, <1>7, <2>2, <2>3
<1>9. PICK fs \in Seq(FieldTypes) :
        given' = Append(g, [kind |-> q.kind, bytes |-> bytes, fields |-> fs])
  <2>1. \A f \in Ways(Handlers(q.n), q.kind) : f \in Seq(FieldTypes)
    <3>1. ASSUME NEW f \in Ways(Handlers(q.n), q.kind) PROVE f \in Seq(FieldTypes)
      <4>1. PICK w \in UNION Handlers(q.n) : f = w[2]
        BY <3>1 DEF Ways
      <4>2. q.n \in Nat
        BY <1>4 DEF PacketRecords
      <4>3. QED BY <4>1, <4>2, HandlersFit
    <3>2. QED BY <3>1
  <2>2. <<>> \in Seq(FieldTypes)
    BY EmptySeq
  <2>3. QED BY <1>8, <2>1, <2>2
<1>10. PICK d, h : /\ d = [kind |-> q.kind, bytes |-> bytes, fields |-> fs]
                   /\ given' = h /\ h = Append(g, d)
  BY <1>9
<1>11. d \in Deliveries
  <2>1. q.kind \in Kinds
    BY <1>4 DEF PacketRecords
  <2>2. QED BY <1>7, <1>10, <2>1 DEF Deliveries
<1>12. /\ g \in Seq(Deliveries) /\ k \in Nat /\ h \in Seq(Deliveries) /\ Len(h) = i
       /\ h[i] = d /\ \A j \in 1 .. k : h[j] = g[j]
  <2>1. g \in Seq(Deliveries)
    BY <1>2 DEF GivenOf
  <2>2. QED BY <1>1, <1>3, <1>10, <1>11, <2>1, AppendProperties, LenProperties
<1>13. GivenOf(h, s)
  <2>1. ASSUME NEW j \in 1 .. i
        PROVE  /\ h[j].kind = s[j].kind
               /\ h[j].bytes = Run(s[j].at + HeaderSize, s[j].long)
    <3>1. CASE j = i
      BY <1>3, <1>7, <1>10, <1>12, <3>1
    <3>2. CASE j # i
      <4>1. j \in 1 .. k
        BY <1>3, <1>12, <3>2
      <4>2. h[j] = g[j]
        BY <1>12, <4>1
      <4>3. QED BY <1>1, <1>2, <4>1, <4>2 DEF GivenOf
    <3>3. QED BY <3>1, <3>2
  <2>2. i <= Len(s)
    BY <1>3
  <2>3. QED BY <1>12, <2>1, <2>2 DEF GivenOf
<1>14. /\ sent' = s /\ given' = h /\ recvBuffer' = t /\ got' = x /\ came' = 0 /\ pc' = "cut"
       /\ conn' = conn /\ Len(given') = i
  BY <1>1, <1>2, <1>8, <1>10, <1>12
<1>15. QED BY <1>2, <1>7, <1>13, <1>14 DEF StreamInv

LEMMA StreamInvariance ==
  ASSUME ~FromFront
  PROVE  StreamSpec => []StreamInv
<1>1. StreamInit => StreamInv
  BY InvInit
<1>2. StreamInv /\ [StreamNext]_streamVars => StreamInv'
  BY SendKeeps, PostRecvKeeps, FillKeeps, ArriveKeeps, DeliverKeeps, OthersKeep
     DEF StreamNext, Worker
<1>3. QED BY <1>1, <1>2, PTL DEF StreamSpec

(* Whatever the network cuts and wherever the ring wraps, the ring of a     *)
(* server holds what has come and has not been given to OnRecv, in order    *)
(* (IocpServer.cpp:646, RingBuffer.cpp:83).                                 *)
THEOREM RingAlwaysHolds ==
  ASSUME ~FromFront
  PROVE  StreamSpec => []RingHolds
<1>1. StreamInv => RingHolds
  <2>1. SUFFICES ASSUME StreamInv, conn # "failed"
                 PROVE  /\ Len(given) <= Len(sent)
                        /\ Content(recvBuffer) = Run(EndOf(Len(given)) + 1,
                                                     got - came - EndOf(Len(given)))
    BY DEF RingHolds
  <2>2. Carries(recvBuffer, sent, Len(given), got, came) /\ GivenOf(given, sent)
    BY <2>1 DEF StreamInv
  <2>3. EndOf(Len(given)) = End(sent, Len(given))
    BY EndIs
  <2>4. QED BY <2>2, <2>3 DEF Carries, GivenOf
<1>2. QED BY <1>1, StreamInvariance, PTL

(* OnRecv is given the packets that the peer sent, each of them whole, in   *)
(* their order (IocpServer.cpp:412, PacketDefine.h:127).                    *)
THEOREM PacketsAlwaysWhole ==
  ASSUME ~FromFront
  PROVE  StreamSpec => []PacketsWhole
<1>1. StreamInv => PacketsWhole
  <2>1. SUFFICES ASSUME StreamInv PROVE PacketsWhole
    OBVIOUS
  <2>2. Lined(sent) /\ GivenOf(given, sent)
    BY <2>1 DEF StreamInv
  <2>3. DOMAIN given = 1 .. Len(given) /\ DOMAIN sent = 1 .. Len(sent)
        /\ Len(given) \in Nat /\ Len(sent) \in Nat
    BY <2>2, LenProperties DEF Lined, GivenOf
  <2>4. QED BY <2>2, <2>3 DEF GivenOf, PacketsWhole
<1>2. QED BY <1>1, StreamInvariance, PTL
=============================================================================
