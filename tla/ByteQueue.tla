------------------------------ MODULE ByteQueue ------------------------------
(***************************************************************************)
(* What a byte buffer promises its caller: a bounded queue.  The calls of  *)
(* the first kind do all they are asked for or nothing and say which; the  *)
(* others do as much as they can and say how much.                         *)
(***************************************************************************)
EXTENDS Naturals, Sequences

CONSTANTS Data,     (* the sequences of bytes callers have at hand          *)
          Rooms     (* the capacities a caller asks for                     *)

VARIABLES bytes,    (* what has been put and not been got                   *)
          room,     (* how many bytes fit                                   *)
          answer    (* of the last call: <<result, bytes handed out>>       *)

vars == <<bytes, room, answer>>

(* A bool that is returned.                                                 *)
Ok(p) == IF p THEN 1 ELSE 0

Lesser(a, b) == IF a < b THEN a ELSE b
First(n) == SubSeq(bytes, 1, n)
Rest(n) == SubSeq(bytes, n + 1, Len(bytes))

Init == bytes = <<>> /\ room \in Rooms /\ answer = <<0, <<>>>>

Put(d) ==
  /\ bytes' = IF Len(bytes) + Len(d) > room THEN bytes ELSE bytes \o d
  /\ answer' = <<Ok(Len(bytes) + Len(d) <= room), <<>>>> /\ UNCHANGED room

PutSome(d) ==
  LET n == Lesser(Len(d), room - Len(bytes)) IN
  /\ bytes' = bytes \o SubSeq(d, 1, n) /\ answer' = <<n, <<>>>> /\ UNCHANGED room

Get(n, keep) ==
  /\ answer' = IF n > Len(bytes) THEN <<0, <<>>>> ELSE <<1, First(n)>>
  /\ bytes' = IF keep \/ n > Len(bytes) THEN bytes ELSE Rest(n)
  /\ UNCHANGED room

GetSome(n, keep) ==
  LET m == Lesser(n, Len(bytes)) IN
  /\ answer' = <<m, First(m)>> /\ bytes' = IF keep THEN bytes ELSE Rest(m)
  /\ UNCHANGED room

Skip(n) ==
  /\ answer' = <<Ok(n <= Len(bytes)), <<>>>>
  /\ bytes' = IF n > Len(bytes) THEN bytes ELSE Rest(n)
  /\ UNCHANGED room

Grow(r) ==
  /\ room' = IF r < room THEN room ELSE r
  /\ answer' = <<Ok(r >= room), <<>>>> /\ UNCHANGED bytes

Empty == bytes' = <<>> /\ answer' = <<0, <<>>>> /\ UNCHANGED room

Next ==
  \/ \E d \in Data : Put(d) \/ PutSome(d)
  \/ \E n \in 0 .. room + 1, keep \in BOOLEAN : Get(n, keep) \/ GetSome(n, keep)
  \/ \E n \in 0 .. room + 1 : Skip(n)
  \/ \E r \in Rooms : Grow(r)
  \/ Empty

Spec == Init /\ [][Next]_vars
=============================================================================
