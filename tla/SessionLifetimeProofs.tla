------------------------ MODULE SessionLifetimeProofs ------------------------
(***************************************************************************)
(* Proofs about SessionLifetime, for any finite arrays of slots, any        *)
(* number of worker threads, connections, messages and calls.               *)
(*                                                                         *)
(* Type correctness is proved whoever calls.  That m_lIoCount is exact, and *)
(* what follows from it, is proved of sessions whose own handlers are the   *)
(* only callers; session_wrong_session shows why not of the others.  There  *)
(* a thread refers to one slot at a time, and its place in the program says *)
(* how often (Shapes).  The counter being the number of the references of   *)
(* threads, kernel and port (RefsExact), whoever holds one knows that       *)
(* nobody deletes, creates or recycles the slot, and whoever brings it to   *)
(* zero that nobody else refers to it (Lifecycle).                          *)
(***************************************************************************)
EXTENDS SessionLifetime, FiniteSetTheorems, FunctionTheorems, TLAPS

InHandler == {"handler", "recvPost"}
InSend == {"sent", "sentMore", "sendCheck", "sendClaim", "sendPost", "sendReset"}
InCall == {"acquire", "acquireConn", "acquireRef"}
InUse == {"use", "cancel"}
InDelete == {"delete", "deleteCas", "teardown", "clear", "clearCount", "recycle"}
Serving == {"connect", "recv", "send", "request"}

(* In every mode: the slot, target or owed call a place in the program uses *)
(* is there.                                                                *)
Control ==
  \A t \in Threads :
    /\ pc[t] \in {"activate", "open"} \cup InHandler \cup InSend =>
         cur[t] \in Slots
    /\ pc[t] \in {"activate", "open"} => sid[t] \in Ids /\ SlotOf(sid[t]) = cur[t]
    /\ back[t] = "handler" /\ pc[t] \in InCall \cup InUse \cup {"dec"} \cup InDelete =>
         cur[t] \in Slots
    /\ pc[t] \in {"acquireConn", "acquireRef"} \cup InUse => tgt[t] \in Ids
    /\ pc[t] \in {"dec"} \cup InDelete => owed[t] # <<>>

-----------------------------------------------------------------------------
(* The rest is for sessions whose own handlers are the only callers.        *)

(* Thread t holds n references to its slot and none to another.             *)
Holds(t, n) ==
  \A s \in Slots : held[t][s] = IF s = cur[t] THEN n ELSE 0

InHand(t) == IF back[t] = "handler" THEN 1 ELSE 0

Shape(t) ==
  /\ pc[t] = "idle" =>
       /\ cur[t] = NoSlot /\ sid[t] = NoId /\ kind[t] = "none"
       /\ owed[t] = <<>> /\ back[t] = "idle" /\ Holds(t, 0)
  /\ pc[t] \in {"activate", "open"} =>
       /\ t = Acceptor /\ kind[t] = "accept"
       /\ owed[t] = <<>> /\ back[t] = "idle"
       /\ Holds(t, IF pc[t] = "open" THEN 1 ELSE 0)
  /\ pc[t] \in InHandler =>
       kind[t] \in {"connect", "recv"} /\ owed[t] = <<>> /\ Holds(t, 1)
  /\ pc[t] \in InSend =>
       kind[t] \in {"send", "request"} /\ owed[t] = <<>> /\ Holds(t, 1)
  /\ pc[t] \in InCall \cup InUse =>
       /\ kind[t] \in {"connect", "recv"} /\ tgt[t] = sid[t] /\ cur[t] \in Slots
       /\ \/ back[t] = "handler" /\ owed[t] = <<>>
          \/ back[t] = "idle" /\ op[t] = "disconnect" /\ owed[t] = <<cur[t], cur[t]>>
       /\ Holds(t, (2 - InHand(t)) + (IF pc[t] \in InUse THEN 1 ELSE 0))
  /\ pc[t] = "dec" =>
       /\ kind[t] \in Serving /\ cur[t] \in Slots
       /\ Len(owed[t]) \in 1 .. 3
       /\ \A i \in 1 .. Len(owed[t]) : owed[t][i] = cur[t]
       /\ back[t] = "handler" => kind[t] \in {"connect", "recv"} /\ Len(owed[t]) < 3
       /\ Holds(t, Len(owed[t]) + InHand(t))
  /\ pc[t] \in InDelete =>
       /\ back[t] = "idle" /\ Len(owed[t]) = 1
       /\ \/ /\ t = Acceptor /\ kind[t] = "accept"
             /\ pc[t] \in {"clear", "clearCount", "recycle"}
             /\ cur[t] = Head(owed[t])
             /\ Holds(t, IF pc[t] = "recycle" THEN 0 ELSE 1)
          \/ /\ kind[t] = "none" /\ cur[t] = NoSlot /\ sid[t] = NoId
             /\ Holds(t, 0)
  /\ cur[t] \in Slots => sid[t] \in Ids /\ SlotOf(sid[t]) = cur[t]
  /\ kind[t] # "none" => cur[t] \in Slots

Shapes == \A t \in Threads : Shape(t)

(* A reference is to the session that has the slot.                         *)
Has(s, g) == sessionId[s] = g /\ socket[s] = g

Attached ==
  /\ \A t \in Threads :
       kind[t] \in Serving \/ pc[t] = "open" => Has(cur[t], sid[t])
  /\ \A i \in 1 .. Len(port) :
       port[i].slot = SlotOf(port[i].sid) /\ Has(port[i].slot, port[i].sid)
  /\ \A g \in Ids : recvIo[g] > 0 \/ sendIo[g] > 0 => Has(SlotOf(g), g)

RefsExact ==
  \A s \in Slots :
    References(s) = IF ioCount[s] = DeleteFlag THEN 0 ELSE ioCount[s]

(* A slot is free, being created, in use, or being deleted by one thread.   *)
Cleared(s) ==
  /\ sessionId[s] = NoId /\ socket[s] = NoId /\ sendQ[s] = <<>>
  /\ ioCount[s] = 0 /\ ~connected[s]

Deleting(t, s) == pc[t] \in InDelete /\ Head(owed[t]) = s

Fields(t, s) ==
  /\ pc[t] \in {"delete", "deleteCas", "recycle"} => ioCount[s] = 0
  /\ pc[t] \in {"teardown", "clear", "clearCount"} =>
       ioCount[s] = IF kind[t] = "accept" THEN 1 ELSE DeleteFlag
  /\ pc[t] \in {"delete", "deleteCas", "teardown", "clear"} =>
       \E g \in Ids : SlotOf(g) = s /\ Has(s, g)
  /\ pc[t] \in {"clearCount", "recycle"} => Has(s, NoId) /\ sendQ[s] = <<>>

Lifecycle ==
  /\ IsInjective(indexStack)
  /\ \A i \in 1 .. Len(indexStack) : Cleared(indexStack[i])
  /\ pc[Acceptor] = "activate" =>
       /\ Cleared(cur[Acceptor])
       /\ \A i \in 1 .. Len(indexStack) : indexStack[i] # cur[Acceptor]
  /\ pc[Acceptor] = "open" => ioCount[cur[Acceptor]] = 1
  /\ \A t \in Threads, s \in Slots : Deleting(t, s) =>
       /\ \A i \in 1 .. Len(indexStack) : indexStack[i] # s
       /\ pc[Acceptor] \in {"activate", "open"} => cur[Acceptor] # s
       /\ \A u \in Threads : Deleting(u, s) => u = t
       /\ Fields(t, s)

IndexRight ==
  Len(indexStack) + sessionCount
    + Cardinality({t \in Threads : kind[t] = "accept"}) = Cardinality(Slots)

(* The positions of q that hold an element of E.                            *)
At(q, E) == {i \in 1 .. Len(q) : q[i] \in E}
Entries(k, s) == {e \in Completions : e.kind = k /\ e.slot = s}
Requests == {e \in Completions : e.kind = "request"}

(* Every request that waits, and every handler that calls, is one of calls. *)
Callers == {t \in Threads : pc[t] \in InCall \cup {"use"} /\ back[t] = "handler"}
CallsRight == Cardinality(Callers) + Cardinality(At(port, Requests)) <= calls

(* The receive side goes round: thread, WSARecv, completion, thread.        *)
Receivers(s) ==
  {t \in Threads : cur[t] = s /\ kind[t] \in {"connect", "recv"}
     /\ \/ pc[t] \in InHandler
        \/ back[t] = "handler" /\ pc[t] \in InCall \cup InUse \cup {"dec"}}
RecvSide(s) ==
  Cardinality(Receivers(s)) + Cardinality(Outstanding(recvIo, s))
    + Cardinality(At(port, Entries("recv", s)))

(* So does the send side, with the send flag up.                            *)
Senders(s) == {t \in Threads : cur[t] = s /\ pc[t] \in {"sent", "sendPost", "sendReset"}}
SendSide(s) ==
  Cardinality(Senders(s)) + Cardinality(Outstanding(sendIo, s))
    + Cardinality(At(port, Entries("send", s)))

Sides ==
  \A s \in Slots :
    RecvSide(s) <= 1 /\ SendSide(s) <= 1 /\ (SendSide(s) = 1 => sendFlag[s])

(* OnDisconnected has been given the id of a session that is still in its   *)
(* slot only by the thread that is about to clear the slot.                 *)
GoneRight ==
  /\ \A g \in Ids :
       /\ g[2] > idGen => gone[g] = 0 /\ sessionId[SlotOf(g)] # g
       /\ gone[g] <= 1
       /\ gone[g] = 1 => g \in announced
       /\ sessionId[SlotOf(g)] = g =>
            /\ \/ gone[g] = 0
               \/ \E t \in Threads : Deleting(t, SlotOf(g)) /\ pc[t] = "clear"
            /\ g \in announced \/ (kind[Acceptor] = "accept" /\ cur[Acceptor] = SlotOf(g))
  /\ kind[Acceptor] = "accept" =>
       gone[sid[Acceptor]] = 0 /\ sid[Acceptor][2] <= idGen

QueueRight ==
  /\ \A s \in Slots : \A i \in 1 .. Len(sendQ[s]) : sendQ[s][i] = sessionId[s]
  /\ \A p \in sentTo : p[1] = p[2]

Own ==
  /\ Shapes /\ Attached /\ RefsExact /\ Lifecycle
  /\ IndexRight /\ CallsRight /\ Sides /\ GoneRight /\ QueueRight

IInv == TypeOK /\ Control /\ (~foreign => Own)

-----------------------------------------------------------------------------
(* Counting.  Tokens(X, f) has f[x] elements for each x of X.               *)
Tokens(X, f) == UNION {{x} \X (1 .. f[x]) : x \in X}

LEMMA TokensFinite ==
  ASSUME NEW X, IsFiniteSet(X), NEW f, \A x \in X : f[x] \in Nat
  PROVE  IsFiniteSet(Tokens(X, f)) /\ Cardinality(Tokens(X, f)) \in Nat
<1> DEFINE Row(x) == {x} \X (1 .. f[x])
           R == {Row(x) : x \in X}
           m == [x \in X |-> Row(x)]
<1>1. m \in Surjection(X, R)
  BY DEF Surjection
<1>2. IsFiniteSet(R)
  BY <1>1, FS_Surjection
<1>3. ASSUME NEW x \in X PROVE IsFiniteSet(Row(x))
  <2>1. IsFiniteSet({x}) BY FS_Singleton
  <2>2. IsFiniteSet(1 .. f[x]) BY FS_Interval
  <2>3. QED BY <2>1, <2>2, FS_Product
<1>4. \A T \in R : IsFiniteSet(T)
  BY <1>3
<1>5. IsFiniteSet(UNION R)
  BY <1>2, <1>4, FS_UNION
<1>6. QED BY <1>5, FS_CardinalityType DEF Tokens

LEMMA RowCount ==
  ASSUME NEW x, NEW a \in Int, NEW b \in Int, a <= b + 1
  PROVE  IsFiniteSet({x} \X (a .. b)) /\ Cardinality({x} \X (a .. b)) = b - a + 1
<1>1. IsFiniteSet({x}) /\ Cardinality({x}) = 1 BY FS_Singleton
<1>2. IsFiniteSet(a .. b) /\ Cardinality(a .. b) = b - a + 1
  BY FS_Interval
<1>3. /\ IsFiniteSet({x} \X (a .. b))
      /\ Cardinality({x} \X (a .. b)) = Cardinality({x}) * Cardinality(a .. b)
  BY <1>1, <1>2, FS_Product
<1>4. \A n \in Int : 1 * n = n OBVIOUS
<1>5. QED BY <1>1, <1>2, <1>3, <1>4

LEMMA TokensMore ==
  ASSUME NEW X, IsFiniteSet(X), NEW f, NEW g, NEW x \in X, NEW k \in Nat,
         \A y \in X : f[y] \in Nat,
         g[x] = f[x] + k, \A y \in X \ {x} : g[y] = f[y]
  PROVE  Cardinality(Tokens(X, g)) = Cardinality(Tokens(X, f)) + k
<1> DEFINE N == {x} \X (f[x] + 1 .. f[x] + k)
<1>1. IsFiniteSet(N) /\ Cardinality(N) = k
  <2>1. /\ f[x] + 1 \in Int /\ f[x] + k \in Int /\ f[x] + 1 <= f[x] + k + 1
        /\ (f[x] + k) - (f[x] + 1) + 1 = k
    OBVIOUS
  <2>2. QED BY <2>1, RowCount
<1>2. IsFiniteSet(Tokens(X, f)) /\ Cardinality(Tokens(X, f)) \in Nat
  BY TokensFinite
<1>3. Tokens(X, g) = Tokens(X, f) \cup N
  <2>1. \A y \in X, i \in Nat : i \in 1 .. g[y] <=>
          i \in 1 .. f[y] \/ (y = x /\ i \in f[x] + 1 .. f[x] + k)
    OBVIOUS
  <2>2. \A e : e \in Tokens(X, f) <=>
          \E y \in X, i \in Nat : e = <<y, i>> /\ i \in 1 .. f[y]
    BY DEF Tokens
  <2>3. \A e : e \in Tokens(X, g) <=>
          \E y \in X, i \in Nat : e = <<y, i>> /\ i \in 1 .. g[y]
    BY DEF Tokens
  <2>4. \A e : e \in N <=>
          \E i \in Nat : e = <<x, i>> /\ i \in f[x] + 1 .. f[x] + k
    OBVIOUS
  <2>5. QED BY <2>1, <2>2, <2>3, <2>4
<1>4. Tokens(X, f) \cap N = {}
  BY DEF Tokens
<1>5. QED BY <1>1, <1>2, <1>3, <1>4, FS_Union, FS_EmptySet

LEMMA TokensAtLeast ==
  ASSUME NEW X, IsFiniteSet(X), NEW f, \A y \in X : f[y] \in Nat, NEW x \in X
  PROVE  /\ f[x] <= Cardinality(Tokens(X, f))
         /\ \A z \in X \ {x} : f[x] + f[z] <= Cardinality(Tokens(X, f))
<1> DEFINE Row(y) == {y} \X (1 .. f[y])
<1>1. ASSUME NEW y \in X PROVE IsFiniteSet(Row(y)) /\ Cardinality(Row(y)) = f[y]
  <2>1. 1 \in Int /\ f[y] \in Int /\ 1 <= f[y] + 1 /\ f[y] - 1 + 1 = f[y]
    OBVIOUS
  <2>2. QED BY <2>1, RowCount
<1>2. IsFiniteSet(Tokens(X, f))
  BY TokensFinite
<1>3. \A y \in X : Row(y) \subseteq Tokens(X, f)
  BY DEF Tokens
<1>4. f[x] <= Cardinality(Tokens(X, f))
  <2>1. Row(x) \in SUBSET Tokens(X, f) BY <1>3
  <2>2. Cardinality(Row(x)) <= Cardinality(Tokens(X, f))
    BY <1>2, <2>1, FS_Subset
  <2>3. QED BY <1>1, <2>2
<1>5. ASSUME NEW z \in X \ {x}
      PROVE  f[x] + f[z] <= Cardinality(Tokens(X, f))
  <2>1. Row(x) \cap Row(z) = {} OBVIOUS
  <2>2. Cardinality(Row(x) \cup Row(z)) = f[x] + f[z] - 0
    <3> HIDE DEF Row
    <3>1. /\ IsFiniteSet(Row(x)) /\ Cardinality(Row(x)) = f[x]
          /\ IsFiniteSet(Row(z)) /\ Cardinality(Row(z)) = f[z]
      BY <1>1
    <3>2. QED BY <2>1, <3>1, FS_Union, FS_EmptySet
  <2>3. Row(x) \cup Row(z) \in SUBSET Tokens(X, f)
    BY <1>3
  <2>4. Cardinality(Row(x) \cup Row(z)) <= Cardinality(Tokens(X, f))
    BY <1>2, <2>3, FS_Subset
  <2>5. QED BY <2>2, <2>4
<1>6. QED BY <1>4, <1>5

(* How many elements of a queue are in E: queues are joined end to end.     *)
LEMMA AtFinite ==
  ASSUME NEW T, NEW q \in Seq(T), NEW E
  PROVE  /\ IsFiniteSet(At(q, E)) /\ Cardinality(At(q, E)) \in Nat
         /\ Cardinality(At(q, E)) <= Len(q)
<1>1. Len(q) \in Nat OBVIOUS
<1>2. IsFiniteSet(1 .. Len(q)) /\ Cardinality(1 .. Len(q)) = Len(q)
  BY <1>1, FS_Interval
<1>3. At(q, E) \in SUBSET (1 .. Len(q)) BY DEF At
<1>4. QED BY <1>2, <1>3, FS_Subset, FS_CardinalityType

LEMMA AtConcat ==
  ASSUME NEW T, NEW p \in Seq(T), NEW q \in Seq(T), NEW E
  PROVE  Cardinality(At(p \o q, E)) = Cardinality(At(p, E)) + Cardinality(At(q, E))
<1> DEFINE shift == {i \in Len(p) + 1 .. Len(p) + Len(q) : q[i - Len(p)] \in E}
           f == [i \in At(q, E) |-> Len(p) + i]
<1>1. /\ Len(p) \in Nat /\ Len(q) \in Nat /\ Len(p \o q) = Len(p) + Len(q)
      /\ \A i \in 1 .. Len(p) : (p \o q)[i] = p[i]
      /\ \A i \in Len(p) + 1 .. Len(p) + Len(q) : (p \o q)[i] = q[i - Len(p)]
  OBVIOUS
<1>2. At(p \o q, E) = At(p, E) \cup shift
  BY <1>1 DEF At
<1>3. At(p, E) \cap shift = {}
  BY <1>1 DEF At
<1>4. f \in Bijection(At(q, E), shift)
  <2>1. \A i \in At(q, E) : i \in 1 .. Len(q) /\ q[i] \in E
    BY DEF At
  <2>2. f \in [At(q, E) -> shift]
    <3> SUFFICES ASSUME NEW i \in At(q, E) PROVE Len(p) + i \in shift
      OBVIOUS
    <3>1. (Len(p) + i) - Len(p) = i BY <1>1, <2>1
    <3>2. QED BY <1>1, <2>1, <3>1
  <2>3. \A i, j \in At(q, E) : f[i] = f[j] => i = j
    BY <1>1, <2>1
  <2>4. ASSUME NEW k \in shift PROVE \E i \in At(q, E) : f[i] = k
    <3>1. k - Len(p) \in 1 .. Len(q) /\ Len(p) + (k - Len(p)) = k
      BY <1>1
    <3>2. k - Len(p) \in At(q, E) BY <3>1 DEF At
    <3>3. QED BY <3>1, <3>2
  <2>5. QED BY <2>2, <2>3, <2>4, Fun_IsBij
<1>5. IsFiniteSet(shift) /\ Cardinality(shift) = Cardinality(At(q, E))
  BY <1>4, AtFinite, FS_Bijection DEF ExistsBijection
<1>6. /\ IsFiniteSet(At(p, E)) /\ Cardinality(At(p, E)) \in Nat
      /\ IsFiniteSet(At(q, E)) /\ Cardinality(At(q, E)) \in Nat
  BY AtFinite
<1>7. Cardinality(At(p, E) \cup shift) =
        Cardinality(At(p, E)) + Cardinality(shift) - Cardinality(At(p, E) \cap shift)
  <2> HIDE DEF shift
  <2>1. QED BY <1>5, <1>6, FS_Union
<1>8. Cardinality(At(p, E) \cap shift) = 0 BY <1>3, FS_EmptySet
<1> HIDE DEF shift
<1>9. QED BY <1>2, <1>5, <1>6, <1>7, <1>8

LEMMA AtOne ==
  ASSUME NEW e, NEW E
  PROVE  Cardinality(At(<<e>>, E)) = IF e \in E THEN 1 ELSE 0
<1>1. At(<<e>>, E) = IF e \in E THEN {1} ELSE {}
  BY DEF At
<1>2. QED BY <1>1, FS_Singleton, FS_EmptySet

LEMMA AtAppend ==
  ASSUME NEW T, NEW q \in Seq(T), NEW e \in T, NEW E
  PROVE  Cardinality(At(Append(q, e), E)) =
           Cardinality(At(q, E)) + (IF e \in E THEN 1 ELSE 0)
<1>1. Append(q, e) = q \o <<e>> /\ <<e>> \in Seq(T) OBVIOUS
<1>2. Cardinality(At(q \o <<e>>, E)) =
        Cardinality(At(q, E)) + Cardinality(At(<<e>>, E))
  BY <1>1, AtConcat
<1>3. QED BY <1>1, <1>2, AtOne

LEMMA AtTail ==
  ASSUME NEW T, NEW q \in Seq(T), q # <<>>, NEW E
  PROVE  Cardinality(At(Tail(q), E)) =
           Cardinality(At(q, E)) - (IF Head(q) \in E THEN 1 ELSE 0)
<1>1. /\ q = <<Head(q)>> \o Tail(q)
      /\ Head(q) \in T /\ <<Head(q)>> \in Seq(T) /\ Tail(q) \in Seq(T)
  OBVIOUS
<1>2. Cardinality(At(q, E)) =
        Cardinality(At(<<Head(q)>>, E)) + Cardinality(At(Tail(q), E))
  BY <1>1, AtConcat
<1>3. Cardinality(At(Tail(q), E)) \in Nat BY <1>1, AtFinite
<1>4. QED BY <1>2, <1>3, AtOne

LEMMA AtAll ==
  ASSUME NEW T, NEW q \in Seq(T), NEW E
  PROVE  /\ (\A i \in 1 .. Len(q) : q[i] \in E) => Cardinality(At(q, E)) = Len(q)
         /\ (\A i \in 1 .. Len(q) : q[i] \notin E) => Cardinality(At(q, E)) = 0
         /\ \A i \in 1 .. Len(q) : q[i] \in E => Cardinality(At(q, E)) >= 1
<1>1. Len(q) \in Nat OBVIOUS
<1>2. IsFiniteSet(1 .. Len(q)) /\ Cardinality(1 .. Len(q)) = Len(q)
  BY <1>1, FS_Interval
<1>3. (\A i \in 1 .. Len(q) : q[i] \in E) => At(q, E) = 1 .. Len(q)
  BY DEF At
<1>4. (\A i \in 1 .. Len(q) : q[i] \notin E) => At(q, E) = {}
  BY DEF At
<1>5. \A i \in 1 .. Len(q) : q[i] \in E => At(q, E) # {}
  BY DEF At
<1>6. QED BY <1>2, <1>3, <1>4, <1>5, AtFinite, FS_EmptySet

-----------------------------------------------------------------------------
LEMMA ConstantFacts ==
  /\ IsFiniteSet(Threads) /\ Cardinality(Threads) \in Nat
  /\ Acceptor \in Threads /\ Acceptor \notin Workers /\ Workers \subseteq Threads
  /\ IsFiniteSet(Ids) /\ NoSlot \notin Slots /\ NoId \notin Ids
  /\ MaxAccept \in Nat /\ MaxForeignAccept \in Nat /\ MaxForeignAccept <= MaxAccept
  /\ MaxMsgs \in Nat /\ MaxCalls \in Nat /\ CallModes \subseteq BOOLEAN
  /\ \A g \in Ids : SlotOf(g) \in Slots /\ g[2] \in 1 .. MaxAccept
  /\ \A s \in Slots : \A n \in 1 .. MaxAccept :
       <<s, n>> \in Ids /\ SlotOf(<<s, n>>) = s
<1>1. IsFiniteSet(Threads)
  BY ThreadsAssumption, FS_AddElement DEF Threads
<1>2. IsFiniteSet(1 .. MaxAccept)
  BY BoundsAssumption, FS_Interval
<1>3. IsFiniteSet(Ids)
  BY <1>2, SlotsAssumption, FS_Product DEF Ids
<1>4. QED
  BY <1>1, <1>3, FS_CardinalityType, SlotsAssumption, ThreadsAssumption,
     BoundsAssumption DEF Threads, Ids, SlotOf

(* Short sequences of calls owed.                                           *)
LEMMA Repeated ==
  ASSUME NEW s \in Slots, NEW q \in Seq(Slots), NEW n \in {1, 2}
  PROVE  /\ [i \in 1 .. n |-> s] \o q \in Seq(Slots)
         /\ Len([i \in 1 .. n |-> s] \o q) = n + Len(q)
         /\ [i \in 1 .. n |-> s] \o q # <<>>
         /\ \A j \in 1 .. Len([i \in 1 .. n |-> s] \o q) :
              ([i \in 1 .. n |-> s] \o q)[j] = IF j <= n THEN s ELSE q[j - n]
<1>1. [i \in 1 .. n |-> s] \in Seq(Slots) /\ Len([i \in 1 .. n |-> s]) = n
      /\ \A i \in 1 .. n : [j \in 1 .. n |-> s][i] = s
  OBVIOUS
<1>2. QED BY <1>1

(* What AbortIo adds to the port.                                           *)
LEMMA AbortedFacts ==
  ASSUME NEW g \in Ids, TypeOK
  PROVE  /\ Aborted(g) \in Seq(Completions)
         /\ Len(Aborted(g)) = recvIo[g] + sendIo[g]
         /\ \A i \in 1 .. recvIo[g] :
              Aborted(g)[i] = Completion(SlotOf(g), "recv", FALSE, g)
         /\ \A i \in recvIo[g] + 1 .. recvIo[g] + sendIo[g] :
              Aborted(g)[i] = Completion(SlotOf(g), "send", FALSE, g)
<1> DEFINE cr == Completion(SlotOf(g), "recv", FALSE, g)
           cs == Completion(SlotOf(g), "send", FALSE, g)
<1>1. cr \in Completions /\ cs \in Completions
  BY ConstantFacts DEF Completion, Completions
<1>2. recvIo[g] \in Nat /\ sendIo[g] \in Nat
  BY DEF TypeOK
<1> HIDE DEF cr, cs
<1>3. /\ [i \in 1 .. recvIo[g] |-> cr] \in Seq(Completions)
      /\ Len([i \in 1 .. recvIo[g] |-> cr]) = recvIo[g]
      /\ [i \in 1 .. sendIo[g] |-> cs] \in Seq(Completions)
      /\ Len([i \in 1 .. sendIo[g] |-> cs]) = sendIo[g]
  BY <1>1, <1>2
<1>4. /\ \A i \in 1 .. recvIo[g] : [j \in 1 .. recvIo[g] |-> cr][i] = cr
      /\ \A i \in 1 .. sendIo[g] : [j \in 1 .. sendIo[g] |-> cs][i] = cs
  OBVIOUS
<1>5. Aborted(g) = [i \in 1 .. recvIo[g] |-> cr] \o [i \in 1 .. sendIo[g] |-> cs]
  BY DEF Aborted, cr, cs
<1>6. ASSUME NEW p \in Seq(Completions), NEW q \in Seq(Completions)
      PROVE  /\ p \o q \in Seq(Completions) /\ Len(p \o q) = Len(p) + Len(q)
             /\ \A i \in 1 .. Len(p) : (p \o q)[i] = p[i]
             /\ \A i \in Len(p) + 1 .. Len(p) + Len(q) :
                  i - Len(p) \in 1 .. Len(q) /\ (p \o q)[i] = q[i - Len(p)]
  OBVIOUS
<1> DEFINE p == [i \in 1 .. recvIo[g] |-> cr]  q == [i \in 1 .. sendIo[g] |-> cs]
<1> HIDE DEF p, q
<1>7. p \in Seq(Completions) /\ q \in Seq(Completions)
      /\ Len(p) = recvIo[g] /\ Len(q) = sendIo[g]
      /\ (\A i \in 1 .. recvIo[g] : p[i] = cr) /\ (\A i \in 1 .. sendIo[g] : q[i] = cs)
  BY <1>3, <1>4 DEF p, q
<1>8. Aborted(g) = p \o q BY <1>5 DEF p, q
<1>9. /\ p \o q \in Seq(Completions) /\ Len(p \o q) = recvIo[g] + sendIo[g]
      /\ \A i \in 1 .. recvIo[g] : (p \o q)[i] = p[i]
      /\ \A i \in recvIo[g] + 1 .. recvIo[g] + sendIo[g] :
           i - recvIo[g] \in 1 .. sendIo[g] /\ (p \o q)[i] = q[i - recvIo[g]]
  <2>1. /\ p \o q \in Seq(Completions) /\ Len(p \o q) = Len(p) + Len(q)
        /\ \A i \in 1 .. Len(p) : (p \o q)[i] = p[i]
        /\ \A i \in Len(p) + 1 .. Len(p) + Len(q) :
             i - Len(p) \in 1 .. Len(q) /\ (p \o q)[i] = q[i - Len(p)]
    BY ONLY <1>6, <1>7
  <2>2. Len(p) = recvIo[g] /\ Len(q) = sendIo[g] BY <1>7
  <2>3. QED BY ONLY <2>1, <2>2
<1>10. QED BY <1>7, <1>8, <1>9 DEF cr, cs

LEMMA InitType == Init => TypeOK /\ Control
<1> SUFFICES ASSUME Init PROVE TypeOK /\ Control OBVIOUS
<1>1. indexStack \in Seq(Slots) /\ IsInjective(indexStack)
  <2> DEFINE n == Cardinality(Slots)
  <2>1. n \in Nat /\ \E f \in [1 .. n -> Slots] : IsInjective(f)
    <3>1. PICK f \in Bijection(1 .. n, Slots) : TRUE
      BY SlotsAssumption, FS_CardinalityType DEF ExistsBijection
    <3>2. QED BY <3>1, SlotsAssumption, FS_CardinalityType DEF Bijection, Injection
  <2>2. indexStack \in [1 .. n -> Slots] /\ IsInjective(indexStack)
    BY <2>1 DEF Init, SetToSeq
  <2>3. QED BY <2>1, <2>2
<1>2. QED BY <1>1, ConstantFacts DEF Init, TypeOK, Control, Labels, InHandler, InSend, InCall, InUse, InDelete


-----------------------------------------------------------------------------
(* A step of thread t leaves the other threads where they are.              *)
Goes(t) ==
  \A u \in Threads \ {t} :
    /\ pc'[u] = pc[u] /\ cur'[u] = cur[u] /\ kind'[u] = kind[u]
    /\ sid'[u] = sid[u] /\ op'[u] = op[u] /\ tgt'[u] = tgt[u]
    /\ owed'[u] = owed[u] /\ back'[u] = back[u] /\ held'[u] = held[u]

LocalTypes ==
  /\ pc \in [Threads -> Labels]
  /\ cur \in [Threads -> Slots \cup {NoSlot}]
  /\ kind \in [Threads -> {"none", "accept", "connect", "recv", "send", "request"}]
  /\ op \in [Threads -> {"none", "send", "disconnect", "touch"}]
  /\ tgt \in [Threads -> Ids \cup {NoId}]
  /\ owed \in [Threads -> Seq(Slots)]
  /\ back \in [Threads -> {"idle", "handler"}]
  /\ sid \in [Threads -> Ids \cup {NoId}]
  /\ held \in [Threads -> [Slots -> Int]]

GlobalTypes ==
  /\ sessionId \in [Slots -> Ids \cup {NoId}]
  /\ socket \in [Slots -> Ids \cup {NoId}]
  /\ ioCount \in [Slots -> Int]
  /\ sendFlag \in [Slots -> BOOLEAN]
  /\ connected \in [Slots -> BOOLEAN]
  /\ sendQ \in [Slots -> Seq(Ids)]
  /\ indexStack \in Seq(Slots)
  /\ idGen \in 0 .. MaxAccept /\ sessionCount \in Int
  /\ active \subseteq Ids \cup {NoId}
  /\ port \in Seq(Completions)
  /\ conn \in [Ids -> {"none", "open", "peerClosed", "closed"}]
  /\ recvIo \in [Ids -> Nat] /\ sendIo \in [Ids -> Nat]
  /\ msgs \in 0 .. MaxMsgs /\ calls \in 0 .. MaxCalls
  /\ foreign \in CallModes
  /\ announced \subseteq Ids
  /\ gone \in [Ids -> Nat]
  /\ sentTo \subseteq Ids \X Ids

LEMMA TypeParts ==
  /\ TypeOK <=> LocalTypes /\ GlobalTypes
  /\ TypeOK' <=> LocalTypes' /\ GlobalTypes'
BY DEF TypeOK, LocalTypes, GlobalTypes

ControlOf(t) ==
  /\ pc[t] \in {"activate", "open"} \cup InHandler \cup InSend =>
       cur[t] \in Slots
  /\ pc[t] \in {"activate", "open"} => sid[t] \in Ids /\ SlotOf(sid[t]) = cur[t]
  /\ back[t] = "handler" /\ pc[t] \in InCall \cup InUse \cup {"dec"} \cup InDelete =>
       cur[t] \in Slots
  /\ pc[t] \in {"acquireConn", "acquireRef"} \cup InUse => tgt[t] \in Ids
  /\ pc[t] \in {"dec"} \cup InDelete => owed[t] # <<>>

LEMMA GoesControl ==
  ASSUME NEW t \in Threads, Control, Goes(t), ControlOf(t)'
  PROVE  Control'
BY DEF Control, ControlOf, Goes

LEMMA NoneOwed ==
  /\ <<>> \in Seq(Slots) /\ <<>> \in Seq(Ids) /\ Len(<<>>) = 0
OBVIOUS

LEMMA OneOwed ==
  ASSUME NEW s \in Slots
  PROVE  /\ <<s>> \in Seq(Slots) /\ <<s>> # <<>> /\ Len(<<s>>) = 1
         /\ Head(<<s>>) = s /\ <<s>>[1] = s /\ Tail(<<s>>) = <<>>
<1>1. <<s>> \in Seq(Slots) OBVIOUS
<1>2. QED BY <1>1

LEMMA TwoOwed ==
  ASSUME NEW s \in Slots
  PROVE  /\ <<s, s>> \in Seq(Slots) /\ <<s, s>> # <<>> /\ Len(<<s, s>>) = 2
         /\ <<s, s>>[1] = s /\ <<s, s>>[2] = s
<1>1. <<s, s>> \in Seq(Slots) OBVIOUS
<1>2. QED BY <1>1

LEMMA RestOwed ==
  ASSUME NEW q \in Seq(Slots), q # <<>>
  PROVE  /\ Len(q) \in Nat \ {0} /\ Head(q) \in Slots /\ Head(q) = q[1]
         /\ Tail(q) \in Seq(Slots) /\ Len(Tail(q)) = Len(q) - 1
         /\ \A i \in 1 .. Len(q) - 1 : Tail(q)[i] = q[i + 1]
         /\ Len(q) = 1 => Tail(q) = <<>>
         /\ Len(q) > 1 => Tail(q) # <<>>
<1>1. Len(q) \in Nat \ {0} /\ Head(q) \in Slots /\ Head(q) = q[1] OBVIOUS
<1>2. Tail(q) \in Seq(Slots) /\ Len(Tail(q)) = Len(q) - 1 OBVIOUS
<1>3. \A i \in 1 .. Len(q) - 1 : Tail(q)[i] = q[i + 1] OBVIOUS
<1>4. \A p \in Seq(Slots) : Len(p) = 0 <=> p = <<>> OBVIOUS
<1>5. /\ Len(q) = 1 => Tail(q) = <<>>
      /\ Len(q) > 1 => Tail(q) # <<>>
  <2>1. Len(Tail(q)) = 0 <=> Tail(q) = <<>> BY <1>2, <1>4
  <2>2. QED BY ONLY <1>1, <1>2, <2>1
<1>6. QED BY <1>1, <1>2, <1>3, <1>5

(* The locals of t are all that changes of the threads.                     *)
Moves(t) ==
  /\ pc' = [pc EXCEPT ![t] = pc'[t]] /\ cur' = [cur EXCEPT ![t] = cur'[t]]
  /\ kind' = [kind EXCEPT ![t] = kind'[t]] /\ sid' = [sid EXCEPT ![t] = sid'[t]]
  /\ op' = [op EXCEPT ![t] = op'[t]] /\ tgt' = [tgt EXCEPT ![t] = tgt'[t]]
  /\ owed' = [owed EXCEPT ![t] = owed'[t]] /\ back' = [back EXCEPT ![t] = back'[t]]
  /\ held' = [held EXCEPT ![t] = held'[t]]

LocalsOf(t) ==
  /\ pc[t] \in Labels
  /\ cur[t] \in Slots \cup {NoSlot}
  /\ kind[t] \in {"none", "accept", "connect", "recv", "send", "request"}
  /\ op[t] \in {"none", "send", "disconnect", "touch"}
  /\ tgt[t] \in Ids \cup {NoId}
  /\ owed[t] \in Seq(Slots)
  /\ back[t] \in {"idle", "handler"}
  /\ sid[t] \in Ids \cup {NoId}
  /\ held[t] \in [Slots -> Int]

LEMMA MovesTypes ==
  ASSUME NEW t \in Threads, LocalTypes, Moves(t), LocalsOf(t)'
  PROVE  LocalTypes' /\ Goes(t)
<1>1. LocalTypes'
  BY DEF LocalTypes, Moves, LocalsOf
<1>2. Goes(t)
  BY DEF LocalTypes, Moves, Goes
<1>3. QED BY <1>1, <1>2

LEMMA LocalFacts ==
  ASSUME LocalTypes, NEW t \in Threads PROVE LocalsOf(t)
BY DEF LocalTypes, LocalsOf

LEMMA GoesShapes ==
  ASSUME NEW t \in Threads, Shapes, Goes(t), Shape(t)'
  PROVE  Shapes'
<1> SUFFICES ASSUME NEW u \in Threads, u # t PROVE Shape(u)'
  BY DEF Shapes
<1>1. Shape(u) BY DEF Shapes
<1>2. /\ pc'[u] = pc[u] /\ cur'[u] = cur[u] /\ kind'[u] = kind[u]
      /\ sid'[u] = sid[u] /\ op'[u] = op[u] /\ tgt'[u] = tgt[u]
      /\ owed'[u] = owed[u] /\ back'[u] = back[u]
      /\ \A n : Holds(u, n)' <=> Holds(u, n)
  BY DEF Goes, Holds
<1>3. InHand(u)' = InHand(u) BY <1>2 DEF InHand
<1>4. QED BY <1>1, <1>2, <1>3 DEF Shape

(* The shape of a thread after a step, by the place it comes to.            *)
Attachment(t) == cur[t] \in Slots /\ sid[t] \in Ids /\ SlotOf(sid[t]) = cur[t]

LEMMA ShapeIdle ==
  ASSUME NEW t \in Threads, pc'[t] = "idle", cur'[t] = NoSlot, sid'[t] = NoId,
         kind'[t] = "none", owed'[t] = <<>>, back'[t] = "idle",
         \A s \in Slots : held'[t][s] = 0
  PROVE  Shape(t)'
BY ConstantFacts DEF Shape, Holds, InHandler, InSend, InCall, InUse, InDelete

LEMMA ShapeServe ==
  ASSUME NEW t \in Threads, Attachment(t)', owed'[t] = <<>>,
         \/ pc'[t] \in InHandler /\ kind'[t] \in {"connect", "recv"}
         \/ pc'[t] \in InSend /\ kind'[t] \in {"send", "request"},
         \A s \in Slots : held'[t][s] = IF s = cur'[t] THEN 1 ELSE 0
  PROVE  Shape(t)'
BY DEF Shape, Attachment, Holds, InHandler, InSend, InCall, InUse, InDelete

LEMMA ShapeCall ==
  ASSUME NEW t \in Threads, Attachment(t)', pc'[t] \in InCall \cup InUse,
         kind'[t] \in {"connect", "recv"}, tgt'[t] = sid'[t],
         \/ back'[t] = "handler" /\ owed'[t] = <<>>
         \/ back'[t] = "idle" /\ op'[t] = "disconnect"
              /\ owed'[t] = <<cur'[t], cur'[t]>>,
         \A s \in Slots : held'[t][s] =
           IF s = cur'[t]
           THEN (2 - (IF back'[t] = "handler" THEN 1 ELSE 0))
                  + (IF pc'[t] \in InUse THEN 1 ELSE 0)
           ELSE 0
  PROVE  Shape(t)'
BY DEF Shape, Attachment, Holds, InHand, InHandler, InSend, InCall, InUse, InDelete

LEMMA ShapeDec ==
  ASSUME NEW t \in Threads, Attachment(t)', pc'[t] = "dec",
         kind'[t] \in Serving, Len(owed'[t]) \in 1 .. 3,
         \A i \in 1 .. Len(owed'[t]) : owed'[t][i] = cur'[t],
         back'[t] = "handler" =>
           kind'[t] \in {"connect", "recv"} /\ Len(owed'[t]) < 3,
         \A s \in Slots : held'[t][s] =
           IF s = cur'[t]
           THEN Len(owed'[t]) + (IF back'[t] = "handler" THEN 1 ELSE 0) ELSE 0
  PROVE  Shape(t)'
BY DEF Shape, Attachment, Holds, InHand, InHandler, InSend, InCall, InUse, InDelete, Serving

LEMMA ShapeFinish ==
  ASSUME NEW t \in Threads, Attachment(t)', pc'[t] = "dec", kind'[t] \in Serving,
         owed'[t] = <<cur'[t]>>, back'[t] = "idle",
         \A s \in Slots : held'[t][s] = IF s = cur'[t] THEN 1 ELSE 0
  PROVE  Shape(t)'
<1>1. Len(owed'[t]) = 1 /\ owed'[t][1] = cur'[t]
  BY OneOwed DEF Attachment
<1>2. /\ Len(owed'[t]) \in 1 .. 3
      /\ \A i \in 1 .. Len(owed'[t]) : owed'[t][i] = cur'[t]
  BY <1>1
<1>3. \A s \in Slots : held'[t][s] =
        IF s = cur'[t]
        THEN Len(owed'[t]) + (IF back'[t] = "handler" THEN 1 ELSE 0) ELSE 0
  BY <1>1
<1>4. QED BY <1>2, <1>3, ShapeDec

LEMMA ShapeDelete ==
  ASSUME NEW t \in Threads, pc'[t] \in InDelete, back'[t] = "idle",
         Len(owed'[t]) = 1, kind'[t] = "none", cur'[t] = NoSlot, sid'[t] = NoId,
         \A s \in Slots : held'[t][s] = 0
  PROVE  Shape(t)'
BY ConstantFacts DEF Shape, Holds, InHandler, InSend, InCall, InUse, InDelete

(* Sets of threads, operations and completions are finite.                  *)
LEMMA ThreadSets ==
  ASSUME NEW A \in SUBSET Threads, NEW B \in SUBSET Threads
  PROVE  /\ IsFiniteSet(A) /\ Cardinality(A) \in Nat
         /\ A \subseteq B => Cardinality(A) <= Cardinality(B)
         /\ Cardinality(A) <= Cardinality(Threads)
<1>1. IsFiniteSet(A) /\ IsFiniteSet(B) BY ConstantFacts, FS_Subset
<1>2. A \subseteq B => Cardinality(A) <= Cardinality(B) BY <1>1, FS_Subset
<1>3. QED BY <1>1, <1>2, FS_CardinalityType, ConstantFacts, FS_Subset

LEMMA OutstandingFacts ==
  ASSUME NEW io \in [Ids -> Nat], NEW s
  PROVE  /\ Outstanding(io, s) = Tokens({i \in Ids : SlotOf(i) = s}, io)
         /\ IsFiniteSet({i \in Ids : SlotOf(i) = s})
         /\ Cardinality(Outstanding(io, s)) \in Nat
         /\ \A g \in Ids : SlotOf(g) = s => io[g] <= Cardinality(Outstanding(io, s))
<1> DEFINE X == {i \in Ids : SlotOf(i) = s}
<1>1. Outstanding(io, s) = Tokens(X, io) BY DEF Outstanding, Tokens
<1>2. X \in SUBSET Ids OBVIOUS
<1>3. IsFiniteSet(X) BY <1>2, ConstantFacts, FS_Subset
<1>4. \A i \in X : io[i] \in Nat OBVIOUS
<1>5. Cardinality(Tokens(X, io)) \in Nat BY <1>3, <1>4, TokensFinite
<1>6. \A g \in X : io[g] <= Cardinality(Tokens(X, io)) BY <1>3, <1>4, TokensAtLeast
<1>7. QED BY <1>1, <1>3, <1>5, <1>6

(* One operation more, or fewer, on connection g.                           *)
LEMMA OutstandingMove ==
  ASSUME NEW io \in [Ids -> Nat], NEW j \in [Ids -> Nat], NEW g \in Ids, NEW s,
         \A i \in Ids \ {g} : j[i] = io[i]
  PROVE  /\ Cardinality(Outstanding(io, s)) \in Nat
         /\ Cardinality(Outstanding(j, s)) \in Nat
         /\ Cardinality(Outstanding(j, s)) + (IF SlotOf(g) = s THEN io[g] ELSE 0) =
              Cardinality(Outstanding(io, s)) + (IF SlotOf(g) = s THEN j[g] ELSE 0)
<1> DEFINE X == {i \in Ids : SlotOf(i) = s}
<1>1. /\ Outstanding(io, s) = Tokens(X, io) /\ IsFiniteSet(X)
      /\ Cardinality(Outstanding(io, s)) \in Nat
  BY OutstandingFacts
<1>2. Outstanding(j, s) = Tokens(X, j) /\ Cardinality(Outstanding(j, s)) \in Nat
  BY OutstandingFacts
<1>3. /\ io[g] \in Nat /\ j[g] \in Nat
      /\ \A i \in X : io[i] \in Nat /\ j[i] \in Nat
  OBVIOUS
<1>4. CASE SlotOf(g) # s
  <2>1. Tokens(X, j) = Tokens(X, io) BY <1>4 DEF Tokens
  <2>2. QED BY <1>1, <1>2, <1>4, <2>1
<1>5. CASE SlotOf(g) = s /\ j[g] >= io[g]
  <2>1. PICK k \in Nat : j[g] = io[g] + k /\ k = j[g] - io[g] BY <1>3, <1>5
  <2>2. g \in X /\ \A i \in X \ {g} : j[i] = io[i] BY <1>5
  <2> HIDE DEF X
  <2>3. Cardinality(Tokens(X, j)) = Cardinality(Tokens(X, io)) + k
    BY ONLY <1>1, <1>3, <2>1, <2>2, TokensMore
  <2>4. QED BY <1>1, <1>2, <1>3, <1>5, <2>1, <2>3
<1>6. CASE SlotOf(g) = s /\ j[g] < io[g]
  <2>1. PICK k \in Nat : io[g] = j[g] + k /\ k = io[g] - j[g] BY <1>3, <1>6
  <2>2. g \in X /\ \A i \in X \ {g} : io[i] = j[i] BY <1>6
  <2> HIDE DEF X
  <2>3. Cardinality(Tokens(X, io)) = Cardinality(Tokens(X, j)) + k
    BY ONLY <1>1, <1>3, <2>1, <2>2, TokensMore
  <2>4. QED BY <1>1, <1>2, <1>3, <1>6, <2>1, <2>3
<1>7. QED BY <1>3, <1>4, <1>5, <1>6

-----------------------------------------------------------------------------
(* Steps of a thread that neither take nor give a reference, nor touch what *)
(* the slots are identified by.                                             *)
Quiet(t) ==
  /\ Goes(t)
  /\ UNCHANGED <<sessionId, socket, ioCount, sendQ, indexStack, idGen,
       sessionCount, port, recvIo, sendIo, held, announced, gone, sentTo>>
  /\ \A s \in Slots : connected'[s] => connected[s]
  /\ cur'[t] = cur[t] /\ kind'[t] = kind[t] /\ sid'[t] = sid[t]
  /\ pc[t] \notin {"activate", "open"} \cup InDelete
  /\ pc'[t] \notin {"activate", "open"} \cup InDelete

LEMMA QuietRest ==
  ASSUME TypeOK, NEW t \in Threads, Own, Quiet(t)
  PROVE  /\ Attached' /\ RefsExact' /\ IndexRight' /\ GoneRight' /\ QueueRight'
         /\ Lifecycle'
<1>1. \A u \in Threads : /\ cur'[u] = cur[u] /\ kind'[u] = kind[u] /\ sid'[u] = sid[u]
                         /\ pc'[u] = "open" <=> pc[u] = "open"
                         /\ pc'[u] = "activate" <=> pc[u] = "activate"
  BY DEF Quiet, Goes
<1>2. \A u \in Threads : /\ pc'[u] \in InDelete <=> pc[u] \in InDelete
                         /\ pc'[u] \in InDelete => pc'[u] = pc[u] /\ owed'[u] = owed[u]
  BY DEF Quiet, Goes
<1>3. Attached'
  BY <1>1 DEF Own, Attached, Quiet, Has
<1>4. RefsExact'
  BY DEF Own, RefsExact, References, HeldRefs, Outstanding, QueuedFor, Quiet
<1>5. IndexRight'
  BY <1>1 DEF Own, IndexRight, Quiet
<1>6. QueueRight'
  BY DEF Own, QueueRight, Quiet
<1>7. GoneRight'
  BY <1>1, <1>2, ConstantFacts DEF Own, GoneRight, Quiet, Deleting, InDelete
<1>8. Lifecycle'
  <2> USE DEF Own, Lifecycle, Quiet
  <2>1. \A s \in Slots : Cleared(s) => Cleared(s)'
    BY DEF Cleared
  <2>2. Len(indexStack) \in Nat /\ \A i \in 1 .. Len(indexStack) : indexStack[i] \in Slots
    BY DEF TypeOK
  <2>3. IsInjective(indexStack)' /\ \A i \in 1 .. Len(indexStack)' : Cleared(indexStack[i])'
    BY <2>1, <2>2 DEF IsInjective
  <2>4. pc'[Acceptor] = "activate" => cur[Acceptor] \in Slots
    BY <1>1, ConstantFacts DEF Shapes, Shape
  <2>5. /\ (pc[Acceptor] = "activate" =>
              /\ Cleared(cur[Acceptor])
              /\ \A i \in 1 .. Len(indexStack) : indexStack[i] # cur[Acceptor])'
        /\ (pc[Acceptor] = "open" => ioCount[cur[Acceptor]] = 1)'
    BY <1>1, <2>1, <2>4, ConstantFacts
  <2>6. \A u \in Threads, s \in Slots :
          /\ Deleting(u, s)' <=> Deleting(u, s)
          /\ Deleting(u, s) /\ Fields(u, s) => Fields(u, s)'
    BY <1>1, <1>2 DEF Deleting, Fields, Has
  <2>7. \A u \in Threads, s \in Slots : Deleting(u, s)' =>
          /\ \A i \in 1 .. Len(indexStack)' : indexStack'[i] # s
          /\ pc'[Acceptor] \in {"activate", "open"} => cur'[Acceptor] # s
          /\ \A v \in Threads : Deleting(v, s)' => v = u
          /\ Fields(u, s)'
    BY <1>1, <2>6, ConstantFacts
  <2>8. QED BY <2>3, <2>5, <2>7
<1>9. QED BY <1>3, <1>4, <1>5, <1>6, <1>7, <1>8

LEMMA QuietSides ==
  ASSUME TypeOK, NEW t \in Threads, Own, Quiet(t), sendFlag' = sendFlag,
         \A s \in Slots : t \in Receivers(s)' => t \in Receivers(s),
         \A s \in Slots : t \in Senders(s)' => t \in Senders(s)
  PROVE  Sides'
<1> SUFFICES ASSUME NEW s \in Slots
             PROVE  /\ RecvSide(s)' <= 1 /\ SendSide(s)' <= 1
                    /\ SendSide(s)' = 1 => sendFlag'[s]
  BY DEF Sides
<1>1. /\ Receivers(s)' \subseteq Receivers(s) /\ Senders(s)' \subseteq Senders(s)
      /\ Receivers(s) \in SUBSET Threads /\ Receivers(s)' \in SUBSET Threads
      /\ Senders(s) \in SUBSET Threads /\ Senders(s)' \in SUBSET Threads
  BY DEF Quiet, Goes, Receivers, Senders
<1>2. /\ Cardinality(Receivers(s)') <= Cardinality(Receivers(s))
      /\ Cardinality(Receivers(s)) \in Nat /\ Cardinality(Receivers(s)') \in Nat
      /\ Cardinality(Senders(s)') <= Cardinality(Senders(s))
      /\ Cardinality(Senders(s)) \in Nat /\ Cardinality(Senders(s)') \in Nat
  BY <1>1, ThreadSets
<1>3. /\ Cardinality(Outstanding(recvIo, s)) \in Nat
      /\ Cardinality(Outstanding(sendIo, s)) \in Nat
      /\ Cardinality(At(port, Entries("recv", s))) \in Nat
      /\ Cardinality(At(port, Entries("send", s))) \in Nat
  BY OutstandingFacts, AtFinite DEF TypeOK
<1>4. /\ Outstanding(recvIo, s)' = Outstanding(recvIo, s)
      /\ Outstanding(sendIo, s)' = Outstanding(sendIo, s)
      /\ At(port, Entries("recv", s))' = At(port, Entries("recv", s))
      /\ At(port, Entries("send", s))' = At(port, Entries("send", s))
  BY DEF Quiet, Outstanding, At, Entries
<1>5. /\ RecvSide(s) <= 1 /\ SendSide(s) <= 1 /\ (SendSide(s) = 1 => sendFlag[s])
  BY DEF Own, Sides
<1>6. QED BY <1>2, <1>3, <1>4, <1>5 DEF RecvSide, SendSide

LEMMA QuietCalls ==
  ASSUME TypeOK, NEW t \in Threads, Own, Quiet(t),
         t \in Callers' => t \in Callers, calls' = calls
  PROVE  CallsRight'
<1>1. Callers' \subseteq Callers /\ Callers \in SUBSET Threads /\ Callers' \in SUBSET Threads
  BY DEF Quiet, Goes, Callers
<1>2. /\ Cardinality(Callers') <= Cardinality(Callers)
      /\ Cardinality(Callers) \in Nat /\ Cardinality(Callers') \in Nat
  BY <1>1, ThreadSets
<1>3. Cardinality(At(port, Requests)) \in Nat
  BY AtFinite DEF TypeOK
<1>4. At(port, Requests)' = At(port, Requests)
  BY DEF Quiet, At, Requests
<1>5. calls \in Nat BY ConstantFacts DEF TypeOK
<1>6. QED BY <1>2, <1>3, <1>4, <1>5 DEF Own, CallsRight

-----------------------------------------------------------------------------
LEMMA Unfold ==
  ASSUME IInv, NEW t \in Threads
  PROVE  /\ TypeOK /\ LocalTypes /\ GlobalTypes /\ LocalsOf(t)
         /\ Control /\ ControlOf(t) /\ (~foreign => Own /\ Shape(t))
<1>1. TypeOK /\ LocalTypes /\ GlobalTypes BY TypeParts DEF IInv
<1>2. LocalsOf(t) BY <1>1, LocalFacts
<1>3. Control /\ ControlOf(t) BY DEF IInv, Control, ControlOf
<1>4. ~foreign => Own /\ Shape(t) BY DEF IInv, Own, Shapes
<1>5. QED BY <1>1, <1>2, <1>3, <1>4

(* What is left to show of a step of thread t.                              *)
LEMMA Fold ==
  ASSUME IInv, NEW t \in Threads, Moves(t), LocalsOf(t)', GlobalTypes',
         ControlOf(t)', foreign' = foreign
  PROVE  /\ TypeOK' /\ Goes(t)
         /\ (~foreign => Own') => IInv'
<1>1. LocalTypes' /\ Goes(t) BY Unfold, MovesTypes
<1>2. TypeOK' BY <1>1, TypeParts
<1>3. Control' BY <1>1, Unfold, GoesControl
<1>4. QED BY <1>1, <1>2, <1>3 DEF IInv

LEMMA QuietOwn ==
  ASSUME TypeOK, NEW t \in Threads, Own, Quiet(t), Shape(t)', Sides', CallsRight'
  PROVE  Own'
<1>1. Shapes' BY GoesShapes DEF Quiet, Own
<1>2. QED BY <1>1, QuietRest DEF Own

-----------------------------------------------------------------------------
(* Within OnRecv, OnConnected and PostSend a thread goes on or finishes.    *)
Serve(t) ==
  /\ pc[t] \in InHandler \cup InSend
  /\ UNCHANGED <<sessionId, socket, ioCount, connected, sendQ, indexStack,
       idGen, sessionCount, active, port, conn, recvIo, sendIo, msgs, calls,
       foreign, announced, gone, sentTo, held, cur, kind, sid, op, tgt>>
  /\ sendFlag' \in [Slots -> BOOLEAN]
  /\ \/ /\ pc'[t] \in InHandler \cup InSend
        /\ pc'[t] \in InHandler <=> pc[t] \in InHandler
        /\ pc' = [pc EXCEPT ![t] = pc'[t]] /\ owed' = owed /\ back' = back
     \/ /\ pc' = [pc EXCEPT ![t] = "dec"]
        /\ owed' = [owed EXCEPT ![t] = <<cur[t]>>]
        /\ back' = [back EXCEPT ![t] = "idle"]

LEMMA ServeRight ==
  ASSUME IInv, NEW t \in Threads, Serve(t)
  PROVE  /\ TypeOK' /\ cur[t] \in Slots /\ (~foreign => Own /\ Quiet(t))
         /\ (~foreign => Sides') => IInv'
<1>1. /\ TypeOK /\ LocalTypes /\ GlobalTypes /\ LocalsOf(t)
      /\ Control /\ ControlOf(t) /\ (~foreign => Own /\ Shape(t))
  BY Unfold
<1>2. cur[t] \in Slots /\ <<cur[t]>> \in Seq(Slots) /\ <<cur[t]>> # <<>>
  BY <1>1, OneOwed DEF ControlOf, Serve
<1>3. Moves(t)
  BY <1>1 DEF Moves, LocalTypes, Serve
<1>4. /\ cur'[t] = cur[t] /\ kind'[t] = kind[t] /\ sid'[t] = sid[t]
      /\ op'[t] = op[t] /\ tgt'[t] = tgt[t] /\ held'[t] = held[t]
      /\ \/ /\ pc'[t] \in InHandler \cup InSend /\ owed'[t] = owed[t] /\ back'[t] = back[t]
            /\ pc'[t] \in InHandler <=> pc[t] \in InHandler
         \/ pc'[t] = "dec" /\ owed'[t] = <<cur[t]>> /\ back'[t] = "idle"
  BY <1>1 DEF LocalTypes, Serve
<1>5. LocalsOf(t)' /\ ControlOf(t)'
  BY <1>1, <1>2, <1>4 DEF LocalsOf, ControlOf, Labels, InHandler, InSend, InCall, InUse, InDelete
<1>6. GlobalTypes'
  BY <1>1 DEF GlobalTypes, Serve
<1>7. Goes(t) /\ TypeOK' /\ ((~foreign => Own') => IInv')
  BY <1>3, <1>5, <1>6, Fold DEF Serve
<1>8. pc[t] \notin {"activate", "open"} \cup InDelete /\ pc'[t] \notin {"activate", "open"} \cup InDelete
  BY <1>4 DEF Serve, InHandler, InSend, InDelete
<1>9. Quiet(t)
  BY <1>4, <1>7, <1>8 DEF Quiet, Serve
<1>10. ASSUME ~foreign, Sides' PROVE Own'
  <2>1. /\ kind[t] \in {"connect", "recv", "send", "request"} /\ owed[t] = <<>> /\ Holds(t, 1)
        /\ pc[t] \in InHandler => kind[t] \in {"connect", "recv"}
        /\ pc[t] \in InSend => kind[t] \in {"send", "request"}
        /\ sid[t] \in Ids /\ SlotOf(sid[t]) = cur[t]
    BY <1>1, <1>2, <1>10 DEF Shape, Serve
  <2>2. /\ Attachment(t)'
        /\ \A s \in Slots : held'[t][s] = IF s = cur'[t] THEN 1 ELSE 0
    BY <1>2, <1>4, <2>1 DEF Attachment, Holds
  <2>3. CASE pc'[t] \in InHandler \cup InSend
    <3>1. owed'[t] = <<>>
      BY <1>4, <2>1, <2>3 DEF InHandler, InSend
    <3>2. \/ pc'[t] \in InHandler /\ kind'[t] \in {"connect", "recv"}
          \/ pc'[t] \in InSend /\ kind'[t] \in {"send", "request"}
      BY <1>4, <2>1, <2>3 DEF Serve, InHandler, InSend
    <3>3. Shape(t)' BY <2>2, <3>1, <3>2, ShapeServe
    <3>4. CallsRight'
      BY <1>1, <1>9, <1>10, <2>3, QuietCalls DEF Callers, InHandler, InSend, InCall, Serve
    <3>5. QED BY <1>1, <1>9, <1>10, <3>3, <3>4, QuietOwn
  <2>4. CASE pc'[t] = "dec" /\ owed'[t] = <<cur[t]>> /\ back'[t] = "idle"
    <3>1. Shape(t)' BY <1>4, <2>1, <2>2, <2>4, ShapeFinish DEF Serving
    <3>2. CallsRight'
      BY <1>1, <1>9, <1>10, <2>4, QuietCalls DEF Callers, InCall, Serve
    <3>3. QED BY <1>1, <1>9, <1>10, <3>1, <3>2, QuietOwn
  <2>5. QED BY <1>4, <2>3, <2>4
<1>11. QED BY <1>1, <1>2, <1>7, <1>9, <1>10

OnSide == {"sent", "sendPost", "sendReset"}

(* The places at which the send side is lowered or kept.                    *)
LEMMA ServeKeeps ==
  ASSUME IInv, ~foreign, NEW t \in Threads, Serve(t), sendFlag' = sendFlag,
         pc'[t] \in OnSide => pc[t] \in OnSide
  PROVE  Sides'
<1>1. TypeOK /\ LocalTypes /\ Own /\ Quiet(t)
  BY Unfold, ServeRight
<1>2. /\ cur'[t] = cur[t] /\ kind'[t] = kind[t] /\ pc[t] \in InHandler \cup InSend
      /\ \/ pc'[t] \in InHandler \cup InSend /\ (pc'[t] \in InHandler <=> pc[t] \in InHandler)
         \/ pc'[t] = "dec" /\ back'[t] = "idle"
  BY <1>1 DEF Serve, LocalTypes
<1>3. ASSUME NEW s \in Slots
      PROVE  /\ t \in Receivers(s)' => t \in Receivers(s)
             /\ t \in Senders(s)' => t \in Senders(s)
  BY <1>2 DEF Receivers, Senders, OnSide, InHandler, InSend, InCall, InUse
<1>4. QED BY <1>1, <1>3, QuietSides

LEMMA SideTypes ==
  ASSUME TypeOK, NEW s \in Slots
  PROVE  /\ IsFiniteSet(Receivers(s)) /\ IsFiniteSet(Senders(s))
         /\ Cardinality(Receivers(s)) \in Nat /\ Cardinality(Senders(s)) \in Nat
         /\ Cardinality(Outstanding(recvIo, s)) \in Nat
         /\ Cardinality(Outstanding(sendIo, s)) \in Nat
         /\ Cardinality(At(port, Entries("recv", s))) \in Nat
         /\ Cardinality(At(port, Entries("send", s))) \in Nat
         /\ RecvSide(s) \in Nat /\ SendSide(s) \in Nat
<1>1. Receivers(s) \in SUBSET Threads /\ Senders(s) \in SUBSET Threads
  BY DEF Receivers, Senders
<1>2. /\ Cardinality(Outstanding(recvIo, s)) \in Nat
      /\ Cardinality(Outstanding(sendIo, s)) \in Nat
      /\ Cardinality(At(port, Entries("recv", s))) \in Nat
      /\ Cardinality(At(port, Entries("send", s))) \in Nat
  BY OutstandingFacts, AtFinite DEF TypeOK
<1>3. /\ IsFiniteSet(Receivers(s)) /\ IsFiniteSet(Senders(s))
      /\ Cardinality(Receivers(s)) \in Nat /\ Cardinality(Senders(s)) \in Nat
  BY <1>1, ThreadSets
<1>4. QED BY <1>2, <1>3 DEF RecvSide, SendSide

(* A thread that enters the send side, or leaves it.                        *)
LEMMA ServeSwitches ==
  ASSUME IInv, ~foreign, NEW t \in Threads, Serve(t),
         \/ /\ pc[t] \in OnSide /\ pc'[t] \notin OnSide
            /\ sendFlag' = [sendFlag EXCEPT ![cur[t]] = FALSE]
         \/ /\ pc[t] \notin OnSide /\ pc'[t] \in OnSide /\ ~sendFlag[cur[t]]
            /\ sendFlag' = [sendFlag EXCEPT ![cur[t]] = TRUE],
         pc'[t] \notin InHandler
  PROVE  Sides'
<1>1. TypeOK /\ LocalTypes /\ GlobalTypes /\ Own /\ Quiet(t) /\ cur[t] \in Slots
  BY Unfold, ServeRight
<1>2. /\ cur'[t] = cur[t] /\ kind'[t] = kind[t]
      /\ pc'[t] \in InSend \/ (pc'[t] = "dec" /\ back'[t] = "idle")
  BY <1>1 DEF Serve, LocalTypes
<1> SUFFICES ASSUME NEW s \in Slots
             PROVE  /\ RecvSide(s)' <= 1 /\ SendSide(s)' <= 1
                    /\ SendSide(s)' = 1 => sendFlag'[s]
  BY DEF Sides
<1>3. RecvSide(s) <= 1 /\ SendSide(s) <= 1 /\ (SendSide(s) = 1 => sendFlag[s])
  BY <1>1 DEF Own, Sides
<1>4. /\ Outstanding(recvIo, s)' = Outstanding(recvIo, s)
      /\ Outstanding(sendIo, s)' = Outstanding(sendIo, s)
      /\ At(port, Entries("recv", s))' = At(port, Entries("recv", s))
      /\ At(port, Entries("send", s))' = At(port, Entries("send", s))
  BY DEF Serve, Outstanding, At, Entries
<1>5. Receivers(s)' \in SUBSET Receivers(s)
  BY <1>1, <1>2 DEF Quiet, Goes, Receivers, InHandler, InSend, InCall, InUse
<1>6. Cardinality(Receivers(s)') <= Cardinality(Receivers(s)) /\ Cardinality(Receivers(s)') \in Nat
  BY <1>1, <1>5, SideTypes, FS_Subset, FS_CardinalityType
<1>7. RecvSide(s)' <= 1
  BY <1>1, <1>3, <1>4, <1>6, SideTypes DEF RecvSide
<1>8. \A u \in Threads \ {t} : u \in Senders(s)' <=> u \in Senders(s)
  BY <1>1 DEF Quiet, Goes, Senders
<1>9. CASE s # cur[t]
  <2>1. Senders(s)' = Senders(s)
    BY <1>2, <1>8, <1>9 DEF Senders
  <2>2. sendFlag'[s] = sendFlag[s] BY <1>1, <1>9 DEF GlobalTypes
  <2>3. QED BY <1>3, <1>4, <1>7, <2>1, <2>2 DEF SendSide
<1>10. CASE s = cur[t] /\ pc[t] \in OnSide
  <2>1. t \in Senders(s) /\ Senders(s)' = Senders(s) \ {t}
    BY <1>2, <1>8, <1>10 DEF Senders, OnSide
  <2>2. Cardinality(Senders(s)') = Cardinality(Senders(s)) - 1
    BY <1>1, <2>1, SideTypes, FS_RemoveElement
  <2>3. SendSide(s)' = SendSide(s) - 1
    BY <1>1, <1>4, <2>2, SideTypes DEF SendSide
  <2>4. QED BY <1>1, <1>3, <1>7, <2>3, SideTypes
<1>11. CASE s = cur[t] /\ pc[t] \notin OnSide
  <2>1. t \notin Senders(s) /\ Senders(s)' = Senders(s) \cup {t}
    BY <1>2, <1>8, <1>11 DEF Senders, OnSide
  <2>2. Cardinality(Senders(s)') = Cardinality(Senders(s)) + 1
    BY <1>1, <2>1, SideTypes, FS_AddElement
  <2>3. SendSide(s)' = SendSide(s) + 1
    BY <1>1, <1>4, <2>2, SideTypes DEF SendSide
  <2>4. sendFlag'[s] /\ ~sendFlag[s] BY <1>1, <1>11 DEF GlobalTypes
  <2>5. QED BY <1>1, <1>3, <1>7, <2>3, <2>4, SideTypes
<1>12. QED BY <1>9, <1>10, <1>11

LEMMA EndHandlerStep ==
  ASSUME IInv, NEW t \in Threads, EndHandler(t)
  PROVE  IInv'
<1>1. Serve(t)
  BY Unfold DEF EndHandler, Goto, Finish, DecreaseThen, globalVars, fieldVars,
     poolVars, outerVars, kernelVars, boundVars, histVars, ctxVars, callVars,
     decVars, localVars, Serve, InHandler, InSend, LocalTypes, GlobalTypes
<1>2. sendFlag' = sendFlag /\ (pc'[t] \in OnSide => pc[t] \in OnSide)
  BY Unfold DEF EndHandler, Goto, Finish, DecreaseThen, globalVars, fieldVars,
     OnSide, LocalTypes, InHandler
<1>3. QED BY <1>1, <1>2, ServeKeeps, ServeRight

LEMMA SendMoreStep ==
  ASSUME IInv, NEW t \in Threads, SendMore(t)
  PROVE  IInv'
<1>1. Serve(t)
  BY Unfold DEF SendMore, Goto, Finish, DecreaseThen, globalVars, fieldVars,
     poolVars, outerVars, kernelVars, boundVars, histVars, ctxVars, callVars,
     decVars, localVars, Serve, InHandler, InSend, LocalTypes, GlobalTypes
<1>2. sendFlag' = sendFlag /\ (pc'[t] \in OnSide => pc[t] \in OnSide)
  BY Unfold DEF SendMore, Goto, Finish, DecreaseThen, globalVars, fieldVars,
     OnSide, LocalTypes, InHandler
<1>3. QED BY <1>1, <1>2, ServeKeeps, ServeRight

LEMMA SendCheckStep ==
  ASSUME IInv, NEW t \in Threads, SendCheck(t)
  PROVE  IInv'
<1>1. Serve(t)
  BY Unfold DEF SendCheck, Goto, Finish, DecreaseThen, globalVars, fieldVars,
     poolVars, outerVars, kernelVars, boundVars, histVars, ctxVars, callVars,
     decVars, localVars, Serve, InHandler, InSend, LocalTypes, GlobalTypes
<1>2. sendFlag' = sendFlag /\ (pc'[t] \in OnSide => pc[t] \in OnSide)
  BY Unfold DEF SendCheck, Goto, Finish, DecreaseThen, globalVars, fieldVars,
     OnSide, LocalTypes, InHandler
<1>3. QED BY <1>1, <1>2, ServeKeeps, ServeRight

LEMMA SendDoneStep ==
  ASSUME IInv, NEW t \in Threads, SendDone(t)
  PROVE  IInv'
<1>1. Serve(t)
  BY Unfold DEF SendDone, Goto, Finish, DecreaseThen, globalVars, fieldVars,
     poolVars, outerVars, kernelVars, boundVars, histVars, ctxVars, callVars,
     decVars, localVars, Serve, InHandler, InSend, LocalTypes, GlobalTypes
<1>2. pc[t] \in OnSide /\ pc'[t] \notin OnSide \cup InHandler
      /\ sendFlag' = [sendFlag EXCEPT ![cur[t]] = FALSE]
  BY Unfold DEF SendDone, Goto, Finish, DecreaseThen, globalVars, fieldVars,
     OnSide, LocalTypes, InHandler
<1>3. QED BY <1>1, <1>2, ServeSwitches, ServeRight

LEMMA SendResetStep ==
  ASSUME IInv, NEW t \in Threads, SendReset(t)
  PROVE  IInv'
<1>1. Serve(t)
  BY Unfold DEF SendReset, Goto, Finish, DecreaseThen, globalVars, fieldVars,
     poolVars, outerVars, kernelVars, boundVars, histVars, ctxVars, callVars,
     decVars, localVars, Serve, InHandler, InSend, LocalTypes, GlobalTypes
<1>2. pc[t] \in OnSide /\ pc'[t] \notin OnSide \cup InHandler
      /\ sendFlag' = [sendFlag EXCEPT ![cur[t]] = FALSE]
  BY Unfold DEF SendReset, Goto, Finish, DecreaseThen, globalVars, fieldVars,
     OnSide, LocalTypes, InHandler
<1>3. QED BY <1>1, <1>2, ServeSwitches, ServeRight

LEMMA SendClaimStep ==
  ASSUME IInv, NEW t \in Threads, SendClaim(t)
  PROVE  IInv'
<1>1. Serve(t)
  BY Unfold DEF SendClaim, Goto, Finish, DecreaseThen, globalVars, fieldVars,
     poolVars, outerVars, kernelVars, boundVars, histVars, ctxVars, callVars,
     decVars, localVars, Serve, InHandler, InSend, LocalTypes, GlobalTypes
<1>2. /\ pc[t] = "sendClaim" /\ sendFlag' = [sendFlag EXCEPT ![cur[t]] = TRUE]
      /\ IF sendFlag[cur[t]] THEN pc'[t] = "dec" ELSE pc'[t] = "sendPost"
  BY Unfold DEF SendClaim, Goto, Finish, DecreaseThen, LocalTypes
<1>3. CASE sendFlag[cur[t]]
  <2>1. sendFlag' = sendFlag BY <1>2, <1>3, Unfold DEF GlobalTypes
  <2>2. QED BY <1>1, <1>2, <1>3, <2>1, ServeKeeps, ServeRight DEF OnSide
<1>4. CASE ~sendFlag[cur[t]]
  <2>1. pc[t] \notin OnSide /\ pc'[t] \in OnSide /\ pc'[t] \notin InHandler
    BY <1>2, <1>4 DEF OnSide, InHandler
  <2>2. QED BY <1>1, <1>2, <1>4, <2>1, ServeSwitches, ServeRight
<1>5. QED BY <1>3, <1>4

-----------------------------------------------------------------------------
(* The calls of contents code, as far as no reference is taken or given.    *)
Calls(t) ==
  /\ UNCHANGED <<sessionId, socket, ioCount, sendFlag, sendQ, indexStack,
       idGen, sessionCount, active, port, conn, recvIo, sendIo, msgs,
       foreign, announced, gone, sentTo, held, cur, kind, sid>>
  /\ connected' \in [Slots -> BOOLEAN] /\ calls' \in 0 .. MaxCalls
  /\ \A s \in Slots : connected'[s] => connected[s]
  /\ Moves(t) /\ LocalsOf(t)' /\ ControlOf(t)'

LEMMA CallsStep ==
  ASSUME IInv, NEW t \in Threads, Calls(t),
         ~foreign =>
           /\ pc[t] \in InHandler \cup InCall \cup InUse
           /\ pc'[t] \in InHandler \cup InCall \cup InUse \cup {"dec"}
           /\ pc'[t] \in InHandler => pc[t] \in InHandler \/ back[t] = "handler"
           /\ pc[t] \in InCall \cup InUse => back'[t] = back[t]
           /\ Shape(t)' /\ CallsRight'
  PROVE  IInv'
<1>1. TypeOK /\ LocalTypes /\ GlobalTypes /\ (~foreign => Own /\ Shape(t))
  BY Unfold
<1>2. GlobalTypes' BY <1>1 DEF GlobalTypes, Calls
<1>3. TypeOK' /\ Goes(t) /\ ((~foreign => Own') => IInv')
  BY <1>2, Fold DEF Calls
<1>4. ASSUME ~foreign PROVE Own'
  <2>1. cur'[t] = cur[t] /\ kind'[t] = kind[t] /\ sid'[t] = sid[t]
    BY DEF Calls
  <2>2. Quiet(t)
    BY <1>3, <1>4, <2>1 DEF Quiet, Calls, InHandler, InCall, InUse, InDelete
  <2>3. kind[t] \in {"connect", "recv"}
    BY <1>1, <1>4 DEF Shape
  <2>4. ASSUME NEW s \in Slots
        PROVE  /\ t \in Receivers(s)' => t \in Receivers(s)
               /\ t \in Senders(s)' => t \in Senders(s)
    <3>1. t \notin Senders(s)'
      BY <1>4 DEF Senders, InHandler, InCall, InUse
    <3>2. CASE pc[t] \in InHandler
      BY <1>4, <2>1, <3>1, <3>2 DEF Receivers
    <3>3. CASE pc[t] \in InCall \cup InUse
      BY <1>4, <2>1, <3>1, <3>3 DEF Receivers
    <3>4. QED BY <1>4, <3>2, <3>3
  <2>5. Sides' BY <1>1, <1>4, <2>2, <2>4, QuietSides DEF Calls
  <2>6. QED BY <1>1, <1>4, <2>2, <2>5, QuietOwn
<1>5. QED BY <1>3, <1>4

LEMMA StartCallStep ==
  ASSUME IInv, NEW t \in Threads, StartCall(t)
  PROVE  IInv'
<1>1. /\ TypeOK /\ LocalTypes /\ GlobalTypes /\ LocalsOf(t)
      /\ Control /\ ControlOf(t) /\ (~foreign => Own /\ Shape(t))
  BY Unfold
<1>2. /\ UNCHANGED <<sessionId, socket, ioCount, sendFlag, connected, sendQ,
           indexStack, idGen, sessionCount, active, port, conn, recvIo, sendIo,
           msgs, foreign, announced, gone, sentTo, held, cur, kind, sid, owed>>
      /\ pc[t] = "handler" \/ pc[t] = "idle"
      /\ calls < MaxCalls /\ calls' = calls + 1
      /\ pc' = [pc EXCEPT ![t] = "acquire"] /\ back' = [back EXCEPT ![t] = pc[t]]
  BY DEF StartCall, Goto, globalVars, fieldVars, poolVars, outerVars,
     kernelVars, boundVars, histVars, ctxVars, callVars, decVars
<1>3. PICK g \in Targets(t), o \in {"send", "disconnect", "touch"} :
        op' = [op EXCEPT ![t] = o] /\ tgt' = [tgt EXCEPT ![t] = g]
  BY DEF StartCall
<1>4. /\ g \in Ids
      /\ ~foreign => pc[t] = "handler" /\ g = sessionId[cur[t]]
  BY <1>1, <1>2 DEF Targets, GlobalTypes, ControlOf, InHandler
<1>5. /\ pc'[t] = "acquire" /\ back'[t] = pc[t] /\ op'[t] = o /\ tgt'[t] = g
      /\ owed'[t] = owed[t] /\ cur'[t] = cur[t] /\ kind'[t] = kind[t]
      /\ sid'[t] = sid[t] /\ held'[t] = held[t]
  BY <1>1, <1>2, <1>3 DEF LocalTypes
<1>6. Moves(t)
  BY <1>1, <1>2, <1>3 DEF Moves, LocalTypes
<1>7. LocalsOf(t)' /\ ControlOf(t)'
  BY <1>1, <1>2, <1>4, <1>5 DEF LocalsOf, ControlOf, Labels, InHandler, InSend, InCall, InUse, InDelete
<1>8. Calls(t)
  BY <1>1, <1>2, <1>6, <1>7, ConstantFacts DEF Calls, GlobalTypes
<1>9. ASSUME ~foreign PROVE Shape(t)' /\ CallsRight'
  <2>1. /\ kind[t] \in {"connect", "recv"} /\ owed[t] = <<>> /\ Holds(t, 1)
        /\ cur[t] \in Slots /\ sid[t] \in Ids /\ SlotOf(sid[t]) = cur[t]
    BY <1>1, <1>4, <1>9 DEF Shape, InHandler, ControlOf
  <2>2. g = sid[t]
    BY <1>1, <1>4, <1>9, <2>1 DEF Own, Attached, Has, Serving
  <2>3. /\ Attachment(t)'
        /\ \A s \in Slots : held'[t][s] = IF s = cur'[t] THEN 1 ELSE 0
    BY <1>5, <2>1 DEF Attachment, Holds
  <2>4. Shape(t)'
    BY <1>4, <1>5, <1>9, <2>1, <2>2, <2>3, ShapeCall DEF InCall, InUse
  <2>5. Goes(t) BY <1>1, <1>6, <1>7, MovesTypes
  <2>6. t \notin Callers /\ Callers' = Callers \cup {t}
    BY <1>4, <1>5, <1>9, <2>5 DEF Callers, InCall, Goes
  <2>7. Callers \in SUBSET Threads BY DEF Callers
  <2>8. Cardinality(Callers') = Cardinality(Callers) + 1 /\ Cardinality(Callers) \in Nat
    BY <2>6, <2>7, ThreadSets, FS_AddElement
  <2>9. Cardinality(At(port, Requests)) \in Nat /\ calls \in Nat
    BY <1>1, AtFinite, ConstantFacts DEF TypeOK
  <2>10. At(port, Requests)' = At(port, Requests)
    BY <1>2 DEF At, Requests
  <2>11. CallsRight'
    BY <1>1, <1>2, <1>9, <2>8, <2>9, <2>10 DEF Own, CallsRight
  <2>12. QED BY <2>4, <2>11
<1>10. QED BY <1>4, <1>5, <1>8, <1>9, CallsStep DEF InHandler, InCall, InUse

LEMMA CallFacts ==
  ASSUME IInv, ~foreign, NEW t \in Threads, pc[t] \in InCall \cup InUse
  PROVE  /\ kind[t] \in {"connect", "recv"} /\ cur[t] \in Slots /\ sid[t] \in Ids
         /\ tgt[t] = sid[t] /\ SlotOf(sid[t]) = cur[t] /\ Has(cur[t], sid[t])
         /\ \/ back[t] = "handler" /\ owed[t] = <<>>
            \/ back[t] = "idle" /\ op[t] = "disconnect" /\ owed[t] = <<cur[t], cur[t]>>
         /\ \A s \in Slots : held[t][s] =
              IF s = cur[t]
              THEN (2 - (IF back[t] = "handler" THEN 1 ELSE 0))
                     + (IF pc[t] \in InUse THEN 1 ELSE 0)
              ELSE 0
<1>1. Own /\ Shape(t) BY Unfold
<1>2. /\ kind[t] \in {"connect", "recv"} /\ cur[t] \in Slots /\ sid[t] \in Ids
      /\ tgt[t] = sid[t] /\ SlotOf(sid[t]) = cur[t]
      /\ \/ back[t] = "handler" /\ owed[t] = <<>>
         \/ back[t] = "idle" /\ op[t] = "disconnect" /\ owed[t] = <<cur[t], cur[t]>>
  BY <1>1 DEF Shape
<1>3. Has(cur[t], sid[t]) BY <1>1, <1>2 DEF Own, Attached, Serving
<1>4. Holds(t, (2 - InHand(t)) + (IF pc[t] \in InUse THEN 1 ELSE 0))
  BY <1>1 DEF Shape
<1>5. QED BY <1>2, <1>3, <1>4 DEF Holds, InHand

(* TryAcquireSession fails: what is still owed is given back, or the        *)
(* handler goes on.                                                         *)
LEMMA ResumeShape ==
  ASSUME IInv, ~foreign, NEW t \in Threads, pc[t] \in InCall, pc'[t] = Resume(t),
         cur'[t] = cur[t], kind'[t] = kind[t], sid'[t] = sid[t],
         owed'[t] = owed[t], back'[t] = back[t], held'[t] = held[t]
  PROVE  Shape(t)' /\ pc'[t] \in InHandler \cup {"dec"}
         /\ (pc'[t] \in InHandler => back[t] = "handler")
<1>1. /\ kind[t] \in {"connect", "recv"} /\ Attachment(t)'
      /\ pc[t] \notin InUse
      /\ \/ back[t] = "handler" /\ owed[t] = <<>>
         \/ back[t] = "idle" /\ owed[t] = <<cur[t], cur[t]>>
      /\ \A s \in Slots : held'[t][s] =
           IF s = cur'[t] THEN 2 - (IF back[t] = "handler" THEN 1 ELSE 0) ELSE 0
  BY CallFacts DEF Attachment, InCall, InUse
<1>2. CASE back[t] = "handler" /\ owed[t] = <<>>
  <2>1. pc'[t] = "handler" /\ owed'[t] = <<>>
        /\ \A s \in Slots : held'[t][s] = IF s = cur'[t] THEN 1 ELSE 0
    BY <1>1, <1>2 DEF Resume
  <2>2. QED BY <1>1, <1>2, <2>1, ShapeServe DEF InHandler
<1>3. CASE back[t] = "idle" /\ owed[t] = <<cur[t], cur[t]>>
  <2>1. Len(owed'[t]) = 2 /\ owed'[t][1] = cur'[t] /\ owed'[t][2] = cur'[t] /\ owed[t] # <<>>
    BY <1>1, <1>3, TwoOwed DEF Attachment
  <2>2. /\ pc'[t] = "dec" /\ back'[t] = "idle" /\ kind'[t] \in Serving
        /\ Len(owed'[t]) \in 1 .. 3
        /\ \A i \in 1 .. Len(owed'[t]) : owed'[t][i] = cur'[t]
    BY <1>1, <1>3, <2>1 DEF Resume, Serving
  <2>3. \A s \in Slots : held'[t][s] =
          IF s = cur'[t]
          THEN Len(owed'[t]) + (IF back'[t] = "handler" THEN 1 ELSE 0) ELSE 0
    BY <1>1, <1>3, <2>1
  <2>4. QED BY <1>1, <2>2, <2>3, ShapeDec DEF InHandler
<1>4. QED BY <1>1, <1>2, <1>3

LEMMA AcquireIdStep ==
  ASSUME IInv, NEW t \in Threads, AcquireId(t)
  PROVE  IInv'
<1>1. /\ TypeOK /\ LocalTypes /\ GlobalTypes /\ LocalsOf(t)
      /\ Control /\ ControlOf(t) /\ (~foreign => Own /\ Shape(t))
  BY Unfold
<1> DEFINE found == tgt[t] # NoId /\ sessionId[SlotOf(tgt[t])] = tgt[t]
<1>2. /\ pc[t] = "acquire"
      /\ pc' = [pc EXCEPT ![t] = IF found THEN "acquireConn" ELSE Resume(t)]
      /\ UNCHANGED <<sessionId, socket, ioCount, sendFlag, connected, sendQ,
           indexStack, idGen, sessionCount, active, port, conn, recvIo, sendIo,
           msgs, calls, foreign, announced, gone, sentTo, held, cur, kind, sid,
           op, tgt, owed, back>>
  BY DEF AcquireId, Goto, globalVars, fieldVars, poolVars, outerVars, localVars,
     kernelVars, boundVars, histVars, ctxVars, callVars, decVars
<1>3. found => tgt[t] \in Ids BY <1>1 DEF LocalsOf
<1> HIDE DEF found
<1>4. /\ pc'[t] = IF found THEN "acquireConn" ELSE Resume(t)
      /\ op'[t] = op[t] /\ tgt'[t] = tgt[t] /\ back'[t] = back[t]
      /\ owed'[t] = owed[t] /\ cur'[t] = cur[t] /\ kind'[t] = kind[t]
      /\ sid'[t] = sid[t] /\ held'[t] = held[t]
  BY <1>1, <1>2 DEF LocalTypes
<1>5. Moves(t)
  BY <1>1, <1>2 DEF Moves, LocalTypes
<1>6. LocalsOf(t)' /\ ControlOf(t)'
  BY <1>1, <1>2, <1>3, <1>4 DEF LocalsOf, ControlOf, Resume, Labels, InHandler, InSend, InCall, InUse, InDelete
<1>7. Calls(t)
  BY <1>1, <1>2, <1>5, <1>6 DEF Calls, GlobalTypes
<1>8. ASSUME ~foreign PROVE Shape(t)' /\ CallsRight' /\ pc'[t] = "acquireConn"
  <2>1. pc[t] \in InCall \cup InUse BY <1>2 DEF InCall
  <2>2. found BY <1>1, <1>8, <2>1, CallFacts, ConstantFacts DEF found, Has
  <2>3. pc'[t] = "acquireConn" BY <1>4, <2>2
  <2>4. Attachment(t)' BY <1>4, <1>8, <2>1, CallFacts DEF Attachment
  <2>5. Shape(t)'
    BY <1>2, <1>4, <1>8, <2>1, <2>3, <2>4, CallFacts, ShapeCall DEF InCall, InUse
  <2>6. Goes(t) BY <1>1, <1>5, <1>6, MovesTypes
  <2>7. Callers' = Callers /\ At(port, Requests)' = At(port, Requests)
    BY <1>2, <1>4, <2>3, <2>6 DEF Callers, InCall, Goes, At, Requests
  <2>8. CallsRight'
    BY <1>1, <1>2, <1>8, <2>7 DEF Own, CallsRight
  <2>9. QED BY <2>3, <2>5, <2>8
<1>9. QED BY <1>2, <1>4, <1>7, <1>8, CallsStep DEF InHandler, InCall, InUse

LEMMA AcquireConnectedStep ==
  ASSUME IInv, NEW t \in Threads, AcquireConnected(t)
  PROVE  IInv'
<1>1. /\ TypeOK /\ LocalTypes /\ GlobalTypes /\ LocalsOf(t)
      /\ Control /\ ControlOf(t) /\ (~foreign => Own /\ Shape(t))
  BY Unfold
<1> DEFINE up == connected[SlotOf(tgt[t])]
<1>2. /\ pc[t] = "acquireConn"
      /\ pc' = [pc EXCEPT ![t] = IF up THEN "acquireRef" ELSE Resume(t)]
      /\ UNCHANGED <<sessionId, socket, ioCount, sendFlag, connected, sendQ,
           indexStack, idGen, sessionCount, active, port, conn, recvIo, sendIo,
           msgs, calls, foreign, announced, gone, sentTo, held, cur, kind, sid,
           op, tgt, owed, back>>
  BY DEF AcquireConnected, Goto, globalVars, fieldVars, poolVars, outerVars,
     localVars, kernelVars, boundVars, histVars, ctxVars, callVars, decVars
<1> HIDE DEF up
<1>3. /\ pc'[t] = IF up THEN "acquireRef" ELSE Resume(t)
      /\ op'[t] = op[t] /\ tgt'[t] = tgt[t] /\ back'[t] = back[t]
      /\ owed'[t] = owed[t] /\ cur'[t] = cur[t] /\ kind'[t] = kind[t]
      /\ sid'[t] = sid[t] /\ held'[t] = held[t]
  BY <1>1, <1>2 DEF LocalTypes
<1>4. Moves(t)
  BY <1>1, <1>2 DEF Moves, LocalTypes
<1>5. LocalsOf(t)' /\ ControlOf(t)'
  BY <1>1, <1>2, <1>3 DEF LocalsOf, ControlOf, Resume, Labels, InHandler, InSend, InCall, InUse, InDelete
<1>6. Calls(t)
  BY <1>1, <1>2, <1>4, <1>5 DEF Calls, GlobalTypes
<1>7. ASSUME ~foreign
      PROVE  /\ Shape(t)' /\ CallsRight'
             /\ pc'[t] \in InHandler \cup InCall \cup {"dec"}
             /\ pc'[t] \in InHandler => back[t] = "handler"
  <2>1. pc[t] \in InCall /\ pc[t] \notin InUse BY <1>2 DEF InCall, InUse
  <2>2. Shape(t)' /\ pc'[t] \in InHandler \cup InCall \cup {"dec"}
        /\ (pc'[t] \in InHandler => back[t] = "handler")
    <3>1. CASE up
      <4>1. pc'[t] = "acquireRef" BY <1>3, <3>1
      <4>2. Attachment(t)' BY <1>3, <1>7, <2>1, CallFacts DEF Attachment
      <4>3. Shape(t)'
        BY <1>3, <1>7, <2>1, <4>1, <4>2, CallFacts, ShapeCall DEF InCall, InUse
      <4>4. QED BY <4>1, <4>3 DEF InCall, InHandler
    <3>2. CASE ~up
      BY <1>3, <1>7, <2>1, <3>2, ResumeShape
    <3>3. QED BY <3>1, <3>2
  <2>3. Goes(t) BY <1>1, <1>4, <1>5, MovesTypes
  <2>4. t \in Callers' => t \in Callers
    BY <1>3, <2>1 DEF Callers
  <2>5. Callers' \in SUBSET Callers /\ Callers \in SUBSET Threads /\ Callers' \in SUBSET Threads
    BY <2>3, <2>4 DEF Callers, Goes
  <2>6. Cardinality(Callers') <= Cardinality(Callers)
        /\ Cardinality(Callers) \in Nat /\ Cardinality(Callers') \in Nat
    BY <2>5, ThreadSets
  <2>7. /\ At(port, Requests)' = At(port, Requests)
        /\ Cardinality(At(port, Requests)) \in Nat
    <3>1. port \in Seq(Completions) BY <1>1 DEF TypeOK
    <3>2. Cardinality(At(port, Requests)) \in Nat BY <3>1, AtFinite
    <3>3. QED BY <1>2, <3>2 DEF At, Requests
  <2>8. CallsRight'
    BY <1>1, <1>2, <1>7, <2>6, <2>7, ConstantFacts DEF Own, CallsRight, TypeOK
  <2>9. QED BY <2>2, <2>8
<1>8. QED BY <1>2, <1>3, <1>6, <1>7, CallsStep DEF InHandler, InCall, InUse

(* Calls that end hand over to DecreaseIoCount.                             *)
LEMMA EndCallFacts ==
  ASSUME TypeOK, NEW t \in Threads, tgt[t] \in Ids, NEW n \in {1, 2}, EndCall(t, n)
  PROVE  /\ pc' = [pc EXCEPT ![t] = "dec"] /\ back' = back
         /\ owed' = [owed EXCEPT ![t] = owed'[t]] /\ owed'[t] \in Seq(Slots)
         /\ Len(owed'[t]) = n + Len(owed[t]) /\ owed'[t] # <<>>
         /\ \A i \in 1 .. Len(owed'[t]) :
              owed'[t][i] = IF i <= n THEN SlotOf(tgt[t]) ELSE owed[t][i - n]
<1> DEFINE q == [i \in 1 .. n |-> SlotOf(tgt[t])] \o owed[t]
<1>1. SlotOf(tgt[t]) \in Slots /\ owed[t] \in Seq(Slots)
  BY ConstantFacts DEF TypeOK
<1>2. /\ q \in Seq(Slots) /\ Len(q) = n + Len(owed[t]) /\ q # <<>>
      /\ \A i \in 1 .. Len(q) : q[i] = IF i <= n THEN SlotOf(tgt[t]) ELSE owed[t][i - n]
  BY <1>1, Repeated
<1>3. /\ pc' = [pc EXCEPT ![t] = "dec"] /\ owed' = [owed EXCEPT ![t] = q]
      /\ back' = [back EXCEPT ![t] = back[t]]
  BY DEF EndCall, DecreaseThen, Goto
<1> HIDE DEF q
<1>4. owed'[t] = q /\ back' = back
  BY <1>3 DEF TypeOK
<1>5. QED BY <1>2, <1>3, <1>4

(* With its own session as target a call gives back one of its references. *)
LEMMA EndCallShape ==
  ASSUME IInv, ~foreign, NEW t \in Threads, pc[t] \in InCall \cup InUse,
         NEW n \in {1, 2}, EndCall(t, n), n = 2 => back[t] = "handler",
         cur'[t] = cur[t], kind'[t] = kind[t], sid'[t] = sid[t],
         \A s \in Slots : held'[t][s] = IF s = cur[t] THEN Len(owed[t]) + n
                            + (IF back[t] = "handler" THEN 1 ELSE 0) ELSE 0
  PROVE  Shape(t)'
<1>1. TypeOK /\ tgt[t] \in Ids BY Unfold, CallFacts
<1>2. /\ kind[t] \in {"connect", "recv"} /\ cur[t] \in Slots /\ sid[t] \in Ids
      /\ tgt[t] = sid[t] /\ SlotOf(sid[t]) = cur[t]
      /\ \/ back[t] = "handler" /\ owed[t] = <<>>
         \/ back[t] = "idle" /\ owed[t] = <<cur[t], cur[t]>>
  BY CallFacts
<1>3. /\ pc' = [pc EXCEPT ![t] = "dec"] /\ back' = back
      /\ Len(owed'[t]) = n + Len(owed[t])
      /\ \A i \in 1 .. Len(owed'[t]) :
           owed'[t][i] = IF i <= n THEN SlotOf(tgt[t]) ELSE owed[t][i - n]
  BY <1>1, EndCallFacts
<1>4. /\ pc'[t] = "dec" /\ back'[t] = back[t] /\ Attachment(t)' /\ kind'[t] \in Serving
  BY <1>1, <1>2, <1>3 DEF Attachment, Serving, TypeOK
<1>5. \/ back[t] = "handler" /\ Len(owed[t]) = 0
      \/ back[t] = "idle" /\ Len(owed[t]) = 2 /\ owed[t][1] = cur[t] /\ owed[t][2] = cur[t]
  BY <1>2, TwoOwed, NoneOwed
<1>6. \A i \in 1 .. Len(owed'[t]) : owed'[t][i] = cur'[t]
  <2> SUFFICES ASSUME NEW i \in 1 .. Len(owed'[t]) PROVE owed'[t][i] = cur[t]
    OBVIOUS
  <2>1. CASE i <= n BY <1>2, <1>3, <2>1
  <2>2. CASE ~(i <= n)
    <3>1. i - n \in Int /\ i - n >= 1 /\ i - n <= Len(owed[t])
      BY <1>3, <1>5, <2>2
    <3>2. back[t] = "idle" /\ i - n \in {1, 2}
      <4>1. \A k \in Int : k >= 1 /\ k <= 0 => FALSE OBVIOUS
      <4>2. \A k \in Int : k >= 1 /\ k <= 2 => k \in {1, 2} OBVIOUS
      <4>3. QED BY <1>5, <3>1, <4>1, <4>2
    <3>3. owed[t][i - n] = cur[t] BY <1>5, <3>2
    <3>4. QED BY <1>3, <2>2, <3>3
  <2>3. QED BY <2>1, <2>2
<1>7. /\ Len(owed'[t]) \in 1 .. 3
      /\ back'[t] = "handler" => kind'[t] \in {"connect", "recv"} /\ Len(owed'[t]) < 3
  BY <1>2, <1>3, <1>4, <1>5
<1>8. \A s \in Slots : held'[t][s] =
        IF s = cur'[t]
        THEN Len(owed'[t]) + (IF back'[t] = "handler" THEN 1 ELSE 0) ELSE 0
  BY <1>3, <1>4, <1>5
<1>9. QED BY <1>4, <1>6, <1>7, <1>8, ShapeDec

LEMMA EndCallKeep ==
  ASSUME IInv, ~foreign, NEW t \in Threads, pc[t] \in InUse, EndCall(t, 1),
         cur'[t] = cur[t], kind'[t] = kind[t], sid'[t] = sid[t], held'[t] = held[t]
  PROVE  Shape(t)'
<1>1. pc[t] \in InCall \cup InUse OBVIOUS
<1>2. /\ \/ back[t] = "handler" /\ owed[t] = <<>>
         \/ back[t] = "idle" /\ owed[t] = <<cur[t], cur[t]>>
      /\ cur[t] \in Slots
      /\ \A s \in Slots : held[t][s] =
           IF s = cur[t] THEN (2 - (IF back[t] = "handler" THEN 1 ELSE 0)) + 1 ELSE 0
  BY <1>1, CallFacts
<1>3. \/ back[t] = "handler" /\ Len(owed[t]) = 0
      \/ back[t] = "idle" /\ Len(owed[t]) = 2
  BY <1>2, TwoOwed, NoneOwed
<1>4. PICK n \in {1, 2} : n = 1 OBVIOUS
<1>5. \A s \in Slots : held'[t][s] = IF s = cur[t] THEN Len(owed[t]) + n
                         + (IF back[t] = "handler" THEN 1 ELSE 0) ELSE 0
  <2>1. CASE back[t] = "handler"
    <3>1. \A s \in Slots : held'[t][s] = IF s = cur[t] THEN 2 ELSE 0 BY <1>2, <2>1
    <3>2. Len(owed[t]) + n + 1 = 2
      <4>1. Len(owed[t]) = 0 BY <1>3, <2>1
      <4>2. QED BY ONLY <1>4, <4>1
    <3>3. QED BY <2>1, <3>1, <3>2
  <2>2. CASE back[t] = "idle"
    <3>1. \A s \in Slots : held'[t][s] = IF s = cur[t] THEN 3 ELSE 0 BY <1>2, <2>2
    <3>2. Len(owed[t]) + n + 0 = 3
      <4>1. Len(owed[t]) = 2 BY <1>3, <2>2
      <4>2. QED BY ONLY <1>4, <4>1
    <3>3. QED BY <2>2, <3>1, <3>2
  <2>3. QED BY <1>3, <2>1, <2>2
<1>6. EndCall(t, n) /\ (n = 2 => back[t] = "handler") BY <1>4
<1>7. QED BY <1>1, <1>4, <1>5, <1>6, EndCallShape

LEMMA EndCallMore ==
  ASSUME IInv, ~foreign, NEW t \in Threads, pc[t] \in InUse, EndCall(t, 2),
         back[t] = "handler",
         cur'[t] = cur[t], kind'[t] = kind[t], sid'[t] = sid[t],
         \A s \in Slots : held'[t][s] = IF s = cur[t] THEN held[t][s] + 1 ELSE held[t][s]
  PROVE  Shape(t)'
<1>1. pc[t] \in InCall \cup InUse OBVIOUS
<1>2. /\ owed[t] = <<>> /\ cur[t] \in Slots
      /\ \A s \in Slots : held[t][s] =
           IF s = cur[t] THEN (2 - (IF back[t] = "handler" THEN 1 ELSE 0)) + 1 ELSE 0
  BY <1>1, CallFacts
<1>3. Len(owed[t]) = 0 BY <1>2, NoneOwed
<1>4. PICK n \in {1, 2} : n = 2 OBVIOUS
<1>5. \A s \in Slots : held'[t][s] = IF s = cur[t] THEN Len(owed[t]) + n
                         + (IF back[t] = "handler" THEN 1 ELSE 0) ELSE 0
  <2>1. \A s \in Slots : held[t][s] = IF s = cur[t] THEN 2 ELSE 0 BY <1>2
  <2>2. \A s \in Slots : held'[t][s] = IF s = cur[t] THEN 3 ELSE 0 BY <2>1
  <2>3. Len(owed[t]) + n + 1 = 3 BY <1>3, <1>4
  <2>4. QED BY <2>2, <2>3
<1>6. EndCall(t, n) BY <1>4
<1>7. QED BY <1>1, <1>4, <1>5, <1>6, EndCallShape

-----------------------------------------------------------------------------
(* Counting threads, and the references to a slot one by one.               *)
LEMMA SetMove ==
  ASSUME NEW A \in SUBSET Threads, NEW B \in SUBSET Threads, NEW t \in Threads,
         \A u \in Threads \ {t} : u \in B <=> u \in A
  PROVE  /\ Cardinality(A) \in Nat /\ Cardinality(B) \in Nat
         /\ Cardinality(B) + (IF t \in A THEN 1 ELSE 0)
              = Cardinality(A) + (IF t \in B THEN 1 ELSE 0)
<1>1. /\ IsFiniteSet(A) /\ Cardinality(A) \in Nat
      /\ IsFiniteSet(B) /\ Cardinality(B) \in Nat
  BY ThreadSets
<1>2. CASE t \in A /\ t \in B
  <2>1. A = B BY <1>2
  <2>2. QED BY <1>1, <1>2, <2>1
<1>3. CASE t \notin A /\ t \notin B
  <2>1. A = B BY <1>3
  <2>2. QED BY <1>1, <1>3, <2>1
<1>4. CASE t \in A /\ t \notin B
  <2>1. A = B \cup {t} BY <1>4
  <2>2. Cardinality(A) = Cardinality(B) + 1 BY <1>1, <1>4, <2>1, FS_AddElement
  <2>3. QED BY <1>1, <1>4, <2>2
<1>5. CASE t \notin A /\ t \in B
  <2>1. B = A \cup {t} BY <1>5
  <2>2. Cardinality(B) = Cardinality(A) + 1 BY <1>1, <1>5, <2>1, FS_AddElement
  <2>3. QED BY <1>1, <1>5, <2>2
<1>6. QED BY <1>2, <1>3, <1>4, <1>5

LEMMA HeldFacts ==
  ASSUME NEW h, NEW s, \A u \in Threads : h[u][s] \in Nat
  PROVE  /\ Cardinality(HeldRefs(h, s)) \in Nat
         /\ \A t \in Threads : h[t][s] <= Cardinality(HeldRefs(h, s))
         /\ \A t \in Threads : \A u \in Threads \ {t} :
              h[t][s] + h[u][s] <= Cardinality(HeldRefs(h, s))
<1> DEFINE f == [t \in Threads |-> h[t][s]]
<1>1. HeldRefs(h, s) = Tokens(Threads, f) BY DEF HeldRefs, Tokens
<1>2. \A u \in Threads : f[u] = h[u][s] /\ f[u] \in Nat OBVIOUS
<1> HIDE DEF f
<1>3. Cardinality(Tokens(Threads, f)) \in Nat
  BY <1>2, ConstantFacts, TokensFinite
<1>4. ASSUME NEW t \in Threads
      PROVE  /\ f[t] <= Cardinality(Tokens(Threads, f))
             /\ \A z \in Threads \ {t} : f[t] + f[z] <= Cardinality(Tokens(Threads, f))
  BY <1>2, ConstantFacts, TokensAtLeast
<1>5. QED BY <1>1, <1>2, <1>3, <1>4

LEMMA HeldMove ==
  ASSUME NEW h, NEW k, NEW s, NEW t \in Threads,
         \A u \in Threads : h[u][s] \in Nat, k[t][s] \in Nat,
         \A u \in Threads \ {t} : k[u][s] = h[u][s]
  PROVE  Cardinality(HeldRefs(k, s)) + h[t][s] = Cardinality(HeldRefs(h, s)) + k[t][s]
<1> DEFINE f == [u \in Threads |-> h[u][s]]
           g == [u \in Threads |-> k[u][s]]
<1>1. HeldRefs(h, s) = Tokens(Threads, f) /\ HeldRefs(k, s) = Tokens(Threads, g)
  BY DEF HeldRefs, Tokens
<1>2. /\ \A u \in Threads : f[u] = h[u][s] /\ f[u] \in Nat
      /\ \A u \in Threads : g[u] = k[u][s] /\ g[u] \in Nat
      /\ \A u \in Threads \ {t} : g[u] = f[u]
  OBVIOUS
<1> HIDE DEF f, g
<1>3. /\ Cardinality(Tokens(Threads, f)) \in Nat
      /\ Cardinality(Tokens(Threads, g)) \in Nat
  BY <1>2, ConstantFacts, TokensFinite
<1>4. CASE g[t] >= f[t]
  <2>1. PICK n \in Nat : g[t] = f[t] + n /\ n = g[t] - f[t] BY <1>2, <1>4
  <2>2. Cardinality(Tokens(Threads, g)) = Cardinality(Tokens(Threads, f)) + n
    BY <1>2, <2>1, ConstantFacts, TokensMore
  <2>3. QED BY <1>1, <1>2, <1>3, <2>1, <2>2
<1>5. CASE g[t] < f[t]
  <2>1. PICK n \in Nat : f[t] = g[t] + n /\ n = f[t] - g[t] BY <1>2, <1>5
  <2>2. Cardinality(Tokens(Threads, f)) = Cardinality(Tokens(Threads, g)) + n
    <3>1. \A u \in Threads \ {t} : f[u] = g[u] BY <1>2
    <3>2. IsFiniteSet(Threads) /\ \A u \in Threads : g[u] \in Nat
      BY <1>2, ConstantFacts
    <3>3. QED BY ONLY <2>1, <3>1, <3>2, TokensMore
  <2>3. QED BY <1>1, <1>2, <1>3, <2>1, <2>2
<1>6. QED BY <1>2, <1>4, <1>5

LEMMA HeldFew ==
  ASSUME LocalTypes, Shapes, NEW t \in Threads, NEW s \in Slots
  PROVE  held[t][s] \in 0 .. 3
<1>1. Shape(t) /\ LocalsOf(t) BY LocalFacts DEF Shapes
<1>2. \A n \in 0 .. 3 : Holds(t, n) => held[t][s] \in 0 .. 3
  BY DEF Holds
<1>3. pc[t] \in {"idle", "activate", "open"} => held[t][s] \in 0 .. 3
  BY <1>1, <1>2 DEF Shape
<1>4. pc[t] \in InHandler \cup InSend => held[t][s] \in 0 .. 3
  BY <1>1, <1>2 DEF Shape
<1>5. pc[t] \in InCall \cup InUse => held[t][s] \in 0 .. 3
  BY <1>1 DEF Shape, Holds, InHand
<1>6. pc[t] = "dec" => held[t][s] \in 0 .. 3
  <2> SUFFICES ASSUME pc[t] = "dec" PROVE held[t][s] \in 0 .. 3 OBVIOUS
  <2>1. /\ Len(owed[t]) \in 1 .. 3 /\ Holds(t, Len(owed[t]) + InHand(t))
        /\ back[t] = "handler" => Len(owed[t]) < 3
    BY <1>1 DEF Shape
  <2>2. InHand(t) \in {0, 1} /\ (InHand(t) = 1 => Len(owed[t]) < 3)
    BY <2>1 DEF InHand
  <2>3. \A n \in 1 .. 3 : \A k \in {0, 1} : (k = 1 => n < 3) => n + k \in 0 .. 3
    OBVIOUS
  <2>4. Len(owed[t]) + InHand(t) \in 0 .. 3 BY <2>1, <2>2, <2>3
  <2>5. QED BY <1>2, <2>1, <2>4
<1>7. pc[t] \in InDelete => held[t][s] \in 0 .. 3
  BY <1>1 DEF Shape, Holds
<1>8. QED
  BY <1>1, <1>3, <1>4, <1>5, <1>6, <1>7
     DEF LocalsOf, Labels, InHandler, InSend, InCall, InUse, InDelete

On(s) == {e \in Completions : e.slot = s}

LEMMA RefParts ==
  ASSUME TypeOK, Shapes, NEW s \in Slots
  PROVE  /\ \A t \in Threads : held[t][s] \in 0 .. 3
         /\ Cardinality(HeldRefs(held, s)) \in Nat
         /\ Cardinality(Outstanding(recvIo, s)) \in Nat
         /\ Cardinality(Outstanding(sendIo, s)) \in Nat
         /\ QueuedFor(port, s) = At(port, On(s))
         /\ Cardinality(At(port, On(s))) \in Nat
         /\ References(s) \in Nat
         /\ References(s) = Cardinality(HeldRefs(held, s))
              + Cardinality(Outstanding(recvIo, s))
              + Cardinality(Outstanding(sendIo, s)) + Cardinality(At(port, On(s)))
<1>1. /\ port \in Seq(Completions) /\ recvIo \in [Ids -> Nat] /\ sendIo \in [Ids -> Nat]
      /\ LocalTypes
  BY TypeParts DEF TypeOK
<1>2. \A t \in Threads : held[t][s] \in 0 .. 3 BY <1>1, HeldFew
<1>3. Cardinality(HeldRefs(held, s)) \in Nat
  <2>1. \A t \in Threads : held[t][s] \in Nat BY <1>2
  <2>2. QED BY <2>1, HeldFacts
<1>4. /\ Cardinality(Outstanding(recvIo, s)) \in Nat
      /\ Cardinality(Outstanding(sendIo, s)) \in Nat
  BY <1>1, OutstandingFacts
<1>5. \A i \in 1 .. Len(port) : port[i] \in Completions BY <1>1
<1>6. QueuedFor(port, s) = At(port, On(s))
  BY <1>5 DEF QueuedFor, At, On
<1>7. Cardinality(At(port, On(s))) \in Nat BY <1>1, AtFinite
<1>8. QED BY <1>2, <1>3, <1>4, <1>6, <1>7 DEF References

(* Every reference is one of all.                                           *)
LEMMA RefsAtLeast ==
  ASSUME TypeOK, Shapes, NEW s \in Slots, NEW t \in Threads
  PROVE  /\ held[t][s] <= References(s)
         /\ \A u \in Threads \ {t} : held[t][s] + held[u][s] <= References(s)
         /\ \A i \in 1 .. Len(port) :
              port[i].slot = s => held[t][s] + 1 <= References(s)
         /\ \A g \in Ids : SlotOf(g) = s =>
              /\ held[t][s] + recvIo[g] <= References(s)
              /\ held[t][s] + sendIo[g] <= References(s)
<1>1. /\ \A u \in Threads : held[u][s] \in Nat
      /\ Cardinality(HeldRefs(held, s)) \in Nat
      /\ Cardinality(Outstanding(recvIo, s)) \in Nat
      /\ Cardinality(Outstanding(sendIo, s)) \in Nat
      /\ Cardinality(At(port, On(s))) \in Nat
      /\ References(s) = Cardinality(HeldRefs(held, s))
           + Cardinality(Outstanding(recvIo, s))
           + Cardinality(Outstanding(sendIo, s)) + Cardinality(At(port, On(s)))
  BY RefParts
<1>2. /\ held[t][s] <= Cardinality(HeldRefs(held, s))
      /\ \A u \in Threads \ {t} :
           held[t][s] + held[u][s] <= Cardinality(HeldRefs(held, s))
  BY <1>1, HeldFacts
<1>3. ASSUME NEW i \in 1 .. Len(port), port[i].slot = s
      PROVE  Cardinality(At(port, On(s))) >= 1
  <2>1. port \in Seq(Completions) BY DEF TypeOK
  <2>2. port[i] \in On(s) BY <1>3, <2>1 DEF On
  <2>3. QED BY <2>1, <2>2, AtAll
<1>4. ASSUME NEW g \in Ids, SlotOf(g) = s
      PROVE  /\ recvIo[g] \in Nat /\ recvIo[g] <= Cardinality(Outstanding(recvIo, s))
             /\ sendIo[g] \in Nat /\ sendIo[g] <= Cardinality(Outstanding(sendIo, s))
  <2>1. recvIo \in [Ids -> Nat] /\ sendIo \in [Ids -> Nat] BY DEF TypeOK
  <2>2. QED BY <1>4, <2>1, OutstandingFacts
<1>5. QED BY <1>1, <1>2, <1>3, <1>4

(* A counter has room for all the references there can be.                  *)
LEMMA RefsFit ==
  ASSUME IInv, ~foreign, NEW s \in Slots
  PROVE  References(s) \in Nat /\ References(s) < 2147483647
<1>1. TypeOK /\ LocalTypes /\ Own BY TypeParts DEF IInv
<1> DEFINE H == Cardinality(HeldRefs(held, s))
           R == Cardinality(Outstanding(recvIo, s))
           S == Cardinality(Outstanding(sendIo, s))
           Q == Cardinality(At(port, On(s)))
           qr == At(port, Entries("recv", s))
           qs == At(port, Entries("send", s))
           qq == At(port, Requests)
<1>2. /\ H \in Nat /\ R \in Nat /\ S \in Nat /\ Q \in Nat
      /\ References(s) \in Nat /\ References(s) = H + R + S + Q
  BY <1>1, RefParts DEF Own
<1>3. H <= 3 * Cardinality(Threads)
  <2>1. HeldRefs(held, s) \in SUBSET (Threads \X (1 .. 3))
    <3>1. \A t \in Threads : held[t][s] \in 0 .. 3 BY <1>1, HeldFew DEF Own
    <3>2. \A t \in Threads : \A i \in 1 .. held[t][s] : i \in 1 .. 3 BY <3>1
    <3>3. QED BY <3>2 DEF HeldRefs
  <2>2. IsFiniteSet(1 .. 3) /\ Cardinality(1 .. 3) = 3
    <3>1. PICK a \in Int, b \in Int : a = 1 /\ b = 3 OBVIOUS
    <3>2. IsFiniteSet(a .. b) /\ Cardinality(a .. b) = IF a > b THEN 0 ELSE b - a + 1
      BY FS_Interval
    <3>3. QED BY <3>1, <3>2
  <2>3. /\ IsFiniteSet(Threads \X (1 .. 3))
        /\ Cardinality(Threads \X (1 .. 3)) = Cardinality(Threads) * Cardinality(1 .. 3)
    BY <2>2, ConstantFacts, FS_Product
  <2>4. Cardinality(HeldRefs(held, s)) <= Cardinality(Threads \X (1 .. 3))
    BY <2>1, <2>3, FS_Subset
  <2>5. \A n \in Nat : n * 3 = 3 * n OBVIOUS
  <2>6. QED BY <2>2, <2>3, <2>4, <2>5, ConstantFacts
<1>4. /\ IsFiniteSet(qr) /\ Cardinality(qr) \in Nat
      /\ IsFiniteSet(qs) /\ Cardinality(qs) \in Nat
      /\ IsFiniteSet(qq) /\ Cardinality(qq) \in Nat
  BY <1>1, AtFinite DEF TypeOK
<1>5. Q <= Cardinality(qr) + Cardinality(qs) + Cardinality(qq)
  <2>1. \A i \in 1 .. Len(port) : port[i] \in Completions
    BY <1>1 DEF TypeOK
  <2>2. At(port, On(s)) \in SUBSET ((qr \cup qs) \cup qq)
    BY <2>1 DEF At, On, Entries, Requests, Completions
  <2> HIDE DEF qr, qs, qq
  <2>3. /\ IsFiniteSet(qr \cup qs)
        /\ Cardinality(qr \cup qs) =
             Cardinality(qr) + Cardinality(qs) - Cardinality(qr \cap qs)
    BY <1>4, FS_Union
  <2>4. /\ IsFiniteSet((qr \cup qs) \cup qq)
        /\ Cardinality((qr \cup qs) \cup qq) = Cardinality(qr \cup qs)
             + Cardinality(qq) - Cardinality((qr \cup qs) \cap qq)
    BY <1>4, <2>3, FS_Union
  <2>5. Cardinality(qr \cap qs) \in Nat /\ Cardinality((qr \cup qs) \cap qq) \in Nat
        /\ Cardinality(qr \cup qs) \in Nat
    BY <1>4, <2>3, FS_Intersection, FS_CardinalityType
  <2>6. Cardinality(At(port, On(s))) <= Cardinality((qr \cup qs) \cup qq)
    BY <2>2, <2>4, FS_Subset
  <2>7. QED BY <1>2, <1>4, <2>3, <2>4, <2>5, <2>6
<1>6. R + Cardinality(qr) <= 1 /\ S + Cardinality(qs) <= 1
  <2>1. RecvSide(s) <= 1 /\ SendSide(s) <= 1 BY <1>1 DEF Own, Sides
  <2>2. Cardinality(Receivers(s)) \in Nat /\ Cardinality(Senders(s)) \in Nat
    BY <1>1, SideTypes
  <2>3. QED BY <1>2, <1>4, <2>1, <2>2 DEF RecvSide, SendSide
<1>7. Cardinality(qq) <= MaxCalls
  <2>1. Callers \in SUBSET Threads BY DEF Callers
  <2>2. Cardinality(Callers) \in Nat BY <2>1, ThreadSets
  <2>3. calls \in Nat /\ calls <= MaxCalls BY <1>1, ConstantFacts DEF TypeOK
  <2>4. QED BY <1>1, <1>4, <2>2, <2>3, ConstantFacts DEF Own, CallsRight
<1> HIDE DEF H, R, S, Q, qr, qs, qq
<1>8. QED
  BY <1>2, <1>3, <1>4, <1>5, <1>6, <1>7, ConstantFacts, CounterAssumption

LEMMA Counter ==
  ASSUME IInv, ~foreign, NEW s \in Slots
  PROVE  /\ ioCount[s] = IF ioCount[s] = DeleteFlag THEN DeleteFlag ELSE References(s)
         /\ ioCount[s] = DeleteFlag => References(s) = 0
         /\ ioCount[s] # DeleteFlag =>
              /\ ioCount[s] = References(s) /\ ioCount[s] \in Nat
              /\ LongInc(ioCount[s]) = ioCount[s] + 1 /\ ~(LongInc(ioCount[s]) < 0)
              /\ LongInc(ioCount[s]) # DeleteFlag
              /\ LongDec(ioCount[s]) = ioCount[s] - 1
<1>1. References(s) = IF ioCount[s] = DeleteFlag THEN 0 ELSE ioCount[s]
  BY DEF IInv, Own, RefsExact
<1>2. QED BY <1>1, RefsFit DEF LongInc, LongDec, DeleteFlag

-----------------------------------------------------------------------------
(* A slot that is neither free, nor being created or deleted.               *)
Live(s) ==
  /\ \A i \in 1 .. Len(indexStack) : indexStack[i] # s
  /\ pc[Acceptor] \in {"activate", "open"} => cur[Acceptor] # s
  /\ \A u \in Threads : ~Deleting(u, s)

LEMMA RefLive ==
  ASSUME IInv, ~foreign, NEW s \in Slots, References(s) >= 1,
         kind[Acceptor] = "accept" => References(s) > held[Acceptor][s]
  PROVE  Live(s) /\ ioCount[s] = References(s) /\ ioCount[s] # DeleteFlag
<1>1. Own /\ Lifecycle /\ Shapes BY DEF IInv, Own
<1>2. ioCount[s] = References(s) /\ ioCount[s] # DeleteFlag /\ ioCount[s] >= 1
  BY Counter, RefsFit
<1>3. \A i \in 1 .. Len(indexStack) : indexStack[i] # s
  BY <1>1, <1>2 DEF Lifecycle, Cleared
<1>4. pc[Acceptor] \in {"activate", "open"} => cur[Acceptor] # s
  <2> SUFFICES ASSUME pc[Acceptor] \in {"activate", "open"}, cur[Acceptor] = s PROVE FALSE
    OBVIOUS
  <2>1. /\ kind[Acceptor] = "accept"
        /\ Holds(Acceptor, IF pc[Acceptor] = "open" THEN 1 ELSE 0)
    BY <1>1, ConstantFacts DEF Shapes, Shape
  <2>2. held[Acceptor][s] = IF pc[Acceptor] = "open" THEN 1 ELSE 0
    BY <2>1 DEF Holds
  <2>3. ioCount[s] = IF pc[Acceptor] = "open" THEN 1 ELSE 0
    BY <1>1 DEF Lifecycle, Cleared
  <2>4. QED BY <1>2, <2>1, <2>2, <2>3
<1>5. ASSUME NEW u \in Threads, Deleting(u, s) PROVE FALSE
  <2>1. Fields(u, s) BY <1>1, <1>5 DEF Lifecycle
  <2>2. pc[u] \in InDelete /\ Head(owed[u]) = s /\ Shape(u)
    BY <1>1, <1>5 DEF Deleting, Shapes
  <2>3. pc[u] \in {"clear", "clearCount"} /\ kind[u] = "accept" /\ ioCount[s] = 1
    <3>1. pc[u] \in {"teardown", "clear", "clearCount"} /\ kind[u] = "accept"
          /\ ioCount[s] = 1
      BY <1>2, <2>1, <2>2 DEF Fields, InDelete
    <3>2. QED BY <2>2, <3>1 DEF Shape
  <2>4. u = Acceptor /\ cur[u] = s /\ Holds(u, 1)
    BY <2>2, <2>3 DEF Shape
  <2>5. held[Acceptor][s] = 1 BY <2>4 DEF Holds
  <2>6. QED BY <1>2, <2>3, <2>4, <2>5
<1>6. QED BY <1>2, <1>3, <1>4, <1>5 DEF Live

LEMMA ThreadLive ==
  ASSUME IInv, ~foreign, NEW t \in Threads, NEW s \in Slots, held[t][s] >= 1,
         kind[t] # "accept"
  PROVE  /\ Live(s) /\ ioCount[s] = References(s) /\ ioCount[s] # DeleteFlag
         /\ held[t][s] <= ioCount[s]
<1>1. TypeOK /\ Shapes BY DEF IInv, Own
<1>2. held[t][s] \in 0 .. 3 /\ References(s) \in Nat /\ held[Acceptor][s] \in 0 .. 3
  BY <1>1, RefParts, ConstantFacts
<1>3. held[t][s] <= References(s) BY <1>1, RefsAtLeast
<1>4. kind[Acceptor] = "accept" => References(s) > held[Acceptor][s]
  <2>1. t # Acceptor => held[t][s] + held[Acceptor][s] <= References(s)
    BY <1>1, RefsAtLeast, ConstantFacts
  <2>2. QED BY <1>2, <2>1
<1>5. QED BY <1>2, <1>3, <1>4, RefLive

LEMMA EntryLive ==
  ASSUME IInv, ~foreign, NEW i \in 1 .. Len(port)
  PROVE  /\ Live(port[i].slot) /\ ioCount[port[i].slot] # DeleteFlag
         /\ ioCount[port[i].slot] >= 1 /\ port[i] \in Completions
<1>1. TypeOK /\ Shapes BY DEF IInv, Own
<1>2. port[i] \in Completions /\ port[i].slot \in Slots
  <2>1. port[i] \in Completions BY <1>1 DEF TypeOK
  <2>2. QED BY <2>1 DEF Completions
<1>3. PICK s \in Slots : s = port[i].slot BY <1>2
<1>4. held[Acceptor][s] \in 0 .. 3 /\ References(s) \in Nat
  BY <1>1, RefParts, ConstantFacts
<1>5. held[Acceptor][s] + 1 <= References(s)
  BY <1>1, <1>3, RefsAtLeast, ConstantFacts
<1>6. References(s) >= 1 /\ References(s) > held[Acceptor][s] BY <1>4, <1>5
<1>7. QED BY <1>2, <1>3, <1>6, RefLive

LEMMA IoLive ==
  ASSUME IInv, ~foreign, NEW g \in Ids, recvIo[g] > 0 \/ sendIo[g] > 0
  PROVE  /\ Live(SlotOf(g)) /\ ioCount[SlotOf(g)] # DeleteFlag
         /\ ioCount[SlotOf(g)] >= 1 /\ Has(SlotOf(g), g)
<1>1. TypeOK /\ Shapes BY DEF IInv, Own
<1>2. PICK s \in Slots : s = SlotOf(g) BY ConstantFacts
<1>3. /\ held[Acceptor][s] \in 0 .. 3 /\ References(s) \in Nat
      /\ recvIo[g] \in Nat /\ sendIo[g] \in Nat
  BY <1>1, RefParts, ConstantFacts DEF TypeOK
<1>4. /\ held[Acceptor][s] + recvIo[g] <= References(s)
      /\ held[Acceptor][s] + sendIo[g] <= References(s)
  BY <1>1, <1>2, RefsAtLeast, ConstantFacts
<1>5. References(s) >= 1 /\ References(s) > held[Acceptor][s] BY <1>3, <1>4
<1>6. Has(SlotOf(g), g) BY DEF IInv, Own, Attached
<1>7. QED BY <1>2, <1>5, <1>6, RefLive

(* When a thread has all the references, nobody else refers to the slot.    *)
LEMMA Alone ==
  ASSUME IInv, ~foreign, NEW t \in Threads, NEW s \in Slots,
         References(s) = held[t][s]
  PROVE  /\ \A u \in Threads \ {t} :
              /\ held[u][s] = 0
              /\ kind[u] \in Serving \/ pc[u] = "open" => cur[u] # s
         /\ \A i \in 1 .. Len(port) : port[i].slot # s
         /\ \A g \in Ids : SlotOf(g) = s => recvIo[g] = 0 /\ sendIo[g] = 0
<1>1. TypeOK /\ Shapes BY DEF IInv, Own
<1>2. \A u \in Threads : held[u][s] \in 0 .. 3 BY <1>1, RefParts
<1>3. \A u \in Threads \ {t} : held[u][s] = 0
  BY <1>1, <1>2, RefsAtLeast
<1>4. \A i \in 1 .. Len(port) : port[i].slot # s
  BY <1>1, <1>2, RefsAtLeast
<1>5. ASSUME NEW g \in Ids, SlotOf(g) = s PROVE recvIo[g] = 0 /\ sendIo[g] = 0
  <2>1. recvIo[g] \in Nat /\ sendIo[g] \in Nat BY <1>1 DEF TypeOK
  <2>2. held[t][s] + recvIo[g] <= References(s) /\ held[t][s] + sendIo[g] <= References(s)
    BY <1>1, <1>5, RefsAtLeast
  <2>3. QED BY <1>2, <2>1, <2>2
<1>6. ASSUME NEW u \in Threads \ {t}, kind[u] \in Serving \/ pc[u] = "open", cur[u] = s
      PROVE  FALSE
  <2>1. Shape(u) /\ LocalsOf(u) BY <1>1, TypeParts, LocalFacts DEF Shapes
  <2>2. pc[u] # "idle" /\ pc[u] # "activate" /\ pc[u] \notin InDelete
    BY <1>6, <2>1 DEF Shape, Serving, InDelete
  <2>3. \A n : Holds(u, n) => n = 0 BY <1>3, <1>6 DEF Holds
  <2>4. pc[u] # "open" /\ pc[u] \notin InHandler \cup InSend
    BY <2>1, <2>3 DEF Shape
  <2>5. pc[u] \notin InCall \cup InUse
    BY <2>1, <2>3 DEF Shape, InHand
  <2>6. pc[u] # "dec"
    <3> SUFFICES ASSUME pc[u] = "dec" PROVE FALSE OBVIOUS
    <3>1. Len(owed[u]) \in 1 .. 3 /\ Holds(u, Len(owed[u]) + InHand(u))
      BY <2>1 DEF Shape
    <3>2. Len(owed[u]) + InHand(u) # 0
      <4>1. InHand(u) \in {0, 1} BY DEF InHand
      <4>2. \A n \in 1 .. 3 : \A k \in {0, 1} : n + k # 0 OBVIOUS
      <4>3. QED BY <3>1, <4>1, <4>2
    <3>3. QED BY <2>3, <3>1, <3>2
  <2>7. QED
    BY <2>1, <2>2, <2>4, <2>5, <2>6
       DEF LocalsOf, Labels, InHandler, InSend, InCall, InUse, InDelete
<1>7. QED BY <1>3, <1>4, <1>5, <1>6

-----------------------------------------------------------------------------
(* Steps at which no slot is created or deleted.                            *)
Calm(u) ==
  \/ /\ pc'[u] = pc[u] /\ cur'[u] = cur[u] /\ kind'[u] = kind[u]
     /\ sid'[u] = sid[u] /\ owed'[u] = owed[u]
  \/ /\ pc[u] \notin {"activate", "open"} \cup InDelete
     /\ pc'[u] \notin {"activate", "open"} \cup InDelete
     /\ kind[u] # "accept" /\ kind'[u] # "accept"
     /\ kind'[u] \in Serving => Has(cur'[u], sid'[u])

Mild ==
  /\ \A u \in Threads : Calm(u)
  /\ UNCHANGED <<sessionId, socket, indexStack, idGen, sessionCount, announced, gone>>
  /\ \A s \in Slots :
       /\ connected'[s] => connected[s]
       /\ \/ Live(s)
          \/ ioCount'[s] = ioCount[s] /\ (sendQ'[s] = sendQ[s] \/ sendQ'[s] = <<>>)

LEMMA MildRest ==
  ASSUME TypeOK, Own, Mild
  PROVE  /\ Lifecycle' /\ IndexRight' /\ GoneRight'
         /\ \A u \in Threads :
              kind'[u] \in Serving \/ pc'[u] = "open" => Has(cur[u], sid[u])'
<1>1. \A u \in Threads :
        /\ kind'[u] = "accept" <=> kind[u] = "accept"
        /\ kind'[u] = "accept" => cur'[u] = cur[u] /\ sid'[u] = sid[u]
        /\ pc'[u] = "open" <=> pc[u] = "open"
        /\ pc'[u] = "activate" <=> pc[u] = "activate"
        /\ pc'[u] \in {"activate", "open"} => cur'[u] = cur[u] /\ sid'[u] = sid[u]
        /\ pc'[u] \in InDelete <=> pc[u] \in InDelete
        /\ pc'[u] \in InDelete =>
             pc'[u] = pc[u] /\ owed'[u] = owed[u] /\ kind'[u] = kind[u]
  BY DEF Mild, Calm, InDelete
<1>2. \A u \in Threads, s \in Slots : Deleting(u, s)' <=> Deleting(u, s)
  BY <1>1 DEF Deleting
<1>3. UNCHANGED <<sessionId, socket, indexStack, idGen, sessionCount, announced, gone>>
  BY DEF Mild
<1>4. IndexRight'
  BY <1>1, <1>3 DEF Own, IndexRight
<1>5. GoneRight'
  <2>1. \A u \in Threads, s \in Slots :
          Deleting(u, s)' /\ pc'[u] = "clear" <=> Deleting(u, s) /\ pc[u] = "clear"
    BY <1>1, <1>2 DEF Deleting, InDelete
  <2>2. \A g \in Ids : SlotOf(g) \in Slots BY ConstantFacts
  <2>3. QED BY <1>1, <1>3, <2>1, <2>2, ConstantFacts DEF Own, GoneRight
<1>6. Lifecycle'
  <2>1. Lifecycle BY DEF Own
  <2>2. Len(indexStack) \in Nat /\ \A i \in 1 .. Len(indexStack) : indexStack[i] \in Slots
    BY DEF TypeOK
  <2>3. ASSUME NEW s \in Slots, ~Live(s), Cleared(s) PROVE Cleared(s)'
    BY <1>3, <2>3 DEF Mild, Cleared
  <2>4. IsInjective(indexStack)' /\ \A i \in 1 .. Len(indexStack)' : Cleared(indexStack[i])'
    <3>1. \A i \in 1 .. Len(indexStack) : ~Live(indexStack[i]) BY DEF Live
    <3>2. \A i \in 1 .. Len(indexStack) : Cleared(indexStack[i])'
      BY <1>3, <2>1, <2>2, <2>3, <3>1 DEF Lifecycle
    <3>3. QED BY <1>3, <2>1, <3>2 DEF Lifecycle, IsInjective
  <2>5. ASSUME pc'[Acceptor] = "activate"
        PROVE  /\ Cleared(cur[Acceptor])'
               /\ \A i \in 1 .. Len(indexStack)' : indexStack'[i] # cur'[Acceptor]
    <3>1. pc[Acceptor] = "activate" /\ cur'[Acceptor] = cur[Acceptor]
      BY <1>1, <2>5, ConstantFacts
    <3>2. cur[Acceptor] \in Slots
      BY <3>1, ConstantFacts DEF Own, Shapes, Shape
    <3>3. ~Live(cur[Acceptor]) /\ Cleared(cur[Acceptor])
      BY <2>1, <3>1 DEF Live, Lifecycle
    <3>4. Cleared(cur[Acceptor])' BY <2>3, <3>1, <3>2, <3>3
    <3>5. QED BY <1>3, <2>1, <3>1, <3>4 DEF Lifecycle
  <2>6. ASSUME pc'[Acceptor] = "open" PROVE ioCount'[cur'[Acceptor]] = 1
    <3>1. pc[Acceptor] = "open" /\ cur'[Acceptor] = cur[Acceptor]
      BY <1>1, <2>6, ConstantFacts
    <3>2. cur[Acceptor] \in Slots
      BY <3>1, ConstantFacts DEF Own, Shapes, Shape
    <3>3. ~Live(cur[Acceptor]) /\ ioCount[cur[Acceptor]] = 1
      BY <2>1, <3>1 DEF Live, Lifecycle
    <3>4. QED BY <3>1, <3>2, <3>3 DEF Mild
  <2>7. ASSUME NEW u \in Threads, NEW s \in Slots, Deleting(u, s)'
        PROVE  /\ \A i \in 1 .. Len(indexStack)' : indexStack'[i] # s
               /\ pc'[Acceptor] \in {"activate", "open"} => cur'[Acceptor] # s
               /\ \A v \in Threads : Deleting(v, s)' => v = u
               /\ Fields(u, s)'
    <3>1. Deleting(u, s) BY <1>2, <2>7
    <3>2. /\ \A i \in 1 .. Len(indexStack) : indexStack[i] # s
          /\ pc[Acceptor] \in {"activate", "open"} => cur[Acceptor] # s
          /\ \A v \in Threads : Deleting(v, s) => v = u
          /\ Fields(u, s)
      BY <2>1, <3>1 DEF Lifecycle
    <3>3. pc'[u] = pc[u] /\ kind'[u] = kind[u] BY <1>1, <3>1 DEF Deleting
    <3>4. ~Live(s) BY <3>1 DEF Live
    <3>5. Fields(u, s)' BY <1>3, <3>2, <3>3, <3>4 DEF Fields, Mild, Has
    <3>6. QED BY <1>1, <1>2, <1>3, <3>2, <3>5, ConstantFacts
  <2>8. QED BY <2>4, <2>5, <2>6, <2>7 DEF Lifecycle
<1>7. ASSUME NEW u \in Threads, kind'[u] \in Serving \/ pc'[u] = "open"
      PROVE  Has(cur[u], sid[u])'
  <2>1. CASE /\ pc'[u] = pc[u] /\ cur'[u] = cur[u] /\ kind'[u] = kind[u]
             /\ sid'[u] = sid[u]
    <3>1. Has(cur[u], sid[u]) BY <1>7, <2>1 DEF Own, Attached
    <3>2. QED BY <1>3, <2>1, <3>1 DEF Has
  <2>2. CASE /\ pc'[u] \notin {"activate", "open"} \cup InDelete
             /\ kind'[u] \in Serving => Has(cur'[u], sid'[u])
    BY <1>3, <1>7, <2>2 DEF Has
  <2>3. QED BY <2>1, <2>2 DEF Mild, Calm
<1>8. QED BY <1>4, <1>5, <1>6, <1>7

-----------------------------------------------------------------------------
(* How a step of thread t changes what is counted.                          *)
LEMMA RefsMove ==
  ASSUME TypeOK, Shapes, TypeOK', NEW t \in Threads, Goes(t), NEW s \in Slots,
         held'[t][s] \in Nat
  PROVE  /\ References(s)' \in Nat
         /\ References(s)' + held[t][s] + Cardinality(Outstanding(recvIo, s))
              + Cardinality(Outstanding(sendIo, s)) + Cardinality(At(port, On(s)))
            = References(s) + held'[t][s] + Cardinality(Outstanding(recvIo', s))
              + Cardinality(Outstanding(sendIo', s)) + Cardinality(At(port', On(s)))
<1>1. /\ \A u \in Threads : held[u][s] \in Nat
      /\ Cardinality(HeldRefs(held, s)) \in Nat
      /\ Cardinality(Outstanding(recvIo, s)) \in Nat
      /\ Cardinality(Outstanding(sendIo, s)) \in Nat
      /\ Cardinality(At(port, On(s))) \in Nat
      /\ References(s) = Cardinality(HeldRefs(held, s))
           + Cardinality(Outstanding(recvIo, s))
           + Cardinality(Outstanding(sendIo, s)) + Cardinality(At(port, On(s)))
  BY RefParts
<1>2. /\ recvIo' \in [Ids -> Nat] /\ sendIo' \in [Ids -> Nat]
      /\ port' \in Seq(Completions)
      /\ \A u \in Threads \ {t} : held'[u][s] = held[u][s]
  BY DEF TypeOK, Goes
<1>3. /\ Cardinality(HeldRefs(held', s)) + held[t][s]
           = Cardinality(HeldRefs(held, s)) + held'[t][s]
      /\ Cardinality(HeldRefs(held', s)) \in Nat
  <2>1. Cardinality(HeldRefs(held', s)) + held[t][s]
          = Cardinality(HeldRefs(held, s)) + held'[t][s]
    <3>1. /\ \A u \in Threads : held[u][s] \in Nat
          /\ \A u \in Threads \ {t} : held'[u][s] = held[u][s]
          /\ held'[t][s] \in Nat
      BY <1>1, <1>2
    <3>2. QED BY ONLY <3>1, t \in Threads, HeldMove
  <2>2. \A u \in Threads : held'[u][s] \in Nat BY <1>1, <1>2
  <2>3. Cardinality(HeldRefs(held', s)) \in Nat BY <2>2, HeldFacts
  <2>4. QED BY <2>1, <2>3
<1>4. /\ Cardinality(Outstanding(recvIo', s)) \in Nat
      /\ Cardinality(Outstanding(sendIo', s)) \in Nat
  BY <1>2, OutstandingFacts
<1>5. /\ QueuedFor(port', s) = At(port', On(s))
      /\ Cardinality(At(port', On(s))) \in Nat
  <2>1. \A i \in 1 .. Len(port') : port'[i] \in Completions BY <1>2
  <2>2. QueuedFor(port', s) = At(port', On(s))
    BY <2>1 DEF QueuedFor, At, On
  <2>3. QED BY <1>2, <2>2, AtFinite
<1>6. References(s)' = Cardinality(HeldRefs(held', s))
        + Cardinality(Outstanding(recvIo', s))
        + Cardinality(Outstanding(sendIo', s)) + Cardinality(At(port', On(s)))
  <2>1. References(s)' = Cardinality(HeldRefs(held', s))
          + Cardinality(Outstanding(recvIo', s))
          + Cardinality(Outstanding(sendIo', s)) + Cardinality(QueuedFor(port', s))
    BY DEF References, HeldRefs, Outstanding, QueuedFor
  <2>2. QED BY <1>5, <2>1
<1>7. held'[t][s] \in Nat /\ held[t][s] \in Nat BY <1>1
<1>8. QED BY <1>1, <1>3, <1>4, <1>5, <1>6, <1>7

LEMMA SidesMove ==
  ASSUME TypeOK, TypeOK', NEW t \in Threads, Goes(t), NEW s \in Slots
  PROVE  /\ RecvSide(s)' \in Nat /\ SendSide(s)' \in Nat
         /\ RecvSide(s)' + (IF t \in Receivers(s) THEN 1 ELSE 0)
              + Cardinality(Outstanding(recvIo, s)) + Cardinality(At(port, Entries("recv", s)))
            = RecvSide(s) + (IF t \in Receivers(s)' THEN 1 ELSE 0)
              + Cardinality(Outstanding(recvIo', s)) + Cardinality(At(port', Entries("recv", s)))
         /\ SendSide(s)' + (IF t \in Senders(s) THEN 1 ELSE 0)
              + Cardinality(Outstanding(sendIo, s)) + Cardinality(At(port, Entries("send", s)))
            = SendSide(s) + (IF t \in Senders(s)' THEN 1 ELSE 0)
              + Cardinality(Outstanding(sendIo', s)) + Cardinality(At(port', Entries("send", s)))
<1>1. /\ Receivers(s) \in SUBSET Threads /\ Receivers(s)' \in SUBSET Threads
      /\ Senders(s) \in SUBSET Threads /\ Senders(s)' \in SUBSET Threads
      /\ \A u \in Threads \ {t} : u \in Receivers(s)' <=> u \in Receivers(s)
      /\ \A u \in Threads \ {t} : u \in Senders(s)' <=> u \in Senders(s)
  BY DEF Receivers, Senders, Goes
<1>2. /\ Cardinality(Receivers(s)) \in Nat /\ Cardinality(Receivers(s)') \in Nat
      /\ Cardinality(Receivers(s)') + (IF t \in Receivers(s) THEN 1 ELSE 0)
           = Cardinality(Receivers(s)) + (IF t \in Receivers(s)' THEN 1 ELSE 0)
  BY <1>1, SetMove
<1>3. /\ Cardinality(Senders(s)) \in Nat /\ Cardinality(Senders(s)') \in Nat
      /\ Cardinality(Senders(s)') + (IF t \in Senders(s) THEN 1 ELSE 0)
           = Cardinality(Senders(s)) + (IF t \in Senders(s)' THEN 1 ELSE 0)
  BY <1>1, SetMove
<1>4. /\ Cardinality(Outstanding(recvIo, s)) \in Nat
      /\ Cardinality(Outstanding(sendIo, s)) \in Nat
      /\ Cardinality(At(port, Entries("recv", s))) \in Nat
      /\ Cardinality(At(port, Entries("send", s))) \in Nat
  BY SideTypes
<1>5. /\ Cardinality(Outstanding(recvIo', s)) \in Nat
      /\ Cardinality(Outstanding(sendIo', s)) \in Nat
      /\ Cardinality(At(port', Entries("recv", s))) \in Nat
      /\ Cardinality(At(port', Entries("send", s))) \in Nat
  BY OutstandingFacts, AtFinite DEF TypeOK
<1>6. /\ RecvSide(s)' = Cardinality(Receivers(s)') + Cardinality(Outstanding(recvIo', s))
           + Cardinality(At(port', Entries("recv", s)))
      /\ SendSide(s)' = Cardinality(Senders(s)') + Cardinality(Outstanding(sendIo', s))
           + Cardinality(At(port', Entries("send", s)))
  BY DEF RecvSide, SendSide, Outstanding, At, Entries
<1>7. QED BY <1>2, <1>3, <1>4, <1>5, <1>6 DEF RecvSide, SendSide

LEMMA CallsMove ==
  ASSUME TypeOK, TypeOK', NEW t \in Threads, Goes(t)
  PROVE  /\ Cardinality(Callers') \in Nat /\ Cardinality(Callers) \in Nat
         /\ Cardinality(At(port', Requests)) \in Nat
         /\ Cardinality(At(port, Requests)) \in Nat
         /\ At(port, Requests)' = At(port', Requests)
         /\ Cardinality(Callers') + (IF t \in Callers THEN 1 ELSE 0)
              = Cardinality(Callers) + (IF t \in Callers' THEN 1 ELSE 0)
<1>1. /\ Callers \in SUBSET Threads /\ Callers' \in SUBSET Threads
      /\ \A u \in Threads \ {t} : u \in Callers' <=> u \in Callers
  BY DEF Callers, Goes
<1>2. /\ Cardinality(Callers) \in Nat /\ Cardinality(Callers') \in Nat
      /\ Cardinality(Callers') + (IF t \in Callers THEN 1 ELSE 0)
           = Cardinality(Callers) + (IF t \in Callers' THEN 1 ELSE 0)
  BY <1>1, SetMove
<1>3. Cardinality(At(port', Requests)) \in Nat /\ Cardinality(At(port, Requests)) \in Nat
  BY AtFinite DEF TypeOK
<1>4. At(port, Requests)' = At(port', Requests) BY DEF At, Requests
<1>5. QED BY <1>2, <1>3, <1>4

(* The entries of the port after one is added, taken or a session aborted.  *)
LEMMA PortAppend ==
  ASSUME port \in Seq(Completions), NEW e \in Completions, NEW s \in Slots
  PROVE  /\ Cardinality(At(Append(port, e), On(s)))
              = Cardinality(At(port, On(s))) + (IF e.slot = s THEN 1 ELSE 0)
         /\ Cardinality(At(Append(port, e), Entries("recv", s)))
              = Cardinality(At(port, Entries("recv", s)))
                + (IF e.kind = "recv" /\ e.slot = s THEN 1 ELSE 0)
         /\ Cardinality(At(Append(port, e), Entries("send", s)))
              = Cardinality(At(port, Entries("send", s)))
                + (IF e.kind = "send" /\ e.slot = s THEN 1 ELSE 0)
         /\ Cardinality(At(Append(port, e), Requests))
              = Cardinality(At(port, Requests)) + (IF e.kind = "request" THEN 1 ELSE 0)
         /\ Append(port, e) \in Seq(Completions)
<1>1. /\ e \in On(s) <=> e.slot = s
      /\ e \in Entries("recv", s) <=> e.kind = "recv" /\ e.slot = s
      /\ e \in Entries("send", s) <=> e.kind = "send" /\ e.slot = s
      /\ e \in Requests <=> e.kind = "request"
  BY DEF On, Entries, Requests
<1>2. \A E : Cardinality(At(Append(port, e), E))
              = Cardinality(At(port, E)) + (IF e \in E THEN 1 ELSE 0)
  BY AtAppend
<1>3. Append(port, e) \in Seq(Completions) OBVIOUS
<1>4. QED BY <1>1, <1>2, <1>3

LEMMA PortTail ==
  ASSUME port \in Seq(Completions), port # <<>>, NEW s \in Slots
  PROVE  /\ Head(port) \in Completions /\ Tail(port) \in Seq(Completions)
         /\ Cardinality(At(Tail(port), On(s)))
              = Cardinality(At(port, On(s))) - (IF Head(port).slot = s THEN 1 ELSE 0)
         /\ Cardinality(At(Tail(port), Entries("recv", s)))
              = Cardinality(At(port, Entries("recv", s)))
                - (IF Head(port).kind = "recv" /\ Head(port).slot = s THEN 1 ELSE 0)
         /\ Cardinality(At(Tail(port), Entries("send", s)))
              = Cardinality(At(port, Entries("send", s)))
                - (IF Head(port).kind = "send" /\ Head(port).slot = s THEN 1 ELSE 0)
         /\ Cardinality(At(Tail(port), Requests))
              = Cardinality(At(port, Requests))
                - (IF Head(port).kind = "request" THEN 1 ELSE 0)
<1>1. Head(port) \in Completions /\ Tail(port) \in Seq(Completions) OBVIOUS
<1>2. /\ Head(port) \in On(s) <=> Head(port).slot = s
      /\ Head(port) \in Entries("recv", s) <=>
           Head(port).kind = "recv" /\ Head(port).slot = s
      /\ Head(port) \in Entries("send", s) <=>
           Head(port).kind = "send" /\ Head(port).slot = s
      /\ Head(port) \in Requests <=> Head(port).kind = "request"
  BY <1>1 DEF On, Entries, Requests
<1>3. \A E : Cardinality(At(Tail(port), E))
              = Cardinality(At(port, E)) - (IF Head(port) \in E THEN 1 ELSE 0)
  BY AtTail
<1>4. QED BY <1>1, <1>2, <1>3

LEMMA PortAbort ==
  ASSUME TypeOK, NEW g \in Ids, NEW s \in Slots
  PROVE  /\ Cardinality(At(port \o Aborted(g), On(s)))
              = Cardinality(At(port, On(s)))
                + (IF SlotOf(g) = s THEN recvIo[g] + sendIo[g] ELSE 0)
         /\ Cardinality(At(port \o Aborted(g), Entries("recv", s)))
              = Cardinality(At(port, Entries("recv", s)))
                + (IF SlotOf(g) = s THEN recvIo[g] ELSE 0)
         /\ Cardinality(At(port \o Aborted(g), Entries("send", s)))
              = Cardinality(At(port, Entries("send", s)))
                + (IF SlotOf(g) = s THEN sendIo[g] ELSE 0)
         /\ Cardinality(At(port \o Aborted(g), Requests))
              = Cardinality(At(port, Requests))
         /\ port \o Aborted(g) \in Seq(Completions)
<1> DEFINE cr == Completion(SlotOf(g), "recv", FALSE, g)
           cs == Completion(SlotOf(g), "send", FALSE, g)
           p == [i \in 1 .. recvIo[g] |-> cr]
           q == [i \in 1 .. sendIo[g] |-> cs]
<1>1. /\ cr \in Completions /\ cr.kind = "recv" /\ cr.slot = SlotOf(g)
      /\ cs \in Completions /\ cs.kind = "send" /\ cs.slot = SlotOf(g)
  BY ConstantFacts DEF Completion, Completions
<1>2. Aborted(g) = p \o q BY DEF Aborted
<1>3. recvIo[g] \in Nat /\ sendIo[g] \in Nat /\ port \in Seq(Completions)
  BY DEF TypeOK
<1> HIDE DEF cr, cs
<1>4. /\ p \in Seq(Completions) /\ Len(p) = recvIo[g]
      /\ \A i \in 1 .. Len(p) : p[i] = cr
      /\ q \in Seq(Completions) /\ Len(q) = sendIo[g]
      /\ \A i \in 1 .. Len(q) : q[i] = cs
  <2>1. ASSUME NEW n \in Nat, NEW e \in Completions
        PROVE  /\ [i \in 1 .. n |-> e] \in Seq(Completions)
               /\ Len([i \in 1 .. n |-> e]) = n
               /\ \A i \in 1 .. n : [j \in 1 .. n |-> e][i] = e
    OBVIOUS
  <2>2. /\ p \in Seq(Completions) /\ Len(p) = recvIo[g]
        /\ \A i \in 1 .. recvIo[g] : p[i] = cr
    BY <1>1, <1>3, <2>1
  <2>3. /\ q \in Seq(Completions) /\ Len(q) = sendIo[g]
        /\ \A i \in 1 .. sendIo[g] : q[i] = cs
    BY <1>1, <1>3, <2>1
  <2>4. QED BY ONLY <2>2, <2>3
<1> HIDE DEF p, q
<1>5. p \o q \in Seq(Completions) /\ port \o Aborted(g) \in Seq(Completions)
  BY <1>2, <1>3, <1>4
<1>6. ASSUME NEW E
      PROVE  Cardinality(At(port \o Aborted(g), E)) = Cardinality(At(port, E))
               + (IF cr \in E THEN recvIo[g] ELSE 0) + (IF cs \in E THEN sendIo[g] ELSE 0)
  <2>1. Cardinality(At(port \o Aborted(g), E)) =
          Cardinality(At(port, E)) + Cardinality(At(p \o q, E))
    <3>1. Cardinality(At(port \o (p \o q), E)) =
            Cardinality(At(port, E)) + Cardinality(At(p \o q, E))
      BY ONLY <1>3, <1>5, AtConcat
    <3>2. QED BY <1>2, <3>1
  <2>2. Cardinality(At(p \o q, E)) = Cardinality(At(p, E)) + Cardinality(At(q, E))
    BY <1>4, AtConcat
  <2>3. Cardinality(At(p, E)) = IF cr \in E THEN recvIo[g] ELSE 0
    BY <1>4, AtAll
  <2>4. Cardinality(At(q, E)) = IF cs \in E THEN sendIo[g] ELSE 0
    BY <1>4, AtAll
  <2>5. Cardinality(At(port, E)) \in Nat BY <1>3, AtFinite
  <2>6. QED BY <1>3, <2>1, <2>2, <2>3, <2>4, <2>5
<1>7. /\ cr \in On(s) <=> SlotOf(g) = s
      /\ cs \in On(s) <=> SlotOf(g) = s
      /\ cr \in Entries("recv", s) <=> SlotOf(g) = s
      /\ cs \notin Entries("recv", s)
      /\ cs \in Entries("send", s) <=> SlotOf(g) = s
      /\ cr \notin Entries("send", s)
      /\ cr \notin Requests /\ cs \notin Requests
  BY <1>1 DEF On, Entries, Requests
<1>8. \A E : Cardinality(At(port, E)) \in Nat BY <1>3, AtFinite
<1>9. QED BY <1>3, <1>5, <1>6, <1>7, <1>8

-----------------------------------------------------------------------------
(* What is left to show of a step at which no slot is created or deleted.   *)
Placed(e) == e.slot = SlotOf(e.sid) /\ Has(e.slot, e.sid)

LEMMA MildOwn ==
  ASSUME IInv, ~foreign, TypeOK', NEW t \in Threads, Goes(t), Shape(t)', Mild,
         RefsExact', CallsRight', Sides', QueueRight',
         \A i \in 1 .. Len(port') : Placed(port'[i]),
         \A g \in Ids : recvIo'[g] > 0 \/ sendIo'[g] > 0 => Has(SlotOf(g), g)
  PROVE  Own'
<1>1. TypeOK /\ Own BY DEF IInv
<1>2. Shapes' BY <1>1, GoesShapes DEF Own
<1>3. /\ Lifecycle' /\ IndexRight' /\ GoneRight'
      /\ \A u \in Threads :
           kind'[u] \in Serving \/ pc'[u] = "open" => Has(cur[u], sid[u])'
  BY <1>1, MildRest
<1>4. Attached'
  <2>1. sessionId' = sessionId /\ socket' = socket BY DEF Mild
  <2>2. \A i \in 1 .. Len(port') :
          port'[i].slot = SlotOf(port'[i].sid) /\ Has(port[i].slot, port[i].sid)'
    BY <2>1 DEF Placed, Has
  <2>3. \A g \in Ids : recvIo'[g] > 0 \/ sendIo'[g] > 0 => Has(SlotOf(g), g)'
    BY <2>1 DEF Has
  <2>4. QED BY <1>3, <2>2, <2>3 DEF Attached
<1>5. QED BY <1>2, <1>3, <1>4 DEF Own

(* The counter follows the references.                                      *)
LEMMA RefsKept ==
  ASSUME IInv, ~foreign, NEW s \in Slots,
         \/ ioCount'[s] = ioCount[s] /\ References(s)' = References(s)
         \/ /\ ioCount[s] # DeleteFlag /\ ioCount'[s] = LongInc(ioCount[s])
            /\ References(s)' = References(s) + 1
         \/ /\ ioCount[s] # DeleteFlag /\ ioCount[s] >= 1
            /\ ioCount'[s] = LongDec(ioCount[s])
            /\ References(s)' = References(s) - 1
  PROVE  References(s)' = IF ioCount'[s] = DeleteFlag THEN 0 ELSE ioCount'[s]
<1>1. References(s) = IF ioCount[s] = DeleteFlag THEN 0 ELSE ioCount[s]
  BY DEF IInv, Own, RefsExact
<1>2. ioCount[s] # DeleteFlag =>
        /\ ioCount[s] = References(s) /\ ioCount[s] \in Nat
        /\ LongInc(ioCount[s]) = ioCount[s] + 1
        /\ LongInc(ioCount[s]) # DeleteFlag
        /\ LongDec(ioCount[s]) = ioCount[s] - 1
  BY Counter
<1>3. \A n \in Nat : n >= 1 => n - 1 # DeleteFlag BY DEF DeleteFlag
<1>4. QED BY <1>1, <1>2, <1>3

LEMMA PlacedNow ==
  ASSUME IInv, ~foreign
  PROVE  /\ \A i \in 1 .. Len(port) : Placed(port[i])
         /\ \A g \in Ids : recvIo[g] > 0 \/ sendIo[g] > 0 => Has(SlotOf(g), g)
         /\ port \in Seq(Completions)
BY DEF IInv, Own, Attached, Placed, TypeOK

LEMMA PlacedAppend ==
  ASSUME IInv, ~foreign, NEW e \in Completions, Placed(e)
  PROVE  \A i \in 1 .. Len(Append(port, e)) : Placed(Append(port, e)[i])
<1>1. /\ Len(port) \in Nat /\ Len(Append(port, e)) = Len(port) + 1
      /\ \A i \in 1 .. Len(port) : Append(port, e)[i] = port[i]
      /\ Append(port, e)[Len(port) + 1] = e
  BY PlacedNow
<1> SUFFICES ASSUME NEW i \in 1 .. Len(Append(port, e))
             PROVE  Placed(Append(port, e)[i])
  OBVIOUS
<1>2. i \in 1 .. Len(port) \/ i = Len(port) + 1 BY <1>1
<1>3. QED BY <1>1, <1>2, PlacedNow

LEMMA PlacedTail ==
  ASSUME IInv, ~foreign, port # <<>>
  PROVE  /\ \A i \in 1 .. Len(Tail(port)) : Placed(Tail(port)[i])
         /\ Placed(Head(port)) /\ 1 \in 1 .. Len(port) /\ Head(port) = port[1]
<1>1. /\ Len(port) \in Nat \ {0} /\ Head(port) = port[1]
      /\ Len(Tail(port)) = Len(port) - 1
      /\ \A i \in 1 .. Len(port) - 1 : Tail(port)[i] = port[i + 1]
  BY PlacedNow
<1>2. \A i \in 1 .. Len(port) - 1 : i + 1 \in 1 .. Len(port) BY <1>1
<1>3. 1 \in 1 .. Len(port) BY <1>1
<1>4. QED BY <1>1, <1>2, <1>3, PlacedNow

LEMMA PlacedAbort ==
  ASSUME IInv, ~foreign, NEW g \in Ids
  PROVE  \A i \in 1 .. Len(port \o Aborted(g)) : Placed((port \o Aborted(g))[i])
<1>1. TypeOK BY DEF IInv
<1> DEFINE n == recvIo[g]  m == sendIo[g]  q == Aborted(g)
<1>2. /\ q \in Seq(Completions) /\ Len(q) = n + m /\ n \in Nat /\ m \in Nat
      /\ \A i \in 1 .. n : q[i] = Completion(SlotOf(g), "recv", FALSE, g)
      /\ \A i \in n + 1 .. n + m : q[i] = Completion(SlotOf(g), "send", FALSE, g)
  BY <1>1, AbortedFacts DEF TypeOK
<1>3. ASSUME NEW i \in 1 .. Len(q) PROVE Placed(q[i])
  <2>1. n > 0 \/ m > 0 BY <1>2
  <2>2. Has(SlotOf(g), g) BY <2>1, PlacedNow
  <2>3. i \in 1 .. n \/ i \in n + 1 .. n + m BY <1>2
  <2>4. q[i].slot = SlotOf(g) /\ q[i].sid = g BY <1>2, <2>3 DEF Completion
  <2>5. QED BY <2>2, <2>4 DEF Placed
<1> HIDE DEF n, m, q
<1>4. /\ port \in Seq(Completions) /\ Len(port \o q) = Len(port) + Len(q)
      /\ Len(port) \in Nat /\ Len(q) \in Nat
      /\ \A i \in 1 .. Len(port) : (port \o q)[i] = port[i]
      /\ \A i \in Len(port) + 1 .. Len(port) + Len(q) : (port \o q)[i] = q[i - Len(port)]
  BY <1>2, PlacedNow
<1>5. ASSUME NEW i \in 1 .. Len(port \o q) PROVE Placed((port \o q)[i])
  <2>1. i \in 1 .. Len(port)
          \/ (i \in Len(port) + 1 .. Len(port) + Len(q) /\ i - Len(port) \in 1 .. Len(q))
    BY <1>4
  <2>2. QED BY <1>3, <1>4, <2>1, PlacedNow
<1>6. QED BY <1>5 DEF q

-----------------------------------------------------------------------------
(* The kernel and the peers.                                                *)
LEMMA CompletesStep ==
  ASSUME IInv, NEW g \in Ids, NEW e \in Completions, e.slot = SlotOf(g), e.sid = g,
         port' = Append(port, e), msgs' \in 0 .. MaxMsgs,
         \/ /\ e.kind = "recv" /\ recvIo[g] > 0 /\ sendIo' = sendIo
            /\ recvIo' = [recvIo EXCEPT ![g] = recvIo[g] - 1]
         \/ /\ e.kind = "send" /\ sendIo[g] > 0 /\ recvIo' = recvIo
            /\ sendIo' = [sendIo EXCEPT ![g] = sendIo[g] - 1],
         UNCHANGED <<fieldVars, ioCount, held, poolVars, conn, calls, foreign,
                     histVars, pc, localVars>>
  PROVE  IInv'
<1>1. TypeOK /\ LocalTypes /\ GlobalTypes /\ Control BY TypeParts DEF IInv
<1>2. UNCHANGED <<sessionId, socket, sendFlag, connected, sendQ, ioCount, held,
        indexStack, idGen, sessionCount, active, conn, calls, foreign, announced,
        gone, sentTo, pc, cur, kind, sid, op, tgt, owed, back>>
  BY DEF fieldVars, poolVars, histVars, localVars, ctxVars, callVars, decVars
<1>3. /\ recvIo[g] \in Nat /\ sendIo[g] \in Nat
      /\ recvIo[g] > 0 => recvIo[g] - 1 \in Nat
      /\ sendIo[g] > 0 => sendIo[g] - 1 \in Nat
      /\ port \in Seq(Completions)
  BY <1>1 DEF TypeOK
<1>4. TypeOK'
  <2>1. port' \in Seq(Completions) BY <1>3
  <2>2. recvIo' \in [Ids -> Nat] /\ sendIo' \in [Ids -> Nat]
    BY <1>1, <1>3 DEF TypeOK
  <2>3. GlobalTypes' BY <1>1, <1>2, <2>1, <2>2 DEF GlobalTypes
  <2>4. LocalTypes' BY <1>1, <1>2 DEF LocalTypes
  <2>5. QED BY <2>3, <2>4, TypeParts
<1>5. Control' BY <1>1, <1>2 DEF Control
<1>6. ASSUME ~foreign PROVE Own'
  <2>1. Own /\ Shapes BY <1>6 DEF IInv, Own
  <2>2. Acceptor \in Threads /\ Goes(Acceptor) BY <1>2, ConstantFacts DEF Goes
  <2>3. Shape(Acceptor)'
    <3>1. Shape(Acceptor) BY <2>1, <2>2 DEF Shapes
    <3>2. QED BY <1>2, <3>1 DEF Shape, Holds, InHand
  <2>4. Mild BY <1>2 DEF Mild, Calm
  <2>5. ASSUME NEW s \in Slots
        PROVE  /\ Cardinality(Outstanding(recvIo', s)) = Cardinality(Outstanding(recvIo, s))
                    - (IF e.kind = "recv" /\ SlotOf(g) = s THEN 1 ELSE 0)
               /\ Cardinality(Outstanding(sendIo', s)) = Cardinality(Outstanding(sendIo, s))
                    - (IF e.kind = "send" /\ SlotOf(g) = s THEN 1 ELSE 0)
    <3>1. recvIo \in [Ids -> Nat] /\ sendIo \in [Ids -> Nat] BY <1>1 DEF TypeOK
    <3>2. recvIo' \in [Ids -> Nat] /\ sendIo' \in [Ids -> Nat] BY <1>4 DEF TypeOK
    <3>3. /\ \A i \in Ids \ {g} : recvIo'[i] = recvIo[i] /\ sendIo'[i] = sendIo[i]
          /\ recvIo'[g] = recvIo[g] - (IF e.kind = "recv" THEN 1 ELSE 0)
          /\ sendIo'[g] = sendIo[g] - (IF e.kind = "send" THEN 1 ELSE 0)
      BY <1>3, <3>1
    <3>4. /\ Cardinality(Outstanding(recvIo, s)) \in Nat
          /\ Cardinality(Outstanding(recvIo', s)) \in Nat
          /\ Cardinality(Outstanding(recvIo', s)) + (IF SlotOf(g) = s THEN recvIo[g] ELSE 0) =
               Cardinality(Outstanding(recvIo, s)) + (IF SlotOf(g) = s THEN recvIo'[g] ELSE 0)
      BY ONLY <3>1, <3>2, <3>3, g \in Ids, OutstandingMove
    <3>5. /\ Cardinality(Outstanding(sendIo, s)) \in Nat
          /\ Cardinality(Outstanding(sendIo', s)) \in Nat
          /\ Cardinality(Outstanding(sendIo', s)) + (IF SlotOf(g) = s THEN sendIo[g] ELSE 0) =
               Cardinality(Outstanding(sendIo, s)) + (IF SlotOf(g) = s THEN sendIo'[g] ELSE 0)
      BY ONLY <3>1, <3>2, <3>3, g \in Ids, OutstandingMove
    <3>6. CASE SlotOf(g) = s
      <4>1. CASE e.kind = "recv"
        <5>1. recvIo'[g] = recvIo[g] - 1 /\ sendIo'[g] = sendIo[g]
          BY <1>3, <3>3, <4>1
        <5>2. /\ Cardinality(Outstanding(recvIo', s)) = Cardinality(Outstanding(recvIo, s)) - 1
              /\ Cardinality(Outstanding(sendIo', s)) = Cardinality(Outstanding(sendIo, s)) - 0
          BY ONLY <1>3, <3>4, <3>5, <3>6, <5>1
        <5>3. QED BY <3>6, <4>1, <5>2
      <4>2. CASE e.kind = "send"
        <5>1. recvIo'[g] = recvIo[g] /\ sendIo'[g] = sendIo[g] - 1
          BY <1>3, <3>3, <4>2
        <5>2. /\ Cardinality(Outstanding(recvIo', s)) = Cardinality(Outstanding(recvIo, s)) - 0
              /\ Cardinality(Outstanding(sendIo', s)) = Cardinality(Outstanding(sendIo, s)) - 1
          BY ONLY <1>3, <3>4, <3>5, <3>6, <5>1
        <5>3. QED BY <3>6, <4>2, <5>2
      <4>3. QED BY <4>1, <4>2
    <3>7. CASE SlotOf(g) # s BY ONLY <3>4, <3>5, <3>7
    <3>8. QED BY <3>6, <3>7
  <2>6. RefsExact'
    <3> SUFFICES ASSUME NEW s \in Slots
                 PROVE  References(s)' = IF ioCount'[s] = DeleteFlag THEN 0 ELSE ioCount'[s]
      BY DEF RefsExact
    <3>1. held'[Acceptor][s] = held[Acceptor][s] /\ held'[Acceptor][s] \in 0 .. 3
      BY <1>1, <1>2, <2>1, <2>2, RefParts
    <3>2. References(s)' + held[Acceptor][s] + Cardinality(Outstanding(recvIo, s))
              + Cardinality(Outstanding(sendIo, s)) + Cardinality(At(port, On(s)))
            = References(s) + held'[Acceptor][s] + Cardinality(Outstanding(recvIo', s))
              + Cardinality(Outstanding(sendIo', s)) + Cardinality(At(port', On(s)))
          /\ References(s)' \in Nat
      BY <1>1, <1>4, <2>1, <2>2, <3>1, RefsMove
    <3>3. Cardinality(At(port', On(s))) =
            Cardinality(At(port, On(s))) + (IF e.slot = s THEN 1 ELSE 0)
      BY <1>3, PortAppend
    <3>4. /\ Cardinality(Outstanding(recvIo, s)) \in Nat
          /\ Cardinality(Outstanding(sendIo, s)) \in Nat
          /\ Cardinality(At(port, On(s))) \in Nat /\ References(s) \in Nat
      BY <1>1, <2>1, RefParts
    <3>5. References(s)' = References(s)
      <4>1. /\ (e.kind = "recv" \/ e.kind = "send") /\ e.slot = SlotOf(g)
            /\ Cardinality(Outstanding(recvIo', s)) = Cardinality(Outstanding(recvIo, s))
                 - (IF e.kind = "recv" /\ SlotOf(g) = s THEN 1 ELSE 0)
            /\ Cardinality(Outstanding(sendIo', s)) = Cardinality(Outstanding(sendIo, s))
                 - (IF e.kind = "send" /\ SlotOf(g) = s THEN 1 ELSE 0)
        BY <2>5
      <4>2. held[Acceptor][s] \in Nat BY <3>1
      <4>3. CASE SlotOf(g) # s BY ONLY <3>1, <3>2, <3>3, <3>4, <4>1, <4>2, <4>3
      <4>4. CASE SlotOf(g) = s BY ONLY <3>1, <3>2, <3>3, <3>4, <4>1, <4>2, <4>4
      <4>5. QED BY <4>3, <4>4
    <3>6. QED BY <1>2, <1>6, <3>5, RefsKept
  <2>7. Sides'
    <3> SUFFICES ASSUME NEW s \in Slots
                 PROVE  /\ RecvSide(s)' <= 1 /\ SendSide(s)' <= 1
                        /\ SendSide(s)' = 1 => sendFlag'[s]
      BY DEF Sides
    <3>1. RecvSide(s)' + (IF Acceptor \in Receivers(s) THEN 1 ELSE 0)
              + Cardinality(Outstanding(recvIo, s)) + Cardinality(At(port, Entries("recv", s)))
            = RecvSide(s) + (IF Acceptor \in Receivers(s)' THEN 1 ELSE 0)
              + Cardinality(Outstanding(recvIo', s)) + Cardinality(At(port', Entries("recv", s)))
         /\ SendSide(s)' + (IF Acceptor \in Senders(s) THEN 1 ELSE 0)
              + Cardinality(Outstanding(sendIo, s)) + Cardinality(At(port, Entries("send", s)))
            = SendSide(s) + (IF Acceptor \in Senders(s)' THEN 1 ELSE 0)
              + Cardinality(Outstanding(sendIo', s)) + Cardinality(At(port', Entries("send", s)))
         /\ RecvSide(s)' \in Nat /\ SendSide(s)' \in Nat
      BY <1>1, <1>4, <2>2, SidesMove
    <3>2. Receivers(s)' = Receivers(s) /\ Senders(s)' = Senders(s)
      BY <1>2 DEF Receivers, Senders
    <3>3. /\ Cardinality(At(port', Entries("recv", s))) = Cardinality(At(port, Entries("recv", s)))
               + (IF e.kind = "recv" /\ e.slot = s THEN 1 ELSE 0)
          /\ Cardinality(At(port', Entries("send", s))) = Cardinality(At(port, Entries("send", s)))
               + (IF e.kind = "send" /\ e.slot = s THEN 1 ELSE 0)
      BY <1>3, PortAppend
    <3>4. /\ Cardinality(Outstanding(recvIo, s)) \in Nat
          /\ Cardinality(Outstanding(sendIo, s)) \in Nat
          /\ Cardinality(At(port, Entries("recv", s))) \in Nat
          /\ Cardinality(At(port, Entries("send", s))) \in Nat
          /\ RecvSide(s) \in Nat /\ SendSide(s) \in Nat
      BY <1>1, SideTypes
    <3>5. RecvSide(s)' = RecvSide(s) /\ SendSide(s)' = SendSide(s)
      <4>1. /\ (e.kind = "recv" \/ e.kind = "send") /\ e.slot = SlotOf(g)
            /\ Cardinality(Outstanding(recvIo', s)) = Cardinality(Outstanding(recvIo, s))
                 - (IF e.kind = "recv" /\ SlotOf(g) = s THEN 1 ELSE 0)
            /\ Cardinality(Outstanding(sendIo', s)) = Cardinality(Outstanding(sendIo, s))
                 - (IF e.kind = "send" /\ SlotOf(g) = s THEN 1 ELSE 0)
        BY <2>5
      <4>2. CASE SlotOf(g) # s BY ONLY <3>1, <3>2, <3>3, <3>4, <4>1, <4>2
      <4>3. CASE SlotOf(g) = s BY ONLY <3>1, <3>2, <3>3, <3>4, <4>1, <4>3
      <4>4. QED BY <4>2, <4>3
    <3>6. QED BY <1>2, <2>1, <3>5 DEF Own, Sides
  <2>8. CallsRight'
    <3>1. Callers' = Callers BY <1>2 DEF Callers
    <3>2. PICK s \in Slots : TRUE BY SlotsAssumption
    <3>3. Cardinality(At(port', Requests)) =
            Cardinality(At(port, Requests)) + (IF e.kind = "request" THEN 1 ELSE 0)
      BY <1>3, PortAppend
    <3>4. Cardinality(At(port, Requests)) \in Nat BY <1>3, AtFinite
    <3>5. At(port, Requests)' = At(port', Requests) BY DEF At, Requests
    <3>6. e.kind # "request" OBVIOUS
    <3>7. Cardinality(At(port, Requests)') = Cardinality(At(port, Requests))
      BY <3>3, <3>4, <3>5, <3>6
    <3>8. QED BY <1>2, <2>1, <3>1, <3>7 DEF Own, CallsRight
  <2>9. QueueRight' BY <1>2, <2>1 DEF Own, QueueRight
  <2>10. \A i \in 1 .. Len(port') : Placed(port'[i])
    <3>1. recvIo[g] > 0 \/ sendIo[g] > 0 OBVIOUS
    <3>2. Placed(e) BY <1>6, <3>1, PlacedNow DEF Placed
    <3>3. QED BY <1>6, <3>2, PlacedAppend
  <2>11. \A h \in Ids : recvIo'[h] > 0 \/ sendIo'[h] > 0 => Has(SlotOf(h), h)
    <3>1. \A h \in Ids : recvIo'[h] > 0 \/ sendIo'[h] > 0 => recvIo[h] > 0 \/ sendIo[h] > 0
      BY <1>1, <1>3 DEF TypeOK
    <3>2. QED BY <1>6, <3>1, PlacedNow
  <2>12. QED
    BY <1>4, <1>6, <2>2, <2>3, <2>4, <2>6, <2>7, <2>8, <2>9, <2>10, <2>11, MildOwn
<1>7. QED BY <1>2, <1>4, <1>5, <1>6 DEF IInv

LEMMA RecvCompletesStep ==
  ASSUME IInv, NEW g \in Ids, RecvCompletes(g) PROVE IInv'
<1>1. PICK b \in BOOLEAN : port' = Append(port, Completion(SlotOf(g), "recv", b, g))
  BY DEF RecvCompletes
<1>2. msgs' \in 0 .. MaxMsgs
  <2>1. msgs \in 0 .. MaxMsgs /\ MaxMsgs \in Nat BY ConstantFacts DEF IInv, TypeOK
  <2>2. msgs' = msgs \/ (msgs < MaxMsgs /\ msgs' = msgs + 1) BY DEF RecvCompletes
  <2>3. QED BY <2>1, <2>2
<1> DEFINE e == Completion(SlotOf(g), "recv", b, g)
<1>3. /\ e \in Completions /\ e.slot = SlotOf(g) /\ e.sid = g /\ e.kind = "recv"
  BY ConstantFacts DEF Completion, Completions
<1> HIDE DEF e
<1>4. port' = Append(port, e) BY <1>1 DEF e
<1>5. /\ recvIo[g] > 0 /\ sendIo' = sendIo /\ recvIo' = [recvIo EXCEPT ![g] = recvIo[g] - 1]
      /\ UNCHANGED <<fieldVars, ioCount, held, poolVars, conn, calls, foreign,
                     histVars, pc, localVars>>
  BY DEF RecvCompletes
<1>6. QED BY <1>2, <1>3, <1>4, <1>5, CompletesStep

LEMMA SendCompletesStep ==
  ASSUME IInv, NEW g \in Ids, SendCompletes(g) PROVE IInv'
<1>1. PICK b \in BOOLEAN : port' = Append(port, Completion(SlotOf(g), "send", b, g))
  BY DEF SendCompletes
<1>2. msgs' \in 0 .. MaxMsgs
  BY ConstantFacts DEF SendCompletes, IInv, TypeOK, boundVars
<1> DEFINE e == Completion(SlotOf(g), "send", b, g)
<1>3. /\ e \in Completions /\ e.slot = SlotOf(g) /\ e.sid = g /\ e.kind = "send"
  BY ConstantFacts DEF Completion, Completions
<1> HIDE DEF e
<1>4. port' = Append(port, e) BY <1>1 DEF e
<1>5. /\ sendIo[g] > 0 /\ recvIo' = recvIo /\ sendIo' = [sendIo EXCEPT ![g] = sendIo[g] - 1]
      /\ UNCHANGED <<fieldVars, ioCount, held, poolVars, conn, calls, foreign,
                     histVars, pc, localVars>>
  BY DEF SendCompletes, boundVars
<1>6. QED BY <1>2, <1>3, <1>4, <1>5, CompletesStep

LEMMA PeerClosesStep ==
  ASSUME IInv, NEW g \in Ids, PeerCloses(g) PROVE IInv'
<1>1. conn' = [conn EXCEPT ![g] = "peerClosed"]
      /\ UNCHANGED <<sessionId, socket, sendFlag, connected, sendQ, ioCount, held,
        indexStack, idGen, sessionCount, active, port, recvIo, sendIo, msgs,
        calls, foreign, announced, gone, sentTo, pc, cur, kind, sid, op, tgt,
        owed, back>>
  BY DEF PeerCloses, fieldVars, poolVars, boundVars, histVars, localVars,
     ctxVars, callVars, decVars
<1>2. TypeOK' BY <1>1 DEF IInv, TypeOK
<1>3. Control' BY <1>1 DEF IInv, Control
<1>4. ASSUME ~foreign PROVE Own'
  <2>1. Own BY <1>4 DEF IInv
  <2>2. Shapes'
    <3> SUFFICES ASSUME NEW u \in Threads PROVE Shape(u)' BY DEF Shapes
    <3>1. Shape(u) BY <2>1 DEF Own, Shapes
    <3>2. QED BY <1>1, <3>1 DEF Shape, Holds, InHand
  <2>3. Attached' /\ QueueRight' BY <1>1, <2>1 DEF Own, Attached, Has, QueueRight
  <2>4. RefsExact'
    BY <1>1, <2>1 DEF Own, RefsExact, References, HeldRefs, Outstanding, QueuedFor
  <2>5. Lifecycle'
    BY <1>1, <2>1 DEF Own, Lifecycle, IsInjective, Cleared, Deleting, Fields, Has
  <2>6. IndexRight' /\ CallsRight'
    BY <1>1, <2>1 DEF Own, IndexRight, CallsRight, Callers, At, Requests
  <2>7. Sides'
    <3> SUFFICES ASSUME NEW s \in Slots
                 PROVE  RecvSide(s)' = RecvSide(s) /\ SendSide(s)' = SendSide(s)
      BY <1>1, <2>1 DEF Own, Sides
    <3>1. Receivers(s)' = Receivers(s) /\ Senders(s)' = Senders(s)
      BY <1>1 DEF Receivers, Senders
    <3>2. /\ Outstanding(recvIo, s)' = Outstanding(recvIo, s)
          /\ Outstanding(sendIo, s)' = Outstanding(sendIo, s)
          /\ At(port, Entries("recv", s))' = At(port, Entries("recv", s))
          /\ At(port, Entries("send", s))' = At(port, Entries("send", s))
      BY <1>1 DEF Outstanding, At, Entries
    <3>3. QED BY <3>1, <3>2 DEF RecvSide, SendSide
  <2>8. GoneRight' BY <1>1, <2>1 DEF Own, GoneRight, Deleting
  <2>9. QED BY <2>2, <2>3, <2>4, <2>5, <2>6, <2>7, <2>8 DEF Own
<1>5. QED BY <1>1, <1>2, <1>3, <1>4 DEF IInv

-----------------------------------------------------------------------------
(* Calls that have what they need.                                          *)
LEMMA CallsDrop ==
  ASSUME IInv, ~foreign, NEW t \in Threads, Goes(t),
         t \in Callers' => t \in Callers, port' = port, calls' = calls
  PROVE  CallsRight'
<1>1. TypeOK /\ Own BY DEF IInv
<1>2. Callers' \in SUBSET Callers /\ Callers \in SUBSET Threads /\ Callers' \in SUBSET Threads
  BY DEF Callers, Goes
<1>3. Cardinality(Callers') <= Cardinality(Callers)
      /\ Cardinality(Callers) \in Nat /\ Cardinality(Callers') \in Nat
  BY <1>2, ThreadSets
<1>4. /\ At(port, Requests)' = At(port, Requests)
      /\ Cardinality(At(port, Requests)) \in Nat
  <2>1. port \in Seq(Completions) BY <1>1 DEF TypeOK
  <2>2. Cardinality(At(port, Requests)) \in Nat BY <2>1, AtFinite
  <2>3. QED BY <2>2 DEF At, Requests
<1>5. calls \in Nat BY <1>1, ConstantFacts DEF TypeOK
<1>6. QED BY <1>1, <1>3, <1>4, <1>5 DEF Own, CallsRight

LEMMA EndCallControl ==
  ASSUME IInv, NEW t \in Threads, pc[t] \in {"acquireRef"} \cup InUse,
         NEW n \in {1, 2}, EndCall(t, n),
         cur' = cur, kind' = kind, sid' = sid, op' = op, tgt' = tgt,
         held' = [held EXCEPT ![t] = held'[t]], held'[t] \in [Slots -> Int]
  PROVE  /\ Moves(t) /\ LocalsOf(t)' /\ ControlOf(t)' /\ Goes(t)
         /\ pc'[t] = "dec" /\ back'[t] = back[t]
         /\ cur'[t] = cur[t] /\ kind'[t] = kind[t] /\ sid'[t] = sid[t]
         /\ tgt[t] \in Ids
<1>1. /\ TypeOK /\ LocalTypes /\ LocalsOf(t) /\ ControlOf(t)
  BY Unfold
<1>2. tgt[t] \in Ids BY <1>1 DEF ControlOf
<1>3. /\ pc' = [pc EXCEPT ![t] = "dec"] /\ back' = back
      /\ owed' = [owed EXCEPT ![t] = owed'[t]] /\ owed'[t] \in Seq(Slots)
      /\ owed'[t] # <<>>
  BY <1>1, <1>2, EndCallFacts
<1>4. /\ pc'[t] = "dec" /\ back'[t] = back[t]
      /\ cur'[t] = cur[t] /\ kind'[t] = kind[t] /\ sid'[t] = sid[t]
      /\ op'[t] = op[t] /\ tgt'[t] = tgt[t]
  BY <1>1, <1>3 DEF LocalTypes
<1>5. Moves(t) BY <1>1, <1>3, <1>4 DEF Moves, LocalTypes
<1>6. LocalsOf(t)' BY <1>1, <1>3, <1>4 DEF LocalsOf, Labels
<1>7. ControlOf(t)'
  BY <1>1, <1>2, <1>3, <1>4 DEF ControlOf, InHandler, InSend, InCall, InUse, InDelete
<1>8. Goes(t) BY <1>1, <1>5, <1>6, MovesTypes
<1>9. QED BY <1>2, <1>4, <1>5, <1>6, <1>7, <1>8

LEMMA TouchStep ==
  ASSUME IInv, NEW t \in Threads, Touch(t)
  PROVE  IInv'
<1>1. /\ pc[t] = "use" /\ EndCall(t, 1)
      /\ UNCHANGED <<sessionId, socket, ioCount, sendFlag, connected, sendQ,
           indexStack, idGen, sessionCount, active, port, conn, recvIo, sendIo,
           msgs, calls, foreign, announced, gone, sentTo, held, cur, kind, sid,
           op, tgt>>
  BY DEF Touch, globalVars, fieldVars, poolVars, outerVars, kernelVars,
     boundVars, histVars, ctxVars, callVars
<1>2. TypeOK /\ LocalTypes /\ GlobalTypes BY Unfold
<1>3. held' = [held EXCEPT ![t] = held'[t]] /\ held'[t] \in [Slots -> Int]
      /\ held'[t] = held[t]
  BY <1>1, <1>2 DEF LocalTypes
<1>4. /\ Moves(t) /\ LocalsOf(t)' /\ ControlOf(t)' /\ Goes(t)
      /\ pc'[t] = "dec" /\ back'[t] = back[t]
      /\ cur'[t] = cur[t] /\ kind'[t] = kind[t] /\ sid'[t] = sid[t]
  BY <1>1, <1>3, EndCallControl DEF InUse
<1>5. Calls(t) BY <1>1, <1>2, <1>4 DEF Calls, GlobalTypes
<1>6. ASSUME ~foreign PROVE Shape(t)' /\ CallsRight'
  <2>1. pc[t] \in InCall \cup InUse /\ pc[t] \in InUse BY <1>1 DEF InUse
  <2>2. Shape(t)' BY <1>1, <1>3, <1>4, <1>6, <2>1, EndCallKeep
  <2>3. t \notin Callers' BY <1>4 DEF Callers, InCall
  <2>4. CallsRight' BY <1>1, <1>4, <1>6, <2>3, CallsDrop
  <2>5. QED BY <2>2, <2>4
<1>7. QED BY <1>1, <1>4, <1>5, <1>6, CallsStep DEF InUse, InHandler

LEMMA DropConnectedStep ==
  ASSUME IInv, NEW t \in Threads, DropConnected(t)
  PROVE  IInv'
<1>1. /\ TypeOK /\ LocalTypes /\ GlobalTypes /\ LocalsOf(t)
      /\ Control /\ ControlOf(t) /\ (~foreign => Own /\ Shape(t))
  BY Unfold
<1>2. /\ pc[t] = "use" /\ pc' = [pc EXCEPT ![t] = "cancel"]
      /\ connected' = [connected EXCEPT ![SlotOf(tgt[t])] = FALSE]
      /\ UNCHANGED <<sessionId, socket, ioCount, sendFlag, sendQ, indexStack,
           idGen, sessionCount, active, port, conn, recvIo, sendIo, msgs, calls,
           foreign, announced, gone, sentTo, held, cur, kind, sid, op, tgt,
           owed, back>>
  BY DEF DropConnected, Goto, poolVars, outerVars, localVars, kernelVars,
     boundVars, histVars, ctxVars, callVars, decVars
<1>3. /\ pc'[t] = "cancel" /\ op'[t] = op[t] /\ tgt'[t] = tgt[t]
      /\ back'[t] = back[t] /\ owed'[t] = owed[t] /\ cur'[t] = cur[t]
      /\ kind'[t] = kind[t] /\ sid'[t] = sid[t] /\ held'[t] = held[t]
  BY <1>1, <1>2 DEF LocalTypes
<1>4. Moves(t) BY <1>1, <1>2 DEF Moves, LocalTypes
<1>5. LocalsOf(t)' /\ ControlOf(t)'
  BY <1>1, <1>2, <1>3 DEF LocalsOf, ControlOf, Labels, InHandler, InSend, InCall, InUse, InDelete
<1>6. Calls(t)
  BY <1>1, <1>2, <1>4, <1>5 DEF Calls, GlobalTypes
<1>7. ASSUME ~foreign PROVE Shape(t)' /\ CallsRight'
  <2>1. pc[t] \in InCall \cup InUse /\ pc[t] \in InUse BY <1>2 DEF InUse
  <2>2. Attachment(t)' BY <1>3, <1>7, <2>1, CallFacts DEF Attachment
  <2>3. Shape(t)'
    BY <1>2, <1>3, <1>7, <2>1, <2>2, CallFacts, ShapeCall DEF InUse
  <2>4. Goes(t) BY <1>1, <1>4, <1>5, MovesTypes
  <2>5. t \notin Callers' BY <1>3 DEF Callers, InCall
  <2>6. CallsRight' BY <1>2, <1>7, <2>4, <2>5, CallsDrop
  <2>7. QED BY <2>3, <2>6
<1>8. QED BY <1>2, <1>3, <1>6, <1>7, CallsStep DEF InUse, InHandler

(* An aborted operation becomes a completion.                               *)
LEMMA AbortMove ==
  ASSUME TypeOK, NEW g \in Ids, AbortIo(g), NEW s \in Slots
  PROVE  /\ recvIo' \in [Ids -> Nat] /\ sendIo' \in [Ids -> Nat]
         /\ port' \in Seq(Completions)
         /\ Cardinality(Outstanding(recvIo', s)) + Cardinality(Outstanding(sendIo', s))
              + Cardinality(At(port', On(s)))
            = Cardinality(Outstanding(recvIo, s)) + Cardinality(Outstanding(sendIo, s))
              + Cardinality(At(port, On(s)))
         /\ Cardinality(Outstanding(recvIo', s)) + Cardinality(At(port', Entries("recv", s)))
            = Cardinality(Outstanding(recvIo, s)) + Cardinality(At(port, Entries("recv", s)))
         /\ Cardinality(Outstanding(sendIo', s)) + Cardinality(At(port', Entries("send", s)))
            = Cardinality(Outstanding(sendIo, s)) + Cardinality(At(port, Entries("send", s)))
         /\ Cardinality(At(port', Requests)) = Cardinality(At(port, Requests))
         /\ \A h \in Ids : recvIo'[h] > 0 \/ sendIo'[h] > 0 => recvIo[h] > 0 \/ sendIo[h] > 0
<1>1. /\ recvIo \in [Ids -> Nat] /\ sendIo \in [Ids -> Nat] /\ port \in Seq(Completions)
  BY DEF TypeOK
<1>2. /\ recvIo' \in [Ids -> Nat] /\ sendIo' \in [Ids -> Nat]
      /\ recvIo'[g] = 0 /\ sendIo'[g] = 0 /\ recvIo[g] \in Nat /\ sendIo[g] \in Nat
      /\ \A i \in Ids \ {g} : recvIo'[i] = recvIo[i] /\ sendIo'[i] = sendIo[i]
  BY <1>1 DEF AbortIo
<1>3. /\ Cardinality(Outstanding(recvIo, s)) \in Nat
      /\ Cardinality(Outstanding(recvIo', s)) \in Nat
      /\ Cardinality(Outstanding(recvIo', s)) + (IF SlotOf(g) = s THEN recvIo[g] ELSE 0) =
           Cardinality(Outstanding(recvIo, s)) + (IF SlotOf(g) = s THEN recvIo'[g] ELSE 0)
  <2>1. /\ recvIo \in [Ids -> Nat] /\ recvIo' \in [Ids -> Nat] /\ g \in Ids
        /\ \A i \in Ids \ {g} : recvIo'[i] = recvIo[i]
    BY <1>1, <1>2
  <2>2. QED BY ONLY <2>1, OutstandingMove
<1>4. /\ Cardinality(Outstanding(sendIo, s)) \in Nat
      /\ Cardinality(Outstanding(sendIo', s)) \in Nat
      /\ Cardinality(Outstanding(sendIo', s)) + (IF SlotOf(g) = s THEN sendIo[g] ELSE 0) =
           Cardinality(Outstanding(sendIo, s)) + (IF SlotOf(g) = s THEN sendIo'[g] ELSE 0)
  <2>1. /\ sendIo \in [Ids -> Nat] /\ sendIo' \in [Ids -> Nat] /\ g \in Ids
        /\ \A i \in Ids \ {g} : sendIo'[i] = sendIo[i]
    BY <1>1, <1>2
  <2>2. QED BY ONLY <2>1, OutstandingMove
<1>5. port' = port \o Aborted(g) BY DEF AbortIo
<1>6. /\ Cardinality(At(port', On(s))) = Cardinality(At(port, On(s)))
           + (IF SlotOf(g) = s THEN recvIo[g] + sendIo[g] ELSE 0)
      /\ Cardinality(At(port', Entries("recv", s))) = Cardinality(At(port, Entries("recv", s)))
           + (IF SlotOf(g) = s THEN recvIo[g] ELSE 0)
      /\ Cardinality(At(port', Entries("send", s))) = Cardinality(At(port, Entries("send", s)))
           + (IF SlotOf(g) = s THEN sendIo[g] ELSE 0)
      /\ Cardinality(At(port', Requests)) = Cardinality(At(port, Requests))
      /\ port' \in Seq(Completions)
  BY <1>5, PortAbort
<1>7. /\ Cardinality(At(port, On(s))) \in Nat
      /\ Cardinality(At(port, Entries("recv", s))) \in Nat
      /\ Cardinality(At(port, Entries("send", s))) \in Nat
  BY <1>1, AtFinite
<1>8. \A h \in Ids : recvIo'[h] > 0 \/ sendIo'[h] > 0 => recvIo[h] > 0 \/ sendIo[h] > 0
  BY <1>2
<1> DEFINE A == Cardinality(Outstanding(recvIo, s))
           A1 == Cardinality(Outstanding(recvIo', s))
           B == Cardinality(Outstanding(sendIo, s))
           B1 == Cardinality(Outstanding(sendIo', s))
           P == Cardinality(At(port, On(s)))
           P1 == Cardinality(At(port', On(s)))
           R == Cardinality(At(port, Entries("recv", s)))
           R1 == Cardinality(At(port', Entries("recv", s)))
           S == Cardinality(At(port, Entries("send", s)))
           S1 == Cardinality(At(port', Entries("send", s)))
<1>9. A \in Nat /\ B \in Nat /\ P \in Nat /\ R \in Nat /\ S \in Nat
  BY <1>3, <1>4, <1>7
<1>10. CASE SlotOf(g) = s
  <2>1. /\ A1 + recvIo[g] = A + 0 /\ B1 + sendIo[g] = B + 0
        /\ P1 = P + (recvIo[g] + sendIo[g]) /\ R1 = R + recvIo[g] /\ S1 = S + sendIo[g]
        /\ A1 \in Nat /\ B1 \in Nat
    BY <1>2, <1>3, <1>4, <1>6, <1>10
  <2> HIDE DEF A, A1, B, B1, P, P1, R, R1, S, S1
  <2>2. A1 + B1 + P1 = A + B + P /\ A1 + R1 = A + R /\ B1 + S1 = B + S
    BY ONLY <1>2, <1>9, <2>1
  <2>3. QED BY <1>2, <1>6, <1>8, <2>2 DEF A, A1, B, B1, P, P1, R, R1, S, S1
<1>11. CASE SlotOf(g) # s
  <2>1. A1 = A /\ B1 = B /\ P1 = P /\ R1 = R /\ S1 = S
    BY <1>3, <1>4, <1>6, <1>7, <1>11
  <2>2. QED BY <1>2, <1>6, <1>8, <2>1
<1>12. QED BY <1>10, <1>11

LEMMA CancelIoStep ==
  ASSUME IInv, NEW t \in Threads, CancelIo(t)
  PROVE  IInv'
<1>1. /\ TypeOK /\ LocalTypes /\ GlobalTypes /\ LocalsOf(t)
      /\ Control /\ ControlOf(t) /\ (~foreign => Own /\ Shape(t))
  BY Unfold
<1> DEFINE g == socket[SlotOf(tgt[t])]
<1>2. /\ pc[t] = "cancel" /\ EndCall(t, 1)
      /\ IF g = NoId THEN UNCHANGED <<port, recvIo, sendIo>> ELSE AbortIo(g)
      /\ UNCHANGED <<sessionId, socket, ioCount, sendFlag, connected, sendQ,
           indexStack, idGen, sessionCount, active, conn, msgs, calls, foreign,
           announced, gone, sentTo, held, cur, kind, sid, op, tgt>>
  BY DEF CancelIo, fieldVars, poolVars, boundVars, histVars, ctxVars, callVars
<1>3. held' = [held EXCEPT ![t] = held'[t]] /\ held'[t] \in [Slots -> Int]
      /\ held'[t] = held[t]
  BY <1>1, <1>2 DEF LocalTypes
<1>4. /\ Moves(t) /\ LocalsOf(t)' /\ ControlOf(t)' /\ Goes(t)
      /\ pc'[t] = "dec" /\ back'[t] = back[t]
      /\ cur'[t] = cur[t] /\ kind'[t] = kind[t] /\ sid'[t] = sid[t]
      /\ tgt[t] \in Ids
  BY <1>2, <1>3, EndCallControl DEF InUse
<1>5. g \in Ids \cup {NoId} BY <1>1, <1>4, ConstantFacts DEF GlobalTypes
<1> HIDE DEF g
<1>6. recvIo' \in [Ids -> Nat] /\ sendIo' \in [Ids -> Nat] /\ port' \in Seq(Completions)
  <2>1. CASE g = NoId BY <1>1, <1>2, <2>1 DEF GlobalTypes
  <2>2. CASE g \in Ids
    <3>1. AbortIo(g) BY <1>2, <2>2, ConstantFacts
    <3>2. PICK s \in Slots : TRUE BY SlotsAssumption
    <3>3. QED BY <1>1, <2>2, <3>1, AbortMove
  <2>3. QED BY <1>5, <2>1, <2>2
<1>7. GlobalTypes' BY <1>1, <1>2, <1>6 DEF GlobalTypes
<1>8. TypeOK' /\ ((~foreign => Own') => IInv')
  BY <1>2, <1>4, <1>7, Fold
<1>9. ASSUME ~foreign PROVE Own'
  <2>1. pc[t] \in InCall \cup InUse /\ pc[t] \in InUse BY <1>2 DEF InUse
  <2>2. /\ cur[t] \in Slots /\ kind[t] \in {"connect", "recv"}
        /\ tgt[t] = sid[t] /\ SlotOf(sid[t]) = cur[t] /\ Has(cur[t], sid[t])
    BY <1>9, <2>1, CallFacts
  <2>3. pc[t] \in InUse BY <2>1
  <2>4. Shape(t)' BY <1>2, <1>3, <1>4, <1>9, <2>3, EndCallKeep
  <2>5. g \in Ids /\ AbortIo(g)
    BY <1>2, <1>4, <2>2, ConstantFacts DEF g, Has
  <2>6. Mild
    <3>1. Calm(t)
      BY <1>2, <1>4, <2>2 DEF Calm, InDelete, Serving
    <3>2. \A u \in Threads \ {t} : Calm(u) BY <1>4 DEF Goes, Calm
    <3>3. QED BY <1>2, <3>1, <3>2 DEF Mild
  <2>7. RefsExact'
    <3> SUFFICES ASSUME NEW s \in Slots
                 PROVE  References(s)' = IF ioCount'[s] = DeleteFlag THEN 0 ELSE ioCount'[s]
      BY DEF RefsExact
    <3>1. held'[t][s] = held[t][s] /\ held[t][s] \in Nat /\ Shapes
      BY <1>1, <1>3, <1>9, RefParts DEF Own
    <3>2. References(s)' + held[t][s] + Cardinality(Outstanding(recvIo, s))
              + Cardinality(Outstanding(sendIo, s)) + Cardinality(At(port, On(s)))
            = References(s) + held'[t][s] + Cardinality(Outstanding(recvIo', s))
              + Cardinality(Outstanding(sendIo', s)) + Cardinality(At(port', On(s)))
          /\ References(s)' \in Nat
      BY <1>1, <1>4, <1>8, <3>1, RefsMove
    <3>3. Cardinality(Outstanding(recvIo', s)) + Cardinality(Outstanding(sendIo', s))
              + Cardinality(At(port', On(s)))
            = Cardinality(Outstanding(recvIo, s)) + Cardinality(Outstanding(sendIo, s))
              + Cardinality(At(port, On(s)))
      BY <1>1, <2>5, AbortMove
    <3>4. /\ Cardinality(Outstanding(recvIo, s)) \in Nat
          /\ Cardinality(Outstanding(sendIo, s)) \in Nat
          /\ Cardinality(At(port, On(s))) \in Nat /\ References(s) \in Nat
      BY <1>1, <3>1, RefParts
    <3>5. /\ Cardinality(Outstanding(recvIo', s)) \in Nat
          /\ Cardinality(Outstanding(sendIo', s)) \in Nat
          /\ Cardinality(At(port', On(s))) \in Nat
      BY <1>6, OutstandingFacts, AtFinite
    <3>6. References(s)' = References(s)
      BY ONLY <3>1, <3>2, <3>3, <3>4, <3>5
    <3>7. QED BY <1>2, <1>9, <3>6, RefsKept
  <2>8. Sides'
    <3> SUFFICES ASSUME NEW s \in Slots
                 PROVE  /\ RecvSide(s)' <= 1 /\ SendSide(s)' <= 1
                        /\ SendSide(s)' = 1 => sendFlag'[s]
      BY DEF Sides
    <3>1. RecvSide(s)' + (IF t \in Receivers(s) THEN 1 ELSE 0)
              + Cardinality(Outstanding(recvIo, s)) + Cardinality(At(port, Entries("recv", s)))
            = RecvSide(s) + (IF t \in Receivers(s)' THEN 1 ELSE 0)
              + Cardinality(Outstanding(recvIo', s)) + Cardinality(At(port', Entries("recv", s)))
         /\ SendSide(s)' + (IF t \in Senders(s) THEN 1 ELSE 0)
              + Cardinality(Outstanding(sendIo, s)) + Cardinality(At(port, Entries("send", s)))
            = SendSide(s) + (IF t \in Senders(s)' THEN 1 ELSE 0)
              + Cardinality(Outstanding(sendIo', s)) + Cardinality(At(port', Entries("send", s)))
         /\ RecvSide(s)' \in Nat /\ SendSide(s)' \in Nat
      BY <1>1, <1>4, <1>8, SidesMove
    <3>2. /\ t \in Receivers(s)' <=> t \in Receivers(s)
          /\ t \notin Senders(s)' /\ t \notin Senders(s)
      BY <1>2, <1>4 DEF Receivers, Senders, InHandler, InCall, InUse
    <3>3. /\ Cardinality(Outstanding(recvIo', s)) + Cardinality(At(port', Entries("recv", s)))
             = Cardinality(Outstanding(recvIo, s)) + Cardinality(At(port, Entries("recv", s)))
          /\ Cardinality(Outstanding(sendIo', s)) + Cardinality(At(port', Entries("send", s)))
             = Cardinality(Outstanding(sendIo, s)) + Cardinality(At(port, Entries("send", s)))
      BY <1>1, <2>5, AbortMove
    <3>4. /\ Cardinality(Outstanding(recvIo, s)) \in Nat
          /\ Cardinality(Outstanding(sendIo, s)) \in Nat
          /\ Cardinality(At(port, Entries("recv", s))) \in Nat
          /\ Cardinality(At(port, Entries("send", s))) \in Nat
          /\ RecvSide(s) \in Nat /\ SendSide(s) \in Nat
      BY <1>1, SideTypes
    <3>5. /\ Cardinality(Outstanding(recvIo', s)) \in Nat
          /\ Cardinality(Outstanding(sendIo', s)) \in Nat
          /\ Cardinality(At(port', Entries("recv", s))) \in Nat
          /\ Cardinality(At(port', Entries("send", s))) \in Nat
      BY <1>6, OutstandingFacts, AtFinite
    <3>6. RecvSide(s)' = RecvSide(s) /\ SendSide(s)' = SendSide(s)
      BY ONLY <3>1, <3>2, <3>3, <3>4, <3>5
    <3>7. QED BY <1>1, <1>2, <1>9, <3>6 DEF Own, Sides
  <2>9. CallsRight'
    <3>1. t \notin Callers /\ t \notin Callers'
      BY <1>2, <1>4 DEF Callers, InCall
    <3>2. /\ Cardinality(Callers') \in Nat /\ Cardinality(Callers) \in Nat
          /\ At(port, Requests)' = At(port', Requests)
          /\ Cardinality(Callers') + (IF t \in Callers THEN 1 ELSE 0)
               = Cardinality(Callers) + (IF t \in Callers' THEN 1 ELSE 0)
      BY <1>1, <1>4, <1>8, CallsMove
    <3>3. Cardinality(At(port', Requests)) = Cardinality(At(port, Requests))
      <4>1. PICK s \in Slots : TRUE BY SlotsAssumption
      <4>2. QED BY <1>1, <2>5, AbortMove
    <3>4. Cardinality(Callers') = Cardinality(Callers) BY <3>1, <3>2
    <3>5. QED BY <1>1, <1>2, <1>9, <3>2, <3>3, <3>4 DEF Own, CallsRight
  <2>10. QueueRight' BY <1>1, <1>2, <1>9 DEF Own, QueueRight
  <2>11. \A i \in 1 .. Len(port') : Placed(port'[i])
    BY <1>9, <2>5, PlacedAbort DEF AbortIo
  <2>12. \A h \in Ids : recvIo'[h] > 0 \/ sendIo'[h] > 0 => Has(SlotOf(h), h)
    <3>1. PICK s \in Slots : TRUE BY SlotsAssumption
    <3>2. \A h \in Ids : recvIo'[h] > 0 \/ sendIo'[h] > 0 => recvIo[h] > 0 \/ sendIo[h] > 0
      BY <1>1, <2>5, AbortMove
    <3>3. QED BY <1>9, <3>2, PlacedNow
  <2>13. QED
    BY <1>4, <1>8, <1>9, <2>4, <2>6, <2>7, <2>8, <2>9, <2>10, <2>11, <2>12, MildOwn
<1>10. QED BY <1>8, <1>9

-----------------------------------------------------------------------------
(* A thread at work on a session takes one more reference: for itself, or   *)
(* for a receive, a send or a request that it hands over.                   *)
LEMMA TakeRef ==
  ASSUME IInv, ~foreign, TypeOK', NEW t \in Threads, Goes(t), Shape(t)',
         NEW s \in Slots, s = cur[t], held[t][s] >= 1, kind[t] \in Serving,
         NEW g \in Ids, g = sid[t], SlotOf(g) = s, Has(s, g),
         cur'[t] = cur[t], kind'[t] = kind[t], sid'[t] = sid[t],
         pc[t] \notin {"activate", "open"} \cup InDelete,
         pc'[t] \notin {"activate", "open"} \cup InDelete,
         UNCHANGED <<sessionId, socket, indexStack, idGen, sessionCount, announced,
                     gone, connected, sendFlag, calls>>,
         ioCount' = [ioCount EXCEPT ![s] = LongInc(ioCount[s])],
         \A x \in Slots \ {s} : sendQ'[x] = sendQ[x], QueueRight',
         NEW w \in {"held", "recv", "send", "request"},
         \A x \in Slots : held'[t][x] =
           IF x = s /\ w = "held" THEN held[t][x] + 1 ELSE held[t][x],
         recvIo' = IF w = "recv" THEN [recvIo EXCEPT ![g] = recvIo[g] + 1] ELSE recvIo,
         sendIo' = IF w = "send" THEN [sendIo EXCEPT ![g] = sendIo[g] + 1] ELSE sendIo,
         port' = IF w = "request"
                 THEN Append(port, Completion(s, "request", TRUE, g)) ELSE port,
         \A x \in Slots : t \in Receivers(x)' => t \in Receivers(x),
         \A x \in Slots : t \in Senders(x)' => t \in Senders(x),
         t \in Callers' => t \in Callers,
         w = "recv" => t \in Receivers(s) /\ t \notin Receivers(s)',
         w = "send" => t \in Senders(s) /\ t \notin Senders(s)',
         w = "request" => t \in Callers /\ t \notin Callers'
  PROVE  Own'
<1>1. /\ TypeOK /\ Own /\ Shapes /\ recvIo \in [Ids -> Nat] /\ sendIo \in [Ids -> Nat]
      /\ port \in Seq(Completions) /\ ioCount \in [Slots -> Int]
      /\ recvIo' \in [Ids -> Nat] /\ sendIo' \in [Ids -> Nat]
      /\ port' \in Seq(Completions)
  BY DEF IInv, Own, TypeOK
<1>2. Live(s) /\ ioCount[s] # DeleteFlag
  BY ThreadLive DEF Serving
<1>3. ioCount'[s] = LongInc(ioCount[s]) /\ \A x \in Slots \ {s} : ioCount'[x] = ioCount[x]
  BY <1>1
<1>4. Mild
  <2>1. Calm(t) BY DEF Calm, Serving
  <2>2. \A u \in Threads \ {t} : Calm(u) BY DEF Goes, Calm
  <2>3. QED BY <1>2, <1>3, <2>1, <2>2 DEF Mild
<1> DEFINE e == Completion(s, "request", TRUE, g)
<1>5. e \in Completions /\ e.kind = "request" /\ e.slot = s /\ Placed(e)
  BY DEF Completion, Completions, Placed
<1> HIDE DEF e
<1>6. ASSUME NEW x \in Slots
      PROVE  /\ Cardinality(Outstanding(recvIo, x)) \in Nat
             /\ Cardinality(Outstanding(sendIo, x)) \in Nat
             /\ Cardinality(At(port, On(x))) \in Nat
             /\ Cardinality(Outstanding(recvIo', x)) = IF w = "recv" /\ x = s
                  THEN Cardinality(Outstanding(recvIo, x)) + 1
                  ELSE Cardinality(Outstanding(recvIo, x))
             /\ Cardinality(Outstanding(sendIo', x)) = IF w = "send" /\ x = s
                  THEN Cardinality(Outstanding(sendIo, x)) + 1
                  ELSE Cardinality(Outstanding(sendIo, x))
             /\ Cardinality(At(port', On(x))) = IF w = "request" /\ x = s
                  THEN Cardinality(At(port, On(x))) + 1
                  ELSE Cardinality(At(port, On(x)))
             /\ Cardinality(At(port', Entries("recv", x))) = Cardinality(At(port, Entries("recv", x)))
             /\ Cardinality(At(port', Entries("send", x))) = Cardinality(At(port, Entries("send", x)))
  <2>1. /\ Cardinality(Outstanding(recvIo, x)) \in Nat
        /\ Cardinality(Outstanding(sendIo, x)) \in Nat
        /\ Cardinality(At(port, On(x))) \in Nat
        /\ Cardinality(At(port, Entries("recv", x))) \in Nat
        /\ Cardinality(At(port, Entries("send", x))) \in Nat
    BY <1>1, OutstandingFacts, AtFinite
  <2>2. Cardinality(Outstanding(recvIo', x)) = IF w = "recv" /\ x = s
          THEN Cardinality(Outstanding(recvIo, x)) + 1
          ELSE Cardinality(Outstanding(recvIo, x))
    <3>1. CASE w = "recv"
      <4>1. /\ \A i \in Ids \ {g} : recvIo'[i] = recvIo[i]
            /\ recvIo'[g] = recvIo[g] + 1 /\ recvIo[g] \in Nat
        BY <1>1, <3>1
      <4>2. /\ Cardinality(Outstanding(recvIo', x)) \in Nat
            /\ Cardinality(Outstanding(recvIo', x)) + (IF SlotOf(g) = x THEN recvIo[g] ELSE 0)
               = Cardinality(Outstanding(recvIo, x)) + (IF SlotOf(g) = x THEN recvIo'[g] ELSE 0)
        <5>1. /\ recvIo \in [Ids -> Nat] /\ recvIo' \in [Ids -> Nat] /\ g \in Ids
              /\ \A i \in Ids \ {g} : recvIo'[i] = recvIo[i]
          BY <1>1, <4>1
        <5>2. QED BY ONLY <5>1, OutstandingMove
      <4>3. CASE x = s
        <5>1. Cardinality(Outstanding(recvIo', x)) + recvIo[g]
                = Cardinality(Outstanding(recvIo, x)) + recvIo'[g]
          BY <4>2, <4>3
        <5>2. Cardinality(Outstanding(recvIo', x)) = Cardinality(Outstanding(recvIo, x)) + 1
          BY ONLY <2>1, <4>1, <4>2, <5>1
        <5>3. QED BY <3>1, <4>3, <5>2
      <4>4. CASE x # s
        <5>1. Cardinality(Outstanding(recvIo', x)) + 0
                = Cardinality(Outstanding(recvIo, x)) + 0
          BY <4>2, <4>4
        <5>2. Cardinality(Outstanding(recvIo', x)) = Cardinality(Outstanding(recvIo, x))
          BY ONLY <2>1, <4>2, <5>1
        <5>3. QED BY <3>1, <4>4, <5>2
      <4>5. QED BY <4>3, <4>4
    <3>2. CASE w # "recv" BY <3>2
    <3>3. QED BY <3>1, <3>2
  <2>3. Cardinality(Outstanding(sendIo', x)) = IF w = "send" /\ x = s
          THEN Cardinality(Outstanding(sendIo, x)) + 1
          ELSE Cardinality(Outstanding(sendIo, x))
    <3>1. CASE w = "send"
      <4>1. /\ \A i \in Ids \ {g} : sendIo'[i] = sendIo[i]
            /\ sendIo'[g] = sendIo[g] + 1 /\ sendIo[g] \in Nat
        BY <1>1, <3>1
      <4>2. /\ Cardinality(Outstanding(sendIo', x)) \in Nat
            /\ Cardinality(Outstanding(sendIo', x)) + (IF SlotOf(g) = x THEN sendIo[g] ELSE 0)
               = Cardinality(Outstanding(sendIo, x)) + (IF SlotOf(g) = x THEN sendIo'[g] ELSE 0)
        <5>1. /\ sendIo \in [Ids -> Nat] /\ sendIo' \in [Ids -> Nat] /\ g \in Ids
              /\ \A i \in Ids \ {g} : sendIo'[i] = sendIo[i]
          BY <1>1, <4>1
        <5>2. QED BY ONLY <5>1, OutstandingMove
      <4>3. CASE x = s
        <5>1. Cardinality(Outstanding(sendIo', x)) + sendIo[g]
                = Cardinality(Outstanding(sendIo, x)) + sendIo'[g]
          BY <4>2, <4>3
        <5>2. Cardinality(Outstanding(sendIo', x)) = Cardinality(Outstanding(sendIo, x)) + 1
          BY ONLY <2>1, <4>1, <4>2, <5>1
        <5>3. QED BY <3>1, <4>3, <5>2
      <4>4. CASE x # s
        <5>1. Cardinality(Outstanding(sendIo', x)) + 0
                = Cardinality(Outstanding(sendIo, x)) + 0
          BY <4>2, <4>4
        <5>2. Cardinality(Outstanding(sendIo', x)) = Cardinality(Outstanding(sendIo, x))
          BY ONLY <2>1, <4>2, <5>1
        <5>3. QED BY <3>1, <4>4, <5>2
      <4>5. QED BY <4>3, <4>4
    <3>2. CASE w # "send" BY <3>2
    <3>3. QED BY <3>1, <3>2
  <2>4. CASE w = "request"
    <3>1. port' = Append(port, e) BY <2>4 DEF e
    <3>2. /\ Cardinality(At(port', On(x))) =
               Cardinality(At(port, On(x))) + (IF e.slot = x THEN 1 ELSE 0)
          /\ Cardinality(At(port', Entries("recv", x))) =
               Cardinality(At(port, Entries("recv", x)))
                 + (IF e.kind = "recv" /\ e.slot = x THEN 1 ELSE 0)
          /\ Cardinality(At(port', Entries("send", x))) =
               Cardinality(At(port, Entries("send", x)))
                 + (IF e.kind = "send" /\ e.slot = x THEN 1 ELSE 0)
      <4>1. port \in Seq(Completions) /\ e \in Completions /\ x \in Slots
        BY <1>1, <1>5
      <4>2. QED BY ONLY <3>1, <4>1, PortAppend
    <3>3. e.kind # "recv" /\ e.kind # "send" /\ (e.slot = x <=> x = s) BY <1>5
    <3>4. /\ Cardinality(At(port', Entries("recv", x))) = Cardinality(At(port, Entries("recv", x)))
          /\ Cardinality(At(port', Entries("send", x))) = Cardinality(At(port, Entries("send", x)))
      BY ONLY <2>1, <3>2, <3>3
    <3>5. Cardinality(At(port', On(x))) = IF x = s
            THEN Cardinality(At(port, On(x))) + 1 ELSE Cardinality(At(port, On(x)))
      BY ONLY <2>1, <3>2, <3>3
    <3>6. QED BY <2>1, <2>2, <2>3, <2>4, <3>4, <3>5
  <2>5. CASE w # "request" BY <2>1, <2>2, <2>3, <2>5
  <2>6. QED BY <2>4, <2>5
<1>7. RefsExact'
  <2> SUFFICES ASSUME NEW x \in Slots
               PROVE  References(x)' = IF ioCount'[x] = DeleteFlag THEN 0 ELSE ioCount'[x]
    BY DEF RefsExact
  <2>1. held[t][x] \in 0 .. 3 /\ References(x) \in Nat BY <1>1, RefParts
  <2>2. held'[t][x] \in Nat BY <2>1
  <2>3. /\ Cardinality(Outstanding(recvIo, x)) \in Nat
        /\ Cardinality(Outstanding(sendIo, x)) \in Nat
        /\ Cardinality(At(port, On(x))) \in Nat
    BY <1>6
  <2>4. References(x)' \in Nat
        /\ References(x)' + held[t][x] + Cardinality(Outstanding(recvIo, x))
             + Cardinality(Outstanding(sendIo, x)) + Cardinality(At(port, On(x)))
           = References(x) + held'[t][x] + Cardinality(Outstanding(recvIo', x))
             + Cardinality(Outstanding(sendIo', x)) + Cardinality(At(port', On(x)))
    BY <1>1, <2>2, RefsMove
  <2>5. CASE x # s
    <3>1. held'[t][x] = held[t][x] BY <2>5
    <3>2. References(x)' = References(x)
      <4>1. /\ Cardinality(Outstanding(recvIo', x)) = Cardinality(Outstanding(recvIo, x))
            /\ Cardinality(Outstanding(sendIo', x)) = Cardinality(Outstanding(sendIo, x))
            /\ Cardinality(At(port', On(x))) = Cardinality(At(port, On(x)))
        BY <1>6, <2>5
      <4>2. QED BY ONLY <2>1, <2>4, <2>3, <3>1, <4>1
    <3>3. QED BY <1>3, <2>5, <3>2, RefsKept
  <2>6. CASE x = s
    <3>1. References(x)' = References(x) + 1
      <4>1. CASE w = "held"
        <5>1. /\ held'[t][x] = held[t][x] + 1
              /\ Cardinality(Outstanding(recvIo', x)) = Cardinality(Outstanding(recvIo, x))
              /\ Cardinality(Outstanding(sendIo', x)) = Cardinality(Outstanding(sendIo, x))
              /\ Cardinality(At(port', On(x))) = Cardinality(At(port, On(x)))
          BY <1>6, <2>6, <4>1
        <5>2. QED BY ONLY <2>1, <2>4, <2>3, <5>1
      <4>2. CASE w = "recv"
        <5>1. /\ held'[t][x] = held[t][x]
              /\ Cardinality(Outstanding(recvIo', x)) = Cardinality(Outstanding(recvIo, x)) + 1
              /\ Cardinality(Outstanding(sendIo', x)) = Cardinality(Outstanding(sendIo, x))
              /\ Cardinality(At(port', On(x))) = Cardinality(At(port, On(x)))
          BY <1>6, <2>6, <4>2
        <5>2. QED BY ONLY <2>1, <2>4, <2>3, <5>1
      <4>3. CASE w = "send"
        <5>1. /\ held'[t][x] = held[t][x]
              /\ Cardinality(Outstanding(recvIo', x)) = Cardinality(Outstanding(recvIo, x))
              /\ Cardinality(Outstanding(sendIo', x)) = Cardinality(Outstanding(sendIo, x)) + 1
              /\ Cardinality(At(port', On(x))) = Cardinality(At(port, On(x)))
          BY <1>6, <2>6, <4>3
        <5>2. QED BY ONLY <2>1, <2>4, <2>3, <5>1
      <4>4. CASE w = "request"
        <5>1. /\ held'[t][x] = held[t][x]
              /\ Cardinality(Outstanding(recvIo', x)) = Cardinality(Outstanding(recvIo, x))
              /\ Cardinality(Outstanding(sendIo', x)) = Cardinality(Outstanding(sendIo, x))
              /\ Cardinality(At(port', On(x))) = Cardinality(At(port, On(x))) + 1
          BY <1>6, <2>6, <4>4
        <5>2. QED BY ONLY <2>1, <2>4, <2>3, <5>1
      <4>5. QED BY <4>1, <4>2, <4>3, <4>4
    <3>2. QED BY <1>2, <1>3, <2>6, <3>1, RefsKept
  <2>7. QED BY <2>5, <2>6
<1>8. Sides'
  <2> SUFFICES ASSUME NEW x \in Slots
               PROVE  /\ RecvSide(x)' <= 1 /\ SendSide(x)' <= 1
                      /\ SendSide(x)' = 1 => sendFlag'[x]
    BY DEF Sides
  <2>1. /\ RecvSide(x)' \in Nat /\ SendSide(x)' \in Nat
        /\ RecvSide(x)' + (IF t \in Receivers(x) THEN 1 ELSE 0)
             + Cardinality(Outstanding(recvIo, x)) + Cardinality(At(port, Entries("recv", x)))
           = RecvSide(x) + (IF t \in Receivers(x)' THEN 1 ELSE 0)
             + Cardinality(Outstanding(recvIo', x)) + Cardinality(At(port', Entries("recv", x)))
        /\ SendSide(x)' + (IF t \in Senders(x) THEN 1 ELSE 0)
             + Cardinality(Outstanding(sendIo, x)) + Cardinality(At(port, Entries("send", x)))
           = SendSide(x) + (IF t \in Senders(x)' THEN 1 ELSE 0)
             + Cardinality(Outstanding(sendIo', x)) + Cardinality(At(port', Entries("send", x)))
    BY <1>1, SidesMove
  <2>2. /\ Cardinality(At(port, Entries("recv", x))) \in Nat
        /\ Cardinality(At(port, Entries("send", x))) \in Nat
        /\ RecvSide(x) \in Nat /\ SendSide(x) \in Nat
        /\ Cardinality(Outstanding(recvIo, x)) \in Nat
        /\ Cardinality(Outstanding(sendIo, x)) \in Nat
    BY <1>1, SideTypes
  <2>3. RecvSide(x)' <= RecvSide(x)
    <3>1. CASE w = "recv" /\ x = s
      <4>1. /\ Cardinality(Outstanding(recvIo', x)) = Cardinality(Outstanding(recvIo, x)) + 1
            /\ Cardinality(At(port', Entries("recv", x))) = Cardinality(At(port, Entries("recv", x)))
        BY <1>6, <3>1
      <4>2. t \in Receivers(x) /\ t \notin Receivers(x)' BY <3>1
      <4>3. QED BY ONLY <2>1, <2>2, <4>1, <4>2
    <3>2. CASE ~(w = "recv" /\ x = s)
      <4>1. /\ Cardinality(Outstanding(recvIo', x)) = Cardinality(Outstanding(recvIo, x))
            /\ Cardinality(At(port', Entries("recv", x))) = Cardinality(At(port, Entries("recv", x)))
        BY <1>6, <3>2
      <4>2. t \in Receivers(x)' => t \in Receivers(x) OBVIOUS
      <4>3. QED BY ONLY <2>1, <2>2, <4>1, <4>2
    <3>3. QED BY <3>1, <3>2
  <2>4. SendSide(x)' <= SendSide(x)
    <3>1. CASE w = "send" /\ x = s
      <4>1. /\ Cardinality(Outstanding(sendIo', x)) = Cardinality(Outstanding(sendIo, x)) + 1
            /\ Cardinality(At(port', Entries("send", x))) = Cardinality(At(port, Entries("send", x)))
        BY <1>6, <3>1
      <4>2. t \in Senders(x) /\ t \notin Senders(x)' BY <3>1
      <4>3. QED BY ONLY <2>1, <2>2, <4>1, <4>2
    <3>2. CASE ~(w = "send" /\ x = s)
      <4>1. /\ Cardinality(Outstanding(sendIo', x)) = Cardinality(Outstanding(sendIo, x))
            /\ Cardinality(At(port', Entries("send", x))) = Cardinality(At(port, Entries("send", x)))
        BY <1>6, <3>2
      <4>2. t \in Senders(x)' => t \in Senders(x) OBVIOUS
      <4>3. QED BY ONLY <2>1, <2>2, <4>1, <4>2
    <3>3. QED BY <3>1, <3>2
  <2>5. RecvSide(x) <= 1 /\ SendSide(x) <= 1 /\ (SendSide(x) = 1 => sendFlag[x])
    BY <1>1 DEF Own, Sides
  <2>6. SendSide(x)' = 1 => sendFlag'[x]
    <3>1. SendSide(x)' = 1 => SendSide(x) = 1 BY ONLY <2>1, <2>2, <2>4, <2>5
    <3>2. QED BY <2>5, <3>1
  <2>7. RecvSide(x)' <= 1 /\ SendSide(x)' <= 1
    BY ONLY <2>1, <2>2, <2>3, <2>4, <2>5
  <2>8. QED BY <2>6, <2>7
<1>9. CallsRight'
  <2>1. /\ Cardinality(Callers') \in Nat /\ Cardinality(Callers) \in Nat
        /\ Cardinality(At(port, Requests)) \in Nat
        /\ At(port, Requests)' = At(port', Requests)
        /\ Cardinality(Callers') + (IF t \in Callers THEN 1 ELSE 0)
             = Cardinality(Callers) + (IF t \in Callers' THEN 1 ELSE 0)
    BY <1>1, CallsMove
  <2>2. Cardinality(Callers) + Cardinality(At(port, Requests)) <= calls /\ calls \in Nat
    BY <1>1, ConstantFacts DEF Own, CallsRight, TypeOK
  <2>3. Cardinality(Callers') + Cardinality(At(port', Requests)) <= calls
    <3>1. CASE w = "request"
      <4>1. Cardinality(At(port', Requests)) = Cardinality(At(port, Requests)) + 1
        <5>1. port' = Append(port, e) BY <3>1 DEF e
        <5>2. Cardinality(At(port', Requests)) =
                Cardinality(At(port, Requests)) + (IF e.kind = "request" THEN 1 ELSE 0)
          <6>1. PICK y \in Slots : TRUE BY SlotsAssumption
          <6>2. port \in Seq(Completions) /\ e \in Completions BY <1>1, <1>5
          <6>3. QED BY ONLY <5>1, <6>1, <6>2, PortAppend
        <5>3. QED BY <1>5, <2>1, <5>2
      <4>2. t \in Callers /\ t \notin Callers' BY <3>1
      <4>3. Cardinality(Callers') + 1 = Cardinality(Callers) BY ONLY <2>1, <4>2
      <4>4. QED BY ONLY <2>1, <2>2, <4>1, <4>3
    <3>2. CASE w # "request"
      <4>1. port' = port BY <3>2
      <4>2. t \in Callers' => t \in Callers OBVIOUS
      <4>3. Cardinality(Callers') <= Cardinality(Callers) BY ONLY <2>1, <4>2
      <4>4. QED BY ONLY <2>1, <2>2, <4>1, <4>3
    <3>3. QED BY <3>1, <3>2
  <2>4. QED BY <2>1, <2>3 DEF CallsRight
<1>10. \A i \in 1 .. Len(port') : Placed(port'[i])
  <2>1. CASE w = "request"
    <3>1. port' = Append(port, e) BY <2>1 DEF e
    <3>2. QED BY <1>5, <3>1, PlacedAppend
  <2>2. CASE w # "request" BY <2>2, PlacedNow
  <2>3. QED BY <2>1, <2>2
<1>11. \A h \in Ids : recvIo'[h] > 0 \/ sendIo'[h] > 0 => Has(SlotOf(h), h)
  <2>1. \A h \in Ids \ {g} : recvIo'[h] = recvIo[h] /\ sendIo'[h] = sendIo[h]
    BY <1>1
  <2>2. QED BY <2>1, PlacedNow
<1>12. QED BY <1>4, <1>7, <1>8, <1>9, <1>10, <1>11, MildOwn

LEMMA TakeHeld ==
  ASSUME IInv, ~foreign, TypeOK', NEW t \in Threads, Goes(t), Shape(t)',
         NEW s \in Slots, s = cur[t], held[t][s] >= 1, kind[t] \in Serving,
         NEW g \in Ids, g = sid[t], SlotOf(g) = s, Has(s, g),
         cur'[t] = cur[t], kind'[t] = kind[t], sid'[t] = sid[t],
         pc[t] \notin {"activate", "open"} \cup InDelete,
         pc'[t] \notin {"activate", "open"} \cup InDelete,
         UNCHANGED <<sessionId, socket, indexStack, idGen, sessionCount, announced,
                     gone, connected, sendFlag, calls, recvIo, sendIo, port>>,
         ioCount' = [ioCount EXCEPT ![s] = LongInc(ioCount[s])],
         \A x \in Slots \ {s} : sendQ'[x] = sendQ[x], QueueRight',
         \A x \in Slots : held'[t][x] = IF x = s THEN held[t][x] + 1 ELSE held[t][x],
         \A x \in Slots : t \in Receivers(x)' => t \in Receivers(x),
         \A x \in Slots : t \in Senders(x)' => t \in Senders(x),
         t \in Callers' => t \in Callers
  PROVE  Own'
<1>1. PICK w \in {"held", "recv", "send", "request"} : w = "held" OBVIOUS
<1>2. /\ \A x \in Slots : held'[t][x] =
           IF x = s /\ w = "held" THEN held[t][x] + 1 ELSE held[t][x]
      /\ recvIo' = IF w = "recv" THEN [recvIo EXCEPT ![g] = recvIo[g] + 1] ELSE recvIo
      /\ sendIo' = IF w = "send" THEN [sendIo EXCEPT ![g] = sendIo[g] + 1] ELSE sendIo
      /\ port' = IF w = "request"
                 THEN Append(port, Completion(s, "request", TRUE, g)) ELSE port
      /\ w = "recv" => t \in Receivers(s) /\ t \notin Receivers(s)'
      /\ w = "send" => t \in Senders(s) /\ t \notin Senders(s)'
      /\ w = "request" => t \in Callers /\ t \notin Callers'
  BY <1>1
<1>3. QED BY <1>2, TakeRef

LEMMA TakeRequest ==
  ASSUME IInv, ~foreign, TypeOK', NEW t \in Threads, Goes(t), Shape(t)',
         NEW s \in Slots, s = cur[t], held[t][s] >= 1, kind[t] \in Serving,
         NEW g \in Ids, g = sid[t], SlotOf(g) = s, Has(s, g),
         cur'[t] = cur[t], kind'[t] = kind[t], sid'[t] = sid[t],
         pc[t] \notin {"activate", "open"} \cup InDelete,
         pc'[t] \notin {"activate", "open"} \cup InDelete,
         UNCHANGED <<sessionId, socket, indexStack, idGen, sessionCount, announced,
                     gone, connected, sendFlag, calls, recvIo, sendIo>>,
         ioCount' = [ioCount EXCEPT ![s] = LongInc(ioCount[s])],
         \A x \in Slots \ {s} : sendQ'[x] = sendQ[x], QueueRight',
         \A x \in Slots : held'[t][x] = held[t][x],
         port' = Append(port, Completion(s, "request", TRUE, g)),
         \A x \in Slots : t \in Receivers(x)' => t \in Receivers(x),
         \A x \in Slots : t \in Senders(x)' => t \in Senders(x),
         t \in Callers /\ t \notin Callers'
  PROVE  Own'
<1>1. PICK w \in {"held", "recv", "send", "request"} : w = "request" OBVIOUS
<1>2. /\ \A x \in Slots : held'[t][x] =
           IF x = s /\ w = "held" THEN held[t][x] + 1 ELSE held[t][x]
      /\ recvIo' = IF w = "recv" THEN [recvIo EXCEPT ![g] = recvIo[g] + 1] ELSE recvIo
      /\ sendIo' = IF w = "send" THEN [sendIo EXCEPT ![g] = sendIo[g] + 1] ELSE sendIo
      /\ port' = IF w = "request"
                 THEN Append(port, Completion(s, "request", TRUE, g)) ELSE port
      /\ w = "recv" => t \in Receivers(s) /\ t \notin Receivers(s)'
      /\ w = "send" => t \in Senders(s) /\ t \notin Senders(s)'
      /\ w = "request" => t \in Callers /\ t \notin Callers'
  BY <1>1
<1>3. QED BY <1>2, TakeRef

LEMMA TakeRecv ==
  ASSUME IInv, ~foreign, TypeOK', NEW t \in Threads, Goes(t), Shape(t)',
         NEW s \in Slots, s = cur[t], held[t][s] >= 1, kind[t] \in Serving,
         NEW g \in Ids, g = sid[t], SlotOf(g) = s, Has(s, g),
         cur'[t] = cur[t], kind'[t] = kind[t], sid'[t] = sid[t],
         pc[t] \notin {"activate", "open"} \cup InDelete,
         pc'[t] \notin {"activate", "open"} \cup InDelete,
         UNCHANGED <<sessionId, socket, indexStack, idGen, sessionCount, announced,
                     gone, connected, sendFlag, calls, sendIo, port>>,
         ioCount' = [ioCount EXCEPT ![s] = LongInc(ioCount[s])],
         \A x \in Slots \ {s} : sendQ'[x] = sendQ[x], QueueRight',
         \A x \in Slots : held'[t][x] = held[t][x],
         recvIo' = [recvIo EXCEPT ![g] = recvIo[g] + 1],
         \A x \in Slots : t \in Receivers(x)' => t \in Receivers(x),
         t \in Receivers(s) /\ t \notin Receivers(s)',
         \A x \in Slots : t \in Senders(x)' => t \in Senders(x),
         t \in Callers' => t \in Callers
  PROVE  Own'
<1>1. PICK w \in {"held", "recv", "send", "request"} : w = "recv" OBVIOUS
<1>2. /\ \A x \in Slots : held'[t][x] =
           IF x = s /\ w = "held" THEN held[t][x] + 1 ELSE held[t][x]
      /\ recvIo' = IF w = "recv" THEN [recvIo EXCEPT ![g] = recvIo[g] + 1] ELSE recvIo
      /\ sendIo' = IF w = "send" THEN [sendIo EXCEPT ![g] = sendIo[g] + 1] ELSE sendIo
      /\ port' = IF w = "request"
                 THEN Append(port, Completion(s, "request", TRUE, g)) ELSE port
      /\ w = "recv" => t \in Receivers(s) /\ t \notin Receivers(s)'
      /\ w = "send" => t \in Senders(s) /\ t \notin Senders(s)'
      /\ w = "request" => t \in Callers /\ t \notin Callers'
  BY <1>1
<1>3. QED BY <1>2, TakeRef

LEMMA TakeSend ==
  ASSUME IInv, ~foreign, TypeOK', NEW t \in Threads, Goes(t), Shape(t)',
         NEW s \in Slots, s = cur[t], held[t][s] >= 1, kind[t] \in Serving,
         NEW g \in Ids, g = sid[t], SlotOf(g) = s, Has(s, g),
         cur'[t] = cur[t], kind'[t] = kind[t], sid'[t] = sid[t],
         pc[t] \notin {"activate", "open"} \cup InDelete,
         pc'[t] \notin {"activate", "open"} \cup InDelete,
         UNCHANGED <<sessionId, socket, indexStack, idGen, sessionCount, announced,
                     gone, connected, sendFlag, calls, recvIo, port>>,
         ioCount' = [ioCount EXCEPT ![s] = LongInc(ioCount[s])],
         \A x \in Slots \ {s} : sendQ'[x] = sendQ[x], QueueRight',
         \A x \in Slots : held'[t][x] = held[t][x],
         sendIo' = [sendIo EXCEPT ![g] = sendIo[g] + 1],
         \A x \in Slots : t \in Receivers(x)' => t \in Receivers(x),
         \A x \in Slots : t \in Senders(x)' => t \in Senders(x),
         t \in Senders(s) /\ t \notin Senders(s)',
         t \in Callers' => t \in Callers
  PROVE  Own'
<1>1. PICK w \in {"held", "recv", "send", "request"} : w = "send" OBVIOUS
<1>2. /\ \A x \in Slots : held'[t][x] =
           IF x = s /\ w = "held" THEN held[t][x] + 1 ELSE held[t][x]
      /\ recvIo' = IF w = "recv" THEN [recvIo EXCEPT ![g] = recvIo[g] + 1] ELSE recvIo
      /\ sendIo' = IF w = "send" THEN [sendIo EXCEPT ![g] = sendIo[g] + 1] ELSE sendIo
      /\ port' = IF w = "request"
                 THEN Append(port, Completion(s, "request", TRUE, g)) ELSE port
      /\ w = "recv" => t \in Receivers(s) /\ t \notin Receivers(s)'
      /\ w = "send" => t \in Senders(s) /\ t \notin Senders(s)'
      /\ w = "request" => t \in Callers /\ t \notin Callers'
  BY <1>1
<1>3. QED BY <1>2, TakeRef

LEMMA HoldFacts ==
  ASSUME LocalTypes, NEW t \in Threads, NEW s \in Slots, Hold(t, s)
  PROVE  /\ held' = [held EXCEPT ![t] = held'[t]] /\ held'[t] \in [Slots -> Int]
         /\ \A x \in Slots : held'[t][x] = IF x = s THEN held[t][x] + 1 ELSE held[t][x]
<1>1. held' = [held EXCEPT ![t] = [held[t] EXCEPT ![s] = held[t][s] + 1]]
      /\ held[t] \in [Slots -> Int] /\ held \in [Threads -> [Slots -> Int]]
  BY DEF Hold, LocalTypes
<1>2. held'[t] = [held[t] EXCEPT ![s] = held[t][s] + 1] BY <1>1
<1>3. QED BY <1>1, <1>2

LEMMA RegisterFacts ==
  ASSUME GlobalTypes, NEW s \in Slots, Register(s)
  PROVE  /\ ioCount' = [ioCount EXCEPT ![s] = LongInc(ioCount[s])]
         /\ ioCount' \in [Slots -> Int]
BY DEF Register, GlobalTypes, LongInc, DeleteFlag

LEMMA AcquireRefStep ==
  ASSUME IInv, NEW t \in Threads, AcquireRef(t)
  PROVE  IInv'
<1>1. /\ TypeOK /\ LocalTypes /\ GlobalTypes /\ LocalsOf(t)
      /\ Control /\ ControlOf(t) /\ (~foreign => Own /\ Shape(t))
  BY Unfold
<1> DEFINE s == SlotOf(tgt[t])
<1>2. /\ pc[t] = "acquireRef" /\ Register(s) /\ Hold(t, s)
      /\ IF LongInc(ioCount[s]) < 0 THEN EndCall(t, 1)
         ELSE pc' = [pc EXCEPT ![t] = "use"] /\ owed' = owed /\ back' = back
      /\ UNCHANGED <<sessionId, socket, sendFlag, connected, sendQ, indexStack,
           idGen, sessionCount, active, port, conn, recvIo, sendIo, msgs, calls,
           foreign, announced, gone, sentTo, cur, kind, sid, op, tgt>>
  BY DEF AcquireRef, Register, Goto, fieldVars, poolVars, outerVars, kernelVars,
     boundVars, histVars, ctxVars, callVars, decVars
<1>3. tgt[t] \in Ids /\ s \in Slots
  BY <1>1, <1>2, ConstantFacts DEF ControlOf
<1> HIDE DEF s
<1>4. /\ held' = [held EXCEPT ![t] = held'[t]] /\ held'[t] \in [Slots -> Int]
      /\ \A x \in Slots : held'[t][x] = IF x = s THEN held[t][x] + 1 ELSE held[t][x]
  BY <1>1, <1>2, <1>3, HoldFacts
<1>5. /\ ioCount' = [ioCount EXCEPT ![s] = LongInc(ioCount[s])]
      /\ ioCount' \in [Slots -> Int]
  BY <1>1, <1>2, <1>3, RegisterFacts
<1>6. Moves(t) /\ LocalsOf(t)' /\ ControlOf(t)'
  <2>1. CASE LongInc(ioCount[s]) < 0
    <3>1. PICK n \in {1, 2} : n = 1 OBVIOUS
    <3>2. pc[t] \in {"acquireRef"} \cup InUse /\ EndCall(t, n)
      BY <1>2, <2>1, <3>1
    <3>3. QED BY <1>2, <1>4, <3>2, EndCallControl
  <2>2. CASE ~(LongInc(ioCount[s]) < 0)
    <3>1. /\ pc' = [pc EXCEPT ![t] = "use"] /\ owed' = owed /\ back' = back
      BY <1>2, <2>2
    <3>2. pc'[t] = "use" /\ pc' = [pc EXCEPT ![t] = pc'[t]]
      BY <1>1, <3>1 DEF LocalTypes
    <3>3. Moves(t) BY <1>1, <1>2, <1>4, <3>1, <3>2 DEF Moves, LocalTypes
    <3>4. LocalsOf(t)' BY <1>1, <1>2, <1>4, <3>1, <3>2 DEF LocalsOf, Labels
    <3>5. ControlOf(t)'
      BY <1>1, <1>2, <1>3, <3>1, <3>2
      DEF ControlOf, InHandler, InSend, InCall, InUse, InDelete
    <3>6. QED BY <3>3, <3>4, <3>5
  <2>3. QED BY <2>1, <2>2
<1>7. GlobalTypes' BY <1>1, <1>2, <1>5 DEF GlobalTypes
<1>8. TypeOK' /\ Goes(t) /\ ((~foreign => Own') => IInv')
  BY <1>2, <1>6, <1>7, Fold
<1>9. ASSUME ~foreign PROVE Own'
  <2>1. pc[t] \in InCall \cup InUse BY <1>2 DEF InCall
  <2>2. /\ cur[t] \in Slots /\ kind[t] \in {"connect", "recv"} /\ sid[t] \in Ids
        /\ tgt[t] = sid[t] /\ SlotOf(sid[t]) = cur[t] /\ Has(cur[t], sid[t])
        /\ \/ back[t] = "handler" /\ owed[t] = <<>>
           \/ back[t] = "idle" /\ op[t] = "disconnect" /\ owed[t] = <<cur[t], cur[t]>>
        /\ \A x \in Slots : held[t][x] =
              IF x = cur[t]
              THEN (2 - (IF back[t] = "handler" THEN 1 ELSE 0))
                     + (IF pc[t] \in InUse THEN 1 ELSE 0)
              ELSE 0
    BY <1>9, <2>1, CallFacts
  <2>3. s = cur[t] BY <2>2 DEF s
  <2>4. /\ \A x \in Slots : held[t][x] =
             IF x = s THEN 2 - (IF back[t] = "handler" THEN 1 ELSE 0) ELSE 0
        /\ held[t][s] >= 1
    BY <1>2, <1>3, <2>2, <2>3 DEF InUse
  <2>5. kind[t] # "accept" /\ kind[t] \in Serving BY <2>2 DEF Serving
  <2>6. ioCount[s] # DeleteFlag BY <1>3, <1>9, <2>4, <2>5, ThreadLive
  <2>7. ~(LongInc(ioCount[s]) < 0) BY <1>3, <1>9, <2>6, Counter
  <2>8. /\ pc'[t] = "use" /\ owed'[t] = owed[t] /\ back'[t] = back[t]
        /\ cur'[t] = cur[t] /\ kind'[t] = kind[t] /\ sid'[t] = sid[t]
        /\ tgt'[t] = tgt[t] /\ op'[t] = op[t]
    BY <1>1, <1>2, <2>7 DEF LocalTypes
  <2>9. Shape(t)'
    <3>1. \A x \in Slots : held'[t][x] =
            IF x = cur'[t] THEN (2 - (IF back'[t] = "handler" THEN 1 ELSE 0)) + 1 ELSE 0
      BY <1>4, <2>3, <2>4, <2>8
    <3>2. pc'[t] \in InUse BY <2>8 DEF InUse
    <3>3. \A x \in Slots : held'[t][x] =
            IF x = cur'[t]
            THEN (2 - (IF back'[t] = "handler" THEN 1 ELSE 0))
                   + (IF pc'[t] \in InUse THEN 1 ELSE 0)
            ELSE 0
      BY <3>1, <3>2
    <3>4. Attachment(t)' BY <2>2, <2>8 DEF Attachment
    <3>5. QED BY <2>2, <2>8, <3>2, <3>3, <3>4, ShapeCall
  <2>10. /\ \A x \in Slots : t \in Receivers(x)' => t \in Receivers(x)
         /\ \A x \in Slots : t \in Senders(x)' => t \in Senders(x)
         /\ t \in Callers' => t \in Callers
    BY <1>2, <2>1, <2>8 DEF Receivers, Senders, Callers, InHandler, InCall, InUse
  <2>11. QueueRight' BY <1>1, <1>2, <1>9 DEF Own, QueueRight
  <2>12. /\ pc[t] \notin {"activate", "open"} \cup InDelete
         /\ pc'[t] \notin {"activate", "open"} \cup InDelete
    BY <1>2, <2>8 DEF InDelete
  <2>13. /\ sid[t] \in Ids /\ SlotOf(sid[t]) = s /\ Has(s, sid[t])
    BY <2>2, <2>3
  <2>14. QED
    BY <1>2, <1>3, <1>4, <1>5, <1>8, <1>9, <2>3, <2>4, <2>5, <2>8, <2>9, <2>10,
       <2>11, <2>12, <2>13, TakeHeld
<1>10. QED BY <1>8, <1>9

LEMMA SendPacketStep ==
  ASSUME IInv, NEW t \in Threads, SendPacket(t)
  PROVE  IInv'
<1>1. /\ TypeOK /\ LocalTypes /\ GlobalTypes /\ LocalsOf(t)
      /\ Control /\ ControlOf(t) /\ (~foreign => Own /\ Shape(t))
  BY Unfold
<1> DEFINE s == SlotOf(tgt[t])
           posts == port' = Append(port, Completion(s, "request", TRUE, tgt[t]))
                      /\ EndCall(t, 1) /\ held' = held
           fails == Hold(t, s) /\ EndCall(t, 2) /\ port' = port
<1>2. /\ pc[t] = "use" /\ op[t] = "send" /\ Register(s)
      /\ sendQ' = [sendQ EXCEPT ![s] = Append(sendQ[s], tgt[t])]
      /\ posts \/ fails
      /\ UNCHANGED <<sessionId, socket, sendFlag, connected, indexStack, idGen,
           sessionCount, active, conn, recvIo, sendIo, msgs, calls, foreign,
           announced, gone, sentTo, cur, kind, sid, op, tgt>>
  BY DEF SendPacket, Register, poolVars, kernelVars, boundVars, histVars,
     ctxVars, callVars
<1>3. tgt[t] \in Ids /\ s \in Slots
  BY <1>1, <1>2, ConstantFacts DEF ControlOf, InUse
<1> HIDE DEF s
<1>4. /\ ioCount' = [ioCount EXCEPT ![s] = LongInc(ioCount[s])]
      /\ ioCount' \in [Slots -> Int]
  BY <1>1, <1>2, <1>3, RegisterFacts
<1>5. /\ sendQ[s] \in Seq(Ids) /\ sendQ' \in [Slots -> Seq(Ids)]
      /\ sendQ'[s] = Append(sendQ[s], tgt[t])
      /\ \A x \in Slots \ {s} : sendQ'[x] = sendQ[x]
  BY <1>1, <1>2, <1>3 DEF GlobalTypes
<1>6. pc[t] \in {"acquireRef"} \cup InUse /\ pc[t] \in InUse
  BY <1>2 DEF InUse
<1>7. Completion(s, "request", TRUE, tgt[t]) \in Completions
  BY <1>3 DEF Completion, Completions
<1>8. port' \in Seq(Completions)
  <2>1. port \in Seq(Completions) BY <1>1 DEF GlobalTypes
  <2>2. CASE posts
    <3>1. PICK e \in Completions : e = Completion(s, "request", TRUE, tgt[t])
      BY <1>7
    <3>2. port' = Append(port, e) BY <2>2, <3>1
    <3>3. Append(port, e) \in Seq(Completions) BY <1>3, <2>1, <3>1, PortAppend
    <3>4. QED BY <3>2, <3>3
  <2>3. CASE fails BY <2>1, <2>3
  <2>4. QED BY <1>2, <2>2, <2>3
<1>9. GlobalTypes' BY <1>1, <1>2, <1>4, <1>5, <1>8 DEF GlobalTypes
<1>10. PICK one \in {1, 2}, two \in {1, 2} : one = 1 /\ two = 2 OBVIOUS
<1>11. /\ Moves(t) /\ LocalsOf(t)' /\ ControlOf(t)' /\ Goes(t)
       /\ pc'[t] = "dec" /\ back'[t] = back[t]
       /\ cur'[t] = cur[t] /\ kind'[t] = kind[t] /\ sid'[t] = sid[t]
  <2>1. CASE posts
    <3>1. held' = [held EXCEPT ![t] = held'[t]] /\ held'[t] \in [Slots -> Int]
      BY <1>1, <2>1 DEF LocalTypes
    <3>2. EndCall(t, one) BY <1>10, <2>1
    <3>3. QED BY <1>2, <1>6, <3>1, <3>2, EndCallControl
  <2>2. CASE fails
    <3>1. held' = [held EXCEPT ![t] = held'[t]] /\ held'[t] \in [Slots -> Int]
      BY <1>1, <1>3, <2>2, HoldFacts
    <3>2. EndCall(t, two) BY <1>10, <2>2
    <3>3. QED BY <1>2, <1>6, <3>1, <3>2, EndCallControl
  <2>3. QED BY <1>2, <2>1, <2>2
<1>12. TypeOK' /\ ((~foreign => Own') => IInv')
  BY <1>2, <1>9, <1>11, Fold
<1>13. ASSUME ~foreign PROVE Own'
  <2>1. pc[t] \in InCall \cup InUse BY <1>6
  <2>2. /\ cur[t] \in Slots /\ kind[t] \in {"connect", "recv"} /\ sid[t] \in Ids
        /\ tgt[t] = sid[t] /\ SlotOf(sid[t]) = cur[t] /\ Has(cur[t], sid[t])
        /\ \/ back[t] = "handler" /\ owed[t] = <<>>
           \/ back[t] = "idle" /\ op[t] = "disconnect" /\ owed[t] = <<cur[t], cur[t]>>
        /\ \A x \in Slots : held[t][x] =
              IF x = cur[t]
              THEN (2 - (IF back[t] = "handler" THEN 1 ELSE 0))
                     + (IF pc[t] \in InUse THEN 1 ELSE 0)
              ELSE 0
    BY <1>13, <2>1, CallFacts
  <2>3. s = cur[t] /\ back[t] = "handler" BY <1>2, <2>2 DEF s
  <2>4. held[t][s] >= 1 BY <1>3, <1>6, <2>2, <2>3
  <2>5. kind[t] \in Serving BY <2>2 DEF Serving
  <2>6. /\ \A x \in Slots : t \in Receivers(x)' => t \in Receivers(x)
        /\ \A x \in Slots : t \in Senders(x)' => t \in Senders(x)
        /\ t \in Callers /\ t \notin Callers'
    BY <1>2, <1>11, <2>1, <2>3 DEF Receivers, Senders, Callers, InHandler, InCall, InUse
  <2>7. QueueRight'
    <3>1. /\ \A x \in Slots : \A i \in 1 .. Len(sendQ[x]) : sendQ[x][i] = sessionId[x]
          /\ \A p \in sentTo : p[1] = p[2]
      BY <1>1, <1>13 DEF Own, QueueRight
    <3>2. sessionId[s] = tgt[t] BY <2>2, <2>3 DEF Has
    <3>3. \A i \in 1 .. Len(sendQ'[s]) : sendQ'[s][i] = sessionId[s]
      <4>1. /\ Len(sendQ'[s]) = Len(sendQ[s]) + 1 /\ Len(sendQ[s]) \in Nat
            /\ \A i \in 1 .. Len(sendQ[s]) : sendQ'[s][i] = sendQ[s][i]
            /\ sendQ'[s][Len(sendQ[s]) + 1] = tgt[t]
        BY <1>3, <1>5
      <4>2. QED BY <1>3, <3>1, <3>2, <4>1
    <3>4. QED BY <1>2, <1>5, <3>1, <3>3 DEF QueueRight
  <2>8. /\ pc[t] \notin {"activate", "open"} \cup InDelete
        /\ pc'[t] \notin {"activate", "open"} \cup InDelete
    BY <1>2, <1>11 DEF InDelete
  <2>9. /\ sid[t] \in Ids /\ SlotOf(sid[t]) = s /\ Has(s, sid[t])
    BY <2>2, <2>3
  <2>10. CASE posts
    <3>1. held'[t] = held[t] BY <2>10
    <3>2. Shape(t)' BY <1>6, <1>11, <1>13, <2>10, <3>1, EndCallKeep
    <3>3. /\ \A x \in Slots : held'[t][x] = held[t][x]
          /\ port' = Append(port, Completion(s, "request", TRUE, sid[t]))
      BY <2>2, <2>10, <3>1
    <3>4. QED
      BY <1>2, <1>3, <1>4, <1>5, <1>11, <1>12, <1>13, <2>3, <2>4, <2>5, <2>6, <2>7,
         <2>8, <2>9, <3>2, <3>3, TakeRequest
  <2>11. CASE fails
    <3>1. \A x \in Slots : held'[t][x] = IF x = s THEN held[t][x] + 1 ELSE held[t][x]
      BY <1>1, <1>3, <2>11, HoldFacts
    <3>2. Shape(t)'
      <4>1. \A x \in Slots : held'[t][x] =
              IF x = cur[t] THEN held[t][x] + 1 ELSE held[t][x]
        BY <2>3, <3>1
      <4>2. QED BY <1>6, <1>11, <1>13, <2>3, <2>11, <4>1, EndCallMore
    <3>3. QED
      BY <1>2, <1>3, <1>4, <1>5, <1>11, <1>12, <1>13, <2>3, <2>4, <2>5, <2>6, <2>7,
         <2>8, <2>9, <2>11, <3>1, <3>2, TakeHeld
  <2>12. QED BY <1>2, <2>10, <2>11
<1>14. QED BY <1>12, <1>13

LEMMA ServeFacts ==
  ASSUME IInv, ~foreign, NEW t \in Threads, pc[t] \in InHandler \cup InSend
  PROVE  /\ cur[t] \in Slots /\ sid[t] \in Ids /\ SlotOf(sid[t]) = cur[t]
         /\ Has(cur[t], sid[t]) /\ kind[t] \in Serving /\ kind[t] # "accept"
         /\ pc[t] \in InHandler => kind[t] \in {"connect", "recv"}
         /\ pc[t] \in InSend => kind[t] \in {"send", "request"}
         /\ \A x \in Slots : held[t][x] = IF x = cur[t] THEN 1 ELSE 0
         /\ pc[t] \notin {"activate", "open"} \cup InDelete
<1>1. Own /\ Shape(t) BY Unfold
<1>2. /\ pc[t] \in InHandler => kind[t] \in {"connect", "recv"}
      /\ pc[t] \in InSend => kind[t] \in {"send", "request"}
      /\ Holds(t, 1) /\ kind[t] # "none" /\ cur[t] \in Slots
      /\ sid[t] \in Ids /\ SlotOf(sid[t]) = cur[t]
  BY <1>1 DEF Shape
<1>3. kind[t] \in Serving /\ kind[t] # "accept" BY <1>2 DEF Serving
<1>4. Has(cur[t], sid[t]) BY <1>1, <1>3 DEF Own, Attached
<1>5. pc[t] \notin {"activate", "open"} \cup InDelete
  BY DEF InHandler, InSend, InDelete
<1>6. QED BY <1>2, <1>3, <1>4, <1>5 DEF Holds

(* The thread goes to DecreaseIoCount, for itself or also for the reference *)
(* of the operation that could not be posted.                               *)
LEMMA FinishShape ==
  ASSUME IInv, ~foreign, NEW t \in Threads, pc[t] \in InHandler \cup InSend,
         pc'[t] = "dec", cur'[t] = cur[t], kind'[t] = kind[t], sid'[t] = sid[t],
         back'[t] = "idle",
         \/ /\ owed'[t] = <<cur[t]>>
            /\ \A x \in Slots : held'[t][x] = held[t][x]
         \/ /\ owed'[t] = <<cur[t], cur[t]>>
            /\ \A x \in Slots : held'[t][x] =
                 IF x = cur[t] THEN held[t][x] + 1 ELSE held[t][x]
  PROVE  Shape(t)'
<1>1. /\ cur[t] \in Slots /\ sid[t] \in Ids /\ SlotOf(sid[t]) = cur[t]
      /\ kind[t] \in Serving
      /\ \A x \in Slots : held[t][x] = IF x = cur[t] THEN 1 ELSE 0
  BY ServeFacts
<1>2. Attachment(t)' BY <1>1 DEF Attachment
<1>3. CASE owed'[t] = <<cur[t]>> /\ \A x \in Slots : held'[t][x] = held[t][x]
  <2>1. \A x \in Slots : held'[t][x] = IF x = cur'[t] THEN 1 ELSE 0 BY <1>1, <1>3
  <2>2. QED BY <1>1, <1>2, <1>3, <2>1, ShapeFinish
<1>4. CASE /\ owed'[t] = <<cur[t], cur[t]>>
           /\ \A x \in Slots : held'[t][x] =
                IF x = cur[t] THEN held[t][x] + 1 ELSE held[t][x]
  <2>1. /\ Len(owed'[t]) = 2 /\ owed'[t][1] = cur'[t] /\ owed'[t][2] = cur'[t]
    BY <1>1, <1>4, TwoOwed
  <2>2. \A x \in Slots : held'[t][x] =
          IF x = cur'[t]
          THEN Len(owed'[t]) + (IF back'[t] = "handler" THEN 1 ELSE 0) ELSE 0
    BY <1>1, <1>4, <2>1
  <2>3. \A i \in 1 .. Len(owed'[t]) : owed'[t][i] = cur'[t] BY <2>1
  <2>4. /\ Len(owed'[t]) \in 1 .. 3 /\ kind'[t] \in Serving
        /\ back'[t] = "handler" =>
             kind'[t] \in {"connect", "recv"} /\ Len(owed'[t]) < 3
    BY <1>1, <2>1
  <2>5. QED BY <1>2, <2>2, <2>3, <2>4, ShapeDec
<1>5. QED BY <1>3, <1>4

LEMMA RecvPostStep ==
  ASSUME IInv, NEW t \in Threads, RecvPost(t)
  PROVE  IInv'
<1>1. /\ TypeOK /\ LocalTypes /\ GlobalTypes /\ LocalsOf(t)
      /\ Control /\ ControlOf(t) /\ (~foreign => Own /\ Shape(t))
  BY Unfold
<1> DEFINE s == cur[t]
           g == socket[s]
           ends == pc' = [pc EXCEPT ![t] = "dec"] /\ back' = [back EXCEPT ![t] = "idle"]
                     /\ op' = op /\ tgt' = tgt
           posts == ends /\ g # NoId /\ owed' = [owed EXCEPT ![t] = <<s>>]
                      /\ recvIo' = [recvIo EXCEPT ![g] = recvIo[g] + 1] /\ held' = held
           drops == ends /\ owed' = [owed EXCEPT ![t] = <<s, s>>] /\ recvIo' = recvIo
                      /\ Hold(t, s)
           asks == pc' = [pc EXCEPT ![t] = "acquire"]
                     /\ op' = [op EXCEPT ![t] = "disconnect"]
                     /\ tgt' = [tgt EXCEPT ![t] = sessionId[s]]
                     /\ owed' = [owed EXCEPT ![t] = <<s, s>>]
                     /\ back' = [back EXCEPT ![t] = "idle"]
                     /\ recvIo' = recvIo /\ Hold(t, s)
<1>2. /\ pc[t] = "recvPost" /\ Register(s)
      /\ posts \/ drops \/ asks
      /\ UNCHANGED <<sessionId, socket, sendFlag, connected, sendQ, indexStack,
           idGen, sessionCount, active, port, conn, sendIo, msgs, calls, foreign,
           announced, gone, sentTo, cur, kind, sid>>
  BY DEF RecvPost, Finish, DecreaseThen, Goto, fieldVars, poolVars, boundVars,
     histVars, ctxVars, callVars
<1>3. /\ s \in Slots /\ g \in Ids \cup {NoId} /\ sessionId[s] \in Ids \cup {NoId}
      /\ pc[t] \in InHandler \cup InSend
  BY <1>1, <1>2 DEF ControlOf, GlobalTypes, InHandler
<1>4. /\ ioCount' = [ioCount EXCEPT ![s] = LongInc(ioCount[s])]
      /\ ioCount' \in [Slots -> Int]
  BY <1>1, <1>2, <1>3, RegisterFacts
<1>5. /\ held' = [held EXCEPT ![t] = held'[t]] /\ held'[t] \in [Slots -> Int]
      /\ \A x \in Slots : held'[t][x] =
           IF x = s /\ ~posts THEN held[t][x] + 1 ELSE held[t][x]
  <2>1. CASE posts BY <1>1, <2>1 DEF LocalTypes
  <2>2. CASE ~posts
    <3>1. Hold(t, s) BY <1>2, <2>2
    <3>2. QED BY <1>1, <1>3, <2>2, <3>1, HoldFacts
  <2>3. QED BY <2>1, <2>2
<1>6. recvIo' \in [Ids -> Nat]
  <2>1. CASE posts BY <1>1, <1>3, <2>1 DEF GlobalTypes
  <2>2. CASE ~posts BY <1>1, <1>2, <2>2 DEF GlobalTypes
  <2>3. QED BY <2>1, <2>2
<1>7. /\ cur'[t] = cur[t] /\ kind'[t] = kind[t] /\ sid'[t] = sid[t]
      /\ back'[t] = "idle"
      /\ posts => owed'[t] = <<s>>
      /\ ~posts => owed'[t] = <<s, s>>
      /\ asks => pc'[t] = "acquire" /\ op'[t] = "disconnect" /\ tgt'[t] = sessionId[s]
      /\ ~asks => pc'[t] = "dec" /\ op'[t] = op[t] /\ tgt'[t] = tgt[t]
  BY <1>1, <1>2 DEF LocalTypes
<1>8. <<s>> \in Seq(Slots) /\ <<s>> # <<>> /\ <<s, s>> \in Seq(Slots) /\ <<s, s>> # <<>>
  BY <1>3, OneOwed, TwoOwed
<1>9. Moves(t) BY <1>1, <1>2, <1>5, <1>7 DEF Moves, LocalTypes
<1>10. LocalsOf(t)' BY <1>1, <1>3, <1>5, <1>7, <1>8 DEF LocalsOf, Labels
<1>11. ControlOf(t)'
  BY <1>7, <1>8 DEF ControlOf, InHandler, InSend, InCall, InUse, InDelete
<1>12. GlobalTypes' BY <1>1, <1>2, <1>4, <1>6 DEF GlobalTypes
<1>13. TypeOK' /\ Goes(t) /\ ((~foreign => Own') => IInv')
  BY <1>2, <1>9, <1>10, <1>11, <1>12, Fold
<1>14. ASSUME ~foreign PROVE Own'
  <2>1. /\ sid[t] \in Ids /\ SlotOf(sid[t]) = s /\ Has(s, sid[t]) /\ kind[t] \in Serving
        /\ kind[t] \in {"connect", "recv"}
        /\ \A x \in Slots : held[t][x] = IF x = s THEN 1 ELSE 0
        /\ pc[t] \notin {"activate", "open"} \cup InDelete
    BY <1>2, <1>3, <1>14, ServeFacts DEF InHandler
  <2>2. held[t][s] >= 1 BY <1>3, <2>1
  <2>3. g = sid[t] /\ sessionId[s] = sid[t] BY <2>1 DEF Has
  <2>4. /\ \A x \in Slots : t \notin Receivers(x)'
        /\ \A x \in Slots : t \notin Senders(x)'
        /\ t \in Receivers(s) /\ t \notin Callers'
    BY <1>2, <1>3, <1>7, <2>1 DEF Receivers, Senders, Callers, InHandler, InCall, InUse
  <2>5. QueueRight' BY <1>1, <1>2, <1>14 DEF Own, QueueRight
  <2>6. pc'[t] \notin {"activate", "open"} \cup InDelete BY <1>7 DEF InDelete
  <2>7. Shape(t)'
    <3>1. CASE asks
      <4>1. ~posts BY <1>1, <3>1 DEF LocalTypes
      <4>2. \A x \in Slots : held'[t][x] = IF x = cur'[t] THEN 2 ELSE 0
        BY <1>5, <1>7, <2>1, <4>1
      <4>3. \A x \in Slots : held'[t][x] =
              IF x = cur'[t]
              THEN (2 - (IF back'[t] = "handler" THEN 1 ELSE 0))
                     + (IF pc'[t] \in InUse THEN 1 ELSE 0)
              ELSE 0
        BY <1>7, <3>1, <4>2 DEF InUse
      <4>4. Attachment(t)' BY <1>3, <1>7, <2>1 DEF Attachment
      <4>5. pc'[t] \in InCall \cup InUse BY <1>7, <3>1 DEF InCall
      <4>6. QED BY <1>7, <2>1, <2>3, <3>1, <4>1, <4>3, <4>4, <4>5, ShapeCall
    <3>2. CASE ~asks BY <1>3, <1>5, <1>7, <1>14, <3>2, FinishShape
    <3>3. QED BY <3>1, <3>2
  <2>8. CASE posts
    <3>1. /\ \A x \in Slots : held'[t][x] = held[t][x]
          /\ recvIo' = [recvIo EXCEPT ![sid[t]] = recvIo[sid[t]] + 1]
      BY <1>5, <2>3, <2>8
    <3>2. QED
      BY <1>2, <1>3, <1>4, <1>7, <1>13, <1>14, <2>1, <2>2, <2>4, <2>5, <2>6, <2>7,
         <3>1, TakeRecv
  <2>9. CASE ~posts
    <3>1. recvIo' = recvIo
          /\ \A x \in Slots : held'[t][x] = IF x = s THEN held[t][x] + 1 ELSE held[t][x]
      BY <1>2, <1>5, <2>9
    <3>2. QED
      BY <1>2, <1>3, <1>4, <1>7, <1>13, <1>14, <2>1, <2>2, <2>4, <2>5, <2>6, <2>7,
         <3>1, TakeHeld
  <2>10. QED BY <2>8, <2>9
<1>15. QED BY <1>13, <1>14

LEMMA SendPostStep ==
  ASSUME IInv, NEW t \in Threads, SendPost(t)
  PROVE  IInv'
<1>1. /\ TypeOK /\ LocalTypes /\ GlobalTypes /\ LocalsOf(t)
      /\ Control /\ ControlOf(t) /\ (~foreign => Own /\ Shape(t))
  BY Unfold
<1> DEFINE s == cur[t]
           g == socket[s]
           none == pc' = [pc EXCEPT ![t] = "sendReset"]
                     /\ UNCHANGED <<sendQ, ioCount, sendIo, sentTo, held, owed, back>>
           takes == pc' = [pc EXCEPT ![t] = "dec"] /\ back' = [back EXCEPT ![t] = "idle"]
                      /\ sendQ' = [sendQ EXCEPT ![s] = <<>>] /\ Register(s)
           posts == takes /\ g # NoId /\ owed' = [owed EXCEPT ![t] = <<s>>]
                      /\ sendIo' = [sendIo EXCEPT ![g] = sendIo[g] + 1]
                      /\ sentTo' = sentTo \cup {<<m, g>> : m \in ToSet(sendQ[s])}
                      /\ held' = held
           drops == takes /\ owed' = [owed EXCEPT ![t] = <<s, s>>] /\ sendIo' = sendIo
                      /\ sentTo' = sentTo /\ Hold(t, s)
<1>2. /\ pc[t] = "sendPost"
      /\ UNCHANGED <<sessionId, socket, sendFlag, connected, indexStack, idGen,
           sessionCount, active, port, conn, recvIo, msgs, calls, foreign,
           announced, gone, cur, kind, sid, op, tgt>>
  BY DEF SendPost, poolVars, boundVars, ctxVars, callVars
<1>3. none \/ posts \/ drops
  BY DEF SendPost, Finish, DecreaseThen, Goto, decVars
<1>4. /\ s \in Slots /\ g \in Ids \cup {NoId} /\ pc[t] \in InHandler \cup InSend
  BY <1>1, <1>2 DEF ControlOf, GlobalTypes, InSend
<1>5. CASE none
  <2>1. Serve(t)
    BY <1>1, <1>2, <1>4, <1>5 DEF Serve, InHandler, InSend, LocalTypes, GlobalTypes
  <2>2. pc'[t] \in OnSide /\ pc[t] \in OnSide /\ sendFlag' = sendFlag
    BY <1>1, <1>2, <1>5 DEF OnSide, LocalTypes
  <2>3. QED BY <2>1, <2>2, ServeKeeps, ServeRight
<1>6. CASE ~none
  <2>1. takes /\ (posts \/ drops) BY <1>3, <1>6
  <2>2. /\ ioCount' = [ioCount EXCEPT ![s] = LongInc(ioCount[s])]
        /\ ioCount' \in [Slots -> Int]
    BY <1>1, <1>4, <2>1, RegisterFacts
  <2>3. /\ held' = [held EXCEPT ![t] = held'[t]] /\ held'[t] \in [Slots -> Int]
        /\ \A x \in Slots : held'[t][x] =
             IF x = s /\ ~posts THEN held[t][x] + 1 ELSE held[t][x]
    <3>1. CASE posts BY <1>1, <3>1 DEF LocalTypes
    <3>2. CASE ~posts
      <4>1. Hold(t, s) BY <2>1, <3>2
      <4>2. QED BY <1>1, <1>4, <3>2, <4>1, HoldFacts
    <3>3. QED BY <3>1, <3>2
  <2>4. /\ sendQ' \in [Slots -> Seq(Ids)] /\ sendQ'[s] = <<>>
        /\ \A x \in Slots \ {s} : sendQ'[x] = sendQ[x]
    BY <1>1, <1>4, <2>1, NoneOwed DEF GlobalTypes
  <2>5. sendIo' \in [Ids -> Nat] /\ sentTo' \subseteq Ids \X Ids
    <3>1. CASE posts
      <4>1. sendIo' \in [Ids -> Nat] BY <1>1, <1>4, <3>1 DEF GlobalTypes
      <4>2. ToSet(sendQ[s]) \subseteq Ids
        <5>1. sendQ[s] \in Seq(Ids) BY <1>1, <1>4 DEF GlobalTypes
        <5>2. QED BY <5>1 DEF ToSet
      <4>3. g \in Ids BY <1>4, <3>1
      <4>4. QED BY <1>1, <3>1, <4>1, <4>2, <4>3 DEF GlobalTypes
    <3>2. CASE ~posts BY <1>1, <2>1, <3>2 DEF GlobalTypes
    <3>3. QED BY <3>1, <3>2
  <2>6. /\ pc'[t] = "dec" /\ cur'[t] = cur[t] /\ kind'[t] = kind[t] /\ sid'[t] = sid[t]
        /\ op'[t] = op[t] /\ tgt'[t] = tgt[t] /\ back'[t] = "idle"
        /\ posts => owed'[t] = <<s>>
        /\ ~posts => owed'[t] = <<s, s>>
    BY <1>1, <1>2, <2>1 DEF LocalTypes
  <2>7. <<s>> \in Seq(Slots) /\ <<s>> # <<>> /\ <<s, s>> \in Seq(Slots) /\ <<s, s>> # <<>>
    BY <1>4, OneOwed, TwoOwed
  <2>8. Moves(t)
    <3>1. /\ pc' = [pc EXCEPT ![t] = pc'[t]] /\ back' = [back EXCEPT ![t] = back'[t]]
      BY <1>1, <2>1, <2>6
    <3>2. owed' = [owed EXCEPT ![t] = owed'[t]] BY <1>1, <2>1, <2>6
    <3>3. QED BY <1>1, <1>2, <2>3, <3>1, <3>2 DEF Moves, LocalTypes
  <2>9. LocalsOf(t)' BY <1>1, <2>3, <2>6, <2>7 DEF LocalsOf, Labels
  <2>10. ControlOf(t)'
    BY <2>6, <2>7 DEF ControlOf, InHandler, InSend, InCall, InUse, InDelete
  <2>11. GlobalTypes' BY <1>1, <1>2, <2>2, <2>4, <2>5 DEF GlobalTypes
  <2>12. TypeOK' /\ Goes(t) /\ ((~foreign => Own') => IInv')
    BY <1>2, <2>8, <2>9, <2>10, <2>11, Fold
  <2>13. ASSUME ~foreign PROVE Own'
    <3>1. /\ sid[t] \in Ids /\ SlotOf(sid[t]) = s /\ Has(s, sid[t]) /\ kind[t] \in Serving
          /\ kind[t] \in {"send", "request"}
          /\ \A x \in Slots : held[t][x] = IF x = s THEN 1 ELSE 0
          /\ pc[t] \notin {"activate", "open"} \cup InDelete
      <4>1. pc[t] \in InSend BY <1>2 DEF InSend
      <4>2. QED BY <1>4, <2>13, <4>1, ServeFacts
    <3>2. held[t][s] >= 1 BY <1>4, <3>1
    <3>3. g = sid[t] /\ sessionId[s] = sid[t] BY <3>1 DEF Has
    <3>4. /\ \A x \in Slots : t \notin Receivers(x)'
          /\ \A x \in Slots : t \notin Senders(x)'
          /\ t \in Senders(s) /\ t \notin Callers'
      <4>1. pc[t] = "sendPost" BY <1>2
      <4>2. QED
        BY <1>4, <2>6, <3>1, <4>1
        DEF Receivers, Senders, Callers, InHandler, InCall, InUse
    <3>5. QueueRight'
      <4>1. /\ \A x \in Slots : \A i \in 1 .. Len(sendQ[x]) : sendQ[x][i] = sessionId[x]
            /\ \A p \in sentTo : p[1] = p[2]
        BY <1>1, <2>13 DEF Own, QueueRight
      <4>2. \A x \in Slots : \A i \in 1 .. Len(sendQ'[x]) : sendQ'[x][i] = sessionId'[x]
        BY <1>2, <1>4, <2>4, <4>1
      <4>3. \A p \in sentTo' : p[1] = p[2]
        <5>1. CASE posts
          <6>1. \A m \in ToSet(sendQ[s]) : m = g
            BY <1>4, <3>3, <4>1 DEF ToSet
          <6>2. QED BY <4>1, <5>1, <6>1
        <5>2. CASE ~posts BY <2>1, <4>1, <5>2
        <5>3. QED BY <5>1, <5>2
      <4>4. QED BY <4>2, <4>3 DEF QueueRight
    <3>6. pc'[t] \notin {"activate", "open"} \cup InDelete BY <2>6 DEF InDelete
    <3>7. Shape(t)' BY <1>4, <2>3, <2>6, <2>13, FinishShape
    <3>8. CASE posts
      <4>1. /\ \A x \in Slots : held'[t][x] = held[t][x]
            /\ sendIo' = [sendIo EXCEPT ![sid[t]] = sendIo[sid[t]] + 1]
        BY <2>3, <3>3, <3>8
      <4>2. QED
        BY <1>2, <1>4, <2>2, <2>4, <2>6, <2>12, <2>13, <3>1, <3>2, <3>4, <3>5, <3>6,
           <3>7, <4>1, TakeSend
    <3>9. CASE ~posts
      <4>1. sendIo' = sendIo
            /\ \A x \in Slots : held'[t][x] = IF x = s THEN held[t][x] + 1 ELSE held[t][x]
        BY <2>1, <2>3, <3>9
      <4>2. QED
        BY <1>2, <1>4, <2>2, <2>4, <2>6, <2>12, <2>13, <3>1, <3>2, <3>4, <3>5, <3>6,
           <3>7, <4>1, TakeHeld
    <3>10. QED BY <3>8, <3>9
  <2>14. QED BY <2>12, <2>13
<1>7. QED BY <1>5, <1>6

-----------------------------------------------------------------------------
(* DecreaseIoCount and DeleteSession.                                       *)
Forgets(t) ==
  /\ cur'[t] = NoSlot /\ sid'[t] = NoId /\ kind'[t] = "none"
  /\ cur' = [cur EXCEPT ![t] = cur'[t]] /\ sid' = [sid EXCEPT ![t] = sid'[t]]
  /\ kind' = [kind EXCEPT ![t] = kind'[t]]

LEMMA ForgetFacts ==
  ASSUME LocalTypes, NEW t \in Threads, Forget(t)
  PROVE  /\ Len(owed[t]) = 1 /\ back[t] = "idle" => Forgets(t)
         /\ ~(Len(owed[t]) = 1 /\ back[t] = "idle") =>
              cur' = cur /\ sid' = sid /\ kind' = kind
BY DEF Forget, Forgets, LocalTypes, ctxVars

LEMMA ReturnControl ==
  ASSUME IInv, NEW t \in Threads, pc[t] \in {"dec"} \cup InDelete, Return(t),
         op' = op, tgt' = tgt,
         held' = [held EXCEPT ![t] = held'[t]], held'[t] \in [Slots -> Int]
  PROVE  /\ Moves(t) /\ LocalsOf(t)' /\ ControlOf(t)'
         /\ owed[t] # <<>> /\ owed[t] \in Seq(Slots)
         /\ owed'[t] = Tail(owed[t]) /\ back'[t] = back[t]
         /\ pc'[t] = IF Len(owed[t]) > 1 THEN "dec" ELSE back[t]
         /\ IF Len(owed[t]) = 1 /\ back[t] = "idle" THEN Forgets(t)
            ELSE cur' = cur /\ sid' = sid /\ kind' = kind
<1>1. LocalTypes /\ LocalsOf(t) /\ ControlOf(t) BY Unfold
<1>2. owed[t] # <<>> /\ owed[t] \in Seq(Slots) /\ back[t] \in {"idle", "handler"}
  BY <1>1 DEF ControlOf, LocalsOf
<1>3. /\ Tail(owed[t]) \in Seq(Slots) /\ Len(owed[t]) \in Nat \ {0}
      /\ Len(owed[t]) > 1 => Tail(owed[t]) # <<>>
  BY <1>2, RestOwed
<1>4. /\ owed' = [owed EXCEPT ![t] = Tail(owed[t])] /\ back' = back /\ Forget(t)
      /\ pc' = [pc EXCEPT ![t] = IF Len(owed[t]) > 1 THEN "dec" ELSE back[t]]
  BY DEF Return, Goto
<1>5. /\ owed'[t] = Tail(owed[t]) /\ back'[t] = back[t]
      /\ pc'[t] = IF Len(owed[t]) > 1 THEN "dec" ELSE back[t]
      /\ owed' = [owed EXCEPT ![t] = owed'[t]] /\ pc' = [pc EXCEPT ![t] = pc'[t]]
  BY <1>1, <1>4 DEF LocalTypes
<1>6. IF Len(owed[t]) = 1 /\ back[t] = "idle" THEN Forgets(t)
      ELSE cur' = cur /\ sid' = sid /\ kind' = kind
  BY <1>1, <1>4, ForgetFacts
<1>7. /\ cur' = [cur EXCEPT ![t] = cur'[t]] /\ sid' = [sid EXCEPT ![t] = sid'[t]]
      /\ kind' = [kind EXCEPT ![t] = kind'[t]]
      /\ \/ cur'[t] = NoSlot /\ sid'[t] = NoId /\ kind'[t] = "none" /\ back[t] = "idle"
         \/ cur'[t] = cur[t] /\ sid'[t] = sid[t] /\ kind'[t] = kind[t]
  BY <1>1, <1>6 DEF Forgets, LocalTypes
<1>8. Moves(t) BY <1>1, <1>4, <1>5, <1>7 DEF Moves, LocalTypes
<1>9. op'[t] = op[t] /\ tgt'[t] = tgt[t] OBVIOUS
<1>10. LocalsOf(t)'
  <2>1. pc'[t] \in Labels BY <1>2, <1>5 DEF Labels
  <2>2. QED BY <1>1, <1>2, <1>3, <1>5, <1>7, <1>9, <2>1 DEF LocalsOf
<1>11. ControlOf(t)'
  <2>1. pc'[t] \in {"dec", "idle", "handler"} BY <1>2, <1>5
  <2>2. pc'[t] = "dec" => owed'[t] # <<>> BY <1>2, <1>3, <1>5
  <2>3. back'[t] = "handler" => cur'[t] \in Slots
    BY <1>1, <1>5, <1>7 DEF ControlOf
  <2>4. pc'[t] = "handler" => back'[t] = "handler" BY <1>2, <1>5
  <2>5. QED
    BY <2>1, <2>2, <2>3, <2>4
    DEF ControlOf, InHandler, InSend, InCall, InUse, InDelete
<1>12. QED BY <1>2, <1>5, <1>6, <1>8, <1>10, <1>11

LEMMA DeleteFacts ==
  ASSUME IInv, ~foreign, NEW t \in Threads, pc[t] \in InDelete,
         NEW s, s = Head(owed[t])
  PROVE  /\ s \in Slots /\ back[t] = "idle" /\ Len(owed[t]) = 1
         /\ owed[t] = <<s>> /\ Deleting(t, s) /\ Fields(t, s)
         /\ \A i \in 1 .. Len(indexStack) : indexStack[i] # s
         /\ pc[Acceptor] \in {"activate", "open"} => cur[Acceptor] # s
         /\ \A u \in Threads : Deleting(u, s) => u = t
         /\ References(s) = held[t][s]
         /\ \A x \in Slots : x # s => held[t][x] = 0
         /\ \/ /\ t = Acceptor /\ kind[t] = "accept" /\ cur[t] = s
               /\ pc[t] \in {"clear", "clearCount", "recycle"}
               /\ held[t][s] = IF pc[t] = "recycle" THEN 0 ELSE 1
            \/ /\ kind[t] = "none" /\ cur[t] = NoSlot /\ sid[t] = NoId
               /\ held[t][s] = 0
<1>1. TypeOK /\ LocalsOf(t) /\ ControlOf(t) /\ Own /\ Shape(t) BY Unfold
<1>2. /\ back[t] = "idle" /\ Len(owed[t]) = 1
      /\ \/ /\ t = Acceptor /\ kind[t] = "accept"
            /\ pc[t] \in {"clear", "clearCount", "recycle"}
            /\ cur[t] = Head(owed[t])
            /\ Holds(t, IF pc[t] = "recycle" THEN 0 ELSE 1)
         \/ /\ kind[t] = "none" /\ cur[t] = NoSlot /\ sid[t] = NoId
            /\ Holds(t, 0)
  BY <1>1 DEF Shape
<1>3. owed[t] \in Seq(Slots) /\ owed[t] # <<>>
  BY <1>1 DEF LocalsOf, ControlOf
<1>4. s \in Slots BY <1>3, RestOwed
<1>5. owed[t] = <<s>> BY <1>2, <1>3, <1>4, RestOwed
<1>6. Deleting(t, s) BY DEF Deleting
<1>7. /\ \A i \in 1 .. Len(indexStack) : indexStack[i] # s
      /\ pc[Acceptor] \in {"activate", "open"} => cur[Acceptor] # s
      /\ \A u \in Threads : Deleting(u, s) => u = t
      /\ Fields(t, s)
  BY <1>1, <1>4, <1>6 DEF Own, Lifecycle
<1>8. /\ \/ /\ t = Acceptor /\ kind[t] = "accept" /\ cur[t] = s
            /\ pc[t] \in {"clear", "clearCount", "recycle"}
            /\ held[t][s] = IF pc[t] = "recycle" THEN 0 ELSE 1
         \/ /\ kind[t] = "none" /\ cur[t] = NoSlot /\ sid[t] = NoId
            /\ held[t][s] = 0
      /\ \A x \in Slots : x # s => held[t][x] = 0
  BY <1>2, <1>4, ConstantFacts DEF Holds
<1>9. References(s) = held[t][s]
  <2>1. References(s) = IF ioCount[s] = DeleteFlag THEN 0 ELSE ioCount[s]
    BY <1>1, <1>4 DEF Own, RefsExact
  <2>2. CASE pc[t] \in {"delete", "deleteCas", "recycle"}
    BY <1>7, <1>8, <2>1, <2>2 DEF Fields
  <2>3. CASE pc[t] \in {"teardown", "clear", "clearCount"}
    BY <1>7, <1>8, <2>1, <2>3 DEF Fields, DeleteFlag
  <2>4. QED BY <2>2, <2>3 DEF InDelete
<1>10. QED BY <1>2, <1>4, <1>5, <1>6, <1>7, <1>8, <1>9

(* Steps that leave the kernel and the port alone.                          *)
LEMMA StillRefs ==
  ASSUME IInv, ~foreign, TypeOK', NEW t \in Threads, Goes(t), NEW s \in Slots,
         UNCHANGED <<port, recvIo, sendIo>>, held'[t][s] \in Nat
  PROVE  /\ References(s)' \in Nat /\ References(s) \in Nat /\ held[t][s] \in Nat
         /\ References(s)' + held[t][s] = References(s) + held'[t][s]
<1>1. TypeOK /\ Shapes BY DEF IInv, Own
<1>2. /\ References(s)' \in Nat
      /\ References(s)' + held[t][s] + Cardinality(Outstanding(recvIo, s))
           + Cardinality(Outstanding(sendIo, s)) + Cardinality(At(port, On(s)))
         = References(s) + held'[t][s] + Cardinality(Outstanding(recvIo', s))
           + Cardinality(Outstanding(sendIo', s)) + Cardinality(At(port', On(s)))
  BY <1>1, RefsMove
<1>3. /\ held[t][s] \in Nat /\ References(s) \in Nat
      /\ Cardinality(Outstanding(recvIo, s)) \in Nat
      /\ Cardinality(Outstanding(sendIo, s)) \in Nat
      /\ Cardinality(At(port, On(s))) \in Nat
  BY <1>1, RefParts
<1>4. /\ Outstanding(recvIo', s) = Outstanding(recvIo, s)
      /\ Outstanding(sendIo', s) = Outstanding(sendIo, s)
      /\ At(port', On(s)) = At(port, On(s))
  OBVIOUS
<1>5. References(s)' + held[t][s] + Cardinality(Outstanding(recvIo, s))
           + Cardinality(Outstanding(sendIo, s)) + Cardinality(At(port, On(s)))
         = References(s) + held'[t][s] + Cardinality(Outstanding(recvIo, s))
           + Cardinality(Outstanding(sendIo, s)) + Cardinality(At(port, On(s)))
  BY <1>2, <1>4
<1>6. held'[t][s] \in Nat OBVIOUS
<1>7. References(s)' + held[t][s] = References(s) + held'[t][s]
  BY ONLY <1>2, <1>3, <1>5, <1>6
<1>8. QED BY <1>2, <1>3, <1>7

LEMMA StillSides ==
  ASSUME IInv, TypeOK', NEW t \in Threads, Goes(t), NEW s \in Slots,
         UNCHANGED <<port, recvIo, sendIo>>
  PROVE  /\ RecvSide(s)' \in Nat /\ SendSide(s)' \in Nat
         /\ RecvSide(s) \in Nat /\ SendSide(s) \in Nat
         /\ RecvSide(s)' + (IF t \in Receivers(s) THEN 1 ELSE 0)
              = RecvSide(s) + (IF t \in Receivers(s)' THEN 1 ELSE 0)
         /\ SendSide(s)' + (IF t \in Senders(s) THEN 1 ELSE 0)
              = SendSide(s) + (IF t \in Senders(s)' THEN 1 ELSE 0)
<1>1. TypeOK BY DEF IInv
<1>2. /\ RecvSide(s)' \in Nat /\ SendSide(s)' \in Nat
      /\ RecvSide(s)' + (IF t \in Receivers(s) THEN 1 ELSE 0)
           + Cardinality(Outstanding(recvIo, s)) + Cardinality(At(port, Entries("recv", s)))
         = RecvSide(s) + (IF t \in Receivers(s)' THEN 1 ELSE 0)
           + Cardinality(Outstanding(recvIo', s)) + Cardinality(At(port', Entries("recv", s)))
      /\ SendSide(s)' + (IF t \in Senders(s) THEN 1 ELSE 0)
           + Cardinality(Outstanding(sendIo, s)) + Cardinality(At(port, Entries("send", s)))
         = SendSide(s) + (IF t \in Senders(s)' THEN 1 ELSE 0)
           + Cardinality(Outstanding(sendIo', s)) + Cardinality(At(port', Entries("send", s)))
  BY <1>1, SidesMove
<1>3. /\ Cardinality(Outstanding(recvIo, s)) \in Nat
      /\ Cardinality(Outstanding(sendIo, s)) \in Nat
      /\ Cardinality(At(port, Entries("recv", s))) \in Nat
      /\ Cardinality(At(port, Entries("send", s))) \in Nat
      /\ RecvSide(s) \in Nat /\ SendSide(s) \in Nat
  BY <1>1, SideTypes
<1>4. /\ Outstanding(recvIo', s) = Outstanding(recvIo, s)
      /\ Outstanding(sendIo', s) = Outstanding(sendIo, s)
      /\ At(port', Entries("recv", s)) = At(port, Entries("recv", s))
      /\ At(port', Entries("send", s)) = At(port, Entries("send", s))
  OBVIOUS
<1>5. /\ RecvSide(s)' + (IF t \in Receivers(s) THEN 1 ELSE 0)
           + Cardinality(Outstanding(recvIo, s)) + Cardinality(At(port, Entries("recv", s)))
         = RecvSide(s) + (IF t \in Receivers(s)' THEN 1 ELSE 0)
           + Cardinality(Outstanding(recvIo, s)) + Cardinality(At(port, Entries("recv", s)))
      /\ SendSide(s)' + (IF t \in Senders(s) THEN 1 ELSE 0)
           + Cardinality(Outstanding(sendIo, s)) + Cardinality(At(port, Entries("send", s)))
         = SendSide(s) + (IF t \in Senders(s)' THEN 1 ELSE 0)
           + Cardinality(Outstanding(sendIo, s)) + Cardinality(At(port, Entries("send", s)))
  BY <1>2, <1>4
<1>6. /\ RecvSide(s)' + (IF t \in Receivers(s) THEN 1 ELSE 0)
           = RecvSide(s) + (IF t \in Receivers(s)' THEN 1 ELSE 0)
      /\ SendSide(s)' + (IF t \in Senders(s) THEN 1 ELSE 0)
           = SendSide(s) + (IF t \in Senders(s)' THEN 1 ELSE 0)
  BY ONLY <1>2, <1>3, <1>5
<1>7. QED BY <1>2, <1>3, <1>6

(* With no reference but those of one thread, only it is on a side.         *)
LEMMA AloneSides ==
  ASSUME IInv, ~foreign, NEW t \in Threads, NEW s \in Slots,
         References(s) = held[t][s]
  PROVE  /\ RecvSide(s) = IF t \in Receivers(s) THEN 1 ELSE 0
         /\ SendSide(s) = IF t \in Senders(s) THEN 1 ELSE 0
<1>1. TypeOK /\ Shapes BY DEF IInv, Own
<1>2. /\ \A u \in Threads \ {t} : kind[u] \in Serving \/ pc[u] = "open" => cur[u] # s
      /\ \A i \in 1 .. Len(port) : port[i].slot # s
      /\ \A g \in Ids : SlotOf(g) = s => recvIo[g] = 0 /\ sendIo[g] = 0
  BY Alone
<1>3. Receivers(s) \subseteq {t} BY <1>2 DEF Receivers, Serving
<1>4. Senders(s) \subseteq {t}
  <2>1. \A u \in Threads : pc[u] \in {"sent", "sendPost", "sendReset"} =>
          kind[u] \in Serving
    BY <1>1 DEF Shapes, Shape, InSend, Serving
  <2>2. QED BY <1>2, <2>1 DEF Senders
<1>5. /\ At(port, Entries("recv", s)) = {} /\ At(port, Entries("send", s)) = {}
  BY <1>2 DEF At, Entries
<1>6. Outstanding(recvIo, s) = {} /\ Outstanding(sendIo, s) = {}
  <2>1. \A g \in Ids : SlotOf(g) = s => 1 .. recvIo[g] = {} /\ 1 .. sendIo[g] = {}
    BY <1>2
  <2>2. QED BY <2>1 DEF Outstanding
<1>7. /\ Receivers(s) = IF t \in Receivers(s) THEN {t} ELSE {}
      /\ Senders(s) = IF t \in Senders(s) THEN {t} ELSE {}
  BY <1>3, <1>4
<1>8. Cardinality({}) = 0 /\ Cardinality({t}) = 1 BY FS_EmptySet, FS_Singleton
<1>9. /\ Cardinality(Receivers(s)) = IF t \in Receivers(s) THEN 1 ELSE 0
      /\ Cardinality(Senders(s)) = IF t \in Senders(s) THEN 1 ELSE 0
  BY <1>7, <1>8
<1>10. QED BY <1>5, <1>6, <1>8, <1>9 DEF RecvSide, SendSide

(* A step of the thread that deletes slot s, which touches that slot only.  *)
LEMMA DeleteMove ==
  ASSUME IInv, ~foreign, TypeOK', NEW t \in Threads, Goes(t),
         pc[t] \in InDelete, pc'[t] \in InDelete, NEW s, s = Head(owed[t]),
         owed'[t] = owed[t], back'[t] = back[t], cur'[t] = cur[t],
         kind'[t] = kind[t], sid'[t] = sid[t],
         kind[t] = "accept" => pc'[t] \in {"clear", "clearCount", "recycle"},
         UNCHANGED <<indexStack, idGen, sessionCount, port, recvIo, sendIo, calls,
                     sentTo>>,
         \A x \in Slots \ {s} :
           /\ sessionId'[x] = sessionId[x] /\ socket'[x] = socket[x]
           /\ ioCount'[x] = ioCount[x] /\ sendQ'[x] = sendQ[x]
           /\ connected'[x] = connected[x] /\ sendFlag'[x] = sendFlag[x]
           /\ held'[t][x] = held[t][x],
         held'[t][s] = IF kind[t] = "accept" /\ pc'[t] # "recycle" THEN 1 ELSE 0,
         held'[t][s] = IF ioCount'[s] = DeleteFlag THEN 0 ELSE ioCount'[s],
         Fields(t, s)', GoneRight',
         \A i \in 1 .. Len(sendQ'[s]) : sendQ'[s][i] = sessionId'[s]
  PROVE  Own'
<1>1. TypeOK /\ Own /\ Shapes /\ Control /\ indexStack \in Seq(Slots)
  BY DEF IInv, Own, TypeOK
<1>2. /\ s \in Slots /\ back[t] = "idle" /\ Len(owed[t]) = 1 /\ Deleting(t, s)
      /\ \A i \in 1 .. Len(indexStack) : indexStack[i] # s
      /\ pc[Acceptor] \in {"activate", "open"} => cur[Acceptor] # s
      /\ \A u \in Threads : Deleting(u, s) => u = t
      /\ References(s) = held[t][s]
      /\ \A x \in Slots : x # s => held[t][x] = 0
      /\ \/ /\ t = Acceptor /\ kind[t] = "accept" /\ cur[t] = s
         \/ /\ kind[t] = "none" /\ cur[t] = NoSlot /\ sid[t] = NoId
  BY DeleteFacts
<1>3. /\ \A u \in Threads \ {t} : kind[u] \in Serving \/ pc[u] = "open" => cur[u] # s
      /\ \A i \in 1 .. Len(port) : port[i].slot # s
      /\ \A g \in Ids : SlotOf(g) = s => recvIo[g] = 0 /\ sendIo[g] = 0
  BY <1>2, Alone
<1>4. held'[t][s] \in Nat /\ \A x \in Slots \ {s} : held'[t][x] = 0
  BY <1>2
<1>5. Shapes'
  <2>1. Shape(t)'
    <3>1. CASE kind[t] = "none"
      <4>1. held'[t][s] = 0 BY <3>1
      <4>2. \A x \in Slots : held'[t][x] = 0 BY <1>4, <4>1
      <4>3. cur[t] = NoSlot /\ sid[t] = NoId BY <1>2, <3>1
      <4>4. QED BY <1>2, <3>1, <4>2, <4>3, ShapeDelete
    <3>2. CASE kind[t] = "accept"
      <4>1. /\ t = Acceptor /\ cur'[t] = Head(owed'[t]) /\ cur'[t] \in Slots
            /\ kind'[t] = "accept" /\ back'[t] = "idle" /\ Len(owed'[t]) = 1
            /\ pc'[t] \in {"clear", "clearCount", "recycle"} /\ cur[t] = s
        BY <1>2, <3>2
      <4>2. Holds(t, IF pc[t] = "recycle" THEN 0 ELSE 1)'
        BY <1>4, <3>2, <4>1 DEF Holds
      <4>3. sid'[t] \in Ids /\ SlotOf(sid'[t]) = cur'[t]
        BY <1>1, <4>1 DEF Shapes, Shape
      <4>4. QED
        BY <4>1, <4>2, <4>3
        DEF Shape, InHandler, InSend, InCall, InUse, InDelete
    <3>3. QED BY <1>2, <3>1, <3>2
  <2>2. QED BY <1>1, <2>1, GoesShapes
<1>6. pc'[t] # "open" /\ kind'[t] \notin Serving
  BY <1>2 DEF InDelete, Serving
<1>7. Attached'
  <2>1. ASSUME NEW u \in Threads, kind'[u] \in Serving \/ pc'[u] = "open"
        PROVE  Has(cur[u], sid[u])'
    <3>1. u # t BY <1>6, <2>1
    <3>2. /\ kind[u] \in Serving \/ pc[u] = "open"
          /\ cur'[u] = cur[u] /\ sid'[u] = sid[u]
      BY <2>1, <3>1 DEF Goes
    <3>3. Has(cur[u], sid[u]) BY <1>1, <3>2 DEF Own, Attached
    <3>4. cur[u] # s BY <1>3, <3>1, <3>2
    <3>5. cur[u] \in Slots BY <1>1, <3>2 DEF Shapes, Shape, Control, Serving
    <3>6. QED BY <3>2, <3>3, <3>4, <3>5 DEF Has
  <2>2. ASSUME NEW i \in 1 .. Len(port')
        PROVE  port'[i].slot = SlotOf(port'[i].sid) /\ Has(port[i].slot, port[i].sid)'
    <3>1. Placed(port[i]) /\ port \in Seq(Completions) BY PlacedNow
    <3>2. port[i] \in Completions BY <3>1
    <3>3. port[i].slot \in Slots /\ port[i].slot # s BY <1>3, <3>2 DEF Completions
    <3>4. QED BY <3>1, <3>3 DEF Placed, Has
  <2>3. ASSUME NEW g \in Ids, recvIo'[g] > 0 \/ sendIo'[g] > 0
        PROVE  Has(SlotOf(g), g)'
    <3>1. Has(SlotOf(g), g) BY <2>3, PlacedNow
    <3>2. SlotOf(g) \in Slots BY ConstantFacts
    <3>3. recvIo[g] > 0 \/ sendIo[g] > 0 BY <2>3
    <3>4. SlotOf(g) # s
      <4>1. SUFFICES ASSUME SlotOf(g) = s PROVE FALSE OBVIOUS
      <4>2. recvIo[g] = 0 /\ sendIo[g] = 0 BY <1>3, <4>1
      <4>3. QED BY <3>3, <4>2
    <3>5. QED BY <3>1, <3>2, <3>4 DEF Has
  <2>4. QED BY <2>1, <2>2, <2>3 DEF Attached
<1>8. RefsExact'
  <2> SUFFICES ASSUME NEW x \in Slots
               PROVE  References(x)' = IF ioCount'[x] = DeleteFlag THEN 0 ELSE ioCount'[x]
    BY DEF RefsExact
  <2>1. held'[t][x] \in Nat BY <1>4
  <2>2. /\ References(x)' \in Nat /\ References(x) \in Nat /\ held[t][x] \in Nat
        /\ References(x)' + held[t][x] = References(x) + held'[t][x]
    BY <2>1, StillRefs
  <2>3. CASE x = s
    <3>1. References(x) = held[t][x] BY <1>2, <2>3
    <3>2. References(x)' = held'[t][x] BY ONLY <2>1, <2>2, <3>1
    <3>3. QED BY <2>3, <3>2
  <2>4. CASE x # s
    <3>1. held'[t][x] = held[t][x] /\ ioCount'[x] = ioCount[x] BY <2>4
    <3>2. References(x)' = References(x) BY ONLY <2>1, <2>2, <3>1
    <3>3. QED BY <3>1, <3>2, RefsKept
  <2>5. QED BY <2>3, <2>4
<1>9. \A u \in Threads : \A x : Deleting(u, x)' <=> Deleting(u, x)
  BY DEF Goes, Deleting
<1>10. Lifecycle'
  <2>1. IsInjective(indexStack)' BY <1>1 DEF Own, Lifecycle, IsInjective
  <2>2. ASSUME NEW i \in 1 .. Len(indexStack') PROVE Cleared(indexStack[i])'
    <3>1. indexStack[i] \in Slots /\ indexStack[i] # s BY <1>1, <1>2
    <3>2. Cleared(indexStack[i]) BY <1>1 DEF Own, Lifecycle
    <3>3. QED BY <3>1, <3>2 DEF Cleared
  <2>3. ASSUME pc'[Acceptor] \in {"activate", "open"}
        PROVE  /\ Acceptor # t /\ pc'[Acceptor] = pc[Acceptor]
               /\ cur'[Acceptor] = cur[Acceptor] /\ cur[Acceptor] \in Slots \ {s}
    <3>1. Acceptor # t BY <2>3 DEF InDelete
    <3>2. pc'[Acceptor] = pc[Acceptor] /\ cur'[Acceptor] = cur[Acceptor]
      BY <3>1, ConstantFacts DEF Goes
    <3>3. QED BY <1>1, <1>2, <2>3, <3>1, <3>2, ConstantFacts DEF Control
  <2>4. pc'[Acceptor] = "activate" =>
          /\ Cleared(cur[Acceptor])'
          /\ \A i \in 1 .. Len(indexStack') : indexStack'[i] # cur'[Acceptor]
    BY <1>1, <2>3 DEF Own, Lifecycle, Cleared
  <2>5. pc'[Acceptor] = "open" => ioCount'[cur'[Acceptor]] = 1
    BY <1>1, <2>3 DEF Own, Lifecycle
  <2>6. ASSUME NEW u \in Threads, NEW x \in Slots, Deleting(u, x)'
        PROVE  /\ \A i \in 1 .. Len(indexStack') : indexStack'[i] # x
               /\ pc'[Acceptor] \in {"activate", "open"} => cur'[Acceptor] # x
               /\ \A v \in Threads : Deleting(v, x)' => v = u
               /\ Fields(u, x)'
    <3>1. /\ Deleting(u, x)
          /\ \A i \in 1 .. Len(indexStack) : indexStack[i] # x
          /\ pc[Acceptor] \in {"activate", "open"} => cur[Acceptor] # x
          /\ \A v \in Threads : Deleting(v, x) => v = u
          /\ Fields(u, x)
      BY <1>1, <1>9, <2>6 DEF Own, Lifecycle
    <3>2. Fields(u, x)'
      <4>1. CASE u = t BY <2>6, <4>1 DEF Deleting
      <4>2. CASE u # t
        <5>1. x # s BY <1>2, <3>1, <4>2
        <5>2. pc'[u] = pc[u] /\ kind'[u] = kind[u] BY <4>2 DEF Goes
        <5>3. QED BY <3>1, <5>1, <5>2 DEF Fields, Has
      <4>3. QED BY <4>1, <4>2
    <3>3. QED BY <1>9, <2>3, <3>1, <3>2
  <2>7. QED BY <2>1, <2>2, <2>4, <2>5, <2>6 DEF Lifecycle
<1>11. IndexRight'
  <2>1. {u \in Threads : kind'[u] = "accept"} = {u \in Threads : kind[u] = "accept"}
    BY DEF Goes
  <2>2. QED BY <1>1, <2>1 DEF Own, IndexRight
<1>12. CallsRight'
  <2>1. Callers' = Callers BY DEF Callers, Goes, InCall, InDelete
  <2>2. At(port, Requests)' = At(port, Requests) BY DEF At, Requests
  <2>3. QED BY <1>1, <2>1, <2>2 DEF Own, CallsRight
<1>13. Sides'
  <2> SUFFICES ASSUME NEW x \in Slots
               PROVE  /\ RecvSide(x)' <= 1 /\ SendSide(x)' <= 1
                      /\ SendSide(x)' = 1 => sendFlag'[x]
    BY DEF Sides
  <2>1. /\ t \notin Receivers(x) /\ t \notin Receivers(x)'
        /\ t \notin Senders(x) /\ t \notin Senders(x)'
    BY <1>2 DEF Receivers, Senders, InDelete
  <2>2. /\ RecvSide(x)' \in Nat /\ SendSide(x)' \in Nat
        /\ RecvSide(x) \in Nat /\ SendSide(x) \in Nat
        /\ RecvSide(x)' + (IF t \in Receivers(x) THEN 1 ELSE 0)
             = RecvSide(x) + (IF t \in Receivers(x)' THEN 1 ELSE 0)
        /\ SendSide(x)' + (IF t \in Senders(x) THEN 1 ELSE 0)
             = SendSide(x) + (IF t \in Senders(x)' THEN 1 ELSE 0)
    BY StillSides
  <2>3. RecvSide(x)' = RecvSide(x) /\ SendSide(x)' = SendSide(x)
    BY ONLY <2>1, <2>2
  <2>4. RecvSide(x) <= 1 /\ SendSide(x) <= 1 /\ (SendSide(x) = 1 => sendFlag[x])
    BY <1>1 DEF Own, Sides
  <2>5. CASE x = s
    <3>1. SendSide(s) = 0 BY <1>2, <2>1, <2>5, AloneSides
    <3>2. QED BY <2>3, <2>4, <2>5, <3>1
  <2>6. CASE x # s BY <2>3, <2>4, <2>6
  <2>7. QED BY <2>5, <2>6
<1>14. QueueRight'
  <2>1. /\ \A x \in Slots : \A i \in 1 .. Len(sendQ[x]) : sendQ[x][i] = sessionId[x]
        /\ \A p \in sentTo : p[1] = p[2]
    BY <1>1 DEF Own, QueueRight
  <2>2. \A x \in Slots : \A i \in 1 .. Len(sendQ'[x]) : sendQ'[x][i] = sessionId'[x]
    BY <1>2, <2>1
  <2>3. QED BY <2>1, <2>2 DEF QueueRight
<1>15. QED
  BY <1>5, <1>7, <1>8, <1>10, <1>11, <1>12, <1>13, <1>14 DEF Own

LEMMA StaysControl ==
  ASSUME IInv, NEW t \in Threads, pc[t] \in InDelete, NEW l \in InDelete,
         pc' = [pc EXCEPT ![t] = l],
         UNCHANGED <<cur, kind, sid, op, tgt, owed, back>>,
         held' = [held EXCEPT ![t] = held'[t]], held'[t] \in [Slots -> Int]
  PROVE  /\ Moves(t) /\ LocalsOf(t)' /\ ControlOf(t)'
         /\ pc'[t] = l /\ owed'[t] = owed[t] /\ back'[t] = back[t]
         /\ cur'[t] = cur[t] /\ kind'[t] = kind[t] /\ sid'[t] = sid[t]
         /\ Head(owed[t]) \in Slots
<1>1. LocalTypes /\ LocalsOf(t) /\ ControlOf(t) BY Unfold
<1>2. pc'[t] = l /\ pc' = [pc EXCEPT ![t] = pc'[t]] BY <1>1 DEF LocalTypes
<1>3. Moves(t) BY <1>1, <1>2 DEF Moves, LocalTypes
<1>4. LocalsOf(t)' BY <1>1, <1>2 DEF LocalsOf, Labels, InDelete
<1>5. ControlOf(t)'
  BY <1>1, <1>2 DEF ControlOf, InHandler, InSend, InCall, InUse, InDelete
<1>6. Head(owed[t]) \in Slots BY <1>1, RestOwed DEF LocalsOf, ControlOf
<1>7. QED BY <1>2, <1>3, <1>4, <1>5, <1>6

LEMMA GoneKept ==
  ASSUME IInv, ~foreign, NEW t \in Threads, Goes(t), pc[t] # "clear",
         UNCHANGED <<sessionId, gone, idGen, announced>>,
         kind'[Acceptor] = "accept" <=> kind[Acceptor] = "accept",
         kind[Acceptor] = "accept" =>
           sid'[Acceptor] = sid[Acceptor] /\ cur'[Acceptor] = cur[Acceptor]
  PROVE  GoneRight'
<1>1. GoneRight BY DEF IInv, Own
<1>2. \A u \in Threads : \A x : Deleting(u, x) /\ pc[u] = "clear"
        => Deleting(u, x)' /\ pc'[u] = "clear"
  BY DEF Deleting, Goes
<1>3. QED BY <1>1, <1>2 DEF GoneRight

LEMMA DeleteCasStep ==
  ASSUME IInv, NEW t \in Threads, DeleteCas(t)
  PROVE  IInv'
<1>1. /\ TypeOK /\ LocalTypes /\ GlobalTypes /\ LocalsOf(t)
      /\ Control /\ ControlOf(t) /\ (~foreign => Own /\ Shape(t))
  BY Unfold
<1> DEFINE s == Head(owed[t])
           wins == /\ ioCount' = [ioCount EXCEPT ![s] = DeleteFlag]
                   /\ pc' = [pc EXCEPT ![t] = "teardown"]
                   /\ UNCHANGED <<cur, kind, sid, owed, back>>
<1>2. /\ pc[t] = "deleteCas"
      /\ IF ioCount[s] = 0 THEN wins ELSE Return(t) /\ ioCount' = ioCount
      /\ UNCHANGED <<sessionId, socket, sendFlag, connected, sendQ, indexStack,
           idGen, sessionCount, active, port, conn, recvIo, sendIo, msgs, calls,
           foreign, announced, gone, sentTo, held, op, tgt>>
  BY DEF DeleteCas, Goto, fieldVars, poolVars, outerVars, kernelVars, boundVars,
     histVars, ctxVars, callVars, decVars
<1>3. held' = [held EXCEPT ![t] = held'[t]] /\ held'[t] \in [Slots -> Int]
      /\ held'[t] = held[t]
  BY <1>1, <1>2 DEF LocalTypes
<1>4. pc[t] \in InDelete /\ pc[t] \in {"dec"} \cup InDelete BY <1>2 DEF InDelete
<1>5. s \in Slots BY <1>1, <1>4, RestOwed DEF LocalsOf, ControlOf
<1> HIDE DEF s
<1>6. /\ Moves(t) /\ LocalsOf(t)' /\ ControlOf(t)' /\ ioCount' \in [Slots -> Int]
  <2>1. CASE ioCount[s] = 0
    <3>1. PICK l \in InDelete : l = "teardown" BY DEF InDelete
    <3>2. pc' = [pc EXCEPT ![t] = l] BY <1>2, <2>1, <3>1
    <3>3. UNCHANGED <<cur, kind, sid, op, tgt, owed, back>> BY <1>2, <2>1
    <3>4. ioCount' \in [Slots -> Int]
      BY <1>1, <1>2, <1>5, <2>1 DEF GlobalTypes, DeleteFlag
    <3>5. QED BY <1>3, <1>4, <3>2, <3>3, <3>4, StaysControl
  <2>2. CASE ioCount[s] # 0
    <3>1. Return(t) /\ ioCount' = ioCount /\ op' = op /\ tgt' = tgt BY <1>2, <2>2
    <3>2. QED BY <1>1, <1>3, <1>4, <3>1, ReturnControl DEF GlobalTypes
  <2>3. QED BY <2>1, <2>2
<1>7. GlobalTypes' BY <1>1, <1>2, <1>6 DEF GlobalTypes
<1>8. TypeOK' /\ Goes(t) /\ ((~foreign => Own') => IInv')
  BY <1>2, <1>6, <1>7, Fold
<1>9. ASSUME ~foreign PROVE Own'
  <2>1. /\ Fields(t, s)
        /\ \/ kind[t] = "accept" /\ pc[t] \in {"clear", "clearCount", "recycle"}
           \/ kind[t] = "none" /\ held[t][s] = 0
    BY <1>4, <1>9, DeleteFacts DEF s
  <2>2. ioCount[s] = 0 BY <1>2, <2>1 DEF Fields
  <2>3. wins BY <1>2, <2>2
  <2>4. /\ pc'[t] = "teardown" /\ owed'[t] = owed[t] /\ back'[t] = back[t]
        /\ cur'[t] = cur[t] /\ kind'[t] = kind[t] /\ sid'[t] = sid[t]
    BY <1>1, <2>3 DEF LocalTypes
  <2>5. kind[t] = "none" /\ held'[t][s] = 0 BY <1>2, <1>3, <2>1
  <2>6. ioCount'[s] = DeleteFlag /\ \A x \in Slots \ {s} : ioCount'[x] = ioCount[x]
    BY <1>1, <1>5, <2>3 DEF GlobalTypes
  <2>7. Fields(t, s)'
    <3>1. \E g \in Ids : SlotOf(g) = s /\ Has(s, g)
      BY <1>2, <2>1 DEF Fields
    <3>2. s' = s BY <2>4 DEF s
    <3>3. \E g \in Ids : SlotOf(g) = s' /\ Has(s, g)' BY <1>2, <3>1, <3>2 DEF Has
    <3>4. QED BY <2>4, <2>5, <2>6, <3>2, <3>3 DEF Fields
  <2>8. pc'[t] \in InDelete BY <2>4 DEF InDelete
  <2>9. GoneRight' BY <1>2, <1>8, <1>9, <2>3, GoneKept
  <2>10. \A i \in 1 .. Len(sendQ'[s]) : sendQ'[s][i] = sessionId'[s]
    BY <1>1, <1>2, <1>5, <1>9 DEF Own, QueueRight
  <2>11. QED
    BY <1>2, <1>3, <1>4, <1>8, <1>9, <2>4, <2>5, <2>6, <2>7, <2>8, <2>9, <2>10,
       DeleteMove DEF s
<1>10. QED BY <1>8, <1>9

LEMMA DeleteCheckStep ==
  ASSUME IInv, NEW t \in Threads, DeleteCheck(t)
  PROVE  IInv'
<1>1. /\ TypeOK /\ LocalTypes /\ GlobalTypes /\ LocalsOf(t)
      /\ Control /\ ControlOf(t) /\ (~foreign => Own /\ Shape(t))
  BY Unfold
<1> DEFINE goes == pc' = [pc EXCEPT ![t] = "deleteCas"]
                     /\ UNCHANGED <<cur, kind, sid, owed, back>>
<1>2. /\ pc[t] = "delete"
      /\ IF sessionId[Head(owed[t])] = NoId THEN Return(t) ELSE goes
      /\ UNCHANGED <<sessionId, socket, ioCount, sendFlag, connected, sendQ,
           indexStack, idGen, sessionCount, active, port, conn, recvIo, sendIo,
           msgs, calls, foreign, announced, gone, sentTo, held, op, tgt>>
  BY DEF DeleteCheck, Goto, globalVars, fieldVars, poolVars, outerVars, kernelVars,
     boundVars, histVars, ctxVars, callVars, decVars
<1>3. held' = [held EXCEPT ![t] = held'[t]] /\ held'[t] \in [Slots -> Int]
      /\ held'[t] = held[t]
  BY <1>1, <1>2 DEF LocalTypes
<1>4. pc[t] \in InDelete /\ pc[t] \in {"dec"} \cup InDelete BY <1>2 DEF InDelete
<1>5. PICK s \in Slots : s = Head(owed[t])
  BY <1>1, <1>4, RestOwed DEF LocalsOf, ControlOf
<1>6. Moves(t) /\ LocalsOf(t)' /\ ControlOf(t)'
  <2>1. CASE goes
    <3>1. PICK l \in InDelete : l = "deleteCas" BY DEF InDelete
    <3>2. pc' = [pc EXCEPT ![t] = l] /\ UNCHANGED <<cur, kind, sid, op, tgt, owed, back>>
      BY <1>2, <2>1, <3>1
    <3>3. QED BY <1>3, <1>4, <3>2, StaysControl
  <2>2. CASE Return(t) BY <1>2, <1>3, <1>4, <2>2, ReturnControl
  <2>3. QED BY <1>2, <2>1, <2>2
<1>7. GlobalTypes' BY <1>1, <1>2 DEF GlobalTypes
<1>8. TypeOK' /\ Goes(t) /\ ((~foreign => Own') => IInv')
  BY <1>2, <1>6, <1>7, Fold
<1>9. ASSUME ~foreign PROVE Own'
  <2>1. /\ Fields(t, s) /\ References(s) = held[t][s]
        /\ \/ kind[t] = "accept" /\ pc[t] \in {"clear", "clearCount", "recycle"}
           \/ kind[t] = "none" /\ held[t][s] = 0
    BY <1>4, <1>5, <1>9, DeleteFacts
  <2>2. PICK g \in Ids : SlotOf(g) = s /\ Has(s, g) BY <1>2, <2>1 DEF Fields
  <2>3. goes BY <1>2, <1>5, <2>2, ConstantFacts DEF Has
  <2>4. /\ pc'[t] = "deleteCas" /\ owed'[t] = owed[t] /\ back'[t] = back[t]
        /\ cur'[t] = cur[t] /\ kind'[t] = kind[t] /\ sid'[t] = sid[t]
    BY <1>1, <2>3 DEF LocalTypes
  <2>5. kind[t] = "none" /\ held'[t][s] = 0 /\ ioCount[s] = 0
    BY <1>2, <1>3, <2>1 DEF Fields
  <2>6. Fields(t, s)'
    BY <1>2, <2>2, <2>4, <2>5 DEF Fields, Has
  <2>7. pc'[t] \in InDelete BY <2>4 DEF InDelete
  <2>8. GoneRight' BY <1>2, <1>8, <1>9, <2>3, GoneKept
  <2>9. \A i \in 1 .. Len(sendQ'[s]) : sendQ'[s][i] = sessionId'[s]
    BY <1>1, <1>2, <1>5, <1>9 DEF Own, QueueRight
  <2>10. ioCount'[s] # DeleteFlag /\ ioCount'[s] = 0 BY <1>2, <2>5 DEF DeleteFlag
  <2>11. QED
    BY <1>2, <1>3, <1>4, <1>5, <1>8, <1>9, <2>4, <2>5, <2>6, <2>7, <2>8, <2>9,
       <2>10, DeleteMove
<1>10. QED BY <1>8, <1>9

(* Closing the socket finds nothing outstanding: that would be a reference. *)
LEMMA TeardownStep ==
  ASSUME IInv, NEW t \in Threads, Teardown(t)
  PROVE  IInv'
<1>1. /\ TypeOK /\ LocalTypes /\ GlobalTypes /\ LocalsOf(t)
      /\ Control /\ ControlOf(t) /\ (~foreign => Own /\ Shape(t))
  BY Unfold
<1>2. /\ pc[t] = "teardown" /\ pc' = [pc EXCEPT ![t] = "clear"]
      /\ UNCHANGED <<sessionId, socket, ioCount, sendFlag, connected, sendQ,
           indexStack, idGen, sessionCount, msgs, calls, foreign, announced,
           sentTo, held, op, tgt, cur, kind, sid, owed, back>>
  BY DEF Teardown, Goto, fieldVars, boundVars, localVars, ctxVars, callVars, decVars
<1>3. held' = [held EXCEPT ![t] = held'[t]] /\ held'[t] \in [Slots -> Int]
      /\ held'[t] = held[t]
  BY <1>1, <1>2 DEF LocalTypes
<1>4. pc[t] \in InDelete BY <1>2 DEF InDelete
<1>5. PICK s \in Slots : s = Head(owed[t])
  BY <1>1, <1>4, RestOwed DEF LocalsOf, ControlOf
<1>6. PICK g \in Ids \cup {NoId}, k \in Ids \cup {NoId} :
        g = sessionId[s] /\ k = socket[s]
  BY <1>1 DEF GlobalTypes
<1>7. /\ gone' = IF g = NoId THEN gone ELSE [gone EXCEPT ![g] = gone[g] + 1]
      /\ active' = active \ {g}
      /\ IF k = NoId THEN UNCHANGED <<conn, port, recvIo, sendIo>>
         ELSE conn' = [conn EXCEPT ![k] = "closed"] /\ AbortIo(k)
  BY <1>5, <1>6 DEF Teardown
<1>8. /\ Moves(t) /\ LocalsOf(t)' /\ ControlOf(t)'
      /\ pc'[t] = "clear" /\ owed'[t] = owed[t] /\ back'[t] = back[t]
      /\ cur'[t] = cur[t] /\ kind'[t] = kind[t] /\ sid'[t] = sid[t]
  <2>1. PICK l \in InDelete : l = "clear" BY DEF InDelete
  <2>2. pc' = [pc EXCEPT ![t] = l] BY <1>2, <2>1
  <2>3. QED BY <1>2, <1>3, <1>4, <2>1, <2>2, StaysControl
<1>9. GlobalTypes'
  <2>1. gone' \in [Ids -> Nat] BY <1>1, <1>6, <1>7 DEF GlobalTypes
  <2>2. active' \subseteq Ids \cup {NoId} BY <1>1, <1>7 DEF GlobalTypes
  <2>3. /\ recvIo' \in [Ids -> Nat] /\ sendIo' \in [Ids -> Nat]
        /\ port' \in Seq(Completions)
        /\ conn' \in [Ids -> {"none", "open", "peerClosed", "closed"}]
    <3>1. CASE k = NoId BY <1>1, <1>7, <3>1 DEF GlobalTypes
    <3>2. CASE k \in Ids
      <4>1. AbortIo(k) /\ conn' = [conn EXCEPT ![k] = "closed"]
        BY <1>7, <3>2, ConstantFacts
      <4>2. QED BY <1>1, <3>2, <4>1, AbortMove DEF GlobalTypes
    <3>3. QED BY <1>6, <3>1, <3>2
  <2>4. QED BY <1>1, <1>2, <2>1, <2>2, <2>3 DEF GlobalTypes
<1>10. TypeOK' /\ Goes(t) /\ ((~foreign => Own') => IInv')
  BY <1>2, <1>8, <1>9, Fold
<1>11. ASSUME ~foreign PROVE Own'
  <2>1. /\ Fields(t, s) /\ References(s) = held[t][s]
        /\ kind[t] = "none" /\ held[t][s] = 0 /\ Deleting(t, s)
        /\ \A u \in Threads : Deleting(u, s) => u = t
    BY <1>2, <1>4, <1>5, <1>11, DeleteFacts
  <2>2. g \in Ids /\ k = g /\ SlotOf(g) = s /\ Has(s, g) /\ ioCount[s] = DeleteFlag
    BY <1>2, <1>6, <2>1 DEF Fields, Has
  <2>3. recvIo[g] = 0 /\ sendIo[g] = 0 BY <1>11, <2>1, <2>2, Alone
  <2>4. UNCHANGED <<port, recvIo, sendIo>>
    <3>1. AbortIo(g) BY <1>7, <2>2, ConstantFacts
    <3>2. recvIo \in [Ids -> Nat] /\ sendIo \in [Ids -> Nat] /\ port \in Seq(Completions)
      BY <1>1 DEF GlobalTypes
    <3>3. recvIo' = recvIo /\ sendIo' = sendIo
      BY <2>2, <2>3, <3>1, <3>2 DEF AbortIo
    <3>4. Aborted(g) \in Seq(Completions) /\ Len(Aborted(g)) = 0
      <4>1. TypeOK /\ g \in Ids BY <1>1, <2>2
      <4>2. Aborted(g) \in Seq(Completions) /\ Len(Aborted(g)) = recvIo[g] + sendIo[g]
        BY ONLY <4>1, AbortedFacts
      <4>3. QED BY <2>3, <4>2
    <3>5. port \o Aborted(g) = port BY <3>2, <3>4
    <3>6. QED BY <3>1, <3>3, <3>5 DEF AbortIo
  <2>5. Fields(t, s)' BY <1>2, <1>8, <2>1, <2>2 DEF Fields, Has
  <2>6. GoneRight'
    <3>1. GoneRight BY <1>1, <1>11 DEF Own
    <3>2. gone' = [gone EXCEPT ![g] = gone[g] + 1] /\ gone \in [Ids -> Nat]
      BY <1>1, <1>7, <2>2, ConstantFacts DEF GlobalTypes
    <3>3. sessionId[SlotOf(g)] = g BY <2>2 DEF Has
    <3>4. ~ \E u \in Threads : Deleting(u, s) /\ pc[u] = "clear"
      BY <1>2, <2>1
    <3>5. gone[g] = 0 /\ ~(g[2] > idGen) BY <2>2, <3>1, <3>3, <3>4 DEF GoneRight
    <3>6. kind[Acceptor] = "accept" => cur[Acceptor] # s
      <4>1. SUFFICES ASSUME kind[Acceptor] = "accept", cur[Acceptor] = s PROVE FALSE
        OBVIOUS
      <4>2. Acceptor # t /\ Acceptor \in Threads BY <2>1, <4>1, ConstantFacts
      <4>3. Shape(Acceptor) BY <1>1, <1>11, <4>2 DEF Own, Shapes
      <4>4. /\ pc[Acceptor] \in {"activate", "open"}
                 \/ (pc[Acceptor] \in InDelete /\ Head(owed[Acceptor]) = s)
        BY <4>1, <4>3, ConstantFacts, <1>1, <4>2
        DEF Shape, InHandler, InSend, InCall, InUse, Serving, LocalTypes, Labels, InDelete
      <4>5. pc[Acceptor] \in {"activate", "open"} => cur[Acceptor] # s
        BY <1>4, <1>5, <1>11, DeleteFacts
      <4>6. QED BY <2>1, <4>1, <4>2, <4>4, <4>5 DEF Deleting
    <3>7. g \in announced BY <2>2, <3>1, <3>3, <3>6 DEF GoneRight
    <3>8. gone'[g] = 1 /\ \A h \in Ids \ {g} : gone'[h] = gone[h]
      BY <2>2, <3>2, <3>5
    <3>9. \A u \in Threads : \A x : Deleting(u, x) /\ pc[u] = "clear"
             => Deleting(u, x)' /\ pc'[u] = "clear"
      BY <1>2, <1>8, <1>10 DEF Deleting, Goes
    <3>10. Deleting(t, s)' /\ pc'[t] = "clear" BY <1>8, <2>1 DEF Deleting, InDelete
    <3>11. kind[Acceptor] = "accept" => sid[Acceptor] # g
      <4>1. SUFFICES ASSUME kind[Acceptor] = "accept", sid[Acceptor] = g PROVE FALSE
        OBVIOUS
      <4>2. Shape(Acceptor) BY <1>1, <1>11, ConstantFacts DEF Own, Shapes
      <4>3. SlotOf(sid[Acceptor]) = cur[Acceptor] BY <4>1, <4>2 DEF Shape
      <4>4. QED BY <2>2, <3>6, <4>1, <4>3
    <3>12. /\ \A h \in Ids :
                /\ h[2] > idGen' => gone'[h] = 0 /\ sessionId'[SlotOf(h)] # h
                /\ gone'[h] <= 1
                /\ gone'[h] = 1 => h \in announced'
                /\ sessionId'[SlotOf(h)] = h =>
                     /\ \/ gone'[h] = 0
                        \/ \E u \in Threads : Deleting(u, SlotOf(h))' /\ pc'[u] = "clear"
                     /\ h \in announced' \/ (kind'[Acceptor] = "accept"
                                              /\ cur'[Acceptor] = SlotOf(h))
      <4> SUFFICES ASSUME NEW h \in Ids
                   PROVE  /\ h[2] > idGen' => gone'[h] = 0 /\ sessionId'[SlotOf(h)] # h
                          /\ gone'[h] <= 1
                          /\ gone'[h] = 1 => h \in announced'
                          /\ sessionId'[SlotOf(h)] = h =>
                               /\ \/ gone'[h] = 0
                                  \/ \E u \in Threads :
                                       Deleting(u, SlotOf(h))' /\ pc'[u] = "clear"
                               /\ h \in announced' \/ (kind'[Acceptor] = "accept"
                                                        /\ cur'[Acceptor] = SlotOf(h))
        OBVIOUS
      <4>1. CASE h = g BY <1>2, <2>2, <3>5, <3>7, <3>8, <3>10, <4>1
      <4>2. CASE h # g BY <1>2, <3>1, <3>8, <3>9, <4>2 DEF GoneRight
      <4>3. QED BY <4>1, <4>2
    <3>13. kind'[Acceptor] = "accept" =>
             gone'[sid'[Acceptor]] = 0 /\ sid'[Acceptor][2] <= idGen'
      <4>1. SUFFICES ASSUME kind[Acceptor] = "accept"
                     PROVE  gone'[sid[Acceptor]] = 0 /\ sid[Acceptor][2] <= idGen
        BY <1>2
      <4>2. sid[Acceptor] \in Ids
        BY <1>1, <1>11, <4>1, ConstantFacts DEF Own, Shapes, Shape
      <4>3. QED BY <3>1, <3>8, <3>11, <4>1, <4>2 DEF GoneRight
    <3>14. QED BY <3>12, <3>13 DEF GoneRight
  <2>7. \A i \in 1 .. Len(sendQ'[s]) : sendQ'[s][i] = sessionId'[s]
    BY <1>1, <1>2, <1>5, <1>11 DEF Own, QueueRight
  <2>8. /\ pc'[t] \in InDelete /\ held'[t][s] = 0 /\ ioCount'[s] = DeleteFlag
    BY <1>2, <1>3, <1>8, <2>1, <2>2 DEF InDelete
  <2>9. QED
    BY <1>2, <1>3, <1>4, <1>5, <1>8, <1>10, <1>11, <2>1, <2>4, <2>5, <2>6, <2>7,
       <2>8, DeleteMove
<1>12. QED BY <1>10, <1>11

LEMMA ClearFieldsStep ==
  ASSUME IInv, NEW t \in Threads, ClearFields(t)
  PROVE  IInv'
<1>1. /\ TypeOK /\ LocalTypes /\ GlobalTypes /\ LocalsOf(t)
      /\ Control /\ ControlOf(t) /\ (~foreign => Own /\ Shape(t))
  BY Unfold
<1>2. /\ pc[t] = "clear" /\ pc' = [pc EXCEPT ![t] = "clearCount"]
      /\ UNCHANGED <<ioCount, sendFlag, connected, indexStack, idGen, sessionCount,
           active, port, conn, recvIo, sendIo, msgs, calls, foreign, announced,
           gone, sentTo, held, op, tgt, cur, kind, sid, owed, back>>
  BY DEF ClearFields, Goto, poolVars, outerVars, kernelVars, boundVars, histVars,
     localVars, ctxVars, callVars, decVars
<1>3. held' = [held EXCEPT ![t] = held'[t]] /\ held'[t] \in [Slots -> Int]
      /\ held'[t] = held[t]
  BY <1>1, <1>2 DEF LocalTypes
<1>4. pc[t] \in InDelete BY <1>2 DEF InDelete
<1>5. PICK s \in Slots : s = Head(owed[t])
  BY <1>1, <1>4, RestOwed DEF LocalsOf, ControlOf
<1>6. /\ sessionId' = [sessionId EXCEPT ![s] = NoId]
      /\ socket' = [socket EXCEPT ![s] = NoId]
      /\ sendQ' = [sendQ EXCEPT ![s] = <<>>]
  BY <1>5 DEF ClearFields
<1>7. /\ sessionId'[s] = NoId /\ socket'[s] = NoId /\ sendQ'[s] = <<>>
      /\ \A x \in Slots \ {s} : /\ sessionId'[x] = sessionId[x]
                                /\ socket'[x] = socket[x] /\ sendQ'[x] = sendQ[x]
      /\ sessionId' \in [Slots -> Ids \cup {NoId}]
      /\ socket' \in [Slots -> Ids \cup {NoId}]
      /\ sendQ' \in [Slots -> Seq(Ids)]
  BY <1>1, <1>6, NoneOwed DEF GlobalTypes
<1>8. /\ Moves(t) /\ LocalsOf(t)' /\ ControlOf(t)'
      /\ pc'[t] = "clearCount" /\ owed'[t] = owed[t] /\ back'[t] = back[t]
      /\ cur'[t] = cur[t] /\ kind'[t] = kind[t] /\ sid'[t] = sid[t]
  <2>1. PICK l \in InDelete : l = "clearCount" BY DEF InDelete
  <2>2. pc' = [pc EXCEPT ![t] = l] BY <1>2, <2>1
  <2>3. QED BY <1>2, <1>3, <1>4, <2>1, <2>2, StaysControl
<1>9. GlobalTypes' BY <1>1, <1>2, <1>7 DEF GlobalTypes
<1>10. TypeOK' /\ Goes(t) /\ ((~foreign => Own') => IInv')
  BY <1>2, <1>8, <1>9, Fold
<1>11. ASSUME ~foreign PROVE Own'
  <2>1. /\ Fields(t, s) /\ References(s) = held[t][s] /\ Deleting(t, s)
        /\ \/ kind[t] = "accept" /\ held[t][s] = 1
           \/ kind[t] = "none" /\ held[t][s] = 0
    BY <1>2, <1>4, <1>5, <1>11, DeleteFacts
  <2>2. ioCount[s] = IF kind[t] = "accept" THEN 1 ELSE DeleteFlag
    BY <1>2, <2>1 DEF Fields
  <2>3. Fields(t, s)' BY <1>2, <1>7, <1>8, <2>2 DEF Fields, Has
  <2>4. /\ held'[t][s] = IF kind[t] = "accept" /\ pc'[t] # "recycle" THEN 1 ELSE 0
        /\ held'[t][s] = IF ioCount'[s] = DeleteFlag THEN 0 ELSE ioCount'[s]
    BY <1>2, <1>3, <1>8, <2>1, <2>2 DEF DeleteFlag
  <2>5. GoneRight'
    <3>1. GoneRight BY <1>1, <1>11 DEF Own
    <3>2. \A h \in Ids : sessionId'[SlotOf(h)] = h =>
            sessionId[SlotOf(h)] = h /\ SlotOf(h) # s
      BY <1>7, ConstantFacts
    <3>3. \A u \in Threads : \A x : Deleting(u, x) /\ pc[u] = "clear" /\ x # s
             => Deleting(u, x)' /\ pc'[u] = "clear"
      BY <1>2, <1>5, <1>10 DEF Deleting, Goes
    <3>4. QED BY <1>2, <3>1, <3>2, <3>3 DEF GoneRight
  <2>6. \A i \in 1 .. Len(sendQ'[s]) : sendQ'[s][i] = sessionId'[s]
    <3>1. Len(sendQ'[s]) = 0 BY <1>7, NoneOwed
    <3>2. QED BY <3>1
  <2>7. /\ pc'[t] \in InDelete /\ pc'[t] \in {"clear", "clearCount", "recycle"}
    BY <1>8 DEF InDelete
  <2>8. QED
    BY <1>2, <1>3, <1>4, <1>5, <1>7, <1>8, <1>10, <1>11, <2>3, <2>4, <2>5, <2>6,
       <2>7, DeleteMove
<1>12. QED BY <1>10, <1>11

LEMMA ClearCountStep ==
  ASSUME IInv, NEW t \in Threads, ClearCount(t)
  PROVE  IInv'
<1>1. /\ TypeOK /\ LocalTypes /\ GlobalTypes /\ LocalsOf(t)
      /\ Control /\ ControlOf(t) /\ (~foreign => Own /\ Shape(t))
  BY Unfold
<1>2. /\ pc[t] = "clearCount" /\ pc' = [pc EXCEPT ![t] = "recycle"]
      /\ UNCHANGED <<sessionId, socket, connected, sendQ, indexStack, idGen,
           sessionCount, active, port, conn, recvIo, sendIo, msgs, calls, foreign,
           announced, gone, sentTo, op, tgt, cur, kind, sid, owed, back>>
  BY DEF ClearCount, Goto, poolVars, outerVars, kernelVars, boundVars, histVars,
     localVars, ctxVars, callVars, decVars
<1>3. pc[t] \in InDelete BY <1>2 DEF InDelete
<1>4. PICK s \in Slots : s = Head(owed[t])
  BY <1>1, <1>3, RestOwed DEF LocalsOf, ControlOf
<1>5. /\ ioCount' = [ioCount EXCEPT ![s] = 0]
      /\ sendFlag' = [sendFlag EXCEPT ![s] = TRUE]
      /\ held' = IF kind[t] = "accept" THEN [held EXCEPT ![t][s] = 0] ELSE held
  BY <1>4 DEF ClearCount
<1>6. /\ held' = [held EXCEPT ![t] = held'[t]] /\ held'[t] \in [Slots -> Int]
      /\ \A x \in Slots \ {s} : held'[t][x] = held[t][x]
      /\ held'[t][s] = IF kind[t] = "accept" THEN 0 ELSE held[t][s]
  <2>1. CASE kind[t] = "accept"
    <3>1. held' = [held EXCEPT ![t] = [held[t] EXCEPT ![s] = 0]]
          /\ held \in [Threads -> [Slots -> Int]] /\ held[t] \in [Slots -> Int]
      BY <1>1, <1>5, <2>1 DEF LocalTypes
    <3>2. held'[t] = [held[t] EXCEPT ![s] = 0] BY <3>1
    <3>3. QED BY <2>1, <3>1, <3>2
  <2>2. CASE kind[t] # "accept" BY <1>1, <1>5, <2>2 DEF LocalTypes
  <2>3. QED BY <2>1, <2>2
<1>7. /\ ioCount'[s] = 0 /\ ioCount' \in [Slots -> Int] /\ sendFlag' \in [Slots -> BOOLEAN]
      /\ \A x \in Slots \ {s} : ioCount'[x] = ioCount[x] /\ sendFlag'[x] = sendFlag[x]
  BY <1>1, <1>5 DEF GlobalTypes
<1>8. /\ Moves(t) /\ LocalsOf(t)' /\ ControlOf(t)'
      /\ pc'[t] = "recycle" /\ owed'[t] = owed[t] /\ back'[t] = back[t]
      /\ cur'[t] = cur[t] /\ kind'[t] = kind[t] /\ sid'[t] = sid[t]
  <2>1. PICK l \in InDelete : l = "recycle" BY DEF InDelete
  <2>2. pc' = [pc EXCEPT ![t] = l] BY <1>2, <2>1
  <2>3. QED BY <1>2, <1>3, <1>6, <2>1, <2>2, StaysControl
<1>9. GlobalTypes' BY <1>1, <1>2, <1>7 DEF GlobalTypes
<1>10. TypeOK' /\ Goes(t) /\ ((~foreign => Own') => IInv')
  BY <1>2, <1>8, <1>9, Fold
<1>11. ASSUME ~foreign PROVE Own'
  <2>1. /\ Fields(t, s)
        /\ \/ kind[t] = "accept"
           \/ kind[t] = "none" /\ held[t][s] = 0
    BY <1>3, <1>4, <1>11, DeleteFacts
  <2>2. Has(s, NoId) /\ sendQ[s] = <<>> BY <1>2, <2>1 DEF Fields
  <2>3. Fields(t, s)' BY <1>2, <1>7, <1>8, <2>2 DEF Fields, Has
  <2>4. held'[t][s] = 0 BY <1>6, <2>1
  <2>5. GoneRight' BY <1>2, <1>10, <1>11, GoneKept
  <2>6. \A i \in 1 .. Len(sendQ'[s]) : sendQ'[s][i] = sessionId'[s]
    <3>1. Len(sendQ'[s]) = 0 BY <1>2, <2>2, NoneOwed
    <3>2. QED BY <3>1
  <2>7. /\ pc'[t] \in InDelete /\ pc'[t] \in {"clear", "clearCount", "recycle"}
    BY <1>8 DEF InDelete
  <2>8. /\ held'[t][s] = IF kind[t] = "accept" /\ pc'[t] # "recycle" THEN 1 ELSE 0
        /\ held'[t][s] = IF ioCount'[s] = DeleteFlag THEN 0 ELSE ioCount'[s]
    BY <1>7, <1>8, <2>4 DEF DeleteFlag
  <2>9. QED
    BY <1>2, <1>3, <1>4, <1>6, <1>7, <1>8, <1>10, <1>11, <2>3, <2>5, <2>6, <2>7,
       <2>8, DeleteMove
<1>12. QED BY <1>10, <1>11

LEMMA SidesDrop ==
  ASSUME IInv, ~foreign, TypeOK', NEW t \in Threads, Goes(t),
         UNCHANGED <<port, recvIo, sendIo, sendFlag>>,
         \A x \in Slots : t \in Receivers(x)' => t \in Receivers(x),
         \A x \in Slots : t \in Senders(x)' => t \in Senders(x)
  PROVE  Sides'
<1> SUFFICES ASSUME NEW x \in Slots
             PROVE  /\ RecvSide(x)' <= 1 /\ SendSide(x)' <= 1
                    /\ SendSide(x)' = 1 => sendFlag'[x]
  BY DEF Sides
<1>1. /\ RecvSide(x)' \in Nat /\ SendSide(x)' \in Nat
      /\ RecvSide(x) \in Nat /\ SendSide(x) \in Nat
      /\ RecvSide(x)' + (IF t \in Receivers(x) THEN 1 ELSE 0)
           = RecvSide(x) + (IF t \in Receivers(x)' THEN 1 ELSE 0)
      /\ SendSide(x)' + (IF t \in Senders(x) THEN 1 ELSE 0)
           = SendSide(x) + (IF t \in Senders(x)' THEN 1 ELSE 0)
  BY StillSides
<1>2. /\ t \in Receivers(x)' => t \in Receivers(x)
      /\ t \in Senders(x)' => t \in Senders(x)
  OBVIOUS
<1>3. RecvSide(x)' <= RecvSide(x) /\ SendSide(x)' <= SendSide(x)
  BY ONLY <1>1, <1>2
<1>4. RecvSide(x) <= 1 /\ SendSide(x) <= 1 /\ (SendSide(x) = 1 => sendFlag[x])
  BY DEF IInv, Own, Sides
<1>5. /\ RecvSide(x)' <= 1 /\ SendSide(x)' <= 1
      /\ SendSide(x)' = 1 => SendSide(x) = 1
  BY ONLY <1>1, <1>3, <1>4
<1>6. QED BY <1>4, <1>5

(* A thread that has brought the counter of its slot to zero.               *)
LEMMA DecreaseLast ==
  ASSUME IInv, ~foreign, TypeOK', NEW t \in Threads, Goes(t), Shape(t)',
         NEW s \in Slots, s = cur[t], held[t][s] = 1, References(s) = 1,
         kind[t] \in Serving, pc[t] = "dec", pc'[t] = "delete",
         owed'[t] = owed[t], Head(owed[t]) = s, kind'[t] = "none",
         \A x \in Slots : held[t][x] = (IF x = s THEN 1 ELSE 0) /\ held'[t][x] = 0,
         ioCount' = [ioCount EXCEPT ![s] = LongDec(ioCount[s])],
         ioCount[s] = 1,
         UNCHANGED <<sessionId, socket, connected, sendQ, sendFlag, indexStack,
                     idGen, sessionCount, port, recvIo, sendIo, calls, announced,
                     gone, sentTo>>
  PROVE  Own'
<1>1. TypeOK /\ Own /\ Shapes /\ Control /\ indexStack \in Seq(Slots)
      /\ ioCount \in [Slots -> Int]
  BY DEF IInv, Own, TypeOK
<1>2. Live(s) BY ThreadLive DEF Serving
<1>3. ioCount'[s] = 0 /\ \A x \in Slots \ {s} : ioCount'[x] = ioCount[x]
  BY <1>1 DEF LongDec, DeleteFlag
<1>4. Has(s, sid[t]) /\ sid[t] \in Ids /\ SlotOf(sid[t]) = s
  BY <1>1 DEF Own, Attached, Shapes, Shape
<1>5. Shapes' BY <1>1, GoesShapes
<1>6. Attached'
  <2>1. ASSUME NEW u \in Threads, kind'[u] \in Serving \/ pc'[u] = "open"
        PROVE  Has(cur[u], sid[u])'
    <3>1. u # t BY <2>1 DEF Serving
    <3>2. QED BY <1>1, <2>1, <3>1 DEF Own, Attached, Goes, Has
  <2>2. QED BY <1>1, <2>1 DEF Own, Attached, Has
<1>7. RefsExact'
  <2> SUFFICES ASSUME NEW x \in Slots
               PROVE  References(x)' = IF ioCount'[x] = DeleteFlag THEN 0 ELSE ioCount'[x]
    BY DEF RefsExact
  <2>1. held'[t][x] = 0 /\ held[t][x] = IF x = s THEN 1 ELSE 0 OBVIOUS
  <2>2. held'[t][x] \in Nat BY <2>1
  <2>3. /\ References(x)' \in Nat /\ References(x) \in Nat
        /\ References(x)' + held[t][x] = References(x) + held'[t][x]
    BY <2>2, StillRefs
  <2>4. CASE x = s
    <3>1. held[t][x] = 1 /\ References(x) = 1 BY <2>1, <2>4
    <3>2. References(x)' = 0 BY ONLY <2>1, <2>3, <3>1
    <3>3. QED BY <1>3, <2>4, <3>2
  <2>5. CASE x # s
    <3>1. held[t][x] = 0 BY <2>1, <2>5
    <3>2. References(x)' = References(x) BY ONLY <2>1, <2>3, <3>1
    <3>3. QED BY <1>3, <2>5, <3>2, RefsKept
  <2>6. QED BY <2>4, <2>5
<1>8. \A u \in Threads : \A x : Deleting(u, x)' <=> Deleting(u, x) \/ (u = t /\ x = s)
  <2>1. \A x : Deleting(t, x)' <=> x = s BY DEF Deleting, InDelete
  <2>2. \A x : ~Deleting(t, x) BY DEF Deleting, InDelete
  <2>3. \A u \in Threads \ {t} : \A x : Deleting(u, x)' <=> Deleting(u, x)
    BY DEF Deleting, Goes
  <2>4. QED BY <2>1, <2>2, <2>3
<1>9. Lifecycle'
  <2>1. IsInjective(indexStack)' BY <1>1 DEF Own, Lifecycle, IsInjective
  <2>2. ASSUME NEW i \in 1 .. Len(indexStack') PROVE Cleared(indexStack[i])'
    <3>1. indexStack[i] \in Slots /\ indexStack[i] # s BY <1>1, <1>2 DEF Live
    <3>2. Cleared(indexStack[i]) BY <1>1 DEF Own, Lifecycle
    <3>3. QED BY <1>3, <3>1, <3>2 DEF Cleared
  <2>3. ASSUME pc'[Acceptor] \in {"activate", "open"}
        PROVE  /\ pc'[Acceptor] = pc[Acceptor]
               /\ cur'[Acceptor] = cur[Acceptor] /\ cur[Acceptor] \in Slots \ {s}
    <3>1. Acceptor # t BY <2>3
    <3>2. pc'[Acceptor] = pc[Acceptor] /\ cur'[Acceptor] = cur[Acceptor]
      BY <3>1, ConstantFacts DEF Goes
    <3>3. QED BY <1>1, <1>2, <2>3, <3>1, <3>2, ConstantFacts DEF Control, Live
  <2>4. pc'[Acceptor] = "activate" =>
          /\ Cleared(cur[Acceptor])'
          /\ \A i \in 1 .. Len(indexStack') : indexStack'[i] # cur'[Acceptor]
    BY <1>1, <1>3, <2>3 DEF Own, Lifecycle, Cleared
  <2>5. pc'[Acceptor] = "open" => ioCount'[cur'[Acceptor]] = 1
    BY <1>1, <1>3, <2>3 DEF Own, Lifecycle
  <2>6. ASSUME NEW u \in Threads, NEW x \in Slots, Deleting(u, x)'
        PROVE  /\ \A i \in 1 .. Len(indexStack') : indexStack'[i] # x
               /\ pc'[Acceptor] \in {"activate", "open"} => cur'[Acceptor] # x
               /\ \A v \in Threads : Deleting(v, x)' => v = u
               /\ Fields(u, x)'
    <3>1. CASE u = t /\ x = s
      <4>1. \A v \in Threads : Deleting(v, x)' => v = u
        BY <1>2, <1>8, <3>1 DEF Live
      <4>2. Fields(u, x)' BY <1>3, <1>4, <3>1 DEF Fields, Has
      <4>3. QED BY <1>2, <2>3, <3>1, <4>1, <4>2 DEF Live
    <3>2. CASE ~(u = t /\ x = s)
      <4>1. Deleting(u, x) BY <1>8, <2>6, <3>2
      <4>2. x # s /\ u # t BY <1>2, <4>1 DEF Live, Deleting, InDelete
      <4>3. /\ \A i \in 1 .. Len(indexStack) : indexStack[i] # x
            /\ pc[Acceptor] \in {"activate", "open"} => cur[Acceptor] # x
            /\ \A v \in Threads : Deleting(v, x) => v = u
            /\ Fields(u, x)
        BY <1>1, <4>1 DEF Own, Lifecycle
      <4>4. pc'[u] = pc[u] /\ kind'[u] = kind[u] BY <4>2 DEF Goes
      <4>5. Fields(u, x)' BY <1>3, <4>2, <4>3, <4>4 DEF Fields, Has
      <4>6. \A v \in Threads : Deleting(v, x)' => v = u BY <1>8, <4>2, <4>3
      <4>7. QED BY <2>3, <4>3, <4>5, <4>6
    <3>3. QED BY <3>1, <3>2
  <2>7. QED BY <2>1, <2>2, <2>4, <2>5, <2>6 DEF Lifecycle
<1>10. kind[t] # "accept" BY DEF Serving
<1>11. IndexRight'
  <2>1. {u \in Threads : kind'[u] = "accept"} = {u \in Threads : kind[u] = "accept"}
    BY <1>10 DEF Goes
  <2>2. QED BY <1>1, <2>1 DEF Own, IndexRight
<1>12. CallsRight'
  <2>1. t \notin Callers' BY DEF Callers, InCall
  <2>2. QED BY <2>1, CallsDrop
<1>13. Sides'
  <2>1. \A x \in Slots : t \notin Receivers(x)' /\ t \notin Senders(x)'
    BY DEF Receivers, Senders
  <2>2. QED BY <2>1, SidesDrop
<1>14. GoneRight'
  <2>1. /\ kind'[Acceptor] = "accept" <=> kind[Acceptor] = "accept"
        /\ kind[Acceptor] = "accept" =>
             sid'[Acceptor] = sid[Acceptor] /\ cur'[Acceptor] = cur[Acceptor]
    BY <1>10, ConstantFacts DEF Goes
  <2>2. QED BY <2>1, GoneKept
<1>15. QueueRight' BY <1>1 DEF Own, QueueRight
<1>16. QED
  BY <1>5, <1>6, <1>7, <1>9, <1>11, <1>12, <1>13, <1>14, <1>15 DEF Own

LEMMA OwedBounds ==
  ASSUME NEW m \in 1 .. 3, NEW k \in {0, 1}, NEW h, h = m + k
  PROVE  h >= 1 /\ (h <= 1 => h = 1 /\ m = 1 /\ k = 0)
OBVIOUS

(* Where DecreaseIoCount leaves a thread that owes or keeps another          *)
(* reference, or that has come to the end of its work.                      *)
LEMMA ReturnShape ==
  ASSUME IInv, ~foreign, NEW t \in Threads, pc[t] = "dec",
         owed'[t] = Tail(owed[t]), back'[t] = back[t],
         pc'[t] = IF Len(owed[t]) > 1 THEN "dec" ELSE back[t],
         IF Len(owed[t]) = 1 /\ back[t] = "idle" THEN Forgets(t)
         ELSE cur'[t] = cur[t] /\ sid'[t] = sid[t] /\ kind'[t] = kind[t],
         \A x \in Slots : held'[t][x] =
           IF x = cur[t] THEN held[t][x] - 1 ELSE held[t][x]
  PROVE  Shape(t)'
<1>1. LocalsOf(t) /\ ControlOf(t) /\ Shape(t) BY Unfold
<1>2. /\ kind[t] \in Serving /\ cur[t] \in Slots
      /\ Len(owed[t]) \in 1 .. 3
      /\ \A i \in 1 .. Len(owed[t]) : owed[t][i] = cur[t]
      /\ back[t] = "handler" => kind[t] \in {"connect", "recv"} /\ Len(owed[t]) < 3
      /\ Holds(t, Len(owed[t]) + InHand(t))
      /\ Attachment(t)
  BY <1>1 DEF Shape, Attachment
<1>3. back[t] \in {"idle", "handler"} /\ owed[t] \in Seq(Slots) /\ owed[t] # <<>>
  BY <1>1 DEF LocalsOf, ControlOf
<1>4. /\ Len(Tail(owed[t])) = Len(owed[t]) - 1
      /\ \A i \in 1 .. Len(owed[t]) - 1 : Tail(owed[t])[i] = owed[t][i + 1]
      /\ Len(owed[t]) = 1 => Tail(owed[t]) = <<>>
  BY <1>3, RestOwed
<1>5. \A x \in Slots : held[t][x] = IF x = cur[t]
        THEN Len(owed[t]) + (IF back[t] = "handler" THEN 1 ELSE 0) ELSE 0
  BY <1>2 DEF Holds, InHand
<1>6. CASE Len(owed[t]) > 1
  <2>0. ~(Len(owed[t]) = 1)
    <3>1. PICK n \in 1 .. 3 : n = Len(owed[t]) BY <1>2
    <3>2. n > 1 BY <1>6, <3>1
    <3>3. n # 1 BY <3>2
    <3>4. QED BY <3>1, <3>3
  <2>1. /\ pc'[t] = "dec" /\ cur'[t] = cur[t] /\ sid'[t] = sid[t] /\ kind'[t] = kind[t]
    BY <1>6, <2>0
  <2>2. Len(owed'[t]) = Len(owed[t]) - 1 /\ Len(owed'[t]) \in 1 .. 3
    BY <1>2, <1>4, <1>6
  <2>3. \A i \in 1 .. Len(owed'[t]) : owed'[t][i] = cur'[t]
    <3> SUFFICES ASSUME NEW i \in 1 .. Len(owed[t]) - 1
                 PROVE  owed'[t][i] = cur[t]
      BY <2>1, <2>2
    <3>1. i + 1 \in 1 .. Len(owed[t]) BY <1>2
    <3>2. QED BY <1>2, <1>4, <3>1
  <2>4. \A x \in Slots : held'[t][x] =
          IF x = cur'[t]
          THEN Len(owed'[t]) + (IF back'[t] = "handler" THEN 1 ELSE 0) ELSE 0
    <3> SUFFICES ASSUME NEW x \in Slots
                 PROVE  held'[t][x] = IF x = cur[t]
                          THEN Len(owed'[t]) + (IF back[t] = "handler" THEN 1 ELSE 0) ELSE 0
      BY <2>1
    <3>1. CASE x = cur[t]
      <4>1. held'[t][x] = held[t][x] - 1 BY <3>1
      <4>2. held[t][x] = Len(owed[t]) + (IF back[t] = "handler" THEN 1 ELSE 0)
        BY <1>5, <3>1
      <4>3. Len(owed[t]) \in Nat BY <1>2
      <4>4. held'[t][x] = Len(owed'[t]) + (IF back[t] = "handler" THEN 1 ELSE 0)
        BY ONLY <2>2, <4>1, <4>2, <4>3
      <4>5. QED BY <3>1, <4>4
    <3>2. CASE x # cur[t]
      <4>1. held'[t][x] = held[t][x] BY <3>2
      <4>2. held[t][x] = 0 BY <1>5, <3>2
      <4>3. QED BY <3>2, <4>1, <4>2
    <3>3. QED BY <3>1, <3>2
  <2>5. /\ back'[t] = "handler" =>
             kind'[t] \in {"connect", "recv"} /\ Len(owed'[t]) < 3
        /\ kind'[t] \in Serving /\ Attachment(t)'
    BY <1>2, <2>1, <2>2 DEF Attachment
  <2>6. QED BY <2>1, <2>2, <2>3, <2>4, <2>5, ShapeDec
<1>7. CASE Len(owed[t]) = 1 /\ back[t] = "handler"
  <2>1. /\ pc'[t] = "handler" /\ cur'[t] = cur[t] /\ sid'[t] = sid[t]
        /\ kind'[t] = kind[t] /\ owed'[t] = <<>>
    BY <1>4, <1>7
  <2>2. \A x \in Slots : held'[t][x] = IF x = cur'[t] THEN 1 ELSE 0
    BY <1>2, <1>5, <1>7, <2>1
  <2>3. Attachment(t)' /\ pc'[t] \in InHandler /\ kind'[t] \in {"connect", "recv"}
    BY <1>2, <1>7, <2>1 DEF Attachment, InHandler
  <2>4. QED BY <2>1, <2>2, <2>3, ShapeServe
<1>8. CASE Len(owed[t]) = 1 /\ back[t] = "idle"
  <2>1. /\ pc'[t] = "idle" /\ owed'[t] = <<>> /\ back'[t] = "idle" /\ Forgets(t)
    BY <1>4, <1>8
  <2>2. \A x \in Slots : held'[t][x] = 0 BY <1>2, <1>5, <1>8
  <2>3. QED BY <2>1, <2>2, ShapeIdle DEF Forgets
<1>9. Len(owed[t]) > 1 \/ Len(owed[t]) = 1
  <2>1. Len(owed[t]) \in 1 .. 3 BY <1>2
  <2>2. QED BY ONLY <2>1
<1>10. QED BY <1>3, <1>6, <1>7, <1>8, <1>9

LEMMA DecreaseStep ==
  ASSUME IInv, NEW t \in Threads, Decrease(t)
  PROVE  IInv'
<1>1. /\ TypeOK /\ LocalTypes /\ GlobalTypes /\ LocalsOf(t)
      /\ Control /\ ControlOf(t) /\ (~foreign => Own /\ Shape(t))
  BY Unfold
<1>2. /\ pc[t] = "dec"
      /\ UNCHANGED <<sessionId, socket, sendFlag, connected, sendQ, indexStack,
           idGen, sessionCount, active, port, conn, recvIo, sendIo, msgs, calls,
           foreign, announced, gone, sentTo, op, tgt>>
  BY DEF Decrease, fieldVars, poolVars, outerVars, kernelVars, boundVars, histVars,
     callVars
<1>3. PICK s \in Slots : s = Head(owed[t])
  BY <1>1, <1>2, RestOwed DEF LocalsOf, ControlOf
<1>4. PICK n \in Int : n = LongDec(ioCount[s])
  <2>1. ioCount[s] \in Int BY <1>1 DEF GlobalTypes
  <2>2. LongDec(ioCount[s]) \in Int BY <2>1 DEF LongDec, DeleteFlag
  <2>3. QED BY <2>2
<1>5. /\ ioCount' = [ioCount EXCEPT ![s] = n]
      /\ held' = [held EXCEPT ![t][s] = held[t][s] - 1]
      /\ IF n = 0
         THEN pc' = [pc EXCEPT ![t] = "delete"] /\ Forget(t)
                /\ owed' = owed /\ back' = back
         ELSE Return(t)
  BY <1>3, <1>4 DEF Decrease, Goto, decVars
<1>6. /\ held' = [held EXCEPT ![t] = held'[t]] /\ held'[t] \in [Slots -> Int]
      /\ \A x \in Slots : held'[t][x] = IF x = s THEN held[t][x] - 1 ELSE held[t][x]
  <2>1. held' = [held EXCEPT ![t] = [held[t] EXCEPT ![s] = held[t][s] - 1]]
        /\ held[t] \in [Slots -> Int] /\ held \in [Threads -> [Slots -> Int]]
    BY <1>1, <1>5 DEF LocalTypes
  <2>2. held'[t] = [held[t] EXCEPT ![s] = held[t][s] - 1] BY <2>1
  <2>3. QED BY <2>1, <2>2
<1>7. /\ ioCount' \in [Slots -> Int] /\ ioCount'[s] = n
      /\ \A x \in Slots \ {s} : ioCount'[x] = ioCount[x]
  BY <1>1, <1>5 DEF GlobalTypes
<1>8. GlobalTypes' BY <1>1, <1>2, <1>7 DEF GlobalTypes
<1>9. CASE n = 0
  <2>1. pc' = [pc EXCEPT ![t] = "delete"] /\ Forget(t) /\ owed' = owed /\ back' = back
    BY <1>5, <1>9
  <2>2. /\ pc'[t] = "delete" /\ pc' = [pc EXCEPT ![t] = pc'[t]]
        /\ owed'[t] = owed[t] /\ back'[t] = back[t]
        /\ op'[t] = op[t] /\ tgt'[t] = tgt[t]
    BY <1>1, <1>2, <2>1 DEF LocalTypes
  <2>3. IF Len(owed[t]) = 1 /\ back[t] = "idle" THEN Forgets(t)
        ELSE cur' = cur /\ sid' = sid /\ kind' = kind
    BY <1>1, <2>1, ForgetFacts
  <2>4. /\ cur' = [cur EXCEPT ![t] = cur'[t]] /\ sid' = [sid EXCEPT ![t] = sid'[t]]
        /\ kind' = [kind EXCEPT ![t] = kind'[t]]
        /\ \/ cur'[t] = NoSlot /\ sid'[t] = NoId /\ kind'[t] = "none" /\ back[t] = "idle"
           \/ cur'[t] = cur[t] /\ sid'[t] = sid[t] /\ kind'[t] = kind[t]
    BY <1>1, <2>3 DEF Forgets, LocalTypes
  <2>5. Moves(t) BY <1>1, <1>2, <1>6, <2>1, <2>2, <2>4 DEF Moves, LocalTypes
  <2>6. LocalsOf(t)'
    <3>1. pc'[t] \in Labels BY <2>2 DEF Labels
    <3>2. QED BY <1>1, <1>6, <2>2, <2>4, <3>1 DEF LocalsOf
  <2>7. ControlOf(t)'
    BY <1>1, <1>2, <2>2, <2>4
    DEF ControlOf, InHandler, InSend, InCall, InUse, InDelete
  <2>8. TypeOK' /\ Goes(t) /\ ((~foreign => Own') => IInv')
    BY <1>2, <1>8, <2>5, <2>6, <2>7, Fold
  <2>9. ASSUME ~foreign PROVE Own'
    <3>1. /\ kind[t] \in Serving /\ cur[t] \in Slots
          /\ Len(owed[t]) \in 1 .. 3
          /\ \A i \in 1 .. Len(owed[t]) : owed[t][i] = cur[t]
          /\ Holds(t, Len(owed[t]) + InHand(t))
      BY <1>1, <1>2, <2>9 DEF Shape
    <3>2. s = cur[t]
      <4>1. owed[t] \in Seq(Slots) /\ owed[t] # <<>>
        BY <1>1, <1>2 DEF LocalsOf, ControlOf
      <4>2. Head(owed[t]) = owed[t][1] BY <4>1, RestOwed
      <4>3. QED BY <1>3, <3>1, <4>2
    <3>3. held[t][s] = Len(owed[t]) + (IF back[t] = "handler" THEN 1 ELSE 0)
      BY <3>1, <3>2 DEF Holds, InHand
    <3>4. held[t][s] >= 1 /\ kind[t] # "accept"
      <4>1. PICK m \in 1 .. 3 : m = Len(owed[t]) BY <3>1
      <4>2. PICK k \in {0, 1} : k = IF back[t] = "handler" THEN 1 ELSE 0 OBVIOUS
      <4>3. held[t][s] >= 1
        <5>1. held[t][s] = m + k BY <3>3, <4>1, <4>2
        <5>2. QED BY ONLY <5>1, OwedBounds
      <4>4. QED BY <3>1, <4>3 DEF Serving
    <3>5. /\ ioCount[s] = References(s) /\ ioCount[s] # DeleteFlag
          /\ held[t][s] <= ioCount[s]
      BY <2>9, <3>4, ThreadLive
    <3>6. ioCount[s] \in Nat /\ n = ioCount[s] - 1 BY <1>4, <2>9, <3>5, Counter
    <3>7. ioCount[s] = 1 BY <1>9, <3>6
    <3>8. /\ held[t][s] = 1 /\ References(s) = 1 /\ Len(owed[t]) = 1 /\ back[t] # "handler"
      <4>1. PICK m \in 1 .. 3 : m = Len(owed[t]) BY <3>1
      <4>2. PICK k \in {0, 1} : k = IF back[t] = "handler" THEN 1 ELSE 0 OBVIOUS
      <4>3. held[t][s] <= 1 BY <3>5, <3>7
      <4>4. held[t][s] = m + k BY <3>3, <4>1, <4>2
      <4>5. held[t][s] = 1 /\ m = 1 /\ k = 0 BY ONLY <4>3, <4>4, OwedBounds
      <4>6. back[t] # "handler" BY <4>2, <4>5
      <4>7. QED BY <3>5, <3>7, <4>1, <4>5, <4>6
    <3>9. back[t] = "idle" /\ Forgets(t) BY <1>1, <2>3, <3>8 DEF LocalsOf
    <3>10. /\ \A x \in Slots : held[t][x] = IF x = s THEN 1 ELSE 0
           /\ \A x \in Slots : held'[t][x] = 0
      BY <1>6, <3>1, <3>2, <3>8 DEF Holds
    <3>11. Shape(t)'
      <4>1. pc'[t] \in InDelete BY <2>2 DEF InDelete
      <4>2. QED BY <2>2, <3>8, <3>9, <3>10, <4>1, ShapeDelete DEF Forgets
    <3>12. kind'[t] = "none" BY <3>9 DEF Forgets
    <3>13. ioCount' = [ioCount EXCEPT ![s] = LongDec(ioCount[s])] BY <1>4, <1>5
    <3>14. \A x \in Slots : held[t][x] = (IF x = s THEN 1 ELSE 0) /\ held'[t][x] = 0
      BY <3>10
    <3>15. QED
      BY <1>2, <1>3, <2>2, <2>8, <2>9, <3>1, <3>2, <3>7, <3>8, <3>11, <3>12, <3>13,
         <3>14, DecreaseLast
  <2>10. QED BY <2>8, <2>9
<1>10. CASE n # 0
  <2>1. Return(t) /\ pc[t] \in {"dec"} \cup InDelete BY <1>2, <1>5, <1>10
  <2>2. /\ Moves(t) /\ LocalsOf(t)' /\ ControlOf(t)'
        /\ owed'[t] = Tail(owed[t]) /\ back'[t] = back[t]
        /\ pc'[t] = IF Len(owed[t]) > 1 THEN "dec" ELSE back[t]
        /\ IF Len(owed[t]) = 1 /\ back[t] = "idle" THEN Forgets(t)
           ELSE cur' = cur /\ sid' = sid /\ kind' = kind
    BY <1>2, <1>6, <2>1, ReturnControl
  <2>3. TypeOK' /\ Goes(t) /\ ((~foreign => Own') => IInv')
    BY <1>2, <1>8, <2>2, Fold
  <2>4. ASSUME ~foreign PROVE Own'
    <3>1. /\ kind[t] \in Serving /\ cur[t] \in Slots
          /\ Len(owed[t]) \in 1 .. 3
          /\ \A i \in 1 .. Len(owed[t]) : owed[t][i] = cur[t]
          /\ back[t] = "handler" => kind[t] \in {"connect", "recv"}
          /\ Holds(t, Len(owed[t]) + InHand(t))
      BY <1>1, <1>2, <2>4 DEF Shape
    <3>2. s = cur[t]
      <4>1. owed[t] \in Seq(Slots) /\ owed[t] # <<>>
        BY <1>1, <1>2 DEF LocalsOf, ControlOf
      <4>2. Head(owed[t]) = owed[t][1] BY <4>1, RestOwed
      <4>3. QED BY <1>3, <3>1, <4>2
    <3>3. held[t][s] = Len(owed[t]) + (IF back[t] = "handler" THEN 1 ELSE 0)
      BY <3>1, <3>2 DEF Holds, InHand
    <3>4. held[t][s] >= 1 /\ kind[t] # "accept"
      <4>1. PICK m \in 1 .. 3 : m = Len(owed[t]) BY <3>1
      <4>2. PICK k \in {0, 1} : k = IF back[t] = "handler" THEN 1 ELSE 0 OBVIOUS
      <4>3. held[t][s] >= 1
        <5>1. held[t][s] = m + k BY <3>3, <4>1, <4>2
        <5>2. QED BY ONLY <5>1, OwedBounds
      <4>4. QED BY <3>1, <4>3 DEF Serving
    <3>5. /\ ioCount[s] = References(s) /\ ioCount[s] # DeleteFlag
          /\ held[t][s] <= ioCount[s] /\ Live(s)
      BY <2>4, <3>4, ThreadLive
    <3>6. IF Len(owed[t]) = 1 /\ back[t] = "idle" THEN Forgets(t)
          ELSE cur'[t] = cur[t] /\ sid'[t] = sid[t] /\ kind'[t] = kind[t]
      BY <2>2
    <3>7. Shape(t)'
      <4>1. \A x \in Slots : held'[t][x] =
              IF x = cur[t] THEN held[t][x] - 1 ELSE held[t][x]
        BY <1>6, <3>2
      <4>2. QED BY <1>2, <2>2, <2>4, <3>6, <4>1, ReturnShape
    <3>8. pc'[t] \in {"dec", "handler", "idle"} /\ (pc'[t] = "handler" => back[t] = "handler")
      BY <1>1, <2>2 DEF LocalsOf
    <3>9. Mild
      <4>1. Calm(t)
        <5>1. Has(cur[t], sid[t]) BY <1>1, <2>4, <3>1 DEF Own, Attached
        <5>2. pc[t] \notin {"activate", "open"} \cup InDelete
              /\ pc'[t] \notin {"activate", "open"} \cup InDelete
          BY <1>2, <3>8 DEF InDelete
        <5>3. kind'[t] = "none" \/ (kind'[t] = kind[t] /\ cur'[t] = cur[t] /\ sid'[t] = sid[t])
          BY <3>6 DEF Forgets
        <5>4. QED BY <3>4, <5>1, <5>2, <5>3 DEF Calm, Serving
      <4>2. \A u \in Threads \ {t} : Calm(u) BY <2>3 DEF Goes, Calm
      <4>3. \A x \in Slots : Live(x) \/ (ioCount'[x] = ioCount[x] /\ sendQ'[x] = sendQ[x])
        BY <1>2, <1>7, <3>5
      <4>4. QED BY <1>2, <4>1, <4>2, <4>3 DEF Mild
    <3>10. RefsExact'
      <4> SUFFICES ASSUME NEW x \in Slots
                   PROVE  References(x)' = IF ioCount'[x] = DeleteFlag THEN 0 ELSE ioCount'[x]
        BY DEF RefsExact
      <4>1. held[t][x] \in 0 .. 3 BY <1>1, <2>4, RefParts DEF Own
      <4>2. held'[t][x] \in Nat BY <1>6, <3>4, <4>1
      <4>3. /\ References(x)' \in Nat /\ References(x) \in Nat
            /\ References(x)' + held[t][x] = References(x) + held'[t][x]
        BY <1>2, <2>3, <2>4, <4>2, StillRefs
      <4>4. CASE x = s
        <5>1. held'[t][x] = held[t][x] - 1 BY <1>6, <4>4
        <5>2. References(x)' = References(x) - 1 BY ONLY <4>1, <4>3, <5>1
        <5>3. ioCount[x] >= 1
          <6>1. ioCount[s] >= held[t][s] /\ held[t][s] >= 1 /\ ioCount[s] \in Int
            BY <1>1, <3>4, <3>5 DEF GlobalTypes
          <6>2. QED BY <4>1, <4>4, <6>1
        <5>4. ioCount'[x] = LongDec(ioCount[x]) /\ ioCount[x] # DeleteFlag
          BY <1>4, <1>7, <3>5, <4>4
        <5>5. QED BY <2>4, <5>2, <5>3, <5>4, RefsKept
      <4>5. CASE x # s
        <5>1. held'[t][x] = held[t][x] BY <1>6, <4>5
        <5>2. References(x)' = References(x) BY ONLY <4>1, <4>3, <5>1
        <5>3. QED BY <1>7, <2>4, <4>5, <5>2, RefsKept
      <4>6. QED BY <4>4, <4>5
    <3>11. CallsRight'
      <4>1. t \notin Callers' BY <3>8 DEF Callers, InCall
      <4>2. QED BY <1>2, <2>3, <2>4, <4>1, CallsDrop
    <3>12. Sides'
      <4>1. \A x \in Slots : t \notin Senders(x)' BY <3>8 DEF Senders
      <4>2. ASSUME NEW x \in Slots, t \in Receivers(x)' PROVE t \in Receivers(x)
        <5>1. cur'[t] = x /\ kind'[t] \in {"connect", "recv"}
              /\ (pc'[t] \in InHandler \/ back'[t] = "handler")
          BY <4>2 DEF Receivers
        <5>2. cur[t] = x /\ kind[t] \in {"connect", "recv"} BY <3>6, <5>1 DEF Forgets
        <5>3. back[t] = "handler" BY <2>2, <3>8, <5>1 DEF InHandler
        <5>4. QED BY <1>2, <5>2, <5>3 DEF Receivers
      <4>3. QED BY <1>2, <2>3, <2>4, <4>1, <4>2, SidesDrop
    <3>13. QueueRight' BY <1>1, <1>2, <2>4 DEF Own, QueueRight
    <3>14. /\ \A i \in 1 .. Len(port') : Placed(port'[i])
           /\ \A g \in Ids : recvIo'[g] > 0 \/ sendIo'[g] > 0 => Has(SlotOf(g), g)
      BY <1>2, <2>4, PlacedNow
    <3>15. QED
      BY <2>3, <2>4, <3>7, <3>9, <3>10, <3>11, <3>12, <3>13, <3>14, MildOwn
  <2>5. QED BY <2>3, <2>4
<1>11. QED BY <1>9, <1>10

(* A step that leaves the acceptor where it is: the set of its callers.      *)
LEMMA AcceptCount ==
  ASSUME NEW t \in Threads, Goes(t)
  PROVE  /\ Cardinality({u \in Threads : kind[u] = "accept"}) \in Nat
         /\ Cardinality({u \in Threads : kind'[u] = "accept"}) \in Nat
         /\ Cardinality({u \in Threads : kind'[u] = "accept"})
              + (IF kind[t] = "accept" THEN 1 ELSE 0)
            = Cardinality({u \in Threads : kind[u] = "accept"})
              + (IF kind'[t] = "accept" THEN 1 ELSE 0)
<1> DEFINE A == {u \in Threads : kind[u] = "accept"}
           B == {u \in Threads : kind'[u] = "accept"}
<1>1. A \in SUBSET Threads /\ B \in SUBSET Threads OBVIOUS
<1>2. \A u \in Threads \ {t} : u \in B <=> u \in A BY DEF Goes
<1>3. (t \in A <=> kind[t] = "accept") /\ (t \in B <=> kind'[t] = "accept") OBVIOUS
<1> HIDE DEF A, B
<1>4. /\ Cardinality(A) \in Nat /\ Cardinality(B) \in Nat
      /\ Cardinality(B) + (IF t \in A THEN 1 ELSE 0)
           = Cardinality(A) + (IF t \in B THEN 1 ELSE 0)
  BY <1>1, <1>2, SetMove
<1>5. QED BY <1>3, <1>4 DEF A, B

LEMMA RecycleStep ==
  ASSUME IInv, NEW t \in Threads, Recycle(t)
  PROVE  IInv'
<1>1. /\ TypeOK /\ LocalTypes /\ GlobalTypes /\ LocalsOf(t)
      /\ Control /\ ControlOf(t) /\ (~foreign => Own /\ Shape(t))
  BY Unfold
<1>2. /\ pc[t] = "recycle" /\ Return(t)
      /\ UNCHANGED <<sessionId, socket, sendFlag, sendQ, ioCount, held, idGen, active,
           port, conn, recvIo, sendIo, msgs, calls, foreign, announced, gone,
           sentTo, op, tgt>>
  BY DEF Recycle, outerVars, kernelVars, boundVars, histVars, callVars
<1>3. held' = [held EXCEPT ![t] = held'[t]] /\ held'[t] \in [Slots -> Int]
      /\ held'[t] = held[t]
  BY <1>1, <1>2 DEF LocalTypes
<1>4. pc[t] \in InDelete /\ pc[t] \in {"dec"} \cup InDelete BY <1>2 DEF InDelete
<1>5. PICK s \in Slots : s = Head(owed[t])
  BY <1>1, <1>4, RestOwed DEF LocalsOf, ControlOf
<1>6. /\ connected' = [connected EXCEPT ![s] = FALSE]
      /\ indexStack' = Append(indexStack, s)
      /\ kind[t] = "accept" => sessionCount' = sessionCount
      /\ kind[t] # "accept" => sessionCount' = sessionCount - 1
  BY <1>5 DEF Recycle
<1>7. /\ indexStack \in Seq(Slots) /\ indexStack' \in Seq(Slots)
      /\ Len(indexStack) \in Nat /\ Len(indexStack') = Len(indexStack) + 1
      /\ indexStack'[Len(indexStack) + 1] = s
      /\ \A i \in 1 .. Len(indexStack) : indexStack'[i] = indexStack[i]
  BY <1>1, <1>6 DEF GlobalTypes
<1>8. /\ Moves(t) /\ LocalsOf(t)' /\ ControlOf(t)'
      /\ owed'[t] = Tail(owed[t]) /\ back'[t] = back[t]
      /\ pc'[t] = IF Len(owed[t]) > 1 THEN "dec" ELSE back[t]
      /\ IF Len(owed[t]) = 1 /\ back[t] = "idle" THEN Forgets(t)
         ELSE cur' = cur /\ sid' = sid /\ kind' = kind
  BY <1>2, <1>3, <1>4, ReturnControl
<1>9. GlobalTypes'
  <2>1. connected' \in [Slots -> BOOLEAN] /\ sessionCount' \in Int
    BY <1>1, <1>6 DEF GlobalTypes
  <2>2. QED BY <1>1, <1>2, <1>7, <2>1 DEF GlobalTypes
<1>10. TypeOK' /\ Goes(t) /\ ((~foreign => Own') => IInv')
  BY <1>2, <1>8, <1>9, Fold
<1>11. ASSUME ~foreign PROVE Own'
  <2>1. /\ back[t] = "idle" /\ Len(owed[t]) = 1 /\ owed[t] = <<s>>
        /\ Deleting(t, s) /\ Fields(t, s)
        /\ \A i \in 1 .. Len(indexStack) : indexStack[i] # s
        /\ pc[Acceptor] \in {"activate", "open"} => cur[Acceptor] # s
        /\ \A u \in Threads : Deleting(u, s) => u = t
        /\ \/ kind[t] = "accept" /\ t = Acceptor /\ cur[t] = s
           \/ kind[t] = "none"
        /\ \A x \in Slots : held[t][x] = 0
    <3>1. /\ \A x \in Slots : x # s => held[t][x] = 0
          /\ held[t][s] = 0
      BY <1>2, <1>4, <1>5, <1>11, DeleteFacts
    <3>2. \A x \in Slots : held[t][x] = 0 BY <3>1
    <3>3. QED BY <1>4, <1>5, <1>11, <3>2, DeleteFacts
  <2>2. Forgets(t) /\ owed'[t] = <<>> /\ back'[t] = "idle" /\ pc'[t] = "idle"
    <3>1. ~(Len(owed[t]) > 1) BY <2>1
    <3>2. QED BY <1>8, <2>1, <3>1, OneOwed
  <2>3. cur'[t] = NoSlot /\ sid'[t] = NoId /\ kind'[t] = "none"
    BY <2>2 DEF Forgets
  <2>4. ioCount[s] = 0 /\ Has(s, NoId) /\ sendQ[s] = <<>>
    BY <1>2, <2>1 DEF Fields
  <2>5. Shapes'
    <3>1. \A x \in Slots : held'[t][x] = 0 BY <1>3, <2>1
    <3>2. Shape(t)' BY <2>2, <2>3, <3>1, ShapeIdle
    <3>3. QED BY <1>1, <1>10, <1>11, <3>2, GoesShapes DEF Own
  <2>6. Attached'
    <3>1. ASSUME NEW u \in Threads, kind'[u] \in Serving \/ pc'[u] = "open"
          PROVE  Has(cur[u], sid[u])'
      <4>1. u # t BY <2>2, <2>3, <3>1 DEF Serving
      <4>2. QED BY <1>1, <1>2, <1>10, <1>11, <3>1, <4>1 DEF Own, Attached, Goes, Has
    <3>2. QED BY <1>1, <1>2, <1>11, <3>1 DEF Own, Attached, Has
  <2>7. RefsExact'
    <3> SUFFICES ASSUME NEW x \in Slots
                 PROVE  References(x)' = IF ioCount'[x] = DeleteFlag THEN 0 ELSE ioCount'[x]
      BY DEF RefsExact
    <3>1. held'[t][x] = held[t][x] /\ held'[t][x] \in Nat BY <1>3, <2>1
    <3>2. /\ References(x)' \in Nat /\ References(x) \in Nat /\ held[t][x] \in Nat
          /\ References(x)' + held[t][x] = References(x) + held'[t][x]
      BY <1>2, <1>10, <1>11, <3>1, StillRefs
    <3>3. References(x)' = References(x) BY ONLY <3>1, <3>2
    <3>4. QED BY <1>2, <1>11, <3>3, RefsKept
  <2>8. \A u \in Threads : \A x : Deleting(u, x)' <=> Deleting(u, x) /\ u # t
    <3>1. \A x : ~Deleting(t, x)' BY <2>2 DEF Deleting, InDelete
    <3>2. \A u \in Threads \ {t} : \A x : Deleting(u, x)' <=> Deleting(u, x)
      BY <1>10 DEF Deleting, Goes
    <3>3. QED BY <3>1, <3>2
  <2>9. Lifecycle'
    <3>1. IsInjective(indexStack)'
      <4>1. DOMAIN indexStack = 1 .. Len(indexStack)
            /\ DOMAIN indexStack' = 1 .. Len(indexStack) + 1
        BY <1>7
      <4>2. IsInjective(indexStack) BY <1>1, <1>11 DEF Own, Lifecycle
      <4>3. SUFFICES ASSUME NEW i \in 1 .. Len(indexStack) + 1,
                            NEW j \in 1 .. Len(indexStack) + 1,
                            indexStack'[i] = indexStack'[j]
                     PROVE  i = j
        BY <4>1 DEF IsInjective
      <4>4. /\ i \in 1 .. Len(indexStack) \/ i = Len(indexStack) + 1
            /\ j \in 1 .. Len(indexStack) \/ j = Len(indexStack) + 1
        BY <1>7
      <4>5. CASE i \in 1 .. Len(indexStack) /\ j \in 1 .. Len(indexStack)
        BY <1>7, <4>1, <4>2, <4>3, <4>5 DEF IsInjective
      <4>6. CASE i = Len(indexStack) + 1 /\ j \in 1 .. Len(indexStack)
        BY <1>7, <2>1, <4>3, <4>6
      <4>7. CASE i \in 1 .. Len(indexStack) /\ j = Len(indexStack) + 1
        BY <1>7, <2>1, <4>3, <4>7
      <4>8. QED BY <4>4, <4>5, <4>6, <4>7
    <3>2. \A x \in Slots : Cleared(x) => Cleared(x)'
      BY <1>1, <1>2, <1>6 DEF Cleared, GlobalTypes
    <3>3. ASSUME NEW i \in 1 .. Len(indexStack') PROVE Cleared(indexStack[i])'
      <4>1. CASE i \in 1 .. Len(indexStack)
        <5>1. Cleared(indexStack[i]) /\ indexStack[i] \in Slots
          BY <1>1, <1>7, <1>11, <4>1 DEF Own, Lifecycle
        <5>2. PICK x \in Slots : x = indexStack[i] BY <5>1
        <5>3. Cleared(x)' BY <3>2, <5>1, <5>2
        <5>4. indexStack'[i] = x BY <1>7, <4>1, <5>2
        <5>5. QED BY <5>3, <5>4 DEF Cleared
      <4>2. CASE i = Len(indexStack) + 1
        <5>1. indexStack'[i] = s BY <1>7, <4>2
        <5>2. ~connected'[s] BY <1>1, <1>6 DEF GlobalTypes
        <5>3. QED BY <1>2, <2>4, <5>1, <5>2 DEF Cleared, Has
      <4>3. QED BY <1>7, <4>1, <4>2
    <3>4. ASSUME pc'[Acceptor] \in {"activate", "open"}
          PROVE  /\ pc'[Acceptor] = pc[Acceptor]
                 /\ cur'[Acceptor] = cur[Acceptor] /\ cur[Acceptor] \in Slots \ {s}
      <4>1. Acceptor # t BY <2>2, <3>4
      <4>2. pc'[Acceptor] = pc[Acceptor] /\ cur'[Acceptor] = cur[Acceptor]
        BY <1>10, <4>1, ConstantFacts DEF Goes
      <4>3. QED BY <1>1, <2>1, <3>4, <4>1, <4>2, ConstantFacts DEF Control
    <3>5. ASSUME pc'[Acceptor] = "activate"
          PROVE  /\ Cleared(cur[Acceptor])'
                 /\ \A i \in 1 .. Len(indexStack') : indexStack'[i] # cur'[Acceptor]
      <4>1. /\ Cleared(cur[Acceptor]) /\ cur[Acceptor] \in Slots \ {s}
            /\ cur'[Acceptor] = cur[Acceptor]
            /\ \A i \in 1 .. Len(indexStack) : indexStack[i] # cur[Acceptor]
        BY <1>1, <1>11, <3>4, <3>5 DEF Own, Lifecycle
      <4>2. PICK x \in Slots : x = cur[Acceptor] BY <4>1
      <4>3. Cleared(x)' BY <3>2, <4>1, <4>2
      <4>4. Cleared(cur[Acceptor])' BY <4>1, <4>2, <4>3 DEF Cleared
      <4>5. ASSUME NEW i \in 1 .. Len(indexStack') PROVE indexStack'[i] # cur'[Acceptor]
        BY <1>7, <4>1
      <4>6. QED BY <4>4, <4>5
    <3>6. pc'[Acceptor] = "open" => ioCount'[cur'[Acceptor]] = 1
      BY <1>1, <1>2, <1>11, <3>4 DEF Own, Lifecycle
    <3>7. ASSUME NEW u \in Threads, NEW x \in Slots, Deleting(u, x)'
          PROVE  /\ \A i \in 1 .. Len(indexStack') : indexStack'[i] # x
                 /\ pc'[Acceptor] \in {"activate", "open"} => cur'[Acceptor] # x
                 /\ \A v \in Threads : Deleting(v, x)' => v = u
                 /\ Fields(u, x)'
      <4>1. Deleting(u, x) /\ u # t BY <2>8, <3>7
      <4>2. x # s BY <2>1, <4>1
      <4>3. /\ \A i \in 1 .. Len(indexStack) : indexStack[i] # x
            /\ pc[Acceptor] \in {"activate", "open"} => cur[Acceptor] # x
            /\ \A v \in Threads : Deleting(v, x) => v = u
            /\ Fields(u, x)
        BY <1>1, <1>11, <4>1 DEF Own, Lifecycle
      <4>4. pc'[u] = pc[u] /\ kind'[u] = kind[u] BY <1>10, <4>1 DEF Goes
      <4>5. Fields(u, x)' BY <1>2, <4>3, <4>4 DEF Fields, Has
      <4>6. \A v \in Threads : Deleting(v, x)' => v = u BY <2>8, <4>3
      <4>7. \A i \in 1 .. Len(indexStack') : indexStack'[i] # x BY <1>7, <4>2, <4>3
      <4>8. QED BY <3>4, <4>3, <4>5, <4>6, <4>7
    <3>8. QED BY <3>1, <3>3, <3>5, <3>6, <3>7 DEF Lifecycle
  <2>10. IndexRight'
    <3>1. PICK a \in Nat, b \in Nat :
            /\ a = Cardinality({u \in Threads : kind[u] = "accept"})
            /\ b = Cardinality({u \in Threads : kind'[u] = "accept"})
      BY <1>10, AcceptCount
    <3>2. b + (IF kind[t] = "accept" THEN 1 ELSE 0)
            = a + (IF kind'[t] = "accept" THEN 1 ELSE 0)
      BY <1>10, <3>1, AcceptCount
    <3>3. /\ kind[t] = "accept" => b + 1 = a
          /\ kind[t] # "accept" => b = a
      <4>1. kind'[t] # "accept" BY <2>3
      <4>2. QED BY ONLY <3>1, <3>2, <4>1
    <3>4. Len(indexStack) + sessionCount + a = Cardinality(Slots) /\ sessionCount \in Int
      BY <1>1, <1>11, <3>1 DEF Own, IndexRight, GlobalTypes
    <3>5. Len(indexStack') + sessionCount' + b = Cardinality(Slots)
      <4>1. CASE kind[t] = "accept"
        <5>1. sessionCount' = sessionCount /\ b + 1 = a BY <1>6, <3>3, <4>1
        <5>2. QED BY ONLY <1>7, <3>1, <3>4, <5>1
      <4>2. CASE kind[t] # "accept"
        <5>1. sessionCount' = sessionCount - 1 /\ b = a BY <1>6, <3>3, <4>2
        <5>2. QED BY ONLY <1>7, <3>1, <3>4, <5>1
      <4>3. QED BY <4>1, <4>2
    <3>6. QED BY <3>1, <3>5 DEF IndexRight
  <2>11. CallsRight'
    <3>1. t \notin Callers' BY <2>2 DEF Callers, InCall
    <3>2. QED BY <1>2, <1>10, <1>11, <3>1, CallsDrop
  <2>12. Sides'
    <3>1. \A x \in Slots : t \notin Receivers(x)' /\ t \notin Senders(x)'
      BY <2>2, <2>3 DEF Receivers, Senders
    <3>2. QED BY <1>2, <1>10, <1>11, <3>1, SidesDrop
  <2>13. GoneRight'
    <3>1. GoneRight BY <1>1, <1>11 DEF Own
    <3>2. \A u \in Threads : \A x : Deleting(u, x) /\ pc[u] = "clear"
            => Deleting(u, x)' /\ pc'[u] = "clear"
      BY <1>2, <1>10, <2>8 DEF Goes
    <3>3. Acceptor # t => /\ kind'[Acceptor] = kind[Acceptor]
                          /\ sid'[Acceptor] = sid[Acceptor]
                          /\ cur'[Acceptor] = cur[Acceptor]
      BY <1>10, ConstantFacts DEF Goes
    <3>4. ASSUME NEW g \in Ids, sessionId[SlotOf(g)] = g,
                 kind[Acceptor] = "accept" /\ cur[Acceptor] = SlotOf(g)
          PROVE  kind'[Acceptor] = "accept" /\ cur'[Acceptor] = SlotOf(g)
      <4>1. SlotOf(g) # s BY <2>4, <3>4, ConstantFacts DEF Has
      <4>2. Acceptor # t BY <2>1, <3>4, <4>1
      <4>3. QED BY <3>3, <3>4, <4>2
    <3>5. kind'[Acceptor] = "accept" =>
            kind[Acceptor] = "accept" /\ sid'[Acceptor] = sid[Acceptor]
      BY <2>3, <3>3
    <3>6. QED BY <1>2, <3>1, <3>2, <3>4, <3>5 DEF GoneRight
  <2>14. QueueRight' BY <1>1, <1>2, <1>11 DEF Own, QueueRight
  <2>15. QED
    BY <2>5, <2>6, <2>7, <2>9, <2>10, <2>11, <2>12, <2>13, <2>14 DEF Own
<1>12. QED BY <1>10, <1>11

-----------------------------------------------------------------------------
(* The accepting thread.                                                    *)
LEMMA StackTop ==
  ASSUME NEW q \in Seq(Slots), q # <<>>
  PROVE  /\ Len(q) \in Nat \ {0} /\ Last(q) \in Slots /\ Last(q) = q[Len(q)]
         /\ Front(q) \in Seq(Slots) /\ Len(Front(q)) = Len(q) - 1
         /\ \A i \in 1 .. Len(q) - 1 : Front(q)[i] = q[i]
<1>1. Len(q) \in Nat \ {0} /\ Len(q) \in 1 .. Len(q) OBVIOUS
<1>2. q[Len(q)] \in Slots BY <1>1
<1>3. PICK m \in Nat : m = Len(q) - 1 /\ m <= Len(q) BY <1>1
<1>4. SubSeq(q, 1, m) \in Seq(Slots) /\ Len(SubSeq(q, 1, m)) = m
      /\ \A i \in 1 .. m : SubSeq(q, 1, m)[i] = q[i]
  <2>1. SubSeq(q, 1, m) = [i \in 1 .. m |-> q[i]] BY <1>3
  <2>2. \A i \in 1 .. m : q[i] \in Slots BY <1>1, <1>3
  <2>3. QED BY <2>1, <2>2
<1>5. QED BY <1>1, <1>2, <1>3, <1>4 DEF Last, Front

LEMMA PopIndexStep ==
  ASSUME IInv, PopIndex(Acceptor)
  PROVE  IInv'
<1>1. /\ TypeOK /\ LocalTypes /\ GlobalTypes /\ LocalsOf(Acceptor)
      /\ Control /\ ControlOf(Acceptor) /\ (~foreign => Own /\ Shape(Acceptor))
  BY ConstantFacts, Unfold
<1>2. /\ pc[Acceptor] = "idle" /\ indexStack # <<>>
      /\ idGen' = idGen + 1 /\ pc' = [pc EXCEPT ![Acceptor] = "activate"]
      /\ kind' = [kind EXCEPT ![Acceptor] = "accept"]
      /\ UNCHANGED <<sessionId, socket, sendFlag, connected, sendQ, ioCount,
           sessionCount, active, port, recvIo, sendIo, msgs, calls, foreign,
           announced, gone, sentTo, op, tgt, owed, back, held>>
  BY DEF PopIndex, Goto, fieldVars, boundVars, callVars, decVars, histVars
<1>3. Acceptor \in Threads /\ \A u \in Threads \ {Acceptor} : u # Acceptor
  BY ConstantFacts
<1>4. idGen \in Nat /\ idGen + 1 \in 1 .. MaxAccept
  <2>1. idGen \in Nat /\ MaxAccept \in Nat /\ MaxForeignAccept \in Nat
        /\ MaxForeignAccept <= MaxAccept
    BY <1>1, ConstantFacts DEF GlobalTypes
  <2>2. idGen < MaxAccept
    <3>1. CASE foreign BY <2>1, <3>1 DEF PopIndex
    <3>2. CASE ~foreign BY <3>2 DEF PopIndex
    <3>3. QED BY <3>1, <3>2
  <2>3. QED BY ONLY <2>1, <2>2
<1>5. /\ indexStack \in Seq(Slots) /\ Len(indexStack) \in Nat \ {0}
      /\ Last(indexStack) \in Slots /\ Last(indexStack) = indexStack[Len(indexStack)]
      /\ Front(indexStack) \in Seq(Slots)
      /\ Len(Front(indexStack)) = Len(indexStack) - 1
      /\ \A i \in 1 .. Len(indexStack) - 1 : Front(indexStack)[i] = indexStack[i]
  BY <1>1, <1>2, StackTop DEF GlobalTypes
<1>6. PICK s \in Slots : s = Last(indexStack) BY <1>5
<1>7. PICK g \in Ids : g = <<s, idGen + 1>> /\ SlotOf(g) = s /\ g[2] = idGen + 1
  BY <1>4, ConstantFacts DEF SlotOf
<1>8. /\ cur' = [cur EXCEPT ![Acceptor] = s] /\ sid' = [sid EXCEPT ![Acceptor] = g]
      /\ conn' = [conn EXCEPT ![g] = "open"] /\ indexStack' = Front(indexStack)
  BY <1>6, <1>7 DEF PopIndex
<1>9. /\ pc'[Acceptor] = "activate" /\ kind'[Acceptor] = "accept"
      /\ cur'[Acceptor] = s /\ sid'[Acceptor] = g
      /\ op'[Acceptor] = op[Acceptor] /\ tgt'[Acceptor] = tgt[Acceptor]
      /\ owed'[Acceptor] = owed[Acceptor] /\ back'[Acceptor] = back[Acceptor]
      /\ held'[Acceptor] = held[Acceptor]
  BY <1>1, <1>2, <1>3, <1>8 DEF LocalTypes
<1>10. /\ indexStack' \in Seq(Slots) /\ Len(indexStack') = Len(indexStack) - 1
       /\ \A i \in 1 .. Len(indexStack) - 1 : indexStack'[i] = indexStack[i]
       /\ indexStack[Len(indexStack)] = s
  BY <1>5, <1>6, <1>8
<1>11. Moves(Acceptor) BY <1>1, <1>2, <1>3, <1>8, <1>9 DEF Moves, LocalTypes
<1>12. LocalsOf(Acceptor)' /\ ControlOf(Acceptor)'
  BY <1>1, <1>7, <1>9
  DEF LocalsOf, ControlOf, Labels, InHandler, InSend, InCall, InUse, InDelete
<1>13. GlobalTypes'
  <2>1. /\ idGen' \in 0 .. MaxAccept
        /\ conn' \in [Ids -> {"none", "open", "peerClosed", "closed"}]
    BY <1>1, <1>2, <1>4, <1>8 DEF GlobalTypes
  <2>2. QED BY <1>1, <1>2, <1>10, <2>1 DEF GlobalTypes
<1>14. TypeOK' /\ Goes(Acceptor) /\ ((~foreign => Own') => IInv')
  BY <1>2, <1>3, <1>11, <1>12, <1>13, Fold
<1>15. ASSUME ~foreign PROVE Own'
  <2>1. /\ kind[Acceptor] = "none" /\ owed[Acceptor] = <<>> /\ back[Acceptor] = "idle"
        /\ \A x \in Slots : held[Acceptor][x] = 0
    <3>1. /\ kind[Acceptor] = "none" /\ owed[Acceptor] = <<>> /\ back[Acceptor] = "idle"
          /\ Holds(Acceptor, 0)
      BY <1>1, <1>2, <1>15 DEF Shape
    <3>2. QED BY <3>1 DEF Holds
  <2>2. \A x \in Slots : held'[Acceptor][x] = 0 BY <1>9, <2>1
  <2>3. Shapes'
    <3>1. Shape(Acceptor)'
      <4>1. Holds(Acceptor, IF pc[Acceptor] = "open" THEN 1 ELSE 0)'
        BY <1>9, <2>2 DEF Holds
      <4>2. QED BY <1>7, <1>9, <2>1, <4>1
              DEF Shape, InHandler, InSend, InCall, InUse, InDelete
    <3>2. QED BY <1>1, <1>3, <1>14, <1>15, <3>1, GoesShapes DEF Own
  <2>4. Attached'
    <3>1. ASSUME NEW u \in Threads, kind'[u] \in Serving \/ pc'[u] = "open"
          PROVE  Has(cur[u], sid[u])'
      <4>1. u # Acceptor BY <1>9, <3>1 DEF Serving
      <4>2. QED BY <1>1, <1>2, <1>14, <1>15, <3>1, <4>1 DEF Own, Attached, Goes, Has
    <3>2. QED BY <1>1, <1>2, <1>15, <3>1 DEF Own, Attached, Has
  <2>5. RefsExact'
    <3> SUFFICES ASSUME NEW x \in Slots
                 PROVE  References(x)' = IF ioCount'[x] = DeleteFlag THEN 0 ELSE ioCount'[x]
      BY DEF RefsExact
    <3>1. held'[Acceptor][x] = held[Acceptor][x] /\ held'[Acceptor][x] \in Nat
      BY <2>1, <2>2
    <3>2. /\ References(x)' \in Nat /\ References(x) \in Nat /\ held[Acceptor][x] \in Nat
          /\ References(x)' + held[Acceptor][x] = References(x) + held'[Acceptor][x]
      BY <1>2, <1>3, <1>14, <1>15, <3>1, StillRefs
    <3>3. References(x)' = References(x) BY ONLY <3>1, <3>2
    <3>4. QED BY <1>2, <1>15, <3>3, RefsKept
  <2>6. \A u \in Threads : \A x : Deleting(u, x)' <=> Deleting(u, x)
    <3>1. \A x : ~Deleting(Acceptor, x)' /\ ~Deleting(Acceptor, x)
      BY <1>2, <1>9 DEF Deleting, InDelete
    <3>2. \A u \in Threads \ {Acceptor} : \A x : Deleting(u, x)' <=> Deleting(u, x)
      BY <1>14 DEF Deleting, Goes
    <3>3. QED BY <3>1, <3>2
  <2>7. Lifecycle'
    <3>1. IsInjective(indexStack)
          /\ \A i \in 1 .. Len(indexStack) : Cleared(indexStack[i])
      BY <1>1, <1>15 DEF Own, Lifecycle
    <3>2. DOMAIN indexStack = 1 .. Len(indexStack)
          /\ DOMAIN indexStack' = 1 .. Len(indexStack) - 1
      BY <1>5, <1>10
    <3>3. \A i \in 1 .. Len(indexStack) - 1 : i \in 1 .. Len(indexStack) /\ i # Len(indexStack)
      BY <1>5
    <3>4. Len(indexStack) \in 1 .. Len(indexStack) BY <1>5
    <3>5. IsInjective(indexStack')
      <4>1. \A i, j \in 1 .. Len(indexStack) : indexStack[i] = indexStack[j] => i = j
        BY <3>1, <3>2 DEF IsInjective
      <4>2. \A i, j \in 1 .. Len(indexStack) - 1 : indexStack'[i] = indexStack'[j] => i = j
        BY <1>10, <3>3, <4>1
      <4>3. QED BY <3>2, <4>2 DEF IsInjective
    <3>6. \A i \in 1 .. Len(indexStack') : indexStack'[i] # s
      <4>1. \A i, j \in 1 .. Len(indexStack) : indexStack[i] = indexStack[j] => i = j
        BY <3>1, <3>2 DEF IsInjective
      <4>2. QED BY <1>10, <3>3, <3>4, <4>1
    <3>7. \A x \in Slots : Cleared(x)' <=> Cleared(x)
      BY <1>2 DEF Cleared
    <3>8. ASSUME NEW i \in 1 .. Len(indexStack') PROVE Cleared(indexStack[i])'
      <4>1. indexStack'[i] = indexStack[i] /\ Cleared(indexStack[i])
        BY <1>10, <3>1, <3>3
      <4>2. QED BY <1>2, <4>1 DEF Cleared
    <3>9. Cleared(cur[Acceptor])'
      <4>1. Cleared(s) BY <1>10, <3>1, <3>4
      <4>2. QED BY <1>2, <1>9, <4>1 DEF Cleared
    <3>10. ASSUME NEW u \in Threads, NEW x \in Slots, Deleting(u, x)'
           PROVE  /\ \A i \in 1 .. Len(indexStack') : indexStack'[i] # x
                  /\ pc'[Acceptor] \in {"activate", "open"} => cur'[Acceptor] # x
                  /\ \A v \in Threads : Deleting(v, x)' => v = u
                  /\ Fields(u, x)'
      <4>1. /\ Deleting(u, x)
            /\ \A i \in 1 .. Len(indexStack) : indexStack[i] # x
            /\ \A v \in Threads : Deleting(v, x) => v = u
            /\ Fields(u, x)
        BY <1>1, <1>15, <2>6, <3>10 DEF Own, Lifecycle
      <4>2. \A i \in 1 .. Len(indexStack') : indexStack'[i] # x
        BY <1>10, <3>3, <4>1
      <4>3. cur'[Acceptor] # x BY <1>9, <1>10, <3>4, <4>1
      <4>4. u # Acceptor BY <1>2, <4>1 DEF Deleting, InDelete
      <4>5. pc'[u] = pc[u] /\ kind'[u] = kind[u] BY <1>14, <4>4 DEF Goes
      <4>6. Fields(u, x)' BY <1>2, <4>1, <4>5 DEF Fields, Has
      <4>7. \A v \in Threads : Deleting(v, x)' => v = u BY <2>6, <4>1
      <4>8. QED BY <4>2, <4>3, <4>6, <4>7
    <3>11. QED BY <1>9, <3>5, <3>6, <3>8, <3>9, <3>10 DEF Lifecycle
  <2>8. IndexRight'
    <3>1. PICK a \in Nat, b \in Nat :
            /\ a = Cardinality({u \in Threads : kind[u] = "accept"})
            /\ b = Cardinality({u \in Threads : kind'[u] = "accept"})
      BY <1>3, <1>14, AcceptCount
    <3>2. b + (IF kind[Acceptor] = "accept" THEN 1 ELSE 0)
            = a + (IF kind'[Acceptor] = "accept" THEN 1 ELSE 0)
      BY <1>3, <1>14, <3>1, AcceptCount
    <3>3. b = a + 1
      <4>1. kind[Acceptor] # "accept" /\ kind'[Acceptor] = "accept" BY <1>9, <2>1
      <4>2. QED BY ONLY <3>1, <3>2, <4>1
    <3>4. Len(indexStack) + sessionCount + a = Cardinality(Slots) /\ sessionCount \in Int
      BY <1>1, <1>15, <3>1 DEF Own, IndexRight, GlobalTypes
    <3>5. Len(indexStack') = Len(indexStack) - 1 /\ Len(indexStack) \in Nat
          /\ sessionCount' = sessionCount
      BY <1>2, <1>5, <1>10
    <3>6. Len(indexStack') + sessionCount' + b = Cardinality(Slots)
      BY ONLY <3>1, <3>3, <3>4, <3>5
    <3>7. QED BY <3>1, <3>6 DEF IndexRight
  <2>9. CallsRight'
    <3>1. Acceptor \notin Callers' BY <1>9 DEF Callers, InCall
    <3>2. QED BY <1>2, <1>3, <1>14, <1>15, <3>1, CallsDrop
  <2>10. Sides'
    <3>1. \A x \in Slots : Acceptor \notin Receivers(x)' /\ Acceptor \notin Senders(x)'
      BY <1>9 DEF Receivers, Senders
    <3>2. QED BY <1>2, <1>3, <1>14, <1>15, <3>1, SidesDrop
  <2>11. GoneRight'
    <3>1. GoneRight BY <1>1, <1>15 DEF Own
    <3>2. \A u \in Threads : \A x : Deleting(u, x) /\ pc[u] = "clear"
            => Deleting(u, x)' /\ pc'[u] = "clear"
      BY <1>2, <1>14, <2>6 DEF Goes
    <3>3. \A h \in Ids : h[2] \in Nat /\ (h[2] > idGen' => h[2] > idGen)
      BY <1>2, <1>4, ConstantFacts
    <3>4. \A h \in Ids : sessionId[SlotOf(h)] = h => h \in announced
      BY <2>1, <3>1 DEF GoneRight
    <3>5. g[2] > idGen /\ g[2] <= idGen' BY <1>2, <1>4, <1>7
    <3>6. gone[g] = 0 BY <3>1, <3>5 DEF GoneRight
    <3>7. QED BY <1>2, <1>9, <3>1, <3>2, <3>3, <3>4, <3>5, <3>6 DEF GoneRight
  <2>12. QueueRight' BY <1>1, <1>2, <1>15 DEF Own, QueueRight
  <2>13. QED
    BY <2>3, <2>4, <2>5, <2>7, <2>8, <2>9, <2>10, <2>11, <2>12 DEF Own
<1>16. QED BY <1>14, <1>15

LEMMA ActivateStep ==
  ASSUME IInv, Activate(Acceptor)
  PROVE  IInv'
<1>1. /\ TypeOK /\ LocalTypes /\ GlobalTypes /\ LocalsOf(Acceptor)
      /\ Control /\ ControlOf(Acceptor) /\ (~foreign => Own /\ Shape(Acceptor))
  BY ConstantFacts, Unfold
<1>2. /\ pc[Acceptor] = "activate"
      /\ UNCHANGED <<sendFlag, connected, sendQ, indexStack, idGen, sessionCount,
           active, port, recvIo, sendIo, msgs, calls, foreign, cur, kind, sid, op,
           tgt, announced, gone, sentTo, back>>
  BY DEF Activate, poolVars, boundVars, ctxVars, callVars, histVars, decVars
<1>3. Acceptor \in Threads BY ConstantFacts
<1>4. PICK s \in Slots, g \in Ids :
        s = cur[Acceptor] /\ g = sid[Acceptor] /\ SlotOf(g) = s
  BY <1>1, <1>2 DEF ControlOf
<1> DEFINE begin == /\ ioCount' = [ioCount EXCEPT ![s] = 1]
                    /\ Hold(Acceptor, s)
                    /\ sessionId' = [sessionId EXCEPT ![s] = g]
                    /\ socket' = [socket EXCEPT ![s] = g]
                    /\ pc' = [pc EXCEPT ![Acceptor] = "open"]
                    /\ UNCHANGED <<conn, owed>>
           giveUp == /\ conn' = [conn EXCEPT ![g] = "closed"]
                     /\ owed' = [owed EXCEPT ![Acceptor] = <<s>>]
                     /\ pc' = [pc EXCEPT ![Acceptor] = "clear"]
                     /\ UNCHANGED <<ioCount, held, sessionId, socket>>
<1>5. IF ioCount[s] = 0 THEN begin ELSE giveUp
  BY <1>4 DEF Activate, Goto, decVars
<1> HIDE DEF begin, giveUp
<1>6. /\ held' = [held EXCEPT ![Acceptor] = held'[Acceptor]]
      /\ held'[Acceptor] \in [Slots -> Int]
  <2>1. CASE begin
    <3>1. Hold(Acceptor, s) BY <2>1 DEF begin
    <3>2. QED BY <1>1, <1>3, <3>1, HoldFacts
  <2>2. CASE giveUp BY <1>1, <1>3, <2>2 DEF giveUp, LocalTypes
  <2>3. QED BY <1>5, <2>1, <2>2
<1>7. /\ pc'[Acceptor] \in {"open", "clear"} /\ pc' = [pc EXCEPT ![Acceptor] = pc'[Acceptor]]
      /\ owed' = [owed EXCEPT ![Acceptor] = owed'[Acceptor]]
      /\ owed'[Acceptor] \in Seq(Slots)
      /\ pc'[Acceptor] = "clear" => owed'[Acceptor] # <<>>
  <2>1. CASE begin BY <1>1, <1>3, <2>1 DEF begin, LocalTypes
  <2>2. CASE giveUp BY <1>1, <1>3, <2>2, OneOwed DEF giveUp, LocalTypes
  <2>3. QED BY <1>5, <2>1, <2>2
<1>8. /\ cur'[Acceptor] = s /\ sid'[Acceptor] = g
      /\ kind'[Acceptor] = kind[Acceptor] /\ op'[Acceptor] = op[Acceptor]
      /\ tgt'[Acceptor] = tgt[Acceptor] /\ back'[Acceptor] = back[Acceptor]
  BY <1>2, <1>4
<1>9. Moves(Acceptor)
  BY <1>1, <1>2, <1>3, <1>6, <1>7 DEF Moves, LocalTypes
<1>10. LocalsOf(Acceptor)' /\ ControlOf(Acceptor)'
  BY <1>1, <1>4, <1>6, <1>7, <1>8
  DEF LocalsOf, ControlOf, Labels, InHandler, InSend, InCall, InUse, InDelete
<1>11. GlobalTypes'
  <2>1. /\ ioCount' \in [Slots -> Int]
        /\ sessionId' \in [Slots -> Ids \cup {NoId}]
        /\ socket' \in [Slots -> Ids \cup {NoId}]
        /\ conn' \in [Ids -> {"none", "open", "peerClosed", "closed"}]
    <3>1. CASE begin BY <1>1, <3>1 DEF begin, GlobalTypes
    <3>2. CASE giveUp BY <1>1, <3>2 DEF giveUp, GlobalTypes
    <3>3. QED BY <1>5, <3>1, <3>2
  <2>2. QED BY <1>1, <1>2, <2>1 DEF GlobalTypes
<1>12. TypeOK' /\ Goes(Acceptor) /\ ((~foreign => Own') => IInv')
  BY <1>2, <1>3, <1>9, <1>10, <1>11, Fold
<1>13. ASSUME ~foreign PROVE Own'
  <2>1. /\ Cleared(s) /\ \A i \in 1 .. Len(indexStack) : indexStack[i] # s
    BY <1>1, <1>2, <1>4, <1>13 DEF Own, Lifecycle
  <2>2. /\ kind[Acceptor] = "accept" /\ owed[Acceptor] = <<>> /\ back[Acceptor] = "idle"
        /\ \A x \in Slots : held[Acceptor][x] = 0
    <3>1. /\ kind[Acceptor] = "accept" /\ owed[Acceptor] = <<>> /\ back[Acceptor] = "idle"
          /\ Holds(Acceptor, IF pc[Acceptor] = "open" THEN 1 ELSE 0)
      BY <1>1, <1>2, <1>13 DEF Shape
    <3>2. Holds(Acceptor, 0) BY <1>2, <3>1
    <3>3. QED BY <3>1, <3>2 DEF Holds
  <2>3. ioCount[s] = 0 /\ sessionId[s] = NoId /\ sendQ[s] = <<>>
    BY <2>1 DEF Cleared
  <2>4. begin BY <1>5, <2>3
  <2>5. /\ ioCount'[s] = 1 /\ sessionId'[s] = g /\ socket'[s] = g
        /\ \A x \in Slots \ {s} : /\ ioCount'[x] = ioCount[x]
                                  /\ sessionId'[x] = sessionId[x] /\ socket'[x] = socket[x]
        /\ pc'[Acceptor] = "open" /\ owed'[Acceptor] = <<>>
    BY <1>1, <1>3, <2>2, <2>4 DEF begin, GlobalTypes, LocalTypes
  <2>6. \A x \in Slots : held'[Acceptor][x] = IF x = s THEN 1 ELSE 0
    <3>1. Hold(Acceptor, s) BY <2>4 DEF begin
    <3>2. \A x \in Slots : held'[Acceptor][x] =
            IF x = s THEN held[Acceptor][x] + 1 ELSE held[Acceptor][x]
      BY <1>1, <1>3, <3>1, HoldFacts
    <3>3. 0 + 1 = 1 OBVIOUS
    <3>4. QED BY <2>2, <3>2, <3>3
  <2>7. Shapes'
    <3>1. Shape(Acceptor)'
      <4>1. Holds(Acceptor, IF pc[Acceptor] = "open" THEN 1 ELSE 0)'
        BY <1>8, <2>5, <2>6 DEF Holds
      <4>2. QED BY <1>4, <1>8, <2>2, <2>5, <4>1
              DEF Shape, InHandler, InSend, InCall, InUse, InDelete
    <3>2. QED BY <1>1, <1>3, <1>12, <1>13, <3>1, GoesShapes DEF Own
  <2>8. \A x \in Slots, h \in Ids : Has(x, h) => x # s /\ Has(x, h)'
    BY <2>3, <2>5, ConstantFacts DEF Has
  <2>9. Attached'
    <3>1. ASSUME NEW u \in Threads, kind'[u] \in Serving \/ pc'[u] = "open"
          PROVE  Has(cur[u], sid[u])'
      <4>1. CASE u = Acceptor BY <1>8, <2>5, <4>1 DEF Has
      <4>2. CASE u # Acceptor
        <5>1. /\ kind[u] \in Serving \/ pc[u] = "open"
              /\ cur'[u] = cur[u] /\ sid'[u] = sid[u]
          BY <1>12, <3>1, <4>2 DEF Goes
        <5>2. Has(cur[u], sid[u]) BY <1>1, <1>13, <5>1 DEF Own, Attached
        <5>3. cur[u] \in Slots /\ sid[u] \in Ids
          BY <1>1, <1>13, <5>1 DEF Own, Shapes, Shape, Control, Serving
        <5>4. PICK x \in Slots, h \in Ids : x = cur[u] /\ h = sid[u] BY <5>3
        <5>5. Has(x, h)' BY <2>8, <5>2, <5>4
        <5>6. QED BY <5>1, <5>4, <5>5 DEF Has
      <4>3. QED BY <4>1, <4>2
    <3>2. ASSUME NEW i \in 1 .. Len(port')
          PROVE  port'[i].slot = SlotOf(port'[i].sid) /\ Has(port[i].slot, port[i].sid)'
      <4>1. /\ Placed(port[i]) /\ port \in Seq(Completions) /\ port' = port
            /\ i \in 1 .. Len(port)
        BY <1>2, <1>13, <3>2, PlacedNow
      <4>2. port[i] \in Completions BY <4>1
      <4>3. PICK x \in Slots, h \in Ids : x = port[i].slot /\ h = port[i].sid
        BY <4>2 DEF Completions
      <4>4. Has(x, h)' BY <2>8, <4>1, <4>3 DEF Placed
      <4>5. QED BY <4>1, <4>3, <4>4 DEF Placed, Has
    <3>3. ASSUME NEW h \in Ids, recvIo'[h] > 0 \/ sendIo'[h] > 0
          PROVE  Has(SlotOf(h), h)'
      <4>1. Has(SlotOf(h), h) BY <1>2, <1>13, <3>3, PlacedNow
      <4>2. PICK x \in Slots : x = SlotOf(h) BY ConstantFacts
      <4>3. Has(x, h)' BY <2>8, <4>1, <4>2
      <4>4. QED BY <4>2, <4>3 DEF Has
    <3>4. QED BY <3>1, <3>2, <3>3 DEF Attached
  <2>10. RefsExact'
    <3> SUFFICES ASSUME NEW x \in Slots
                 PROVE  References(x)' = IF ioCount'[x] = DeleteFlag THEN 0 ELSE ioCount'[x]
      BY DEF RefsExact
    <3>1. held[Acceptor][x] = 0 /\ held'[Acceptor][x] \in Nat
          /\ held'[Acceptor][x] = IF x = s THEN 1 ELSE 0
      BY <2>2, <2>6
    <3>2. /\ References(x)' \in Nat /\ References(x) \in Nat
          /\ References(x)' + held[Acceptor][x] = References(x) + held'[Acceptor][x]
      BY <1>2, <1>3, <1>12, <1>13, <3>1, StillRefs
    <3>3. CASE x = s
      <4>1. References(x) = 0
        BY <1>1, <1>13, <2>3, <3>3 DEF Own, RefsExact, DeleteFlag
      <4>2. held'[Acceptor][x] = 1 BY <3>1, <3>3
      <4>3. References(x)' = 1 BY ONLY <3>1, <3>2, <4>1, <4>2
      <4>4. QED BY <2>5, <3>3, <4>3 DEF DeleteFlag
    <3>4. CASE x # s
      <4>1. held'[Acceptor][x] = 0 BY <3>1, <3>4
      <4>2. References(x)' = References(x) BY ONLY <3>1, <3>2, <4>1
      <4>3. QED BY <1>13, <2>5, <3>4, <4>2, RefsKept
    <3>5. QED BY <3>3, <3>4
  <2>11. \A u \in Threads : \A x : Deleting(u, x)' <=> Deleting(u, x)
    <3>1. \A x : ~Deleting(Acceptor, x)' /\ ~Deleting(Acceptor, x)
      BY <1>2, <2>5 DEF Deleting, InDelete
    <3>2. \A u \in Threads \ {Acceptor} : \A x : Deleting(u, x)' <=> Deleting(u, x)
      BY <1>12 DEF Deleting, Goes
    <3>3. QED BY <3>1, <3>2
  <2>12. Lifecycle'
    <3>1. IsInjective(indexStack)' BY <1>1, <1>2, <1>13 DEF Own, Lifecycle, IsInjective
    <3>2. ASSUME NEW i \in 1 .. Len(indexStack') PROVE Cleared(indexStack[i])'
      <4>1. indexStack[i] \in Slots /\ indexStack[i] # s
        BY <1>1, <1>2, <2>1 DEF GlobalTypes
      <4>2. Cleared(indexStack[i]) BY <1>1, <1>2, <1>13 DEF Own, Lifecycle
      <4>3. QED BY <1>2, <2>5, <4>1, <4>2 DEF Cleared
    <3>3. ioCount'[cur'[Acceptor]] = 1 BY <1>8, <2>5
    <3>4. ASSUME NEW u \in Threads, NEW x \in Slots, Deleting(u, x)'
          PROVE  /\ \A i \in 1 .. Len(indexStack') : indexStack'[i] # x
                 /\ pc'[Acceptor] \in {"activate", "open"} => cur'[Acceptor] # x
                 /\ \A v \in Threads : Deleting(v, x)' => v = u
                 /\ Fields(u, x)'
      <4>1. /\ Deleting(u, x)
            /\ \A i \in 1 .. Len(indexStack) : indexStack[i] # x
            /\ cur[Acceptor] # x
            /\ \A v \in Threads : Deleting(v, x) => v = u
            /\ Fields(u, x)
        BY <1>1, <1>2, <1>13, <2>11, <3>4 DEF Own, Lifecycle
      <4>2. x # s BY <1>4, <4>1
      <4>3. u # Acceptor BY <1>2, <4>1 DEF Deleting, InDelete
      <4>4. pc'[u] = pc[u] /\ kind'[u] = kind[u] BY <1>12, <4>3 DEF Goes
      <4>5. Fields(u, x)' BY <1>2, <2>5, <4>1, <4>2, <4>4 DEF Fields, Has
      <4>6. \A v \in Threads : Deleting(v, x)' => v = u BY <2>11, <4>1
      <4>7. QED BY <1>2, <1>8, <4>1, <4>2, <4>5, <4>6
    <3>5. QED BY <2>5, <3>1, <3>2, <3>3, <3>4 DEF Lifecycle
  <2>13. IndexRight' BY <1>1, <1>2, <1>13 DEF Own, IndexRight
  <2>14. CallsRight'
    <3>1. Acceptor \notin Callers' BY <2>5 DEF Callers, InCall
    <3>2. QED BY <1>2, <1>3, <1>12, <1>13, <3>1, CallsDrop
  <2>15. Sides'
    <3>1. \A x \in Slots : Acceptor \notin Receivers(x)' /\ Acceptor \notin Senders(x)'
      BY <1>8, <2>2, <2>5 DEF Receivers, Senders
    <3>2. QED BY <1>2, <1>3, <1>12, <1>13, <3>1, SidesDrop
  <2>16. GoneRight'
    <3>1. GoneRight BY <1>1, <1>13 DEF Own
    <3>2. \A u \in Threads : \A x : Deleting(u, x) /\ pc[u] = "clear"
            => Deleting(u, x)' /\ pc'[u] = "clear"
      BY <1>2, <1>12, <2>11 DEF Goes
    <3>3. \A h \in Ids : sessionId'[SlotOf(h)] = h =>
            h = g \/ (SlotOf(h) # s /\ sessionId[SlotOf(h)] = h)
      BY <2>5, ConstantFacts
    <3>4. gone[g] = 0 /\ g[2] <= idGen
      BY <1>4, <2>2, <3>1 DEF GoneRight
    <3>5. g[2] \in Nat /\ idGen \in Nat BY <1>1, ConstantFacts DEF GlobalTypes
    <3>6. ~(g[2] > idGen) BY ONLY <3>4, <3>5
    <3>7. QED
      BY <1>2, <1>4, <1>8, <2>2, <3>1, <3>2, <3>3, <3>4, <3>6 DEF GoneRight
  <2>17. QueueRight'
    <3>1. /\ \A x \in Slots : \A i \in 1 .. Len(sendQ[x]) : sendQ[x][i] = sessionId[x]
          /\ \A p \in sentTo : p[1] = p[2]
      BY <1>1, <1>13 DEF Own, QueueRight
    <3>2. Len(sendQ[s]) = 0 BY <2>3, NoneOwed
    <3>3. QED BY <1>2, <2>5, <3>1, <3>2 DEF QueueRight
  <2>18. QED
    BY <2>7, <2>9, <2>10, <2>12, <2>13, <2>14, <2>15, <2>16, <2>17 DEF Own
<1>14. QED BY <1>12, <1>13

LEMMA OpenStep ==
  ASSUME IInv, Open(Acceptor)
  PROVE  IInv'
<1>1. /\ TypeOK /\ LocalTypes /\ GlobalTypes /\ LocalsOf(Acceptor)
      /\ Control /\ ControlOf(Acceptor) /\ (~foreign => Own /\ Shape(Acceptor))
  BY ConstantFacts, Unfold
<1>2. /\ pc[Acceptor] = "open"
      /\ UNCHANGED <<sessionId, socket, ioCount, sendQ, indexStack, idGen, port,
           recvIo, sendIo, msgs, calls, foreign, cur, sid, op, tgt, gone, sentTo,
           held, back>>
  BY DEF Open, boundVars, callVars, decVars
<1>3. Acceptor \in Threads BY ConstantFacts
<1>4. PICK s \in Slots, g \in Ids :
        s = cur[Acceptor] /\ g = sid[Acceptor] /\ SlotOf(g) = s
  BY <1>1, <1>2 DEF ControlOf
<1> DEFINE begin == /\ sessionCount' = sessionCount + 1
                    /\ announced' = announced \cup {g}
                    /\ kind' = [kind EXCEPT ![Acceptor] = "connect"]
                    /\ pc' = [pc EXCEPT ![Acceptor] = "handler"]
                    /\ UNCHANGED <<conn, owed>>
           giveUp == /\ conn' = [conn EXCEPT ![g] = "closed"]
                     /\ owed' = [owed EXCEPT ![Acceptor] = <<s>>]
                     /\ pc' = [pc EXCEPT ![Acceptor] = "clear"]
                     /\ UNCHANGED <<sessionCount, announced, kind>>
<1>5. /\ sendFlag' = [sendFlag EXCEPT ![s] = FALSE]
      /\ connected' = [connected EXCEPT ![s] = TRUE]
      /\ active' = active \cup {g}
  BY <1>4 DEF Open
<1>6. begin \/ giveUp
  BY <1>4 DEF Open, Goto, decVars
<1> HIDE DEF begin, giveUp
<1>7. /\ sendFlag'[s] = FALSE /\ sendFlag' \in [Slots -> BOOLEAN]
      /\ connected' \in [Slots -> BOOLEAN]
      /\ \A x \in Slots \ {s} : sendFlag'[x] = sendFlag[x] /\ connected'[x] = connected[x]
  BY <1>1, <1>5 DEF GlobalTypes
<1>8. /\ cur'[Acceptor] = s /\ sid'[Acceptor] = g
      /\ op'[Acceptor] = op[Acceptor] /\ tgt'[Acceptor] = tgt[Acceptor]
      /\ back'[Acceptor] = back[Acceptor] /\ held'[Acceptor] = held[Acceptor]
      /\ held' = [held EXCEPT ![Acceptor] = held'[Acceptor]]
      /\ held'[Acceptor] \in [Slots -> Int]
  BY <1>1, <1>2, <1>3, <1>4 DEF LocalTypes
<1>9. /\ pc' = [pc EXCEPT ![Acceptor] = pc'[Acceptor]]
      /\ owed' = [owed EXCEPT ![Acceptor] = owed'[Acceptor]]
      /\ kind' = [kind EXCEPT ![Acceptor] = kind'[Acceptor]]
      /\ owed'[Acceptor] \in Seq(Slots)
      /\ \/ /\ begin /\ pc'[Acceptor] = "handler" /\ kind'[Acceptor] = "connect"
            /\ owed'[Acceptor] = owed[Acceptor]
         \/ /\ giveUp /\ pc'[Acceptor] = "clear" /\ kind'[Acceptor] = kind[Acceptor]
            /\ owed'[Acceptor] = <<s>> /\ owed'[Acceptor] # <<>>
            /\ Len(owed'[Acceptor]) = 1 /\ Head(owed'[Acceptor]) = s
  <2>1. CASE begin BY <1>1, <1>3, <2>1 DEF begin, LocalTypes
  <2>2. CASE giveUp BY <1>1, <1>3, <2>2, OneOwed DEF giveUp, LocalTypes
  <2>3. QED BY <1>6, <2>1, <2>2
<1>10. Moves(Acceptor) BY <1>1, <1>2, <1>3, <1>8, <1>9 DEF Moves, LocalTypes
<1>11. LocalsOf(Acceptor)' /\ ControlOf(Acceptor)'
  BY <1>1, <1>4, <1>8, <1>9
  DEF LocalsOf, ControlOf, Labels, InHandler, InSend, InCall, InUse, InDelete
<1>12. GlobalTypes'
  <2>1. /\ active' \subseteq Ids \cup {NoId} /\ announced' \subseteq Ids
        /\ sessionCount' \in Int
        /\ conn' \in [Ids -> {"none", "open", "peerClosed", "closed"}]
    <3>1. active' \subseteq Ids \cup {NoId} BY <1>1, <1>5 DEF GlobalTypes
    <3>2. CASE begin BY <1>1, <3>1, <3>2 DEF begin, GlobalTypes
    <3>3. CASE giveUp BY <1>1, <3>1, <3>3 DEF giveUp, GlobalTypes
    <3>4. QED BY <1>6, <3>2, <3>3
  <2>2. QED BY <1>1, <1>2, <1>7, <2>1 DEF GlobalTypes
<1>13. TypeOK' /\ Goes(Acceptor) /\ ((~foreign => Own') => IInv')
  BY <1>2, <1>3, <1>10, <1>11, <1>12, Fold
<1>14. ASSUME ~foreign PROVE Own'
  <2>1. ioCount[s] = 1 BY <1>1, <1>2, <1>4, <1>14 DEF Own, Lifecycle
  <2>2. Has(s, g) BY <1>1, <1>2, <1>3, <1>4, <1>14 DEF Own, Attached
  <2>3. /\ kind[Acceptor] = "accept" /\ owed[Acceptor] = <<>> /\ back[Acceptor] = "idle"
        /\ \A x \in Slots : held[Acceptor][x] = IF x = s THEN 1 ELSE 0
    <3>1. /\ kind[Acceptor] = "accept" /\ owed[Acceptor] = <<>> /\ back[Acceptor] = "idle"
          /\ Holds(Acceptor, IF pc[Acceptor] = "open" THEN 1 ELSE 0)
      BY <1>1, <1>2, <1>14 DEF Shape
    <3>2. Holds(Acceptor, 1) BY <1>2, <3>1
    <3>3. QED BY <1>4, <3>1, <3>2 DEF Holds
  <2>4. Shapes'
    <3>1. \A x \in Slots : held'[Acceptor][x] = IF x = s THEN 1 ELSE 0
      BY <1>8, <2>3
    <3>2. CASE pc'[Acceptor] = "handler" /\ kind'[Acceptor] = "connect"
                 /\ owed'[Acceptor] = owed[Acceptor]
      <4>1. Attachment(Acceptor)' BY <1>4, <1>8 DEF Attachment
      <4>2. pc'[Acceptor] \in InHandler /\ kind'[Acceptor] \in {"connect", "recv"}
            /\ owed'[Acceptor] = <<>>
        BY <2>3, <3>2 DEF InHandler
      <4>3. \A x \in Slots : held'[Acceptor][x] = IF x = cur'[Acceptor] THEN 1 ELSE 0
        BY <1>8, <3>1
      <4>4. Shape(Acceptor)' BY <1>3, <4>1, <4>2, <4>3, ShapeServe
      <4>5. QED BY <1>1, <1>3, <1>13, <1>14, <4>4, GoesShapes DEF Own
    <3>3. CASE /\ pc'[Acceptor] = "clear" /\ kind'[Acceptor] = kind[Acceptor]
               /\ Len(owed'[Acceptor]) = 1 /\ Head(owed'[Acceptor]) = s
      <4>1. Holds(Acceptor, IF pc[Acceptor] = "recycle" THEN 0 ELSE 1)'
        BY <1>8, <3>1, <3>3 DEF Holds
      <4>2. Shape(Acceptor)'
        BY <1>4, <1>8, <2>3, <3>3, <4>1
        DEF Shape, InHandler, InSend, InCall, InUse, InDelete
      <4>3. QED BY <1>1, <1>3, <1>13, <1>14, <4>2, GoesShapes DEF Own
    <3>4. QED BY <1>9, <3>2, <3>3
  <2>5. Attached'
    <3>1. ASSUME NEW u \in Threads, kind'[u] \in Serving \/ pc'[u] = "open"
          PROVE  Has(cur[u], sid[u])'
      <4>1. CASE u = Acceptor BY <1>2, <1>8, <2>2, <4>1 DEF Has
      <4>2. CASE u # Acceptor
        BY <1>1, <1>2, <1>13, <1>14, <3>1, <4>2 DEF Own, Attached, Goes, Has
      <4>3. QED BY <4>1, <4>2
    <3>2. QED BY <1>1, <1>2, <1>14, <3>1 DEF Own, Attached, Has
  <2>6. RefsExact'
    <3> SUFFICES ASSUME NEW x \in Slots
                 PROVE  References(x)' = IF ioCount'[x] = DeleteFlag THEN 0 ELSE ioCount'[x]
      BY DEF RefsExact
    <3>1. held'[Acceptor][x] = held[Acceptor][x] /\ held'[Acceptor][x] \in Nat
      BY <1>8, <2>3
    <3>2. /\ References(x)' \in Nat /\ References(x) \in Nat /\ held[Acceptor][x] \in Nat
          /\ References(x)' + held[Acceptor][x] = References(x) + held'[Acceptor][x]
      BY <1>2, <1>3, <1>13, <1>14, <3>1, StillRefs
    <3>3. References(x)' = References(x) BY ONLY <3>1, <3>2
    <3>4. QED BY <1>2, <1>14, <3>3, RefsKept
  <2>7. \A i \in 1 .. Len(indexStack) : indexStack[i] \in Slots /\ indexStack[i] # s
    <3>1. ASSUME NEW i \in 1 .. Len(indexStack)
          PROVE  indexStack[i] \in Slots /\ indexStack[i] # s
      <4>1. indexStack[i] \in Slots BY <1>1 DEF GlobalTypes
      <4>2. ioCount[indexStack[i]] = 0 BY <1>1, <1>14 DEF Own, Lifecycle, Cleared
      <4>3. QED BY <2>1, <4>1, <4>2
    <3>2. QED BY <3>1
  <2>8. \A u \in Threads : ~Deleting(u, s)
    BY <1>1, <1>2, <1>4, <1>14 DEF Own, Lifecycle
  <2>9. \A u \in Threads \ {Acceptor} : \A x : Deleting(u, x)' <=> Deleting(u, x)
    BY <1>13 DEF Deleting, Goes
  <2>10. \A x : ~Deleting(Acceptor, x) /\ (Deleting(Acceptor, x)' => x = s)
    BY <1>2, <1>9 DEF Deleting, InDelete
  <2>11. Lifecycle'
    <3>1. IsInjective(indexStack)' BY <1>1, <1>2, <1>14 DEF Own, Lifecycle, IsInjective
    <3>2. ASSUME NEW i \in 1 .. Len(indexStack') PROVE Cleared(indexStack[i])'
      <4>1. indexStack[i] \in Slots \ {s} /\ Cleared(indexStack[i])
        BY <1>1, <1>2, <1>14, <2>7 DEF Own, Lifecycle
      <4>2. QED BY <1>2, <1>7, <4>1 DEF Cleared
    <3>3. pc'[Acceptor] \notin {"activate", "open"} BY <1>9
    <3>4. ASSUME NEW u \in Threads, NEW x \in Slots, Deleting(u, x)'
          PROVE  /\ \A i \in 1 .. Len(indexStack') : indexStack'[i] # x
                 /\ \A v \in Threads : Deleting(v, x)' => v = u
                 /\ Fields(u, x)'
      <4>1. CASE u = Acceptor
        <5>1. x = s BY <2>10, <3>4, <4>1
        <5>2. \A v \in Threads : Deleting(v, x)' => v = u BY <2>8, <2>9, <4>1, <5>1
        <5>3. pc'[u] = "clear" /\ kind'[u] = "accept"
          BY <1>9, <2>3, <3>4, <4>1 DEF Deleting, InDelete
        <5>4. Has(s, g)' /\ ioCount'[s] = 1 BY <1>2, <2>1, <2>2 DEF Has
        <5>5. Fields(u, x)' BY <1>4, <5>1, <5>3, <5>4 DEF Fields
        <5>6. QED BY <1>2, <2>7, <5>1, <5>2, <5>5
      <4>2. CASE u # Acceptor
        <5>1. Deleting(u, x) BY <2>9, <3>4, <4>2
        <5>2. x # s BY <2>8, <5>1
        <5>3. /\ \A i \in 1 .. Len(indexStack) : indexStack[i] # x
              /\ \A v \in Threads : Deleting(v, x) => v = u
              /\ Fields(u, x)
          BY <1>1, <1>14, <5>1 DEF Own, Lifecycle
        <5>4. pc'[u] = pc[u] /\ kind'[u] = kind[u] BY <1>13, <4>2 DEF Goes
        <5>5. Fields(u, x)' BY <1>2, <5>3, <5>4 DEF Fields, Has
        <5>6. \A v \in Threads : Deleting(v, x)' => v = u BY <2>9, <2>10, <5>2, <5>3
        <5>7. QED BY <1>2, <5>3, <5>5, <5>6
      <4>3. QED BY <4>1, <4>2
    <3>5. QED BY <3>1, <3>2, <3>3, <3>4 DEF Lifecycle
  <2>12. IndexRight'
    <3>1. PICK a \in Nat, b \in Nat :
            /\ a = Cardinality({u \in Threads : kind[u] = "accept"})
            /\ b = Cardinality({u \in Threads : kind'[u] = "accept"})
      BY <1>3, <1>13, AcceptCount
    <3>2. b + (IF kind[Acceptor] = "accept" THEN 1 ELSE 0)
            = a + (IF kind'[Acceptor] = "accept" THEN 1 ELSE 0)
      BY <1>3, <1>13, <3>1, AcceptCount
    <3>3. Len(indexStack) + sessionCount + a = Cardinality(Slots) /\ sessionCount \in Int
          /\ Len(indexStack) \in Nat /\ indexStack' = indexStack
      BY <1>1, <1>2, <1>14, <3>1 DEF Own, IndexRight, GlobalTypes
    <3>4. Len(indexStack) + sessionCount' + b = Cardinality(Slots)
      <4>1. CASE begin /\ kind'[Acceptor] = "connect"
        <5>1. kind[Acceptor] = "accept" /\ kind'[Acceptor] # "accept"
          BY <2>3, <4>1
        <5>2. b + 1 = a BY ONLY <3>1, <3>2, <5>1
        <5>3. sessionCount' = sessionCount + 1 BY <4>1 DEF begin
        <5>4. QED BY ONLY <3>1, <3>3, <5>2, <5>3
      <4>2. CASE giveUp /\ kind'[Acceptor] = kind[Acceptor]
        <5>1. kind[Acceptor] = "accept" /\ kind'[Acceptor] = "accept"
          BY <2>3, <4>2
        <5>2. b = a BY ONLY <3>1, <3>2, <5>1
        <5>3. sessionCount' = sessionCount BY <4>2 DEF giveUp
        <5>4. QED BY ONLY <3>1, <3>3, <5>2, <5>3
      <4>3. QED BY <1>9, <4>1, <4>2
    <3>5. QED BY <3>1, <3>3, <3>4 DEF IndexRight
  <2>13. CallsRight'
    <3>1. Acceptor \notin Callers' BY <1>9 DEF Callers, InCall
    <3>2. QED BY <1>2, <1>3, <1>13, <1>14, <3>1, CallsDrop
  <2>14. Sides'
    <3> SUFFICES ASSUME NEW x \in Slots
                 PROVE  /\ RecvSide(x)' <= 1 /\ SendSide(x)' <= 1
                        /\ SendSide(x)' = 1 => sendFlag'[x]
      BY DEF Sides
    <3>1. /\ RecvSide(x)' \in Nat /\ SendSide(x)' \in Nat
          /\ RecvSide(x) \in Nat /\ SendSide(x) \in Nat
          /\ RecvSide(x)' + (IF Acceptor \in Receivers(x) THEN 1 ELSE 0)
               = RecvSide(x) + (IF Acceptor \in Receivers(x)' THEN 1 ELSE 0)
          /\ SendSide(x)' + (IF Acceptor \in Senders(x) THEN 1 ELSE 0)
               = SendSide(x) + (IF Acceptor \in Senders(x)' THEN 1 ELSE 0)
      BY <1>2, <1>3, <1>13, <1>14, StillSides
    <3>2. Acceptor \notin Receivers(x) /\ Acceptor \notin Senders(x)
      BY <1>2, <2>3 DEF Receivers, Senders
    <3>3. Acceptor \notin Senders(x)' BY <1>9 DEF Senders
    <3>4. CASE x = s
      <4>1. References(x) = held[Acceptor][x]
        <5>1. held[Acceptor][x] = 1 BY <2>3, <3>4
        <5>2. References(x) = 1
          BY <1>1, <1>14, <2>1, <3>4 DEF Own, RefsExact, DeleteFlag
        <5>3. QED BY <5>1, <5>2
      <4>2. RecvSide(x) = 0 /\ SendSide(x) = 0
        BY <1>3, <1>14, <3>2, <4>1, AloneSides
      <4>3. RecvSide(x)' <= 1 /\ SendSide(x)' = 0 BY ONLY <3>1, <3>2, <3>3, <4>2
      <4>4. QED BY <4>3
    <3>5. CASE x # s
      <4>1. Acceptor \notin Receivers(x)' BY <1>8, <3>5 DEF Receivers
      <4>2. RecvSide(x)' = RecvSide(x) /\ SendSide(x)' = SendSide(x)
        BY ONLY <3>1, <3>2, <3>3, <4>1
      <4>3. RecvSide(x) <= 1 /\ SendSide(x) <= 1 /\ (SendSide(x) = 1 => sendFlag[x])
        BY <1>1, <1>14 DEF Own, Sides
      <4>4. QED BY <1>7, <3>5, <4>2, <4>3
    <3>6. QED BY <3>4, <3>5
  <2>15. GoneRight'
    <3>1. GoneRight BY <1>1, <1>14 DEF Own
    <3>2. \A u \in Threads : \A x : Deleting(u, x) /\ pc[u] = "clear"
            => Deleting(u, x)' /\ pc'[u] = "clear"
      BY <1>2, <1>13, <2>9, <2>10 DEF Goes
    <3>3. ASSUME NEW h \in Ids, sessionId[SlotOf(h)] = h
          PROVE  h \in announced' \/ (kind'[Acceptor] = "accept" /\ cur'[Acceptor] = SlotOf(h))
      <4>1. h \in announced \/ cur[Acceptor] = SlotOf(h) BY <3>1, <3>3 DEF GoneRight
      <4>2. cur[Acceptor] = SlotOf(h) => h = g BY <1>4, <2>2, <3>3 DEF Has
      <4>3. CASE begin
        <5>1. announced' = announced \cup {g} BY <4>3 DEF begin
        <5>2. QED BY <4>1, <4>2, <5>1
      <4>4. CASE giveUp
        <5>1. announced' = announced /\ kind' = kind BY <4>4 DEF giveUp
        <5>2. QED BY <1>2, <2>3, <4>1, <5>1
      <4>5. QED BY <1>6, <4>3, <4>4
    <3>4. announced \subseteq announced'
      <4>1. CASE begin BY <4>1 DEF begin
      <4>2. CASE giveUp BY <4>2 DEF giveUp
      <4>3. QED BY <1>6, <4>1, <4>2
    <3>5. gone[sid[Acceptor]] = 0 /\ sid[Acceptor][2] <= idGen
      BY <2>3, <3>1 DEF GoneRight
    <3>6. QED BY <1>2, <3>1, <3>2, <3>3, <3>4, <3>5 DEF GoneRight
  <2>16. QueueRight' BY <1>1, <1>2, <1>14 DEF Own, QueueRight
  <2>17. QED
    BY <2>4, <2>5, <2>6, <2>11, <2>12, <2>13, <2>14, <2>15, <2>16 DEF Own
<1>15. QED BY <1>13, <1>14

-----------------------------------------------------------------------------
(* A worker takes a completion, and its reference, from the port.           *)
LEMMA DequeueStep ==
  ASSUME IInv, NEW t \in Threads, Dequeue(t)
  PROVE  IInv'
<1>1. /\ TypeOK /\ LocalTypes /\ GlobalTypes /\ LocalsOf(t)
      /\ Control /\ ControlOf(t) /\ (~foreign => Own /\ Shape(t))
  BY Unfold
<1>2. /\ pc[t] = "idle" /\ port # <<>> /\ port' = Tail(port)
      /\ UNCHANGED <<sessionId, socket, sendFlag, connected, sendQ, ioCount,
           indexStack, idGen, sessionCount, active, conn, recvIo, sendIo, msgs,
           calls, foreign, op, tgt, announced, gone, sentTo>>
  BY DEF Dequeue, fieldVars, poolVars, kernelVars, boundVars, callVars, histVars
<1>3. port \in Seq(Completions) /\ Head(port) \in Completions /\ Tail(port) \in Seq(Completions)
  <2>1. port \in Seq(Completions) BY <1>1 DEF GlobalTypes
  <2>2. QED BY <1>2, <2>1
<1>4. PICK e \in Completions : e = Head(port) BY <1>3
<1>5. /\ e.slot \in Slots /\ e.sid \in Ids /\ e.bytes \in BOOLEAN
      /\ e.kind \in {"recv", "send", "request"}
  BY DEF Completions
<1>6. PICK s \in Slots, g \in Ids : s = e.slot /\ g = e.sid BY <1>5
<1>7. /\ cur' = [cur EXCEPT ![t] = s] /\ sid' = [sid EXCEPT ![t] = g]
      /\ kind' = [kind EXCEPT ![t] = e.kind] /\ Hold(t, s)
  BY <1>4, <1>6 DEF Dequeue
<1>8. \/ /\ e.bytes /\ owed' = owed /\ back' = back
         /\ \/ e.kind = "recv" /\ pc' = [pc EXCEPT ![t] = "handler"]
            \/ e.kind = "send" /\ pc' = [pc EXCEPT ![t] = "sent"]
            \/ e.kind = "request" /\ pc' = [pc EXCEPT ![t] = "sendCheck"]
      \/ /\ ~e.bytes /\ pc' = [pc EXCEPT ![t] = "dec"]
         /\ owed' = [owed EXCEPT ![t] = <<s>>] /\ back' = [back EXCEPT ![t] = "idle"]
  BY <1>4, <1>5, <1>6 DEF Dequeue, Goto, DecreaseThen, decVars
<1>9. /\ held' = [held EXCEPT ![t] = held'[t]] /\ held'[t] \in [Slots -> Int]
      /\ \A x \in Slots : held'[t][x] = IF x = s THEN held[t][x] + 1 ELSE held[t][x]
  BY <1>1, <1>7, HoldFacts
<1>10. /\ cur'[t] = s /\ sid'[t] = g /\ kind'[t] = e.kind
       /\ op'[t] = op[t] /\ tgt'[t] = tgt[t]
  BY <1>1, <1>2, <1>7 DEF LocalTypes
<1>11. /\ pc' = [pc EXCEPT ![t] = pc'[t]] /\ owed' = [owed EXCEPT ![t] = owed'[t]]
       /\ back' = [back EXCEPT ![t] = back'[t]]
       /\ owed'[t] \in Seq(Slots) /\ back'[t] \in {"idle", "handler"}
       /\ \/ /\ owed'[t] = owed[t] /\ back'[t] = back[t]
             /\ \/ e.kind = "recv" /\ pc'[t] = "handler"
                \/ e.kind = "send" /\ pc'[t] = "sent"
                \/ e.kind = "request" /\ pc'[t] = "sendCheck"
          \/ /\ pc'[t] = "dec" /\ owed'[t] = <<s>> /\ owed'[t] # <<>>
             /\ back'[t] = "idle"
  BY <1>1, <1>8, OneOwed DEF LocalTypes
<1>12. Moves(t) BY <1>1, <1>2, <1>7, <1>9, <1>10, <1>11 DEF Moves, LocalTypes
<1>13. LocalsOf(t)' /\ ControlOf(t)'
  BY <1>1, <1>5, <1>9, <1>10, <1>11
  DEF LocalsOf, ControlOf, Labels, InHandler, InSend, InCall, InUse, InDelete
<1>14. GlobalTypes' BY <1>1, <1>2, <1>3 DEF GlobalTypes
<1>15. TypeOK' /\ Goes(t) /\ ((~foreign => Own') => IInv')
  BY <1>2, <1>12, <1>13, <1>14, Fold
<1>16. ASSUME ~foreign PROVE Own'
  <2>1. /\ kind[t] = "none" /\ owed[t] = <<>> /\ back[t] = "idle" /\ cur[t] = NoSlot
        /\ \A x \in Slots : held[t][x] = 0
    <3>1. /\ kind[t] = "none" /\ owed[t] = <<>> /\ back[t] = "idle" /\ cur[t] = NoSlot
          /\ Holds(t, 0)
      BY <1>1, <1>2, <1>16 DEF Shape
    <3>2. QED BY <3>1 DEF Holds
  <2>2. /\ \A i \in 1 .. Len(Tail(port)) : Placed(Tail(port)[i])
        /\ Placed(e) /\ 1 \in 1 .. Len(port) /\ e = port[1]
    BY <1>2, <1>4, <1>16, PlacedTail
  <2>3. SlotOf(g) = s /\ Has(s, g) BY <1>6, <2>2 DEF Placed
  <2>4. \A x \in Slots : held'[t][x] = IF x = s THEN 1 ELSE 0
    <3>1. 0 + 1 = 1 OBVIOUS
    <3>2. QED BY <1>9, <2>1, <3>1
  <2>5. Shape(t)'
    <3>1. Attachment(t)' BY <1>10, <2>3 DEF Attachment
    <3>2. \A x \in Slots : held'[t][x] = IF x = cur'[t] THEN 1 ELSE 0
      BY <1>10, <2>4
    <3>3. CASE pc'[t] = "dec" /\ owed'[t] = <<s>> /\ back'[t] = "idle"
      <4>1. kind'[t] \in Serving BY <1>5, <1>10 DEF Serving
      <4>2. owed'[t] = <<cur'[t]>> BY <1>10, <3>3
      <4>3. QED BY <3>1, <3>2, <3>3, <4>1, <4>2, ShapeFinish
    <3>4. CASE /\ owed'[t] = owed[t] /\ back'[t] = back[t]
               /\ \/ e.kind = "recv" /\ pc'[t] = "handler"
                  \/ e.kind = "send" /\ pc'[t] = "sent"
                  \/ e.kind = "request" /\ pc'[t] = "sendCheck"
      <4>1. \/ pc'[t] \in InHandler /\ kind'[t] \in {"connect", "recv"}
            \/ pc'[t] \in InSend /\ kind'[t] \in {"send", "request"}
        BY <1>10, <3>4 DEF InHandler, InSend
      <4>2. owed'[t] = <<>> BY <2>1, <3>4
      <4>3. QED BY <3>1, <3>2, <4>1, <4>2, ShapeServe
    <3>5. QED BY <1>11, <3>3, <3>4
  <2>6. Mild
    <3>1. Calm(t)
      <4>1. /\ pc[t] \notin {"activate", "open"} \cup InDelete
            /\ pc'[t] \notin {"activate", "open"} \cup InDelete
        BY <1>2, <1>11 DEF InDelete
      <4>2. kind[t] # "accept" /\ kind'[t] # "accept" BY <1>5, <1>10, <2>1
      <4>3. Has(cur'[t], sid'[t]) BY <1>10, <2>3
      <4>4. QED BY <4>1, <4>2, <4>3 DEF Calm
    <3>2. \A u \in Threads \ {t} : Calm(u) BY <1>15 DEF Goes, Calm
    <3>3. QED BY <1>2, <3>1, <3>2 DEF Mild
  <2>7. RefsExact'
    <3> SUFFICES ASSUME NEW x \in Slots
                 PROVE  References(x)' = IF ioCount'[x] = DeleteFlag THEN 0 ELSE ioCount'[x]
      BY DEF RefsExact
    <3>1. held'[t][x] \in Nat /\ held[t][x] = 0 BY <2>1, <2>4
    <3>2. Shapes BY <1>1, <1>16 DEF Own
    <3>3. /\ References(x)' \in Nat
          /\ References(x)' + held[t][x] + Cardinality(Outstanding(recvIo, x))
               + Cardinality(Outstanding(sendIo, x)) + Cardinality(At(port, On(x)))
             = References(x) + held'[t][x] + Cardinality(Outstanding(recvIo', x))
               + Cardinality(Outstanding(sendIo', x)) + Cardinality(At(port', On(x)))
      BY <1>1, <1>15, <3>1, <3>2, RefsMove
    <3>4. PICK r \in Nat, o \in Nat, p \in Nat, q \in Nat :
            /\ r = Cardinality(Outstanding(recvIo, x))
            /\ o = Cardinality(Outstanding(sendIo, x))
            /\ p = Cardinality(At(port, On(x))) /\ q = References(x)
      BY <1>1, <3>2, RefParts
    <3>5. recvIo' = recvIo /\ sendIo' = sendIo BY <1>2
    <3>6. Cardinality(At(port', On(x))) = p - (IF e.slot = x THEN 1 ELSE 0)
      BY <1>2, <1>3, <1>4, <3>4, PortTail
    <3>7. Cardinality(At(port', On(x))) = p - held'[t][x]
      <4>1. held'[t][x] = IF e.slot = x THEN 1 ELSE 0 BY <1>6, <2>4
      <4>2. QED BY <3>6, <4>1
    <3>8. References(x)' + held[t][x] + r + o + p
            = q + held'[t][x] + r + o + (p - held'[t][x])
      BY <3>3, <3>4, <3>5, <3>7
    <3>9. References(x)' = References(x)
      <4>1. References(x)' = q BY ONLY <3>1, <3>3, <3>4, <3>8
      <4>2. QED BY <3>4, <4>1
    <3>10. QED BY <1>2, <1>16, <3>9, RefsKept
  <2>8. CallsRight'
    <3>1. t \notin Callers /\ t \notin Callers'
      BY <1>2, <1>11 DEF Callers, InCall
    <3>2. /\ Cardinality(Callers') \in Nat /\ Cardinality(Callers) \in Nat
          /\ Cardinality(At(port', Requests)) \in Nat
          /\ Cardinality(At(port, Requests)) \in Nat
          /\ At(port, Requests)' = At(port', Requests)
          /\ Cardinality(Callers') + (IF t \in Callers THEN 1 ELSE 0)
               = Cardinality(Callers) + (IF t \in Callers' THEN 1 ELSE 0)
      BY <1>1, <1>15, CallsMove
    <3>3. Cardinality(Callers') = Cardinality(Callers) BY ONLY <3>1, <3>2
    <3>4. Cardinality(At(port', Requests))
            = Cardinality(At(port, Requests)) - (IF e.kind = "request" THEN 1 ELSE 0)
      BY <1>2, <1>3, <1>4, <1>6, PortTail
    <3>5. Cardinality(At(port', Requests)) <= Cardinality(At(port, Requests))
      BY ONLY <3>2, <3>4
    <3>6. Cardinality(Callers) + Cardinality(At(port, Requests)) <= calls
          /\ calls' = calls /\ calls \in Nat
      BY <1>1, <1>2, <1>16, ConstantFacts DEF Own, CallsRight, GlobalTypes
    <3>7. Cardinality(Callers') + Cardinality(At(port', Requests)) <= calls'
      BY ONLY <3>2, <3>3, <3>5, <3>6
    <3>8. QED BY <3>2, <3>7 DEF CallsRight
  <2>9. Sides'
    <3> SUFFICES ASSUME NEW x \in Slots
                 PROVE  /\ RecvSide(x)' <= 1 /\ SendSide(x)' <= 1
                        /\ SendSide(x)' = 1 => sendFlag'[x]
      BY DEF Sides
    <3>1. /\ RecvSide(x)' \in Nat /\ SendSide(x)' \in Nat
          /\ RecvSide(x)' + (IF t \in Receivers(x) THEN 1 ELSE 0)
               + Cardinality(Outstanding(recvIo, x)) + Cardinality(At(port, Entries("recv", x)))
             = RecvSide(x) + (IF t \in Receivers(x)' THEN 1 ELSE 0)
               + Cardinality(Outstanding(recvIo', x)) + Cardinality(At(port', Entries("recv", x)))
          /\ SendSide(x)' + (IF t \in Senders(x) THEN 1 ELSE 0)
               + Cardinality(Outstanding(sendIo, x)) + Cardinality(At(port, Entries("send", x)))
             = SendSide(x) + (IF t \in Senders(x)' THEN 1 ELSE 0)
               + Cardinality(Outstanding(sendIo', x)) + Cardinality(At(port', Entries("send", x)))
      BY <1>1, <1>15, SidesMove
    <3>2. PICK r \in Nat, o \in Nat, p \in Nat, q \in Nat :
            /\ r = Cardinality(Outstanding(recvIo, x))
            /\ o = Cardinality(Outstanding(sendIo, x))
            /\ p = Cardinality(At(port, Entries("recv", x)))
            /\ q = Cardinality(At(port, Entries("send", x)))
      BY <1>1, SideTypes
    <3>3. RecvSide(x) \in Nat /\ SendSide(x) \in Nat BY <1>1, SideTypes
    <3>4. t \notin Receivers(x) /\ t \notin Senders(x)
      BY <1>2, <2>1 DEF Receivers, Senders
    <3>5. /\ t \in Receivers(x)' => e.kind = "recv" /\ e.slot = x
          /\ t \in Senders(x)' => e.kind = "send" /\ e.slot = x
      <4>1. t \in Receivers(x)' => e.kind = "recv" /\ e.slot = x
        BY <1>5, <1>6, <1>10 DEF Receivers
      <4>2. t \in Senders(x)' => e.kind = "send" /\ e.slot = x
        BY <1>6, <1>10, <1>11 DEF Senders
      <4>3. QED BY <4>1, <4>2
    <3>6. /\ Cardinality(At(port', Entries("recv", x)))
               = p - (IF e.kind = "recv" /\ e.slot = x THEN 1 ELSE 0)
          /\ Cardinality(At(port', Entries("send", x)))
               = q - (IF e.kind = "send" /\ e.slot = x THEN 1 ELSE 0)
      BY <1>2, <1>3, <1>4, <3>2, PortTail
    <3>7. recvIo' = recvIo /\ sendIo' = sendIo /\ sendFlag' = sendFlag BY <1>2
    <3>8. RecvSide(x)' <= RecvSide(x)
      <4>1. RecvSide(x)' + r + p = RecvSide(x) + (IF t \in Receivers(x)' THEN 1 ELSE 0)
              + r + (p - (IF e.kind = "recv" /\ e.slot = x THEN 1 ELSE 0))
        <5>1. RecvSide(x)' + (IF t \in Receivers(x) THEN 1 ELSE 0) + r + p
                = RecvSide(x) + (IF t \in Receivers(x)' THEN 1 ELSE 0) + r
                  + Cardinality(At(port', Entries("recv", x)))
          BY <3>1, <3>2, <3>7
        <5>2. RecvSide(x)' + (IF t \in Receivers(x) THEN 1 ELSE 0) = RecvSide(x)'
          BY ONLY <3>1, <3>4
        <5>3. QED BY <3>6, <5>1, <5>2
      <4>2. t \in Receivers(x)' => e.kind = "recv" /\ e.slot = x BY <3>5
      <4>3. QED BY ONLY <3>1, <3>2, <3>3, <4>1, <4>2
    <3>9. SendSide(x)' <= SendSide(x)
      <4>1. SendSide(x)' + o + q = SendSide(x) + (IF t \in Senders(x)' THEN 1 ELSE 0)
              + o + (q - (IF e.kind = "send" /\ e.slot = x THEN 1 ELSE 0))
        <5>1. SendSide(x)' + (IF t \in Senders(x) THEN 1 ELSE 0) + o + q
                = SendSide(x) + (IF t \in Senders(x)' THEN 1 ELSE 0) + o
                  + Cardinality(At(port', Entries("send", x)))
          BY <3>1, <3>2, <3>7
        <5>2. SendSide(x)' + (IF t \in Senders(x) THEN 1 ELSE 0) = SendSide(x)'
          BY ONLY <3>1, <3>4
        <5>3. QED BY <3>6, <5>1, <5>2
      <4>2. t \in Senders(x)' => e.kind = "send" /\ e.slot = x BY <3>5
      <4>3. QED BY ONLY <3>1, <3>2, <3>3, <4>1, <4>2
    <3>10. RecvSide(x) <= 1 /\ SendSide(x) <= 1 /\ (SendSide(x) = 1 => sendFlag[x])
      BY <1>1, <1>16 DEF Own, Sides
    <3>11. /\ RecvSide(x)' <= 1 /\ SendSide(x)' <= 1
           /\ SendSide(x)' = 1 => SendSide(x) = 1
      BY ONLY <3>1, <3>3, <3>8, <3>9, <3>10
    <3>12. QED BY <3>7, <3>10, <3>11
  <2>10. QueueRight' BY <1>1, <1>2, <1>16 DEF Own, QueueRight
  <2>11. \A i \in 1 .. Len(port') : Placed(port'[i]) BY <1>2, <2>2
  <2>12. \A h \in Ids : recvIo'[h] > 0 \/ sendIo'[h] > 0 => Has(SlotOf(h), h)
    BY <1>2, <1>16, PlacedNow
  <2>13. QED
    BY <1>15, <1>16, <2>5, <2>6, <2>7, <2>8, <2>9, <2>10, <2>11, <2>12, MildOwn
<1>17. QED BY <1>15, <1>16

-----------------------------------------------------------------------------
(* The initial states.                                                      *)
LEMMA InitStack ==
  Init => /\ indexStack \in Seq(Slots) /\ IsInjective(indexStack)
          /\ Len(indexStack) = Cardinality(Slots)
<1> SUFFICES ASSUME Init
             PROVE  /\ indexStack \in Seq(Slots) /\ IsInjective(indexStack)
                    /\ Len(indexStack) = Cardinality(Slots)
  OBVIOUS
<1>1. PICK n \in Nat : n = Cardinality(Slots)
  BY SlotsAssumption, FS_CardinalityType
<1>2. \E f \in [1 .. n -> Slots] : IsInjective(f)
  <2>1. PICK f \in Bijection(1 .. n, Slots) : TRUE
    BY <1>1, SlotsAssumption, FS_CardinalityType DEF ExistsBijection
  <2>2. f \in [1 .. n -> Slots] /\ IsInjective(f)
    BY <2>1 DEF Bijection, Injection, IsInjective
  <2>3. QED BY <2>2
<1>3. indexStack \in [1 .. n -> Slots] /\ IsInjective(indexStack)
  BY <1>1, <1>2 DEF Init, SetToSeq
<1>4. indexStack \in Seq(Slots) /\ Len(indexStack) = n BY <1>1, <1>3
<1>5. QED BY <1>1, <1>3, <1>4

LEMMA NothingYet ==
  ASSUME Init, NEW s
  PROVE  /\ HeldRefs(held, s) = {} \/ s \notin Slots
         /\ Outstanding(recvIo, s) = {} /\ Outstanding(sendIo, s) = {}
         /\ QueuedFor(port, s) = {} /\ \A E : At(port, E) = {}
<1>1. Len(port) = 0 /\ 1 .. 0 = {} BY NoneOwed DEF Init
<1>2. QueuedFor(port, s) = {} /\ \A E : At(port, E) = {}
  BY <1>1 DEF QueuedFor, At
<1>3. \A g \in Ids : {g} \X (1 .. recvIo[g]) = {} /\ {g} \X (1 .. sendIo[g]) = {}
  BY <1>1 DEF Init
<1>4. Outstanding(recvIo, s) = {} /\ Outstanding(sendIo, s) = {}
  BY <1>3 DEF Outstanding
<1>5. s \in Slots => \A t \in Threads : {t} \X (1 .. held[t][s]) = {}
  BY <1>1 DEF Init
<1>6. s \in Slots => HeldRefs(held, s) = {} BY <1>5 DEF HeldRefs
<1>7. QED BY <1>2, <1>4, <1>6

LEMMA InitOwn == Init => Own
<1> SUFFICES ASSUME Init PROVE Own OBVIOUS
<1>1. Cardinality({}) = 0 BY FS_EmptySet
<1>2. /\ indexStack \in Seq(Slots) /\ IsInjective(indexStack)
      /\ Len(indexStack) = Cardinality(Slots) /\ Cardinality(Slots) \in Nat
  BY InitStack, SlotsAssumption, FS_CardinalityType
<1>3. \A t \in Threads :
        /\ pc[t] = "idle" /\ cur[t] = NoSlot /\ sid[t] = NoId /\ kind[t] = "none"
        /\ owed[t] = <<>> /\ back[t] = "idle"
        /\ \A s \in Slots : held[t][s] = 0
  BY DEF Init
<1>4. Acceptor \in Threads /\ NoSlot \notin Slots /\ NoId \notin Ids
      /\ \A g \in Ids : SlotOf(g) \in Slots
  BY ConstantFacts
<1>5. Shapes
  BY <1>3, <1>4 DEF Shapes, Shape, Holds, InHandler, InSend, InCall, InUse, InDelete
<1>6. Len(port) = 0 /\ 1 .. 0 = {} BY NoneOwed DEF Init
<1>7. Attached
  <2>1. \A g \in Ids : ~(recvIo[g] > 0 \/ sendIo[g] > 0) BY DEF Init
  <2>2. QED BY <1>3, <1>6, <2>1 DEF Attached, Serving
<1>8. RefsExact
  <2> SUFFICES ASSUME NEW s \in Slots
               PROVE  References(s) = IF ioCount[s] = DeleteFlag THEN 0 ELSE ioCount[s]
    BY DEF RefsExact
  <2>1. References(s) = 0 BY <1>1, NothingYet DEF References
  <2>2. ioCount[s] = 0 BY DEF Init
  <2>3. QED BY <2>1, <2>2 DEF DeleteFlag
<1>9. Lifecycle
  <2>1. \A i \in 1 .. Len(indexStack) : indexStack[i] \in Slots BY <1>2
  <2>2. \A i \in 1 .. Len(indexStack) : Cleared(indexStack[i])
    BY <2>1 DEF Cleared, Init
  <2>3. \A t \in Threads, s \in Slots : ~Deleting(t, s)
    BY <1>3 DEF Deleting, InDelete
  <2>4. QED BY <1>2, <1>3, <1>4, <2>2, <2>3 DEF Lifecycle
<1>10. IndexRight
  <2>1. {t \in Threads : kind[t] = "accept"} = {} BY <1>3
  <2>2. sessionCount = 0 BY DEF Init
  <2>3. QED BY <1>1, <1>2, <2>1, <2>2 DEF IndexRight
<1>11. CallsRight
  <2>1. Callers = {} BY <1>3 DEF Callers, InCall
  <2>2. At(port, Requests) = {} BY NothingYet
  <2>3. calls = 0 BY DEF Init
  <2>4. QED BY <1>1, <2>1, <2>2, <2>3 DEF CallsRight
<1>12. Sides
  <2> SUFFICES ASSUME NEW s \in Slots PROVE RecvSide(s) = 0 /\ SendSide(s) = 0
    BY DEF Sides
  <2>1. Receivers(s) = {} /\ Senders(s) = {}
    BY <1>3, <1>4 DEF Receivers, Senders
  <2>2. /\ Outstanding(recvIo, s) = {} /\ Outstanding(sendIo, s) = {}
        /\ At(port, Entries("recv", s)) = {} /\ At(port, Entries("send", s)) = {}
    BY NothingYet
  <2>3. QED BY <1>1, <2>1, <2>2 DEF RecvSide, SendSide
<1>13. GoneRight
  <2>1. \A g \in Ids : gone[g] = 0 /\ sessionId[SlotOf(g)] # g
    BY <1>4 DEF Init
  <2>2. kind[Acceptor] = "none" BY <1>3, <1>4
  <2>3. QED BY <2>1, <2>2 DEF GoneRight
<1>14. QueueRight
  <2>1. \A s \in Slots : Len(sendQ[s]) = 0 BY NoneOwed DEF Init
  <2>2. sentTo = {} BY DEF Init
  <2>3. QED BY <1>6, <2>1, <2>2 DEF QueueRight
<1>15. QED
  BY <1>5, <1>7, <1>8, <1>9, <1>10, <1>11, <1>12, <1>13, <1>14 DEF Own

(* Nothing changes when a worker's wait times out.                          *)
LEMMA StutterStep == ASSUME IInv, UNCHANGED vars PROVE IInv'
<1>1. UNCHANGED <<sessionId, socket, ioCount, sendFlag, connected, sendQ, indexStack,
        idGen, sessionCount, active, port, conn, recvIo, sendIo, msgs, calls, foreign,
        pc, cur, kind, op, tgt, owed, back, announced, gone, sid, held, sentTo>>
  BY DEF vars, globalVars, fieldVars, poolVars, outerVars, kernelVars, boundVars,
     histVars, localVars, ctxVars, callVars, decVars
<1>2. TypeOK' BY <1>1 DEF IInv, TypeOK
<1>3. Control' BY <1>1 DEF IInv, Control
<1>4. ASSUME ~foreign PROVE Own'
  <2>1. Own BY <1>4 DEF IInv
  <2>2. Shapes'
    <3> SUFFICES ASSUME NEW u \in Threads PROVE Shape(u)' BY DEF Shapes
    <3>1. Shape(u) BY <2>1 DEF Own, Shapes
    <3>2. /\ pc'[u] = pc[u] /\ cur'[u] = cur[u] /\ kind'[u] = kind[u] /\ sid'[u] = sid[u]
          /\ op'[u] = op[u] /\ tgt'[u] = tgt[u] /\ owed'[u] = owed[u] /\ back'[u] = back[u]
          /\ held' = held
      BY <1>1
    <3>3. InHand(u)' = InHand(u) /\ \A n : Holds(u, n)' <=> Holds(u, n)
      BY <3>2 DEF InHand, Holds
    <3>4. QED BY <3>1, <3>2, <3>3 DEF Shape
  <2>3. Attached' BY <1>1, <2>1 DEF Own, Attached, Has
  <2>4. RefsExact'
    BY <1>1, <2>1 DEF Own, RefsExact, References, HeldRefs, Outstanding, QueuedFor
  <2>5. Lifecycle'
    BY <1>1, <2>1 DEF Own, Lifecycle, Cleared, Deleting, Fields, Has
  <2>6. IndexRight' BY <1>1, <2>1 DEF Own, IndexRight
  <2>7. CallsRight' BY <1>1, <2>1 DEF Own, CallsRight, Callers, At
  <2>8. Sides'
    BY <1>1, <2>1 DEF Own, Sides, RecvSide, SendSide, Receivers, Senders, Outstanding, At
  <2>9. GoneRight' BY <1>1, <2>1 DEF Own, GoneRight, Deleting
  <2>10. QueueRight' BY <1>1, <2>1 DEF Own, QueueRight
  <2>11. QED
    BY <2>2, <2>3, <2>4, <2>5, <2>6, <2>7, <2>8, <2>9, <2>10 DEF Own
<1>5. QED BY <1>1, <1>2, <1>3, <1>4 DEF IInv

-----------------------------------------------------------------------------
(* The inductive invariant.                                                 *)
LEMMA AcceptorInv == ASSUME IInv, AcceptorStep PROVE IInv'
<1>1. CASE PopIndex(Acceptor) BY <1>1, PopIndexStep
<1>2. CASE Activate(Acceptor) BY <1>2, ActivateStep
<1>3. CASE Open(Acceptor) BY <1>3, OpenStep
<1>4. QED BY <1>1, <1>2, <1>3 DEF AcceptorStep

LEMMA ContinueInv == ASSUME IInv, NEW t \in Threads, Continue(t) PROVE IInv'
<1>1. CASE EndHandler(t) BY <1>1, EndHandlerStep
<1>2. CASE RecvPost(t) BY <1>2, RecvPostStep
<1>3. CASE SendDone(t) BY <1>3, SendDoneStep
<1>4. CASE SendMore(t) BY <1>4, SendMoreStep
<1>5. CASE SendCheck(t) BY <1>5, SendCheckStep
<1>6. CASE SendClaim(t) BY <1>6, SendClaimStep
<1>7. CASE SendPost(t) BY <1>7, SendPostStep
<1>8. CASE SendReset(t) BY <1>8, SendResetStep
<1>9. CASE AcquireId(t) BY <1>9, AcquireIdStep
<1>10. CASE AcquireConnected(t) BY <1>10, AcquireConnectedStep
<1>11. CASE AcquireRef(t) BY <1>11, AcquireRefStep
<1>12. CASE Touch(t) BY <1>12, TouchStep
<1>13. CASE SendPacket(t) BY <1>13, SendPacketStep
<1>14. CASE DropConnected(t) BY <1>14, DropConnectedStep
<1>15. CASE CancelIo(t) BY <1>15, CancelIoStep
<1>16. CASE Decrease(t) BY <1>16, DecreaseStep
<1>17. CASE DeleteCheck(t) BY <1>17, DeleteCheckStep
<1>18. CASE DeleteCas(t) BY <1>18, DeleteCasStep
<1>19. CASE Teardown(t) BY <1>19, TeardownStep
<1>20. CASE ClearFields(t) BY <1>20, ClearFieldsStep
<1>21. CASE ClearCount(t) BY <1>21, ClearCountStep
<1>22. CASE Recycle(t) BY <1>22, RecycleStep
<1>23. QED
  BY <1>1, <1>2, <1>3, <1>4, <1>5, <1>6, <1>7, <1>8, <1>9, <1>10, <1>11, <1>12,
     <1>13, <1>14, <1>15, <1>16, <1>17, <1>18, <1>19, <1>20, <1>21, <1>22
  DEF Continue

LEMMA StepInv == IInv /\ [Next]_vars => IInv'
<1> SUFFICES ASSUME IInv, [Next]_vars PROVE IInv' OBVIOUS
<1>1. CASE AcceptorStep BY <1>1, AcceptorInv
<1>2. ASSUME NEW t \in Workers, Dequeue(t) PROVE IInv'
  <2>1. t \in Threads BY DEF Threads
  <2>2. QED BY <1>2, <2>1, DequeueStep
<1>3. ASSUME NEW t \in Workers, Timeout(t) PROVE IInv'
  BY <1>3, StutterStep DEF Timeout
<1>4. ASSUME NEW t \in Threads, Continue(t) PROVE IInv'
  BY <1>4, ContinueInv
<1>5. ASSUME NEW t \in Threads, StartCall(t) PROVE IInv'
  BY <1>5, StartCallStep
<1>6. ASSUME NEW g \in Ids, RecvCompletes(g) PROVE IInv'
  BY <1>6, RecvCompletesStep
<1>7. ASSUME NEW g \in Ids, SendCompletes(g) PROVE IInv'
  BY <1>7, SendCompletesStep
<1>8. ASSUME NEW g \in Ids, PeerCloses(g) PROVE IInv'
  BY <1>8, PeerClosesStep
<1>9. CASE UNCHANGED vars BY <1>9, StutterStep
<1>10. QED
  BY <1>1, <1>2, <1>3, <1>4, <1>5, <1>6, <1>7, <1>8, <1>9 DEF Next

(* IInv holds of every state the server reaches.                            *)
THEOREM Invariance == Spec => []IInv
<1>1. Init => IInv BY InitType, InitOwn DEF IInv
<1>2. QED BY <1>1, StepInv, PTL DEF Spec

-----------------------------------------------------------------------------
(* Every variable keeps its type, whoever calls: no step reads the fields   *)
(* of a slot that is none or an id that is none.                            *)
THEOREM SpecTypeOK == Spec => []TypeOK
<1>1. IInv => TypeOK BY DEF IInv
<1>2. QED BY <1>1, Invariance, PTL

(* m_lIoCount of a session is exactly the number of references to it of     *)
(* threads, outstanding operations and waiting completions, until the       *)
(* delete flag replaces it, when there is none.                             *)
THEOREM SpecRefCountExact == Spec => []RefCountExact
<1>1. IInv => RefCountExact BY DEF IInv, Own, RefsExact, RefCountExact
<1>2. QED BY <1>1, Invariance, PTL

(* No operation, completion or handler outlives the session it belongs to:  *)
(* the slot is not cleared under it and not given to another connection.    *)
THEOREM SpecNoUseAfterRelease == Spec => [](~foreign => NoUseAfterRelease)
<1>1. IInv => (~foreign => NoUseAfterRelease)
  <2> SUFFICES ASSUME IInv, ~foreign PROVE NoUseAfterRelease OBVIOUS
  <2>1. TypeOK /\ Attached BY DEF IInv, Own
  <2>2. \A g \in Ids : recvIo[g] \in Nat /\ sendIo[g] \in Nat BY <2>1 DEF TypeOK
  <2>3. \A g \in Ids : recvIo[g] + sendIo[g] > 0 => recvIo[g] > 0 \/ sendIo[g] > 0
    BY <2>2
  <2>4. QED BY <2>1, <2>3 DEF Attached, Has, Serving, NoUseAfterRelease
<1>2. QED BY <1>1, Invariance, PTL

(* The free indices, the sessions m_lSessionCount counts and the one being  *)
(* created make up the array; a free index is there once and its slot is    *)
(* cleared, so that the next Activate of it finds the counter at zero.      *)
THEOREM SpecIndexConserved == Spec => []IndexConserved
<1>1. IInv => IndexConserved
  <2> SUFFICES ASSUME IInv, ~foreign PROVE IndexConserved
    BY DEF IndexConserved
  <2>1. Lifecycle /\ IndexRight BY DEF IInv, Own
  <2>2. \A s \in ToSet(indexStack) : Cleared(s)
    BY <2>1 DEF Lifecycle, ToSet
  <2>3. QED BY <2>1, <2>2 DEF Lifecycle, IndexRight, Cleared, IndexConserved
<1>2. QED BY <1>1, Invariance, PTL

(* Two WSARecv never fill the buffer of a session at the same time, nor     *)
(* does one while a handler reads it; nor are there two WSASend with one    *)
(* pending list.                                                            *)
THEOREM SpecSidesSerial == Spec => [](~foreign => SidesSerial)
<1>1. IInv => (~foreign => SidesSerial)
  <2> SUFFICES ASSUME IInv, ~foreign, NEW s \in Slots
               PROVE  LET queued(k) == Cardinality({i \in QueuedFor(port, s) : port[i].kind = k})
                          sending == Cardinality({t \in Threads :
                             cur[t] = s /\ pc[t] \in {"sent", "sendPost", "sendReset"}})
                             + Cardinality(Outstanding(sendIo, s)) + queued("send")
                      IN /\ Cardinality(ReceivingThreads(s)) + Cardinality(Outstanding(recvIo, s))
                              + queued("recv") <= 1
                         /\ sending <= 1
                         /\ sending = 1 /\ connected[s] => sendFlag[s]
    BY DEF SidesSerial
  <2>1. TypeOK /\ Sides BY DEF IInv, Own
  <2>2. port \in Seq(Completions) BY <2>1 DEF TypeOK
  <2>3. \A k : {i \in QueuedFor(port, s) : port[i].kind = k} = At(port, Entries(k, s))
    BY <2>2 DEF QueuedFor, At, Entries
  <2>4. ReceivingThreads(s) \in SUBSET Receivers(s) /\ Receivers(s) \in SUBSET Threads
    BY DEF ReceivingThreads, Receivers, InHandler, InCall, InUse
  <2>5. /\ Cardinality(ReceivingThreads(s)) \in Nat /\ Cardinality(Receivers(s)) \in Nat
        /\ Cardinality(ReceivingThreads(s)) <= Cardinality(Receivers(s))
    BY <2>4, ThreadSets
  <2>6. /\ Cardinality(Outstanding(recvIo, s)) \in Nat
        /\ Cardinality(At(port, Entries("recv", s))) \in Nat
    BY <2>1, SideTypes
  <2>7. Cardinality(ReceivingThreads(s)) + Cardinality(Outstanding(recvIo, s))
          + Cardinality(At(port, Entries("recv", s))) <= 1
    <3>1. Cardinality(Receivers(s)) + Cardinality(Outstanding(recvIo, s))
            + Cardinality(At(port, Entries("recv", s))) <= 1
      BY <2>1 DEF Sides, RecvSide
    <3>2. QED BY ONLY <2>5, <2>6, <3>1
  <2>8. SendSide(s) <= 1 /\ (SendSide(s) = 1 => sendFlag[s]) BY <2>1 DEF Sides
  <2>9. QED BY <2>3, <2>7, <2>8 DEF SendSide, Senders
<1>2. QED BY <1>1, Invariance, PTL

(* OnDisconnected is given an id once at most, never one OnConnected was    *)
(* not given, and no handler of the session runs then.                      *)
THEOREM SpecDisconnectedOnce == Spec => [](~foreign => DisconnectedOnce)
<1>1. IInv => (~foreign => DisconnectedOnce)
  <2> SUFFICES ASSUME IInv, ~foreign, NEW g \in Ids
               PROVE  /\ gone[g] <= 1
                      /\ gone[g] = 1 =>
                           /\ g \in announced
                           /\ \A t \in Threads : sid[t] = g /\ cur[t] # NoSlot
                                => pc[t] # "handler"
    BY DEF DisconnectedOnce
  <2>1. GoneRight /\ Shapes /\ Attached BY DEF IInv, Own
  <2>2. gone[g] <= 1 /\ (gone[g] = 1 => g \in announced) BY <2>1 DEF GoneRight
  <2>3. ASSUME gone[g] = 1, NEW t \in Threads, sid[t] = g, pc[t] = "handler"
        PROVE  FALSE
    <3>1. Shape(t) BY <2>1 DEF Shapes
    <3>2. kind[t] \in {"connect", "recv"} /\ Holds(t, 1) /\ cur[t] \in Slots
      BY <2>3, <3>1 DEF Shape, InHandler
    <3>3. SlotOf(g) = cur[t] /\ sessionId[cur[t]] = g
      BY <2>1, <2>3, <3>1, <3>2 DEF Shape, Attached, Serving, Has
    <3>4. held[t][cur[t]] = 1 BY <3>2 DEF Holds
    <3>5. held[t][cur[t]] >= 1 /\ kind[t] # "accept" BY <3>2, <3>4
    <3>6. Live(cur[t]) BY <3>2, <3>5, ThreadLive
    <3>7. PICK u \in Threads : Deleting(u, SlotOf(g))
      BY <2>1, <2>3, <3>3 DEF GoneRight
    <3>8. QED BY <3>3, <3>6, <3>7 DEF Live
  <2>4. QED BY <2>2, <2>3
<1>2. QED BY <1>1, Invariance, PTL

(* A packet leaves on the connection it was meant for: the queue of a slot  *)
(* never holds one meant for an earlier session when WSASend takes it.      *)
THEOREM SpecNoMisdelivery == Spec => []NoMisdelivery
<1>1. IInv => NoMisdelivery BY DEF IInv, Own, QueueRight, NoMisdelivery
<1>2. QED BY <1>1, Invariance, PTL
=============================================================================
