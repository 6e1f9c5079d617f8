------------------------- MODULE MemoryPoolsProofs -------------------------
(***************************************************************************)
(* Proofs about MemoryPools, for any finite or infinite set of threads,    *)
(* any size of a block and number of pages, as long as tags do not wrap.   *)
(* PoolInv says that every node is in one place (NodeInv), that every      *)
(* block of level 2 is listed or on its way once and the links of the      *)
(* list and of the chains lead from one to the next (ListOk, Threaded),    *)
(* and what a pop that has read the top may rely on: the pointer it read   *)
(* has an old tag, so it is on top again only as the block it was in the   *)
(* list, with the link it was read with (Reading).  First come lemmas on   *)
(* sequences, places, blocks and links, then one for each action.          *)
(***************************************************************************)
EXTENDS MemoryPools, FiniteSetTheorems, TLAPS

-----------------------------------------------------------------------------
(* Sequences without repetition.                                            *)

LEMMA MemberOfSeq ==
  ASSUME NEW S, NEW q \in Seq(S)
  PROVE  /\ \A x : x \in ToSet(q) <=> \E i \in 1 .. Len(q) : q[i] = x
         /\ ToSet(q) \subseteq S
  BY DEF ToSet

LEMMA EmptyList ==
  ToSet(<<>>) = {} /\ IsInjective(<<>>) /\ \A S : <<>> \in Seq(S)
<1>1. ToSet(<<>>) = {}
  BY DEF ToSet
<1>2. IsInjective(<<>>)
  BY DEF IsInjective
<1>3. \A S : <<>> \in Seq(S)
  OBVIOUS
<1>4. QED BY <1>1, <1>2, <1>3

(* The first is taken away.                                                 *)
LEMMA TailOfSeq ==
  ASSUME NEW S, NEW q \in Seq(S), q # <<>>, IsInjective(q)
  PROVE  /\ Tail(q) \in Seq(S) /\ IsInjective(Tail(q)) /\ Len(Tail(q)) = Len(q) - 1
         /\ Head(q) \in ToSet(q) /\ ToSet(Tail(q)) = ToSet(q) \ {Head(q)}
<1>1. Len(q) \in Nat /\ Len(q) > 0 /\ Tail(q) \in Seq(S) /\ Len(Tail(q)) = Len(q) - 1
  OBVIOUS
<1>2. Head(q) = q[1] /\ \A i \in 1 .. Len(q) - 1 : Tail(q)[i] = q[i + 1]
  BY <1>1
<1>3. \A i, j \in 1 .. Len(q) : q[i] = q[j] => i = j
  BY DEF IsInjective
<1>4. IsInjective(Tail(q))
  BY <1>1, <1>2, <1>3 DEF IsInjective
<1>5. Head(q) \in ToSet(q)
  BY <1>1, <1>2, MemberOfSeq
<1>6. ASSUME NEW x PROVE x \in ToSet(Tail(q)) <=> x \in ToSet(q) \ {Head(q)}
  <2>1. ASSUME x \in ToSet(Tail(q)) PROVE x \in ToSet(q) \ {Head(q)}
    <3>1. PICK i \in 1 .. Len(q) - 1 : Tail(q)[i] = x
      BY <1>1, <2>1, MemberOfSeq
    <3>2. i + 1 \in 1 .. Len(q) /\ q[i + 1] = x /\ 1 \in 1 .. Len(q) /\ i + 1 # 1
      BY <1>1, <1>2, <3>1
    <3>3. QED BY <1>2, <1>3, <3>2, MemberOfSeq
  <2>2. ASSUME x \in ToSet(q) \ {Head(q)} PROVE x \in ToSet(Tail(q))
    <3>1. PICK i \in 1 .. Len(q) : q[i] = x
      BY <2>2, MemberOfSeq
    <3>2. i # 1
      BY <1>2, <2>2, <3>1
    <3>3. i - 1 \in 1 .. Len(Tail(q)) /\ Tail(q)[i - 1] = x
      BY <1>1, <1>2, <3>1, <3>2
    <3>4. QED BY <1>1, <3>3, MemberOfSeq
  <2>3. QED BY <2>1, <2>2
<1>7. QED BY <1>1, <1>4, <1>5, <1>6

(* One is put in front.                                                     *)
LEMMA ConsSeq ==
  ASSUME NEW S, NEW q \in Seq(S), IsInjective(q), NEW n \in S, n \notin ToSet(q)
  PROVE  /\ <<n>> \o q \in Seq(S) /\ IsInjective(<<n>> \o q) /\ Len(<<n>> \o q) = Len(q) + 1
         /\ ToSet(<<n>> \o q) = ToSet(q) \cup {n} /\ (<<n>> \o q)[1] = n
<1>1. PICK r : r = <<n>> \o q
  OBVIOUS
<1>2. r \in Seq(S) /\ Len(r) = Len(q) + 1 /\ Len(q) \in Nat
  BY <1>1
<1>3. r[1] = n /\ \A i \in 2 .. Len(q) + 1 : r[i] = q[i - 1]
  BY <1>1
<1>4. \A i, j \in 1 .. Len(q) : q[i] = q[j] => i = j
  BY DEF IsInjective
<1>5. \A i \in 1 .. Len(q) : q[i] # n
  BY MemberOfSeq
<1>6. ASSUME NEW i \in 1 .. Len(r), NEW j \in 1 .. Len(r), r[i] = r[j] PROVE i = j
  <2>1. CASE i = 1 /\ j = 1
    BY <2>1
  <2>2. CASE i = 1 /\ j # 1
    <3>1. j - 1 \in 1 .. Len(q) /\ q[j - 1] = n
      BY <1>2, <1>3, <1>6, <2>2
    <3>2. QED BY <1>5, <3>1
  <2>3. CASE i # 1 /\ j = 1
    <3>1. i - 1 \in 1 .. Len(q) /\ q[i - 1] = n
      BY <1>2, <1>3, <1>6, <2>3
    <3>2. QED BY <1>5, <3>1
  <2>4. CASE i # 1 /\ j # 1
    <3>1. i - 1 \in 1 .. Len(q) /\ j - 1 \in 1 .. Len(q) /\ q[i - 1] = q[j - 1]
      BY <1>2, <1>3, <1>6, <2>4
    <3>2. i - 1 = j - 1
      BY <1>4, <3>1
    <3>3. QED BY <1>2, <3>2
  <2>5. QED BY <2>1, <2>2, <2>3, <2>4
<1>7. IsInjective(r)
  BY <1>2, <1>6 DEF IsInjective
<1>8. ASSUME NEW x PROVE x \in ToSet(r) <=> x \in ToSet(q) \cup {n}
  <2>1. ASSUME x \in ToSet(r) PROVE x \in ToSet(q) \cup {n}
    <3>1. PICK i \in 1 .. Len(r) : r[i] = x
      BY <1>2, <2>1, MemberOfSeq
    <3>2. CASE i = 1
      BY <1>3, <3>1, <3>2
    <3>3. CASE i # 1
      <4>1. i - 1 \in 1 .. Len(q) /\ q[i - 1] = x
        BY <1>2, <1>3, <3>1, <3>3
      <4>2. QED BY <4>1, MemberOfSeq
    <3>4. QED BY <3>2, <3>3
  <2>2. ASSUME x \in ToSet(q) PROVE x \in ToSet(r)
    <3>1. PICK i \in 1 .. Len(q) : q[i] = x
      BY <2>2, MemberOfSeq
    <3>2. i + 1 \in 1 .. Len(r) /\ r[i + 1] = x
      BY <1>2, <1>3, <3>1
    <3>3. QED BY <1>2, <3>2, MemberOfSeq
  <2>3. n \in ToSet(r)
    <3>1. 1 \in 1 .. Len(r)
      BY <1>2
    <3>2. QED BY <1>2, <1>3, <3>1, MemberOfSeq
  <2>4. QED BY <2>1, <2>2, <2>3
<1>9. ToSet(r) = ToSet(q) \cup {n}
  BY <1>8
<1>10. QED BY ONLY <1>1, <1>2, <1>3, <1>7, <1>9

-----------------------------------------------------------------------------
(* Things that lie apart: every one of A in exactly one place.              *)

Apart(I, A) ==
  /\ \A x \in DOMAIN I : I[x] \subseteq A
  /\ \A n \in A : \E x \in DOMAIN I : \A y \in DOMAIN I : n \in I[y] <=> y = x

LEMMA ApartUnique ==
  ASSUME NEW I, NEW A, Apart(I, A), NEW x \in DOMAIN I, NEW y \in DOMAIN I, x # y
  PROVE  I[x] \cap I[y] = {}
  BY DEF Apart

(* One moves from place x to place y.                                       *)
LEMMA ApartMove ==
  ASSUME NEW I, NEW A, Apart(I, A), NEW J, DOMAIN J = DOMAIN I,
         NEW x \in DOMAIN I, NEW y \in DOMAIN I, x # y, NEW n \in I[x],
         J[x] = I[x] \ {n}, J[y] = I[y] \cup {n},
         \A z \in DOMAIN I : z # x /\ z # y => J[z] = I[z]
  PROVE  Apart(J, A)
<1>1. n \in A /\ \A z \in DOMAIN I : n \in I[z] <=> z = x
  BY DEF Apart
<1>2. ASSUME NEW z \in DOMAIN J PROVE J[z] \subseteq A
  BY <1>1 DEF Apart
<1>3. \A z \in DOMAIN I : n \in J[z] <=> z = y
  BY <1>1
<1>4. \A k : k # n => \A z \in DOMAIN I : k \in J[z] <=> k \in I[z]
  BY <1>1
<1>5. ASSUME NEW k \in A
      PROVE  \E z \in DOMAIN J : \A w \in DOMAIN J : k \in J[w] <=> w = z
  <2>1. CASE k = n
    BY <1>3, <2>1
  <2>2. CASE k # n
    BY <1>4, <2>2 DEF Apart
  <2>3. QED BY <2>1, <2>2
<1>6. QED BY <1>2, <1>5 DEF Apart

(* Two places change what they have.                                        *)
LEMMA ApartSwap ==
  ASSUME NEW I, NEW A, Apart(I, A), NEW J, DOMAIN J = DOMAIN I,
         NEW x \in DOMAIN I, NEW y \in DOMAIN I, J[x] = I[y], J[y] = I[x],
         \A z \in DOMAIN I : z # x /\ z # y => J[z] = I[z]
  PROVE  Apart(J, A)
<1>1. ASSUME NEW z \in DOMAIN J PROVE J[z] \subseteq A
  BY DEF Apart
<1>2. ASSUME NEW k \in A
      PROVE  \E z \in DOMAIN J : \A w \in DOMAIN J : k \in J[w] <=> w = z
  <2>1. PICK v \in DOMAIN I : \A w \in DOMAIN I : k \in I[w] <=> w = v
    BY DEF Apart
  <2>2. CASE v = x
    BY <2>1, <2>2
  <2>3. CASE v = y
    BY <2>1, <2>3
  <2>4. CASE v # x /\ v # y
    BY <2>1, <2>4
  <2>5. QED BY <2>2, <2>3, <2>4
<1>3. QED BY <1>1, <1>2 DEF Apart

(* More things come, to places that were empty.                             *)
LEMMA ApartGrow ==
  ASSUME NEW I, NEW A, Apart(I, A), NEW J, DOMAIN J = DOMAIN I, NEW B, A \cap B = {},
         \A z \in DOMAIN I : J[z] = I[z] \/ (I[z] = {} /\ J[z] \subseteq B),
         \A n \in B : \E x \in DOMAIN I : \A y \in DOMAIN I : n \in J[y] <=> y = x
  PROVE  Apart(J, A \cup B)
<1>1. ASSUME NEW z \in DOMAIN J PROVE J[z] \subseteq A \cup B
  BY DEF Apart
<1>2. ASSUME NEW k \in A
      PROVE  \E z \in DOMAIN J : \A w \in DOMAIN J : k \in J[w] <=> w = z
  <2>1. PICK v \in DOMAIN I : \A w \in DOMAIN I : k \in I[w] <=> w = v
    BY DEF Apart
  <2>2. \A w \in DOMAIN I : k \in J[w] <=> k \in I[w]
    BY <1>2
  <2>3. QED BY <2>1, <2>2
<1>3. QED BY <1>1, <1>2 DEF Apart

-----------------------------------------------------------------------------
(* The places of the nodes, blocks that are not at level 2 being empty, and *)
(* what is there: with users h, among the partial nodes p, in the stacks m  *)
(* and s, in the blocks B, each with the nodes that d says.                 *)

Users == <<"users", 0>>
Parts == <<"partial", 0>>
Main(t) == <<"main", t>>
Sub(t) == <<"sub", t>>
Block(b) == <<"block", b>>
AllPlaces == {Users, Parts} \cup {Main(t) : t \in Threads} \cup {Sub(t) : t \in Threads}
             \cup {Block(b) : b \in Nodes}

Content(h, p, m, s, d, B) ==
  [x \in AllPlaces |->
     CASE x[1] = "users" -> h
       [] x[1] = "partial" -> ToSet(p)
       [] x[1] = "main" -> ToSet(m[x[2]])
       [] x[1] = "sub" -> ToSet(s[x[2]])
       [] x[1] = "block" -> IF x[2] \in B THEN ToSet(d[x[2]]) ELSE {}]

IsContent(I, h, p, m, s, d, B) ==
  /\ DOMAIN I = AllPlaces
  /\ I[Users] = h /\ I[Parts] = ToSet(p)
  /\ \A t \in Threads : I[Main(t)] = ToSet(m[t])
  /\ \A t \in Threads : I[Sub(t)] = ToSet(s[t])
  /\ \A b \in Nodes : I[Block(b)] = IF b \in B THEN ToSet(d[b]) ELSE {}

LEMMA PlacesDiffer ==
  /\ Users # Parts
  /\ \A t : Users # Main(t) /\ Users # Sub(t) /\ Users # Block(t)
  /\ \A t : Parts # Main(t) /\ Parts # Sub(t) /\ Parts # Block(t)
  /\ \A t, u : Main(t) # Sub(u) /\ Main(t) # Block(u) /\ Sub(t) # Block(u)
  /\ \A t, u : Main(t) = Main(u) => t = u
  /\ \A t, u : Sub(t) = Sub(u) => t = u
  /\ \A t, u : Block(t) = Block(u) => t = u
  BY DEF Users, Parts, Main, Sub, Block

LEMMA PlacesThere ==
  /\ Users \in AllPlaces /\ Parts \in AllPlaces
  /\ \A t \in Threads : Main(t) \in AllPlaces /\ Sub(t) \in AllPlaces
  /\ \A b \in Nodes : Block(b) \in AllPlaces
  /\ \A x \in AllPlaces :
       \/ x = Users \/ x = Parts
       \/ \E t \in Threads : x = Main(t)
       \/ \E t \in Threads : x = Sub(t)
       \/ \E b \in Nodes : x = Block(b)
  BY DEF AllPlaces

LEMMA ContentIs ==
  ASSUME NEW h, NEW p, NEW m, NEW s, NEW d, NEW B
  PROVE  IsContent(Content(h, p, m, s, d, B), h, p, m, s, d, B)
<1>1. PICK I : I = Content(h, p, m, s, d, B)
  OBVIOUS
<1>2. DOMAIN I = AllPlaces
  BY <1>1 DEF Content
<1>3. I[Users] = h
  <2>1. Users \in AllPlaces /\ Users[1] = "users"
    BY PlacesThere DEF Users
  <2>2. QED BY <1>1, <2>1 DEF Content
<1>4. I[Parts] = ToSet(p)
  <2>1. Parts \in AllPlaces /\ Parts[1] = "partial"
    BY PlacesThere DEF Parts
  <2>2. QED BY <1>1, <2>1 DEF Content
<1>5. ASSUME NEW t \in Threads PROVE I[Main(t)] = ToSet(m[t])
  <2>1. Main(t) \in AllPlaces /\ Main(t)[1] = "main" /\ Main(t)[2] = t
    BY PlacesThere DEF Main
  <2>2. QED BY <1>1, <2>1 DEF Content
<1>6. ASSUME NEW t \in Threads PROVE I[Sub(t)] = ToSet(s[t])
  <2>1. Sub(t) \in AllPlaces /\ Sub(t)[1] = "sub" /\ Sub(t)[2] = t
    BY PlacesThere DEF Sub
  <2>2. QED BY <1>1, <2>1 DEF Content
<1>7. ASSUME NEW b \in Nodes PROVE I[Block(b)] = IF b \in B THEN ToSet(d[b]) ELSE {}
  <2>1. Block(b) \in AllPlaces /\ Block(b)[1] = "block" /\ Block(b)[2] = b
    BY PlacesThere DEF Block
  <2>2. QED BY <1>1, <2>1 DEF Content
<1>8. QED BY <1>1, <1>2, <1>3, <1>4, <1>5, <1>6, <1>7 DEF IsContent

(* Two contents that differ at two places only.                             *)
GoodStacks(m, s) ==
  /\ m \in [Threads -> Seq(Nodes)] /\ s \in [Threads -> Seq(Nodes)]
  /\ \A t \in Threads : IsInjective(m[t]) /\ IsInjective(s[t])

GoodBlocks(d, B) ==
  /\ d \in [Nodes -> Seq(Nodes)] /\ B \subseteq Nodes
  /\ \A b \in B : IsInjective(d[b]) /\ Len(d[b]) = BlockSize /\ d[b][1] = b

NodeInv(h, p, m, s, d, B, A) ==
  /\ A \subseteq Nodes
  /\ p \in Seq(Nodes) /\ IsInjective(p)
  /\ GoodStacks(m, s)
  /\ GoodBlocks(d, B)
  /\ Apart(Content(h, p, m, s, d, B), A)

LEMMA NodeInvNow ==
  ASSUME NEW h, NEW p, NEW m, NEW s, NEW d, NEW B, NEW A, NodeInv(h, p, m, s, d, B, A)
  PROVE  \E I : IsContent(I, h, p, m, s, d, B) /\ Apart(I, A)
<1>1. IsContent(Content(h, p, m, s, d, B), h, p, m, s, d, B)
  BY ContentIs
<1>2. QED BY <1>1 DEF NodeInv

LEMMA NodeInvNext ==
  ASSUME NEW h, NEW p, NEW m, NEW s, NEW d, NEW B, NEW A, A \subseteq Nodes,
         p \in Seq(Nodes), IsInjective(p), GoodStacks(m, s), GoodBlocks(d, B),
         \A J : IsContent(J, h, p, m, s, d, B) => Apart(J, A)
  PROVE  NodeInv(h, p, m, s, d, B, A)
<1>1. IsContent(Content(h, p, m, s, d, B), h, p, m, s, d, B)
  BY ContentIs
<1>2. QED BY <1>1 DEF NodeInv

-----------------------------------------------------------------------------
(* What the operations do with nodes.                                       *)

LEMMA SizePositive == BlockSize \in Nat /\ BlockSize > 0
  BY MemoryAssumption

(* A node in a list of a thread, or with a user, does not begin a block.    *)
LEMMA NotABlock ==
  ASSUME NEW h, NEW p, NEW m, NEW s, NEW d, NEW B, NEW A, NodeInv(h, p, m, s, d, B, A),
         NEW n, n \in h \/ n \in ToSet(p) \/ \E t \in Threads : n \in ToSet(m[t]) \cup ToSet(s[t])
  PROVE  n \notin B
<1>1. SUFFICES ASSUME n \in B PROVE FALSE
  OBVIOUS
<1>2. PICK I : IsContent(I, h, p, m, s, d, B) /\ Apart(I, A)
  BY NodeInvNow
<1>3. n \in Nodes /\ d[n] \in Seq(Nodes) /\ Len(d[n]) > 0 /\ d[n][1] = n
  BY <1>1, SizePositive DEF NodeInv, GoodBlocks
<1>4. n \in ToSet(d[n])
  BY <1>3 DEF ToSet
<1>5. Block(n) \in DOMAIN I /\ n \in I[Block(n)]
  BY <1>1, <1>2, <1>3, <1>4, PlacesThere DEF IsContent
<1>6. PICK x \in DOMAIN I : n \in I[x] /\ x # Block(n)
  <2>1. CASE n \in h
    BY <1>2, <2>1, PlacesThere, PlacesDiffer DEF IsContent
  <2>2. CASE n \in ToSet(p)
    BY <1>2, <2>2, PlacesThere, PlacesDiffer DEF IsContent
  <2>3. CASE \E t \in Threads : n \in ToSet(m[t]) \cup ToSet(s[t])
    BY <1>2, <2>3, PlacesThere, PlacesDiffer DEF IsContent
  <2>4. QED BY <2>1, <2>2, <2>3
<1>7. QED BY <1>2, <1>5, <1>6, ApartUnique

LEMMA BlocksInside ==
  ASSUME NEW h, NEW p, NEW m, NEW s, NEW d, NEW B, NEW A, NodeInv(h, p, m, s, d, B, A)
  PROVE  B \subseteq A /\ h \subseteq A /\ A \subseteq Nodes
<1>1. PICK I : IsContent(I, h, p, m, s, d, B) /\ Apart(I, A)
  BY NodeInvNow
<1>2. h \subseteq A
  BY <1>1, PlacesThere DEF IsContent, Apart
<1>3. ASSUME NEW n \in B PROVE n \in A
  <2>1. n \in Nodes /\ d[n] \in Seq(Nodes) /\ Len(d[n]) > 0 /\ d[n][1] = n
    BY SizePositive DEF NodeInv, GoodBlocks
  <2>2. n \in ToSet(d[n])
    BY <2>1 DEF ToSet
  <2>3. Block(n) \in DOMAIN I /\ n \in I[Block(n)]
    BY <1>1, <2>1, <2>2, PlacesThere DEF IsContent
  <2>4. QED BY <1>1, <2>3 DEF Apart
<1>4. QED BY <1>2, <1>3 DEF NodeInv

(* The lists of a thread change places.                                     *)
LEMMA SwapStacks ==
  ASSUME NEW h, NEW p, NEW m, NEW s, NEW d, NEW B, NEW A, NodeInv(h, p, m, s, d, B, A),
         NEW t \in Threads, NEW m2, m2 = [m EXCEPT ![t] = s[t]],
         NEW s2, s2 = [s EXCEPT ![t] = m[t]]
  PROVE  NodeInv(h, p, m2, s2, d, B, A)
<1>1. PICK I : IsContent(I, h, p, m, s, d, B) /\ Apart(I, A)
  BY NodeInvNow
<1>2. m2[t] = s[t] /\ s2[t] = m[t] /\ \A u \in Threads : u # t => m2[u] = m[u] /\ s2[u] = s[u]
  BY DEF NodeInv, GoodStacks
<1>3. GoodStacks(m2, s2)
  BY <1>2 DEF NodeInv, GoodStacks
<1>4. ASSUME NEW J, IsContent(J, h, p, m2, s2, d, B) PROVE Apart(J, A)
  <2>1. DOMAIN J = DOMAIN I /\ Main(t) \in DOMAIN I /\ Sub(t) \in DOMAIN I
    BY <1>1, <1>4, PlacesThere DEF IsContent
  <2>2. J[Main(t)] = I[Sub(t)] /\ J[Sub(t)] = I[Main(t)]
    BY <1>1, <1>2, <1>4 DEF IsContent
  <2>3. ASSUME NEW z \in DOMAIN I, z # Main(t), z # Sub(t) PROVE J[z] = I[z]
    BY <1>1, <1>2, <1>4, <2>3, PlacesThere DEF IsContent
  <2>4. QED BY <1>1, <2>1, <2>2, <2>3, ApartSwap
<1>5. QED BY <1>3, <1>4, NodeInvNext DEF NodeInv

(* A thread gives the first node of its list to a user ...                  *)
LEMMA PopOne ==
  ASSUME NEW h, NEW p, NEW m, NEW s, NEW d, NEW B, NEW A, NodeInv(h, p, m, s, d, B, A),
         NEW t \in Threads, m[t] # <<>>, NEW n, n = Head(m[t]),
         NEW m2, m2 = [m EXCEPT ![t] = Tail(m[t])], NEW h2, h2 = h \cup {n}
  PROVE  NodeInv(h2, p, m2, s, d, B, A)
<1>1. PICK I : IsContent(I, h, p, m, s, d, B) /\ Apart(I, A)
  BY NodeInvNow
<1>2. m2[t] = Tail(m[t]) /\ \A u \in Threads : u # t => m2[u] = m[u]
  BY DEF NodeInv, GoodStacks
<1>3. m[t] \in Seq(Nodes) /\ IsInjective(m[t])
  BY DEF NodeInv, GoodStacks
<1>4. /\ Tail(m[t]) \in Seq(Nodes) /\ IsInjective(Tail(m[t])) /\ n \in ToSet(m[t])
      /\ ToSet(Tail(m[t])) = ToSet(m[t]) \ {n}
  BY <1>3, TailOfSeq
<1>5. GoodStacks(m2, s)
  BY <1>2, <1>4 DEF NodeInv, GoodStacks
<1>6. ASSUME NEW J, IsContent(J, h2, p, m2, s, d, B) PROVE Apart(J, A)
  <2>1. /\ DOMAIN J = DOMAIN I /\ Main(t) \in DOMAIN I /\ Users \in DOMAIN I
        /\ Main(t) # Users
    BY <1>1, <1>6, PlacesThere, PlacesDiffer DEF IsContent
  <2>2. n \in I[Main(t)] /\ J[Main(t)] = I[Main(t)] \ {n} /\ J[Users] = I[Users] \cup {n}
    BY <1>1, <1>2, <1>4, <1>6 DEF IsContent
  <2>3. ASSUME NEW z \in DOMAIN I, z # Main(t), z # Users PROVE J[z] = I[z]
    BY <1>1, <1>2, <1>6, <2>3, PlacesThere DEF IsContent
  <2>4. QED BY <1>1, <2>1, <2>2, <2>3, ApartMove
<1>7. QED BY <1>5, <1>6, NodeInvNext DEF NodeInv

(* ... and gets one.                                                        *)
LEMMA PushOne ==
  ASSUME NEW h, NEW p, NEW m, NEW s, NEW d, NEW B, NEW A, NodeInv(h, p, m, s, d, B, A),
         NEW t \in Threads, NEW n \in h,
         NEW m2, m2 = [m EXCEPT ![t] = <<n>> \o m[t]], NEW h2, h2 = h \ {n}
  PROVE  NodeInv(h2, p, m2, s, d, B, A)
<1>1. PICK I : IsContent(I, h, p, m, s, d, B) /\ Apart(I, A)
  BY NodeInvNow
<1>2. m2[t] = <<n>> \o m[t] /\ \A u \in Threads : u # t => m2[u] = m[u]
  BY DEF NodeInv, GoodStacks
<1>3. m[t] \in Seq(Nodes) /\ IsInjective(m[t]) /\ n \in Nodes
  <2>1. n \in Nodes
    BY BlocksInside
  <2>2. QED BY <2>1 DEF NodeInv, GoodStacks
<1>4. /\ Main(t) \in DOMAIN I /\ Users \in DOMAIN I /\ Main(t) # Users
      /\ I[Main(t)] = ToSet(m[t]) /\ I[Users] = h
  BY <1>1, PlacesThere, PlacesDiffer DEF IsContent
<1>5. n \notin ToSet(m[t])
  BY <1>1, <1>4, ApartUnique
<1>6. /\ <<n>> \o m[t] \in Seq(Nodes) /\ IsInjective(<<n>> \o m[t])
      /\ ToSet(<<n>> \o m[t]) = ToSet(m[t]) \cup {n}
  BY <1>3, <1>5, ConsSeq
<1>7. GoodStacks(m2, s)
  BY <1>2, <1>6 DEF NodeInv, GoodStacks
<1>8. ASSUME NEW J, IsContent(J, h2, p, m2, s, d, B) PROVE Apart(J, A)
  <2>1. DOMAIN J = DOMAIN I
    BY <1>1, <1>8 DEF IsContent
  <2>2. n \in I[Users] /\ J[Main(t)] = I[Main(t)] \cup {n} /\ J[Users] = I[Users] \ {n}
    BY <1>2, <1>4, <1>6, <1>8 DEF IsContent
  <2>3. ASSUME NEW z \in DOMAIN I, z # Main(t), z # Users PROVE J[z] = I[z]
    BY <1>1, <1>2, <1>8, <2>3, PlacesThere DEF IsContent
  <2>4. QED BY <1>1, <1>4, <2>1, <2>2, <2>3, ApartMove
<1>9. QED BY <1>7, <1>8, NodeInvNext DEF NodeInv

(* A node becomes one of the partial nodes.                                 *)
Joins(n, h, p, h2, p2) == n \in h /\ p2 = <<n>> \o p /\ h2 = h \ {n}

LEMMA ToPartial ==
  ASSUME NEW h, NEW p, NEW m, NEW s, NEW d, NEW B, NEW A, NodeInv(h, p, m, s, d, B, A),
         NEW n, NEW p2, NEW h2, Joins(n, h, p, h2, p2)
  PROVE  NodeInv(h2, p2, m, s, d, B, A) /\ Len(p2) = Len(p) + 1 /\ p2[1] = n
<1>1. PICK I : IsContent(I, h, p, m, s, d, B) /\ Apart(I, A)
  BY NodeInvNow
<1>2. p \in Seq(Nodes) /\ IsInjective(p) /\ n \in Nodes
  <2>1. n \in Nodes
    BY BlocksInside DEF Joins
  <2>2. QED BY <2>1 DEF NodeInv
<1>3. /\ Parts \in DOMAIN I /\ Users \in DOMAIN I /\ Parts # Users
      /\ I[Parts] = ToSet(p) /\ I[Users] = h
  BY <1>1, PlacesThere, PlacesDiffer DEF IsContent
<1>4. n \in h /\ p2 = <<n>> \o p /\ h2 = h \ {n} /\ n \notin ToSet(p)
  <2>1. n \in h /\ p2 = <<n>> \o p /\ h2 = h \ {n}
    BY DEF Joins
  <2>2. QED BY <1>1, <1>3, <2>1, ApartUnique
<1>5. /\ p2 \in Seq(Nodes) /\ IsInjective(p2) /\ Len(p2) = Len(p) + 1 /\ p2[1] = n
      /\ ToSet(p2) = ToSet(p) \cup {n}
  BY <1>2, <1>4, ConsSeq
<1>6. ASSUME NEW J, IsContent(J, h2, p2, m, s, d, B) PROVE Apart(J, A)
  <2>1. DOMAIN J = DOMAIN I
    BY <1>1, <1>6 DEF IsContent
  <2>2. n \in I[Users] /\ J[Parts] = I[Parts] \cup {n} /\ J[Users] = I[Users] \ {n}
    BY <1>3, <1>4, <1>5, <1>6 DEF IsContent
  <2>3. ASSUME NEW z \in DOMAIN I, z # Parts, z # Users PROVE J[z] = I[z]
    BY <1>1, <1>4, <1>6, <2>3, PlacesThere DEF IsContent
  <2>4. QED BY <1>1, <1>3, <2>1, <2>2, <2>3, ApartMove
<1>7. QED BY <1>5, <1>6, NodeInvNext DEF NodeInv

(* A list q that is a block long becomes one; it is named by its first.     *)
Becomes(q, b, d, d2) == b = q[1] /\ d2 = [d EXCEPT ![b] = q]

Became(q, b, d, d2, B) ==
  /\ b \in Nodes /\ b \in ToSet(q) /\ d2[b] = q
  /\ \A n \in Nodes : n # b => d2[n] = d[n]
  /\ GoodBlocks(d2, B \cup {b})

LEMMA NewBlockGood ==
  ASSUME NEW d, NEW B, NEW q, NEW b, NEW d2, Becomes(q, b, d, d2), GoodBlocks(d, B),
         q \in Seq(Nodes), IsInjective(q), Len(q) = BlockSize
  PROVE  Became(q, b, d, d2, B)
<1>1. 1 \in 1 .. Len(q) /\ b \in Nodes /\ b = q[1]
  BY SizePositive DEF Becomes
<1>2. b \in ToSet(q)
  BY <1>1, MemberOfSeq
<1>3. d2[b] = q /\ (\A n \in Nodes : n # b => d2[n] = d[n]) /\ d2 \in [Nodes -> Seq(Nodes)]
  BY <1>1 DEF GoodBlocks, Becomes
<1>4. GoodBlocks(d2, B \cup {b})
  BY <1>1, <1>3 DEF GoodBlocks
<1>5. QED BY <1>1, <1>2, <1>3, <1>4 DEF Became

(* The other list of a thread, ...                                          *)
Emptied(t, s, s2) == s2 = [s EXCEPT ![t] = <<>>]

LEMMA SubToBlock ==
  ASSUME NEW h, NEW p, NEW m, NEW s, NEW d, NEW B, NEW A, NodeInv(h, p, m, s, d, B, A),
         NEW t \in Threads, Len(s[t]) = BlockSize, NEW b, NEW d2, Becomes(s[t], b, d, d2),
         NEW s2, Emptied(t, s, s2)
  PROVE  NodeInv(h, p, m, s2, d2, B \cup {b}, A) /\ b \notin B /\ b \in Nodes
<1>1. PICK I : IsContent(I, h, p, m, s, d, B) /\ Apart(I, A)
  BY NodeInvNow
<1>2. s2[t] = <<>> /\ \A u \in Threads : u # t => s2[u] = s[u]
  BY DEF NodeInv, GoodStacks, Emptied
<1>3. s[t] \in Seq(Nodes) /\ IsInjective(s[t]) /\ GoodBlocks(d, B)
  BY DEF NodeInv, GoodStacks
<1>4. /\ b \in Nodes /\ b \in ToSet(s[t]) /\ d2[b] = s[t]
      /\ \A n \in Nodes : n # b => d2[n] = d[n]
      /\ GoodBlocks(d2, B \cup {b})
  <2>1. Became(s[t], b, d, d2, B)
    BY <1>3, NewBlockGood
  <2>2. QED BY <2>1 DEF Became
<1>5. b \notin B
  BY <1>4, NotABlock
<1>6. GoodStacks(m, s2)
  BY <1>2, EmptyList DEF NodeInv, GoodStacks, Emptied
<1>7. ASSUME NEW J, IsContent(J, h, p, m, s2, d2, B \cup {b}) PROVE Apart(J, A)
  <2>1. /\ DOMAIN J = DOMAIN I /\ Sub(t) \in DOMAIN I /\ Block(b) \in DOMAIN I
    BY <1>1, <1>4, <1>7, PlacesThere DEF IsContent
  <2>2. J[Sub(t)] = I[Block(b)]
    <3>1. J[Sub(t)] = {}
      BY <1>2, <1>7, EmptyList DEF IsContent
    <3>2. I[Block(b)] = {}
      BY <1>1, <1>4, <1>5 DEF IsContent
    <3>3. QED BY <3>1, <3>2
  <2>3. J[Block(b)] = I[Sub(t)]
    BY <1>1, <1>4, <1>7 DEF IsContent
  <2>4. ASSUME NEW z \in DOMAIN I, z # Sub(t), z # Block(b) PROVE J[z] = I[z]
    BY <1>1, <1>2, <1>4, <1>7, <2>4, PlacesThere DEF IsContent
  <2>5. QED BY <1>1, <2>1, <2>2, <2>3, <2>4, ApartSwap
<1>8. QED BY <1>4, <1>5, <1>6, <1>7, NodeInvNext DEF NodeInv

(* ... and the partial nodes.                                               *)
LEMMA PartialToBlock ==
  ASSUME NEW h, NEW p, NEW m, NEW s, NEW d, NEW B, NEW A, NodeInv(h, p, m, s, d, B, A),
         Len(p) = BlockSize, NEW b, NEW d2, Becomes(p, b, d, d2)
  PROVE  NodeInv(h, <<>>, m, s, d2, B \cup {b}, A) /\ b \notin B /\ b \in Nodes
<1>1. PICK I : IsContent(I, h, p, m, s, d, B) /\ Apart(I, A)
  BY NodeInvNow
<1>3. p \in Seq(Nodes) /\ IsInjective(p) /\ GoodBlocks(d, B)
  BY DEF NodeInv
<1>4. /\ b \in Nodes /\ b \in ToSet(p) /\ d2[b] = p
      /\ \A n \in Nodes : n # b => d2[n] = d[n]
      /\ GoodBlocks(d2, B \cup {b})
  <2>1. Became(p, b, d, d2, B)
    BY <1>3, NewBlockGood
  <2>2. QED BY <2>1 DEF Became
<1>5. b \notin B
  BY <1>4, NotABlock
<1>7. ASSUME NEW J, IsContent(J, h, <<>>, m, s, d2, B \cup {b}) PROVE Apart(J, A)
  <2>1. /\ DOMAIN J = DOMAIN I /\ Parts \in DOMAIN I /\ Block(b) \in DOMAIN I
    BY <1>1, <1>4, <1>7, PlacesThere DEF IsContent
  <2>2. J[Parts] = I[Block(b)]
    <3>1. J[Parts] = {}
      BY <1>7, EmptyList DEF IsContent
    <3>2. I[Block(b)] = {}
      BY <1>1, <1>4, <1>5 DEF IsContent
    <3>3. QED BY <3>1, <3>2
  <2>3. J[Block(b)] = I[Parts]
    BY <1>1, <1>4, <1>7 DEF IsContent
  <2>4. ASSUME NEW z \in DOMAIN I, z # Parts, z # Block(b) PROVE J[z] = I[z]
    BY <1>1, <1>4, <1>7, <2>4, PlacesThere DEF IsContent
  <2>5. QED BY <1>1, <2>1, <2>2, <2>3, <2>4, ApartSwap
<1>8. /\ A \subseteq Nodes /\ <<>> \in Seq(Nodes) /\ IsInjective(<<>>) /\ GoodStacks(m, s)
      /\ GoodBlocks(d2, B \cup {b})
  BY <1>4, EmptyList DEF NodeInv
<1>9. QED BY <1>4, <1>5, <1>7, <1>8, NodeInvNext

(* A block becomes the list of a thread.                                    *)
LEMMA BlockToMain ==
  ASSUME NEW h, NEW p, NEW m, NEW s, NEW d, NEW B, NEW A, NodeInv(h, p, m, s, d, B, A),
         NEW t \in Threads, m[t] = <<>>, NEW b \in B,
         NEW m2, m2 = [m EXCEPT ![t] = d[b]], NEW B2, B2 = B \ {b}
  PROVE  NodeInv(h, p, m2, s, d, B2, A)
<1>1. PICK I : IsContent(I, h, p, m, s, d, B) /\ Apart(I, A)
  BY NodeInvNow
<1>2. m2[t] = d[b] /\ \A u \in Threads : u # t => m2[u] = m[u]
  BY DEF NodeInv, GoodStacks
<1>3. b \in Nodes /\ d[b] \in Seq(Nodes) /\ IsInjective(d[b]) /\ GoodBlocks(d, B2)
  BY DEF NodeInv, GoodBlocks
<1>4. GoodStacks(m2, s)
  BY <1>2, <1>3 DEF NodeInv, GoodStacks
<1>5. ASSUME NEW J, IsContent(J, h, p, m2, s, d, B2) PROVE Apart(J, A)
  <2>1. /\ DOMAIN J = DOMAIN I /\ Main(t) \in DOMAIN I /\ Block(b) \in DOMAIN I
    BY <1>1, <1>3, <1>5, PlacesThere DEF IsContent
  <2>2. J[Block(b)] = I[Main(t)]
    <3>1. I[Main(t)] = {}
      BY <1>1, EmptyList DEF IsContent
    <3>2. J[Block(b)] = {}
      BY <1>3, <1>5 DEF IsContent
    <3>3. QED BY <3>1, <3>2
  <2>3. J[Main(t)] = I[Block(b)]
    BY <1>1, <1>2, <1>3, <1>5 DEF IsContent
  <2>4. ASSUME NEW z \in DOMAIN I, z # Main(t), z # Block(b) PROVE J[z] = I[z]
    BY <1>1, <1>2, <1>5, <2>4, PlacesThere DEF IsContent
  <2>5. QED BY <1>1, <2>1, <2>2, <2>3, <2>4, ApartSwap
<1>6. QED BY <1>3, <1>4, <1>5, NodeInvNext DEF NodeInv

(* New blocks C, of nodes E that are not in A.                              *)
NewBlocks(A, C, E, d, d2) ==
  /\ C \subseteq Nodes /\ C \cap A = {} /\ E \subseteq Nodes /\ A \cap E = {}
  /\ d2 \in [Nodes -> Seq(Nodes)] /\ \A n \in Nodes \ C : d2[n] = d[n]
  /\ \A b \in C : IsInjective(d2[b]) /\ Len(d2[b]) = BlockSize /\ d2[b][1] = b
  /\ \A b \in C : ToSet(d2[b]) \subseteq E
  /\ \A n \in E : \E b \in C : \A c \in C : n \in ToSet(d2[c]) <=> c = b

LEMMA AddBlocks ==
  ASSUME NEW h, NEW p, NEW m, NEW s, NEW d, NEW B, NEW A, NodeInv(h, p, m, s, d, B, A),
         NEW C, NEW E, NEW d2, NewBlocks(A, C, E, d, d2)
  PROVE  NodeInv(h, p, m, s, d2, B \cup C, A \cup E)
<1>1. PICK I : IsContent(I, h, p, m, s, d, B) /\ Apart(I, A)
  BY NodeInvNow
<1>2. B \subseteq A /\ A \subseteq Nodes
  BY BlocksInside
<1>6. C \subseteq Nodes /\ C \cap A = {} /\ E \subseteq Nodes /\ A \cap E = {}
  BY DEF NewBlocks
<1>7. d2 \in [Nodes -> Seq(Nodes)] /\ \A n \in Nodes \ C : d2[n] = d[n]
  BY DEF NewBlocks
<1>8. \A b \in C : IsInjective(d2[b]) /\ Len(d2[b]) = BlockSize /\ d2[b][1] = b
  BY DEF NewBlocks
<1>9. \A b \in C : ToSet(d2[b]) \subseteq E
  BY DEF NewBlocks
<1>10. \A n \in E : \E b \in C : \A c \in C : n \in ToSet(d2[c]) <=> c = b
  BY DEF NewBlocks
<1>11. B \cap C = {}
  BY <1>2, <1>6
<1>3. GoodBlocks(d2, B \cup C)
  <2>1. GoodBlocks(d, B)
    BY DEF NodeInv
  <2>2. ASSUME NEW b \in B \cup C
        PROVE  b \in Nodes /\ IsInjective(d2[b]) /\ Len(d2[b]) = BlockSize /\ d2[b][1] = b
    <3>1. CASE b \in C
      BY <1>6, <1>8, <3>1
    <3>2. CASE b \in B /\ b \notin C
      BY <1>2, <1>7, <2>1, <3>2 DEF GoodBlocks
    <3>3. QED BY <3>1, <3>2
  <2>3. QED BY <1>7, <2>2 DEF GoodBlocks
<1>4. ASSUME NEW J, IsContent(J, h, p, m, s, d2, B \cup C) PROVE Apart(J, A \cup E)
  <2>1. DOMAIN J = DOMAIN I /\ \A b \in C : Block(b) \in DOMAIN I
    BY <1>1, <1>4, <1>6, PlacesThere DEF IsContent
  <2>2. ASSUME NEW z \in DOMAIN I, \A b \in C : z # Block(b) PROVE J[z] = I[z]
    <3>1. CASE z = Users \/ z = Parts
      BY <1>1, <1>4, <3>1 DEF IsContent
    <3>2. CASE \E u \in Threads : z = Main(u) \/ z = Sub(u)
      BY <1>1, <1>4, <3>2 DEF IsContent
    <3>3. CASE \E b \in Nodes : z = Block(b)
      <4>1. PICK b \in Nodes : z = Block(b)
        BY <3>3
      <4>2. b \notin C /\ d2[b] = d[b]
        BY <1>7, <2>2, <4>1
      <4>3. QED BY <1>1, <1>4, <4>1, <4>2 DEF IsContent
    <3>4. QED BY <1>1, <3>1, <3>2, <3>3, PlacesThere DEF IsContent
  <2>3. ASSUME NEW b \in C
        PROVE  I[Block(b)] = {} /\ J[Block(b)] = ToSet(d2[b]) /\ J[Block(b)] \subseteq E
    <3>1. b \in Nodes /\ b \notin B
      BY <1>6, <1>11
    <3>2. I[Block(b)] = {} /\ J[Block(b)] = ToSet(d2[b])
      BY <1>1, <1>4, <3>1 DEF IsContent
    <3>3. QED BY <1>9, <3>2
  <2>4. \A z \in DOMAIN I : J[z] = I[z] \/ (I[z] = {} /\ J[z] \subseteq E)
    BY <2>2, <2>3
  <2>5. ASSUME NEW n \in E
        PROVE  \E x \in DOMAIN I : \A y \in DOMAIN I : n \in J[y] <=> y = x
    <3>1. PICK b \in C : \A c \in C : n \in ToSet(d2[c]) <=> c = b
      BY <1>10
    <3>2. ASSUME NEW y \in DOMAIN I PROVE n \in J[y] <=> y = Block(b)
      <4>1. CASE \E c \in C : y = Block(c)
        BY <2>3, <3>1, <4>1, PlacesDiffer
      <4>2. CASE ~ \E c \in C : y = Block(c)
        <5>1. J[y] = I[y] /\ I[y] \subseteq A
          BY <1>1, <2>2, <4>2 DEF Apart
        <5>2. QED BY <1>6, <4>2, <5>1
      <4>3. QED BY <4>1, <4>2
    <3>3. QED BY <2>1, <3>1, <3>2
  <2>6. QED BY <1>1, <1>6, <2>1, <2>4, <2>5, ApartGrow
<1>5. QED BY <1>2, <1>3, <1>4, <1>6, NodeInvNext DEF NodeInv

-----------------------------------------------------------------------------
(* Blocks.  Each is once in the list q, or on its way there: in the chain   *)
(* C[t] of a thread that pushes, or its last block L[t].                    *)

Pointers == Nat \X Nodes

LEMMA NodesAre == Nodes \subseteq Nat \ {0}
  BY DEF Nodes

LEMMA PointersAre ==
  ASSUME NEW x, x \in Pointers
  PROVE  x \in Int \X Int /\ x[1] \in Nat /\ x[2] \in Nodes /\ x[2] \in Nat /\ x[2] # 0
<1>1. PICK a \in Nat, b \in Nodes : x = <<a, b>>
  BY DEF Pointers
<1>2. b \in Nat /\ b # 0
  BY NodesAre
<1>3. QED BY <1>1, <1>2

OneEach(q) == \A i, j \in DOMAIN q : q[i][2] = q[j][2] => i = j
Way(C, L, t) == BlocksOf(C[t]) \cup ({L[t]} \ {0})
AllBlocks(q, C, L) == BlocksOf(q) \cup UNION {Way(C, L, t) : t \in Threads}

Separate(q, C, L) ==
  /\ q \in Seq(Pointers) /\ C \in [Threads -> Seq(Pointers)]
  /\ L \in [Threads -> Nodes \cup {0}]
  /\ OneEach(q)
  /\ \A t \in Threads : OneEach(C[t]) /\ L[t] \notin BlocksOf(C[t])
  /\ \A t \in Threads : Way(C, L, t) \cap BlocksOf(q) = {}
  /\ \A t, u \in Threads : t # u => Way(C, L, t) \cap Way(C, L, u) = {}

LEMMA BlocksOfSeq ==
  ASSUME NEW q, q \in Seq(Pointers)
  PROVE  /\ \A b : b \in BlocksOf(q) <=> \E i \in 1 .. Len(q) : q[i][2] = b
         /\ BlocksOf(q) \subseteq Nodes
         /\ \A i \in 1 .. Len(q) : q[i][1] \in Nat /\ q[i][2] \in Nodes
  BY DEF BlocksOf, Pointers

LEMMA BlocksOfNone == BlocksOf(<<>>) = {}
  BY DEF BlocksOf

LEMMA OneEachNone == OneEach(<<>>)
  BY DEF OneEach

LEMMA BlocksOfOne ==
  ASSUME NEW k \in Nat, NEW b \in Nodes
  PROVE  /\ <<<<k, b>>>> \in Seq(Pointers) /\ BlocksOf(<<<<k, b>>>>) = {b}
         /\ OneEach(<<<<k, b>>>>)
<1>1. PICK x : x = <<k, b>>
  OBVIOUS
<1>2. x \in Pointers /\ x[2] = b
  BY <1>1 DEF Pointers
<1>3. PICK q : q = <<x>>
  OBVIOUS
<1>4. q \in Seq(Pointers) /\ Len(q) = 1 /\ q[1] = x /\ DOMAIN q = {1}
  BY <1>2, <1>3
<1>5. BlocksOf(q) = {b}
  BY <1>2, <1>4 DEF BlocksOf
<1>6. OneEach(q)
  BY <1>4 DEF OneEach
<1>7. QED BY ONLY <1>1, <1>3, <1>4, <1>5, <1>6

LEMMA AllBlocksAre ==
  ASSUME NEW q, NEW C, NEW L
  PROVE  \A b : b \in AllBlocks(q, C, L) <=>
             b \in BlocksOf(q) \/ \E t \in Threads : b \in Way(C, L, t)
  BY DEF AllBlocks

(* What a thread that has nothing on its way begins to push: the chain c    *)
(* and the last block z, together the blocks new.                           *)
Adds(t, c, z, new, q, C, L, C2, L2) ==
  /\ C[t] = <<>> /\ L[t] = 0
  /\ c \in Seq(Pointers) /\ z \in Nodes \cup {0} /\ OneEach(c) /\ z \notin BlocksOf(c)
  /\ new = BlocksOf(c) \cup ({z} \ {0}) /\ new \cap AllBlocks(q, C, L) = {}
  /\ C2 = [C EXCEPT ![t] = c] /\ L2 = [L EXCEPT ![t] = z]

LEMMA SeparateAdd ==
  ASSUME NEW q, NEW C, NEW L, Separate(q, C, L), NEW t \in Threads,
         NEW c, NEW z, NEW new, NEW C2, NEW L2, Adds(t, c, z, new, q, C, L, C2, L2)
  PROVE  /\ Separate(q, C2, L2)
         /\ AllBlocks(q, C2, L2) = AllBlocks(q, C, L) \cup new
<1>1. /\ C2[t] = c /\ L2[t] = z /\ \A u \in Threads : u # t => C2[u] = C[u] /\ L2[u] = L[u]
      /\ C2 \in [Threads -> Seq(Pointers)] /\ L2 \in [Threads -> Nodes \cup {0}]
  BY DEF Separate, Adds
<1>2. Way(C, L, t) = {}
  BY BlocksOfNone DEF Way, Adds
<1>3. Way(C2, L2, t) = new /\ \A u \in Threads : u # t => Way(C2, L2, u) = Way(C, L, u)
  BY <1>1 DEF Way, Adds
<1>4. AllBlocks(q, C2, L2) = AllBlocks(q, C, L) \cup new
  <2>1. ASSUME NEW b PROVE (\E u \in Threads : b \in Way(C2, L2, u)) <=>
                           (b \in new \/ \E u \in Threads : b \in Way(C, L, u))
    BY <1>2, <1>3
  <2>2. ASSUME NEW b PROVE b \in AllBlocks(q, C2, L2) <=> b \in AllBlocks(q, C, L) \cup new
    <3>1. b \in AllBlocks(q, C2, L2) <=>
          b \in BlocksOf(q) \/ \E u \in Threads : b \in Way(C2, L2, u)
      BY AllBlocksAre
    <3>2. b \in AllBlocks(q, C, L) <=>
          b \in BlocksOf(q) \/ \E u \in Threads : b \in Way(C, L, u)
      BY AllBlocksAre
    <3>3. QED BY <2>1, <3>1, <3>2
  <2>3. QED BY <2>2
<1>5. new \cap BlocksOf(q) = {} /\ \A u \in Threads : new \cap Way(C, L, u) = {}
  BY DEF AllBlocks, Adds
<1>6. \A u, v \in Threads : u # v => Way(C2, L2, u) \cap Way(C2, L2, v) = {}
  BY <1>3, <1>5 DEF Separate
<1>7. \A u \in Threads : Way(C2, L2, u) \cap BlocksOf(q) = {}
  BY <1>3, <1>5 DEF Separate
<1>8. \A u \in Threads : OneEach(C2[u]) /\ L2[u] \notin BlocksOf(C2[u])
  BY <1>1 DEF Separate, Adds
<1>9. QED BY <1>1, <1>4, <1>6, <1>7, <1>8 DEF Separate

(* The last block is taken.                                                 *)
Owned(t, L, L2) == L2 = [L EXCEPT ![t] = 0]

LEMMA SeparateOwn ==
  ASSUME NEW q, NEW C, NEW L, Separate(q, C, L), NEW t \in Threads,
         NEW L2, Owned(t, L, L2)
  PROVE  /\ Separate(q, C, L2)
         /\ L[t] # 0 => AllBlocks(q, C, L2) = AllBlocks(q, C, L) \ {L[t]}
<1>1. /\ L2[t] = 0 /\ \A u \in Threads : u # t => L2[u] = L[u]
      /\ L2 \in [Threads -> Nodes \cup {0}]
  BY DEF Separate, Owned
<1>2. /\ Way(C, L2, t) = BlocksOf(C[t]) /\ \A u \in Threads : u # t => Way(C, L2, u) = Way(C, L, u)
      /\ Way(C, L2, t) \subseteq Way(C, L, t)
  BY <1>1 DEF Way
<1>3. 0 \notin Nodes
  BY NodesAre
<1>4. \A u \in Threads : OneEach(C[u]) /\ L2[u] \notin BlocksOf(C[u])
  BY <1>1, <1>3, BlocksOfSeq DEF Separate
<1>5. Separate(q, C, L2)
  BY <1>1, <1>2, <1>4 DEF Separate
<1>6. ASSUME L[t] # 0 PROVE AllBlocks(q, C, L2) = AllBlocks(q, C, L) \ {L[t]}
  <2>1. Way(C, L2, t) = Way(C, L, t) \ {L[t]} /\ L[t] \in Way(C, L, t)
    BY <1>2, <1>6 DEF Way, Separate
  <2>2. L[t] \notin BlocksOf(q) /\ \A u \in Threads : u # t => L[t] \notin Way(C, L, u)
    BY <2>1 DEF Separate
  <2>3. ASSUME NEW b
        PROVE  (\E u \in Threads : b \in Way(C, L2, u)) <=>
               (\E u \in Threads : b \in Way(C, L, u)) /\ b # L[t]
    BY <1>2, <2>1, <2>2
  <2>4. QED BY <2>2, <2>3 DEF AllBlocks
<1>7. QED BY <1>5, <1>6

(* The first is taken from the list.                                        *)
Popped(q, q2, b) == q # <<>> /\ q2 = Tail(q) /\ b = Head(q)[2]

LEMMA SeparatePop ==
  ASSUME NEW q, NEW C, NEW L, Separate(q, C, L), NEW q2, NEW b, Popped(q, q2, b)
  PROVE  /\ Separate(q2, C, L) /\ b \in BlocksOf(q) /\ BlocksOf(q2) = BlocksOf(q) \ {b}
         /\ AllBlocks(q2, C, L) = AllBlocks(q, C, L) \ {b}
<1>1. /\ q \in Seq(Pointers) /\ Len(q) \in Nat /\ Len(q) > 0 /\ q2 \in Seq(Pointers)
      /\ Len(q2) = Len(q) - 1
  BY DEF Separate, Popped
<1>2. b = q[1][2] /\ \A i \in 1 .. Len(q) - 1 : q2[i] = q[i + 1]
  BY <1>1 DEF Popped
<1>3. \A i, j \in 1 .. Len(q) : q[i][2] = q[j][2] => i = j
  BY <1>1 DEF Separate, OneEach
<1>4. b \in BlocksOf(q)
  BY <1>1, <1>2, BlocksOfSeq
<1>5. OneEach(q2)
  <2>1. ASSUME NEW i \in 1 .. Len(q2), NEW j \in 1 .. Len(q2), q2[i][2] = q2[j][2] PROVE i = j
    <3>1. i + 1 \in 1 .. Len(q) /\ j + 1 \in 1 .. Len(q) /\ q[i + 1][2] = q[j + 1][2]
      BY <1>1, <1>2, <2>1
    <3>2. i + 1 = j + 1
      BY <1>3, <3>1
    <3>3. QED BY <1>1, <3>2
  <2>2. DOMAIN q2 = 1 .. Len(q2)
    BY <1>1
  <2>3. QED BY <2>1, <2>2 DEF OneEach
<1>6. ASSUME NEW x PROVE x \in BlocksOf(q2) <=> x \in BlocksOf(q) /\ x # b
  <2>1. ASSUME x \in BlocksOf(q2) PROVE x \in BlocksOf(q) /\ x # b
    <3>1. PICK i \in 1 .. Len(q2) : q2[i][2] = x
      BY <1>1, <2>1, BlocksOfSeq
    <3>2. i + 1 \in 1 .. Len(q) /\ q[i + 1][2] = x /\ i + 1 # 1 /\ 1 \in 1 .. Len(q)
      BY <1>1, <1>2, <3>1
    <3>3. QED BY <1>1, <1>2, <1>3, <3>2, BlocksOfSeq
  <2>2. ASSUME x \in BlocksOf(q), x # b PROVE x \in BlocksOf(q2)
    <3>1. PICK i \in 1 .. Len(q) : q[i][2] = x
      BY <1>1, <2>2, BlocksOfSeq
    <3>2. i # 1
      BY <1>2, <2>2, <3>1
    <3>3. i - 1 \in 1 .. Len(q2) /\ q2[i - 1][2] = x
      BY <1>1, <1>2, <3>1, <3>2
    <3>4. QED BY <1>1, <3>3, BlocksOfSeq
  <2>3. QED BY <2>1, <2>2
<1>7. BlocksOf(q2) = BlocksOf(q) \ {b}
  BY <1>6
<1>8. Separate(q2, C, L)
  BY <1>1, <1>5, <1>7 DEF Separate
<1>9. \A t \in Threads : b \notin Way(C, L, t)
  BY <1>4 DEF Separate
<1>10. AllBlocks(q2, C, L) = AllBlocks(q, C, L) \ {b}
  BY <1>7, <1>9 DEF AllBlocks
<1>11. QED BY <1>4, <1>7, <1>8, <1>10

(* The chain of a thread is put in front of the list.                       *)
LEMMA JoinedSeq ==
  ASSUME NEW c, NEW q, c \in Seq(Pointers), q \in Seq(Pointers), NEW r, r = c \o q
  PROVE  /\ r \in Seq(Pointers) /\ Len(r) = Len(c) + Len(q)
         /\ \A i \in 1 .. Len(c) : r[i] = c[i]
         /\ \A i \in 1 .. Len(q) : r[Len(c) + i] = q[i]
         /\ BlocksOf(r) = BlocksOf(c) \cup BlocksOf(q)
<1>1. /\ r \in Seq(Pointers) /\ Len(r) = Len(c) + Len(q) /\ Len(c) \in Nat /\ Len(q) \in Nat
  OBVIOUS
<1>2. \A i \in 1 .. Len(c) : r[i] = c[i]
  OBVIOUS
<1>3. \A i \in 1 .. Len(q) : r[Len(c) + i] = q[i]
  OBVIOUS
<1>4. ASSUME NEW b PROVE b \in BlocksOf(r) <=> b \in BlocksOf(c) \cup BlocksOf(q)
  <2>1. ASSUME b \in BlocksOf(r) PROVE b \in BlocksOf(c) \cup BlocksOf(q)
    <3>1. PICK i \in 1 .. Len(r) : r[i][2] = b
      BY <1>1, <2>1, BlocksOfSeq
    <3>2. CASE i <= Len(c)
      <4>1. i \in 1 .. Len(c) /\ c[i][2] = b
        BY <1>1, <1>2, <3>1, <3>2
      <4>2. QED BY <4>1, BlocksOfSeq
    <3>3. CASE i > Len(c)
      <4>1. i - Len(c) \in 1 .. Len(q) /\ Len(c) + (i - Len(c)) = i
        BY <1>1, <3>1, <3>3
      <4>2. q[i - Len(c)] = r[i]
        BY <1>3, <4>1
      <4>3. QED BY <3>1, <4>1, <4>2, BlocksOfSeq
    <3>4. QED BY <1>1, <3>1, <3>2, <3>3
  <2>2. ASSUME b \in BlocksOf(c) PROVE b \in BlocksOf(r)
    <3>1. PICK i \in 1 .. Len(c) : c[i][2] = b
      BY <2>2, BlocksOfSeq
    <3>2. i \in 1 .. Len(r) /\ r[i][2] = b
      BY <1>1, <1>2, <3>1
    <3>3. QED BY <1>1, <3>2, BlocksOfSeq
  <2>3. ASSUME b \in BlocksOf(q) PROVE b \in BlocksOf(r)
    <3>1. PICK i \in 1 .. Len(q) : q[i][2] = b
      BY <2>3, BlocksOfSeq
    <3>2. Len(c) + i \in 1 .. Len(r) /\ r[Len(c) + i][2] = b
      BY <1>1, <1>3, <3>1
    <3>3. QED BY <1>1, <3>2, BlocksOfSeq
  <2>4. QED BY <2>1, <2>2, <2>3
<1>5. BlocksOf(r) = BlocksOf(c) \cup BlocksOf(q)
  BY <1>4
<1>6. QED BY <1>1, <1>2, <1>3, <1>5

LEMMA JoinedOnce ==
  ASSUME NEW c, NEW q, c \in Seq(Pointers), q \in Seq(Pointers), OneEach(c), OneEach(q),
         BlocksOf(c) \cap BlocksOf(q) = {}, NEW r, r = c \o q
  PROVE  OneEach(r)
<1>1. /\ r \in Seq(Pointers) /\ Len(r) = Len(c) + Len(q) /\ Len(c) \in Nat /\ Len(q) \in Nat
      /\ \A i \in 1 .. Len(c) : r[i] = c[i]
      /\ \A i \in 1 .. Len(q) : r[Len(c) + i] = q[i]
  BY JoinedSeq
<1>2. \A i, j \in 1 .. Len(c) : c[i][2] = c[j][2] => i = j
  BY DEF OneEach
<1>3. \A i, j \in 1 .. Len(q) : q[i][2] = q[j][2] => i = j
  BY DEF OneEach
<1>4. \A i \in 1 .. Len(r) : i \in 1 .. Len(c) \/ \E k \in 1 .. Len(q) : i = Len(c) + k
  <2>1. ASSUME NEW i \in 1 .. Len(r), i \notin 1 .. Len(c)
        PROVE  \E k \in 1 .. Len(q) : i = Len(c) + k
    <3>1. i - Len(c) \in 1 .. Len(q) /\ i = Len(c) + (i - Len(c))
      BY <1>1, <2>1
    <3>2. QED BY <3>1
  <2>2. QED BY <2>1
<1>5. \A i \in 1 .. Len(c), j \in 1 .. Len(q) : c[i][2] # q[j][2]
  BY BlocksOfSeq
<1>6. ASSUME NEW i \in 1 .. Len(r), NEW j \in 1 .. Len(r), r[i][2] = r[j][2] PROVE i = j
  <2>1. CASE i \in 1 .. Len(c) /\ j \in 1 .. Len(c)
    BY <1>1, <1>2, <1>6, <2>1
  <2>2. CASE i \in 1 .. Len(c) /\ \E k \in 1 .. Len(q) : j = Len(c) + k
    BY <1>1, <1>5, <1>6, <2>2
  <2>3. CASE j \in 1 .. Len(c) /\ \E k \in 1 .. Len(q) : i = Len(c) + k
    BY <1>1, <1>5, <1>6, <2>3
  <2>4. CASE (\E k \in 1 .. Len(q) : i = Len(c) + k) /\ \E k \in 1 .. Len(q) : j = Len(c) + k
    <3>1. PICK k \in 1 .. Len(q) : i = Len(c) + k
      BY <2>4
    <3>2. PICK l \in 1 .. Len(q) : j = Len(c) + l
      BY <2>4
    <3>3. q[k][2] = q[l][2]
      BY <1>1, <1>6, <3>1, <3>2
    <3>4. QED BY <1>3, <3>1, <3>2, <3>3
  <2>5. QED BY <1>4, <2>1, <2>2, <2>3, <2>4
<1>7. DOMAIN r = 1 .. Len(r)
  BY <1>1
<1>8. QED BY <1>6, <1>7 DEF OneEach

Pushed(t, q, C, q2, C2) == q2 = C[t] \o q /\ C2 = [C EXCEPT ![t] = <<>>]

LEMMA SeparatePush ==
  ASSUME NEW q, NEW C, NEW L, Separate(q, C, L), NEW t \in Threads,
         NEW q2, NEW C2, Pushed(t, q, C, q2, C2)
  PROVE  Separate(q2, C2, L) /\ AllBlocks(q2, C2, L) = AllBlocks(q, C, L)
<1>1. /\ C2[t] = <<>> /\ \A u \in Threads : u # t => C2[u] = C[u]
      /\ C2 \in [Threads -> Seq(Pointers)]
  BY DEF Separate, Pushed
<1>2. C[t] \in Seq(Pointers) /\ q \in Seq(Pointers) /\ OneEach(C[t]) /\ OneEach(q)
  BY DEF Separate
<1>3. BlocksOf(C[t]) \cap BlocksOf(q) = {}
  BY DEF Separate, Way
<1>4. q2 \in Seq(Pointers) /\ BlocksOf(q2) = BlocksOf(C[t]) \cup BlocksOf(q)
  BY <1>2, JoinedSeq DEF Pushed
<1>5. OneEach(q2)
  BY <1>2, <1>3, JoinedOnce DEF Pushed
<1>6. /\ Way(C2, L, t) = {L[t]} \ {0} /\ Way(C, L, t) = BlocksOf(C[t]) \cup ({L[t]} \ {0})
      /\ \A u \in Threads : u # t => Way(C2, L, u) = Way(C, L, u)
  BY <1>1, BlocksOfNone DEF Way
<1>7. \A u \in Threads : Way(C2, L, u) \cap BlocksOf(q2) = {}
  <2>1. Way(C2, L, t) \cap BlocksOf(q2) = {}
    <3>1. L[t] \notin BlocksOf(C[t]) /\ Way(C, L, t) \cap BlocksOf(q) = {}
      BY DEF Separate
    <3>2. QED BY <1>4, <1>6, <3>1
  <2>2. ASSUME NEW u \in Threads, u # t PROVE Way(C2, L, u) \cap BlocksOf(q2) = {}
    <3>1. Way(C, L, u) \cap BlocksOf(q) = {} /\ Way(C, L, u) \cap Way(C, L, t) = {}
      BY <2>2 DEF Separate
    <3>2. QED BY <1>4, <1>6, <2>2, <3>1
  <2>3. QED BY <2>1, <2>2
<1>8. \A u, v \in Threads : u # v => Way(C2, L, u) \cap Way(C2, L, v) = {}
  BY <1>6 DEF Separate
<1>9. \A u \in Threads : OneEach(C2[u]) /\ L[u] \notin BlocksOf(C2[u])
  BY <1>1, BlocksOfNone, OneEachNone DEF Separate
<1>10. AllBlocks(q2, C2, L) = AllBlocks(q, C, L)
  <2>1. ASSUME NEW b
        PROVE  b \in AllBlocks(q2, C2, L) <=> b \in AllBlocks(q, C, L)
    BY <1>4, <1>6 DEF AllBlocks
  <2>2. QED BY <2>1
<1>11. QED BY <1>1, <1>4, <1>5, <1>7, <1>8, <1>9, <1>10 DEF Separate

-----------------------------------------------------------------------------
(* Links: each block of q leads to the next, the last to z.                 *)

LinkedList(q, k, z) ==
  \A i \in 1 .. Len(q) : k[q[i][2]] = IF i = Len(q) THEN z ELSE q[i + 1]

LEMMA NoLinks == \A k, z : LinkedList(<<>>, k, z)
  BY DEF LinkedList

LastBlock(q) == q[Len(q)][2]

(* Only the links of its own blocks count.                                  *)
LEMMA LinksElsewhere ==
  ASSUME NEW q, q \in Seq(Pointers), NEW k, NEW z, LinkedList(q, k, z),
         NEW k2, \A b \in BlocksOf(q) : k2[b] = k[b]
  PROVE  LinkedList(q, k2, z)
<1>1. \A i \in 1 .. Len(q) : q[i][2] \in BlocksOf(q)
  BY BlocksOfSeq
<1>2. QED BY <1>1 DEF LinkedList

(* The last block is linked to something else.                              *)
LEMMA LinkLast ==
  ASSUME NEW q, q \in Seq(Pointers), q # <<>>, OneEach(q), NEW k, k \in [Nodes -> Int \X Int],
         NEW z, LinkedList(q, k, z), NEW y, NEW k2, k2 = [k EXCEPT ![LastBlock(q)] = y]
  PROVE  LinkedList(q, k2, y)
<1>1. Len(q) \in 1 .. Len(q) /\ LastBlock(q) \in Nodes
  BY BlocksOfSeq DEF LastBlock
<1>2. ASSUME NEW i \in 1 .. Len(q), i # Len(q)
      PROVE  q[i][2] \in Nodes /\ q[i][2] # LastBlock(q)
  BY <1>1, <1>2, BlocksOfSeq DEF OneEach, LastBlock
<1>3. k2[LastBlock(q)] = y /\ \A b \in Nodes : b # LastBlock(q) => k2[b] = k[b]
  BY <1>1
<1>4. ASSUME NEW i \in 1 .. Len(q)
      PROVE  k2[q[i][2]] = IF i = Len(q) THEN y ELSE q[i + 1]
  <2>1. CASE i = Len(q)
    BY <1>3, <2>1 DEF LastBlock
  <2>2. CASE i # Len(q)
    <3>1. k2[q[i][2]] = k[q[i][2]]
      BY <1>2, <1>3, <2>2
    <3>2. QED BY <2>2, <3>1 DEF LinkedList
  <2>3. QED BY <2>1, <2>2
<1>5. QED BY <1>4 DEF LinkedList

(* What one list leads to is the first of another.                          *)
TopOf(q) == IF q = <<>> THEN Null ELSE Head(q)

LEMMA LinkJoined ==
  ASSUME NEW c, NEW q, c \in Seq(Pointers), q \in Seq(Pointers), c # <<>>, NEW k,
         LinkedList(c, k, TopOf(q)), LinkedList(q, k, Null), NEW r, r = c \o q
  PROVE  LinkedList(r, k, Null) /\ TopOf(r) = Head(c)
<1>1. /\ r \in Seq(Pointers) /\ Len(r) = Len(c) + Len(q) /\ Len(c) \in Nat /\ Len(q) \in Nat
      /\ \A i \in 1 .. Len(c) : r[i] = c[i]
      /\ \A i \in 1 .. Len(q) : r[Len(c) + i] = q[i]
  BY JoinedSeq
<1>2. Len(c) > 0
  OBVIOUS
<1>3. ASSUME NEW i \in 1 .. Len(r)
      PROVE  k[r[i][2]] = IF i = Len(r) THEN Null ELSE r[i + 1]
  <2>1. CASE i < Len(c)
    <3>1. i \in 1 .. Len(c) /\ i # Len(c) /\ i + 1 \in 1 .. Len(c) /\ i # Len(r)
      BY <1>1, <2>1
    <3>2. QED BY <1>1, <3>1 DEF LinkedList
  <2>2. CASE i = Len(c) /\ q = <<>>
    <3>1. Len(q) = 0 /\ i = Len(r) /\ i \in 1 .. Len(c) /\ r[i] = c[i] /\ TopOf(q) = Null
      BY <1>1, <1>2, <2>2 DEF TopOf
    <3>2. k[c[i][2]] = TopOf(q)
      BY <2>2, <3>1 DEF LinkedList
    <3>3. QED BY <3>1, <3>2
  <2>3. CASE i = Len(c) /\ q # <<>>
    <3>1. Len(q) > 0 /\ 1 \in 1 .. Len(q) /\ Head(q) = q[1] /\ i \in 1 .. Len(c) /\ i # Len(r)
      BY <1>1, <1>2, <2>3
    <3>2. r[i + 1] = q[1] /\ r[i] = c[i]
      BY <1>1, <2>3, <3>1
    <3>3. k[c[i][2]] = q[1]
      BY <2>3, <3>1 DEF LinkedList, TopOf
    <3>4. QED BY <3>1, <3>2, <3>3
  <2>4. CASE i > Len(c)
    <3>1. PICK j : j = i - Len(c)
      OBVIOUS
    <3>2. j \in 1 .. Len(q) /\ i = Len(c) + j /\ (i = Len(r) <=> j = Len(q))
      BY <1>1, <2>4, <3>1
    <3>3. r[i] = q[j]
      BY <1>1, <3>2
    <3>4. i # Len(r) => r[i + 1] = q[j + 1]
      <4>1. ASSUME i # Len(r) PROVE r[i + 1] = q[j + 1]
        <5>1. j + 1 \in 1 .. Len(q) /\ i + 1 = Len(c) + (j + 1)
          BY <1>1, <3>2, <4>1
        <5>2. QED BY <1>1, <5>1
      <4>2. QED BY <4>1
    <3>5. QED BY <3>2, <3>3, <3>4 DEF LinkedList
  <2>5. i < Len(c) \/ i = Len(c) \/ i > Len(c)
    BY <1>1
  <2>6. QED BY <2>1, <2>2, <2>3, <2>4, <2>5
<1>4. TopOf(r) = Head(c)
  <2>1. r # <<>> /\ Head(r) = r[1] /\ Head(c) = c[1] /\ 1 \in 1 .. Len(c)
    BY <1>1, <1>2
  <2>2. QED BY <1>1, <2>1 DEF TopOf
<1>5. QED BY <1>3, <1>4 DEF LinkedList

(* The first leads to what is the first without it.                         *)
LEMMA LinkPopped ==
  ASSUME NEW q, q \in Seq(Pointers), q # <<>>, NEW k, LinkedList(q, k, Null)
  PROVE  /\ LinkedList(Tail(q), k, Null) /\ k[Head(q)[2]] = TopOf(Tail(q))
         /\ Tail(q) \in Seq(Pointers)
<1>1. PICK r : r = Tail(q)
  OBVIOUS
<1>2. /\ Len(q) \in Nat /\ Len(q) > 0 /\ r \in Seq(Pointers) /\ Len(r) = Len(q) - 1
      /\ Head(q) = q[1] /\ \A i \in 1 .. Len(q) - 1 : r[i] = q[i + 1]
  BY <1>1
<1>3. ASSUME NEW i \in 1 .. Len(r)
      PROVE  k[r[i][2]] = IF i = Len(r) THEN Null ELSE r[i + 1]
  <2>1. r[i] = q[i + 1] /\ i + 1 \in 1 .. Len(q) /\ (i = Len(r) <=> i + 1 = Len(q))
    BY <1>2
  <2>2. i # Len(r) => r[i + 1] = q[i + 1 + 1]
    BY <1>2
  <2>3. QED BY <2>1, <2>2 DEF LinkedList
<1>4. k[q[1][2]] = TopOf(r)
  <2>1. CASE Len(q) = 1
    <3>1. r = <<>> /\ 1 \in 1 .. Len(q)
      BY <1>2, <2>1
    <3>2. QED BY <2>1, <3>1 DEF LinkedList, TopOf
  <2>2. CASE Len(q) # 1
    <3>1. r # <<>> /\ Head(r) = r[1] /\ r[1] = q[2] /\ 1 \in 1 .. Len(q)
      BY <1>2, <2>2
    <3>2. k[q[1][2]] = q[1 + 1]
      BY <2>2, <3>1 DEF LinkedList
    <3>3. QED BY <3>1, <3>2 DEF TopOf
  <2>3. QED BY <2>1, <2>2
<1>5. LinkedList(r, k, Null)
  BY <1>3 DEF LinkedList
<1>6. QED BY ONLY <1>1, <1>2, <1>4, <1>5

-----------------------------------------------------------------------------
(* The invariant.                                                           *)

Steps == {"run", "exit", "gone", "push", "pushed", "pop", "next", "popped", "lock",
          "page", "own", "ended"}
Locals == [top : Int \X Int, next : Int \X Int, chain : Seq(Pointers),
           last : Nodes \cup {0}, then : {"run", "exit", "own"}]

Chains == [t \in Threads |-> loc[t].chain]
Lasts == [t \in Threads |-> loc[t].last]
BlocksNow == AllBlocks(listed, Chains, Lasts)
Given == 1 .. pages * PageBlocks * BlockSize

Types ==
  /\ counter \in Nat /\ pages \in 0 .. MaxPages /\ link \in [Nodes -> Int \X Int]
  /\ pc \in [Threads -> Steps] /\ loc \in [Threads -> Locals]

(* The lists m and s of a thread.                                           *)
LengthOk(m, s) ==
  Len(m) <= BlockSize /\ Len(s) \in {0, BlockSize} /\ Len(m) + Len(s) < 2 * BlockSize
Lengths ==
  /\ \A t \in Threads : LengthOk(main[t], sub[t])
  /\ Len(partial) < BlockSize

(* What the step p says of its lists and its local variables l: a thread    *)
(* has a chain while it pushes, and asks for a block only when its lists    *)
(* are empty.                                                               *)
Pushing(p) == p = "push" \/ p = "pushed"
Shape(m, s, p, l) ==
  /\ Pushing(p) => l.chain # <<>>
  /\ l.chain # <<>> => Pushing(p) \/ p = "ended"
  /\ l.last # 0 => p = "own" \/ p = "ended" \/ (Pushing(p) /\ l.then = "own")
  /\ p = "own" \/ (Pushing(p) /\ l.then = "own") => l.last # 0 /\ m = <<>> /\ s = <<>>
  /\ p \in {"pop", "next", "popped", "lock", "page"} => m = <<>> /\ s = <<>>

(* Its chain is linked, and behind the chain what it has read.              *)
Chained(p, l, k) ==
  /\ \E z : LinkedList(l.chain, k, z)
  /\ p = "pushed" => LinkedList(l.chain, k, l.top)

(* What a pop has read can be the top again only with the same tag, and is  *)
(* then in the list as it was: with the same block behind it.               *)
Reading(p, l, C, q, k, n) ==
  /\ p \in {"next", "popped"} =>
       l.top \in Pointers /\ l.top[1] <= n /\ \A u \in Threads : l.top \notin ToSet(C[u])
  /\ p = "popped" /\ l.top \in ToSet(q) => k[l.top[2]] = l.next

Threaded ==
  \A t \in Threads :
    /\ Shape(main[t], sub[t], pc[t], loc[t])
    /\ Chained(pc[t], loc[t], link)
    /\ Reading(pc[t], loc[t], Chains, listed, link, counter)

Tagged(q, n) == \A x \in ToSet(q) : x[1] <= n

ListOk(q, C, L, k, n, z) ==
  /\ Separate(q, C, L)
  /\ LinkedList(q, k, Null) /\ z = TopOf(q)
  /\ Tagged(q, n) /\ \A t \in Threads : Tagged(C[t], n)

PoolInv ==
  /\ Types
  /\ Lengths
  /\ Threaded
  /\ NodeInv(held, partial, main, sub, body, BlocksNow, Given)
  /\ ListOk(listed, Chains, Lasts, link, counter, top)

-----------------------------------------------------------------------------
(* What threads rely on when others move.                                   *)

LEMMA ChainedStays ==
  ASSUME NEW p, NEW l \in Locals, NEW k, Chained(p, l, k),
         NEW k2, \A b \in BlocksOf(l.chain) : k2[b] = k[b]
  PROVE  Chained(p, l, k2)
<1>1. PICK c : c = l.chain
  OBVIOUS
<1>2. c \in Seq(Pointers) /\ \A b \in BlocksOf(c) : k2[b] = k[b]
  BY <1>1 DEF Locals
<1>3. \A z : LinkedList(c, k, z) => LinkedList(c, k2, z)
  BY <1>2, LinksElsewhere
<1>4. QED BY <1>1, <1>3 DEF Chained

ReadOk(C, q, k, n, C2, q2, k2, n2) ==
  /\ n \in Nat /\ n2 \in Nat /\ n <= n2
  /\ \A u \in Threads : \A x \in ToSet(C2[u]) : x \in ToSet(C[u]) \/ x[1] > n
  /\ \A x \in ToSet(q2) : x \in ToSet(q) \/ \E u \in Threads : x \in ToSet(C[u])
  /\ \A b \in BlocksOf(q) : k2[b] = k[b]

LEMMA ReadingStays ==
  ASSUME NEW C, NEW q, NEW k, NEW n, NEW C2, NEW q2, NEW k2, NEW n2,
         ReadOk(C, q, k, n, C2, q2, k2, n2), NEW p, NEW l, Reading(p, l, C, q, k, n)
  PROVE  Reading(p, l, C2, q2, k2, n2)
<1>1. ASSUME p \in {"next", "popped"}
      PROVE  /\ l.top \in Pointers /\ l.top[1] <= n2
             /\ \A u \in Threads : l.top \notin ToSet(C2[u])
  <2>1. /\ l.top \in Pointers /\ l.top[1] <= n /\ l.top[1] \in Nat
        /\ \A u \in Threads : l.top \notin ToSet(C[u])
    BY <1>1 DEF Reading, Pointers
  <2>2. l.top[1] <= n2 /\ ~ (l.top[1] > n)
    BY <2>1 DEF ReadOk
  <2>3. QED BY <2>1, <2>2 DEF ReadOk
<1>2. ASSUME p = "popped", l.top \in ToSet(q2) PROVE k2[l.top[2]] = l.next
  <2>1. \A u \in Threads : l.top \notin ToSet(C[u])
    BY <1>2 DEF Reading
  <2>2. l.top \in ToSet(q)
    BY <1>2, <2>1 DEF ReadOk
  <2>3. l.top[2] \in BlocksOf(q)
    BY <2>2 DEF ToSet, BlocksOf
  <2>4. QED BY <1>2, <2>2, <2>3 DEF Reading, ReadOk
<1>3. QED BY <1>1, <1>2 DEF Reading

LEMMA TaggedMore ==
  ASSUME NEW q, q \in Seq(Pointers), NEW n \in Nat, Tagged(q, n), NEW n2 \in Nat, n <= n2
  PROVE  Tagged(q, n2)
<1>1. \A x \in ToSet(q) : x[1] \in Nat
  BY MemberOfSeq DEF Pointers
<1>2. QED BY <1>1 DEF Tagged

LEMMA FreshNone ==
  ASSUME NEW z, z \in Nodes \cup {0}, NEW r, r = Fresh(<<>>, z, "run")
  PROVE  r \in Locals /\ r.chain = <<>> /\ r.last = z /\ r.then = "run"
<1>1. PICK n : n = Null
  OBVIOUS
<1>2. n \in Int \X Int
  BY <1>1 DEF Null
<1>3. <<>> \in Seq(Pointers)
  BY EmptyList
<1>4. r = [top |-> n, next |-> n, chain |-> <<>>, last |-> z, then |-> "run"]
  BY <1>1 DEF Fresh
<1>5. z \in Nodes \cup {0}
  OBVIOUS
<1>6. r \in Locals
  BY ONLY <1>2, <1>3, <1>4, <1>5 DEF Locals
<1>7. QED BY <1>4, <1>6

(* A thread changes its local variables.                                    *)
LEMMA SetLocal ==
  ASSUME Types, NEW t \in Threads, NEW r \in Locals, loc' = [loc EXCEPT ![t] = r]
  PROVE  /\ loc' \in [Threads -> Locals] /\ loc'[t] = r
         /\ \A u \in Threads : u # t => loc'[u] = loc[u]
         /\ Chains' = [Chains EXCEPT ![t] = r.chain]
         /\ Lasts' = [Lasts EXCEPT ![t] = r.last]
<1>1. /\ loc' \in [Threads -> Locals] /\ loc'[t] = r
      /\ \A u \in Threads : u # t => loc'[u] = loc[u]
  BY DEF Types
<1>2. Chains' = [Chains EXCEPT ![t] = r.chain]
  BY <1>1 DEF Chains
<1>3. Lasts' = [Lasts EXCEPT ![t] = r.last]
  BY <1>1 DEF Lasts
<1>4. QED BY <1>1, <1>2, <1>3

LEMMA SetTop ==
  ASSUME Types, NEW t \in Threads, NEW x \in Int \X Int, loc' = [loc EXCEPT ![t].top = x]
  PROVE  /\ loc' \in [Threads -> Locals]
         /\ loc'[t].top = x /\ loc'[t].next = loc[t].next /\ loc'[t].chain = loc[t].chain
         /\ loc'[t].last = loc[t].last /\ loc'[t].then = loc[t].then
         /\ \A u \in Threads : u # t => loc'[u] = loc[u]
         /\ Chains' = Chains /\ Lasts' = Lasts
<1>1. PICK r : r = [loc[t] EXCEPT !.top = x]
  OBVIOUS
<1>2. /\ r \in Locals /\ r.top = x /\ r.next = loc[t].next /\ r.chain = loc[t].chain
      /\ r.last = loc[t].last /\ r.then = loc[t].then
  BY <1>1 DEF Types, Locals
<1>3. loc' = [loc EXCEPT ![t] = r]
  BY <1>1 DEF Types
<1>4. /\ loc' \in [Threads -> Locals] /\ loc'[t] = r
      /\ \A u \in Threads : u # t => loc'[u] = loc[u]
      /\ Chains' = [Chains EXCEPT ![t] = r.chain] /\ Lasts' = [Lasts EXCEPT ![t] = r.last]
  BY <1>2, <1>3, SetLocal
<1>5. Chains' = Chains
  BY <1>2, <1>4 DEF Chains
<1>6. Lasts' = Lasts
  BY <1>2, <1>4 DEF Lasts
<1>7. QED BY <1>2, <1>4, <1>5, <1>6

LEMMA SetNext ==
  ASSUME Types, NEW t \in Threads, NEW x \in Int \X Int, loc' = [loc EXCEPT ![t].next = x]
  PROVE  /\ loc' \in [Threads -> Locals]
         /\ loc'[t].next = x /\ loc'[t].top = loc[t].top /\ loc'[t].chain = loc[t].chain
         /\ loc'[t].last = loc[t].last /\ loc'[t].then = loc[t].then
         /\ \A u \in Threads : u # t => loc'[u] = loc[u]
         /\ Chains' = Chains /\ Lasts' = Lasts
<1>1. PICK r : r = [loc[t] EXCEPT !.next = x]
  OBVIOUS
<1>2. /\ r \in Locals /\ r.next = x /\ r.top = loc[t].top /\ r.chain = loc[t].chain
      /\ r.last = loc[t].last /\ r.then = loc[t].then
  BY <1>1 DEF Types, Locals
<1>3. loc' = [loc EXCEPT ![t] = r]
  BY <1>1 DEF Types
<1>4. /\ loc' \in [Threads -> Locals] /\ loc'[t] = r
      /\ \A u \in Threads : u # t => loc'[u] = loc[u]
      /\ Chains' = [Chains EXCEPT ![t] = r.chain] /\ Lasts' = [Lasts EXCEPT ![t] = r.last]
  BY <1>2, <1>3, SetLocal
<1>5. Chains' = Chains
  BY <1>2, <1>4 DEF Chains
<1>6. Lasts' = Lasts
  BY <1>2, <1>4 DEF Lasts
<1>7. QED BY <1>2, <1>4, <1>5, <1>6

LEMMA SetStep ==
  ASSUME Types, NEW t \in Threads, NEW step \in Steps, Go(t, step)
  PROVE  /\ pc' \in [Threads -> Steps] /\ pc'[t] = step
         /\ \A u \in Threads : u # t => pc'[u] = pc[u]
  BY DEF Types, Go

-----------------------------------------------------------------------------
(* Steps that move no node and no block.                                    *)

Others(t) ==
  \A u \in Threads : u # t =>
    pc'[u] = pc[u] /\ loc'[u] = loc[u] /\ main'[u] = main[u] /\ sub'[u] = sub[u]

LEMMA ThreadedNext ==
  ASSUME Types, Threaded, NEW t \in Threads, Others(t),
         ReadOk(Chains, listed, link, counter, Chains', listed', link', counter'),
         \A u \in Threads : u # t => \A b \in BlocksOf(loc[u].chain) : link'[b] = link[b],
         Shape(main'[t], sub'[t], pc'[t], loc'[t]), Chained(pc'[t], loc'[t], link'),
         Reading(pc'[t], loc'[t], Chains', listed', link', counter')
  PROVE  Threaded'
<1>1. ASSUME NEW u \in Threads, u # t
      PROVE  /\ Shape(main'[u], sub'[u], pc'[u], loc'[u])
             /\ Chained(pc'[u], loc'[u], link')
             /\ Reading(pc'[u], loc'[u], Chains', listed', link', counter')
  <2>1. /\ Shape(main[u], sub[u], pc[u], loc[u]) /\ Chained(pc[u], loc[u], link)
        /\ Reading(pc[u], loc[u], Chains, listed, link, counter) /\ loc[u] \in Locals
    BY DEF Threaded, Types
  <2>2. pc'[u] = pc[u] /\ loc'[u] = loc[u] /\ main'[u] = main[u] /\ sub'[u] = sub[u]
    BY <1>1 DEF Others
  <2>3. Chained(pc[u], loc[u], link')
    BY <1>1, <2>1, ChainedStays
  <2>4. Reading(pc[u], loc[u], Chains', listed', link', counter')
    BY <2>1, ReadingStays
  <2>5. QED BY <2>1, <2>2, <2>3, <2>4
<1>2. QED BY <1>1 DEF Threaded

LEMMA ReadOkSame ==
  ASSUME Types, UNCHANGED <<listed, link, counter>>, Chains' = Chains
  PROVE  ReadOk(Chains, listed, link, counter, Chains', listed', link', counter')
  BY DEF ReadOk, Types

Quiet ==
  /\ UNCHANGED <<main, sub, held, top, counter, link, body, partial, pages, listed>>
  /\ Chains' = Chains /\ Lasts' = Lasts

LEMMA QuietKeeps ==
  ASSUME PoolInv, Quiet, Types', Threaded'
  PROVE  PoolInv'
<1>1. Lengths'
  BY DEF PoolInv, Quiet, Lengths
<1>2. BlocksNow' = BlocksNow
  BY DEF Quiet, BlocksNow
<1>3. NodeInv(held, partial, main, sub, body, BlocksNow, Given)'
  BY <1>2 DEF PoolInv, Quiet, Given
<1>4. ListOk(listed, Chains, Lasts, link, counter, top)'
  BY DEF PoolInv, Quiet
<1>5. QED BY <1>1, <1>3, <1>4 DEF PoolInv

(* One thread goes on, and its local variables stay or are read.            *)
LEMMA QuietStep ==
  ASSUME PoolInv, Quiet, NEW t \in Threads, NEW step \in Steps, Go(t, step),
         loc' \in [Threads -> Locals], \A u \in Threads : u # t => loc'[u] = loc[u],
         Shape(main[t], sub[t], step, loc'[t]), Chained(step, loc'[t], link),
         Reading(step, loc'[t], Chains, listed, link, counter)
  PROVE  PoolInv'
<1>1. Types /\ Threaded
  BY DEF PoolInv
<1>2. pc' \in [Threads -> Steps] /\ pc'[t] = step /\ \A u \in Threads : u # t => pc'[u] = pc[u]
  BY <1>1, SetStep
<1>3. Types'
  BY <1>1, <1>2 DEF Types, Quiet
<1>4. Others(t)
  BY <1>2 DEF Others, Quiet
<1>5. ReadOk(Chains, listed, link, counter, Chains', listed', link', counter')
  BY <1>1, ReadOkSame DEF Quiet
<1>6. /\ Shape(main'[t], sub'[t], pc'[t], loc'[t]) /\ Chained(pc'[t], loc'[t], link')
      /\ Reading(pc'[t], loc'[t], Chains', listed', link', counter')
  BY <1>2 DEF Quiet
<1>7. \A u \in Threads : u # t => \A b \in BlocksOf(loc[u].chain) : link'[b] = link[b]
  BY DEF Quiet
<1>8. Threaded'
  BY <1>1, <1>4, <1>5, <1>6, <1>7, ThreadedNext
<1>9. QED BY <1>3, <1>8, QuietKeeps

LEMMA SameLocals ==
  ASSUME Types, loc' = loc
  PROVE  Chains' = Chains /\ Lasts' = Lasts /\ loc' \in [Threads -> Locals]
  BY DEF Types, Chains, Lasts

(* What the invariant says of one thread.                                   *)
LEMMA ThreadNow ==
  ASSUME PoolInv, NEW t \in Threads
  PROVE  /\ Types /\ Threaded /\ pc[t] \in Steps /\ loc[t] \in Locals
         /\ Shape(main[t], sub[t], pc[t], loc[t]) /\ Chained(pc[t], loc[t], link)
         /\ Reading(pc[t], loc[t], Chains, listed, link, counter)
         /\ Chains[t] = loc[t].chain /\ Lasts[t] = loc[t].last
         /\ main[t] \in Seq(Nodes) /\ sub[t] \in Seq(Nodes) /\ LengthOk(main[t], sub[t])
  BY DEF PoolInv, Types, Threaded, Chains, Lasts, NodeInv, GoodStacks, Lengths

LEMMA ExitKeeps ==
  ASSUME PoolInv, NEW t \in Threads, Exit(t)
  PROVE  PoolInv'
<1>1. pc[t] = "run" /\ Go(t, "exit") /\ loc' = loc
  BY DEF Exit
<1>2. Quiet
  BY <1>1, ThreadNow, SameLocals DEF Quiet, Exit, stackVars
<1>3. Shape(main[t], sub[t], "exit", loc'[t])
  BY <1>1, ThreadNow DEF Shape, Pushing
<1>4. Chained("exit", loc'[t], link) /\ Reading("exit", loc'[t], Chains, listed, link, counter)
  BY <1>1, ThreadNow DEF Chained, Reading
<1>5. QED BY <1>1, <1>2, <1>3, <1>4, ThreadNow, SameLocals, QuietStep DEF Steps

LEMMA LockKeeps ==
  ASSUME PoolInv, NEW t \in Threads, Lock(t)
  PROVE  PoolInv'
<1>1. PICK step : step \in {"page", "pop"} /\ Go(t, step)
  BY DEF Lock
<1>2. pc[t] = "lock" /\ loc' = loc
  BY DEF Lock
<1>3. Quiet
  BY <1>2, ThreadNow, SameLocals DEF Quiet, Lock, stackVars
<1>4. Shape(main[t], sub[t], step, loc'[t])
  BY <1>1, <1>2, ThreadNow DEF Shape, Pushing
<1>5. Chained(step, loc'[t], link) /\ Reading(step, loc'[t], Chains, listed, link, counter)
  BY <1>1, <1>2, ThreadNow DEF Chained, Reading
<1>6. step \in Steps
  BY <1>1 DEF Steps
<1>7. QED BY <1>1, <1>2, <1>3, <1>4, <1>5, <1>6, ThreadNow, SameLocals, QuietStep

LEMMA PopReadKeeps ==
  ASSUME PoolInv, NEW t \in Threads, PopRead(t)
  PROVE  PoolInv'
<1>1. /\ ListOk(listed, Chains, Lasts, link, counter, top) /\ Types /\ Separate(listed, Chains, Lasts)
      /\ listed \in Seq(Pointers) /\ top = TopOf(listed) /\ Tagged(listed, counter)
      /\ Chains \in [Threads -> Seq(Pointers)]
  BY DEF PoolInv, ListOk, Separate
<1>2. CASE listed = <<>>
  <2>1. top = Null /\ top \in Int \X Int /\ top[2] = 0
    BY <1>1, <1>2 DEF TopOf, Null
  <2>2. pc[t] = "pop" /\ Go(t, "lock") /\ loc' = [loc EXCEPT ![t].top = top]
    BY <2>1 DEF PopRead
  <2>3. /\ loc' \in [Threads -> Locals] /\ loc'[t].chain = loc[t].chain /\ loc'[t].last = loc[t].last
        /\ loc'[t].then = loc[t].then
        /\ (\A u \in Threads : u # t => loc'[u] = loc[u]) /\ Chains' = Chains /\ Lasts' = Lasts
    BY <1>1, <2>1, <2>2, SetTop
  <2>4. Quiet
    BY <2>3 DEF Quiet, PopRead, stackVars
  <2>5. Shape(main[t], sub[t], "lock", loc'[t])
    BY <2>2, <2>3, ThreadNow DEF Shape, Pushing
  <2>6. Chained("lock", loc'[t], link) /\ Reading("lock", loc'[t], Chains, listed, link, counter)
    BY <2>2, <2>3, ThreadNow DEF Chained, Reading
  <2>7. QED BY <2>2, <2>3, <2>4, <2>5, <2>6, QuietStep DEF Steps
<1>3. CASE listed # <<>>
  <2>1. top = listed[1] /\ 1 \in 1 .. Len(listed) /\ top \in Pointers /\ top \in ToSet(listed)
    <3>1. 1 \in 1 .. Len(listed) /\ top = listed[1]
      BY <1>1, <1>3 DEF TopOf
    <3>2. QED BY <1>1, <3>1, MemberOfSeq
  <2>2. top \in Int \X Int /\ top[2] # 0 /\ top[2] \in BlocksOf(listed)
    <3>1. top \in Int \X Int /\ top[2] # 0
      BY <2>1, PointersAre
    <3>2. QED BY <1>1, <2>1, <3>1, BlocksOfSeq
  <2>3. pc[t] = "pop" /\ Go(t, "next") /\ loc' = [loc EXCEPT ![t].top = top]
    BY <2>2 DEF PopRead
  <2>4. /\ loc' \in [Threads -> Locals] /\ loc'[t].chain = loc[t].chain /\ loc'[t].last = loc[t].last
        /\ loc'[t].then = loc[t].then /\ loc'[t].top = top
        /\ (\A u \in Threads : u # t => loc'[u] = loc[u]) /\ Chains' = Chains /\ Lasts' = Lasts
    BY <1>1, <2>2, <2>3, SetTop
  <2>5. Quiet
    BY <2>4 DEF Quiet, PopRead, stackVars
  <2>6. Shape(main[t], sub[t], "next", loc'[t])
    BY <2>3, <2>4, ThreadNow DEF Shape, Pushing
  <2>7. Chained("next", loc'[t], link)
    BY <2>3, <2>4, ThreadNow DEF Chained
  <2>8. ASSUME NEW u \in Threads PROVE top \notin ToSet(Chains[u])
    <3>1. BlocksOf(Chains[u]) \cap BlocksOf(listed) = {}
      BY <1>1 DEF Separate, Way
    <3>2. top \in ToSet(Chains[u]) => top[2] \in BlocksOf(Chains[u])
      BY DEF ToSet, BlocksOf
    <3>3. QED BY <2>2, <3>1, <3>2
  <2>9. Reading("next", loc'[t], Chains, listed, link, counter)
    BY <1>1, <2>1, <2>4, <2>8 DEF Reading, Tagged
  <2>10. QED BY <2>3, <2>4, <2>5, <2>6, <2>7, <2>9, QuietStep DEF Steps
<1>4. QED BY <1>2, <1>3

LEMMA PopNextKeeps ==
  ASSUME PoolInv, NEW t \in Threads, PopNext(t)
  PROVE  PoolInv'
<1>1. /\ pc[t] = "next" /\ Go(t, "popped") /\ Types
      /\ Reading("next", loc[t], Chains, listed, link, counter)
  BY ThreadNow DEF PopNext
<1>2. loc[t].top \in Pointers /\ loc[t].top[2] \in Nodes
  BY <1>1 DEF Reading, Pointers
<1>3. PICK x : x = link[loc[t].top[2]]
  OBVIOUS
<1>4. x \in Int \X Int /\ loc' = [loc EXCEPT ![t].next = x]
  BY <1>1, <1>2, <1>3 DEF Types, PopNext
<1>5. /\ loc' \in [Threads -> Locals] /\ loc'[t].chain = loc[t].chain /\ loc'[t].last = loc[t].last
      /\ loc'[t].then = loc[t].then /\ loc'[t].top = loc[t].top /\ loc'[t].next = x
      /\ (\A u \in Threads : u # t => loc'[u] = loc[u]) /\ Chains' = Chains /\ Lasts' = Lasts
  BY <1>1, <1>4, SetNext
<1>6. Quiet
  BY <1>5 DEF Quiet, PopNext, stackVars
<1>7. Shape(main[t], sub[t], "popped", loc'[t])
  BY <1>1, <1>5, ThreadNow DEF Shape, Pushing
<1>8. Chained("popped", loc'[t], link)
  BY <1>1, <1>5, ThreadNow DEF Chained
<1>9. Reading("popped", loc'[t], Chains, listed, link, counter)
  BY <1>1, <1>3, <1>5 DEF Reading
<1>10. QED BY <1>1, <1>5, <1>6, <1>7, <1>8, <1>9, QuietStep DEF Steps

-----------------------------------------------------------------------------
(* The exchange that fails.                                                 *)

LEMMA PushFailKeeps ==
  ASSUME PoolInv, NEW t \in Threads, pc[t] = "pushed", Go(t, "push"), loc' = loc,
         UNCHANGED <<main, sub, held, top, counter, link, body, partial, pages, listed>>
  PROVE  PoolInv'
<1>1. Quiet
  BY ThreadNow, SameLocals DEF Quiet
<1>2. Shape(main[t], sub[t], "push", loc'[t])
  BY ThreadNow DEF Shape, Pushing
<1>3. Chained("push", loc'[t], link) /\ Reading("push", loc'[t], Chains, listed, link, counter)
  BY ThreadNow DEF Chained, Reading
<1>4. QED BY <1>1, <1>2, <1>3, ThreadNow, SameLocals, QuietStep DEF Steps

LEMMA PopFailKeeps ==
  ASSUME PoolInv, NEW t \in Threads, pc[t] = "popped", Go(t, "pop"), loc' = loc,
         UNCHANGED <<main, sub, held, top, counter, link, body, partial, pages, listed>>
  PROVE  PoolInv'
<1>1. Quiet
  BY ThreadNow, SameLocals DEF Quiet
<1>2. Shape(main[t], sub[t], "pop", loc'[t])
  BY ThreadNow DEF Shape, Pushing
<1>3. Chained("pop", loc'[t], link) /\ Reading("pop", loc'[t], Chains, listed, link, counter)
  BY ThreadNow DEF Chained, Reading
<1>4. QED BY <1>1, <1>2, <1>3, ThreadNow, SameLocals, QuietStep DEF Steps

(* What a push reads is linked behind its chain.                            *)
LEMMA PushReadKeeps ==
  ASSUME PoolInv, NEW t \in Threads, PushRead(t)
  PROVE  PoolInv'
<1>1. PICK c : c = loc[t].chain
  OBVIOUS
<1>2. PICK e : e = LastBlock(c)
  OBVIOUS
<1>3. /\ pc[t] = "push" /\ Go(t, "pushed") /\ loc' = [loc EXCEPT ![t].top = top]
      /\ Types /\ Threaded
      /\ UNCHANGED <<main, sub, held, top, counter, body, partial, pages, listed>>
  BY ThreadNow DEF PushRead, stackVars
<1>4. /\ ListOk(listed, Chains, Lasts, link, counter, top) /\ Separate(listed, Chains, Lasts)
      /\ listed \in Seq(Pointers) /\ top = TopOf(listed) /\ LinkedList(listed, link, Null)
      /\ Chains[t] = c /\ OneEach(c)
  BY <1>1, ThreadNow DEF PoolInv, ListOk, Separate
<1>5. c \in Seq(Pointers) /\ c # <<>> /\ Chained("push", loc[t], link)
  BY <1>1, <1>3, ThreadNow DEF Shape, Pushing, Locals
<1>6. Len(c) \in 1 .. Len(c) /\ e = c[Len(c)][2] /\ e = Last(c)[2] /\ e \in Nodes
  BY <1>2, <1>5, BlocksOfSeq DEF LastBlock, Last
<1>7. link' = [link EXCEPT ![e] = top]
  BY <1>1, <1>6 DEF PushRead
<1>8. top \in Int \X Int
  <2>1. CASE listed = <<>>
    BY <1>4, <2>1 DEF TopOf, Null
  <2>2. CASE listed # <<>>
    <3>1. top = listed[1] /\ 1 \in 1 .. Len(listed)
      BY <1>4, <2>2 DEF TopOf
    <3>2. top \in Pointers
      BY <1>4, <3>1
    <3>3. QED BY <3>2, PointersAre
  <2>3. QED BY <2>1, <2>2
<1>9. /\ loc' \in [Threads -> Locals] /\ loc'[t].top = top /\ loc'[t].chain = c
      /\ loc'[t].last = loc[t].last /\ loc'[t].then = loc[t].then
      /\ (\A u \in Threads : u # t => loc'[u] = loc[u]) /\ Chains' = Chains /\ Lasts' = Lasts
  BY <1>1, <1>3, <1>8, SetTop
<1>10. pc' \in [Threads -> Steps] /\ pc'[t] = "pushed" /\ \A u \in Threads : u # t => pc'[u] = pc[u]
  BY <1>3, SetStep DEF Steps
<1>11. link' \in [Nodes -> Int \X Int] /\ \A b : b \in Nodes /\ b # e => link'[b] = link[b]
  BY <1>3, <1>7, <1>8 DEF Types
<1>12. Types'
  BY <1>3, <1>9, <1>10, <1>11 DEF Types
<1>13. Lengths'
  BY <1>3 DEF PoolInv, Lengths
<1>14. NodeInv(held, partial, main, sub, body, BlocksNow, Given)'
  <2>1. BlocksNow' = BlocksNow
    BY <1>3, <1>9 DEF BlocksNow
  <2>2. QED BY <1>3, <2>1 DEF PoolInv, Given
<1>15. e \in Way(Chains, Lasts, t)
  <2>1. e \in BlocksOf(c)
    BY <1>5, <1>6, BlocksOfSeq
  <2>2. QED BY <1>4, <2>1 DEF Way
<1>16. \A b \in BlocksOf(listed) : link'[b] = link[b]
  <2>1. e \notin BlocksOf(listed)
    BY <1>4, <1>15 DEF Separate
  <2>2. QED BY <1>4, <1>11, <2>1, BlocksOfSeq
<1>17. ASSUME NEW u \in Threads, u # t
       PROVE  \A b \in BlocksOf(loc[u].chain) : link'[b] = link[b]
  <2>1. loc[u].chain = Chains[u] /\ loc[u].chain \in Seq(Pointers)
    BY ThreadNow DEF Locals
  <2>2. e \notin BlocksOf(Chains[u])
    BY <1>4, <1>15, <1>17 DEF Separate, Way
  <2>3. QED BY <1>11, <2>1, <2>2, BlocksOfSeq
<1>18. ListOk(listed, Chains, Lasts, link, counter, top)'
  <2>1. LinkedList(listed, link', Null)
    BY <1>4, <1>16, LinksElsewhere
  <2>2. QED BY <1>3, <1>4, <1>9, <2>1 DEF ListOk
<1>19. ReadOk(Chains, listed, link, counter, Chains', listed', link', counter')
  BY <1>3, <1>9, <1>16 DEF ReadOk, Types
<1>20. LinkedList(c, link', top)
  <2>1. PICK z : LinkedList(c, link, z)
    BY <1>1, <1>5 DEF Chained
  <2>2. link \in [Nodes -> Int \X Int]
    BY <1>3 DEF Types
  <2>3. QED BY <1>2, <1>4, <1>5, <1>7, <2>1, <2>2, LinkLast
<1>21. Chained(pc'[t], loc'[t], link')
  BY <1>9, <1>20 DEF Chained
<1>22. Shape(main'[t], sub'[t], pc'[t], loc'[t])
  BY <1>1, <1>3, <1>9, <1>10, ThreadNow DEF Shape, Pushing
<1>23. Reading(pc'[t], loc'[t], Chains', listed', link', counter')
  BY <1>10 DEF Reading
<1>24. Others(t)
  BY <1>3, <1>9, <1>10 DEF Others
<1>25. Threaded'
  BY <1>3, <1>17, <1>19, <1>21, <1>22, <1>23, <1>24, ThreadedNext
<1>26. QED BY <1>12, <1>13, <1>14, <1>18, <1>25 DEF PoolInv

(* The chain becomes the head of the list.                                  *)
LEMMA PushSwapKeeps ==
  ASSUME PoolInv, NEW t \in Threads, PushSwap(t)
  PROVE  PoolInv'
<1>1. CASE top # loc[t].top
  <2>1. /\ pc[t] = "pushed" /\ Go(t, "push") /\ loc' = loc
        /\ UNCHANGED <<main, sub, held, top, counter, link, body, partial, pages, listed>>
    BY <1>1 DEF PushSwap, stackVars
  <2>2. QED BY <2>1, PushFailKeeps
<1>2. CASE top = loc[t].top
  <2>1. PICK c : c = loc[t].chain
    OBVIOUS
  <2>2. PICK r : r = Fresh(<<>>, loc[t].last, "run")
    OBVIOUS
  <2>3. PICK step : step = loc[t].then
    OBVIOUS
  <2>4. /\ pc[t] = "pushed" /\ Go(t, step) /\ loc' = [loc EXCEPT ![t] = r]
        /\ top' = Head(c) /\ listed' = c \o listed /\ Types /\ Threaded
        /\ UNCHANGED <<main, sub, held, counter, link, body, partial, pages>>
    BY <1>2, <2>1, <2>2, <2>3, ThreadNow DEF PushSwap, stackVars
  <2>5. /\ ListOk(listed, Chains, Lasts, link, counter, top) /\ Separate(listed, Chains, Lasts)
        /\ listed \in Seq(Pointers) /\ top = TopOf(listed) /\ LinkedList(listed, link, Null)
        /\ Tagged(listed, counter) /\ Tagged(c, counter) /\ Chains \in [Threads -> Seq(Pointers)]
        /\ (\A u \in Threads : Tagged(Chains[u], counter)) /\ Chains[t] = c
    BY <2>1, ThreadNow DEF PoolInv, ListOk, Separate
  <2>6. /\ c \in Seq(Pointers) /\ c # <<>> /\ LinkedList(c, link, TopOf(listed))
        /\ step \in {"run", "exit", "own"} /\ loc[t].last \in Nodes \cup {0}
    <3>1. Chained("pushed", loc[t], link) /\ Shape(main[t], sub[t], "pushed", loc[t])
      BY <2>4, ThreadNow
    <3>2. loc[t] \in Locals
      BY ThreadNow
    <3>3. c \in Seq(Pointers) /\ step \in {"run", "exit", "own"} /\ loc[t].last \in Nodes \cup {0}
      BY <2>1, <2>3, <3>2 DEF Locals
    <3>4. LinkedList(c, link, loc[t].top)
      BY <2>1, <3>1 DEF Chained
    <3>5. c # <<>>
      BY <2>1, <3>1 DEF Shape, Pushing
    <3>6. loc[t].top = TopOf(listed)
      BY <1>2, <2>5
    <3>7. LinkedList(c, link, TopOf(listed))
      BY ONLY <3>4, <3>6
    <3>8. QED BY ONLY <3>3, <3>5, <3>7
  <2>7. /\ r.chain = <<>> /\ r.last = loc[t].last /\ r.then = "run" /\ r \in Locals
    <3>2. PICK z : z = loc[t].last
      OBVIOUS
    <3>3. z \in Nodes \cup {0} /\ r = Fresh(<<>>, z, "run")
      BY <2>2, <2>6, <3>2
    <3>4. QED BY <3>2, <3>3, FreshNone
  <2>8. /\ loc' \in [Threads -> Locals] /\ loc'[t] = r
        /\ \A u \in Threads : u # t => loc'[u] = loc[u]
        /\ Chains' = [Chains EXCEPT ![t] = <<>>] /\ Lasts' = [Lasts EXCEPT ![t] = r.last]
    BY <2>4, <2>7, SetLocal
  <2>9. Lasts' = Lasts
    BY <2>7, <2>8 DEF Lasts
  <2>10. pc' \in [Threads -> Steps] /\ pc'[t] = step /\ \A u \in Threads : u # t => pc'[u] = pc[u]
    BY <2>4, <2>6, SetStep DEF Steps
  <2>11. Types'
    BY <2>4, <2>8, <2>10 DEF Types
  <2>12. Lengths'
    BY <2>4 DEF PoolInv, Lengths
  <2>13. Separate(listed', Chains', Lasts') /\ BlocksNow' = BlocksNow
    <3>1. PICK q2 : q2 = listed'
      OBVIOUS
    <3>2. PICK C2 : C2 = Chains'
      OBVIOUS
    <3>3. Pushed(t, listed, Chains, q2, C2)
      BY <2>4, <2>5, <2>8, <3>1, <3>2 DEF Pushed
    <3>4. /\ Separate(q2, C2, Lasts)
          /\ AllBlocks(q2, C2, Lasts) = AllBlocks(listed, Chains, Lasts)
      BY <2>5, <3>3, SeparatePush
    <3>5. QED BY <2>9, <3>1, <3>2, <3>4 DEF BlocksNow
  <2>14. NodeInv(held, partial, main, sub, body, BlocksNow, Given)'
    BY <2>4, <2>13 DEF PoolInv, Given
  <2>15. LinkedList(listed', link', Null) /\ top' = TopOf(listed')
    <3>1. PICK q2 : q2 = listed'
      OBVIOUS
    <3>2. LinkedList(q2, link, Null) /\ TopOf(q2) = Head(c)
      BY <2>4, <2>5, <2>6, <3>1, LinkJoined
    <3>3. QED BY <2>4, <3>1, <3>2
  <2>16. \A x : x \in ToSet(listed') => x \in ToSet(c) \/ x \in ToSet(listed)
    <3>1. PICK q2 : q2 = listed'
      OBVIOUS
    <3>2. q2 = c \o listed
      BY <2>4, <3>1
    <3>3. /\ q2 \in Seq(Pointers) /\ Len(q2) = Len(c) + Len(listed) /\ Len(c) \in Nat
          /\ Len(listed) \in Nat /\ \A i \in 1 .. Len(c) : q2[i] = c[i]
          /\ \A i \in 1 .. Len(listed) : q2[Len(c) + i] = listed[i]
      BY <2>5, <2>6, <3>2, JoinedSeq
    <3>4. ASSUME NEW x, x \in ToSet(q2) PROVE x \in ToSet(c) \/ x \in ToSet(listed)
      <4>1. PICK i \in 1 .. Len(q2) : q2[i] = x
        BY <3>3, <3>4, MemberOfSeq
      <4>2. CASE i <= Len(c)
        <5>1. i \in 1 .. Len(c) /\ c[i] = x
          BY <3>3, <4>1, <4>2
        <5>2. QED BY <2>6, <5>1, MemberOfSeq
      <4>3. CASE i > Len(c)
        <5>1. i - Len(c) \in 1 .. Len(listed) /\ Len(c) + (i - Len(c)) = i
          BY <3>3, <4>1, <4>3
        <5>2. listed[i - Len(c)] = x
          BY <3>3, <4>1, <5>1
        <5>3. QED BY <2>5, <5>1, <5>2, MemberOfSeq
      <4>4. QED BY <3>3, <4>1, <4>2, <4>3
    <3>5. QED BY <3>1, <3>4
  <2>17. /\ Chains'[t] = <<>> /\ \A u \in Threads : u # t => Chains'[u] = Chains[u]
    BY <2>5, <2>8
  <2>18. Tagged(listed', counter') /\ \A u \in Threads : Tagged(Chains'[u], counter')
    <3>1. Tagged(listed', counter)
      BY <2>5, <2>16 DEF Tagged
    <3>2. Tagged(<<>>, counter)
      BY EmptyList DEF Tagged
    <3>3. QED BY <2>4, <2>5, <2>17, <3>1, <3>2
  <2>19. ListOk(listed, Chains, Lasts, link, counter, top)'
    BY <2>13, <2>15, <2>18 DEF ListOk
  <2>20. ReadOk(Chains, listed, link, counter, Chains', listed', link', counter')
    <3>1. \A u \in Threads : \A x \in ToSet(Chains'[u]) : x \in ToSet(Chains[u])
      BY <2>17, EmptyList
    <3>2. \A x \in ToSet(listed') : x \in ToSet(listed) \/ \E u \in Threads : x \in ToSet(Chains[u])
      <4>1. ASSUME NEW x, x \in ToSet(c) PROVE \E u \in Threads : x \in ToSet(Chains[u])
        BY <2>5, <4>1
      <4>2. QED BY <2>16, <4>1
    <3>3. counter \in Nat /\ counter' = counter /\ link' = link
      BY <2>4 DEF Types
    <3>4. QED BY <3>1, <3>2, <3>3 DEF ReadOk
  <2>21. Chained(pc'[t], loc'[t], link')
    BY <2>6, <2>7, <2>8, <2>10, NoLinks DEF Chained
  <2>22. Shape(main'[t], sub'[t], pc'[t], loc'[t])
    <3>1. Shape(main[t], sub[t], "pushed", loc[t])
      BY <2>4, ThreadNow
    <3>2. QED BY <2>3, <2>4, <2>6, <2>7, <2>8, <2>10, <3>1 DEF Shape, Pushing
  <2>23. Reading(pc'[t], loc'[t], Chains', listed', link', counter')
    BY <2>6, <2>10 DEF Reading
  <2>24. Others(t)
    BY <2>4, <2>8, <2>10 DEF Others
  <2>25. Threaded'
    BY <2>4, <2>20, <2>21, <2>22, <2>23, <2>24, ThreadedNext
  <2>26. QED BY <2>11, <2>12, <2>14, <2>19, <2>25 DEF PoolInv
<1>3. QED BY <1>1, <1>2

-----------------------------------------------------------------------------
(* A block becomes the list of a thread.                                    *)

LEMMA FullLength ==
  ASSUME NEW m, NEW s, Len(m) = BlockSize, Len(s) = 0
  PROVE  LengthOk(m, s)
<1>1. PICK k : k = BlockSize
  OBVIOUS
<1>2. k \in Nat /\ k > 0 /\ k <= k /\ k + 0 < 2 * k
  BY <1>1, SizePositive
<1>3. QED BY <1>1, <1>2 DEF LengthOk

(* A block the thread t was given leaves level 2.                           *)
LEMMA TakenLengths ==
  ASSUME PoolInv, NEW t \in Threads, sub[t] = <<>>, NEW b \in BlocksNow,
         main' = [main EXCEPT ![t] = body[b]], sub' = sub, partial' = partial
  PROVE  Lengths' /\ main'[t] = body[b] /\ \A u \in Threads : u # t => main'[u] = main[u]
<1>1. GoodStacks(main, sub) /\ GoodBlocks(body, BlocksNow) /\ Lengths
  BY DEF PoolInv, NodeInv
<1>2. main'[t] = body[b] /\ \A u \in Threads : u # t => main'[u] = main[u]
  BY <1>1 DEF GoodStacks
<1>3. Len(body[b]) = BlockSize
  BY <1>1 DEF GoodBlocks
<1>4. LengthOk(main'[t], sub'[t])
  <2>1. Len(sub'[t]) = 0 /\ Len(main'[t]) = BlockSize
    BY <1>2, <1>3
  <2>2. QED BY <2>1, FullLength
<1>5. \A u \in Threads : LengthOk(main'[u], sub'[u])
  BY <1>1, <1>2, <1>4 DEF Lengths
<1>6. QED BY <1>1, <1>2, <1>5 DEF Lengths

LEMMA PopSwapKeeps ==
  ASSUME PoolInv, NEW t \in Threads, PopSwap(t)
  PROVE  PoolInv'
<1>1. CASE top # loc[t].top
  <2>1. /\ pc[t] = "popped" /\ Go(t, "pop") /\ loc' = loc
        /\ UNCHANGED <<main, sub, held, top, counter, link, body, partial, pages, listed>>
    BY <1>1 DEF PopSwap, Unmoved
  <2>2. QED BY <2>1, PopFailKeeps
<1>2. CASE top = loc[t].top
  <2>1. PICK b : b = loc[t].top[2]
    OBVIOUS
  <2>2. PICK r : r = Fresh(<<>>, 0, "run")
    OBVIOUS
  <2>3. PICK q : q = Tail(listed)
    OBVIOUS
  <2>4. /\ pc[t] = "popped" /\ Go(t, "run") /\ loc' = [loc EXCEPT ![t] = r]
        /\ top' = loc[t].next /\ listed' = q /\ Types /\ Threaded
        /\ main' = [main EXCEPT ![t] = body[b]]
        /\ UNCHANGED <<sub, held, counter, link, body, partial, pages>>
    BY <1>2, <2>1, <2>2, <2>3, ThreadNow DEF PopSwap, Unmoved, Free0
  <2>5. /\ ListOk(listed, Chains, Lasts, link, counter, top) /\ Separate(listed, Chains, Lasts)
        /\ listed \in Seq(Pointers) /\ top = TopOf(listed) /\ LinkedList(listed, link, Null)
        /\ Tagged(listed, counter) /\ \A u \in Threads : Tagged(Chains[u], counter)
    BY DEF PoolInv, ListOk, Separate
  <2>6. /\ loc[t].top \in Pointers /\ b \in Nodes /\ b # 0
        /\ loc[t].top \in ToSet(listed) => link[b] = loc[t].next
    <3>1. Reading("popped", loc[t], Chains, listed, link, counter)
      BY <2>4, ThreadNow
    <3>2. loc[t].top \in Pointers
      BY <3>1 DEF Reading
    <3>3. QED BY <2>1, <3>1, <3>2, PointersAre DEF Reading
  <2>7. listed # <<>> /\ Head(listed) = loc[t].top /\ loc[t].top \in ToSet(listed)
    <3>1. listed # <<>>
      BY <1>2, <2>1, <2>5, <2>6 DEF TopOf, Null
    <3>2. Head(listed) = listed[1] /\ 1 \in 1 .. Len(listed)
      BY <2>5, <3>1
    <3>3. Head(listed) = loc[t].top
      BY <1>2, <2>5, <3>1 DEF TopOf
    <3>4. QED BY <2>5, <3>1, <3>2, <3>3, MemberOfSeq
  <2>8. /\ LinkedList(q, link, Null) /\ link[b] = TopOf(q) /\ q \in Seq(Pointers)
    <3>1. b = Head(listed)[2]
      BY <2>1, <2>7
    <3>2. QED BY <2>3, <2>5, <2>7, <3>1, LinkPopped
  <2>9. main[t] = <<>> /\ sub[t] = <<>> /\ loc[t].chain = <<>> /\ loc[t].last = 0
    <3>1. Shape(main[t], sub[t], "popped", loc[t])
      BY <2>4, ThreadNow
    <3>2. QED BY <3>1 DEF Shape, Pushing
  <2>10. r.chain = <<>> /\ r.last = 0 /\ r.then = "run" /\ r \in Locals
    BY <2>2, FreshNone
  <2>11. /\ loc' \in [Threads -> Locals] /\ loc'[t] = r
         /\ \A u \in Threads : u # t => loc'[u] = loc[u]
    BY <2>4, <2>10, SetLocal
  <2>12. Chains' = Chains /\ Lasts' = Lasts
    BY <2>9, <2>10, <2>11 DEF Chains, Lasts
  <2>13. pc' \in [Threads -> Steps] /\ pc'[t] = "run" /\ \A u \in Threads : u # t => pc'[u] = pc[u]
    BY <2>4, SetStep DEF Steps
  <2>14. Types'
    BY <2>4, <2>11, <2>13 DEF Types
  <2>15. /\ Separate(q, Chains, Lasts) /\ b \in BlocksOf(listed)
         /\ AllBlocks(q, Chains, Lasts) = AllBlocks(listed, Chains, Lasts) \ {b}
    <3>1. Popped(listed, q, b)
      BY <2>1, <2>3, <2>7 DEF Popped
    <3>2. QED BY <2>5, <3>1, SeparatePop
  <2>16. b \in BlocksNow /\ BlocksNow' = BlocksNow \ {b}
    <3>1. BlocksNow' = AllBlocks(q, Chains, Lasts)
      BY <2>4, <2>12 DEF BlocksNow
    <3>2. QED BY <2>15, <3>1 DEF BlocksNow, AllBlocks
  <2>17. /\ Lengths' /\ main'[t] = body[b] /\ \A u \in Threads : u # t => main'[u] = main[u]
    BY <2>4, <2>9, <2>16, TakenLengths
  <2>18. NodeInv(held, partial, main, sub, body, BlocksNow, Given)'
    <3>1. PICK m2 : m2 = main'
      OBVIOUS
    <3>2. PICK B2 : B2 = BlocksNow'
      OBVIOUS
    <3>3. NodeInv(held, partial, main, sub, body, BlocksNow, Given)
      BY DEF PoolInv
    <3>4. NodeInv(held, partial, m2, sub, body, B2, Given)
      BY <2>4, <2>9, <2>16, <3>1, <3>2, <3>3, BlockToMain
    <3>5. Given' = Given
      BY <2>4 DEF Given
    <3>6. QED BY <2>4, <3>1, <3>2, <3>4, <3>5
  <2>19. \A x \in ToSet(q) : x \in ToSet(listed)
    <3>1. /\ Len(listed) \in Nat /\ Len(q) = Len(listed) - 1
          /\ \A i \in 1 .. Len(q) : q[i] = listed[i + 1] /\ i + 1 \in 1 .. Len(listed)
      BY <2>3, <2>5, <2>7
    <3>2. QED BY <2>5, <2>8, <3>1, MemberOfSeq
  <2>20. Tagged(q, counter)
    BY <2>5, <2>19 DEF Tagged
  <2>21. top' = TopOf(q)
    BY <2>4, <2>6, <2>7, <2>8
  <2>22. ListOk(listed, Chains, Lasts, link, counter, top)'
    BY <2>4, <2>5, <2>8, <2>12, <2>15, <2>20, <2>21 DEF ListOk
  <2>23. ReadOk(Chains, listed, link, counter, Chains', listed', link', counter')
    <3>1. counter \in Nat /\ counter' = counter /\ link' = link
      BY <2>4 DEF Types
    <3>2. QED BY <2>4, <2>12, <2>19, <3>1 DEF ReadOk
  <2>24. Chained(pc'[t], loc'[t], link')
    BY <2>10, <2>11, <2>13, NoLinks DEF Chained
  <2>25. Shape(main'[t], sub'[t], pc'[t], loc'[t])
    BY <2>10, <2>11, <2>13 DEF Shape, Pushing
  <2>26. Reading(pc'[t], loc'[t], Chains', listed', link', counter')
    BY <2>13 DEF Reading
  <2>27. Others(t)
    BY <2>4, <2>11, <2>13, <2>17 DEF Others
  <2>28. Threaded'
    BY <2>4, <2>23, <2>24, <2>25, <2>26, <2>27, ThreadedNext
  <2>29. QED BY <2>14, <2>17, <2>18, <2>22, <2>28 DEF PoolInv
<1>3. QED BY <1>1, <1>2

LEMMA OwnKeeps ==
  ASSUME PoolInv, NEW t \in Threads, Own(t)
  PROVE  PoolInv'
<1>1. PICK b : b = loc[t].last
  OBVIOUS
<1>2. PICK r : r = Fresh(<<>>, 0, "run")
  OBVIOUS
<1>4. /\ pc[t] = "own" /\ Go(t, "run") /\ loc' = [loc EXCEPT ![t] = r] /\ Types /\ Threaded
      /\ main' = [main EXCEPT ![t] = body[b]]
      /\ UNCHANGED <<sub, held, top, counter, link, body, partial, pages, listed>>
  BY <1>1, <1>2, ThreadNow DEF Own, Free0
<1>5. /\ ListOk(listed, Chains, Lasts, link, counter, top) /\ Separate(listed, Chains, Lasts)
  BY DEF PoolInv, ListOk
<1>9. main[t] = <<>> /\ sub[t] = <<>> /\ loc[t].chain = <<>> /\ b # 0
  <2>1. Shape(main[t], sub[t], "own", loc[t])
    BY <1>4, ThreadNow
  <2>2. QED BY <1>1, <2>1 DEF Shape, Pushing
<1>10. r.chain = <<>> /\ r.last = 0 /\ r.then = "run" /\ r \in Locals
  BY <1>2, FreshNone
<1>11. /\ loc' \in [Threads -> Locals] /\ loc'[t] = r
       /\ (\A u \in Threads : u # t => loc'[u] = loc[u])
       /\ Lasts' = [Lasts EXCEPT ![t] = 0]
  BY <1>4, <1>10, SetLocal
<1>12. Chains' = Chains /\ Lasts[t] = b
  BY <1>1, <1>9, <1>10, <1>11 DEF Chains, Lasts
<1>13. pc' \in [Threads -> Steps] /\ pc'[t] = "run" /\ \A u \in Threads : u # t => pc'[u] = pc[u]
  BY <1>4, SetStep DEF Steps
<1>14. Types'
  BY <1>4, <1>11, <1>13 DEF Types
<1>15. /\ Separate(listed, Chains, Lasts') /\ b \in BlocksNow /\ BlocksNow' = BlocksNow \ {b}
  <2>1. PICK L2 : L2 = Lasts'
    OBVIOUS
  <2>2. /\ Separate(listed, Chains, L2)
        /\ AllBlocks(listed, Chains, L2) = AllBlocks(listed, Chains, Lasts) \ {b}
    <3>1. Owned(t, Lasts, L2)
      BY <1>11, <2>1 DEF Owned
    <3>2. Lasts[t] # 0
      BY <1>9, <1>12
    <3>3. /\ Separate(listed, Chains, L2)
          /\ AllBlocks(listed, Chains, L2) = AllBlocks(listed, Chains, Lasts) \ {Lasts[t]}
      BY <1>5, <3>1, <3>2, SeparateOwn
    <3>4. QED BY <1>12, <3>3
  <2>3. BlocksNow' = AllBlocks(listed, Chains, L2)
    BY <1>4, <1>12, <2>1 DEF BlocksNow
  <2>4. b \in Way(Chains, Lasts, t)
    BY <1>9, <1>12 DEF Way
  <2>5. b \in BlocksNow
    BY <2>4 DEF BlocksNow, AllBlocks
  <2>6. QED BY <2>1, <2>2, <2>3, <2>5 DEF BlocksNow
<1>17. /\ Lengths' /\ main'[t] = body[b] /\ \A u \in Threads : u # t => main'[u] = main[u]
  BY <1>4, <1>9, <1>15, TakenLengths
<1>18. NodeInv(held, partial, main, sub, body, BlocksNow, Given)'
  <2>1. PICK m2 : m2 = main'
    OBVIOUS
  <2>2. PICK B2 : B2 = BlocksNow'
    OBVIOUS
  <2>3. NodeInv(held, partial, main, sub, body, BlocksNow, Given)
    BY DEF PoolInv
  <2>4. NodeInv(held, partial, m2, sub, body, B2, Given)
    BY <1>4, <1>9, <1>15, <2>1, <2>2, <2>3, BlockToMain
  <2>5. Given' = Given
    BY <1>4 DEF Given
  <2>6. QED BY <1>4, <2>1, <2>2, <2>4, <2>5
<1>22. ListOk(listed, Chains, Lasts, link, counter, top)'
  BY <1>4, <1>5, <1>12, <1>15 DEF ListOk
<1>23. ReadOk(Chains, listed, link, counter, Chains', listed', link', counter')
  BY <1>4, <1>12, ReadOkSame
<1>24. Chained(pc'[t], loc'[t], link')
  BY <1>10, <1>11, <1>13, NoLinks DEF Chained
<1>25. Shape(main'[t], sub'[t], pc'[t], loc'[t])
  BY <1>10, <1>11, <1>13 DEF Shape, Pushing
<1>26. Reading(pc'[t], loc'[t], Chains', listed', link', counter')
  BY <1>13 DEF Reading
<1>27. Others(t)
  BY <1>4, <1>11, <1>13, <1>17 DEF Others
<1>28. Threaded'
  BY <1>4, <1>23, <1>24, <1>25, <1>26, <1>27, ThreadedNext
<1>29. QED BY <1>14, <1>17, <1>18, <1>22, <1>28 DEF PoolInv

-----------------------------------------------------------------------------
(* The stacks of a thread.                                                  *)

SetBoth(t, m, s, x, y, m2, s2) == m2 = [m EXCEPT ![t] = x] /\ s2 = [s EXCEPT ![t] = y]

LEMMA SetBothIs ==
  ASSUME NEW t \in Threads, NEW m, NEW s, GoodStacks(m, s), NEW x, NEW y, NEW m2, NEW s2,
         SetBoth(t, m, s, x, y, m2, s2)
  PROVE  /\ m2[t] = x /\ s2[t] = y
         /\ \A u \in Threads : u # t => m2[u] = m[u] /\ s2[u] = s[u]
  BY DEF SetBoth, GoodStacks

LEMMA ListLength ==
  ASSUME NEW q \in Seq(Nodes)
  PROVE  Len(q) \in Nat /\ (q = <<>> <=> Len(q) = 0)
  OBVIOUS

(* A node is taken: what the pop of a stack does.                           *)
PopsNode(t, m, s, n, m2, s2) ==
  /\ ~ (m[t] = <<>> /\ s[t] = <<>>) /\ LengthOk(m[t], s[t])
  /\ n = FirstOf(m[t], s[t])
  /\ SetBoth(t, m, s, PopFrom(m[t], s[t])[1], PopFrom(m[t], s[t])[2], m2, s2)

NodePopped(t, h, p, m, s, d, B, A, n, m2, s2) ==
  /\ NodeInv(h \cup {n}, p, m2, s2, d, B, A)
  /\ n \in A /\ n \in Nodes /\ n \notin B /\ LengthOk(m2[t], s2[t])
  /\ \A u \in Threads : u # t => m2[u] = m[u] /\ s2[u] = s[u]

LEMMA PopFromMain ==
  ASSUME NEW h, NEW p, NEW m, NEW s, NEW d, NEW B, NEW A, NodeInv(h, p, m, s, d, B, A),
         NEW t \in Threads, m[t] # <<>>, LengthOk(m[t], s[t]),
         NEW n, n = Head(m[t]), NEW m2, m2 = [m EXCEPT ![t] = Tail(m[t])]
  PROVE  NodePopped(t, h, p, m, s, d, B, A, n, m2, s)
<1>1. PICK h2 : h2 = h \cup {n}
  OBVIOUS
<1>2. NodeInv(h2, p, m2, s, d, B, A)
  BY <1>1, PopOne
<1>3. m[t] \in Seq(Nodes) /\ s[t] \in Seq(Nodes) /\ IsInjective(m[t]) /\ m \in [Threads -> Seq(Nodes)]
  BY DEF NodeInv, GoodStacks
<1>4. n \in ToSet(m[t]) /\ Len(Tail(m[t])) = Len(m[t]) - 1
  BY <1>3, TailOfSeq
<1>5. n \notin B
  BY <1>4, NotABlock
<1>6. n \in h2 /\ h2 \subseteq A /\ A \subseteq Nodes
  BY <1>1, <1>2, BlocksInside
<1>7. m2[t] = Tail(m[t]) /\ \A u \in Threads : u # t => m2[u] = m[u]
  BY <1>3
<1>8. LengthOk(m2[t], s[t])
  <2>1. PICK a : a = Len(m[t])
    OBVIOUS
  <2>2. PICK k : k = BlockSize
    OBVIOUS
  <2>3. PICK b : b = Len(s[t])
    OBVIOUS
  <2>4. a \in Nat /\ b \in Nat /\ k \in Nat /\ a <= k /\ b \in {0, k} /\ a + b < 2 * k
    BY <1>3, <2>1, <2>2, <2>3, ListLength, SizePositive DEF LengthOk
  <2>5. a - 1 <= k /\ b \in {0, k} /\ (a - 1) + b < 2 * k
    BY <2>4
  <2>6. Len(m2[t]) = a - 1
    BY <1>4, <1>7, <2>1
  <2>7. QED BY <2>2, <2>3, <2>5, <2>6 DEF LengthOk
<1>9. QED BY <1>1, <1>2, <1>5, <1>6, <1>7, <1>8 DEF NodePopped

LEMMA PopNode ==
  ASSUME NEW h, NEW p, NEW m, NEW s, NEW d, NEW B, NEW A, NodeInv(h, p, m, s, d, B, A),
         NEW t \in Threads, NEW n, NEW m2, NEW s2, PopsNode(t, m, s, n, m2, s2)
  PROVE  NodePopped(t, h, p, m, s, d, B, A, n, m2, s2)
<1>1. /\ m \in [Threads -> Seq(Nodes)] /\ s \in [Threads -> Seq(Nodes)]
      /\ LengthOk(m[t], s[t]) /\ GoodStacks(m, s)
  BY DEF NodeInv, GoodStacks, PopsNode
<1>2. CASE m[t] # <<>>
  <2>1. n = Head(m[t]) /\ m2 = [m EXCEPT ![t] = Tail(m[t])] /\ s2 = [s EXCEPT ![t] = s[t]]
    BY <1>2 DEF PopsNode, FirstOf, PopFrom, SetBoth
  <2>2. s2 = s
    BY <1>1, <2>1
  <2>3. NodePopped(t, h, p, m, s, d, B, A, n, m2, s)
    BY <1>1, <1>2, <2>1, PopFromMain
  <2>4. QED BY <2>2, <2>3
<1>3. CASE m[t] = <<>>
  <2>1. /\ n = Head(s[t]) /\ s[t] # <<>> /\ m2 = [m EXCEPT ![t] = Tail(s[t])]
        /\ s2 = [s EXCEPT ![t] = <<>>]
    BY <1>3 DEF PopsNode, FirstOf, PopFrom, SetBoth
  <2>2. PICK m1 : m1 = [m EXCEPT ![t] = s[t]]
    OBVIOUS
  <2>3. m1[t] = s[t] /\ s2[t] = <<>> /\ m2 = [m1 EXCEPT ![t] = Tail(m1[t])]
    BY <1>1, <2>1, <2>2
  <2>4. s2 = [s EXCEPT ![t] = m[t]]
    BY <1>3, <2>1
  <2>5. NodeInv(h, p, m1, s2, d, B, A)
    BY <2>2, <2>4, SwapStacks
  <2>6. LengthOk(m1[t], s2[t])
    <3>1. PICK k : k = BlockSize
      OBVIOUS
    <3>2. Len(m1[t]) \in {0, k} /\ Len(s2[t]) = 0 /\ k \in Nat /\ k > 0
      BY <1>1, <2>3, <3>1, SizePositive, ListLength DEF LengthOk
    <3>3. QED BY <3>1, <3>2 DEF LengthOk
  <2>7. NodePopped(t, h, p, m1, s2, d, B, A, n, m2, s2)
    BY <2>1, <2>3, <2>5, <2>6, PopFromMain
  <2>8. \A u \in Threads : u # t => m1[u] = m[u] /\ s2[u] = s[u]
    BY <1>1, <2>1, <2>2
  <2>9. QED BY <2>7, <2>8 DEF NodePopped
<1>4. QED BY <1>2, <1>3

(* A node comes back: what the push of a stack does.                        *)
PushesNode(t, m, s, n, m2, s2) ==
  /\ LengthOk(m[t], s[t])
  /\ SetBoth(t, m, s, PushTo(m[t], s[t], n)[1], PushTo(m[t], s[t], n)[2], m2, s2)

NodePushed(t, h, p, m, s, d, B, A, n, m2, s2) ==
  /\ NodeInv(h \ {n}, p, m2, s2, d, B, A)
  /\ IF Len(m2[t]) + Len(s2[t]) = 2 * BlockSize
     THEN Len(m2[t]) = BlockSize /\ Len(s2[t]) = BlockSize
     ELSE LengthOk(m2[t], s2[t])
  /\ \A u \in Threads : u # t => m2[u] = m[u] /\ s2[u] = s[u]

LEMMA PushOnMain ==
  ASSUME NEW h, NEW p, NEW m, NEW s, NEW d, NEW B, NEW A, NodeInv(h, p, m, s, d, B, A),
         NEW t \in Threads, NEW n \in h, Len(m[t]) < BlockSize, Len(s[t]) \in {0, BlockSize},
         NEW m2, m2 = [m EXCEPT ![t] = <<n>> \o m[t]]
  PROVE  NodePushed(t, h, p, m, s, d, B, A, n, m2, s)
<1>1. PICK h2 : h2 = h \ {n}
  OBVIOUS
<1>2. NodeInv(h2, p, m2, s, d, B, A)
  BY <1>1, PushOne
<1>3. m[t] \in Seq(Nodes) /\ s[t] \in Seq(Nodes) /\ m \in [Threads -> Seq(Nodes)]
  BY DEF NodeInv, GoodStacks
<1>4. m2[t] = <<n>> \o m[t] /\ \A u \in Threads : u # t => m2[u] = m[u]
  BY <1>3
<1>5. Len(m2[t]) = Len(m[t]) + 1
  BY <1>3, <1>4
<1>6. IF Len(m2[t]) + Len(s[t]) = 2 * BlockSize
      THEN Len(m2[t]) = BlockSize /\ Len(s[t]) = BlockSize
      ELSE LengthOk(m2[t], s[t])
  <2>1. PICK a : a = Len(m[t])
    OBVIOUS
  <2>2. PICK k : k = BlockSize
    OBVIOUS
  <2>3. PICK b : b = Len(s[t])
    OBVIOUS
  <2>4. a \in Nat /\ b \in Nat /\ k \in Nat /\ a < k /\ b \in {0, k} /\ Len(m2[t]) = a + 1
    BY <1>3, <1>5, <2>1, <2>2, <2>3, ListLength, SizePositive
  <2>5. CASE (a + 1) + b = 2 * k
    <3>1. a + 1 = k /\ b = k
      BY <2>4, <2>5
    <3>2. QED BY <2>2, <2>3, <2>4, <2>5, <3>1
  <2>6. CASE (a + 1) + b # 2 * k
    <3>1. a + 1 <= k /\ (a + 1) + b < 2 * k
      BY <2>4, <2>6
    <3>2. LengthOk(m2[t], s[t])
      BY <2>2, <2>3, <2>4, <3>1 DEF LengthOk
    <3>3. QED BY <2>2, <2>3, <2>4, <2>6, <3>2
  <2>7. QED BY <2>5, <2>6
<1>7. QED BY <1>1, <1>2, <1>4, <1>6 DEF NodePushed

LEMMA PushNode ==
  ASSUME NEW h, NEW p, NEW m, NEW s, NEW d, NEW B, NEW A, NodeInv(h, p, m, s, d, B, A),
         NEW t \in Threads, NEW n \in h, NEW m2, NEW s2, PushesNode(t, m, s, n, m2, s2)
  PROVE  NodePushed(t, h, p, m, s, d, B, A, n, m2, s2)
<1>1. /\ m \in [Threads -> Seq(Nodes)] /\ s \in [Threads -> Seq(Nodes)]
      /\ LengthOk(m[t], s[t]) /\ m[t] \in Seq(Nodes) /\ s[t] \in Seq(Nodes)
  BY DEF NodeInv, GoodStacks, PushesNode
<1>2. CASE Len(m[t]) # BlockSize
  <2>1. m2 = [m EXCEPT ![t] = <<n>> \o m[t]] /\ s2 = [s EXCEPT ![t] = s[t]]
    BY <1>2 DEF PushesNode, PushTo, SetBoth
  <2>2. s2 = s
    BY <1>1, <2>1
  <2>3. Len(m[t]) < BlockSize /\ Len(s[t]) \in {0, BlockSize}
    BY <1>1, <1>2, ListLength, SizePositive DEF LengthOk
  <2>4. QED BY <2>1, <2>2, <2>3, PushOnMain
<1>3. CASE Len(m[t]) = BlockSize
  <2>1. m2 = [m EXCEPT ![t] = <<n>> \o s[t]] /\ s2 = [s EXCEPT ![t] = m[t]]
    BY <1>3 DEF PushesNode, PushTo, SetBoth
  <2>2. PICK m1 : m1 = [m EXCEPT ![t] = s[t]]
    OBVIOUS
  <2>3. m1[t] = s[t] /\ s2[t] = m[t] /\ m2 = [m1 EXCEPT ![t] = <<n>> \o m1[t]]
    BY <1>1, <2>1, <2>2
  <2>4. NodeInv(h, p, m1, s2, d, B, A)
    BY <2>1, <2>2, SwapStacks
  <2>5. Len(m1[t]) < BlockSize /\ Len(s2[t]) \in {0, BlockSize}
    <3>1. PICK b : b = Len(s[t])
      OBVIOUS
    <3>2. PICK k : k = BlockSize
      OBVIOUS
    <3>3. b \in {0, k} /\ k + b < 2 * k /\ k \in Nat /\ k > 0
      BY <1>1, <1>3, <3>1, <3>2, SizePositive DEF LengthOk
    <3>4. b < k
      BY <3>3
    <3>5. QED BY <1>3, <2>3, <3>1, <3>2, <3>4
  <2>6. NodePushed(t, h, p, m1, s2, d, B, A, n, m2, s2)
    BY <2>3, <2>4, <2>5, PushOnMain
  <2>7. \A u \in Threads : u # t => m1[u] = m[u] /\ s2[u] = s[u]
    BY <1>1, <2>1, <2>2
  <2>8. QED BY <2>6, <2>7 DEF NodePushed
<1>4. QED BY <1>2, <1>3

-----------------------------------------------------------------------------
(* MemoryAllocator::Alloc.                                                  *)

(* What a user writes into a node is nothing to level 2.                    *)
LEMMA JunkElsewhere ==
  ASSUME PoolInv, NEW n \in Nodes, n \notin BlocksNow, link' = [link EXCEPT ![n] = Junk]
  PROVE  /\ link' \in [Nodes -> Int \X Int]
         /\ \A b \in BlocksOf(listed) : link'[b] = link[b]
         /\ \A u \in Threads : \A b \in BlocksOf(loc[u].chain) : link'[b] = link[b]
<1>1. link \in [Nodes -> Int \X Int] /\ Junk \in Int \X Int
  BY DEF PoolInv, Types, Junk
<1>2. link' \in [Nodes -> Int \X Int] /\ \A b \in Nodes : b # n => link'[b] = link[b]
  BY <1>1
<1>3. Separate(listed, Chains, Lasts) /\ BlocksNow \subseteq Nodes
  BY DEF PoolInv, ListOk, NodeInv, GoodBlocks
<1>4. n \notin BlocksOf(listed) /\ BlocksOf(listed) \subseteq Nodes
  BY <1>3 DEF BlocksNow, AllBlocks
<1>5. ASSUME NEW u \in Threads
      PROVE  n \notin BlocksOf(loc[u].chain) /\ BlocksOf(loc[u].chain) \subseteq Nodes
  <2>1. BlocksOf(loc[u].chain) \subseteq BlocksNow
    BY ThreadNow DEF BlocksNow, AllBlocks, Way
  <2>2. QED BY <1>3, <2>1
<1>6. QED BY <1>2, <1>4, <1>5

(* The stacks of one thread change, and nothing at level 2 does.            *)
LEMMA StackStep ==
  ASSUME PoolInv, NEW t \in Threads, pc' = pc, loc' = loc, pc[t] \in {"run", "exit"},
         UNCHANGED <<top, counter, body, pages, listed>>,
         link' \in [Nodes -> Int \X Int],
         \A b \in BlocksOf(listed) : link'[b] = link[b],
         \A u \in Threads : \A b \in BlocksOf(loc[u].chain) : link'[b] = link[b],
         \A u \in Threads : u # t => main'[u] = main[u] /\ sub'[u] = sub[u],
         LengthOk(main'[t], sub'[t]), Len(partial') < BlockSize,
         NodeInv(held', partial', main', sub', body, BlocksNow, Given)
  PROVE  PoolInv'
<1>1. Types /\ Threaded /\ Lengths /\ ListOk(listed, Chains, Lasts, link, counter, top)
  BY DEF PoolInv
<1>2. Chains' = Chains /\ Lasts' = Lasts
  BY <1>1, SameLocals
<1>3. Types'
  BY <1>1 DEF Types
<1>4. Lengths'
  BY <1>1 DEF Lengths
<1>5. NodeInv(held, partial, main, sub, body, BlocksNow, Given)'
  <2>1. BlocksNow' = BlocksNow /\ Given' = Given
    BY <1>2 DEF BlocksNow, Given
  <2>2. QED BY <2>1
<1>6. ListOk(listed, Chains, Lasts, link, counter, top)'
  <2>1. LinkedList(listed, link, Null) /\ listed \in Seq(Pointers)
    BY <1>1 DEF ListOk, Separate
  <2>2. LinkedList(listed, link', Null)
    BY <2>1, LinksElsewhere
  <2>3. QED BY <1>1, <1>2, <2>2 DEF ListOk
<1>7. ReadOk(Chains, listed, link, counter, Chains', listed', link', counter')
  BY <1>1, <1>2 DEF ReadOk, Types
<1>8. Shape(main'[t], sub'[t], pc'[t], loc'[t])
  <2>1. Shape(main[t], sub[t], pc[t], loc[t])
    BY ThreadNow
  <2>2. QED BY <2>1 DEF Shape, Pushing
<1>9. Chained(pc'[t], loc'[t], link')
  BY ThreadNow, ChainedStays
<1>10. Reading(pc'[t], loc'[t], Chains', listed', link', counter')
  BY DEF Reading
<1>11. Others(t)
  BY DEF Others
<1>12. Threaded'
  BY <1>1, <1>7, <1>8, <1>9, <1>10, <1>11, ThreadedNext
<1>13. QED BY <1>3, <1>4, <1>5, <1>6, <1>12 DEF PoolInv

LEMMA AllocKeeps ==
  ASSUME PoolInv, NEW t \in Threads, Alloc(t)
  PROVE  PoolInv'
<1>1. CASE main[t] = <<>> /\ sub[t] = <<>>
  <2>1. pc[t] = "run" /\ Go(t, "pop") /\ loc' = loc
    BY <1>1 DEF Alloc
  <2>2. Quiet
    BY <1>1, ThreadNow, SameLocals DEF Quiet, Alloc, stackVars
  <2>3. Shape(main[t], sub[t], "pop", loc'[t])
    BY <1>1, <2>1, ThreadNow DEF Shape, Pushing
  <2>4. Chained("pop", loc'[t], link) /\ Reading("pop", loc'[t], Chains, listed, link, counter)
    BY <2>1, ThreadNow DEF Chained, Reading
  <2>5. QED BY <2>1, <2>2, <2>3, <2>4, ThreadNow, SameLocals, QuietStep DEF Steps
<1>2. CASE ~ (main[t] = <<>> /\ sub[t] = <<>>)
  <2>1. PICK n : n = FirstOf(main[t], sub[t])
    OBVIOUS
  <2>2. /\ pc[t] = "run" /\ pc' = pc /\ loc' = loc
        /\ SetStacks(t, PopFrom(main[t], sub[t])) /\ held' = held \cup {n}
        /\ link' = [link EXCEPT ![n] = Junk]
        /\ UNCHANGED <<top, counter, body, partial, pages, listed>>
    BY <1>2, <2>1 DEF Alloc
  <2>3. NodeInv(held, partial, main, sub, body, BlocksNow, Given) /\ Lengths
    BY DEF PoolInv
  <2>4. PopsNode(t, main, sub, n, main', sub')
    BY <1>2, <2>1, <2>2, <2>3 DEF PopsNode, SetStacks, SetBoth, Lengths
  <2>5. NodePopped(t, held, partial, main, sub, body, BlocksNow, Given, n, main', sub')
    BY <2>3, <2>4, PopNode
  <2>6. /\ NodeInv(held', partial', main', sub', body, BlocksNow, Given)
        /\ n \in Nodes /\ n \notin BlocksNow /\ LengthOk(main'[t], sub'[t])
        /\ \A u \in Threads : u # t => main'[u] = main[u] /\ sub'[u] = sub[u]
    BY <2>2, <2>5 DEF NodePopped
  <2>7. /\ link' \in [Nodes -> Int \X Int]
        /\ \A b \in BlocksOf(listed) : link'[b] = link[b]
        /\ \A u \in Threads : \A b \in BlocksOf(loc[u].chain) : link'[b] = link[b]
    BY <2>2, <2>6, JunkElsewhere
  <2>8. Len(partial') < BlockSize
    BY <2>2, <2>3 DEF Lengths
  <2>9. QED BY <2>2, <2>6, <2>7, <2>8, StackStep
<1>3. QED BY <1>1, <1>2

-----------------------------------------------------------------------------
(* A thread begins to push a block.                                         *)

LEMMA OneBlock ==
  ASSUME NEW k \in Nat, NEW b \in Nodes, NEW c, c = <<<<k, b>>>>
  PROVE  /\ c \in Seq(Pointers) /\ c # <<>> /\ BlocksOf(c) = {b} /\ OneEach(c)
         /\ (\A x \in ToSet(c) : x[1] = k) /\ \A l : \E z : LinkedList(c, l, z)
<1>1. PICK x : x = <<k, b>>
  OBVIOUS
<1>2. x[1] = k /\ c = <<x>>
  BY <1>1
<1>3. Len(c) = 1 /\ c[1] = x /\ DOMAIN c = {1} /\ c # <<>>
  BY <1>2
<1>4. \A y \in ToSet(c) : y[1] = k
  BY <1>2, <1>3 DEF ToSet
<1>5. ASSUME NEW l PROVE \E z : LinkedList(c, l, z)
  <2>1. LinkedList(c, l, l[x[2]])
    BY <1>3 DEF LinkedList
  <2>2. QED BY <2>1
<1>6. c \in Seq(Pointers) /\ BlocksOf(c) = {b} /\ OneEach(c)
  BY BlocksOfOne
<1>7. QED BY <1>3, <1>4, <1>5, <1>6

LEMMA FreshPush ==
  ASSUME NEW c \in Seq(Pointers), NEW z \in Nodes \cup {0}, NEW y \in {"run", "exit", "own"},
         NEW r, r = Fresh(c, z, y)
  PROVE  r \in Locals /\ r.chain = c /\ r.last = z /\ r.then = y
<1>1. PICK n : n = Null
  OBVIOUS
<1>2. n \in Int \X Int
  BY <1>1 DEF Null
<1>3. r = [top |-> n, next |-> n, chain |-> c, last |-> z, then |-> y]
  BY <1>1 DEF Fresh
<1>4. c \in Seq(Pointers) /\ z \in Nodes \cup {0} /\ y \in {"run", "exit", "own"}
  OBVIOUS
<1>5. r \in Locals
  BY ONLY <1>2, <1>3, <1>4 DEF Locals
<1>6. QED BY <1>3, <1>5

LEMMA BeginKeeps ==
  ASSUME PoolInv, NEW t \in Threads, pc[t] \in {"run", "exit"}, NEW b \in Nodes,
         b \notin BlocksNow, NEW then \in {"run", "exit"}, BeginPush(t, b, then),
         UNCHANGED <<top, link, pages, listed>>,
         \A u \in Threads : u # t => main'[u] = main[u] /\ sub'[u] = sub[u],
         LengthOk(main'[t], sub'[t]), Len(partial') < BlockSize,
         NodeInv(held', partial', main', sub', body', BlocksNow \cup {b}, Given)
  PROVE  PoolInv'
<1>1. /\ Types /\ Threaded /\ Lengths /\ ListOk(listed, Chains, Lasts, link, counter, top)
      /\ Separate(listed, Chains, Lasts)
  BY DEF PoolInv, ListOk
<1>2. PICK n : n = counter'
  OBVIOUS
<1>3. PICK c : c = <<<<n, b>>>>
  OBVIOUS
<1>4. PICK r : r = Fresh(c, 0, then)
  OBVIOUS
<1>5. /\ n = counter + 1 /\ n \in Nat /\ counter \in Nat /\ Go(t, "push")
      /\ loc' = [loc EXCEPT ![t] = r]
  BY <1>1, <1>2, <1>3, <1>4 DEF BeginPush, Types
<1>6. /\ c \in Seq(Pointers) /\ c # <<>> /\ BlocksOf(c) = {b} /\ OneEach(c)
      /\ (\A x \in ToSet(c) : x[1] = n) /\ \A l : \E z : LinkedList(c, l, z)
  BY <1>3, <1>5, OneBlock
<1>7. r \in Locals /\ r.chain = c /\ r.last = 0 /\ r.then = then
  <2>1. then \in {"run", "exit", "own"} /\ 0 \in Nodes \cup {0}
    OBVIOUS
  <2>2. QED BY <1>4, <1>6, <2>1, FreshPush
<1>8. /\ loc' \in [Threads -> Locals] /\ loc'[t] = r
      /\ (\A u \in Threads : u # t => loc'[u] = loc[u])
      /\ Chains' = [Chains EXCEPT ![t] = c] /\ Lasts' = [Lasts EXCEPT ![t] = 0]
  BY <1>1, <1>5, <1>7, SetLocal
<1>9. pc' \in [Threads -> Steps] /\ pc'[t] = "push" /\ \A u \in Threads : u # t => pc'[u] = pc[u]
  BY <1>1, <1>5, SetStep DEF Steps
<1>10. Types'
  BY <1>1, <1>2, <1>5, <1>8, <1>9 DEF Types
<1>11. Lengths'
  BY <1>1 DEF Lengths
<1>12. loc[t].chain = <<>> /\ loc[t].last = 0 /\ Chains[t] = <<>> /\ Lasts[t] = 0
  <2>1. Shape(main[t], sub[t], pc[t], loc[t])
    BY ThreadNow
  <2>2. QED BY <2>1, ThreadNow DEF Shape, Pushing
<1>13. Separate(listed, Chains', Lasts') /\ BlocksNow' = BlocksNow \cup {b}
  <2>1. PICK C2 : C2 = Chains'
    OBVIOUS
  <2>2. PICK L2 : L2 = Lasts'
    OBVIOUS
  <2>3. PICK z : z = 0
    OBVIOUS
  <2>4. z \in Nodes \cup {0} /\ z \notin BlocksOf(c)
    BY <1>6, <2>3, NodesAre
  <2>5. PICK new : new = {b}
    OBVIOUS
  <2>6. new = BlocksOf(c) \cup ({z} \ {0})
    BY <1>6, <2>3, <2>5
  <2>7. new \cap AllBlocks(listed, Chains, Lasts) = {}
    BY <2>5 DEF BlocksNow
  <2>8. Adds(t, c, z, new, listed, Chains, Lasts, C2, L2)
    BY <1>6, <1>8, <1>12, <2>1, <2>2, <2>3, <2>4, <2>6, <2>7 DEF Adds
  <2>9. /\ Separate(listed, C2, L2)
        /\ AllBlocks(listed, C2, L2) = AllBlocks(listed, Chains, Lasts) \cup new
    BY <1>1, <2>8, SeparateAdd
  <2>10. BlocksNow' = AllBlocks(listed, C2, L2)
    BY <2>1, <2>2 DEF BlocksNow
  <2>11. QED BY <2>1, <2>2, <2>5, <2>9, <2>10 DEF BlocksNow
<1>14. NodeInv(held, partial, main, sub, body, BlocksNow, Given)'
  <2>1. Given' = Given
    BY DEF Given
  <2>2. QED BY <1>13, <2>1
<1>15. Chains'[t] = c /\ \A u \in Threads : u # t => Chains'[u] = Chains[u]
  BY <1>1, <1>8 DEF Separate
<1>16. Tagged(listed, n) /\ \A u \in Threads : Tagged(Chains'[u], n)
  <2>1. counter <= n
    BY <1>5
  <2>2. /\ Tagged(listed, counter) /\ listed \in Seq(Pointers)
        /\ \A u \in Threads : Tagged(Chains[u], counter) /\ Chains[u] \in Seq(Pointers)
    BY <1>1 DEF ListOk, Separate
  <2>3. Tagged(listed, n)
    BY <1>5, <2>1, <2>2, TaggedMore
  <2>4. Tagged(c, n)
    BY <1>5, <1>6 DEF Tagged
  <2>5. ASSUME NEW u \in Threads, u # t PROVE Tagged(Chains'[u], n)
    BY <1>5, <1>15, <2>1, <2>2, <2>5, TaggedMore
  <2>6. QED BY <1>15, <2>3, <2>4, <2>5
<1>17. ListOk(listed, Chains, Lasts, link, counter, top)'
  BY <1>1, <1>2, <1>13, <1>16 DEF ListOk
<1>18. ReadOk(Chains, listed, link, counter, Chains', listed', link', counter')
  <2>1. ASSUME NEW u \in Threads, NEW x \in ToSet(Chains'[u])
        PROVE  x \in ToSet(Chains[u]) \/ x[1] > counter
    <3>1. CASE u = t
      BY <1>5, <1>6, <1>15, <2>1, <3>1
    <3>2. CASE u # t
      BY <1>15, <2>1, <3>2
    <3>3. QED BY <3>1, <3>2
  <2>2. counter' = n /\ counter <= n
    BY <1>2, <1>5
  <2>3. QED BY <1>5, <2>1, <2>2 DEF ReadOk
<1>19. Chained(pc'[t], loc'[t], link')
  BY <1>6, <1>7, <1>8, <1>9 DEF Chained
<1>20. Shape(main'[t], sub'[t], pc'[t], loc'[t])
  BY <1>6, <1>7, <1>8, <1>9 DEF Shape, Pushing
<1>21. Reading(pc'[t], loc'[t], Chains', listed', link', counter')
  BY <1>9 DEF Reading
<1>22. Others(t)
  BY <1>8, <1>9 DEF Others
<1>23. \A u \in Threads : u # t => \A x \in BlocksOf(loc[u].chain) : link'[x] = link[x]
  OBVIOUS
<1>24. Threaded'
  BY <1>1, <1>18, <1>19, <1>20, <1>21, <1>22, <1>23, ThreadedNext
<1>25. QED BY <1>10, <1>11, <1>14, <1>17, <1>24 DEF PoolInv

LEMMA DeallocKeeps ==
  ASSUME PoolInv, NEW t \in Threads, NEW n \in held, Dealloc(t, n)
  PROVE  PoolInv'
<1>1. PICK ms : ms = PushTo(main[t], sub[t], n)
  OBVIOUS
<1>2. PICK m2 : m2 = [main EXCEPT ![t] = ms[1]]
  OBVIOUS
<1>3. PICK s2 : s2 = [sub EXCEPT ![t] = ms[2]]
  OBVIOUS
<1>4. PICK h2 : h2 = held \ {n}
  OBVIOUS
<1>5. /\ NodeInv(held, partial, main, sub, body, BlocksNow, Given) /\ Lengths
      /\ GoodStacks(main, sub)
  BY DEF PoolInv, NodeInv
<1>6. pc[t] = "run" /\ held' = h2 /\ UNCHANGED <<top, link, partial, pages, listed>>
  BY <1>4 DEF Dealloc
<1>7. PushesNode(t, main, sub, n, m2, s2)
  BY <1>1, <1>2, <1>3, <1>5 DEF PushesNode, SetBoth, Lengths
<1>8. NodePushed(t, held, partial, main, sub, body, BlocksNow, Given, n, m2, s2)
  BY <1>5, <1>7, PushNode
<1>9. /\ NodeInv(h2, partial, m2, s2, body, BlocksNow, Given)
      /\ Len(m2[t]) + Len(s2[t]) = 2 * BlockSize
           => Len(m2[t]) = BlockSize /\ Len(s2[t]) = BlockSize
      /\ Len(m2[t]) + Len(s2[t]) # 2 * BlockSize => LengthOk(m2[t], s2[t])
      /\ \A u \in Threads : u # t => m2[u] = main[u] /\ s2[u] = sub[u]
  BY <1>4, <1>8 DEF NodePushed
<1>10. /\ m2[t] = ms[1] /\ s2[t] = ms[2] /\ Len(partial) < BlockSize
       /\ m2 \in [Threads -> Seq(Nodes)] /\ s2 \in [Threads -> Seq(Nodes)]
  BY <1>2, <1>3, <1>5, <1>9 DEF GoodStacks, Lengths, NodeInv
<1>11. CASE Len(ms[1]) + Len(ms[2]) # 2 * BlockSize
  <2>1. main' = m2 /\ sub' = s2 /\ UNCHANGED <<counter, loc, pc, body>>
    BY <1>1, <1>2, <1>3, <1>11 DEF Dealloc, SetStacks
  <2>2. LengthOk(main'[t], sub'[t])
    BY <1>9, <1>10, <1>11, <2>1
  <2>3. link' \in [Nodes -> Int \X Int] /\ Len(partial') < BlockSize
    BY <1>6, <1>10 DEF PoolInv, Types
  <2>4. NodeInv(held', partial', main', sub', body, BlocksNow, Given)
    BY <1>6, <1>9, <2>1
  <2>5. \A u \in Threads : u # t => main'[u] = main[u] /\ sub'[u] = sub[u]
    BY <1>9, <2>1
  <2>6. /\ \A b \in BlocksOf(listed) : link'[b] = link[b]
        /\ \A u \in Threads : \A b \in BlocksOf(loc[u].chain) : link'[b] = link[b]
    BY <1>6
  <2>7. QED BY <1>6, <2>1, <2>2, <2>3, <2>4, <2>5, <2>6, StackStep
<1>12. CASE Len(ms[1]) + Len(ms[2]) = 2 * BlockSize
  <2>1. PICK b : b = s2[t][1]
    OBVIOUS
  <2>2. PICK d2 : d2 = [body EXCEPT ![b] = s2[t]]
    OBVIOUS
  <2>3. PICK s3 : s3 = [s2 EXCEPT ![t] = <<>>]
    OBVIOUS
  <2>4. BeginPush(t, b, "run") /\ body' = d2 /\ main' = m2 /\ sub' = [sub EXCEPT ![t] = <<>>]
    BY <1>1, <1>2, <1>10, <1>12, <2>1, <2>2 DEF Dealloc, SetStacks
  <2>5. s3 = [sub EXCEPT ![t] = <<>>]
    BY <1>3, <1>5, <2>3 DEF GoodStacks
  <2>6. Len(m2[t]) = BlockSize /\ Len(s2[t]) = BlockSize
    BY <1>9, <1>10, <1>12
  <2>7. Becomes(s2[t], b, body, d2)
    BY <2>1, <2>2 DEF Becomes
  <2>8. /\ NodeInv(h2, partial, m2, s3, d2, BlocksNow \cup {b}, Given)
        /\ b \notin BlocksNow /\ b \in Nodes
    <3>1. NodeInv(h2, partial, m2, s2, body, BlocksNow, Given)
      BY <1>9
    <3>2. Len(s2[t]) = BlockSize
      BY <2>6
    <3>3. Emptied(t, s2, s3)
      BY <2>3 DEF Emptied
    <3>4. QED BY ONLY t \in Threads, <2>7, <3>1, <3>2, <3>3, SubToBlock
  <2>9. s3[t] = <<>> /\ \A u \in Threads : u # t => s3[u] = s2[u]
    BY <1>10, <2>3
  <2>10. sub' = s3
    BY <2>4, <2>5
  <2>11. \A u \in Threads : u # t => main'[u] = main[u] /\ sub'[u] = sub[u]
    BY <1>9, <2>4, <2>9, <2>10
  <2>12. LengthOk(main'[t], sub'[t])
    <3>1. main'[t] = m2[t] /\ sub'[t] = <<>>
      BY <2>4, <2>9, <2>10
    <3>2. Len(main'[t]) = BlockSize /\ Len(sub'[t]) = 0
      BY <2>6, <3>1
    <3>3. QED BY <3>2, FullLength
  <2>13. Len(partial') < BlockSize
    BY <1>6, <1>10
  <2>14. NodeInv(held', partial', main', sub', body', BlocksNow \cup {b}, Given)
    BY <1>6, <2>4, <2>8, <2>10
  <2>15. "run" \in {"run", "exit"}
    OBVIOUS
  <2>16. QED BY <1>6, <2>4, <2>8, <2>11, <2>12, <2>13, <2>14, <2>15, BeginKeeps
<1>13. QED BY <1>11, <1>12


(* What a pop takes was not with a user.                                    *)
LEMMA FirstNotHeld ==
  ASSUME NEW h, NEW p, NEW m, NEW s, NEW d, NEW B, NEW A, NodeInv(h, p, m, s, d, B, A),
         NEW t \in Threads, ~ (m[t] = <<>> /\ s[t] = <<>>), NEW n, n = FirstOf(m[t], s[t])
  PROVE  n \notin h
<1>1. PICK I : IsContent(I, h, p, m, s, d, B) /\ Apart(I, A)
  BY NodeInvNow
<1>2. /\ m[t] \in Seq(Nodes) /\ s[t] \in Seq(Nodes) /\ IsInjective(m[t]) /\ IsInjective(s[t])
  BY DEF NodeInv, GoodStacks
<1>3. n \in ToSet(m[t]) \/ n \in ToSet(s[t])
  BY <1>2, TailOfSeq DEF FirstOf
<1>4. /\ {Main(t), Sub(t), Users} \subseteq DOMAIN I /\ Main(t) # Users /\ Sub(t) # Users
      /\ I[Main(t)] = ToSet(m[t]) /\ I[Sub(t)] = ToSet(s[t]) /\ I[Users] = h
  BY <1>1, PlacesThere, PlacesDiffer DEF IsContent
<1>5. I[Main(t)] \cap I[Users] = {} /\ I[Sub(t)] \cap I[Users] = {}
  BY <1>1, <1>4, ApartUnique
<1>6. QED BY <1>3, <1>4, <1>5

(* All that makes a list a block long is taken.                             *)
LEMMA WholeList ==
  ASSUME NEW q \in Seq(Nodes), NEW k, k = Len(q)
  PROVE  SubSeq(q, 1, k) = q /\ SubSeq(q, k + 1, k) = <<>>
  OBVIOUS

LEMMA TryPushNodeKeeps ==
  ASSUME PoolInv, NEW t \in Threads, TryPushNode(t)
  PROVE  PoolInv'
<1>1. CASE main[t] = <<>> /\ sub[t] = <<>>
  <2>1. pc[t] = "exit" /\ Go(t, "gone") /\ loc' = loc
    BY <1>1 DEF TryPushNode
  <2>2. Quiet
    BY <1>1, ThreadNow, SameLocals DEF Quiet, TryPushNode, stackVars
  <2>3. Shape(main[t], sub[t], "gone", loc'[t])
    BY <1>1, <2>1, ThreadNow DEF Shape, Pushing
  <2>4. Chained("gone", loc'[t], link) /\ Reading("gone", loc'[t], Chains, listed, link, counter)
    BY <2>1, ThreadNow DEF Chained, Reading
  <2>5. QED BY <2>1, <2>2, <2>3, <2>4, ThreadNow, SameLocals, QuietStep DEF Steps
<1>2. CASE ~ (main[t] = <<>> /\ sub[t] = <<>>)
  <2>1. PICK n : n = FirstOf(main[t], sub[t])
    OBVIOUS
  <2>2. PICK list : list = <<n>> \o partial
    OBVIOUS
  <2>3. PICK h2 : h2 = held \cup {n}
    OBVIOUS
  <2>4. /\ pc[t] = "exit" /\ SetStacks(t, PopFrom(main[t], sub[t]))
        /\ UNCHANGED <<held, top, link, pages, listed>>
    BY <1>2 DEF TryPushNode
  <2>5. NodeInv(held, partial, main, sub, body, BlocksNow, Given) /\ Lengths /\ Types
    BY DEF PoolInv
  <2>6. PopsNode(t, main, sub, n, main', sub')
    BY <1>2, <2>1, <2>4, <2>5 DEF PopsNode, SetStacks, SetBoth, Lengths
  <2>7. NodePopped(t, held, partial, main, sub, body, BlocksNow, Given, n, main', sub')
    BY <2>5, <2>6, PopNode
  <2>8. /\ NodeInv(h2, partial, main', sub', body, BlocksNow, Given)
        /\ n \in Nodes /\ n \notin BlocksNow /\ LengthOk(main'[t], sub'[t])
        /\ \A u \in Threads : u # t => main'[u] = main[u] /\ sub'[u] = sub[u]
    BY <2>3, <2>7 DEF NodePopped
  <2>9. n \notin held
    BY <2>1, <2>5, <1>2, FirstNotHeld
  <2>10. held = h2 \ {n} /\ n \in h2
    BY <2>3, <2>9
  <2>11. /\ NodeInv(held, list, main', sub', body, BlocksNow, Given)
         /\ Len(list) = Len(partial) + 1 /\ list[1] = n
    <3>1. Joins(n, h2, partial, held, list)
      BY <2>2, <2>10 DEF Joins
    <3>2. QED BY <2>8, <3>1, ToPartial
  <2>12. list \in Seq(Nodes) /\ partial \in Seq(Nodes) /\ Len(partial) < BlockSize
    BY <2>5, <2>11 DEF NodeInv, Lengths
  <2>13. Len(list) <= BlockSize /\ Len(list) \in Nat
    BY <2>11, <2>12, SizePositive
  <2>14. CASE Len(list) < BlockSize
    <3>1. partial' = list /\ UNCHANGED <<counter, body, loc, pc>>
      BY <1>2, <2>1, <2>2, <2>14 DEF TryPushNode
    <3>2. link' \in [Nodes -> Int \X Int] /\ pc[t] \in {"run", "exit"}
      BY <2>4, <2>5 DEF Types
    <3>3. /\ \A b \in BlocksOf(listed) : link'[b] = link[b]
          /\ \A u \in Threads : \A b \in BlocksOf(loc[u].chain) : link'[b] = link[b]
      BY <2>4
    <3>4. NodeInv(held', partial', main', sub', body, BlocksNow, Given)
      BY <2>4, <2>11, <3>1
    <3>5. QED BY <2>4, <2>8, <2>14, <3>1, <3>2, <3>3, <3>4, StackStep
  <2>15. CASE Len(list) = BlockSize
    <3>1. PICK k : k = BlockSize
      OBVIOUS
    <3>2. PICK d2 : d2 = [body EXCEPT ![n] = list]
      OBVIOUS
    <3>3. SubSeq(list, 1, k) = list /\ SubSeq(list, k + 1, k) = <<>>
      BY <2>12, <2>15, <3>1, WholeList
    <3>4. /\ BeginPush(t, list[1], "exit") /\ partial' = SubSeq(list, k + 1, Len(list))
          /\ body' = [body EXCEPT ![list[1]] = SubSeq(list, 1, k)]
      BY <1>2, <2>1, <2>2, <2>15, <3>1 DEF TryPushNode
    <3>5. BeginPush(t, n, "exit") /\ partial' = <<>> /\ body' = d2
      BY <2>11, <2>15, <3>1, <3>2, <3>3, <3>4
    <3>6. Becomes(list, n, body, d2)
      BY <2>11, <3>2 DEF Becomes
    <3>7. NodeInv(held, <<>>, main', sub', d2, BlocksNow \cup {n}, Given)
      BY <2>11, <2>15, <3>6, PartialToBlock
    <3>8. NodeInv(held', partial', main', sub', body', BlocksNow \cup {n}, Given)
      BY <2>4, <3>5, <3>7
    <3>9. Len(partial') < BlockSize
      <4>1. Len(partial') = 0
        BY <3>5
      <4>2. QED BY <4>1, SizePositive
    <3>10. "exit" \in {"run", "exit"} /\ pc[t] \in {"run", "exit"}
      BY <2>4
    <3>11. QED BY <2>4, <2>8, <3>5, <3>8, <3>9, <3>10, BeginKeeps
  <2>16. QED BY <2>13, <2>14, <2>15, SizePositive
<1>3. QED BY <1>1, <1>2

-----------------------------------------------------------------------------
(* A page of k blocks of s nodes behind the first N nodes.                  *)

LEMMA Division ==
  ASSUME NEW m \in Nat, NEW s \in Nat \ {0}
  PROVE  \E q \in Nat : \E r \in 0 .. s - 1 : m = q * s + r
<1>1. m = s * (m \div s) + (m % s) /\ m % s \in 0 .. s - 1 /\ m \div s \in Int
  OBVIOUS
<1>2. m \div s >= 0
  OBVIOUS
<1>3. PICK q : q = m \div s
  OBVIOUS
<1>4. PICK r : r = m % s
  OBVIOUS
<1>5. q \in Nat /\ r \in 0 .. s - 1 /\ m = s * q + r
  BY <1>1, <1>2, <1>3, <1>4
<1>6. s * q = q * s
  BY <1>5
<1>7. m = q * s + r
  BY <1>5, <1>6
<1>8. QED BY <1>5, <1>7

LEMMA Multiples ==
  ASSUME NEW a \in Nat, NEW b \in Nat, NEW s \in Nat, a < b
  PROVE  a * s \in Nat /\ b * s \in Nat /\ a * s + s <= b * s
  OBVIOUS

LEMMA PageFits ==
  ASSUME NEW p \in Nat, NEW m \in Nat, p < m, NEW k \in Nat, NEW s \in Nat
  PROVE  /\ p * k * s \in Nat /\ k * s \in Nat
         /\ (p + 1) * k * s = p * k * s + k * s /\ p * k * s + k * s <= m * k * s
<1>1. p * k \in Nat /\ m * k \in Nat /\ p * k + k <= m * k
  BY Multiples
<1>2. PICK x : x = p * k
  OBVIOUS
<1>3. PICK y : y = m * k
  OBVIOUS
<1>4. x \in Nat /\ y \in Nat /\ x + k <= y
  BY <1>1, <1>2, <1>3
<1>5. x * s + k * s <= y * s /\ x * s \in Nat /\ k * s \in Nat
  BY <1>4
<1>6. (p + 1) * k = x + k
  BY <1>2
<1>7. (x + k) * s = x * s + k * s
  BY <1>4
<1>8. QED BY <1>2, <1>3, <1>5, <1>6, <1>7

Cut(N, k, s, f) ==
  /\ DOMAIN f = 1 .. k
  /\ \A i \in 1 .. k : f[i] \in Nat /\ N + 1 <= f[i] /\ f[i] + s - 1 <= N + k * s
  /\ \A i, j \in 1 .. k : f[i] = f[j] => i = j
  /\ \A n \in N + 1 .. N + k * s :
       \E i \in 1 .. k : \A j \in 1 .. k : (f[j] <= n /\ n <= f[j] + s - 1) <=> j = i

LEMMA PageCut ==
  ASSUME NEW N \in Nat, NEW k \in Nat, NEW s \in Nat \ {0},
         NEW f, f = [i \in 1 .. k |-> N + (i - 1) * s + 1]
  PROVE  Cut(N, k, s, f)
<1>1. DOMAIN f = 1 .. k /\ \A i \in 1 .. k : f[i] = N + (i - 1) * s + 1
  OBVIOUS
<1>2. ASSUME NEW i \in 1 .. k
      PROVE  f[i] \in Nat /\ N + 1 <= f[i] /\ f[i] + s - 1 <= N + k * s
  <2>1. i - 1 \in Nat /\ i - 1 < k
    OBVIOUS
  <2>2. (i - 1) * s \in Nat /\ k * s \in Nat /\ (i - 1) * s + s <= k * s
    BY <2>1, Multiples
  <2>3. PICK x : x = (i - 1) * s
    OBVIOUS
  <2>4. PICK y : y = k * s
    OBVIOUS
  <2>5. f[i] = N + x + 1 /\ x \in Nat /\ y \in Nat /\ x + s <= y
    BY <1>1, <2>2, <2>3, <2>4
  <2>6. f[i] \in Nat /\ N + 1 <= f[i] /\ f[i] + s - 1 <= N + y
    BY <2>5
  <2>7. QED BY <2>4, <2>6
<1>3. ASSUME NEW i \in 1 .. k, NEW j \in 1 .. k, i < j PROVE f[i] + s <= f[j]
  <2>1. i - 1 \in Nat /\ j - 1 \in Nat /\ i - 1 < j - 1
    BY <1>3
  <2>2. (i - 1) * s \in Nat /\ (j - 1) * s \in Nat /\ (i - 1) * s + s <= (j - 1) * s
    BY <2>1, Multiples
  <2>3. PICK x : x = (i - 1) * s
    OBVIOUS
  <2>4. PICK y : y = (j - 1) * s
    OBVIOUS
  <2>5. f[i] = N + x + 1 /\ f[j] = N + y + 1 /\ x \in Nat /\ y \in Nat /\ x + s <= y
    BY <1>1, <2>2, <2>3, <2>4
  <2>6. QED BY <2>5
<1>4. \A i, j \in 1 .. k : i < j \/ i = j \/ j < i
  OBVIOUS
<1>5. \A i, j \in 1 .. k : f[i] = f[j] => i = j
  BY <1>2, <1>3, <1>4
<1>6. ASSUME NEW n \in N + 1 .. N + k * s
      PROVE  \E i \in 1 .. k : \A j \in 1 .. k : (f[j] <= n /\ n <= f[j] + s - 1) <=> j = i
  <2>1. PICK m : m = n - N - 1
    OBVIOUS
  <2>2. k * s \in Nat
    OBVIOUS
  <2>3. m \in Nat /\ m < k * s /\ n = N + m + 1 /\ n \in Nat
    BY <2>1, <2>2
  <2>4. PICK q \in Nat, r \in 0 .. s - 1 : m = q * s + r
    BY <2>3, Division
  <2>5. q < k
    <3>1. SUFFICES ASSUME k <= q PROVE FALSE
      BY <2>4
    <3>2. k * s <= q * s
      BY <2>4, <3>1
    <3>3. QED BY <2>2, <2>3, <2>4, <3>2
  <2>6. PICK i : i = q + 1
    OBVIOUS
  <2>7. i \in 1 .. k /\ f[i] = N + q * s + 1
    BY <1>1, <2>4, <2>5, <2>6
  <2>8. PICK x : x = q * s
    OBVIOUS
  <2>9. x \in Nat /\ f[i] = N + x + 1 /\ n = N + x + r + 1
    BY <2>3, <2>4, <2>7, <2>8
  <2>10. f[i] <= n /\ n <= f[i] + s - 1
    BY <2>4, <2>9
  <2>11. ASSUME NEW j \in 1 .. k, f[j] <= n, n <= f[j] + s - 1 PROVE j = i
    <3>1. CASE i < j
      <4>1. f[i] + s <= f[j] /\ f[i] \in Nat /\ f[j] \in Nat
        BY <1>2, <1>3, <2>7, <3>1
      <4>2. QED BY <2>3, <2>10, <2>11, <4>1
    <3>2. CASE j < i
      <4>1. f[j] + s <= f[i] /\ f[i] \in Nat /\ f[j] \in Nat
        BY <1>2, <1>3, <2>7, <3>2
      <4>2. QED BY <2>3, <2>10, <2>11, <4>1
    <3>3. QED BY <1>4, <2>7, <3>1, <3>2
  <2>12. QED BY <2>7, <2>10, <2>11
<1>7. QED BY <1>1, <1>2, <1>5, <1>6 DEF Cut

LEMMA FunctionSeq ==
  ASSUME NEW S, NEW n \in Nat, NEW q, q \in [1 .. n -> S]
  PROVE  q \in Seq(S) /\ Len(q) = n
  OBVIOUS

(* The nodes of a new block, one after the other.                           *)
LEMMA BlockRun ==
  ASSUME NEW n \in Nat \ {0}, NEW m \in Nat, n + BlockSize - 1 <= m, 1 .. m \subseteq Nodes,
         NEW q, q = [k \in 1 .. BlockSize |-> n + k - 1]
  PROVE  /\ q \in Seq(Nodes) /\ IsInjective(q) /\ Len(q) = BlockSize /\ q[1] = n
         /\ \A x : x \in ToSet(q) <=> x \in Nat /\ n <= x /\ x <= n + BlockSize - 1
<1>1. PICK s : s = BlockSize
  OBVIOUS
<1>2. s \in Nat /\ s > 0 /\ n + s - 1 <= m /\ q = [k \in 1 .. s |-> n + k - 1]
  BY <1>1, SizePositive
<1>3. \A k \in 1 .. s : q[k] = n + k - 1
  BY <1>2
<1>4. \A k \in 1 .. s : q[k] \in Nodes
  <2>1. ASSUME NEW k \in 1 .. s PROVE q[k] \in Nodes
    <3>1. n + k - 1 \in 1 .. m
      BY <1>2
    <3>2. QED BY <1>3, <3>1
  <2>2. QED BY <2>1
<1>5. q \in [1 .. s -> Nodes]
  BY <1>2, <1>4
<1>6. q \in Seq(Nodes) /\ Len(q) = s
  BY ONLY <1>2, <1>5, FunctionSeq
<1>7. IsInjective(q)
  <2>1. DOMAIN q = 1 .. s
    BY <1>2
  <2>2. QED BY <1>2, <1>3, <2>1 DEF IsInjective
<1>8. q[1] = n
  BY <1>2, <1>3
<1>9. ASSUME NEW x PROVE x \in ToSet(q) <=> x \in Nat /\ n <= x /\ x <= n + s - 1
  <2>1. x \in ToSet(q) <=> \E k \in 1 .. s : q[k] = x
    BY ONLY <1>6, MemberOfSeq
  <2>2. ASSUME NEW k \in 1 .. s, q[k] = x PROVE x \in Nat /\ n <= x /\ x <= n + s - 1
    BY <1>2, <1>3, <2>2
  <2>3. ASSUME x \in Nat, n <= x, x <= n + s - 1 PROVE \E k \in 1 .. s : q[k] = x
    <3>1. x - n + 1 \in 1 .. s /\ q[x - n + 1] = x
      BY <1>2, <1>3, <2>3
    <3>2. QED BY <3>1
  <2>4. QED BY <2>1, <2>2, <2>3
<1>10. QED BY <1>1, <1>6, <1>7, <1>8, <1>9

(* The blocks of a page but the last, from the back, with new tags.         *)
ChainOf(k, f, n, c) == c = [j \in 1 .. k - 1 |-> <<n + k - j, f[k - j]>>]

LEMMA PointerIs ==
  ASSUME NEW a, NEW b, a \in Nat, b \in Nodes, NEW x, x = <<a, b>>
  PROVE  x \in Pointers /\ x[1] = a /\ x[2] = b
  BY DEF Pointers

LEMMA PageChain ==
  ASSUME NEW k \in Nat, k >= 3, NEW f, \A i \in 1 .. k : f[i] \in Nodes,
         \A i, j \in 1 .. k : f[i] = f[j] => i = j, NEW n \in Nat,
         NEW c, ChainOf(k, f, n, c)
  PROVE  /\ c \in Seq(Pointers) /\ Len(c) = k - 1 /\ c # <<>> /\ OneEach(c)
         /\ f[k] \notin BlocksOf(c)
         /\ BlocksOf(c) \cup {f[k]} = {f[i] : i \in 1 .. k}
         /\ \A x \in ToSet(c) : n < x[1] /\ x[1] <= n + k - 1
<1>1. PICK m : m = k - 1
  OBVIOUS
<1>2. m \in Nat /\ m >= 2 /\ k = m + 1
  BY <1>1
<1>13. DOMAIN c = 1 .. m /\ c = [j \in 1 .. m |-> c[j]]
  BY <1>1 DEF ChainOf
<1>14. ASSUME NEW j \in 1 .. m PROVE c[j] = <<n + k - j, f[k - j]>>
  BY <1>1, <1>14 DEF ChainOf
<1>3. ASSUME NEW j \in 1 .. m
      PROVE  /\ k - j \in 1 .. k /\ n + k - j \in Nat /\ n < n + k - j /\ n + k - j <= n + k - 1
             /\ c[j][1] = n + k - j /\ c[j][2] = f[k - j] /\ c[j] \in Pointers
  <2>1. k - j \in 1 .. k /\ n + k - j \in Nat /\ n < n + k - j /\ n + k - j <= n + k - 1
    BY <1>2
  <2>2. c[j] = <<n + k - j, f[k - j]>>
    BY <1>14
  <2>3. PICK a : a = n + k - j
    OBVIOUS
  <2>4. PICK b : b = f[k - j]
    OBVIOUS
  <2>5. c[j] = <<a, b>> /\ a \in Nat /\ b \in Nodes
    BY <2>1, <2>2, <2>3, <2>4
  <2>6. c[j] \in Pointers /\ c[j][1] = a /\ c[j][2] = b
    BY ONLY <2>5, PointerIs
  <2>7. QED BY <2>1, <2>3, <2>4, <2>6
<1>4. c \in [1 .. m -> Pointers]
  BY <1>3, <1>13
<1>5. c \in Seq(Pointers) /\ Len(c) = m
  BY ONLY <1>2, <1>4, FunctionSeq
<1>6. DOMAIN c = 1 .. m /\ c # <<>>
  BY <1>2, <1>5, <1>13
<1>7. OneEach(c)
  <2>1. ASSUME NEW i \in 1 .. m, NEW j \in 1 .. m, c[i][2] = c[j][2] PROVE i = j
    <3>1. k - i = k - j
      BY <1>3, <2>1
    <3>2. QED BY <1>2, <3>1
  <2>2. QED BY <1>6, <2>1 DEF OneEach
<1>8. f[k] \notin BlocksOf(c)
  <2>1. SUFFICES ASSUME f[k] \in BlocksOf(c) PROVE FALSE
    OBVIOUS
  <2>2. PICK j \in 1 .. m : c[j][2] = f[k]
    BY <1>5, <2>1, BlocksOfSeq
  <2>3. k - j = k
    BY <1>2, <1>3, <2>2
  <2>4. QED BY <1>2, <2>3
<1>9. ASSUME NEW x PROVE x \in BlocksOf(c) \cup {f[k]} <=> x \in {f[i] : i \in 1 .. k}
  <2>1. ASSUME x \in BlocksOf(c) PROVE x \in {f[i] : i \in 1 .. k}
    <3>1. PICK j \in 1 .. m : c[j][2] = x
      BY <1>5, <2>1, BlocksOfSeq
    <3>2. QED BY <1>3, <3>1
  <2>2. f[k] \in {f[i] : i \in 1 .. k}
    BY <1>2
  <2>3. ASSUME NEW i \in 1 .. k, x = f[i] PROVE x \in BlocksOf(c) \cup {f[k]}
    <3>1. CASE i = k
      BY <2>3, <3>1
    <3>2. CASE i # k
      <4>1. PICK j : j = k - i
        OBVIOUS
      <4>2. j \in 1 .. m /\ k - j = i
        BY <1>2, <3>2, <4>1
      <4>3. c[j][2] = x
        BY <1>3, <2>3, <4>2
      <4>4. QED BY <1>5, <4>2, <4>3, BlocksOfSeq
    <3>3. QED BY <3>1, <3>2
  <2>4. QED BY <2>1, <2>2, <2>3
<1>10. ASSUME NEW x \in ToSet(c) PROVE n < x[1] /\ x[1] <= n + k - 1
  <2>1. PICK j \in 1 .. m : c[j] = x
    BY <1>5, MemberOfSeq
  <2>2. QED BY <1>3, <2>1
<1>11. BlocksOf(c) \cup {f[k]} = {f[i] : i \in 1 .. k}
  BY <1>9
<1>12. QED BY <1>1, <1>5, <1>6, <1>7, <1>8, <1>10, <1>11

(* The links of a new page: along the chain c, and of no other block.       *)
LinksOf(c, C, k, k2) ==
  k2 = [n \in Nodes |->
          IF \E j \in 1 .. Len(c) - 1 : n = c[j][2]
          THEN c[1 + CHOOSE j \in 1 .. Len(c) - 1 : n = c[j][2]]
          ELSE IF n \in C THEN Null ELSE k[n]]

LEMMA PageLinks ==
  ASSUME NEW c, c \in Seq(Pointers), OneEach(c), NEW C, BlocksOf(c) \subseteq C, NEW k,
         k \in [Nodes -> Int \X Int], NEW k2, LinksOf(c, C, k, k2)
  PROVE  /\ k2 \in [Nodes -> Int \X Int] /\ \A n \in Nodes : n \notin C => k2[n] = k[n]
         /\ \E z : LinkedList(c, k2, z)
<1>1. PICK m : m = Len(c)
  OBVIOUS
<1>2. m \in Nat /\ DOMAIN c = 1 .. m
  BY <1>1
<1>3. ASSUME NEW i \in 1 .. m PROVE c[i] \in Int \X Int /\ c[i][2] \in Nodes /\ c[i][2] \in C
  <2>1. c[i] \in Pointers /\ c[i][2] \in BlocksOf(c)
    BY <1>1, BlocksOfSeq
  <2>2. QED BY <2>1, PointersAre
<1>4. PICK next : next = [n \in Nodes |-> CHOOSE j \in 1 .. m - 1 : n = c[j][2]]
  OBVIOUS
<1>5. k2 = [n \in Nodes |->
              IF \E j \in 1 .. m - 1 : n = c[j][2] THEN c[1 + next[n]]
              ELSE IF n \in C THEN Null ELSE k[n]]
  BY <1>1, <1>4 DEF LinksOf
<1>6. ASSUME NEW n \in Nodes, NEW j \in 1 .. m - 1, n = c[j][2] PROVE next[n] = j
  <2>1. next[n] \in 1 .. m - 1 /\ n = c[next[n]][2]
    BY <1>4, <1>6
  <2>2. QED BY <1>2, <1>6, <2>1 DEF OneEach
<1>7. ASSUME NEW i \in 1 .. m - 1 PROVE k2[c[i][2]] = c[i + 1]
  <2>1. i \in 1 .. m /\ c[i][2] \in Nodes /\ next[c[i][2]] = i
    BY <1>2, <1>3, <1>6
  <2>2. k2[c[i][2]] = c[1 + next[c[i][2]]]
    BY <1>5, <2>1
  <2>3. QED BY <1>2, <2>1, <2>2
<1>8. Null \in Int \X Int
  BY DEF Null
<1>9. ASSUME NEW n \in Nodes PROVE k2[n] \in Int \X Int /\ (n \notin C => k2[n] = k[n])
  <2>1. CASE \E j \in 1 .. m - 1 : n = c[j][2]
    <3>1. PICK j \in 1 .. m - 1 : n = c[j][2]
      BY <2>1
    <3>2. j \in 1 .. m /\ j + 1 \in 1 .. m
      BY <1>2
    <3>3. n \in C /\ k2[n] = c[j + 1]
      BY <1>3, <1>7, <3>1, <3>2
    <3>4. QED BY <1>3, <3>2, <3>3
  <2>2. CASE ~ \E j \in 1 .. m - 1 : n = c[j][2]
    <3>1. k2[n] = IF n \in C THEN Null ELSE k[n]
      BY <1>5, <2>2
    <3>2. QED BY <1>8, <3>1
  <2>3. QED BY <2>1, <2>2
<1>10. k2 \in [Nodes -> Int \X Int]
  BY <1>5, <1>9
<1>11. LinkedList(c, k2, k2[c[m][2]])
  <2>1. ASSUME NEW i \in 1 .. m
        PROVE  k2[c[i][2]] = IF i = m THEN k2[c[m][2]] ELSE c[i + 1]
    <3>1. CASE i = m
      BY <3>1
    <3>2. CASE i # m
      <4>1. i \in 1 .. m - 1
        BY <1>2, <3>2
      <4>2. QED BY <1>7, <3>2, <4>1
    <3>3. QED BY <3>1, <3>2
  <2>2. QED BY <1>1, <2>1 DEF LinkedList
<1>12. QED BY <1>9, <1>10, <1>11

PageBodies(C, d, d2) ==
  d2 = [n \in Nodes |-> IF n \in C THEN [k \in 1 .. BlockSize |-> n + k - 1] ELSE d[n]]

(* The nodes A there are, those of the page E, and its blocks C.            *)
PageArea(N, k, f, C, A, E) ==
  /\ N \in Nat /\ k \in Nat /\ k * BlockSize \in Nat /\ Cut(N, k, BlockSize, f)
  /\ 1 .. N + k * BlockSize \subseteq Nodes
  /\ C = {f[i] : i \in 1 .. k} /\ A = 1 .. N /\ E = N + 1 .. N + k * BlockSize

LEMMA PageIsNew ==
  ASSUME NEW N, NEW k, NEW f, NEW C, NEW A, NEW E, PageArea(N, k, f, C, A, E),
         NEW d, d \in [Nodes -> Seq(Nodes)], NEW d2, PageBodies(C, d, d2)
  PROVE  /\ NewBlocks(A, C, E, d, d2) /\ A \cup E = 1 .. N + k * BlockSize
         /\ \A i \in 1 .. k : f[i] \in Nodes
<1>15. /\ N \in Nat /\ k \in Nat /\ k * BlockSize \in Nat /\ Cut(N, k, BlockSize, f)
       /\ 1 .. N + k * BlockSize \subseteq Nodes
       /\ C = {f[i] : i \in 1 .. k} /\ A = 1 .. N /\ E = N + 1 .. N + k * BlockSize
  BY DEF PageArea
<1>1. PICK m : m = N + k * BlockSize
  OBVIOUS
<1>2. PICK s : s = BlockSize
  OBVIOUS
<1>3. m \in Nat /\ N <= m /\ s \in Nat /\ s > 0 /\ 1 .. m \subseteq Nodes /\ E = N + 1 .. m
  BY <1>1, <1>2, <1>15, SizePositive
<1>4. /\ \A i \in 1 .. k : f[i] \in Nat /\ N + 1 <= f[i] /\ f[i] + s - 1 <= m
      /\ \A i, j \in 1 .. k : f[i] = f[j] => i = j
      /\ \A n \in N + 1 .. m :
           \E i \in 1 .. k : \A j \in 1 .. k : (f[j] <= n /\ n <= f[j] + s - 1) <=> j = i
  BY <1>1, <1>2, <1>15 DEF Cut
<1>5. \A i \in 1 .. k : f[i] \in N + 1 .. m /\ f[i] \in 1 .. m /\ f[i] \in Nodes
  <2>1. ASSUME NEW i \in 1 .. k PROVE f[i] \in N + 1 .. m /\ f[i] \in 1 .. m
    BY <1>3, <1>4, <1>15
  <2>2. QED BY <1>3, <2>1
<1>6. C \subseteq Nodes /\ C \cap A = {} /\ C \subseteq E
  <2>1. \A i \in 1 .. k : f[i] \in Nodes /\ f[i] \in E /\ f[i] \notin A
    BY <1>3, <1>4, <1>5, <1>15
  <2>2. QED BY <1>15, <2>1
<1>7. E \subseteq Nodes /\ A \cap E = {} /\ A \cup E = 1 .. m
  <2>1. E \subseteq 1 .. m
    BY <1>3, <1>15
  <2>2. QED BY <1>3, <1>15, <2>1
<1>8. ASSUME NEW b \in C
      PROVE  /\ d2[b] \in Seq(Nodes) /\ IsInjective(d2[b]) /\ Len(d2[b]) = BlockSize /\ d2[b][1] = b
             /\ \A x : x \in ToSet(d2[b]) <=> x \in Nat /\ b <= x /\ x <= b + s - 1
             /\ b \in Nat /\ N + 1 <= b /\ b + s - 1 <= m
  <2>1. b \in Nat \ {0} /\ b + s - 1 <= m /\ b \in Nodes /\ N + 1 <= b
    BY <1>4, <1>6, <1>15
  <2>2. PICK q : q = [j \in 1 .. BlockSize |-> b + j - 1]
    OBVIOUS
  <2>3. d2[b] = q
    BY <2>1, <2>2 DEF PageBodies
  <2>4. /\ q \in Seq(Nodes) /\ IsInjective(q) /\ Len(q) = BlockSize /\ q[1] = b
        /\ \A x : x \in ToSet(q) <=> x \in Nat /\ b <= x /\ x <= b + BlockSize - 1
    BY <1>2, <1>3, <2>1, <2>2, BlockRun
  <2>5. QED BY <1>2, <2>1, <2>3, <2>4
<1>9. ASSUME NEW n \in Nodes PROVE d2[n] \in Seq(Nodes) /\ (n \notin C => d2[n] = d[n])
  BY <1>8 DEF PageBodies
<1>10. d2 \in [Nodes -> Seq(Nodes)]
  BY <1>9 DEF PageBodies
<1>11. \A b \in C : ToSet(d2[b]) \subseteq E
  <2>1. ASSUME NEW b \in C, NEW x \in ToSet(d2[b]) PROVE x \in E
    <3>1. x \in Nat /\ b <= x /\ x <= b + s - 1 /\ b \in Nat /\ N + 1 <= b /\ b + s - 1 <= m
      BY <1>8
    <3>2. x \in N + 1 .. m
      BY ONLY <1>3, <1>15, <3>1
    <3>3. QED BY <1>3, <3>2
  <2>2. QED BY <2>1
<1>12. ASSUME NEW n \in E PROVE \E b \in C : \A c \in C : n \in ToSet(d2[c]) <=> c = b
  <2>1. n \in N + 1 .. m /\ n \in Nat
    BY <1>3, <1>15
  <2>2. PICK i \in 1 .. k : \A j \in 1 .. k : (f[j] <= n /\ n <= f[j] + s - 1) <=> j = i
    BY <1>4, <2>1
  <2>3. ASSUME NEW c \in C PROVE n \in ToSet(d2[c]) <=> c = f[i]
    <3>1. PICK j \in 1 .. k : c = f[j]
      BY <1>15
    <3>2. n \in ToSet(d2[c]) <=> f[j] <= n /\ n <= f[j] + s - 1
      BY <1>8, <2>1, <3>1
    <3>3. c = f[i] <=> j = i
      BY <1>4, <3>1
    <3>4. QED BY <2>2, <3>2, <3>3
  <2>4. f[i] \in C
    BY <1>15
  <2>5. QED BY <2>3, <2>4
<1>13. NewBlocks(A, C, E, d, d2)
  BY <1>6, <1>7, <1>8, <1>9, <1>10, <1>11, <1>12 DEF NewBlocks
<1>14. QED BY <1>1, <1>5, <1>7, <1>13

(* No page is left: the program ends.                                       *)
LEMMA EndKeeps ==
  ASSUME PoolInv, pc' = [u \in Threads |-> "ended"], loc' = loc,
         UNCHANGED <<main, sub, held, top, counter, link, body, partial, pages, listed>>
  PROVE  PoolInv'
<1>1. Quiet /\ Types /\ Threaded
  BY SameLocals DEF Quiet, PoolInv
<1>2. pc' \in [Threads -> Steps] /\ \A u \in Threads : pc'[u] = "ended"
  BY DEF Steps
<1>3. Types'
  BY <1>1, <1>2 DEF Types
<1>4. ASSUME NEW u \in Threads
      PROVE  /\ Shape(main'[u], sub'[u], pc'[u], loc'[u])
             /\ Chained(pc'[u], loc'[u], link')
             /\ Reading(pc'[u], loc'[u], Chains', listed', link', counter')
  <2>1. Shape(main[u], sub[u], pc[u], loc[u]) /\ Chained(pc[u], loc[u], link)
    BY ThreadNow
  <2>2. Shape(main[u], sub[u], "ended", loc[u])
    BY <2>1 DEF Shape, Pushing
  <2>3. Chained("ended", loc[u], link)
    BY <2>1 DEF Chained
  <2>4. Reading(pc'[u], loc'[u], Chains', listed', link', counter')
    BY <1>2 DEF Reading
  <2>5. QED BY <1>2, <2>2, <2>3, <2>4
<1>5. Threaded'
  BY <1>4 DEF Threaded
<1>6. QED BY <1>1, <1>3, <1>5, QuietKeeps

(* A page is taken: its k blocks C begin at the nodes f, behind the first N *)
(* nodes, and all but the last are the chain c, with tags above n.          *)
PageTaken(t, n, k, N, f, c, C) ==
  /\ n = counter /\ k = PageBlocks /\ N = pages * PageBlocks * BlockSize
  /\ f = [i \in 1 .. k |-> N + (i - 1) * BlockSize + 1]
  /\ ChainOf(k, f, n, c) /\ C = {f[i] : i \in 1 .. k}
  /\ pages # MaxPages /\ pages' = pages + 1 /\ counter' = n + k - 1
  /\ PageBodies(C, body, body') /\ LinksOf(c, C, link, link')
  /\ loc' = [loc EXCEPT ![t] = Fresh(c, f[k], "own")] /\ pc[t] = "page" /\ Go(t, "push")
  /\ UNCHANGED <<main, sub, held, top, partial, listed>>

LEMMA PageKeeps ==
  ASSUME PoolInv, NEW t \in Threads, NEW n, NEW k, NEW N, NEW f, NEW c, NEW C,
         PageTaken(t, n, k, N, f, c, C)
  PROVE  PoolInv'
<1>40. /\ n = counter /\ k = PageBlocks /\ N = pages * PageBlocks * BlockSize
       /\ f = [i \in 1 .. k |-> N + (i - 1) * BlockSize + 1]
       /\ ChainOf(k, f, n, c) /\ C = {f[i] : i \in 1 .. k}
       /\ pages # MaxPages /\ pages' = pages + 1 /\ counter' = n + k - 1
       /\ PageBodies(C, body, body') /\ LinksOf(c, C, link, link')
       /\ loc' = [loc EXCEPT ![t] = Fresh(c, f[k], "own")] /\ pc[t] = "page" /\ Go(t, "push")
       /\ UNCHANGED <<main, sub, held, top, partial, listed>>
  BY DEF PageTaken
<1> USE <1>40
<1>1. /\ Types /\ Threaded /\ Lengths /\ ListOk(listed, Chains, Lasts, link, counter, top)
      /\ Separate(listed, Chains, Lasts) /\ listed \in Seq(Pointers)
      /\ NodeInv(held, partial, main, sub, body, BlocksNow, Given)
  BY DEF PoolInv, ListOk, Separate
<1>2. k \in Nat /\ k >= 3 /\ n \in Nat /\ BlockSize \in Nat \ {0} /\ MaxPages \in Nat
  BY <1>1, MemoryAssumption DEF Types
<1>3. /\ N \in Nat /\ k * BlockSize \in Nat
      /\ Given = 1 .. N /\ Given' = 1 .. N + k * BlockSize
      /\ N + k * BlockSize <= MaxPages * PageBlocks * BlockSize
  <2>1. pages \in Nat /\ pages < MaxPages
    BY <1>1, <1>2 DEF Types
  <2>2. /\ N \in Nat /\ k * BlockSize \in Nat
        /\ (pages + 1) * k * BlockSize = N + k * BlockSize
        /\ N + k * BlockSize <= MaxPages * k * BlockSize
    BY <1>2, <2>1, PageFits
  <2>3. QED BY <2>2 DEF Given
<1>4. 1 .. N + k * BlockSize \subseteq Nodes
  <2>1. PICK a : a = N + k * BlockSize
    OBVIOUS
  <2>2. PICK b : b = MaxPages * PageBlocks * BlockSize
    OBVIOUS
  <2>3. a \in Nat /\ a <= b /\ b \in Int
    BY <1>2, <1>3, <2>1, <2>2, MemoryAssumption
  <2>4. 1 .. a \subseteq 1 .. b
    BY ONLY <2>3
  <2>5. QED BY <2>1, <2>2, <2>4 DEF Nodes
<1>5. Cut(N, k, BlockSize, f)
  BY <1>2, <1>3, PageCut
<1>6. PICK E : E = N + 1 .. N + k * BlockSize
  OBVIOUS
<1>7. body \in [Nodes -> Seq(Nodes)] /\ BlocksNow \subseteq Given
  <2>1. BlocksNow \subseteq Given
    BY <1>1, BlocksInside
  <2>2. QED BY <1>1, <2>1 DEF NodeInv, GoodBlocks
<1>8. /\ NewBlocks(Given, C, E, body, body') /\ Given' = Given \cup E
      /\ \A i \in 1 .. k : f[i] \in Nodes
  <2>1. PageArea(N, k, f, C, Given, E)
    BY <1>2, <1>3, <1>4, <1>5, <1>6 DEF PageArea
  <2>2. PICK d2 : d2 = body'
    OBVIOUS
  <2>3. body \in [Nodes -> Seq(Nodes)] /\ PageBodies(C, body, d2)
    BY <1>7, <2>2
  <2>4. /\ NewBlocks(Given, C, E, body, d2) /\ Given \cup E = 1 .. N + k * BlockSize
        /\ \A i \in 1 .. k : f[i] \in Nodes
    BY ONLY <2>1, <2>3, PageIsNew
  <2>5. QED BY <1>3, <2>2, <2>4
<1>9. NodeInv(held, partial, main, sub, body', BlocksNow \cup C, Given \cup E)
  BY <1>1, <1>8, AddBlocks
<1>10. C \cap BlocksNow = {} /\ C \subseteq Nodes
  BY <1>7, <1>8 DEF NewBlocks
<1>11. PICK z : z = f[k]
  OBVIOUS
<1>12. /\ c \in Seq(Pointers) /\ c # <<>> /\ OneEach(c)
       /\ z \notin BlocksOf(c) /\ BlocksOf(c) \cup {z} = C
       /\ \A x \in ToSet(c) : n < x[1] /\ x[1] <= n + k - 1
  <2>1. \A i, j \in 1 .. k : f[i] = f[j] => i = j
    BY <1>5 DEF Cut
  <2>2. \A i \in 1 .. k : f[i] \in Nodes
    BY <1>8
  <2>3. ChainOf(k, f, n, c) /\ k \in Nat /\ k >= 3 /\ n \in Nat
    BY <1>2
  <2>4. /\ c \in Seq(Pointers) /\ c # <<>> /\ OneEach(c) /\ f[k] \notin BlocksOf(c)
        /\ BlocksOf(c) \cup {f[k]} = {f[i] : i \in 1 .. k}
        /\ \A x \in ToSet(c) : n < x[1] /\ x[1] <= n + k - 1
    BY ONLY <2>1, <2>2, <2>3, PageChain
  <2>5. QED BY <1>11, <2>4
<1>13. z \in Nodes /\ z # 0 /\ z \in Nodes \cup {0}
  <2>1. k \in 1 .. k
    BY <1>2
  <2>2. QED BY <1>8, <1>11, <2>1, NodesAre
<1>14. /\ link' \in [Nodes -> Int \X Int] /\ (\A b \in Nodes : b \notin C => link'[b] = link[b])
       /\ \E y : LinkedList(c, link', y)
  <2>1. link \in [Nodes -> Int \X Int] /\ BlocksOf(c) \subseteq C
    BY <1>1, <1>12 DEF Types
  <2>2. PICK k2 : k2 = link'
    OBVIOUS
  <2>3. LinksOf(c, C, link, k2)
    BY <2>2
  <2>4. /\ k2 \in [Nodes -> Int \X Int] /\ (\A b \in Nodes : b \notin C => k2[b] = link[b])
        /\ \E y : LinkedList(c, k2, y)
    BY <1>12, <2>1, <2>3, PageLinks
  <2>5. QED BY <2>2, <2>4
<1>15. PICK r : r = Fresh(c, z, "own")
  OBVIOUS
<1>16. r \in Locals /\ r.chain = c /\ r.last = z /\ r.then = "own"
  BY <1>12, <1>13, <1>15, FreshPush
<1>17. /\ loc' \in [Threads -> Locals] /\ loc'[t] = r
       /\ (\A u \in Threads : u # t => loc'[u] = loc[u])
       /\ Chains' = [Chains EXCEPT ![t] = c] /\ Lasts' = [Lasts EXCEPT ![t] = z]
  BY <1>1, <1>11, <1>15, <1>16, SetLocal
<1>18. pc' \in [Threads -> Steps] /\ pc'[t] = "push" /\ \A u \in Threads : u # t => pc'[u] = pc[u]
  BY <1>1, SetStep DEF Steps
<1>19. counter' \in Nat /\ counter' = n + k - 1 /\ n <= counter' /\ counter = n
  BY <1>2
<1>20. Types'
  <2>1. pages' \in 0 .. MaxPages
    <3>1. pages \in 0 .. MaxPages /\ pages # MaxPages /\ pages' = pages + 1
      BY <1>1 DEF Types
    <3>2. QED BY ONLY <1>2, <3>1
  <2>2. QED BY <1>14, <1>17, <1>18, <1>19, <2>1 DEF Types
<1>21. Lengths'
  BY <1>1 DEF Lengths
<1>22. /\ loc[t].chain = <<>> /\ loc[t].last = 0 /\ Chains[t] = <<>> /\ Lasts[t] = 0
       /\ main[t] = <<>> /\ sub[t] = <<>>
  <2>1. Shape(main[t], sub[t], pc[t], loc[t])
    BY ThreadNow
  <2>2. QED BY <2>1, ThreadNow DEF Shape, Pushing
<1>23. Separate(listed, Chains', Lasts') /\ BlocksNow' = BlocksNow \cup C
  <2>1. PICK C2 : C2 = Chains'
    OBVIOUS
  <2>2. PICK L2 : L2 = Lasts'
    OBVIOUS
  <2>3. C = BlocksOf(c) \cup ({z} \ {0})
    BY <1>12, <1>13
  <2>4. C \cap AllBlocks(listed, Chains, Lasts) = {}
    BY <1>10 DEF BlocksNow
  <2>5. Adds(t, c, z, C, listed, Chains, Lasts, C2, L2)
    BY <1>12, <1>13, <1>17, <1>22, <2>1, <2>2, <2>3, <2>4 DEF Adds
  <2>6. /\ Separate(listed, C2, L2)
        /\ AllBlocks(listed, C2, L2) = AllBlocks(listed, Chains, Lasts) \cup C
    BY <1>1, <2>5, SeparateAdd
  <2>7. BlocksNow' = AllBlocks(listed, C2, L2)
    BY <2>1, <2>2 DEF BlocksNow
  <2>8. QED BY <2>1, <2>2, <2>6, <2>7 DEF BlocksNow
<1>24. NodeInv(held, partial, main, sub, body, BlocksNow, Given)'
  BY <1>8, <1>9, <1>23
<1>25. Chains'[t] = c /\ \A u \in Threads : u # t => Chains'[u] = Chains[u]
  BY <1>1, <1>17 DEF Separate
<1>26. Tagged(listed, counter') /\ \A u \in Threads : Tagged(Chains'[u], counter')
  <2>1. /\ Tagged(listed, counter) /\ \A u \in Threads : Tagged(Chains[u], counter)
        /\ \A u \in Threads : Chains[u] \in Seq(Pointers)
    BY <1>1 DEF ListOk, Separate
  <2>2. PICK m : m = counter'
    OBVIOUS
  <2>3. m \in Nat /\ n <= m /\ m = n + k - 1
    BY <1>19, <2>2
  <2>4. Tagged(listed, m)
    BY <1>1, <1>2, <2>1, <2>3, TaggedMore
  <2>5. Tagged(c, m)
    BY <1>12, <2>3 DEF Tagged
  <2>6. ASSUME NEW u \in Threads, u # t PROVE Tagged(Chains'[u], m)
    BY <1>2, <1>25, <2>1, <2>3, <2>6, TaggedMore
  <2>7. QED BY <1>25, <2>2, <2>4, <2>5, <2>6
<1>27. BlocksOf(listed) \subseteq BlocksNow /\ BlocksOf(listed) \subseteq Nodes
  <2>1. BlocksOf(listed) \subseteq BlocksNow
    BY DEF BlocksNow, AllBlocks
  <2>2. QED BY <1>1, <2>1, BlocksOfSeq
<1>28. \A b \in BlocksOf(listed) : link'[b] = link[b]
  BY <1>10, <1>14, <1>27
<1>29. ListOk(listed, Chains, Lasts, link, counter, top)'
  <2>1. LinkedList(listed, link, Null) /\ top = TopOf(listed)
    BY <1>1 DEF ListOk
  <2>2. LinkedList(listed, link', Null)
    BY <1>1, <1>28, <2>1, LinksElsewhere
  <2>3. QED BY <1>23, <1>26, <2>1, <2>2 DEF ListOk
<1>30. ReadOk(Chains, listed, link, counter, Chains', listed', link', counter')
  <2>1. ASSUME NEW u \in Threads, NEW x \in ToSet(Chains'[u])
        PROVE  x \in ToSet(Chains[u]) \/ x[1] > counter
    <3>1. CASE u = t
      <4>1. n < x[1]
        BY <1>12, <1>25, <2>1, <3>1
      <4>2. x[1] \in Nat
        BY <1>12, <1>25, <2>1, <3>1, MemberOfSeq, PointersAre
      <4>3. QED BY <1>2, <4>1, <4>2
    <3>2. CASE u # t
      BY <1>25, <2>1, <3>2
    <3>3. QED BY <3>1, <3>2
  <2>2. QED BY <1>2, <1>19, <1>28, <2>1 DEF ReadOk
<1>31. Chained(pc'[t], loc'[t], link')
  BY <1>14, <1>16, <1>17, <1>18 DEF Chained
<1>32. Shape(main'[t], sub'[t], pc'[t], loc'[t])
  BY <1>12, <1>13, <1>16, <1>17, <1>18, <1>22 DEF Shape, Pushing
<1>33. Reading(pc'[t], loc'[t], Chains', listed', link', counter')
  BY <1>18 DEF Reading
<1>34. Others(t)
  BY <1>17, <1>18 DEF Others
<1>35. ASSUME NEW u \in Threads, u # t, NEW b \in BlocksOf(loc[u].chain) PROVE link'[b] = link[b]
  <2>1. b \in BlocksNow
    BY ThreadNow DEF BlocksNow, AllBlocks, Way
  <2>2. b \in Nodes
    BY <1>1, <2>1, BlocksInside
  <2>3. QED BY <1>10, <1>14, <2>1, <2>2
<1>36. Threaded'
  BY <1>1, <1>30, <1>31, <1>32, <1>33, <1>34, <1>35, ThreadedNext
<1>37. QED BY <1>20, <1>21, <1>24, <1>29, <1>36 DEF PoolInv

LEMMA NewPageKeeps ==
  ASSUME PoolInv, NEW t \in Threads, NewPage(t)
  PROVE  PoolInv'
<1>1. pc[t] = "page" /\ UNCHANGED <<main, sub, held, top, partial, listed>>
  BY DEF NewPage, stackVars
<1>2. CASE pages = MaxPages
  <2>1. /\ pc' = [u \in Threads |-> "ended"]
        /\ UNCHANGED <<counter, link, body, pages, loc>>
    BY <1>2 DEF NewPage
  <2>2. QED BY <1>1, <2>1, EndKeeps
<1>3. CASE pages # MaxPages
  <2>1. PICK n : n = counter
    OBVIOUS
  <2>2. PICK k : k = PageBlocks
    OBVIOUS
  <2>3. PICK N : N = pages * PageBlocks * BlockSize
    OBVIOUS
  <2>4. PICK f : f = [i \in 1 .. k |-> N + (i - 1) * BlockSize + 1]
    OBVIOUS
  <2>5. PICK c : c = NewChain
    OBVIOUS
  <2>6. PICK C : C = Firsts
    OBVIOUS
  <2>7. k \in Nat /\ k >= 3
    BY <2>2, MemoryAssumption
  <2>8. ChainOf(k, f, n, c)
    <3>1. ASSUME NEW j \in 1 .. k - 1 PROVE f[k - j] = N + (k - j - 1) * BlockSize + 1
      <4>1. k - j \in 1 .. k
        BY <2>7
      <4>2. QED BY <2>4, <4>1
    <3>2. c = [j \in 1 .. k - 1 |-> <<n + k - j, N + (k - j - 1) * BlockSize + 1>>]
      BY <2>1, <2>2, <2>3, <2>5 DEF NewChain, First
    <3>3. [j \in 1 .. k - 1 |-> <<n + k - j, N + (k - j - 1) * BlockSize + 1>>]
            = [j \in 1 .. k - 1 |-> <<n + k - j, f[k - j]>>]
      BY <3>1
    <3>4. QED BY <3>2, <3>3 DEF ChainOf
  <2>9. C = {f[i] : i \in 1 .. k}
    <3>1. C = {N + (i - 1) * BlockSize + 1 : i \in 1 .. k}
      BY <2>2, <2>3, <2>6 DEF Firsts, First
    <3>2. \A i \in 1 .. k : f[i] = N + (i - 1) * BlockSize + 1
      BY <2>4
    <3>3. QED BY <3>1, <3>2
  <2>10. Len(c) = k - 1
    <3>1. k - 1 \in Nat
      BY <2>7
    <3>2. QED BY <2>2, <2>5, <3>1 DEF NewChain
  <2>11. /\ pages' = pages + 1 /\ counter' = counter + PageBlocks - 1
         /\ body' = [m \in Nodes |->
                       IF m \in C THEN [i \in 1 .. BlockSize |-> m + i - 1] ELSE body[m]]
         /\ link' = [m \in Nodes |->
                       IF \E j \in 1 .. PageBlocks - 2 : m = c[j][2]
                       THEN c[1 + CHOOSE j \in 1 .. PageBlocks - 2 : m = c[j][2]]
                       ELSE IF m \in C THEN Null ELSE link[m]]
         /\ loc' = [loc EXCEPT ![t] = Fresh(c, First(PageBlocks), "own")]
         /\ Go(t, "push")
    BY <1>3, <2>5, <2>6 DEF NewPage
  <2>12. PageBodies(C, body, body') /\ counter' = n + k - 1
    BY <2>1, <2>2, <2>11 DEF PageBodies
  <2>13. LinksOf(c, C, link, link')
    <3>1. PageBlocks - 2 = Len(c) - 1
      BY <2>2, <2>7, <2>10
    <3>2. QED BY <2>11, <3>1 DEF LinksOf
  <2>14. loc' = [loc EXCEPT ![t] = Fresh(c, f[k], "own")]
    <3>1. f[k] = N + (k - 1) * BlockSize + 1
      BY <2>4, <2>7
    <3>2. First(PageBlocks) = f[k]
      BY <2>2, <2>3, <3>1 DEF First
    <3>3. QED BY <2>11, <3>2
  <2>15. PageTaken(t, n, k, N, f, c, C)
    BY <1>1, <1>3, <2>1, <2>2, <2>3, <2>4, <2>8, <2>9, <2>11, <2>12, <2>13, <2>14 DEF PageTaken
  <2>16. QED BY <2>15, PageKeeps
<1>4. QED BY <1>2, <1>3

-----------------------------------------------------------------------------
(* Every state.                                                             *)

LEMMA NoNodes ==
  ASSUME NEW h, h = {}, NEW p, p = <<>>, NEW m, m = [t \in Threads |-> <<>>],
         NEW s, s = [t \in Threads |-> <<>>], NEW d, d = [n \in Nodes |-> <<>>],
         NEW B, B = {}, NEW A, A = {}
  PROVE  NodeInv(h, p, m, s, d, B, A)
<1>1. \A J : IsContent(J, h, p, m, s, d, B) => \A x \in DOMAIN J : J[x] = {}
  <2>1. ASSUME NEW J, IsContent(J, h, p, m, s, d, B), NEW x \in DOMAIN J PROVE J[x] = {}
    <3>1. x \in AllPlaces
      BY <2>1 DEF IsContent
    <3>2. ToSet(p) = {} /\ \A t \in Threads : ToSet(m[t]) = {} /\ ToSet(s[t]) = {}
      BY EmptyList
    <3>3. QED BY <2>1, <3>1, <3>2, PlacesThere DEF IsContent
  <2>2. QED BY <2>1
<1>2. \A J : IsContent(J, h, p, m, s, d, B) => Apart(J, A)
  BY <1>1 DEF Apart
<1>3. GoodStacks(m, s) /\ p \in Seq(Nodes) /\ IsInjective(p) /\ A \subseteq Nodes
  BY EmptyList DEF GoodStacks
<1>4. GoodBlocks(d, B)
  BY EmptyList DEF GoodBlocks
<1>5. QED BY <1>2, <1>3, <1>4, NodeInvNext

LEMMA InitPoolInv == Init => PoolInv
<1>1. SUFFICES ASSUME Init PROVE PoolInv
  OBVIOUS
<1>2. PICK r : r = Fresh(<<>>, 0, "run")
  OBVIOUS
<1>3. r \in Locals /\ r.chain = <<>> /\ r.last = 0 /\ r.then = "run"
  BY <1>2, FreshNone
<1>4. loc = [t \in Threads |-> r] /\ pc = [t \in Threads |-> "run"]
  BY <1>1, <1>2 DEF Init, Free0
<1>5. /\ \A t \in Threads : loc[t] = r /\ pc[t] = "run" /\ main[t] = <<>> /\ sub[t] = <<>>
      /\ loc \in [Threads -> Locals] /\ pc \in [Threads -> Steps]
  BY <1>1, <1>3, <1>4 DEF Init, Steps
<1>6. Types
  <2>1. link \in [Nodes -> Int \X Int]
    BY <1>1 DEF Init, Junk
  <2>2. pages \in 0 .. MaxPages /\ counter \in Nat
    BY <1>1, MemoryAssumption DEF Init
  <2>3. QED BY <1>5, <2>1, <2>2 DEF Types
<1>7. Lengths
  <2>1. Len(<<>>) = 0
    OBVIOUS
  <2>2. LengthOk(<<>>, <<>>)
    BY <2>1, SizePositive DEF LengthOk
  <2>3. Len(partial) < BlockSize
    BY <1>1, <2>1, SizePositive DEF Init
  <2>4. QED BY <1>5, <2>2, <2>3 DEF Lengths
<1>8. Threaded
  <2>1. ASSUME NEW t \in Threads
        PROVE  /\ Shape(main[t], sub[t], pc[t], loc[t])
               /\ Chained(pc[t], loc[t], link)
               /\ Reading(pc[t], loc[t], Chains, listed, link, counter)
    <3>1. Shape(main[t], sub[t], pc[t], loc[t])
      BY <1>3, <1>5 DEF Shape, Pushing
    <3>2. Chained(pc[t], loc[t], link)
      BY <1>3, <1>5, NoLinks DEF Chained
    <3>3. Reading(pc[t], loc[t], Chains, listed, link, counter)
      BY <1>5 DEF Reading
    <3>4. QED BY <3>1, <3>2, <3>3
  <2>2. QED BY <2>1 DEF Threaded
<1>9. /\ listed = <<>> /\ \A t \in Threads : Chains[t] = <<>> /\ Lasts[t] = 0
      /\ Chains \in [Threads -> Seq(Pointers)] /\ Lasts \in [Threads -> Nodes \cup {0}]
  BY <1>1, <1>3, <1>5, EmptyList DEF Init, Chains, Lasts
<1>10. \A t \in Threads : Way(Chains, Lasts, t) = {}
  BY <1>9, BlocksOfNone DEF Way
<1>11. Separate(listed, Chains, Lasts)
  BY <1>9, <1>10, BlocksOfNone, OneEachNone, EmptyList DEF Separate
<1>12. ListOk(listed, Chains, Lasts, link, counter, top)
  <2>1. Tagged(<<>>, counter)
    BY EmptyList DEF Tagged
  <2>2. top = TopOf(listed)
    BY <1>1, <1>9 DEF Init, TopOf
  <2>3. QED BY <1>9, <1>11, <2>1, <2>2, NoLinks DEF ListOk
<1>13. BlocksNow = {}
  BY <1>9, <1>10, BlocksOfNone DEF BlocksNow, AllBlocks
<1>14. Given = {}
  <2>1. pages * PageBlocks * BlockSize = 0
    BY <1>1, MemoryAssumption DEF Init
  <2>2. QED BY <2>1 DEF Given
<1>15. NodeInv(held, partial, main, sub, body, BlocksNow, Given)
  BY <1>1, <1>13, <1>14, NoNodes DEF Init
<1>16. QED BY <1>6, <1>7, <1>8, <1>12, <1>15 DEF PoolInv

LEMMA PoolStep == PoolInv /\ [Next]_vars => PoolInv'
<1>1. SUFFICES ASSUME PoolInv, [Next]_vars PROVE PoolInv'
  OBVIOUS
<1>2. CASE UNCHANGED vars
  BY <1>1, <1>2 DEF vars, PoolInv, Types, Lengths, Threaded, Chains, Lasts, BlocksNow, Given
<1>3. ASSUME NEW t \in Threads, Step(t) PROVE PoolInv'
  <2>1. CASE Alloc(t)
    BY <1>1, <2>1, AllocKeeps
  <2>2. CASE \E n \in held : Dealloc(t, n)
    BY <1>1, <2>2, DeallocKeeps
  <2>3. CASE Exit(t)
    BY <1>1, <2>3, ExitKeeps
  <2>4. CASE TryPushNode(t)
    BY <1>1, <2>4, TryPushNodeKeeps
  <2>5. CASE PushRead(t)
    BY <1>1, <2>5, PushReadKeeps
  <2>6. CASE PushSwap(t)
    BY <1>1, <2>6, PushSwapKeeps
  <2>7. CASE PopRead(t)
    BY <1>1, <2>7, PopReadKeeps
  <2>8. CASE PopNext(t)
    BY <1>1, <2>8, PopNextKeeps
  <2>9. CASE PopSwap(t)
    BY <1>1, <2>9, PopSwapKeeps
  <2>10. CASE Lock(t)
    BY <1>1, <2>10, LockKeeps
  <2>11. CASE NewPage(t)
    BY <1>1, <2>11, NewPageKeeps
  <2>12. CASE Own(t)
    BY <1>1, <2>12, OwnKeeps
  <2>13. QED BY <1>3, <2>1, <2>2, <2>3, <2>4, <2>5, <2>6, <2>7, <2>8, <2>9, <2>10, <2>11, <2>12
             DEF Step
<1>4. QED BY <1>1, <1>2, <1>3 DEF Next

(* The inductive invariant holds in every state of the pools.               *)
THEOREM PoolInvAlways == Spec => []PoolInv
  BY InitPoolInv, PoolStep, PTL DEF Spec

(* The blocks and the places as the properties name them.                   *)
LEMMA BlocksAre ==
  /\ \A t \in Threads : OnTheWay(t) = Way(Chains, Lasts, t)
  /\ Blocks = BlocksNow
<1>1. \A t \in Threads : OnTheWay(t) = Way(Chains, Lasts, t)
  BY DEF OnTheWay, Way, Chains, Lasts
<1>2. UNION {OnTheWay(t) : t \in Threads} = UNION {Way(Chains, Lasts, t) : t \in Threads}
  BY <1>1
<1>3. QED BY <1>1, <1>2 DEF Blocks, BlocksNow, AllBlocks

LEMMA PlacesAre ==
  \A x : x \in Places <=>
    \/ x = Users \/ x = Parts
    \/ \E t \in Threads : x = Main(t)
    \/ \E t \in Threads : x = Sub(t)
    \/ \E b \in Blocks : x = Block(b)
  BY DEF Places, Users, Parts, Main, Sub, Block

LEMMA InsideIs ==
  /\ Inside(Users) = held /\ Inside(Parts) = ToSet(partial) /\ List(Parts) = partial
  /\ \A t : Inside(Main(t)) = ToSet(main[t]) /\ List(Main(t)) = main[t]
  /\ \A t : Inside(Sub(t)) = ToSet(sub[t]) /\ List(Sub(t)) = sub[t]
  /\ \A b : Inside(Block(b)) = ToSet(body[b]) /\ List(Block(b)) = body[b]
<1>1. Inside(Users) = held
  BY DEF Users, Inside
<1>2. Inside(Parts) = ToSet(partial) /\ List(Parts) = partial
  BY DEF Parts, Inside, List
<1>3. ASSUME NEW t PROVE Inside(Main(t)) = ToSet(main[t]) /\ List(Main(t)) = main[t]
  BY DEF Main, Inside, List
<1>4. ASSUME NEW t PROVE Inside(Sub(t)) = ToSet(sub[t]) /\ List(Sub(t)) = sub[t]
  BY DEF Sub, Inside, List
<1>5. ASSUME NEW b PROVE Inside(Block(b)) = ToSet(body[b]) /\ List(Block(b)) = body[b]
  BY DEF Block, Inside, List
<1>6. QED BY <1>1, <1>2, <1>3, <1>4, <1>5

LEMMA PlacesApart ==
  ASSUME PoolInv
  PROVE  /\ \A x \in Lists : IsInjective(List(x))
         /\ \A n \in Given : \E x \in Places : \A y \in Places : n \in Inside(y) <=> y = x
         /\ \A x \in Places : Inside(x) \subseteq Given
<1>1. NodeInv(held, partial, main, sub, body, BlocksNow, Given)
  BY DEF PoolInv
<1>2. PICK I : IsContent(I, held, partial, main, sub, body, BlocksNow) /\ Apart(I, Given)
  BY <1>1, NodeInvNow
<1>3. IsInjective(partial) /\ GoodStacks(main, sub) /\ GoodBlocks(body, BlocksNow)
  BY <1>1 DEF NodeInv
<1>4. Blocks = BlocksNow /\ Blocks \subseteq Nodes
  BY <1>3, BlocksAre DEF GoodBlocks
<1>5. ASSUME NEW x \in Places PROVE x \in DOMAIN I /\ Inside(x) = I[x]
  <2>1. CASE x = Users \/ x = Parts
    BY <1>2, <2>1, InsideIs, PlacesThere DEF IsContent
  <2>2. CASE \E t \in Threads : x = Main(t)
    BY <1>2, <2>2, InsideIs, PlacesThere DEF IsContent
  <2>3. CASE \E t \in Threads : x = Sub(t)
    BY <1>2, <2>3, InsideIs, PlacesThere DEF IsContent
  <2>4. CASE \E b \in Blocks : x = Block(b)
    BY <1>2, <1>4, <2>4, InsideIs, PlacesThere DEF IsContent
  <2>5. QED BY <2>1, <2>2, <2>3, <2>4, PlacesAre
<1>6. ASSUME NEW x \in DOMAIN I, x \notin Places PROVE I[x] = {}
  <2>1. PICK b \in Nodes : x = Block(b) /\ b \notin Blocks
    BY <1>2, <1>6, PlacesThere, PlacesAre DEF IsContent
  <2>2. QED BY <1>2, <1>4, <2>1 DEF IsContent
<1>7. ASSUME NEW x \in Lists PROVE IsInjective(List(x))
  <2>1. x \in Places /\ x # Users
    BY DEF Lists, Users
  <2>2. CASE x = Parts
    BY <1>3, <2>2, InsideIs
  <2>3. CASE \E t \in Threads : x = Main(t) \/ x = Sub(t)
    BY <1>3, <2>3, InsideIs DEF GoodStacks
  <2>4. CASE \E b \in Blocks : x = Block(b)
    BY <1>3, <1>4, <2>4, InsideIs DEF GoodBlocks
  <2>5. QED BY <2>1, <2>2, <2>3, <2>4, PlacesAre
<1>8. ASSUME NEW n \in Given
      PROVE  \E x \in Places : \A y \in Places : n \in Inside(y) <=> y = x
  <2>1. PICK x \in DOMAIN I : \A y \in DOMAIN I : n \in I[y] <=> y = x
    BY <1>2 DEF Apart
  <2>2. x \in Places
    BY <1>6, <2>1
  <2>3. \A y \in Places : n \in Inside(y) <=> y = x
    BY <1>5, <2>1
  <2>4. QED BY <2>2, <2>3
<1>9. \A x \in Places : Inside(x) \subseteq Given
  BY <1>2, <1>5 DEF Apart
<1>10. QED BY <1>7, <1>8, <1>9

LEMMA PoolKeepsNodes == PoolInv => NodesConserved
<1>1. SUFFICES ASSUME PoolInv PROVE NodesConserved
  OBVIOUS
<1>2. /\ ListOk(listed, Chains, Lasts, link, counter, top) /\ Separate(listed, Chains, Lasts)
      /\ listed \in Seq(Pointers) /\ OneEach(listed)
  BY <1>1 DEF PoolInv, ListOk, Separate
<1>3. Linked
  <2>1. DOMAIN listed = 1 .. Len(listed)
    BY <1>2
  <2>2. top = TopOf(listed) /\ LinkedList(listed, link, Null)
    BY <1>2 DEF ListOk
  <2>3. QED BY <2>1, <2>2 DEF Linked, TopOf, LinkedList
<1>4. \A t \in Threads : /\ OnTheWay(t) \cap BlocksOf(listed) = {}
                         /\ \A u \in Threads \ {t} : OnTheWay(t) \cap OnTheWay(u) = {}
  BY <1>2, BlocksAre DEF Separate
<1>5. /\ \A x \in Lists : IsInjective(List(x))
      /\ \A n \in Given : \E x \in Places : \A y \in Places : n \in Inside(y) <=> y = x
      /\ \A x \in Places : Inside(x) \subseteq Given
  BY <1>1, PlacesApart
<1>6. \A i, j \in DOMAIN listed : listed[i][2] = listed[j][2] => i = j
  BY <1>2 DEF OneEach
<1>7. QED BY ONLY <1>3, <1>4, <1>5, <1>6 DEF NodesConserved, Given

LEMMA PoolKeepsBlocks == PoolInv => BlocksWhole
<1>1. SUFFICES ASSUME PoolInv PROVE BlocksWhole
  OBVIOUS
<1>2. ASSUME NEW t \in Threads PROVE Len(main[t]) <= BlockSize /\ Len(sub[t]) <= BlockSize
  <2>1. LengthOk(main[t], sub[t])
    BY <1>1 DEF PoolInv, Lengths
  <2>2. QED BY <2>1, SizePositive DEF LengthOk
<1>3. ASSUME NEW b \in Blocks PROVE Len(body[b]) = BlockSize
  <2>1. GoodBlocks(body, BlocksNow)
    BY <1>1 DEF PoolInv, NodeInv
  <2>2. QED BY <2>1, BlocksAre DEF GoodBlocks
<1>4. QED BY <1>2, <1>3 DEF BlocksWhole

(* No node is lost and none is handed out twice, and the links say what is  *)
(* in the list, for every number of threads, size of blocks and number of   *)
(* pages: what a pop read can be the top again only with the same tag.      *)
THEOREM NodesAlwaysConserved == Spec => []NodesConserved
  BY PoolInvAlways, PoolKeepsNodes, PTL

(* Stacks never outgrow a block, and blocks at level 2 are whole.           *)
THEOREM BlocksAlwaysWhole == Spec => []BlocksWhole
  BY PoolInvAlways, PoolKeepsBlocks, PTL
=============================================================================
