---------------------------- MODULE MemoryPools ----------------------------
(***************************************************************************)
(* Allocation of nodes of one size: the stacks of each thread (level 1,    *)
(* MemoryAllocator), the lock-free list of blocks that threads share       *)
(* (level 2, MemoryPool) and pages (level 3, PageAllocator).  A block is   *)
(* named by its first node; the tag of a pointer to a block is the value   *)
(* of a counter that every push raises, kept in the 17 bits that pointers  *)
(* leave free.                                                             *)
(***************************************************************************)
EXTENDS Integers, FiniteSets, SequencesExt

CONSTANTS
  Threads,
  BlockSize,    (* kNodeCountPerBlock: 512                                  *)
  PageBlocks,   (* kBlockCountToCreate: 8                                   *)
  MaxPages,     (* bound: pages the system gives                            *)
  MaxTag        (* bound: pushes to level 2; far below 2^17                 *)

ASSUME MemoryAssumption ==
  /\ {BlockSize, MaxPages} \subseteq Nat \ {0} /\ PageBlocks \in Nat /\ PageBlocks >= 3
  /\ MaxTag \in 0 .. 2 ^ 17 - 1

Nodes == 1 .. MaxPages * PageBlocks * BlockSize
Null == <<0, 0>>                   (* tag and node                          *)
Junk == <<0, -1>>                  (* what users write over the fields      *)
Nobody == "nobody"

VARIABLES
  main, sub,   (* NodeStack of each thread, top first                       *)
  held,        (* nodes in the hands of users                               *)
  top,         (* m_llComplexFullNode                                       *)
  counter,     (* m_llComplexCounter                                        *)
  link,        (* m_llNextComplexBlock of each node                         *)
  body,        (* the nodes of a block, by its first node                   *)
  partial,     (* m_pPartialNodeHead                                        *)
  pages,       (* pages given so far                                        *)
  owner,       (* of m_allocationLock                                       *)
  pc, loc,     (* what a thread is doing, and its local variables           *)
  listed       (* history: the blocks pushed and not popped, newest first   *)

stackVars == <<main, sub>>
vars == <<main, sub, held, top, counter, link, body, partial, pages, owner, pc, loc, listed>>

(* The pointers a push or a pop has read; the blocks it pushes, each linked *)
(* to the next, of which the code has the first and the last; lastBlock.    *)
Fresh(chain, last, then) ==
  [top |-> Null, next |-> Null, chain |-> chain, last |-> last, then |-> then]
Free0 == Fresh(<<>>, 0, "run")

Init ==
  /\ main = [t \in Threads |-> <<>>] /\ sub = [t \in Threads |-> <<>>] /\ held = {}
  /\ top = Null /\ counter = 0 /\ link = [n \in Nodes |-> Junk] /\ body = [n \in Nodes |-> <<>>]
  /\ partial = <<>> /\ pages = 0 /\ owner = Nobody
  /\ pc = [t \in Threads |-> "run"] /\ loc = [t \in Threads |-> Free0] /\ listed = <<>>

Go(t, step) == pc' = [pc EXCEPT ![t] = step]

-----------------------------------------------------------------------------
(* Level 1.  The lists of a thread as <<main, sub>>.  NodeStack::Pop takes  *)
(* the first of main, or of sub when main is empty.                         *)
PopFrom(m, s) == IF m = <<>> THEN <<Tail(s), <<>>>> ELSE <<Tail(m), s>>
FirstOf(m, s) == IF m = <<>> THEN Head(s) ELSE Head(m)

(* Variant of PushTo: a full main list grows. *)
PushToMain(m, s, n) == <<<<n>> \o m, s>>

(* NodeStack::Push: a full main list and the other change places first.     *)
PushTo(m, s, n) == IF Len(m) = BlockSize THEN <<<<n>> \o s, m>> ELSE <<<<n>> \o m, s>>

SetStacks(t, ms) == main' = [main EXCEPT ![t] = ms[1]] /\ sub' = [sub EXCEPT ![t] = ms[2]]

(* MemoryAllocator::Alloc.  The user may write all over the node.           *)
Alloc(t) ==
  /\ pc[t] = "run"
  /\ IF main[t] = <<>> /\ sub[t] = <<>>
     THEN Go(t, "pop") /\ UNCHANGED <<stackVars, held, link>>
     ELSE LET n == FirstOf(main[t], sub[t])
          IN /\ SetStacks(t, PopFrom(main[t], sub[t]))
             /\ held' = held \cup {n} /\ link' = [link EXCEPT ![n] = Junk] /\ pc' = pc
  /\ UNCHANGED <<top, counter, body, partial, pages, owner, loc, listed>>

(* TryPushBlock begins.                                                     *)
BeginPush(t, head, then) ==
  /\ counter' = counter + 1
  /\ loc' = [loc EXCEPT ![t] = Fresh(<<<<counter', head>>>>, 0, then)]
  /\ Go(t, "push")

(* MemoryAllocator::Dealloc, of a node that any thread allocated: with two  *)
(* blocks in the stacks the other one goes to level 2.                      *)
Dealloc(t, n) ==
  /\ pc[t] = "run" /\ n \in held
  /\ held' = held \ {n}
  /\ LET ms == PushTo(main[t], sub[t], n)
     IN IF Len(ms[1]) + Len(ms[2]) = 2 * BlockSize
        THEN /\ counter < MaxTag /\ BeginPush(t, ms[2][1], "run")
             /\ body' = [body EXCEPT ![ms[2][1]] = ms[2]]
             /\ SetStacks(t, <<ms[1], <<>>>>)
        ELSE SetStacks(t, ms) /\ UNCHANGED <<counter, loc, pc, body>>
  /\ UNCHANGED <<top, link, partial, pages, owner, listed>>

(* The thread ends: ~MemoryAllocator gives its nodes back one by one, and   *)
(* TryPushNode makes a block of them when there are enough.                 *)
Exit(t) ==
  /\ pc[t] = "run" /\ Go(t, "exit")
  /\ UNCHANGED <<stackVars, held, top, counter, link, body, partial, pages, owner, loc, listed>>

TryPushNode(t) ==
  /\ pc[t] = "exit"
  /\ IF main[t] = <<>> /\ sub[t] = <<>>
     THEN Go(t, "gone") /\ UNCHANGED <<stackVars, counter, body, partial, loc>>
     ELSE LET list == <<FirstOf(main[t], sub[t])>> \o partial
          IN /\ SetStacks(t, PopFrom(main[t], sub[t]))
             /\ IF Len(list) < BlockSize
                THEN partial' = list /\ UNCHANGED <<counter, body, loc, pc>>
                ELSE /\ counter < MaxTag /\ BeginPush(t, list[1], "exit")
                     /\ partial' = SubSeq(list, BlockSize + 1, Len(list))
                     /\ body' = [body EXCEPT ![list[1]] = SubSeq(list, 1, BlockSize)]
  /\ UNCHANGED <<held, top, link, pages, owner, listed>>

-----------------------------------------------------------------------------
(* Level 2.  The loop of a push: what it reads is linked behind the last    *)
(* block, and then compared.                                                *)
PushRead(t) ==
  /\ pc[t] = "push" /\ Go(t, "pushed")
  /\ loc' = [loc EXCEPT ![t].top = top]
  /\ link' = [link EXCEPT ![Last(loc[t].chain)[2]] = top]
  /\ UNCHANGED <<stackVars, held, top, counter, body, partial, pages, owner, listed>>

PushSwap(t) ==
  /\ pc[t] = "pushed"
  /\ IF top = loc[t].top
     THEN /\ top' = Head(loc[t].chain) /\ listed' = loc[t].chain \o listed
          /\ loc' = [loc EXCEPT ![t] = Fresh(<<>>, loc[t].last, "run")]
          /\ Go(t, loc[t].then)
     ELSE UNCHANGED <<top, listed, loc>> /\ Go(t, "push")
  /\ UNCHANGED <<stackVars, held, counter, link, body, partial, pages, owner>>

(* TryPopBlock: read the top ...                                            *)
PopRead(t) ==
  /\ pc[t] = "pop"
  /\ loc' = [loc EXCEPT ![t].top = top] /\ Go(t, IF top[2] = 0 THEN "lock" ELSE "next")
  /\ UNCHANGED <<stackVars, held, top, counter, link, body, partial, pages, owner, listed>>

(* ... and what is linked behind it, from a block that may be somebody's by *)
(* now, ...                                                                 *)
PopNext(t) ==
  /\ pc[t] = "next"
  /\ loc' = [loc EXCEPT ![t].next = link[loc[t].top[2]]] /\ Go(t, "popped")
  /\ UNCHANGED <<stackVars, held, top, counter, link, body, partial, pages, owner, listed>>

(* Variant of Unmoved: pointers are compared without their tags. *)
UnmovedNode(t) == top[2] = loc[t].top[2]
Unmoved(t) == top = loc[t].top

(* ... and exchange it if the top has not moved.  AcquireBlockFromPool.     *)
PopSwap(t) ==
  /\ pc[t] = "popped"
  /\ IF Unmoved(t)
     THEN /\ top' = loc[t].next /\ listed' = Tail(listed)
          /\ main' = [main EXCEPT ![t] = body[loc[t].top[2]]]
          /\ loc' = [loc EXCEPT ![t] = Free0] /\ Go(t, "run")
     ELSE UNCHANGED <<top, listed, main, loc>> /\ Go(t, "pop")
  /\ UNCHANGED <<sub, held, counter, link, body, partial, pages, owner>>

(* GetNewBlock, under m_allocationLock: no page is taken if a block has     *)
(* come meanwhile.                                                          *)
Lock(t) ==
  /\ pc[t] = "lock" /\ owner = Nobody
  /\ IF top[2] = 0 THEN owner' = t /\ Go(t, "page") ELSE owner' = owner /\ Go(t, "pop")
  /\ UNCHANGED <<stackVars, held, top, counter, link, body, partial, pages, loc, listed>>

(* AllocPage, and the page cut into blocks: all but the last are linked,    *)
(* each to the one before it, and pushed together; the last is used.  The   *)
(* program ends when there is no page.                                      *)
First(i) == pages * PageBlocks * BlockSize + (i - 1) * BlockSize + 1
Firsts == {First(i) : i \in 1 .. PageBlocks}
NewChain ==
  [j \in 1 .. PageBlocks - 1 |-> <<counter + PageBlocks - j, First(PageBlocks - j)>>]

NewPage(t) ==
  /\ pc[t] = "page"
  /\ IF pages = MaxPages
     THEN pc' = [u \in Threads |-> "ended"] /\ UNCHANGED <<counter, link, body, pages, loc>>
     ELSE /\ counter + PageBlocks - 1 <= MaxTag
          /\ pages' = pages + 1
          /\ counter' = counter + PageBlocks - 1
          /\ body' = [n \in Nodes |->
                        IF n \in Firsts THEN [k \in 1 .. BlockSize |-> n + k - 1] ELSE body[n]]
          /\ link' = [n \in Nodes |->
                        IF \E j \in 1 .. PageBlocks - 2 : n = NewChain[j][2]
                        THEN NewChain[1 + CHOOSE j \in 1 .. PageBlocks - 2 : n = NewChain[j][2]]
                        ELSE IF n \in Firsts THEN Null ELSE link[n]]
          /\ loc' = [loc EXCEPT ![t] = Fresh(NewChain, First(PageBlocks), "own")]
          /\ Go(t, "push")
  /\ UNCHANGED <<stackVars, held, top, partial, owner, listed>>

(* The last block of the page is the thread's; the lock is released.        *)
Own(t) ==
  /\ pc[t] = "own" /\ Go(t, "run") /\ owner' = Nobody
  /\ main' = [main EXCEPT ![t] = body[loc[t].last]]
  /\ loc' = [loc EXCEPT ![t] = Free0]
  /\ UNCHANGED <<sub, held, top, counter, link, body, partial, pages, listed>>

Step(t) ==
  \/ Alloc(t) \/ (\E n \in held : Dealloc(t, n)) \/ Exit(t) \/ TryPushNode(t)
  \/ PushRead(t) \/ PushSwap(t) \/ PopRead(t) \/ PopNext(t) \/ PopSwap(t)
  \/ Lock(t) \/ NewPage(t) \/ Own(t)

Next == \E t \in Threads : Step(t)
Spec == Init /\ [][Next]_vars

-----------------------------------------------------------------------------
(* The blocks of level 2, by their first nodes: those of a chain, those on  *)
(* their way to the list, and those that are listed.                        *)
BlocksOf(chain) == {chain[i][2] : i \in DOMAIN chain}
OnTheWay(t) == BlocksOf(loc[t].chain) \cup ({loc[t].last} \ {0})
Blocks == BlocksOf(listed) \cup UNION {OnTheWay(t) : t \in Threads}

(* Where a node may be, and which are there.                                *)
Places == {<<"users", 0>>, <<"partial", 0>>} \cup {"main", "sub"} \X Threads
          \cup {"block"} \X Blocks
Lists == Places \ {<<"users", 0>>}
List(x) ==
  CASE x[1] = "partial" -> partial
    [] x[1] = "main" -> main[x[2]]
    [] x[1] = "sub" -> sub[x[2]]
    [] x[1] = "block" -> body[x[2]]
Inside(x) == IF x[1] = "users" THEN held ELSE ToSet(List(x))

(* The top and the links say what has been pushed and not been popped.      *)
Linked ==
  /\ top = IF listed = <<>> THEN Null ELSE Head(listed)
  /\ \A i \in DOMAIN listed :
       link[listed[i][2]] = IF i = Len(listed) THEN Null ELSE listed[i + 1]

(* Every node of the pages is in one place and in one only: with a user, in *)
(* the stacks of one thread, among the partial nodes, or in one block that  *)
(* is listed or being pushed, which is there once.  Nothing is lost, and    *)
(* nothing is handed out twice, whatever is popped and pushed between the   *)
(* read of a block and the exchange (MemoryPool.cpp:66).                    *)
NodesConserved ==
  /\ Linked
  /\ \A i, j \in DOMAIN listed : listed[i][2] = listed[j][2] => i = j
  /\ \A t \in Threads : /\ OnTheWay(t) \cap BlocksOf(listed) = {}
                        /\ \A u \in Threads \ {t} : OnTheWay(t) \cap OnTheWay(u) = {}
  /\ \A x \in Lists : IsInjective(List(x))
  /\ \A n \in 1 .. pages * PageBlocks * BlockSize :
       \E x \in Places : \A y \in Places : n \in Inside(y) <=> y = x
  /\ \A x \in Places : Inside(x) \subseteq 1 .. pages * PageBlocks * BlockSize

(* A stack never outgrows a block, and every block that is listed or pushed *)
(* is whole, as the size it is pushed with says.                            *)
BlocksWhole ==
  /\ \A t \in Threads : Len(main[t]) <= BlockSize /\ Len(sub[t]) <= BlockSize
  /\ \A b \in Blocks : Len(body[b]) = BlockSize
=============================================================================
