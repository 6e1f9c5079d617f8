-------------------------- MODULE IocpServerProofs --------------------------
(***************************************************************************)
(* Proofs about two parts of jh::IocpServer.  SendPipeline, for any sets   *)
(* of threads and packets: the invariant SendInv, and from it that         *)
(* SendPacket implements a FIFO channel.  ServerStop, for any number of    *)
(* concurrent threads, sessions and completions: the sessions are cleared  *)
(* alone, and the completions Stop posts are too few for the threads as    *)
(* soon as two may run at once.                                            *)
(***************************************************************************)
EXTENDS SendPipeline, ServerStop, SequenceTheorems, FiniteSetTheorems,
        FunctionTheorems, TLAPS

OwnerLabels == {"size", "lower", "swap", "send", "clear", "release"}

Labels == OwnerLabels \cup {"idle", "request", "check", "claim", "recheck"}

(* The part of SendInv that is not typing.                                  *)
Core == OneOwner /\ PendingShape /\ BuffersHeld /\ WirePrefix /\ NothingLost

(* Nothing has failed so far.                                               *)
Sound == ~flag \/ send \in {"outstanding", "sent"} \/ \E t \in Threads : Owner(t)

-----------------------------------------------------------------------------
LEMMA AppendToConcat ==
  ASSUME NEW a \in Seq(Packets), NEW b \in Seq(Packets), NEW e \in Packets
  PROVE  Append(a \o b, e) = a \o Append(b, e)
<1>1. a \o b \in Seq(Packets) /\ Append(b, e) \in Seq(Packets) /\ a \o Append(b, e) \in Seq(Packets)
  OBVIOUS
<1>2. Append(a \o b, e) \in Seq(Packets)
  BY <1>1
<1>3. /\ Len(Append(a \o b, e)) = Len(a) + Len(b) + 1
      /\ Len(a \o Append(b, e)) = Len(a) + Len(b) + 1
      /\ Len(a) \in Nat /\ Len(b) \in Nat
  BY <1>1
<1>4. ASSUME NEW i \in 1 .. Len(a) + Len(b) + 1
      PROVE  Append(a \o b, e)[i] = (a \o Append(b, e))[i]
  BY <1>1, <1>3
<1>5. QED BY <1>1, <1>2, <1>3, <1>4, SeqEqual

LEMMA PrefixOfConcat ==
  ASSUME NEW S, NEW a \in Seq(S), NEW b \in Seq(S)
  PROVE  /\ Len(a) <= Len(a \o b)
         /\ \A i \in 1 .. Len(a) : a[i] = (a \o b)[i]
BY ConcatProperties, LenProperties

(* A sequence that agrees with another one is an initial part of it.        *)
LEMMA PrefixIsSubSeq ==
  ASSUME NEW S, NEW a \in Seq(S), NEW b \in Seq(S),
         Len(a) <= Len(b), \A i \in 1 .. Len(a) : a[i] = b[i]
  PROVE  a = SubSeq(b, 1, Len(a))
<1>1. Len(a) \in Nat /\ Len(b) \in Nat
  OBVIOUS
<1>2. \A i \in 1 .. Len(a) : b[i] \in S
  BY <1>1, ElementOfSeq
<1>3. /\ SubSeq(b, 1, Len(a)) \in Seq(S)
      /\ Len(SubSeq(b, 1, Len(a))) = Len(a)
      /\ \A i \in 1 .. Len(a) : SubSeq(b, 1, Len(a))[i] = b[i]
  BY <1>1, <1>2, SubSeqProperties
<1>4. QED BY <1>3, SeqEqual

-----------------------------------------------------------------------------
LEMMA InitSendInv == Init => SendInv
<1> SUFFICES ASSUME Init PROVE SendInv OBVIOUS
<1>1. TypeOK
  <2>1. <<>> \in Seq(Packets) BY EmptySeq
  <2>2. QED BY <2>1 DEF Init, TypeOK
<1>2. OneOwner /\ PendingShape /\ BuffersHeld
  BY DEF Init, OneOwner, PendingShape, BuffersHeld, Owner
<1>3. WirePrefix BY DEF Init, WirePrefix
<1>4. NothingLost
  <2>1. Transit = <<>> BY DEF Init, Transit
  <2>2. QED BY <2>1 DEF Init, NothingLost
<1>5. QED BY <1>1, <1>2, <1>3, <1>4 DEF SendInv

LEMMA TypeStep == TypeOK /\ [Next]_vars => TypeOK'
<1> SUFFICES ASSUME TypeOK, [Next]_vars PROVE TypeOK' OBVIOUS
<1> USE DEF At, line, net
<1>1. ASSUME NEW t \in Threads, Continue(t) PROVE TypeOK'
  <2>1. CASE Request(t)
    <3>1. requests' \in Nat
      <4>1. requests' = requests + 1 \/ requests' = requests BY <2>1 DEF Request
      <4>2. QED BY <4>1 DEF TypeOK
    <3>2. lost' \in BOOLEAN BY <2>1 DEF Request, TypeOK
    <3>3. QED BY <2>1, <3>1, <3>2 DEF Request, TypeOK
  <2>2. CASE Clear(t) BY <2>2 DEF Clear, TypeOK
  <2>3. CASE Release(t) BY <2>3 DEF Release, TypeOK
  <2>4. CASE Recheck(t) BY <2>4 DEF Recheck, TypeOK
  <2>5. CASE Check(t) BY <2>5 DEF Check, TypeOK
  <2>6. CASE Claim(t) BY <2>6 DEF Claim, TypeOK
  <2>7. CASE Size(t) BY <2>7 DEF Size, TypeOK
  <2>8. CASE Lower(t) BY <2>8 DEF Lower, TypeOK
  <2>9. CASE Swap(t) BY <2>9 DEF Swap, TypeOK
  <2>10. CASE WSASend(t) BY <2>10 DEF WSASend, TypeOK
  <2>11. QED BY <1>1, <2>1, <2>2, <2>3, <2>4, <2>5, <2>6, <2>7, <2>8, <2>9, <2>10 DEF Continue
<1>2. ASSUME NEW t \in Threads, NEW p \in Packets, Push(t, p) PROVE TypeOK'
  BY <1>2 DEF Push, TypeOK
<1>3. ASSUME NEW t \in Workers, TakeRequest(t) \/ TakeSent(t) \/ TakeAborted(t) PROVE TypeOK'
  <2>1. CASE TakeRequest(t)
    <3>1. requests' \in Nat BY <2>1 DEF TakeRequest, TypeOK
    <3>2. QED BY <2>1, <3>1 DEF TakeRequest, TypeOK
  <2>2. CASE TakeSent(t) BY <2>2 DEF TakeSent, TypeOK
  <2>3. CASE TakeAborted(t) BY <2>3 DEF TakeAborted, TypeOK
  <2>4. QED BY <1>3, <2>1, <2>2, <2>3
<1>4. CASE SendCompletes BY <1>4 DEF SendCompletes, TypeOK
<1>5. CASE SendAborted
  <2>1. PICK n \in 0 .. Len(inFlight) : wire' = wire \o SubSeq(inFlight, 1, n)
    BY <1>5 DEF SendAborted
  <2>2. SubSeq(inFlight, 1, n) \in Seq(Packets)
    BY SubSeqProperties, ElementOfSeq DEF TypeOK
  <2>3. wire' \in Seq(Packets)
    BY <2>1, <2>2 DEF TypeOK
  <2>4. QED BY <1>5, <2>3 DEF SendAborted, TypeOK
<1>6. CASE LineBreaks \/ Disconnect BY <1>6 DEF LineBreaks, Disconnect, TypeOK
<1>7. CASE UNCHANGED vars BY <1>7 DEF vars, TypeOK
<1>8. QED BY <1>1, <1>2, <1>3, <1>4, <1>5, <1>6, <1>7 DEF Next, Network, Idle

(* Steps of threads that own nothing and touch only pc, the port or the     *)
(* connection.                                                              *)
LEMMA FreeStep ==
  ASSUME SendInv, UNCHANGED <<flag, pending, net, sendQ, accepted>>,
         \A t \in Threads : pc'[t] = pc[t] \/ (~Owner(t) /\ pc'[t] \notin OwnerLabels)
  PROVE  Core'
<1>1. \A t \in Threads : (Owner(t)' <=> Owner(t)) /\ (Owner(t) => pc'[t] = pc[t])
  BY DEF Owner, OwnerLabels
<1>2. \A t \in Threads : pc'[t] \in OwnerLabels => pc'[t] = pc[t]
  BY DEF Owner, OwnerLabels
<1>3. Transit' = Transit
  BY <1>1, <1>2 DEF Transit, net, Owner, OwnerLabels
<1>4. OneOwner' BY <1>1 DEF SendInv, OneOwner, net
<1>5. PendingShape' BY <1>2 DEF SendInv, PendingShape, net, OwnerLabels
<1>6. BuffersHeld' /\ WirePrefix' BY DEF SendInv, BuffersHeld, WirePrefix, net
<1>7. NothingLost' BY <1>1, <1>3 DEF SendInv, NothingLost, net
<1>8. QED BY <1>4, <1>5, <1>6, <1>7 DEF Core

(* A thread at work under the flag is the only one, and no WSASend is       *)
(* outstanding then.                                                        *)
LEMMA OwnerAlone ==
  ASSUME SendInv, NEW t \in Threads, Owner(t)
  PROVE  /\ flag /\ send = "none" /\ inFlight = <<>>
         /\ \A s \in Threads : s # t => ~Owner(s)
         /\ pc[t] # "send" => Transit = <<>>
         /\ accepted = (wire \o Transit) \o sendQ
<1>1. flag /\ send = "none" /\ inFlight = <<>> /\ \A s \in Threads : s # t => ~Owner(s)
  BY DEF SendInv, OneOwner, PendingShape
<1>2. pc[t] # "send" => Transit = <<>>
  BY <1>1 DEF Transit, Owner
<1>3. accepted = (wire \o Transit) \o sendQ
  BY DEF SendInv, NothingLost
<1>4. QED BY <1>1, <1>2, <1>3

LEMMA PushCore ==
  ASSUME SendInv, NEW t \in Threads, NEW p \in Packets, Push(t, p)
  PROVE  Core'
<1> USE DEF Push, At, net
<1>1. \A s \in Threads : (Owner(s)' <=> Owner(s)) /\ (Owner(s) => pc'[s] = pc[s])
                          /\ (pc'[s] = "send" <=> pc[s] = "send")
  BY DEF SendInv, TypeOK, Owner
<1>2. Transit' = Transit /\ Transit \in Seq(Packets)
  BY <1>1 DEF Transit, SendInv, TypeOK
<1>3. sendQ \in Seq(Packets) /\ wire \in Seq(Packets) /\ accepted \in Seq(Packets)
  BY DEF SendInv, TypeOK
<1>4. OneOwner' /\ BuffersHeld'
  BY <1>1 DEF SendInv, OneOwner, BuffersHeld
<1>5. PendingShape'
  <2>1. sendQ' # <<>> BY <1>3
  <2>2. \A s \in Threads : pc'[s] \in OwnerLabels => pc'[s] = pc[s]
    BY DEF SendInv, TypeOK, OwnerLabels
  <2>3. QED BY <2>1, <2>2 DEF SendInv, PendingShape, OwnerLabels
<1>6. WirePrefix'
  <2>1. Len(wire) \in Nat /\ Len(accepted) \in Nat BY <1>3
  <2>2. QED BY <1>3, <2>1 DEF SendInv, WirePrefix
<1>7. NothingLost'
  <2>1. Sound' => Sound BY <1>1 DEF Sound
  <2>2. accepted = (wire \o Transit) \o sendQ => accepted' = (wire' \o Transit') \o sendQ'
    <3>1. wire \o Transit \in Seq(Packets) BY <1>2, <1>3
    <3>2. sendQ \in Seq(Packets) /\ p \in Packets BY <1>3
    <3>3. \A a, b \in Seq(Packets) : Append(a \o b, p) = a \o Append(b, p)
      BY ONLY <3>2, AppendToConcat
    <3>4. Append((wire \o Transit) \o sendQ, p) = (wire \o Transit) \o Append(sendQ, p)
      BY ONLY <3>1, <3>2, <3>3
    <3>5. QED BY <1>2, <3>4
  <2>3. QED BY <2>1, <2>2 DEF SendInv, NothingLost, Sound
<1>8. QED BY <1>4, <1>5, <1>6, <1>7 DEF Core

(* A thread goes on, or begins, while it alone may own the flag and no      *)
(* WSASend is outstanding.                                                  *)
LEMMA AloneCore ==
  ASSUME SendInv, NEW t \in Threads, NEW l \in Labels, pc' = [pc EXCEPT ![t] = l],
         \A s \in Threads : s # t => ~Owner(s),
         send' = "none", inFlight' = <<>>, UNCHANGED <<wire, accepted>>,
         l \in OwnerLabels => flag',
         ~flag' \/ l \in {"size", "lower", "swap", "release"} => pending' = <<>>,
         l = "swap" => sendQ' # <<>>,
         l = "send" => pending' # <<>>,
         ~flag' \/ l \in OwnerLabels
           => accepted = (wire \o (IF l = "send" THEN pending' ELSE <<>>)) \o sendQ'
  PROVE  Core'
<1>1. pc'[t] = l /\ \A s \in Threads : s # t => pc'[s] = pc[s] /\ pc'[s] \notin OwnerLabels
  BY DEF SendInv, TypeOK, Owner, OwnerLabels
<1>2. \A s \in Threads : Owner(s)' => s = t /\ l \in OwnerLabels
  BY <1>1 DEF Owner, OwnerLabels
<1>3. Transit' = IF l = "send" THEN pending' ELSE <<>>
  BY <1>1 DEF Transit, OwnerLabels
<1>4. OneOwner' BY <1>2 DEF OneOwner
<1>5. PendingShape' BY <1>1 DEF PendingShape, OwnerLabels
<1>6. BuffersHeld' /\ WirePrefix' BY DEF SendInv, BuffersHeld, WirePrefix
<1>7. NothingLost' BY <1>2, <1>3 DEF NothingLost
<1>8. QED BY <1>4, <1>5, <1>6, <1>7 DEF Core

(* A step of the kernel or of a worker with a completion: nobody owns the   *)
(* flag, which is up.                                                       *)
LEMMA KernelCore ==
  ASSUME SendInv, send # "none", UNCHANGED <<sendQ, flag, pending, pc, accepted>>,
         send' \in {"none", "sent", "aborted"}, inFlight' = <<>>, WirePrefix',
         send' = "sent" => accepted = (wire' \o <<>>) \o sendQ
  PROVE  Core'
<1>1. flag /\ \A s \in Threads : ~Owner(s)
  BY DEF SendInv, OneOwner
<1>2. \A s \in Threads : ~Owner(s)'
  BY <1>1 DEF Owner
<1>3. Transit' = <<>> BY <1>2 DEF Transit, Owner
<1>4. OneOwner' BY <1>1, <1>2 DEF OneOwner
<1>5. PendingShape' BY <1>1, <1>2 DEF PendingShape, Owner
<1>6. BuffersHeld' BY DEF BuffersHeld
<1>7. NothingLost' BY <1>1, <1>2, <1>3 DEF NothingLost
<1>8. QED BY <1>4, <1>5, <1>6, <1>7 DEF Core

LEMMA OwnerSteps ==
  ASSUME SendInv, NEW t \in Threads,
         Clear(t) \/ Release(t) \/ Claim(t) \/ Size(t) \/ Lower(t)
  PROVE  Core'
<1> USE DEF At, net, Labels, OwnerLabels
<1>1. CASE Clear(t)
  <2>1. Owner(t) BY <1>1 DEF Clear, Owner
  <2>2. QED BY <1>1, <2>1, OwnerAlone, AloneCore DEF Clear
<1>2. CASE Release(t)
  <2>1. Owner(t) BY <1>2 DEF Release, Owner
  <2>2. pending = <<>> BY <1>2 DEF Release, SendInv, PendingShape
  <2>3. QED BY <1>2, <2>1, <2>2, OwnerAlone, AloneCore DEF Release
<1>3. CASE Claim(t)
  <2>1. CASE flag
    <3>1. pc' = [pc EXCEPT ![t] = "idle"] /\ pc[t] = "claim"
      BY <1>3, <2>1 DEF Claim
    <3>2. \A s \in Threads : pc'[s] = pc[s] \/ (~Owner(s) /\ pc'[s] \notin OwnerLabels)
      BY <3>1 DEF SendInv, TypeOK, Owner
    <3>3. QED BY <1>3, <2>1, <3>2, FreeStep DEF Claim
  <2>2. CASE ~flag
    <3>1. send = "none" /\ \A s \in Threads : ~Owner(s)
      BY <2>2 DEF SendInv, OneOwner
    <3>2. inFlight = <<>> /\ pending = <<>>
      BY <2>2, <3>1 DEF SendInv, PendingShape
    <3>3. Transit = <<>> BY <3>1 DEF Transit, Owner
    <3>4. accepted = (wire \o <<>>) \o sendQ
      BY <2>2, <3>3 DEF SendInv, NothingLost
    <3>5. QED BY <1>3, <2>2, <3>1, <3>2, <3>4, AloneCore DEF Claim
  <2>3. QED BY <2>1, <2>2
<1>4. CASE Size(t)
  <2>1. Owner(t) BY <1>4 DEF Size, Owner
  <2>2. pending = <<>> BY <1>4 DEF Size, SendInv, PendingShape
  <2>3. CASE sendQ # <<>>
    BY <1>4, <2>1, <2>2, <2>3, OwnerAlone, AloneCore DEF Size
  <2>4. CASE sendQ = <<>>
    BY <1>4, <2>1, <2>2, <2>4, OwnerAlone, AloneCore DEF Size
  <2>5. QED BY <2>3, <2>4
<1>5. CASE Lower(t)
  <2>1. Owner(t) BY <1>5 DEF Lower, Owner
  <2>2. pending = <<>> BY <1>5 DEF Lower, SendInv, PendingShape
  <2>3. QED BY <1>5, <2>1, <2>2, OwnerAlone, AloneCore DEF Lower
<1>6. QED BY <1>1, <1>2, <1>3, <1>4, <1>5

LEMMA SwapCore ==
  ASSUME SendInv, NEW t \in Threads, Swap(t)
  PROVE  Core'
<1> USE DEF Swap, At, net, Labels, OwnerLabels
<1>1. Owner(t) /\ pc[t] = "swap" BY DEF Owner
<1>2. pending = <<>> /\ sendQ # <<>>
  BY <1>1 DEF SendInv, PendingShape
<1>3. sendQ \in Seq(Packets) /\ wire \in Seq(Packets)
  BY DEF SendInv, TypeOK
<1>4. pending' = sendQ /\ sendQ' = <<>>
  BY <1>2, <1>3, ConcatEmptySeq
<1>5. accepted = (wire \o pending') \o sendQ'
  <2>1. accepted = (wire \o <<>>) \o sendQ BY <1>1, OwnerAlone
  <2>2. wire \o <<>> = wire BY <1>3, ConcatEmptySeq
  <2>3. wire \o sendQ \in Seq(Packets) BY <1>3
  <2>4. (wire \o sendQ) \o <<>> = wire \o sendQ BY <2>3, ConcatEmptySeq
  <2>5. QED BY <1>4, <2>1, <2>2, <2>4
<1>6. /\ flag /\ send = "none" /\ inFlight = <<>>
      /\ \A s \in Threads : s # t => ~Owner(s)
  BY <1>1, OwnerAlone
<1>7. QED BY <1>2, <1>4, <1>5, <1>6, AloneCore

LEMMA WSASendCore ==
  ASSUME SendInv, NEW t \in Threads, WSASend(t)
  PROVE  Core'
<1> USE DEF WSASend, At, net, Labels, OwnerLabels
<1>1. Owner(t) /\ pc[t] = "send" BY DEF Owner
<1>2. pending # <<>> BY <1>1 DEF SendInv, PendingShape
<1>3. /\ flag /\ send = "none" /\ inFlight = <<>>
      /\ \A s \in Threads : s # t => ~Owner(s)
      /\ accepted = (wire \o Transit) \o sendQ
  BY <1>1, OwnerAlone
<1>4. CASE UNCHANGED net
  BY <1>3, <1>4, AloneCore
<1>5. CASE send' = "outstanding" /\ inFlight' = pending /\ UNCHANGED wire
  <2>1. \A s \in Threads : pc'[s] \notin OwnerLabels
    BY <1>3 DEF SendInv, TypeOK, Owner
  <2>2. Transit = pending /\ Transit' = pending
    BY <1>1, <1>5 DEF Transit
  <2>3. OneOwner' BY <1>3, <1>5, <2>1 DEF OneOwner, Owner
  <2>4. PendingShape' BY <1>3, <1>5, <2>1 DEF PendingShape
  <2>5. BuffersHeld' /\ WirePrefix'
    BY <1>2, <1>5 DEF SendInv, BuffersHeld, WirePrefix
  <2>6. NothingLost' BY <1>3, <1>5, <2>2 DEF NothingLost
  <2>7. QED BY <2>3, <2>4, <2>5, <2>6 DEF Core
<1>6. QED BY <1>4, <1>5

LEMMA TakeSentCore ==
  ASSUME SendInv, NEW t \in Workers, TakeSent(t)
  PROVE  Core'
<1> USE DEF TakeSent, At, net, Labels, OwnerLabels
<1>1. t \in Threads BY DEF Threads
<1>2. flag /\ \A s \in Threads : ~Owner(s)
  BY DEF SendInv, OneOwner
<1>3. inFlight = <<>> BY DEF SendInv, PendingShape
<1>4. Transit = <<>> BY <1>2 DEF Transit, Owner
<1>5. accepted = (wire \o <<>>) \o sendQ
  BY <1>4 DEF SendInv, NothingLost
<1>6. QED BY <1>1, <1>2, <1>3, <1>5, AloneCore

LEMMA NetworkCore ==
  ASSUME SendInv, Network \/ \E t \in Workers : TakeAborted(t)
  PROVE  Core'
<1> USE DEF net
<1>1. wire \in Seq(Packets) /\ pending \in Seq(Packets) /\ sendQ \in Seq(Packets)
  BY DEF SendInv, TypeOK
<1>2. wire \o pending \in Seq(Packets)
  BY <1>1
<1>3. ASSUME NEW t \in Workers, TakeAborted(t) PROVE Core'
  <2>1. inFlight = <<>> BY <1>3 DEF TakeAborted, SendInv, PendingShape
  <2>2. WirePrefix' BY <1>3 DEF TakeAborted, SendInv, WirePrefix
  <2>3. QED BY <1>3, <2>1, <2>2, KernelCore DEF TakeAborted
<1>4. ASSUME send = "outstanding"
      PROVE  inFlight = pending /\ accepted = (wire \o pending) \o sendQ
  BY <1>4 DEF SendInv, BuffersHeld, NothingLost, Transit
<1>5. CASE SendCompletes
  <2>1. wire' = wire \o pending /\ accepted = wire' \o sendQ
    BY <1>4, <1>5 DEF SendCompletes
  <2>2. wire' \o <<>> = wire'
    BY <1>2, <2>1, ConcatEmptySeq
  <2>3. WirePrefix'
    BY <1>1, <1>2, <1>5, <2>1, PrefixOfConcat DEF SendCompletes, WirePrefix
  <2>4. QED BY <1>5, <2>1, <2>2, <2>3, KernelCore DEF SendCompletes
<1>6. CASE SendAborted
  <2>1. PICK n \in 0 .. Len(pending) : wire' = wire \o SubSeq(pending, 1, n)
    BY <1>4, <1>6 DEF SendAborted
  <2>2. /\ SubSeq(pending, 1, n) \in Seq(Packets)
        /\ Len(SubSeq(pending, 1, n)) = n
        /\ \A i \in 1 .. n : SubSeq(pending, 1, n)[i] = pending[i]
    BY <1>1, <2>1
  <2>3. /\ Len(wire') = Len(wire) + n
        /\ \A i \in 1 .. Len(wire) + n : wire'[i] = (wire \o pending)[i]
    BY <1>1, <2>1, <2>2
  <2>4. /\ Len(wire \o pending) <= Len(accepted)
        /\ \A i \in 1 .. Len(wire \o pending) : (wire \o pending)[i] = accepted[i]
    BY <1>1, <1>2, <1>4, <1>6, PrefixOfConcat DEF SendAborted
  <2>5. Len(wire \o pending) = Len(wire) + Len(pending) /\ Len(wire) \in Nat /\ Len(pending) \in Nat
    BY <1>1, ConcatProperties, LenProperties
  <2>6. Len(accepted) \in Nat BY DEF SendInv, TypeOK
  <2>7. accepted' = accepted BY <1>6 DEF SendAborted
  <2>8. WirePrefix'
    <3>1. n \in Nat /\ n <= Len(pending) BY <2>1, <2>5
    <3>2. Len(wire') <= Len(accepted') BY <2>3, <2>4, <2>5, <2>6, <2>7, <3>1
    <3>3. ASSUME NEW i \in 1 .. Len(wire') PROVE wire'[i] = accepted'[i]
      <4>1. i \in 1 .. Len(wire) + n /\ i \in 1 .. Len(wire \o pending)
        BY <2>3, <2>5, <3>1
      <4>2. QED BY <2>3, <2>4, <2>7, <4>1
    <3>4. QED BY <3>2, <3>3 DEF WirePrefix
  <2>9. QED BY <1>6, <2>8, KernelCore DEF SendAborted
<1>7. QED BY <1>3, <1>5, <1>6 DEF Network

LEMMA FreeSteps ==
  ASSUME SendInv,
         \/ \E t \in Threads : Request(t) \/ Recheck(t) \/ Check(t)
         \/ \E t \in Workers : TakeRequest(t)
         \/ LineBreaks \/ Disconnect \/ UNCHANGED vars
  PROVE  Core'
<1> USE DEF net, At, OwnerLabels
<1>1. ASSUME NEW t \in Threads, Request(t) \/ Recheck(t) \/ Check(t) PROVE Core'
  <2>1. /\ UNCHANGED <<flag, pending, net, sendQ, accepted>>
        /\ pc[t] \in {"request", "recheck", "check"}
        /\ \/ pc' = [pc EXCEPT ![t] = "idle"] \/ pc' = [pc EXCEPT ![t] = "check"]
           \/ pc' = [pc EXCEPT ![t] = "claim"]
    BY <1>1 DEF Request, Recheck, Check
  <2>2. \A s \in Threads : pc'[s] = pc[s] \/ (~Owner(s) /\ pc'[s] \notin OwnerLabels)
    BY <2>1 DEF SendInv, TypeOK, Owner
  <2>3. QED BY <2>1, <2>2, FreeStep
<1>2. ASSUME NEW t \in Workers, TakeRequest(t) PROVE Core'
  <2>1. \A s \in Threads : pc'[s] = pc[s] \/ (~Owner(s) /\ pc'[s] \notin OwnerLabels)
    BY <1>2 DEF TakeRequest, SendInv, TypeOK, Owner, Threads
  <2>2. QED BY <1>2, <2>1, FreeStep DEF TakeRequest
<1>3. CASE LineBreaks \/ Disconnect \/ UNCHANGED vars
  BY <1>3, FreeStep DEF LineBreaks, Disconnect, vars
<1>4. QED BY <1>1, <1>2, <1>3

LEMMA SendStep == SendInv /\ [Next]_vars => SendInv'
<1> SUFFICES ASSUME SendInv, [Next]_vars PROVE SendInv' OBVIOUS
<1>1. TypeOK' BY TypeStep DEF SendInv
<1>2. Core'
  <2>1. ASSUME NEW t \in Threads, Continue(t) PROVE Core'
    BY <2>1, FreeSteps, OwnerSteps, SwapCore, WSASendCore DEF Continue
  <2>2. ASSUME NEW t \in Threads, NEW p \in Packets, Push(t, p) PROVE Core'
    BY <2>2, PushCore
  <2>3. ASSUME NEW t \in Workers, TakeRequest(t) \/ TakeSent(t) \/ TakeAborted(t) PROVE Core'
    BY <2>3, FreeSteps, TakeSentCore, NetworkCore
  <2>4. CASE Network BY <2>4, NetworkCore
  <2>5. CASE LineBreaks \/ Disconnect \/ UNCHANGED vars BY <2>5, FreeSteps
  <2>6. QED BY <2>1, <2>2, <2>3, <2>4, <2>5 DEF Next, Idle
<1>3. QED BY <1>1, <1>2 DEF SendInv, Core

(* The shape of the pending list, the owner of m_bSendFlag and the order of *)
(* the packets hold in every reachable state (IocpServer.cpp:569-629).      *)
THEOREM SendInvariance == Spec => []SendInv
<1>1. QED BY InitSendInv, SendStep, PTL DEF Spec

(* The buffers of an outstanding WSASend are never released under it.       *)
THEOREM BuffersStayHeld == Spec => []BuffersHeld
<1>1. SendInv => BuffersHeld BY DEF SendInv
<1>2. QED BY <1>1, SendInvariance, PTL

-----------------------------------------------------------------------------
LEMMA InitFifo == Init => Fifo!Init
BY DEF Init, Fifo!Init

(* A step that gives the peer more gives it an initial part of what was     *)
(* accepted; a step that gives it nothing is a stutter, an Accept or a      *)
(* Break.                                                                   *)
LEMMA StepFifo == SendInv /\ SendInv' /\ [Next]_vars => [Fifo!Next]_(Fifo!vars)
<1> SUFFICES ASSUME SendInv, SendInv', [Next]_vars PROVE [Fifo!Next]_(Fifo!vars) OBVIOUS
<1> USE DEF line, net, Fifo!vars
<1>1. ASSUME NEW t \in Threads, Continue(t) PROVE Fifo!Next \/ UNCHANGED Fifo!vars
  <2>1. CASE Request(t)
    <3>1. connected \in BOOLEAN /\ alive \in BOOLEAN /\ lost \in BOOLEAN
      BY DEF SendInv, TypeOK
    <3>2. QED BY <2>1, <3>1 DEF Request, Fifo!Next, Fifo!Break
  <2>2. CASE ~Request(t)
    BY <1>1, <2>2 DEF Continue, Clear, Release, Recheck, Check, Claim, Size, Lower, Swap, WSASend
  <2>3. QED BY <2>1, <2>2
<1>2. ASSUME NEW t \in Threads, NEW p \in Packets, Push(t, p) PROVE Fifo!Next
  BY <1>2 DEF Push, Fifo!Next, Fifo!Accept
<1>3. ASSUME NEW t \in Workers, TakeRequest(t) \/ TakeSent(t) \/ TakeAborted(t)
      PROVE  UNCHANGED Fifo!vars
  BY <1>3 DEF TakeRequest, TakeSent, TakeAborted
<1>4. CASE Network
  <2>1. wire \in Seq(Packets) /\ wire' \in Seq(Packets) /\ inFlight \in Seq(Packets)
        /\ accepted \in Seq(Packets)
    BY DEF SendInv, TypeOK
  <2>2. UNCHANGED <<line, accepted>> /\ Len(wire) <= Len(wire')
        /\ (Len(wire') = Len(wire) => wire' = wire)
    <3>1. ASSUME NEW s \in Seq(Packets), wire' = wire \o s
          PROVE  Len(wire) <= Len(wire') /\ (Len(wire') = Len(wire) => wire' = wire)
      <4>1. Len(wire') = Len(wire) + Len(s) /\ Len(s) \in Nat /\ Len(wire) \in Nat
        BY <2>1, <3>1, ConcatProperties, LenProperties
      <4>2. Len(s) = 0 => s = <<>>
        BY EmptySeq
      <4>3. s = <<>> => wire' = wire
        BY <2>1, <3>1, ConcatEmptySeq
      <4>4. QED BY <4>1, <4>2, <4>3
    <3>2. CASE SendCompletes
      BY <2>1, <3>1, <3>2 DEF SendCompletes
    <3>3. CASE SendAborted
      <4>1. PICK n \in 0 .. Len(inFlight) : wire' = wire \o SubSeq(inFlight, 1, n)
        BY <3>3 DEF SendAborted
      <4>2. SubSeq(inFlight, 1, n) \in Seq(Packets)
        BY <2>1, <4>1
      <4>3. QED BY <3>1, <3>3, <4>1, <4>2 DEF SendAborted
    <3>4. QED BY <1>4, <3>2, <3>3 DEF Network
  <2>3. accepted' = accepted /\ wire' = SubSeq(accepted, 1, Len(wire')) /\ Len(wire') <= Len(accepted)
    BY <2>1, <2>2, PrefixIsSubSeq DEF SendInv, WirePrefix
  <2>4. CASE Len(wire') = Len(wire)
    BY <2>2, <2>4
  <2>5. CASE Len(wire') # Len(wire)
    <3>1. Len(wire') \in Len(wire) + 1 .. Len(accepted)
      BY <2>1, <2>2, <2>3, <2>5, LenProperties
    <3>2. QED BY <2>2, <2>3, <3>1 DEF Fifo!Next, Fifo!Deliver
  <2>6. QED BY <2>4, <2>5
<1>5. CASE LineBreaks \/ Disconnect
  <2>1. connected \in BOOLEAN /\ alive \in BOOLEAN /\ lost \in BOOLEAN BY DEF SendInv, TypeOK
  <2>2. QED BY <1>5, <2>1 DEF LineBreaks, Disconnect, Fifo!Next, Fifo!Break
<1>6. CASE UNCHANGED vars BY <1>6 DEF vars
<1>7. QED BY <1>1, <1>2, <1>3, <1>4, <1>5, <1>6 DEF Next, Idle

(* The send path of IocpServer implements a FIFO channel: no interleaving   *)
(* of SendPacket, PostSend and ProcessSend reorders, repeats or skips a     *)
(* packet.                                                                  *)
THEOREM ImplementsFifo == Spec => SendsInOrder
<1>1. Spec => Fifo!Init /\ [][Fifo!Next]_(Fifo!vars)
  BY InitFifo, StepFifo, SendInvariance, PTL DEF Spec
<1>2. QED BY <1>1 DEF SendsInOrder, Fifo!Spec

-----------------------------------------------------------------------------
(* ServerStop.                                                              *)
(* Empty completions that wait in the port, and threads that took one.      *)
NullsOf(p) == {i \in 1 .. Len(p) : p[i] = "null"}
Ended == {w \in IoThreads : worker[w] = "done"}

(* Every empty completion is in the port or has ended one thread.           *)
NullsAccounted ==
  /\ stop = "running" => posted = 0
  /\ stop \in {"join", "close", "clear", "returned"} => posted = Concurrent
  /\ IF stop \in {"clear", "returned"}
     THEN Cardinality(Ended) <= posted
     ELSE Cardinality(NullsOf(port)) + Cardinality(Ended) = posted

(* Stop waits for more threads than it posts completions for.               *)
StopHangs == Concurrent > 1 => stop \in {"running", "post", "join"}

(* Stop, while it waits, has a completion on its way for the only thread.   *)
OneThreadIsTold ==
  Concurrent = 1 /\ stop = "join" =>
    \A w \in IoThreads : worker[w] = "done" \/ \E i \in 1 .. Len(port) : port[i] = "null"

StopInv == ClearedAlone /\ NullsAccounted /\ StopHangs

-----------------------------------------------------------------------------
(* The threads are finitely many, and more than may run at once only if     *)
(* those are at least two.                                                  *)
LEMMA IoThreadsCount ==
  /\ IsFiniteSet(IoThreads) /\ Cardinality(IoThreads) \in Nat
  /\ Concurrent > 1 => Cardinality(IoThreads) > Concurrent
  /\ Concurrent = 1 => IoThreads = {1}
<1>1. Concurrent \in Nat \ {0}
  BY StopAssumption
<1>2. (3 * Concurrent) \div 2 \in Nat
  BY <1>1
<1>3. IsFiniteSet(IoThreads) /\ Cardinality(IoThreads) = (3 * Concurrent) \div 2
  BY <1>2, FS_Interval DEF IoThreads
<1>4. Concurrent > 1 => (3 * Concurrent) \div 2 > Concurrent
  BY <1>1
<1>5. Concurrent = 1 => IoThreads = {1}
  BY DEF IoThreads
<1>6. QED BY <1>2, <1>3, <1>4, <1>5

(* How many empty completions a port holds: one joins at the end, or the    *)
(* first one leaves.                                                        *)
LEMMA NullsFinite ==
  ASSUME NEW p \in Seq({"io", "null"})
  PROVE  IsFiniteSet(NullsOf(p)) /\ Cardinality(NullsOf(p)) \in Nat
<1>1. Len(p) \in Nat OBVIOUS
<1>2. IsFiniteSet(1 .. Len(p)) BY <1>1, FS_Interval
<1>3. NullsOf(p) \in SUBSET (1 .. Len(p)) BY DEF NullsOf
<1>4. IsFiniteSet(NullsOf(p)) BY <1>2, <1>3, FS_Subset
<1>5. QED BY <1>4, FS_CardinalityType

LEMMA NullsAppend ==
  ASSUME NEW p \in Seq({"io", "null"}), NEW c \in {"io", "null"}
  PROVE  Cardinality(NullsOf(Append(p, c))) =
           Cardinality(NullsOf(p)) + (IF c = "null" THEN 1 ELSE 0)
<1>1. /\ Len(p) \in Nat /\ Len(Append(p, c)) = Len(p) + 1
      /\ Append(p, c)[Len(p) + 1] = c
      /\ \A i \in 1 .. Len(p) : Append(p, c)[i] = p[i]
  OBVIOUS
<1>2. Len(p) + 1 \notin NullsOf(p)
  BY <1>1 DEF NullsOf
<1>3. CASE c = "null"
  <2>1. NullsOf(Append(p, c)) = NullsOf(p) \cup {Len(p) + 1}
    BY <1>1, <1>3 DEF NullsOf
  <2>2. QED BY <2>1, <1>2, <1>3, NullsFinite, FS_AddElement
<1>4. CASE c # "null"
  <2>1. NullsOf(Append(p, c)) = NullsOf(p)
    BY <1>1, <1>4 DEF NullsOf
  <2>2. QED BY <2>1, <1>4, NullsFinite
<1>5. QED BY <1>3, <1>4

LEMMA NullsTail ==
  ASSUME NEW p \in Seq({"io", "null"}), p # <<>>
  PROVE  Cardinality(NullsOf(Tail(p))) =
           Cardinality(NullsOf(p)) - (IF Head(p) = "null" THEN 1 ELSE 0)
<1> DEFINE rest == NullsOf(p) \ {1}
           f == [i \in NullsOf(Tail(p)) |-> i + 1]
<1>1. /\ Len(p) \in Nat \ {0} /\ Len(Tail(p)) = Len(p) - 1 /\ Head(p) = p[1]
      /\ \A i \in 1 .. Len(Tail(p)) : Tail(p)[i] = p[i + 1]
  OBVIOUS
<1>2. Tail(p) \in Seq({"io", "null"})
  OBVIOUS
<1>3. f \in [NullsOf(Tail(p)) -> rest]
  BY <1>1 DEF NullsOf
<1>4. \A i, k \in NullsOf(Tail(p)) : f[i] = f[k] => i = k
  BY <1>1 DEF NullsOf
<1>5. \A k \in rest : \E i \in NullsOf(Tail(p)) : f[i] = k
  <2> SUFFICES ASSUME NEW k \in rest
               PROVE  k - 1 \in NullsOf(Tail(p)) /\ f[k - 1] = k
    OBVIOUS
  <2>1. k - 1 \in 1 .. Len(Tail(p)) /\ (k - 1) + 1 = k
    BY <1>1 DEF NullsOf
  <2>2. p[k] = "null" BY DEF NullsOf
  <2>3. QED BY <1>1, <2>1, <2>2 DEF NullsOf
<1>6. ExistsBijection(NullsOf(Tail(p)), rest)
  BY <1>3, <1>4, <1>5, Fun_IsBij DEF ExistsBijection
<1>7. Cardinality(rest) = Cardinality(NullsOf(Tail(p)))
  BY <1>2, <1>6, NullsFinite, FS_Bijection
<1>8. 1 \in NullsOf(p) <=> Head(p) = "null"
  BY <1>1 DEF NullsOf
<1>9. /\ IsFiniteSet(NullsOf(p)) /\ Cardinality(NullsOf(p)) \in Nat
      /\ Cardinality(rest) = IF 1 \in NullsOf(p) THEN Cardinality(NullsOf(p)) - 1
                            ELSE Cardinality(NullsOf(p))
  BY NullsFinite, FS_RemoveElement
<1>10. QED BY ONLY <1>7, <1>8, <1>9

(* A thread that takes an empty completion is one more that has ended.      *)
LEMMA EndedFinite ==
  IsFiniteSet(Ended) /\ Cardinality(Ended) \in Nat /\ Ended \subseteq IoThreads
BY IoThreadsCount, FS_Subset, FS_CardinalityType DEF Ended

-----------------------------------------------------------------------------
LEMMA InitStopInv == StopInit => StopInv
<1> SUFFICES ASSUME StopInit PROVE StopInv OBVIOUS
<1>1. ClearedAlone
  BY StopAssumption DEF StopInit, ClearedAlone, StopTypes
<1>2. NullsOf(port) = {} /\ Ended = {}
  BY DEF StopInit, NullsOf, Ended
<1>3. NullsAccounted
  BY <1>2, FS_EmptySet DEF StopInit, NullsAccounted
<1>4. QED BY <1>1, <1>3 DEF StopInit, StopInv, StopHangs

(* Sessions are touched by nobody once Stop is past the join.               *)
LEMMA ClearedAloneStep == ClearedAlone /\ [StopNext]_stopVars => ClearedAlone'
<1> SUFFICES ASSUME ClearedAlone, [StopNext]_stopVars PROVE ClearedAlone' OBVIOUS
<1> USE StopAssumption DEF ClearedAlone, StopTypes
<1>1. CASE Accept BY <1>1 DEF Accept
<1>2. CASE Create BY <1>2 DEF Create
<1>3. CASE EndAccept BY <1>3 DEF EndAccept
<1>4. ASSUME NEW w \in IoThreads, TakeIo(w) PROVE ClearedAlone'
  <2>1. port' \in Seq({"io", "null"}) BY <1>4 DEF TakeIo
  <2>2. QED BY <1>4, <2>1 DEF TakeIo
<1>5. ASSUME NEW w \in IoThreads, EndIo(w) PROVE ClearedAlone'
  BY <1>5 DEF EndIo
<1>6. ASSUME NEW w \in IoThreads, TakeNull(w) PROVE ClearedAlone'
  <2>1. port' \in Seq({"io", "null"}) BY <1>6 DEF TakeNull
  <2>2. QED BY <1>6, <2>1 DEF TakeNull
<1>7. CASE Completes BY <1>7 DEF Completes
<1>8. CASE CloseListen BY <1>8 DEF CloseListen
<1>9. CASE PostNulls BY <1>9 DEF PostNulls
<1>10. CASE Join BY <1>10 DEF Join
<1>11. CASE ClosePort
  <2>1. port' \in Seq({"io", "null"}) BY <1>11 DEF ClosePort
  <2>2. QED BY <1>11, <2>1 DEF ClosePort
<1>12. CASE ClearSessions BY <1>12 DEF ClearSessions
<1>13. CASE UNCHANGED stopVars BY <1>13 DEF stopVars
<1>14. QED
  BY <1>1, <1>2, <1>3, <1>4, <1>5, <1>6, <1>7, <1>8, <1>9, <1>10, <1>11, <1>12, <1>13
  DEF StopNext, Worker, Acceptor, Stop, Wait

(* No step loses an empty completion or ends a thread without one.          *)
LEMMA NullsAccountedStep ==
  ClearedAlone /\ NullsAccounted /\ [StopNext]_stopVars => NullsAccounted'
<1> SUFFICES ASSUME ClearedAlone, NullsAccounted, [StopNext]_stopVars PROVE NullsAccounted' OBVIOUS
<1> DEFINE n == Cardinality(NullsOf(port))
           e == Cardinality(Ended)
<1>0. /\ port \in Seq({"io", "null"}) /\ n \in Nat /\ e \in Nat /\ posted \in 0 .. Concurrent
      /\ Concurrent \in Nat
  BY StopAssumption, NullsFinite, EndedFinite DEF ClearedAlone, StopTypes
<1>1. CASE UNCHANGED <<stop, posted, port, worker>>
  BY <1>1 DEF NullsAccounted, NullsOf, Ended
<1>2. ASSUME NEW w \in IoThreads, TakeIo(w) PROVE NullsAccounted'
  <2>1. Ended' = Ended
    BY <1>2 DEF TakeIo, Ended, ClearedAlone, StopTypes
  <2>2. Cardinality(NullsOf(port)') = n
    BY <1>0, <1>2, NullsTail DEF TakeIo
  <2>3. QED BY <1>2, <2>1, <2>2 DEF TakeIo, NullsAccounted
<1>3. ASSUME NEW w \in IoThreads, EndIo(w) PROVE NullsAccounted'
  <2>1. Ended' = Ended
    BY <1>3 DEF EndIo, Ended, ClearedAlone, StopTypes
  <2>2. QED BY <1>3, <2>1 DEF EndIo, NullsAccounted
<1>4. ASSUME NEW w \in IoThreads, TakeNull(w) PROVE NullsAccounted'
  <2>1. Ended' = Ended \cup {w} /\ w \notin Ended
    BY <1>4 DEF TakeNull, Ended, ClearedAlone, StopTypes
  <2>2. Cardinality(Ended') = e + 1
    BY <2>1, EndedFinite, FS_AddElement
  <2>3. Cardinality(NullsOf(port)') = n - 1
    BY <1>0, <1>4, NullsTail DEF TakeNull
  <2>4. stop \notin {"clear", "returned"}
    BY <1>4 DEF TakeNull, ClearedAlone
  <2>5. QED BY <1>0, <1>4, <2>2, <2>3, <2>4 DEF TakeNull, NullsAccounted
<1>5. CASE Completes
  <2>1. Cardinality(NullsOf(port)') = n
    BY <1>0, <1>5, NullsAppend DEF Completes
  <2>2. Ended' = Ended BY <1>5 DEF Completes, Ended
  <2>3. QED BY <1>5, <2>1, <2>2 DEF Completes, NullsAccounted
<1>6. CASE CloseListen
  BY <1>0, <1>6 DEF CloseListen, NullsAccounted, NullsOf, Ended
<1>7. CASE PostNulls
  <2>1. Ended' = Ended BY <1>7 DEF PostNulls, Ended
  <2>2. CASE port' = Append(port, "null") /\ posted' = posted + 1 /\ UNCHANGED stop
    <3>1. Cardinality(NullsOf(port)') = n + 1
      BY <1>0, <2>2, NullsAppend
    <3>2. QED BY <1>0, <1>7, <2>1, <2>2, <3>1 DEF PostNulls, NullsAccounted
  <2>3. CASE posted = Concurrent /\ stop' = "join" /\ UNCHANGED <<port, posted>>
    <3>1. NullsOf(port)' = NullsOf(port) BY <2>3
    <3>2. QED BY <1>7, <2>1, <2>3, <3>1 DEF PostNulls, NullsAccounted
  <2>4. QED BY <1>7, <2>2, <2>3 DEF PostNulls
<1>8. CASE Join
  BY <1>8 DEF Join, NullsAccounted, NullsOf, Ended
<1>9. CASE ClosePort
  <2>1. Ended' = Ended BY <1>9 DEF ClosePort, Ended
  <2>2. QED BY <1>0, <1>9, <2>1 DEF ClosePort, NullsAccounted
<1>10. CASE ClearSessions
  BY <1>10 DEF ClearSessions, NullsAccounted, Ended
<1>11. CASE Accept \/ Create \/ EndAccept \/ Wait
  BY <1>1, <1>11 DEF Accept, Create, EndAccept, Wait, stopVars
<1>12. QED
  BY <1>1, <1>2, <1>3, <1>4, <1>5, <1>6, <1>7, <1>8, <1>9, <1>10, <1>11
  DEF StopNext, Worker, Acceptor, Stop, stopVars

(* More threads wait for a completion than there are.                       *)
LEMMA StopHangsStep == StopInv /\ [StopNext]_stopVars => StopHangs'
<1> SUFFICES ASSUME StopInv, [StopNext]_stopVars, Concurrent > 1
             PROVE  stop' \in {"running", "post", "join"}
  BY DEF StopHangs
<1>0. stop \in {"running", "post", "join"}
  BY DEF StopInv, StopHangs
<1>1. ~Join
  <2> SUFFICES ASSUME Join PROVE FALSE OBVIOUS
  <2>1. Ended = IoThreads
    BY DEF Join, Ended
  <2>2. Cardinality(NullsOf(port)) + Cardinality(IoThreads) = Concurrent
    BY <2>1 DEF Join, StopInv, NullsAccounted
  <2>3. Cardinality(NullsOf(port)) \in Nat /\ Concurrent \in Nat
    BY NullsFinite, StopAssumption DEF StopInv, ClearedAlone, StopTypes
  <2>4. QED BY <2>2, <2>3, IoThreadsCount
<1>2. QED
  BY <1>0, <1>1 DEF StopNext, Worker, TakeIo, EndIo, TakeNull, Acceptor, Create, EndAccept,
    Stop, PostNulls, ClosePort, ClearSessions, Accept, Completes, CloseListen, Wait, stopVars

LEMMA StepStopInv == StopInv /\ [StopNext]_stopVars => StopInv'
BY ClearedAloneStep, NullsAccountedStep, StopHangsStep DEF StopInv

LEMMA StopInvariance == StopSpec => []StopInv
<1>1. QED BY InitStopInv, StepStopInv, PTL DEF StopSpec

-----------------------------------------------------------------------------
(* Sessions are cleared, and the port closed, when no thread is left that   *)
(* could touch one, however many threads there are.                         *)
THEOREM SpecClearedAlone == StopSpec => []ClearedAlone
<1>1. StopInv => ClearedAlone BY DEF StopInv
<1>2. QED BY <1>1, StopInvariance, PTL

(* With two concurrent threads or more Stop never gets past the join: it    *)
(* posts one completion per concurrent thread (IocpServer.cpp:140) and      *)
(* waits for half as many threads again.                                    *)
THEOREM SpecStopHangs == StopSpec => []StopHangs
<1>1. StopInv => StopHangs BY DEF StopInv
<1>2. QED BY <1>1, StopInvariance, PTL

(* With one, the thread has ended or finds its completion in the port:      *)
(* what StopReturns needs besides fairness.                                 *)
THEOREM SpecOneThreadIsTold == StopSpec => []OneThreadIsTold
<1>1. StopInv => OneThreadIsTold
  <2> SUFFICES ASSUME StopInv, Concurrent = 1, stop = "join",
                      NEW w \in IoThreads, worker[w] # "done"
               PROVE  \E i \in 1 .. Len(port) : port[i] = "null"
    BY DEF OneThreadIsTold
  <2>1. Ended = {}
    BY IoThreadsCount DEF Ended
  <2>2. Cardinality(NullsOf(port)) = 1
    <3>1. Cardinality(NullsOf(port)) + Cardinality(Ended) = 1
      BY DEF StopInv, NullsAccounted
    <3>2. Cardinality(NullsOf(port)) \in Nat
      BY NullsFinite DEF StopInv, ClearedAlone, StopTypes
    <3>3. QED BY <2>1, <3>1, <3>2, FS_EmptySet
  <2>3. NullsOf(port) # {}
    BY <2>2, FS_EmptySet
  <2>4. QED BY <2>3 DEF NullsOf
<1>2. QED BY <1>1, StopInvariance, PTL
=============================================================================
