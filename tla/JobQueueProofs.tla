--------------------------- MODULE JobQueueProofs ---------------------------
(***************************************************************************)
(* Proofs about JobQueue and the JobTimer in front of it, for any finite   *)
(* set of threads and any sets of queues, jobs and delays.  The invariant  *)
(* IInv is inductive, so that a queue never has two executors and never    *)
(* keeps a job nobody will run; and every behaviour is one of a serial     *)
(* executor for each queue.  With the timer JobQueue still does nothing    *)
(* but what JobQueue does, so that what is proved of it holds; and one     *)
(* thread at a time distributes.                                           *)
(***************************************************************************)
EXTENDS JobTimer, FiniteSetTheorems, SequenceTheorems, TLAPS

(* The threads that announce a job are finitely many.                       *)
LEMMA AnnouncingFinite ==
  ASSUME NEW q \in Queues
  PROVE  IsFiniteSet(Announcing(q)) /\ Cardinality(Announcing(q)) \in Nat
BY ThreadsFinite, FS_Subset, FS_CardinalityType DEF Announcing

(* Counting a job makes one thread more announce it.                        *)
LEMMA AnnouncingAdds ==
  ASSUME TypeOK, NEW t \in Threads, NEW q \in Queues, NEW j \in Jobs,
         CountJob(t, q, j), NEW r \in Queues
  PROVE  Cardinality(Announcing(r)') =
           Cardinality(Announcing(r)) + (IF r = q THEN 1 ELSE 0)
<1>1. CASE r = q
  <2>1. Announcing(r)' = Announcing(r) \cup {t} /\ t \notin Announcing(r)
    BY <1>1 DEF CountJob, Announcing, TypeOK
  <2>2. QED BY <1>1, <2>1, AnnouncingFinite, FS_AddElement
<1>2. CASE r # q
  <2>1. Announcing(r)' = Announcing(r)
    BY <1>2 DEF CountJob, Announcing, TypeOK
  <2>2. QED BY <1>2, <2>1, AnnouncingFinite
<1>3. QED BY <1>1, <1>2

(* Enqueueing it makes one thread fewer.                                    *)
LEMMA AnnouncingRemoves ==
  ASSUME TypeOK, NEW t \in Threads, Enqueue(t), NEW r \in Queues
  PROVE  Cardinality(Announcing(r)') =
           Cardinality(Announcing(r)) - (IF r = pq[t] THEN 1 ELSE 0)
<1>1. CASE r = pq[t]
  <2>1. Announcing(r)' = Announcing(r) \ {t} /\ t \in Announcing(r)
    BY <1>1 DEF Enqueue, Announcing, TypeOK
  <2>2. QED BY <1>1, <2>1, AnnouncingFinite, FS_RemoveElement
<1>2. CASE r # pq[t]
  <2>1. Announcing(r)' = Announcing(r)
    BY <1>2 DEF Enqueue, Announcing, TypeOK
  <2>2. QED BY <1>2, <2>1, AnnouncingFinite
<1>3. QED BY <1>1, <1>2

(* The counter is never below the jobs that are taken, nor below zero.      *)
LEMMA CountBound ==
  ASSUME IInv, NEW q \in Queues
  PROVE  /\ jobCount[q] >= 0
         /\ \A t \in Threads : cur[t] = q => jobCount[q] >= taken[t]
<1>1. Len(jobs[q]) \in Nat /\ Cardinality(Announcing(q)) \in Nat
  BY AnnouncingFinite DEF IInv, TypeOK
<1>2. \A t \in Threads : taken[t] \in Nat
  BY DEF IInv, TypeOK
<1>3. QED BY <1>1, <1>2 DEF IInv, CountExact

LEMMA InitIInv == Init => IInv
<1> SUFFICES ASSUME Init PROVE IInv OBVIOUS
<1>1. TypeOK /\ Shape /\ OneCarer
  BY NoneAssumption DEF Init, TypeOK, Shape, OneCarer, Claims, Waits
<1>2. NoStrandedJob
  BY NoneAssumption DEF Init, NoStrandedJob, Cared, Claims, Waits
<1>3. CountExact
  <2>1. ASSUME NEW q \in Queues PROVE Cardinality(Announcing(q)) = 0
    <3>1. Announcing(q) = {} BY DEF Init, Announcing
    <3>2. QED BY <3>1, FS_EmptySet
  <2>2. QED BY <2>1, NoneAssumption DEF Init, CountExact
<1>4. QED BY <1>1, <1>2, <1>3 DEF IInv

LEMMA CountJobIInv ==
  ASSUME IInv, NEW t \in Threads, NEW q \in Queues, NEW j \in Jobs, CountJob(t, q, j)
  PROVE  IInv'
<1> USE DEF CountJob, execVars
<1>1. TypeOK'
  BY DEF IInv, TypeOK
<1>2. Shape'
  BY NoneAssumption DEF IInv, TypeOK, Shape
<1>3. OneCarer'
  <2>1. jobCount[q] = 0 => ~Cared(q)
    BY DEF IInv, NoStrandedJob, TypeOK
  <2>2. UNCHANGED <<cur, global>>
    OBVIOUS
  <2>3. \A s \in Threads, r \in Queues :
          Claims(s, r)' => Claims(s, r) \/ (s = t /\ r = q /\ jobCount[q] = 0)
    BY DEF IInv, TypeOK, Claims
  <2>4. jobCount[q] = 0 =>
          ~Waits(q) /\ \A s \in Threads : cur[s] # q /\ ~Claims(s, q)
    BY <2>1 DEF Cared
  <2>5. \A r \in Queues : Waits(r)' <=> Waits(r)
    BY DEF Waits
  <2>6. OneCarer
    BY DEF IInv
  <2>7. QED BY ONLY <2>2, <2>3, <2>4, <2>5, <2>6 DEF OneCarer
<1>4. NoStrandedJob'
  <2> SUFFICES ASSUME NEW r \in Queues
               PROVE  /\ jobCount'[r] > 0 <=> Cared(r)'
                      /\ jobs'[r] # <<>> => Cared(r)'
    BY DEF NoStrandedJob
  <2>1. jobCount[r] \in Int /\ jobCount[r] >= 0
    BY CountBound DEF IInv, TypeOK
  <2>2. jobCount[r] > 0 <=> Cared(r)
    BY DEF IInv, NoStrandedJob
  <2>3. jobs[r] # <<>> => Cared(r)
    BY DEF IInv, NoStrandedJob
  <2>4. Cared(r) => Cared(r)'
    BY DEF IInv, TypeOK, Shape, Cared, Claims, Waits
  <2>5. r # q => (Cared(r)' <=> Cared(r)) /\ jobCount'[r] = jobCount[r]
    BY DEF IInv, TypeOK, Shape, Cared, Claims, Waits
  <2>6. r = q => Cared(r)' /\ jobCount'[r] = jobCount[r] + 1
    <3>1. jobCount[q] = 0 => Claims(t, q)'
      BY DEF IInv, TypeOK, Claims
    <3>2. QED BY <3>1, <2>1, <2>2, <2>4 DEF IInv, TypeOK, Cared
  <2>7. QED BY <2>1, <2>2, <2>3, <2>4, <2>5, <2>6
<1>5. CountExact'
  <2> SUFFICES ASSUME NEW r \in Queues
               PROVE  /\ \A s \in Threads : cur'[s] = r =>
                           jobCount'[r] = Cardinality(Announcing(r)') + Len(jobs'[r]) + taken'[s]
                      /\ (\A s \in Threads : cur'[s] # r) =>
                           jobCount'[r] = Cardinality(Announcing(r)') + Len(jobs'[r])
    BY DEF CountExact
  <2>1. Cardinality(Announcing(r)') = Cardinality(Announcing(r)) + (IF r = q THEN 1 ELSE 0)
    BY AnnouncingAdds DEF IInv
  <2>2. jobCount'[r] = jobCount[r] + (IF r = q THEN 1 ELSE 0) /\ jobCount[r] \in Int
    BY DEF IInv, TypeOK
  <2>3. Cardinality(Announcing(r)) \in Nat /\ Len(jobs[r]) \in Nat
    BY AnnouncingFinite DEF IInv, TypeOK
  <2>4. \A s \in Threads : taken[s] \in Nat
    BY DEF IInv, TypeOK
  <2>5. UNCHANGED <<cur, jobs, taken>>
    OBVIOUS
  <2>6. /\ \A s \in Threads : cur[s] = r =>
             jobCount[r] = Cardinality(Announcing(r)) + Len(jobs[r]) + taken[s]
        /\ (\A s \in Threads : cur[s] # r) =>
             jobCount[r] = Cardinality(Announcing(r)) + Len(jobs[r])
    BY DEF IInv, CountExact
  <2>7. ASSUME NEW s \in Threads, cur'[s] = r
        PROVE  jobCount'[r] = Cardinality(Announcing(r)') + Len(jobs'[r]) + taken'[s]
    BY ONLY <2>1, <2>2, <2>3, <2>4, <2>5, <2>6, <2>7
  <2>8. ASSUME \A s \in Threads : cur'[s] # r
        PROVE  jobCount'[r] = Cardinality(Announcing(r)') + Len(jobs'[r])
    BY ONLY <2>1, <2>2, <2>3, <2>5, <2>6, <2>8
  <2>9. QED BY <2>7, <2>8
<1>6. QED BY <1>1, <1>2, <1>3, <1>4, <1>5 DEF IInv

LEMMA EnqueueIInv ==
  ASSUME IInv, NEW t \in Threads, Enqueue(t)
  PROVE  IInv'
<1> USE DEF Enqueue
<1>0. pq[t] \in Queues /\ pj[t] \in Jobs /\ (pc[t] = "idle" => cur[t] = NoQueue)
  BY NoneAssumption DEF IInv, TypeOK, Shape
<1>1. TypeOK'
  <2>1. jobs' \in [Queues -> Seq(Jobs)]
    BY <1>0 DEF IInv, TypeOK
  <2>2. cur' \in [Threads -> Queues \cup {NoQueue}] /\ pq' \in [Threads -> Queues \cup {NoQueue}]
    BY <1>0 DEF IInv, TypeOK
  <2>3. /\ pc' \in [Threads -> {"idle", "swap", "run", "busy", "handOver"}]
        /\ push' \in [Threads -> {"none", "enqueue", "forward"}]
    BY DEF IInv, TypeOK
  <2>4. QED BY <2>1, <2>2, <2>3 DEF IInv, TypeOK
<1>2. Shape'
  <2>1. \A s \in Threads : s # t => cur'[s] = cur[s] /\ pc'[s] = pc[s] /\ push'[s] = push[s]
                                   /\ pq'[s] = pq[s] /\ pj'[s] = pj[s]
    BY DEF IInv, TypeOK
  <2>2. batch' = batch /\ taken' = taken /\ first' = first /\ pj'[t] = NoJob
    BY DEF IInv, TypeOK, execVars
  <2>3. \/ push'[t] = "none" /\ pq'[t] = NoQueue /\ cur'[t] = cur[t] /\ pc'[t] = pc[t]
        \/ pc[t] = "idle" /\ push'[t] = "none" /\ pq'[t] = NoQueue /\ cur'[t] = pq[t] /\ pc'[t] = "swap"
        \/ first[t] /\ push'[t] = "forward" /\ pq'[t] = pq[t] /\ cur'[t] = cur[t] /\ pc'[t] = pc[t]
    BY DEF IInv, TypeOK
  <2>4. QED BY <1>0, <2>1, <2>2, <2>3, NoneAssumption DEF IInv, Shape
<1>3. OneCarer'
  <2>1. \A s \in Threads, q \in Queues :
          /\ Claims(s, q)' => Claims(s, q)
          /\ cur'[s] = q => cur[s] = q \/ (s = t /\ Claims(t, q) /\ ~Claims(t, q)')
    BY <1>0, NoneAssumption DEF IInv, TypeOK, Claims
  <2>2. QED BY <2>1 DEF IInv, OneCarer, Waits
<1>4. NoStrandedJob'
  <2> SUFFICES ASSUME NEW r \in Queues
               PROVE  /\ jobCount'[r] > 0 <=> Cared(r)'
                      /\ jobs'[r] # <<>> => Cared(r)'
    BY DEF NoStrandedJob
  <2>1. Cared(r)' <=> Cared(r)
    <3>1. Waits(r)' <=> Waits(r)
      BY DEF Waits
    <3>2. \A s \in Threads : s # t => (Claims(s, r) \/ cur[s] = r <=> (Claims(s, r) \/ cur[s] = r)')
      BY DEF IInv, TypeOK, Claims
    <3>3. Claims(t, r) \/ cur[t] = r <=> (Claims(t, r) \/ cur[t] = r)'
      BY <1>0, NoneAssumption DEF IInv, TypeOK, Claims
    <3>4. QED BY <3>1, <3>2, <3>3 DEF Cared
  <2>2. r = pq[t] => jobCount[r] > 0
    <3>1. Cardinality(Announcing(r)') \in Nat
      BY FS_Subset, FS_CardinalityType, ThreadsFinite DEF Announcing
    <3>2. r = pq[t] => Cardinality(Announcing(r)) > 0
      <4>1. Cardinality(Announcing(r)') = Cardinality(Announcing(r)) - (IF r = pq[t] THEN 1 ELSE 0)
        BY AnnouncingRemoves DEF IInv
      <4>2. Cardinality(Announcing(r)) \in Nat
        BY AnnouncingFinite
      <4>3. QED BY <3>1, <4>1, <4>2
    <3>3. Len(jobs[r]) \in Nat /\ \A s \in Threads : taken[s] \in Nat
      BY DEF IInv, TypeOK
    <3>4. QED BY <3>2, <3>3, AnnouncingFinite DEF IInv, CountExact
  <2>3. QED BY <2>1, <2>2 DEF IInv, TypeOK, NoStrandedJob
<1>5. CountExact'
  <2> SUFFICES ASSUME NEW r \in Queues
               PROVE  /\ \A s \in Threads : cur'[s] = r =>
                           jobCount'[r] = Cardinality(Announcing(r)') + Len(jobs'[r]) + taken'[s]
                      /\ (\A s \in Threads : cur'[s] # r) =>
                           jobCount'[r] = Cardinality(Announcing(r)') + Len(jobs'[r])
    BY DEF CountExact
  <2>1. Cardinality(Announcing(r)') = Cardinality(Announcing(r)) - (IF r = pq[t] THEN 1 ELSE 0)
    BY AnnouncingRemoves DEF IInv
  <2>2. Len(jobs'[r]) = Len(jobs[r]) + (IF r = pq[t] THEN 1 ELSE 0)
    BY <1>0 DEF IInv, TypeOK
  <2>3. Cardinality(Announcing(r)) \in Nat /\ Len(jobs[r]) \in Nat
    BY AnnouncingFinite DEF IInv, TypeOK
  <2>4. \A s \in Threads : taken[s] \in Nat /\ (pc[s] = "idle" => taken[s] = 0)
    BY DEF IInv, TypeOK, Shape
  <2>5. \A s \in Threads : cur[s] = r => cur'[s] = r
    BY <1>0, NoneAssumption DEF IInv, TypeOK, Shape
  <2>6. \A s \in Threads : cur'[s] = r => cur[s] = r \/ taken[s] = 0
    BY <1>0, <2>4 DEF IInv, TypeOK
  <2>7. (\E s \in Threads : cur'[s] = r /\ cur[s] # r) => \A s \in Threads : cur[s] # r
    BY <1>0 DEF IInv, TypeOK, OneCarer, Claims
  <2>8. QED BY <2>1, <2>2, <2>3, <2>4, <2>5, <2>6, <2>7 DEF IInv, TypeOK, CountExact
<1>6. QED BY <1>1, <1>2, <1>3, <1>4, <1>5 DEF IInv

(* Putting a queue at the end of the global queue, and taking the first.    *)
LEMMA WaitsAppend ==
  ASSUME global \in Seq(Queues), NEW q \in Queues, global' = Append(global, q)
  PROVE  /\ global' \in Seq(Queues)
         /\ \A r \in Queues : Waits(r)' <=> Waits(r) \/ r = q
         /\ ~Waits(q) /\ (\A i, k \in 1 .. Len(global) : global[i] = global[k] => i = k)
            => \A i, k \in 1 .. Len(global') : global'[i] = global'[k] => i = k
<1>1. /\ global' \in Seq(Queues)
      /\ Len(global') = Len(global) + 1
      /\ \A i \in 1 .. Len(global) : global'[i] = global[i]
      /\ global'[Len(global) + 1] = q
      /\ Len(global) \in Nat
  OBVIOUS
<1>2. \A i : i \in 1 .. Len(global') <=> i \in 1 .. Len(global) \/ i = Len(global) + 1
  BY <1>1
<1>3. QED BY <1>1, <1>2 DEF Waits

LEMMA WaitsTail ==
  ASSUME global \in Seq(Queues), global # <<>>, global' = Tail(global),
         \A i, k \in 1 .. Len(global) : global[i] = global[k] => i = k
  PROVE  /\ global' \in Seq(Queues)
         /\ Head(global) \in Queues /\ Waits(Head(global))
         /\ \A r \in Queues : Waits(r)' <=> Waits(r) /\ r # Head(global)
         /\ \A i, k \in 1 .. Len(global') : global'[i] = global'[k] => i = k
<1>1. /\ global' \in Seq(Queues)
      /\ Len(global) \in Nat /\ Len(global) > 0
      /\ Len(global') = Len(global) - 1
      /\ \A i \in 1 .. Len(global') : global'[i] = global[i + 1]
      /\ Head(global) = global[1] /\ Head(global) \in Queues
  OBVIOUS
<1>2. \A i \in 1 .. Len(global') : i + 1 \in 1 .. Len(global) /\ i + 1 # 1
  BY <1>1
<1>3. \A i \in 1 .. Len(global) : i # 1 => i - 1 \in 1 .. Len(global') /\ (i - 1) + 1 = i
  BY <1>1
<1>4. 1 \in 1 .. Len(global) BY <1>1
<1>5. \A r \in Queues : Waits(r)' => Waits(r) /\ r # Head(global)
  BY <1>1, <1>2, <1>4 DEF Waits
<1>6. \A r \in Queues : Waits(r) /\ r # Head(global) => Waits(r)'
  <2> SUFFICES ASSUME NEW r \in Queues, Waits(r), r # Head(global) PROVE Waits(r)'
    OBVIOUS
  <2>1. PICK i \in 1 .. Len(global) : global[i] = r BY DEF Waits
  <2>2. i # 1 BY <2>1, <1>1
  <2>3. i - 1 \in 1 .. Len(global') /\ global'[i - 1] = r
    BY <2>1, <2>2, <1>1, <1>3
  <2>4. QED BY <2>3 DEF Waits
<1>7. \A i, k \in 1 .. Len(global') : global'[i] = global'[k] => i = k
  <2> SUFFICES ASSUME NEW i \in 1 .. Len(global'), NEW k \in 1 .. Len(global'),
                      global'[i] = global'[k]
               PROVE  i = k
    OBVIOUS
  <2>1. i + 1 = k + 1 BY <1>1, <1>2
  <2>2. QED BY <2>1, <1>1
<1>8. QED BY <1>1, <1>4, <1>5, <1>6, <1>7 DEF Waits

LEMMA ForwardIInv ==
  ASSUME IInv, NEW t \in Threads, Forward(t)
  PROVE  IInv'
<1> USE DEF Forward, execVars
<1>0. /\ pq[t] \in Queues /\ Claims(t, pq[t]) /\ global \in Seq(Queues)
      /\ global' = Append(global, pq[t])
  BY NoneAssumption DEF IInv, TypeOK, Shape, Claims
<1>a. \A s \in Threads, q \in Queues : Claims(s, q)' <=> Claims(s, q) /\ s # t
  BY NoneAssumption DEF IInv, TypeOK, Claims
<1>1. TypeOK'
  BY <1>0, WaitsAppend DEF IInv, TypeOK
<1>2. Shape'
  BY NoneAssumption DEF IInv, TypeOK, Shape
<1>3. OneCarer'
  <2>1. ~Waits(pq[t])
    BY <1>0 DEF IInv, OneCarer
  <2>2. \A i, k \in 1 .. Len(global') : global'[i] = global'[k] => i = k
    BY <1>0, <2>1, WaitsAppend DEF IInv, OneCarer
  <2>3. \A q \in Queues : Waits(q)' <=> Waits(q) \/ q = pq[t]
    BY <1>0, WaitsAppend
  <2>4. QED BY <1>0, <1>a, <2>2, <2>3 DEF IInv, OneCarer
<1>4. NoStrandedJob'
  <2> SUFFICES ASSUME NEW r \in Queues
               PROVE  /\ jobCount'[r] > 0 <=> Cared(r)'
                      /\ jobs'[r] # <<>> => Cared(r)'
    BY DEF NoStrandedJob
  <2>1. Waits(r)' <=> Waits(r) \/ r = pq[t]
    BY <1>0, WaitsAppend
  <2>2. Cared(r)' <=> Cared(r)
    <3>1. Claims(t, r) <=> r = pq[t] BY <1>0 DEF Claims
    <3>2. QED BY <1>0, <1>a, <2>1, <3>1 DEF Cared
  <2>3. QED BY <2>2 DEF IInv, NoStrandedJob
<1>5. CountExact'
  <2> SUFFICES ASSUME NEW r \in Queues
               PROVE  /\ \A s \in Threads : cur'[s] = r =>
                           jobCount'[r] = Cardinality(Announcing(r)') + Len(jobs'[r]) + taken'[s]
                      /\ (\A s \in Threads : cur'[s] # r) =>
                           jobCount'[r] = Cardinality(Announcing(r)') + Len(jobs'[r])
    BY DEF CountExact
  <2>1. Announcing(r)' = Announcing(r)
    BY DEF Announcing, TypeOK, IInv
  <2>2. Cardinality(Announcing(r)) \in Nat /\ Len(jobs[r]) \in Nat
    BY AnnouncingFinite DEF IInv, TypeOK
  <2>3. \A s \in Threads : taken[s] \in Nat /\ (pc[s] = "idle" => taken[s] = 0)
    BY DEF IInv, TypeOK, Shape
  <2>4. QED BY <2>1, <2>2, <2>3 DEF IInv, CountExact
<1>6. QED BY <1>1, <1>2, <1>3, <1>4, <1>5 DEF IInv

LEMMA TakeIInv ==
  ASSUME IInv, NEW t \in Threads, Take(t)
  PROVE  IInv'
<1> USE DEF Take, pushVars
<1>0. /\ global \in Seq(Queues) /\ global # <<>> /\ global' = Tail(global)
      /\ \A i, k \in 1 .. Len(global) : global[i] = global[k] => i = k
      /\ cur[t] = NoQueue
  BY DEF IInv, TypeOK, Shape, OneCarer
<1> DEFINE h == Head(global)
<1>a. /\ global' \in Seq(Queues) /\ h \in Queues /\ Waits(h)
      /\ \A r \in Queues : Waits(r)' <=> Waits(r) /\ r # h
      /\ \A i, k \in 1 .. Len(global') : global'[i] = global'[k] => i = k
  BY <1>0, WaitsTail
<1>b. \A s \in Threads, q \in Queues :
        /\ Claims(s, q)' <=> Claims(s, q)
        /\ cur'[s] = q <=> IF s = t THEN q = h ELSE cur[s] = q
  BY <1>a DEF IInv, TypeOK, Claims
<1> HIDE DEF h
<1>1. TypeOK'
  BY <1>a DEF IInv, TypeOK, h
<1>2. Shape'
  BY <1>a, NoneAssumption DEF IInv, TypeOK, Shape, h
<1>3. OneCarer'
  BY <1>a, <1>b DEF IInv, OneCarer
<1>4. NoStrandedJob'
  <2> SUFFICES ASSUME NEW r \in Queues
               PROVE  /\ jobCount'[r] > 0 <=> Cared(r)'
                      /\ jobs'[r] # <<>> => Cared(r)'
    BY DEF NoStrandedJob
  <2>1. Cared(r)' <=> Cared(r)
    BY <1>0, <1>a, <1>b, NoneAssumption DEF Cared
  <2>2. QED BY <2>1 DEF IInv, NoStrandedJob
<1>5. CountExact'
  <2> SUFFICES ASSUME NEW r \in Queues
               PROVE  /\ \A s \in Threads : cur'[s] = r =>
                           jobCount'[r] = Cardinality(Announcing(r)') + Len(jobs'[r]) + taken'[s]
                      /\ (\A s \in Threads : cur'[s] # r) =>
                           jobCount'[r] = Cardinality(Announcing(r)') + Len(jobs'[r])
    BY DEF CountExact
  <2>1. Announcing(r)' = Announcing(r)
    BY DEF Announcing, TypeOK, IInv
  <2>2. Cardinality(Announcing(r)) \in Nat /\ Len(jobs[r]) \in Nat
    BY AnnouncingFinite DEF IInv, TypeOK
  <2>3. \A s \in Threads : taken[s] \in Nat /\ (pc[s] = "idle" => taken[s] = 0)
    BY DEF IInv, TypeOK, Shape
  <2>4. \A s \in Threads : cur[s] # h
    BY <1>a DEF IInv, OneCarer
  <2>5. QED BY <1>0, <1>b, <2>1, <2>2, <2>3, <2>4 DEF IInv, CountExact
<1>6. QED BY <1>1, <1>2, <1>3, <1>4, <1>5 DEF IInv

(* The lemma of the steps that leave counter, queues and carers alone.      *)
LEMMA CareUnchanged ==
  ASSUME IInv, UNCHANGED <<jobCount, jobs, global, cur, pushVars, taken>>
  PROVE  OneCarer' /\ NoStrandedJob' /\ CountExact'
BY DEF IInv, pushVars, OneCarer, NoStrandedJob, CountExact, Claims, Waits, Cared, Announcing

LEMMA SwapIInv ==
  ASSUME IInv, NEW t \in Threads, Swap(t)
  PROVE  IInv'
<1> USE DEF Swap, pushVars
<1>0. /\ cur[t] \in Queues /\ jobs[cur[t]] \in Seq(Jobs) /\ Len(jobs[cur[t]]) \in Nat
      /\ taken[t] = 0
  <2>1. pc[t] = "swap"
    OBVIOUS
  <2>2. (cur[t] = NoQueue <=> pc[t] = "idle") /\ (pc[t] = "swap" => taken[t] = 0)
    BY DEF IInv, Shape
  <2>3. cur[t] \in Queues \cup {NoQueue}
    BY DEF IInv, TypeOK
  <2>4. cur[t] \in Queues /\ taken[t] = 0
    BY ONLY <2>1, <2>2, <2>3
  <2>5. QED BY <2>4 DEF IInv, TypeOK
<1>1. TypeOK'
  BY <1>0 DEF IInv, TypeOK
<1>2. Shape'
  BY <1>0, NoneAssumption DEF IInv, TypeOK, Shape
<1>3. OneCarer'
  BY DEF IInv, OneCarer, Claims, Waits
<1>4. NoStrandedJob'
  <2> SUFFICES ASSUME NEW r \in Queues
               PROVE  /\ jobCount'[r] > 0 <=> Cared(r)'
                      /\ jobs'[r] # <<>> => Cared(r)'
    BY DEF NoStrandedJob
  <2>1. Cared(r)' <=> Cared(r)
    BY DEF Cared, Claims, Waits
  <2>2. jobs'[r] = jobs[r] \/ jobs'[r] = <<>>
    BY DEF IInv, TypeOK
  <2>3. QED BY <2>1, <2>2 DEF IInv, NoStrandedJob
<1>5. CountExact'
  <2> SUFFICES ASSUME NEW r \in Queues
               PROVE  /\ \A s \in Threads : cur'[s] = r =>
                           jobCount'[r] = Cardinality(Announcing(r)') + Len(jobs'[r]) + taken'[s]
                      /\ (\A s \in Threads : cur'[s] # r) =>
                           jobCount'[r] = Cardinality(Announcing(r)') + Len(jobs'[r])
    BY DEF CountExact
  <2>1. Announcing(r)' = Announcing(r)
    BY DEF Announcing, TypeOK, IInv
  <2>2. Cardinality(Announcing(r)) \in Nat /\ Len(jobs[r]) \in Nat
    BY AnnouncingFinite DEF IInv, TypeOK
  <2>3. \A s \in Threads : taken[s] \in Nat /\ (pc[s] = "idle" => taken[s] = 0)
    BY DEF IInv, TypeOK, Shape
  <2>4. CASE r = cur[t]
    <3>1. jobs'[r] = <<>> /\ taken'[t] = Len(jobs[r]) /\ Len(<<>>) = 0
      BY <2>4 DEF IInv, TypeOK
    <3>2. \A s \in Threads : cur'[s] = r => s = t
      BY <2>4, <1>0 DEF IInv, OneCarer
    <3>3. jobCount'[r] = Cardinality(Announcing(r)) + Len(jobs[r])
      BY <2>2, <2>4, <1>0 DEF IInv, CountExact
    <3>4. QED BY <2>1, <2>2, <2>4, <3>1, <3>2, <3>3
  <2>5. CASE r # cur[t]
    <3>1. jobs'[r] = jobs[r] /\ \A s \in Threads : cur'[s] = r => taken'[s] = taken[s]
      BY <2>5 DEF IInv, TypeOK
    <3>2. QED BY <2>1, <3>1 DEF IInv, CountExact
  <2>6. QED BY <2>4, <2>5
<1>6. QED BY <1>1, <1>2, <1>3, <1>4, <1>5 DEF IInv

LEMMA StartJobIInv ==
  ASSUME IInv, NEW t \in Threads, StartJob(t)
  PROVE  IInv'
<1> USE DEF StartJob
<1>1. TypeOK'
  BY DEF IInv, TypeOK, pushVars
<1>2. Shape'
  <2>1. push[t] = "none" BY DEF IInv, Shape
  <2>2. QED BY <2>1, NoneAssumption DEF IInv, TypeOK, Shape, pushVars
<1>3. QED BY <1>1, <1>2, CareUnchanged DEF IInv

LEMMA FinishJobIInv ==
  ASSUME IInv, NEW t \in Threads, FinishJob(t)
  PROVE  IInv'
<1> USE DEF FinishJob
<1>0. batch[t] \in Seq(Jobs) /\ batch[t] # <<>> /\ taken[t] \in Nat
  BY DEF IInv, TypeOK, Shape
<1>1. TypeOK'
  BY <1>0 DEF IInv, TypeOK, pushVars
<1>2. Shape'
  <2>1. Len(batch'[t]) = Len(batch[t]) - 1 /\ Len(batch[t]) \in Nat
    BY <1>0 DEF IInv, TypeOK
  <2>2. Len(batch'[t]) <= taken[t]
    BY <1>0, <2>1 DEF IInv, Shape
  <2>3. \A s \in Threads : s # t => batch'[s] = batch[s] /\ pc'[s] = pc[s]
    BY DEF IInv, TypeOK
  <2>4. pc'[t] = "run" /\ cur' = cur /\ taken' = taken /\ push' = push /\ pq' = pq
        /\ pj' = pj /\ first' = first
    BY DEF IInv, TypeOK, pushVars
  <2>5. QED BY <2>2, <2>3, <2>4, NoneAssumption DEF IInv, Shape
<1>3. QED BY <1>1, <1>2, CareUnchanged DEF IInv

LEMMA SettleIInv ==
  ASSUME IInv, NEW t \in Threads, Settle(t)
  PROVE  IInv'
<1> USE DEF Settle, pushVars
<1>0. /\ cur[t] \in Queues /\ jobCount[cur[t]] \in Int /\ taken[t] \in Nat
      /\ push[t] = "none"
  BY NoneAssumption DEF IInv, TypeOK, Shape
<1>a. \/ /\ jobCount[cur[t]] = taken[t]
         /\ pc' = [pc EXCEPT ![t] = "idle"] /\ cur' = [cur EXCEPT ![t] = NoQueue]
      \/ /\ jobCount[cur[t]] # taken[t]
         /\ pc' \in {[pc EXCEPT ![t] = "swap"], [pc EXCEPT ![t] = "handOver"]} /\ cur' = cur
  OBVIOUS
<1>b. jobCount[cur[t]] = Cardinality(Announcing(cur[t])) + Len(jobs[cur[t]]) + taken[t]
  BY <1>0 DEF IInv, CountExact
<1>1. TypeOK'
  <2>1. jobCount' \in [Queues -> Int] /\ taken' \in [Threads -> Nat]
    BY <1>0 DEF IInv, TypeOK
  <2>2. /\ pc' \in [Threads -> {"idle", "swap", "run", "busy", "handOver"}]
        /\ cur' \in [Threads -> Queues \cup {NoQueue}]
    BY <1>a DEF IInv, TypeOK
  <2>3. QED BY <2>1, <2>2 DEF IInv, TypeOK
<1>2. Shape'
  BY <1>0, <1>a, NoneAssumption DEF IInv, TypeOK, Shape
<1>3. OneCarer'
  <2>1. \A s \in Threads, q \in Queues : cur'[s] = q => cur[s] = q
    BY <1>a, NoneAssumption DEF IInv, TypeOK
  <2>2. QED BY <2>1 DEF IInv, OneCarer, Claims, Waits
<1>4. NoStrandedJob'
  <2> SUFFICES ASSUME NEW r \in Queues
               PROVE  /\ jobCount'[r] > 0 <=> Cared(r)'
                      /\ jobs'[r] # <<>> => Cared(r)'
    BY DEF NoStrandedJob
  <2>1. CASE r # cur[t]
    <3>1. jobCount'[r] = jobCount[r] /\ jobs' = jobs
      BY <2>1 DEF IInv, TypeOK
    <3>2. \A s \in Threads : cur'[s] = r <=> cur[s] = r
      BY <1>a, <2>1, NoneAssumption DEF IInv, TypeOK
    <3>3. Cared(r)' <=> Cared(r)
      BY <3>2 DEF Cared, Claims, Waits
    <3>4. QED BY <3>1, <3>3 DEF IInv, NoStrandedJob
  <2>2. CASE r = cur[t]
    <3>1. jobCount'[r] = jobCount[r] - taken[t]
      BY <2>2 DEF IInv, TypeOK
    <3>2. Cardinality(Announcing(r)) \in Nat /\ Len(jobs[r]) \in Nat
      BY AnnouncingFinite DEF IInv, TypeOK
    <3>3. CASE jobCount[r] = taken[t]
      <4>1. \A s \in Threads : cur'[s] # r /\ ~Claims(s, r)'
        <5>1. cur' = [cur EXCEPT ![t] = NoQueue] /\ cur \in [Threads -> Queues \cup {NoQueue}]
          BY <1>a, <2>2, <3>3 DEF IInv, TypeOK
        <5>2. \A s \in Threads : ~Claims(s, r) /\ (cur[s] = r => s = t)
          BY <2>2 DEF IInv, OneCarer
        <5>3. \A s \in Threads : ~Claims(s, r)'
          BY <5>2 DEF Claims
        <5>4. r # NoQueue
          BY NoneAssumption
        <5>5. \A s \in Threads : cur'[s] # r
          BY ONLY <5>1, <5>2, <5>4
        <5>6. QED BY <5>3, <5>5
      <4>2. ~Waits(r)'
        BY <2>2 DEF IInv, OneCarer, Waits
      <4>3. jobs'[r] = <<>>
        BY <1>0, <1>b, <2>2, <3>2, <3>3 DEF IInv, TypeOK
      <4>4. QED BY <1>0, <2>2, <3>1, <3>3, <4>1, <4>2, <4>3 DEF Cared
    <3>4. CASE jobCount[r] # taken[t]
      <4>1. cur'[t] = r BY <1>a, <2>2, <3>4
      <4>2. jobCount'[r] > 0 BY <1>0, <1>b, <2>2, <3>1, <3>2, <3>4
      <4>3. QED BY <4>1, <4>2 DEF Cared
    <3>5. QED BY <3>3, <3>4
  <2>3. QED BY <2>1, <2>2
<1>5. CountExact'
  <2> SUFFICES ASSUME NEW r \in Queues
               PROVE  /\ \A s \in Threads : cur'[s] = r =>
                           jobCount'[r] = Cardinality(Announcing(r)') + Len(jobs'[r]) + taken'[s]
                      /\ (\A s \in Threads : cur'[s] # r) =>
                           jobCount'[r] = Cardinality(Announcing(r)') + Len(jobs'[r])
    BY DEF CountExact
  <2>1. Announcing(r)' = Announcing(r)
    BY DEF Announcing, TypeOK, IInv
  <2>2. Cardinality(Announcing(r)) \in Nat /\ Len(jobs[r]) \in Nat
    BY AnnouncingFinite DEF IInv, TypeOK
  <2>3. \A s \in Threads : taken[s] \in Nat /\ (pc[s] = "idle" => taken[s] = 0)
    BY DEF IInv, TypeOK, Shape
  <2>4. CASE r = cur[t]
    <3>1. jobCount'[r] = Cardinality(Announcing(r)) + Len(jobs[r])
      BY <1>0, <1>b, <2>2, <2>4 DEF IInv, TypeOK
    <3>2. \A s \in Threads : cur'[s] = r => s = t
      BY <1>a, <2>4, <1>0, NoneAssumption DEF IInv, TypeOK, OneCarer
    <3>3. taken'[t] = 0 /\ jobs' = jobs
      BY DEF IInv, TypeOK
    <3>4. QED BY <2>1, <2>2, <3>1, <3>2, <3>3
  <2>5. CASE r # cur[t]
    <3>1. jobCount'[r] = jobCount[r] /\ jobs' = jobs
      BY <2>5 DEF IInv, TypeOK
    <3>2. \A s \in Threads : (cur'[s] = r <=> cur[s] = r) /\ (cur[s] = r => taken'[s] = taken[s])
      BY <1>a, <2>5, NoneAssumption DEF IInv, TypeOK
    <3>3. QED BY <2>1, <3>1, <3>2 DEF IInv, CountExact
  <2>6. QED BY <2>4, <2>5
<1>6. QED BY <1>1, <1>2, <1>3, <1>4, <1>5 DEF IInv

LEMMA HandOverIInv ==
  ASSUME IInv, NEW t \in Threads, HandOver(t)
  PROVE  IInv'
<1> USE DEF HandOver, pushVars
<1>0. /\ cur[t] \in Queues /\ global \in Seq(Queues) /\ global' = Append(global, cur[t])
      /\ taken[t] = 0
  <2>1. pc[t] = "handOver" /\ global' = Append(global, cur[t])
    OBVIOUS
  <2>2. (cur[t] = NoQueue <=> pc[t] = "idle") /\ (pc[t] = "handOver" => taken[t] = 0)
    BY DEF IInv, Shape
  <2>3. cur[t] \in Queues \cup {NoQueue} /\ global \in Seq(Queues)
    BY DEF IInv, TypeOK
  <2>4. QED BY ONLY <2>1, <2>2, <2>3
<1>a. \A s \in Threads, q \in Queues :
        /\ Claims(s, q)' <=> Claims(s, q)
        /\ cur'[s] = q <=> cur[s] = q /\ s # t
  BY NoneAssumption DEF IInv, TypeOK, Claims
<1>b. \A q \in Queues : Waits(q)' <=> Waits(q) \/ q = cur[t]
  BY <1>0, WaitsAppend
<1>1. TypeOK'
  BY <1>0, WaitsAppend DEF IInv, TypeOK
<1>2. Shape'
  BY NoneAssumption DEF IInv, TypeOK, Shape
<1>3. OneCarer'
  <2>1. ~Waits(cur[t])
    BY <1>0 DEF IInv, OneCarer
  <2>2. \A i, k \in 1 .. Len(global') : global'[i] = global'[k] => i = k
    BY <1>0, <2>1, WaitsAppend DEF IInv, OneCarer
  <2>3. QED BY <1>0, <1>a, <1>b, <2>2 DEF IInv, OneCarer
<1>4. NoStrandedJob'
  <2> SUFFICES ASSUME NEW r \in Queues
               PROVE  /\ jobCount'[r] > 0 <=> Cared(r)'
                      /\ jobs'[r] # <<>> => Cared(r)'
    BY DEF NoStrandedJob
  <2>1. Cared(r)' <=> Cared(r)
    BY <1>a, <1>b DEF Cared
  <2>2. QED BY <2>1 DEF IInv, NoStrandedJob
<1>5. CountExact'
  <2> SUFFICES ASSUME NEW r \in Queues
               PROVE  /\ \A s \in Threads : cur'[s] = r =>
                           jobCount'[r] = Cardinality(Announcing(r)') + Len(jobs'[r]) + taken'[s]
                      /\ (\A s \in Threads : cur'[s] # r) =>
                           jobCount'[r] = Cardinality(Announcing(r)') + Len(jobs'[r])
    BY DEF CountExact
  <2>1. Announcing(r)' = Announcing(r)
    BY DEF Announcing, TypeOK, IInv
  <2>2. Cardinality(Announcing(r)) \in Nat /\ Len(jobs[r]) \in Nat
    BY AnnouncingFinite DEF IInv, TypeOK
  <2>3. \A s \in Threads : taken[s] \in Nat /\ (pc[s] = "idle" => taken[s] = 0)
    BY DEF IInv, TypeOK, Shape
  <2>4. cur[t] = r => jobCount[r] = Cardinality(Announcing(r)) + Len(jobs[r])
    BY <1>0, <2>2 DEF IInv, CountExact
  <2>5. QED BY <1>a, <2>1, <2>2, <2>3, <2>4 DEF IInv, CountExact
<1>6. QED BY <1>1, <1>2, <1>3, <1>4, <1>5 DEF IInv

LEMMA NextIInv == IInv /\ [Next]_vars => IInv'
<1> SUFFICES ASSUME IInv, [Next]_vars PROVE IInv' OBVIOUS
<1>1. CASE \E t \in Threads : Continue(t)
  BY <1>1, EnqueueIInv, ForwardIInv, SwapIInv, StartJobIInv, FinishJobIInv, SettleIInv,
     HandOverIInv DEF Continue
<1>2. CASE \E t \in Threads, q \in Queues, j \in Jobs : CountJob(t, q, j)
  BY <1>2, CountJobIInv
<1>3. CASE \E t \in Workers : Take(t)
  BY <1>3, TakeIInv DEF Threads
<1>4. CASE UNCHANGED vars
  <2>1. OneCarer' /\ NoStrandedJob' /\ CountExact'
    BY <1>4, CareUnchanged DEF vars, execVars
  <2>2. TypeOK' /\ Shape'
    BY <1>4 DEF IInv, TypeOK, Shape, vars, execVars, pushVars
  <2>3. QED BY <2>1, <2>2 DEF IInv
<1>5. QED BY <1>1, <1>2, <1>3, <1>4 DEF Next, Idle

(* The strengthened invariant holds always.                                 *)
THEOREM Invariance == Spec => []IInv
BY InitIInv, NextIInv, PTL DEF Spec

(* Every variable keeps its type.                                           *)
THEOREM TypeCorrect == Spec => []TypeOK
BY Invariance, PTL DEF IInv

(* Two threads never run jobs of one JobQueue at once.                      *)
THEOREM MutualExclusion == Spec => []OneExecutor
<1>1. IInv => OneExecutor
  <2> SUFFICES ASSUME IInv, NEW s \in Threads, NEW t \in Threads,
                      pc[s] = "busy", pc[t] = "busy", cur[s] = cur[t]
               PROVE  s = t
    BY DEF OneExecutor
  <2>1. cur[s] \in Queues BY DEF IInv, TypeOK, Shape
  <2>2. QED BY <2>1 DEF IInv, OneCarer
<1>2. QED BY <1>1, Invariance, PTL

(* A JobQueue that holds jobs always has somebody who will run it.          *)
THEOREM NothingStranded == Spec => []NoStrandedJob
BY Invariance, PTL DEF IInv

(* m_jobCount always counts the unsettled jobs exactly.                     *)
THEOREM CounterExact == Spec => []CountExact
BY Invariance, PTL DEF IInv

-----------------------------------------------------------------------------
(* Every job is counted by one call of Push: it is announced once, and not  *)
(* among those no Push has been called with.                                *)
JobsOnce ==
  /\ \A t \in Threads : push[t] = "enqueue" => pj[t] \notin unused
  /\ \A s, t \in Threads : push[s] = "enqueue" /\ push[t] = "enqueue" /\ pj[s] = pj[t] => s = t

LEMMA NextJobsOnce == TypeOK /\ JobsOnce /\ [Next]_vars => JobsOnce'
<1> SUFFICES ASSUME TypeOK, JobsOnce, [Next]_vars PROVE JobsOnce' OBVIOUS
<1> USE DEF JobsOnce, TypeOK, execVars, pushVars
<1>1. ASSUME NEW t \in Threads, NEW q \in Queues, NEW j \in Jobs, CountJob(t, q, j)
      PROVE  JobsOnce'
  BY <1>1 DEF CountJob
<1>2. ASSUME NEW t \in Threads, Enqueue(t) PROVE JobsOnce'
  BY <1>2 DEF Enqueue
<1>3. ASSUME NEW t \in Threads, Forward(t) PROVE JobsOnce'
  BY <1>3 DEF Forward
<1>4. CASE UNCHANGED <<pushVars, unused>>
  BY <1>4
<1>5. QED BY <1>1, <1>2, <1>3, <1>4
  DEF Next, Continue, Swap, StartJob, FinishJob, Settle, HandOver, Take, Idle, vars

(* What a thread gives to the queue it is in Execute of.                    *)
Out(t) == IF pc[t] = "busy" THEN Tail(batch[t]) ELSE batch[t]
Now(t) == IF pc[t] = "busy" THEN Head(batch[t]) ELSE NoJob

(* The swapped-out and the running job of a queue are those of its only     *)
(* executor, if it has one.                                                 *)
ByExecutor ==
  \A q \in Queues :
    /\ \A t \in Threads : cur[t] = q => SwappedOut(q) = Out(t) /\ RunningJob(q) = Now(t)
    /\ (\A t \in Threads : cur[t] # q) => SwappedOut(q) = <<>> /\ RunningJob(q) = NoJob

LEMMA ExecutorOfQueue == IInv => ByExecutor
<1> SUFFICES ASSUME IInv, NEW q \in Queues
             PROVE  /\ \A t \in Threads : cur[t] = q =>
                         SwappedOut(q) = Out(t) /\ RunningJob(q) = Now(t)
                    /\ (\A t \in Threads : cur[t] # q) =>
                         SwappedOut(q) = <<>> /\ RunningJob(q) = NoJob
  BY DEF ByExecutor
<1>1. ASSUME NEW t \in Threads, cur[t] = q
      PROVE  SwappedOut(q) = Out(t) /\ RunningJob(q) = Now(t)
  <2>1. \A s \in Threads : cur[s] = q => s = t
    BY <1>1 DEF IInv, OneCarer
  <2>2. pc[t] \notin {"run", "busy"} => batch[t] = <<>>
    BY DEF IInv, Shape
  <2>3. CASE pc[t] = "busy"
    <3>1. Runs(t, q) /\ \A s \in Threads : Runs(s, q) => s = t
      BY <1>1, <2>1, <2>3 DEF Runs
    <3>2. (CHOOSE u \in Threads : Runs(u, q)) = t
      BY <3>1
    <3>3. (CHOOSE u \in Threads : cur[u] = q /\ pc[u] = "busy") = t
      BY <1>1, <2>1, <2>3
    <3>4. QED BY <1>1, <2>3, <3>1, <3>2, <3>3 DEF SwappedOut, RunningJob, Out, Now
  <2>4. CASE pc[t] = "run"
    <3>1. Runs(t, q) /\ \A s \in Threads : Runs(s, q) => s = t
      BY <1>1, <2>1, <2>4 DEF Runs
    <3>2. (CHOOSE u \in Threads : Runs(u, q)) = t
      BY <3>1
    <3>3. ~ \E s \in Threads : cur[s] = q /\ pc[s] = "busy"
      BY <2>1, <2>4
    <3>4. QED BY <2>4, <3>1, <3>2, <3>3 DEF SwappedOut, RunningJob, Out, Now
  <2>5. CASE pc[t] \notin {"run", "busy"}
    <3>1. ~ \E s \in Threads : Runs(s, q)
      BY <2>1, <2>5 DEF Runs
    <3>2. ~ \E s \in Threads : cur[s] = q /\ pc[s] = "busy"
      BY <2>1, <2>5
    <3>3. QED BY <2>2, <2>5, <3>1, <3>2 DEF SwappedOut, RunningJob, Out, Now
  <2>6. QED BY <2>3, <2>4, <2>5
<1>2. ASSUME \A t \in Threads : cur[t] # q
      PROVE  SwappedOut(q) = <<>> /\ RunningJob(q) = NoJob
  BY <1>2 DEF SwappedOut, RunningJob, Runs
<1>3. QED BY <1>1, <1>2

(* The same of the next state.                                              *)
LEMMA ExecutorOfQueueNext == IInv' => ByExecutor'
BY ExecutorOfQueue, PTL

(* Threads come to a queue and leave it without jobs: while each of them    *)
(* keeps what it has, the queue does.                                       *)
LEMMA KeepsJobs ==
  ASSUME ByExecutor, ByExecutor', OneCarer, NEW q \in Queues,
         \A t \in Threads : cur[t] = q =>
           \/ cur'[t] = q /\ Out(t)' = Out(t) /\ Now(t)' = Now(t)
           \/ Out(t) = <<>> /\ Now(t) = NoJob,
         \A t \in Threads : cur'[t] = q =>
           \/ cur[t] = q /\ Out(t)' = Out(t) /\ Now(t)' = Now(t)
           \/ Out(t)' = <<>> /\ Now(t)' = NoJob
  PROVE  SwappedOut(q)' = SwappedOut(q) /\ RunningJob(q)' = RunningJob(q)
<1>1. ASSUME NEW t \in Threads, cur[t] = q
      PROVE  SwappedOut(q)' = SwappedOut(q) /\ RunningJob(q)' = RunningJob(q)
  <2>1. SwappedOut(q) = Out(t) /\ RunningJob(q) = Now(t)
    BY <1>1 DEF ByExecutor
  <2>2. \A s \in Threads : cur[s] = q => s = t
    BY <1>1 DEF OneCarer
  <2>3. ASSUME NEW s \in Threads, cur'[s] = q
        PROVE  Out(s)' = Out(t) /\ Now(s)' = Now(t)
    <3>1. cur'[t] = q => Out(s)' = Out(t)' /\ Now(s)' = Now(t)'
      BY <2>3 DEF ByExecutor
    <3>2. QED BY <1>1, <2>2, <2>3, <3>1
  <2>4. QED BY <1>1, <2>1, <2>3 DEF ByExecutor
<1>2. ASSUME \A t \in Threads : cur[t] # q
      PROVE  SwappedOut(q)' = SwappedOut(q) /\ RunningJob(q)' = RunningJob(q)
  BY <1>2 DEF ByExecutor
<1>3. QED BY <1>1, <1>2

(* Enqueue accepts the job it appends, and nothing else accepts.            *)
LEMMA EnqueueAccepts ==
  ASSUME TypeOK, Shape, JobsOnce, NEW t \in Threads, Enqueue(t)
  PROVE  pj[t] \in NotAccepted /\ pj[t] \in Jobs /\ NotAccepted' = NotAccepted \ {pj[t]}
<1> DEFINE U == {u \in Threads : push[u] = "enqueue"}
<1>1. pj[t] # NoJob /\ pj[t] \in Jobs
  BY DEF TypeOK, Shape, Enqueue
<1>2. pj[t] \in NotAccepted
  BY DEF Enqueue, NotAccepted
<1>3. U' = U \ {t} /\ t \in U
  BY DEF Enqueue, TypeOK
<1>4. \A u \in U : u # t => pj'[u] = pj[u] /\ pj[u] # pj[t]
  BY DEF Enqueue, TypeOK, JobsOnce
<1>5. pj[t] \notin unused /\ unused' = unused
  BY DEF Enqueue, JobsOnce
<1>6. {pj'[u] : u \in U'} = {pj[u] : u \in U} \ {pj[t]}
  BY <1>3, <1>4
<1>7. NotAccepted' = NotAccepted \ {pj[t]}
  BY <1>5, <1>6 DEF NotAccepted
<1>8. QED BY <1>1, <1>2, <1>7

LEMMA CountJobAcceptsNone ==
  ASSUME TypeOK, NEW t \in Threads, NEW q \in Queues, NEW j \in Jobs, CountJob(t, q, j)
  PROVE  NotAccepted' = NotAccepted
<1> DEFINE U == {u \in Threads : push[u] = "enqueue"}
<1>1. U' = U \cup {t} /\ t \notin U
  BY DEF CountJob, TypeOK
<1>2. \A u \in U : pj'[u] = pj[u]
  BY <1>1 DEF CountJob, TypeOK
<1>3. pj'[t] = j /\ j \in unused /\ unused' = unused \ {j}
  BY DEF CountJob, TypeOK
<1>4. {pj'[u] : u \in U'} = {pj[u] : u \in U} \cup {j}
  BY <1>1, <1>2, <1>3
<1>5. QED BY <1>3, <1>4 DEF NotAccepted

LEMMA OthersAcceptNone ==
  ASSUME TypeOK, unused' = unused,
         \/ UNCHANGED <<push, pj>>
         \/ \E t \in Threads : Forward(t)
  PROVE  NotAccepted' = NotAccepted
<1> DEFINE U == {u \in Threads : push[u] = "enqueue"}
<1>1. U' = U /\ pj' = pj
  BY DEF Forward, TypeOK
<1>2. QED BY <1>1 DEF NotAccepted

LEMMA InitSerial == Init => Serial!Init
<1> SUFFICES ASSUME Init PROVE Serial!Init OBVIOUS
<1>1. NotAccepted = Jobs
  <2>1. {u \in Threads : push[u] = "enqueue"} = {}
    BY DEF Init
  <2>2. QED BY <2>1 DEF Init, NotAccepted
<1>2. ASSUME NEW q \in Queues
      PROVE  SwappedOut(q) \o jobs[q] = <<>> /\ RunningJob(q) = NoJob
  <2>1. \A t \in Threads : pc[t] = "idle"
    BY DEF Init
  <2>2. SwappedOut(q) = <<>> /\ RunningJob(q) = NoJob
    BY <2>1 DEF SwappedOut, RunningJob, Runs
  <2>3. jobs[q] = <<>>
    BY DEF Init
  <2>4. <<>> \o <<>> = <<>>
    OBVIOUS
  <2>5. QED BY <2>2, <2>3, <2>4
<1>3. QED BY <1>1, <1>2 DEF Serial!Init

(* What a step leaves as it is when it changes neither what a queue holds   *)
(* nor what is accepted.                                                    *)
Steady(q) == SwappedOut(q)' = SwappedOut(q) /\ RunningJob(q)' = RunningJob(q)

LEMMA SteadyStutters ==
  ASSUME \A q \in Queues : Steady(q) /\ jobs'[q] = jobs[q],
         NotAccepted' = NotAccepted
  PROVE  UNCHANGED Serial!vars
<1>1. \A q \in Queues : SwappedOut(q)' \o jobs'[q] = SwappedOut(q) \o jobs[q]
  BY DEF Steady
<1>2. \A q \in Queues : RunningJob(q)' = RunningJob(q)
  BY DEF Steady
<1>3. QED BY <1>1, <1>2 DEF Serial!vars

(* The steps between which no thread gains, loses or finishes a job.        *)
LEMMA CareSteady ==
  ASSUME IInv, IInv', NEW t \in Threads,
         Enqueue(t) \/ Forward(t) \/ Take(t) \/ Settle(t) \/ HandOver(t)
           \/ (\E q \in Queues, j \in Jobs : CountJob(t, q, j)),
         NEW q \in Queues
  PROVE  Steady(q)
<1>1. ByExecutor /\ ByExecutor' /\ OneCarer
  BY ExecutorOfQueue, ExecutorOfQueueNext DEF IInv
<1>2. \A s \in Threads : s # t => cur'[s] = cur[s] /\ pc'[s] = pc[s]
  BY DEF Enqueue, Forward, Take, Settle, HandOver, CountJob, execVars, IInv, TypeOK
<1>3. batch' = batch
  BY DEF Enqueue, Forward, Take, Settle, HandOver, CountJob, execVars
<1>4. \/ cur'[t] = cur[t] /\ (pc'[t] = "busy" <=> pc[t] = "busy")
      \/ /\ pc[t] # "busy" /\ pc'[t] # "busy" /\ batch[t] = <<>>
  BY DEF Enqueue, Forward, Take, Settle, HandOver, CountJob, execVars, IInv, TypeOK, Shape
<1>5. \A s \in Threads : s # t => Out(s)' = Out(s) /\ Now(s)' = Now(s)
  BY <1>2, <1>3 DEF Out, Now
<1>6. \/ cur'[t] = cur[t] /\ Out(t)' = Out(t) /\ Now(t)' = Now(t)
      \/ Out(t) = <<>> /\ Now(t) = NoJob /\ Out(t)' = <<>> /\ Now(t)' = NoJob
  BY <1>3, <1>4 DEF Out, Now
<1>7. QED BY <1>1, <1>2, <1>5, <1>6, KeepsJobs DEF Steady

(* A queue another thread runs, or nobody, is left alone by the steps of t. *)
LEMMA OtherQueueSteady ==
  ASSUME IInv, IInv', NEW t \in Threads, NEW q \in Queues, cur[t] # q, cur' = cur,
         \A s \in Threads : s # t => pc'[s] = pc[s] /\ batch'[s] = batch[s]
  PROVE  Steady(q)
<1>1. ByExecutor /\ ByExecutor' /\ OneCarer
  BY ExecutorOfQueue, ExecutorOfQueueNext DEF IInv
<1>2. \A s \in Threads : s # t => Out(s)' = Out(s) /\ Now(s)' = Now(s)
  BY DEF Out, Now
<1>3. QED BY <1>1, <1>2, KeepsJobs DEF Steady

LEMMA EnqueueSerial ==
  ASSUME IInv, IInv', JobsOnce, NEW t \in Threads, Enqueue(t)
  PROVE  Serial!Next
<1>0. PICK p \in Queues, j \in Jobs : p = pq[t] /\ j = pj[t]
  BY DEF Enqueue, IInv, TypeOK, Shape
<1>1. jobs' = [jobs EXCEPT ![p] = Append(@, j)]
  BY <1>0 DEF Enqueue
<1>2. j \in NotAccepted /\ NotAccepted' = NotAccepted \ {j}
  BY <1>0, EnqueueAccepts DEF IInv
<1>3. \A q \in Queues : SwappedOut(q)' = SwappedOut(q) /\ RunningJob(q)' = RunningJob(q)
  BY CareSteady DEF Steady
<1>4. SwappedOut(p) \in Seq(Jobs) /\ jobs[p] \in Seq(Jobs)
  <2>1. \A s \in Threads : cur[s] = p => Out(s) \in Seq(Jobs)
    BY DEF IInv, TypeOK, Shape, Out
  <2>2. <<>> \in Seq(Jobs)
    OBVIOUS
  <2>3. SwappedOut(p) \in Seq(Jobs)
    BY <1>1, <2>1, <2>2, ExecutorOfQueue DEF ByExecutor
  <2>4. QED BY <1>1, <2>3 DEF IInv, TypeOK
<1>5. SwappedOut(p) \o Append(jobs[p], j) = Append(SwappedOut(p) \o jobs[p], j)
  <2>1. ASSUME NEW a \in Seq(Jobs), NEW b \in Seq(Jobs), NEW x \in Jobs
        PROVE  a \o Append(b, x) = Append(a \o b, x)
    OBVIOUS
  <2>2. QED BY <1>1, <1>4, <2>1
<1>6. [q \in Queues |-> SwappedOut(q)' \o jobs'[q]]
        = [[q \in Queues |-> SwappedOut(q) \o jobs[q]] EXCEPT ![p] = Append(@, j)]
  <2>1. jobs \in [Queues -> Seq(Jobs)]
    BY DEF IInv, TypeOK
  <2>2. jobs'[p] = Append(jobs[p], j) /\ \A q \in Queues : q # p => jobs'[q] = jobs[q]
    BY <1>1, <2>1
  <2>3. \A q \in Queues : q # p => SwappedOut(q)' \o jobs'[q] = SwappedOut(q) \o jobs[q]
    BY <1>3, <2>2
  <2>4. SwappedOut(p)' \o jobs'[p] = Append(SwappedOut(p) \o jobs[p], j)
    BY <1>1, <1>3, <1>5, <2>2
  <2>5. QED BY <1>1, <2>3, <2>4
<1>7. [q \in Queues |-> RunningJob(q)'] = [q \in Queues |-> RunningJob(q)]
  BY <1>3
<1>8. Jobs \ NotAccepted' = (Jobs \ NotAccepted) \cup {j} /\ j \notin Jobs \ NotAccepted
  BY <1>1, <1>2
<1>9. Serial!Accept(p, j)
  BY <1>6, <1>7, <1>8 DEF Serial!Accept
<1>10. QED BY <1>1, <1>9 DEF Serial!Next

(* Swap moves the waiting jobs from the queue to its executor, in order.    *)
LEMMA SwapSerial ==
  ASSUME IInv, IInv', NEW t \in Threads, Swap(t)
  PROVE  UNCHANGED Serial!vars
<1>0. PICK p \in Queues : p = cur[t]
  BY DEF Swap, IInv, TypeOK, Shape
<1>1. ByExecutor /\ ByExecutor'
  BY ExecutorOfQueue, ExecutorOfQueueNext DEF IInv
<1>2. jobs \in [Queues -> Seq(Jobs)] /\ batch \in [Threads -> Seq(Jobs)]
  BY DEF IInv, TypeOK
<1>3. /\ jobs' = [jobs EXCEPT ![p] = <<>>] /\ batch' = [batch EXCEPT ![t] = jobs[p]]
      /\ pc[t] = "swap" /\ pc' = [pc EXCEPT ![t] = "run"] /\ cur' = cur
  BY <1>0 DEF Swap
<1>4. batch[t] = <<>>
  BY <1>3 DEF IInv, Shape
<1>5. SwappedOut(p) = <<>> /\ RunningJob(p) = NoJob
  BY <1>0, <1>1, <1>3, <1>4 DEF ByExecutor, Out, Now
<1>6. pc'[t] = "run" /\ batch'[t] = jobs[p] /\ cur'[t] = p
  BY <1>0, <1>2, <1>3 DEF IInv, TypeOK
<1>7. SwappedOut(p)' = jobs[p] /\ RunningJob(p)' = NoJob
  BY <1>1, <1>6 DEF ByExecutor, Out, Now
<1>8. jobs'[p] = <<>> /\ \A q \in Queues : q # p => jobs'[q] = jobs[q]
  BY <1>2, <1>3
<1>9. \A s \in Threads : s # t => pc'[s] = pc[s] /\ batch'[s] = batch[s]
  BY <1>2, <1>3 DEF IInv, TypeOK
<1>10. \A q \in Queues : q # p => Steady(q)
  BY <1>0, <1>3, <1>9, OtherQueueSteady
<1>11. \A q \in Queues : SwappedOut(q)' \o jobs'[q] = SwappedOut(q) \o jobs[q]
  <2>1. jobs[p] \o <<>> = <<>> \o jobs[p]
    BY <1>2, ConcatEmptySeq
  <2>2. SwappedOut(p)' \o jobs'[p] = SwappedOut(p) \o jobs[p]
    BY <1>5, <1>7, <1>8, <2>1
  <2>3. QED BY <1>8, <1>10, <2>2 DEF Steady
<1>12. \A q \in Queues : RunningJob(q)' = RunningJob(q)
  BY <1>5, <1>7, <1>10 DEF Steady
<1>13. NotAccepted' = NotAccepted
  BY OthersAcceptNone DEF Swap, pushVars, IInv
<1>14. QED BY <1>11, <1>12, <1>13 DEF Serial!vars

(* The body of a job is called: it is the oldest of its queue.              *)
LEMMA StartJobSerial ==
  ASSUME IInv, IInv', NEW t \in Threads, StartJob(t)
  PROVE  Serial!Next
<1>0. PICK p \in Queues : p = cur[t]
  BY DEF StartJob, IInv, TypeOK, Shape
<1>1. ByExecutor /\ ByExecutor'
  BY ExecutorOfQueue, ExecutorOfQueueNext DEF IInv
<1>2. PICK b \in Seq(Jobs) : b = batch[t]
  BY DEF IInv, TypeOK
<1>3. /\ pc[t] = "run" /\ b # <<>> /\ pc' = [pc EXCEPT ![t] = "busy"]
      /\ cur' = cur /\ batch' = batch /\ jobs' = jobs
  BY <1>2 DEF StartJob
<1>4. SwappedOut(p) = b /\ RunningJob(p) = NoJob
  BY <1>0, <1>1, <1>2, <1>3 DEF ByExecutor, Out, Now
<1>5. pc'[t] = "busy" /\ batch'[t] = b /\ cur'[t] = p
  BY <1>0, <1>2, <1>3 DEF IInv, TypeOK
<1>6. SwappedOut(p)' = Tail(b) /\ RunningJob(p)' = Head(b)
  BY <1>1, <1>5 DEF ByExecutor, Out, Now
<1>7. \A q \in Queues : q # p => Steady(q)
  <2>1. \A s \in Threads : s # t => pc'[s] = pc[s] /\ batch'[s] = batch[s]
    BY <1>3 DEF IInv, TypeOK
  <2>2. QED BY <1>0, <1>3, <2>1, OtherQueueSteady
<1>8. PICK r \in Seq(Jobs) : r = jobs[p]
  BY DEF IInv, TypeOK
<1>9. b \o r # <<>> /\ Head(b \o r) = Head(b) /\ Tail(b \o r) = Tail(b) \o r
  BY <1>3
<1>10. [q \in Queues |-> SwappedOut(q)' \o jobs'[q]]
         = [[q \in Queues |-> SwappedOut(q) \o jobs[q]] EXCEPT ![p] = Tail(@)]
  <2>1. SwappedOut(p)' \o jobs'[p] = Tail(SwappedOut(p) \o jobs[p])
    BY <1>3, <1>4, <1>6, <1>8, <1>9
  <2>2. \A q \in Queues : q # p => SwappedOut(q)' \o jobs'[q] = SwappedOut(q) \o jobs[q]
    BY <1>3, <1>7 DEF Steady
  <2>3. QED BY <2>1, <2>2
<1>11. [q \in Queues |-> RunningJob(q)']
         = [[q \in Queues |-> RunningJob(q)] EXCEPT
              ![p] = Head([q \in Queues |-> SwappedOut(q) \o jobs[q]][p])]
  <2>1. RunningJob(p)' = Head(SwappedOut(p) \o jobs[p])
    BY <1>4, <1>6, <1>8, <1>9
  <2>2. \A q \in Queues : q # p => RunningJob(q)' = RunningJob(q)
    BY <1>7 DEF Steady
  <2>3. QED BY <2>1, <2>2
<1>12. NotAccepted' = NotAccepted
  BY OthersAcceptNone DEF StartJob, pushVars, IInv
<1>13. Serial!Begin(p)
  <2>1. RunningJob(p) = NoJob /\ SwappedOut(p) \o jobs[p] # <<>>
    BY <1>4, <1>8, <1>9
  <2>2. QED BY <1>10, <1>11, <1>12, <2>1 DEF Serial!Begin
<1>14. QED BY <1>13 DEF Serial!Next

(* It returns.                                                              *)
LEMMA FinishJobSerial ==
  ASSUME IInv, IInv', NEW t \in Threads, FinishJob(t)
  PROVE  Serial!Next
<1>0. PICK p \in Queues : p = cur[t]
  BY DEF FinishJob, IInv, TypeOK, Shape
<1>1. ByExecutor /\ ByExecutor'
  BY ExecutorOfQueue, ExecutorOfQueueNext DEF IInv
<1>2. PICK b \in Seq(Jobs) : b = batch[t] /\ b # <<>>
  BY DEF FinishJob, IInv, TypeOK, Shape
<1>3. /\ pc[t] = "busy" /\ pc' = [pc EXCEPT ![t] = "run"] /\ cur' = cur
      /\ batch' = [batch EXCEPT ![t] = Tail(b)] /\ jobs' = jobs
  BY <1>2 DEF FinishJob
<1>4. SwappedOut(p) = Tail(b) /\ RunningJob(p) = Head(b)
  BY <1>0, <1>1, <1>2, <1>3 DEF ByExecutor, Out, Now
<1>5. pc'[t] = "run" /\ batch'[t] = Tail(b) /\ cur'[t] = p
  BY <1>0, <1>3 DEF IInv, TypeOK
<1>6. SwappedOut(p)' = Tail(b) /\ RunningJob(p)' = NoJob
  BY <1>1, <1>5 DEF ByExecutor, Out, Now
<1>7. \A q \in Queues : q # p => Steady(q)
  <2>1. \A s \in Threads : s # t => pc'[s] = pc[s] /\ batch'[s] = batch[s]
    BY <1>3 DEF IInv, TypeOK
  <2>2. QED BY <1>0, <1>3, <2>1, OtherQueueSteady
<1>8. Head(b) \in Jobs /\ Head(b) # NoJob
  BY <1>2, NoneAssumption
<1>9. [q \in Queues |-> SwappedOut(q)' \o jobs'[q]] = [q \in Queues |-> SwappedOut(q) \o jobs[q]]
  <2>1. \A q \in Queues : SwappedOut(q)' = SwappedOut(q)
    BY <1>4, <1>6, <1>7 DEF Steady
  <2>2. QED BY <1>3, <2>1
<1>10. [q \in Queues |-> RunningJob(q)'] = [[q \in Queues |-> RunningJob(q)] EXCEPT ![p] = NoJob]
  BY <1>6, <1>7 DEF Steady
<1>11. NotAccepted' = NotAccepted
  BY OthersAcceptNone DEF FinishJob, pushVars, IInv
<1>12. RunningJob(p) # NoJob
  BY <1>4, <1>8
<1>13. Serial!End(p)
  BY <1>9, <1>10, <1>11, <1>12 DEF Serial!End
<1>14. QED BY <1>13 DEF Serial!Next

(* Each step of the queues is one of the serial executors, or none.         *)
LEMMA StepSerial ==
  ASSUME IInv, IInv', JobsOnce, [Next]_vars
  PROVE  [Serial!Next]_(Serial!vars)
<1>1. ASSUME NEW t \in Threads, Forward(t) \/ Settle(t) \/ HandOver(t) \/ Take(t)
      PROVE  UNCHANGED Serial!vars
  <2>1. \A q \in Queues : Steady(q)
    BY <1>1, CareSteady
  <2>2. jobs' = jobs /\ NotAccepted' = NotAccepted
    BY <1>1, OthersAcceptNone DEF Forward, Settle, HandOver, Take, pushVars, IInv
  <2>3. QED BY <2>1, <2>2, SteadyStutters
<1>2. ASSUME NEW t \in Threads, NEW q \in Queues, NEW j \in Jobs, CountJob(t, q, j)
      PROVE  UNCHANGED Serial!vars
  <2>1. \A r \in Queues : Steady(r)
    BY <1>2, CareSteady
  <2>2. jobs' = jobs /\ NotAccepted' = NotAccepted
    BY <1>2, CountJobAcceptsNone DEF CountJob, IInv
  <2>3. QED BY <2>1, <2>2, SteadyStutters
<1>3. CASE UNCHANGED vars
  <2>1. \A q \in Queues : Steady(q)
    BY <1>3 DEF vars, execVars, Steady, SwappedOut, RunningJob, Runs
  <2>2. jobs' = jobs /\ NotAccepted' = NotAccepted
    BY <1>3, OthersAcceptNone DEF vars, pushVars, IInv
  <2>3. QED BY <2>1, <2>2, SteadyStutters
<1>4. ASSUME NEW t \in Threads, Continue(t) PROVE [Serial!Next]_(Serial!vars)
  BY <1>1, <1>4, EnqueueSerial, SwapSerial, StartJobSerial, FinishJobSerial DEF Continue
<1>5. ASSUME NEW t \in Workers, Take(t) PROVE UNCHANGED Serial!vars
  BY <1>1, <1>5 DEF Threads
<1>6. QED BY <1>2, <1>3, <1>4, <1>5 DEF Next, Idle

(* A JobQueue is a serial executor: whatever threads push and run them, and *)
(* however queues are forwarded and handed over, its jobs run one at a      *)
(* time, each once and in the order in which they entered m_jobs.           *)
THEOREM ImplementsSerial == Spec => Serial!Spec
<1>1. Init => JobsOnce
  BY DEF Init, JobsOnce
<1>2. IInv => TypeOK
  BY DEF IInv
<1>3. QED
  BY <1>1, <1>2, InitSerial, NextJobsOnce, StepSerial, Invariance, PTL DEF Spec, Serial!Spec

-----------------------------------------------------------------------------
(* The timer in front of the queues.                                      *)
(* What PopDue makes of the items that are ready is a sequence of them.     *)
LEMMA ReadySeq ==
  ASSUME NEW S \in SUBSET Items, IsFiniteSet(S), NEW s \in SetToSeqs(S)
  PROVE  s \in Seq(Items)
<1>1. Cardinality(S) \in Nat
  BY FS_CardinalityType
<1>2. s \in [1 .. Cardinality(S) -> S]
  BY DEF SetToSeqs
<1>3. QED BY <1>1, <1>2

LEMMA InitTimer == TimerInit => TimerTypeOK /\ OneDistributor
<1> SUFFICES ASSUME TimerInit PROVE TimerTypeOK /\ OneDistributor
  OBVIOUS
<1>1. TimerTypeOK
  <2>1. IsFiniteSet(items) /\ items \subseteq Items
    BY FS_EmptySet DEF TimerInit
  <2>2. 0 \in 0 .. MaxTick
    BY TimerAssumption
  <2>3. due \in [Threads -> Seq(Items)]
    BY DEF TimerInit
  <2>4. QED BY <2>1, <2>2, <2>3 DEF TimerInit, TimerTypeOK
<1>2. OneDistributor
  BY DEF TimerInit, OneDistributor, Distributes
<1>3. QED BY <1>1, <1>2

(* The steps of Distribute, each on its own.                                *)
LEMMA ExchangeInv ==
  ASSUME TimerTypeOK, OneDistributor, NEW t \in Workers, Exchange(t)
  PROVE  TimerTypeOK' /\ OneDistributor'
<1>1. TimerTypeOK'
  BY DEF TimerTypeOK, Exchange, Threads
<1>2. OneDistributor'
  BY DEF TimerTypeOK, OneDistributor, Distributes, Exchange, Threads
<1>3. QED BY <1>1, <1>2

LEMMA PopDueInv ==
  ASSUME TimerTypeOK, OneDistributor, NEW t \in Workers, PopDue(t)
  PROVE  TimerTypeOK' /\ OneDistributor'
<1> DEFINE ready == {i \in items : i.tick <= stamp[t]}
<1>1. IsFiniteSet(ready) /\ ready \in SUBSET Items
  BY FS_Subset DEF TimerTypeOK, Items
<1>2. PICK s \in SetToSeqs(ready) : due' = [due EXCEPT ![t] = s] /\ items' = items \ ready
  BY DEF PopDue
<1>3. s \in Seq(Items)
  BY <1>1, ReadySeq
<1>4. IsFiniteSet(items')
  BY <1>2, FS_Subset DEF TimerTypeOK
<1>5. due' \in [Threads -> Seq(Items)]
  BY <1>2, <1>3 DEF TimerTypeOK
<1>6. TimerTypeOK'
  BY <1>2, <1>4, <1>5 DEF TimerTypeOK, PopDue, Threads
<1>7. OneDistributor'
  BY DEF TimerTypeOK, OneDistributor, Distributes, PopDue, Threads
<1>8. QED BY <1>6, <1>7

LEMMA PushDueInv ==
  ASSUME TimerTypeOK, OneDistributor, NEW t \in Workers, PushDue(t)
  PROVE  TimerTypeOK' /\ OneDistributor'
<1>1. Tail(due[t]) \in Seq(Items)
  BY DEF TimerTypeOK, PushDue, Threads
<1>2. TimerTypeOK'
  BY <1>1 DEF TimerTypeOK, PushDue, Threads
<1>3. OneDistributor'
  BY DEF OneDistributor, Distributes, PushDue
<1>4. QED BY <1>2, <1>3

LEMMA EndDistributeInv ==
  ASSUME TimerTypeOK, OneDistributor, NEW t \in Workers, EndDistribute(t)
  PROVE  TimerTypeOK' /\ OneDistributor'
<1>1. TimerTypeOK'
  BY DEF TimerTypeOK, EndDistribute, Threads
<1>2. OneDistributor'
  BY DEF TimerTypeOK, OneDistributor, Distributes, EndDistribute, Threads
<1>3. QED BY <1>1, <1>2

(* The item that PushDue pushes has a queue and a job.                      *)
LEMMA PushedItem ==
  ASSUME TimerTypeOK, NEW t \in Workers, PushDue(t)
  PROVE  Head(due[t]).queue \in Queues /\ Head(due[t]).job \in Jobs
<1>1. Head(due[t]) \in Items
  BY DEF TimerTypeOK, PushDue, Threads
<1>2. QED BY <1>1, TimerAssumption DEF Items

(* Every step keeps type and exclusion ...                                  *)
LEMMA TimerInductive ==
  TimerTypeOK /\ OneDistributor /\ [TimerNext]_<<vars, timerVars>>
    => TimerTypeOK' /\ OneDistributor'
<1> SUFFICES ASSUME TimerTypeOK, OneDistributor, [TimerNext]_<<vars, timerVars>>
             PROVE  TimerTypeOK' /\ OneDistributor'
  OBVIOUS
<1>1. CASE UNCHANGED timerVars
  BY <1>1 DEF TimerTypeOK, OneDistributor, Distributes, timerVars
<1>2. ASSUME NEW t \in Workers, Look(t) PROVE TimerTypeOK' /\ OneDistributor'
  <2>1. TimerTypeOK'
    BY <1>2 DEF TimerTypeOK, Look, Threads
  <2>2. OneDistributor'
    BY <1>2 DEF TimerTypeOK, OneDistributor, Distributes, Look, Threads
  <2>3. QED BY <2>1, <2>2
<1>3. ASSUME NEW t \in Workers, Distribute(t) PROVE TimerTypeOK' /\ OneDistributor'
  BY <1>3, ExchangeInv, PopDueInv, PushDueInv, EndDistributeInv DEF Distribute
<1>4. ASSUME NEW t \in Threads, NEW q \in Queues, NEW j \in Reserved, NEW after \in Delays,
             Reserve(t, q, j, after)
      PROVE  TimerTypeOK' /\ OneDistributor'
  <2>1. [tick |-> now + after, queue |-> q, job |-> j] \in Items
    BY TimerAssumption DEF TimerTypeOK, Items
  <2>2. IsFiniteSet(items')
    BY <1>4, FS_AddElement DEF TimerTypeOK, Reserve
  <2>3. TimerTypeOK'
    BY <1>4, <2>1, <2>2 DEF TimerTypeOK, Reserve, distVars
  <2>4. OneDistributor'
    BY <1>4 DEF OneDistributor, Distributes, Reserve, distVars
  <2>5. QED BY <2>3, <2>4
<1>5. CASE Elapse
  <2>1. now' \in 0 .. MaxTick
    BY <1>5, TimerAssumption DEF TimerTypeOK, Elapse
  <2>2. TimerTypeOK'
    BY <1>5, <2>1 DEF TimerTypeOK, Elapse, distVars
  <2>3. OneDistributor'
    BY <1>5 DEF OneDistributor, Distributes, Elapse, distVars
  <2>4. QED BY <2>2, <2>3
<1>6. QED
  BY <1>1, <1>2, <1>3, <1>4, <1>5
  DEF TimerNext, QueueContinues, DirectPush, TakeGlobal, timerVars

(* ... and is a step of JobQueue or leaves it alone.                        *)
LEMMA TimerStep ==
  TimerTypeOK /\ [TimerNext]_<<vars, timerVars>> => [Next]_vars
<1> SUFFICES ASSUME TimerTypeOK, [TimerNext]_<<vars, timerVars>> PROVE [Next]_vars
  OBVIOUS
<1>1. CASE UNCHANGED vars
  BY <1>1
<1>2. CASE \E t \in Threads : QueueContinues(t)
  BY <1>2 DEF QueueContinues, Next
<1>3. CASE \E t \in Threads, q \in Queues, j \in Jobs : DirectPush(t, q, j)
  BY <1>3 DEF DirectPush, Next
<1>4. CASE \E t \in Workers : TakeGlobal(t)
  BY <1>4 DEF TakeGlobal, Next
<1>5. ASSUME NEW t \in Workers, PushDue(t) PROVE [Next]_vars
  BY <1>5, PushedItem DEF PushDue, Next, Threads
<1>6. QED
  BY <1>1, <1>2, <1>3, <1>4, <1>5
  DEF TimerNext, Look, Distribute, Exchange, PopDue, EndDistribute, Reserve, Elapse

-----------------------------------------------------------------------------
(* Type correctness: every variable of the timer keeps its type.            *)
THEOREM TimerTypeCorrect == TimerSpec => [](TimerTypeOK /\ OneDistributor)
<1>1. TimerInit => TimerTypeOK /\ OneDistributor
  BY InitTimer
<1>2. QED BY <1>1, TimerInductive, PTL DEF TimerSpec

(* Distribute: never two threads between the exchange of m_bDistributing    *)
(* and its reset.                                                           *)
THEOREM DistributesAlone == TimerSpec => []OneDistributor
BY TimerTypeCorrect, PTL

(* Every behaviour with the timer is one of JobQueue: reserving and         *)
(* distributing jobs adds nothing but calls of Push.                        *)
THEOREM TimerImplementsQueue == TimerSpec => Spec
<1>1. TimerInit => Init
  BY DEF TimerInit
<1>2. QED BY <1>1, TimerTypeCorrect, TimerStep, PTL DEF TimerSpec, Spec

(* Thus two threads never run jobs of one queue, with timers or without.    *)
THEOREM TimerMutualExclusion == TimerSpec => []OneExecutor
BY TimerImplementsQueue, MutualExclusion

(* And no job that was pushed is left without somebody to run it.           *)
THEOREM TimerNothingStranded == TimerSpec => []NoStrandedJob
BY TimerImplementsQueue, NothingStranded

(* With timers too a queue is a serial executor: a job that comes due is    *)
(* run once, after those accepted before it.                                *)
THEOREM TimerImplementsSerial == TimerSpec => Serial!Spec
BY TimerImplementsQueue, ImplementsSerial
=============================================================================
