------------------------------ MODULE JobQueue ------------------------------
(***************************************************************************)
(* jh::JobQueue, jh::GlobalQueue and ThreadExecutor::DoGlobalQueueWork.    *)
(* A thread that pushes the first job of a queue runs the queue at once,   *)
(* unless it is running one already: then the queue goes to the global     *)
(* queue, from which workers take queues between two completions.  No lock *)
(* is held while a queue runs; the counter m_jobCount decides who runs it. *)
(*                                                                         *)
(* Push is always called without pushOnly, and ClearJobs never.            *)
(***************************************************************************)
EXTENDS Integers, Sequences, FiniteSets

CONSTANTS
  Workers,        (* threads whose loop ends with DoGlobalQueueWork         *)
  Others,         (* other threads that push jobs (acceptor, another server)*)
  Queues, Jobs,   (* job queues, and the jobs that get pushed, each once    *)
  NoQueue, NoJob

Threads == Workers \cup Others

ASSUME ThreadsFinite == IsFiniteSet(Threads)
ASSUME NoneAssumption == NoQueue \notin Queues /\ NoJob \notin Jobs

VARIABLES
  jobCount,  (* JobQueue::m_jobCount                                        *)
  jobs,      (* JobQueue::m_jobs                                            *)
  global,    (* GlobalQueue::m_jobQueues                                    *)
  cur,       (* the queue a thread is in Execute of, or NoQueue             *)
  pc,        (* where in Execute; "busy" while a job's body runs            *)
  batch,     (* jobs the thread has swapped out and not finished            *)
  taken,     (* jobCount of Execute: size of that batch                     *)
  push,      (* where in Push                                               *)
  pq, pj,    (* its queue and its job                                       *)
  first,     (* prevCount was zero                                          *)
  unused     (* jobs no Push has been called with                           *)

execVars == <<cur, pc, batch, taken>>
pushVars == <<push, pq, pj, first>>
vars == <<jobCount, jobs, global, execVars, pushVars, unused>>

Init ==
  /\ jobCount = [q \in Queues |-> 0]
  /\ jobs = [q \in Queues |-> <<>>]
  /\ global = <<>>
  /\ cur   = [t \in Threads |-> NoQueue]
  /\ pc    = [t \in Threads |-> "idle"]
  /\ batch = [t \in Threads |-> <<>>]
  /\ taken = [t \in Threads |-> 0]
  /\ push  = [t \in Threads |-> "none"]
  /\ pq    = [t \in Threads |-> NoQueue]
  /\ pj    = [t \in Threads |-> NoJob]
  /\ first = [t \in Threads |-> FALSE]
  /\ unused = Jobs

(* Variant of CountJob: the first one is told by m_jobs being empty. *)
CountJobByQueue(t, q, j) ==
  /\ push[t] = "none" /\ pc[t] \in {"idle", "busy"}
  /\ j \in unused
  /\ jobCount' = [jobCount EXCEPT ![q] = @ + 1]
  /\ first' = [first EXCEPT ![t] = jobs[q] = <<>>]
  /\ push' = [push EXCEPT ![t] = "enqueue"]
  /\ pq' = [pq EXCEPT ![t] = q]
  /\ pj' = [pj EXCEPT ![t] = j]
  /\ unused' = unused \ {j}
  /\ UNCHANGED <<jobs, global, execVars>>

-----------------------------------------------------------------------------
(* Push: the counter first ...                                              *)
CountJob(t, q, j) ==
  /\ push[t] = "none" /\ pc[t] \in {"idle", "busy"}
  /\ j \in unused
  /\ jobCount' = [jobCount EXCEPT ![q] = @ + 1]
  /\ first' = [first EXCEPT ![t] = jobCount[q] = 0]
  /\ push' = [push EXCEPT ![t] = "enqueue"]
  /\ pq' = [pq EXCEPT ![t] = q]
  /\ pj' = [pj EXCEPT ![t] = j]
  /\ unused' = unused \ {j}
  /\ UNCHANGED <<jobs, global, execVars>>

(* ... then the job.  Whoever counted from zero runs the queue itself or    *)
(* forwards it, according to g_tlsCurrentJobQueue.                          *)
Enqueue(t) ==
  /\ push[t] = "enqueue"
  /\ jobs' = [jobs EXCEPT ![pq[t]] = Append(@, pj[t])]
  /\ pj' = [pj EXCEPT ![t] = NoJob]
  /\ \/ /\ ~first[t]
        /\ push' = [push EXCEPT ![t] = "none"]
        /\ pq' = [pq EXCEPT ![t] = NoQueue]
        /\ UNCHANGED <<cur, pc>>
     \/ /\ first[t] /\ pc[t] = "idle"
        /\ push' = [push EXCEPT ![t] = "none"]
        /\ pq' = [pq EXCEPT ![t] = NoQueue]
        /\ cur' = [cur EXCEPT ![t] = pq[t]]
        /\ pc' = [pc EXCEPT ![t] = "swap"]
     \/ /\ first[t] /\ pc[t] # "idle"
        /\ push' = [push EXCEPT ![t] = "forward"]
        /\ UNCHANGED <<pq, cur, pc>>
  /\ UNCHANGED <<jobCount, global, batch, taken, first, unused>>

Forward(t) ==
  /\ push[t] = "forward"
  /\ global' = Append(global, pq[t])
  /\ push' = [push EXCEPT ![t] = "none"]
  /\ pq' = [pq EXCEPT ![t] = NoQueue]
  /\ UNCHANGED <<jobCount, jobs, execVars, pj, first, unused>>

(* One round of DoGlobalQueueWork that finds a queue.                       *)
Take(t) ==
  /\ pc[t] = "idle" /\ push[t] = "none"
  /\ global # <<>>
  /\ global' = Tail(global)
  /\ cur' = [cur EXCEPT ![t] = Head(global)]
  /\ pc' = [pc EXCEPT ![t] = "swap"]
  /\ UNCHANGED <<jobCount, jobs, batch, taken, pushVars, unused>>

(* Execute: take all jobs there are ...                                     *)
Swap(t) ==
  /\ pc[t] = "swap"
  /\ batch' = [batch EXCEPT ![t] = jobs[cur[t]]]
  /\ taken' = [taken EXCEPT ![t] = Len(jobs[cur[t]])]
  /\ jobs' = [jobs EXCEPT ![cur[t]] = <<>>]
  /\ pc' = [pc EXCEPT ![t] = "run"]
  /\ UNCHANGED <<jobCount, global, cur, pushVars, unused>>

(* ... run them, each of which may push ...                                 *)
StartJob(t) ==
  /\ pc[t] = "run" /\ batch[t] # <<>>
  /\ pc' = [pc EXCEPT ![t] = "busy"]
  /\ UNCHANGED <<jobCount, jobs, global, cur, batch, taken, pushVars, unused>>

FinishJob(t) ==
  /\ pc[t] = "busy" /\ push[t] = "none"
  /\ batch' = [batch EXCEPT ![t] = Tail(@)]
  /\ pc' = [pc EXCEPT ![t] = "run"]
  /\ UNCHANGED <<jobCount, jobs, global, cur, taken, pushVars, unused>>

(* Variant of Settle: done when m_jobs is empty. *)
SettleByQueue(t) ==
  /\ pc[t] = "run" /\ batch[t] = <<>>
  /\ jobCount' = [jobCount EXCEPT ![cur[t]] = @ - taken[t]]
  /\ taken' = [taken EXCEPT ![t] = 0]
  /\ \/ /\ jobs[cur[t]] = <<>>
        /\ pc' = [pc EXCEPT ![t] = "idle"]
        /\ cur' = [cur EXCEPT ![t] = NoQueue]
     \/ /\ jobs[cur[t]] # <<>>
        /\ \E next \in {"swap", "handOver"} : pc' = [pc EXCEPT ![t] = next]
        /\ UNCHANGED cur
  /\ UNCHANGED <<jobs, global, batch, pushVars, unused>>

(* ... and count them out.  With jobs left the thread goes round again or,  *)
(* past g_tlsEndTickCount, gives the queue to the global queue.             *)
Settle(t) ==
  /\ pc[t] = "run" /\ batch[t] = <<>>
  /\ jobCount' = [jobCount EXCEPT ![cur[t]] = @ - taken[t]]
  /\ taken' = [taken EXCEPT ![t] = 0]
  /\ \/ /\ jobCount[cur[t]] = taken[t]
        /\ pc' = [pc EXCEPT ![t] = "idle"]
        /\ cur' = [cur EXCEPT ![t] = NoQueue]
     \/ /\ jobCount[cur[t]] # taken[t]
        /\ \E next \in {"swap", "handOver"} : pc' = [pc EXCEPT ![t] = next]
        /\ UNCHANGED cur
  /\ UNCHANGED <<jobs, global, batch, pushVars, unused>>

(* Variant of HandOver: the queue is not handed over. *)
HandOverDrops(t) ==
  /\ pc[t] = "handOver"
  /\ global' = global
  /\ pc' = [pc EXCEPT ![t] = "idle"]
  /\ cur' = [cur EXCEPT ![t] = NoQueue]
  /\ UNCHANGED <<jobCount, jobs, batch, taken, pushVars, unused>>

HandOver(t) ==
  /\ pc[t] = "handOver"
  /\ global' = Append(global, cur[t])
  /\ pc' = [pc EXCEPT ![t] = "idle"]
  /\ cur' = [cur EXCEPT ![t] = NoQueue]
  /\ UNCHANGED <<jobCount, jobs, batch, taken, pushVars, unused>>

(* A thread that runs nothing does other work, or waits.                    *)
Idle ==
  /\ \A t \in Threads : pc[t] = "idle" /\ push[t] = "none"
  /\ global = <<>>
  /\ UNCHANGED vars

Continue(t) ==
  \/ Enqueue(t) \/ Forward(t) \/ Swap(t) \/ StartJob(t) \/ FinishJob(t)
  \/ Settle(t) \/ HandOver(t)

Next ==
  \/ \E t \in Threads : Continue(t)
  \/ \E t \in Threads, q \in Queues, j \in Jobs : CountJob(t, q, j)
  \/ \E t \in Workers : Take(t)
  \/ Idle

Spec == Init /\ [][Next]_vars

(* Every thread goes on with what it has begun, jobs end, and among the     *)
(* workers there is always one that gets to DoGlobalQueueWork in time.      *)
Fairness ==
  /\ \A t \in Threads : WF_vars(Continue(t))
  /\ WF_vars(\E t \in Workers : Take(t))

FairSpec == Spec /\ Fairness

-----------------------------------------------------------------------------
TypeOK ==
  /\ jobCount \in [Queues -> Int]
  /\ jobs \in [Queues -> Seq(Jobs)]
  /\ global \in Seq(Queues)
  /\ cur \in [Threads -> Queues \cup {NoQueue}]
  /\ pc \in [Threads -> {"idle", "swap", "run", "busy", "handOver"}]
  /\ batch \in [Threads -> Seq(Jobs)]
  /\ taken \in [Threads -> Nat]
  /\ push \in [Threads -> {"none", "enqueue", "forward"}]
  /\ pq \in [Threads -> Queues \cup {NoQueue}]
  /\ pj \in [Threads -> Jobs \cup {NoJob}]
  /\ first \in [Threads -> BOOLEAN]
  /\ unused \subseteq Jobs

(* Local state of a thread that goes together.                              *)
Shape ==
  \A t \in Threads :
    /\ cur[t] = NoQueue <=> pc[t] = "idle"
    /\ pc[t] \notin {"run", "busy"} => batch[t] = <<>> /\ taken[t] = 0
    /\ pc[t] = "busy" => batch[t] # <<>>
    /\ Len(batch[t]) <= taken[t]
    /\ push[t] = "none" <=> pq[t] = NoQueue
    /\ push[t] = "enqueue" <=> pj[t] # NoJob
    /\ push[t] = "forward" => first[t]
    /\ push[t] # "none" => pc[t] \in {"idle", "busy"}

(* Thread t has counted the job of queue q from zero and not yet run or     *)
(* forwarded the queue.                                                     *)
Claims(t, q) == push[t] # "none" /\ pq[t] = q /\ first[t]

(* Who has to see to the jobs of q: it waits in the global queue, a thread  *)
(* has claimed it, or a thread runs it.                                     *)
Waits(q) == \E i \in 1 .. Len(global) : global[i] = q
Cared(q) == Waits(q) \/ \E t \in Threads : Claims(t, q) \/ cur[t] = q

(* Of all these there is one at most.                                       *)
OneCarer ==
  /\ \A q \in Queues, s, t \in Threads :
       /\ cur[s] = q /\ cur[t] = q => s = t
       /\ Claims(s, q) /\ Claims(t, q) => s = t
       /\ ~(Claims(s, q) /\ cur[t] = q)
       /\ Waits(q) => ~Claims(t, q) /\ cur[t] # q
  /\ \A i, k \in 1 .. Len(global) : global[i] = global[k] => i = k

(* Two threads never run jobs of the same queue at once: Room and User      *)
(* keep their state without locks on the strength of this.                  *)
OneExecutor ==
  \A s, t \in Threads : pc[s] = "busy" /\ pc[t] = "busy" /\ cur[s] = cur[t] => s = t

(* A job that waits, or is about to, has somebody to run it: the counter is *)
(* above zero exactly while somebody cares for the queue.                   *)
NoStrandedJob ==
  \A q \in Queues :
    /\ jobCount[q] > 0 <=> Cared(q)
    /\ jobs[q] # <<>> => Cared(q)

(* m_jobCount counts the jobs that are announced, waiting, or taken and not *)
(* yet settled.                                                             *)
Announcing(q) == {t \in Threads : push[t] = "enqueue" /\ pq[t] = q}

CountExact ==
  \A q \in Queues :
    /\ \A t \in Threads : cur[t] = q =>
         jobCount[q] = Cardinality(Announcing(q)) + Len(jobs[q]) + taken[t]
    /\ (\A t \in Threads : cur[t] # q) =>
         jobCount[q] = Cardinality(Announcing(q)) + Len(jobs[q])

(* Together they are inductive.                                             *)
IInv == TypeOK /\ Shape /\ OneCarer /\ NoStrandedJob /\ CountExact

-----------------------------------------------------------------------------
(* Refinement.  A job is accepted when it enters m_jobs, begins when its    *)
(* body is called and ends when that returns.                               *)
Runs(t, q) == cur[t] = q /\ pc[t] \in {"run", "busy"}

NotAccepted == unused \cup {pj[t] : t \in {u \in Threads : push[u] = "enqueue"}}

SwappedOut(q) ==
  IF \E t \in Threads : Runs(t, q)
  THEN LET t == CHOOSE u \in Threads : Runs(u, q)
       IN IF pc[t] = "busy" THEN Tail(batch[t]) ELSE batch[t]
  ELSE <<>>

RunningJob(q) ==
  IF \E t \in Threads : cur[t] = q /\ pc[t] = "busy"
  THEN Head(batch[CHOOSE u \in Threads : cur[u] = q /\ pc[u] = "busy"])
  ELSE NoJob

Serial == INSTANCE SerialExecutor WITH
  accepted <- Jobs \ NotAccepted,
  pending  <- [q \in Queues |-> SwappedOut(q) \o jobs[q]],
  running  <- [q \in Queues |-> RunningJob(q)]

(* The jobs of a queue run one at a time, once each, in the order accepted, *)
(* and every job that is accepted is begun and ended in the end.            *)
RunsEventually == Serial!FairSpec
=============================================================================
