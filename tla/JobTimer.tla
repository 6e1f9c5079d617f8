------------------------------ MODULE JobTimer ------------------------------
(***************************************************************************)
(* jh::JobTimer over JobQueue.  DoTimer reserves a job for a later time;   *)
(* every round of a worker of the lobby server looks at the timer and then *)
(* at the global queue (LobbyServer::OnWorkerThreadUpdateEnd).  One worker *)
(* at a time distributes, and Push may make it run the jobs itself before  *)
(* it distributes the next: all others then look in vain.                  *)
(***************************************************************************)
EXTENDS JobQueue, SequencesExt

CONSTANTS
  Reserved,   (* the jobs that go through the timer                         *)
  Delays,     (* tickAfter                                                  *)
  MaxTick     (* bound: GetTimeStamp, and times reserved for                *)

ASSUME TimerAssumption ==
  Reserved \subseteq Jobs /\ Delays \subseteq Nat /\ MaxTick \in Nat

VARIABLES
  now,           (* GetTimeStamp                                            *)
  items,         (* JobTimer::m_items                                       *)
  distributing,  (* JobTimer::m_bDistributing                               *)
  at,            (* where a thread is in Distribute, "none" outside it      *)
  stamp,         (* the parameter now of its Distribute                     *)
  due            (* its items, those it has not pushed                      *)

timerVars == <<now, items, distributing, at, stamp, due>>
distVars == <<at, stamp, due>>

TimerInit ==
  /\ Init
  /\ now = 0 /\ items = {} /\ distributing = FALSE
  /\ at = [t \in Threads |-> "none"]
  /\ stamp = [t \in Threads |-> 0]
  /\ due = [t \in Threads |-> <<>>]

-----------------------------------------------------------------------------
Held == {i.job : i \in items} \cup UNION {{i.job : i \in ToSet(due[t])} : t \in Threads}

(* A thread calls Push or Reserve, or goes on to the global queue, outside  *)
(* Distribute, or from the body of a job that Distribute made it run.       *)
Outside(t) == at[t] = "none"
MayCall(t) == Outside(t) \/ pc[t] = "busy"
Idles(t) == pc[t] = "idle" /\ push[t] = "none"

Reserve(t, q, j, after) ==
  /\ MayCall(t) /\ pc[t] \in {"idle", "busy"} /\ push[t] = "none"
  /\ j \in unused \cap Reserved /\ j \notin Held
  /\ now + after <= MaxTick
  /\ items' = items \cup {[tick |-> now + after, queue |-> q, job |-> j]}
  /\ UNCHANGED <<vars, now, distributing, distVars>>

(* DistributeReservedJobs reads the time ...                                *)
Look(t) ==
  /\ Outside(t) /\ Idles(t)
  /\ at' = [at EXCEPT ![t] = "exchange"]
  /\ stamp' = [stamp EXCEPT ![t] = now]
  /\ UNCHANGED <<vars, now, items, distributing, due>>

(* ... and Distribute returns if another distributes.                       *)
Exchange(t) ==
  /\ at[t] = "exchange"
  /\ at' = [at EXCEPT ![t] = IF distributing THEN "none" ELSE "pop"]
  /\ distributing' = TRUE
  /\ UNCHANGED <<vars, now, items, stamp, due>>

(* Variant of PopDue: with nothing due it returns at once. *)
PopDueReturns(t) ==
  /\ at[t] = "pop"
  /\ LET ready == {i \in items : i.tick <= stamp[t]}
     IN \E s \in SetToSeqs(ready) :
          /\ \A m, n \in 1 .. Len(s) : m < n => s[m].tick <= s[n].tick
          /\ due' = [due EXCEPT ![t] = s]
          /\ items' = items \ ready
          /\ at' = [at EXCEPT ![t] = IF ready = {} THEN "none" ELSE "push"]
  /\ UNCHANGED <<vars, now, distributing, stamp>>

(* It takes what is due by the time it was given, the earliest first, equal *)
(* times in any order.                                                      *)
PopDue(t) ==
  /\ at[t] = "pop"
  /\ LET ready == {i \in items : i.tick <= stamp[t]}
     IN \E s \in SetToSeqs(ready) :
          /\ \A m, n \in 1 .. Len(s) : m < n => s[m].tick <= s[n].tick
          /\ due' = [due EXCEPT ![t] = s]
          /\ items' = items \ ready
          /\ at' = [at EXCEPT ![t] = "push"]
  /\ UNCHANGED <<vars, now, distributing, stamp>>

(* Each is pushed; the Push of JobQueue may execute the queue.              *)
PushDue(t) ==
  /\ at[t] = "push" /\ Idles(t) /\ due[t] # <<>>
  /\ CountJob(t, Head(due[t]).queue, Head(due[t]).job)
  /\ due' = [due EXCEPT ![t] = Tail(@)]
  /\ UNCHANGED <<now, items, distributing, at, stamp>>

EndDistribute(t) ==
  /\ at[t] = "push" /\ Idles(t) /\ due[t] = <<>>
  /\ distributing' = FALSE
  /\ at' = [at EXCEPT ![t] = "none"]
  /\ UNCHANGED <<vars, now, items, stamp, due>>

Elapse ==
  /\ now < MaxTick
  /\ now' = now + 1
  /\ UNCHANGED <<vars, items, distributing, distVars>>

-----------------------------------------------------------------------------
Distribute(t) == Exchange(t) \/ PopDue(t) \/ PushDue(t) \/ EndDistribute(t)

(* The steps of JobQueue.                                                   *)
QueueContinues(t) == Continue(t) /\ UNCHANGED timerVars
DirectPush(t, q, j) == MayCall(t) /\ j \notin Reserved /\ CountJob(t, q, j) /\ UNCHANGED timerVars
TakeGlobal(t) == Outside(t) /\ Take(t) /\ UNCHANGED timerVars

TimerNext ==
  \/ \E t \in Threads : QueueContinues(t)
  \/ \E t \in Threads, q \in Queues, j \in Jobs : DirectPush(t, q, j)
  \/ \E t \in Workers : TakeGlobal(t) \/ Look(t) \/ Distribute(t)
  \/ \E t \in Threads, q \in Queues, j \in Reserved, after \in Delays : Reserve(t, q, j, after)
  \/ Elapse

TimerSpec == TimerInit /\ [][TimerNext]_<<vars, timerVars>>

(* As in JobQueue; moreover time passes, and among the workers there is     *)
(* always one that gets to the timer, and after it to the global queue.     *)
TimerFairness ==
  /\ \A t \in Threads : WF_<<vars, timerVars>>(QueueContinues(t))
  /\ SF_<<vars, timerVars>>(\E t \in Workers : TakeGlobal(t))
  /\ WF_<<vars, timerVars>>(\E t \in Workers : Look(t))
  /\ \A t \in Workers : WF_<<vars, timerVars>>(Distribute(t))
  /\ WF_<<vars, timerVars>>(Elapse)

TimerFairSpec == TimerSpec /\ TimerFairness

-----------------------------------------------------------------------------
Items == [tick : Nat, queue : Queues, job : Reserved]

TimerTypeOK ==
  /\ now \in 0 .. MaxTick /\ distributing \in BOOLEAN
  /\ items \subseteq Items /\ IsFiniteSet(items)
  /\ at \in [Threads -> {"none", "exchange", "pop", "push"}]
  /\ stamp \in [Threads -> 0 .. MaxTick]
  /\ due \in [Threads -> Seq(Items)]

(* One thread at a time is between the exchange of the flag and its reset,  *)
(* and the flag is up then: nothing is popped twice.                        *)
Distributes(t) == at[t] \in {"pop", "push"}

OneDistributor ==
  \A t \in Threads : Distributes(t) =>
    distributing /\ \A s \in Threads : Distributes(s) => s = t

(* A reserved job is pushed in the end, also when the worker that popped it *)
(* is kept by the jobs it runs, and when others come in vain meanwhile: no  *)
(* item is left behind a flag that stays up.                                *)
ReservedJobsPushed == Held # {} ~> Held = {}
=============================================================================
