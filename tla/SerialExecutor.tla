--------------------------- MODULE SerialExecutor ---------------------------
(***************************************************************************)
(* What a jh::JobQueue promises the code that derives from it (User, Room, *)
(* the heartbeat): the jobs of one queue run one at a time, each once and  *)
(* in the order in which they were accepted, whatever threads run them.    *)
(***************************************************************************)
EXTENDS Sequences

CONSTANTS Queues, Jobs, NoJob

VARIABLES
  accepted,  (* jobs that have been put into some queue                     *)
  pending,   (* jobs of each queue that have not begun, oldest first        *)
  running    (* the job of each queue that is running, or NoJob             *)

vars == <<accepted, pending, running>>

Init ==
  /\ accepted = {}
  /\ pending = [q \in Queues |-> <<>>]
  /\ running = [q \in Queues |-> NoJob]

Accept(q, j) ==
  /\ j \notin accepted
  /\ accepted' = accepted \cup {j}
  /\ pending' = [pending EXCEPT ![q] = Append(@, j)]
  /\ UNCHANGED running

Begin(q) ==
  /\ running[q] = NoJob /\ pending[q] # <<>>
  /\ running' = [running EXCEPT ![q] = Head(pending[q])]
  /\ pending' = [pending EXCEPT ![q] = Tail(@)]
  /\ UNCHANGED accepted

End(q) ==
  /\ running[q] # NoJob
  /\ running' = [running EXCEPT ![q] = NoJob]
  /\ UNCHANGED <<accepted, pending>>

Next == \E q \in Queues : (\E j \in Jobs : Accept(q, j)) \/ Begin(q) \/ End(q)

Spec == Init /\ [][Next]_vars

(* Accepted jobs begin, and end.                                            *)
FairSpec == Spec /\ \A q \in Queues : WF_vars(Begin(q)) /\ WF_vars(End(q))
=============================================================================
