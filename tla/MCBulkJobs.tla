----------------------------- MODULE MCBulkJobs -----------------------------
(***************************************************************************)
(* Small instances of BulkJobs: one job that anybody processes and purges, *)
(* with workers that outlive their lease, and in the same state graph two  *)
(* jobs in a queue that runners serve.                                     *)
(***************************************************************************)
EXTENDS BulkJobs, TLC

CONSTANTS w1, w2

VARIABLE deployment

\* The second of two queues has all jobs.
SecondQueue == [j \in Jobs |-> 1]

\* The first job has three operations, of which the first refers to the second,
\* and stops at the second error.
Counts == [j \in Jobs |-> IF j = 1 THEN 3 ELSE 1]
References == [j \in Jobs |-> [i \in 1 .. 3 |-> IF j = 1 /\ i = 1 THEN {2} ELSE {}]]
Limits == [j \in Jobs |-> IF j = 1 THEN 2 ELSE 0]

\* Runners serve the queue, and the payload of its first job cannot be read.
Queue == INSTANCE BulkJobs WITH
  Corrupt <- {1}, Calls <- {"runner"}, Faults <- {"throw", "crash", "token", "lost"}

MCInit == deployment \in {"given", "queue"} /\ Init

MCNext ==
  /\ UNCHANGED deployment
  /\ \/ deployment = "given" /\ Next /\ row'[2] = row[2]
     \/ deployment = "queue" /\ Queue!Next

allVars == <<vars, deployment>>

InQueue(A) == deployment = "queue" /\ A /\ UNCHANGED deployment

\* The fairness of FairSpec, for the queue.
MCFairSpec ==
  /\ MCInit /\ [][MCNext]_allVars
  /\ <>[][deployment = "queue" => Queue!Environment \/ \E w \in Workers : Queue!Regular(w)]_allVars
  /\ WF_allVars(InQueue(Queue!Tick))
  /\ \A w \in Workers :
       /\ SF_allVars(InQueue(Queue!Renew(w)))
       /\ WF_allVars(InQueue(Queue!Find(w) \/ Queue!Checkpoint(w) \/ Queue!Dispatch(w)
                              \/ Queue!Claim(w) \/ Queue!Acquire(w) \/ Queue!Load(w)
                              \/ Queue!Begin(w) \/ Queue!Commit(w) \/ Queue!Release(w)))

\* A queued job is completed in the end, unless its payload cannot be read, and
\* neither such jobs nor those that fail for a while starve the others.
QueueServed == deployment = "queue" => Queue!JobsComplete
=============================================================================
