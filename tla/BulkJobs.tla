------------------------------ MODULE BulkJobs ------------------------------
(***************************************************************************)
(* Durable jobs of the SCIM plugin (packages/scim/src/bulk-jobs.ts,        *)
(* bulk-job-storage.ts, bulk-job-worker.ts, bulk-job-runner.ts): workers   *)
(* find queued jobs by a cursor, claim one with a lease, and carry out its *)
(* operations, each in a transaction with its outcome and the progress of  *)
(* the job.                                                                *)
(*                                                                         *)
(* The plugin insists on a database with transactions.  A transaction that *)
(* ends in a guarded update of a row takes effect when that update does.   *)
(* Revisions are compared for equality alone, so a worker knows whether    *)
(* what it read last is still the latest revision; a lease is the worker   *)
(* that holds it, and the time it has left.                                *)
(***************************************************************************)
EXTENDS Naturals, Sequences, FiniteSets

CONSTANTS
  Workers,   \* invocations in flight
  Jobs,      \* the jobs: numbers, in the order of their ids
  Shards,    \* into how many queues the jobs are divided
  ShardOf,   \* the queue of a job
  Count,     \* how many operations a job has
  Needs,     \* the operations whose results an operation of a job refers to
  FailOn,    \* failOnErrors of a job, 0 for none
  Corrupt,   \* the jobs whose payload cannot be read
  Calls,     \* a subset of {"runner", "process", "purge"}
  Faults,    \* "throw", "crash", "token" (no credential), "lost" (a commit that is not
             \* acknowledged), "paused" (a worker may outlive its lease)
  Lease,     \* LEASE_MS, in ticks
  Backoff,   \* how long a job rests that met a retryable error, in ticks
  MaxRows    \* how many rows are purged at a time

Operations == UNION {1 .. Count[j] : j \in Jobs}

ASSUME BulkAssumption ==
  /\ Jobs \subseteq Nat \ {0}
  /\ {Shards, Lease, Backoff, MaxRows} \subseteq Nat \ {0}
  /\ ShardOf \in [Jobs -> 0 .. Shards - 1]
  /\ Count \in [Jobs -> Nat \ {0}] /\ FailOn \in [Jobs -> Nat]
  /\ Needs \in [Jobs -> [Operations -> SUBSET Nat]]
  /\ Corrupt \subseteq Jobs
  /\ Calls \subseteq {"runner", "process", "purge"}
  /\ {"none", "lost"} \cap Workers = {}

VARIABLES
  row,      \* the row of each job
  outcomes, \* the outcome rows of each job
  blobs,    \* the payload rows of each job: 0 is its input, n the result of operation n
  cursor,   \* the row of the queue cursor
  pc,       \* where each worker is suspended
  job,      \* the job of a worker, or 0
  latest,   \* the workers that know the latest revision of the row they read
  known,    \* the outcomes a worker has read or written
  doing,     \* the operation a worker carries out, and whether it succeeded
  retry,    \* the workers that met a retryable error
  log       \* history: the operations of each job that took effect, in order

vars == <<row, outcomes, blobs, cursor, pc, job, latest, known, doing, retry, log>>
local == <<job, known, doing, retry>>

Row == [state : {"none", "ready", "complete", "purging", "expired"},
        holder : Workers \cup {"none", "lost"}, left : Nat, completed : Nat, errors : Nat]
Outcome == [op : Nat, index : Nat, ok : BOOLEAN]
Entry == [op : Nat, ok : BOOLEAN]

Labels ==
  {"idle", "checkpoint", "checkpointLeased", "dispatch", "claim", "acquire", "load", "loop", "begin", "commit",
   "release", "purge"}

TypeOK ==
  /\ row \in [Jobs -> Row]
  /\ outcomes \in [Jobs -> SUBSET Outcome]
  /\ blobs \in [Jobs -> SUBSET Nat]
  /\ cursor \in [shard : 0 .. Shards - 1, after : Nat]
  /\ pc \in [Workers -> Labels]
  /\ job \in [Workers -> Jobs \cup {0}]
  /\ latest \subseteq Workers /\ retry \subseteq Workers
  /\ known \in [Workers -> SUBSET Outcome]
  /\ doing \in [Workers -> Entry]
  /\ log \in [Jobs -> Seq(Entry)]

-----------------------------------------------------------------------------
(* Helpers.                                                                *)

Nothing == [op |-> 0, ok |-> FALSE]

Decided(S) == {o.op : o \in S}
Succeeded(S) == {o.op : o \in {x \in S : x.ok}}

Goto(w, l) == pc' = [pc EXCEPT ![w] = l]

Finish(w) ==
  /\ Goto(w, "idle")
  /\ job' = [job EXCEPT ![w] = 0]
  /\ known' = [known EXCEPT ![w] = {}]
  /\ doing' = [doing EXCEPT ![w] = Nothing]
  /\ retry' = retry \ {w}

\* Where a worker that has read the cursor is suspended.
AtCursor == {"checkpoint", "checkpointLeased"}

\* Who knows the revision of the cursor, or of job j, once w has raised it.
LatestCursor(w) == {v \in latest : v = w \/ pc[v] \notin AtCursor}
LatestJob(j, w) == {v \in latest : v = w \/ pc[v] \in AtCursor \/ job[v] # j}

Init ==
  /\ row = [j \in Jobs |->
       [state |-> "none", holder |-> "none", left |-> 0, completed |-> 0, errors |-> 0]]
  /\ outcomes = [j \in Jobs |-> {}] /\ blobs = [j \in Jobs |-> {}]
  /\ cursor = [shard |-> 0, after |-> 0]
  /\ pc = [w \in Workers |-> "idle"] /\ job = [w \in Workers |-> 0]
  /\ latest = {} /\ retry = {}
  /\ known = [w \in Workers |-> {}] /\ doing = [w \in Workers |-> Nothing]
  /\ log = [j \in Jobs |-> <<>>]

-----------------------------------------------------------------------------
(* The queue.                                                              *)

\* enqueueBulkJob: the key of a job is unique, and who submits it again gets
\* the job that is there.
Enqueue(j) ==
  /\ row[j].state = "none"
  /\ row' = [row EXCEPT ![j].state = "ready"]
  /\ blobs' = [blobs EXCEPT ![j] = {0}]
  /\ UNCHANGED <<outcomes, cursor, pc, latest, local, log>>

\* The jobs of the shard that come after the cursor.
Queued ==
  {j \in Jobs : row[j].state = "ready" /\ ShardOf[j] = cursor.shard /\ j > cursor.after}

\* nextSCIMBulkJob reads the cursor and the first job after it, with its lease.
Find(w) ==
  /\ "runner" \in Calls /\ pc[w] = "idle"
  /\ \/ Queued = {} /\ UNCHANGED job /\ Goto(w, "checkpoint")
     \/ \E j \in Queued :
          /\ \A i \in Queued : j <= i
          /\ job' = [job EXCEPT ![w] = j]
          /\ Goto(w, IF row[j].left = 0 THEN "checkpoint" ELSE "checkpointLeased")
  /\ latest' = latest \cup {w}
  /\ UNCHANGED <<row, outcomes, blobs, cursor, known, doing, retry, log>>

\* Mutants: the last shard is passed, or the first is never left.
ShardUnbounded(n) == n + 1
SameShard(n) == n

ShardAfter(n) == (n + 1) % Shards

\* The cursor moves on before the job is dispatched.  A job that was found with a
\* lease is passed over, unless that lease has run out by now, whoever has the job.
Checkpoint(w) ==
  /\ pc[w] \in AtCursor
  /\ IF w \in latest
     THEN /\ cursor' = IF job[w] = 0
                       THEN [shard |-> ShardAfter(cursor.shard), after |-> 0]
                       ELSE [cursor EXCEPT !.after = job[w]]
          /\ latest' = LatestCursor(w) \ {w}
          /\ \/ job[w] # 0 /\ Goto(w, "dispatch") /\ UNCHANGED local
             \/ (job[w] = 0 \/ pc[w] = "checkpointLeased") /\ Finish(w)
     ELSE Finish(w) /\ UNCHANGED <<cursor, latest>>
  /\ UNCHANGED <<row, outcomes, blobs, log>>

Dispatch(w) ==
  /\ pc[w] = "dispatch"
  /\ Goto(w, "claim")
  /\ UNCHANGED <<row, outcomes, blobs, cursor, latest, local, log>>

\* There is no valid credential for the job.
NoToken(w) ==
  /\ "token" \in Faults /\ pc[w] = "dispatch"
  /\ Finish(w)
  /\ UNCHANGED <<row, outcomes, blobs, cursor, latest, log>>

\* processSCIMBulkJob, called for any job.
Process(w, j) ==
  /\ "process" \in Calls /\ pc[w] = "idle" /\ row[j].state # "none"
  /\ job' = [job EXCEPT ![w] = j]
  /\ Goto(w, "claim")
  /\ UNCHANGED <<row, outcomes, blobs, cursor, latest, known, doing, retry, log>>

-----------------------------------------------------------------------------
(* The claim.                                                              *)

\* The job is read, and left alone if it is not ready or has a lease.
Claim(w) ==
  /\ pc[w] = "claim"
  /\ LET r == row[job[w]] IN
       IF r.state = "ready" /\ r.left = 0
       THEN Goto(w, "acquire") /\ latest' = latest \cup {w} /\ UNCHANGED local
       ELSE Finish(w) /\ UNCHANGED latest
  /\ UNCHANGED <<row, outcomes, blobs, cursor, log>>

\* The guard of the update that takes the lease.
Unclaimed(w) == w \in latest /\ row[job[w]].state = "ready"

Acquire(w) ==
  /\ pc[w] = "acquire"
  /\ IF Unclaimed(w)
     THEN /\ row' = [row EXCEPT ![job[w]].holder = w, ![job[w]].left = Lease]
          /\ latest' = LatestJob(job[w], w)
          /\ Goto(w, "load")
          /\ UNCHANGED local
     ELSE Finish(w) /\ UNCHANGED <<row, latest>>
  /\ UNCHANGED <<outcomes, blobs, cursor, log>>

-----------------------------------------------------------------------------
(* The operations of a job.                                                *)

\* The input and the outcomes so far are read.
Load(w) ==
  /\ pc[w] = "load"
  /\ IF job[w] \in Corrupt
     THEN Goto(w, "release") /\ UNCHANGED known
     ELSE Goto(w, "loop") /\ known' = [known EXCEPT ![w] = outcomes[job[w]]]
  /\ UNCHANGED <<row, outcomes, blobs, cursor, latest, job, doing, retry, log>>

Pending(w) == 1 .. Count[job[w]] \ Decided(known[w])

Ready(w) == {i \in Pending(w) : Needs[job[w]][i] \subseteq Succeeded(known[w])}

\* nextOperation: the first that has all it needs, and otherwise the first.
NextOperation(w) ==
  LET S == IF Ready(w) = {} THEN Pending(w) ELSE Ready(w)
  IN  CHOOSE i \in S : \A k \in S : i <= k

\* The row still has the lease and the revision of the worker.
Owned(w) == w \in latest /\ row[job[w]].holder = w

\* The lease is renewed before each operation.
Renew(w) ==
  /\ pc[w] = "loop" /\ Pending(w) # {}
  /\ IF Owned(w)
     THEN /\ row' = [row EXCEPT ![job[w]].left = Lease]
          /\ latest' = LatestJob(job[w], w)
          /\ doing' = [doing EXCEPT ![w] = [op |-> NextOperation(w), ok |-> FALSE]]
          /\ Goto(w, "begin")
     ELSE Goto(w, "release") /\ UNCHANGED <<row, latest, doing>>
  /\ UNCHANGED <<outcomes, blobs, cursor, job, known, retry, log>>

\* The budget of operations or of time is used up.
Stop(w) ==
  /\ pc[w] = "loop"
  /\ Goto(w, "release")
  /\ UNCHANGED <<row, outcomes, blobs, cursor, latest, local, log>>

\* executeAtomically looks at the row again and carries the operation out in
\* the transaction: it succeeds, or fails for good and is rolled back.
Begin(w) ==
  /\ pc[w] = "begin"
  /\ IF Owned(w) /\ row[job[w]].state = "ready"
     THEN /\ \E ok \in IF doing[w].op \in Ready(w) THEN BOOLEAN ELSE {FALSE} :
               doing' = [doing EXCEPT ![w].ok = ok]
          /\ Goto(w, "commit")
     ELSE Goto(w, "release") /\ UNCHANGED doing
  /\ UNCHANGED <<row, outcomes, blobs, cursor, latest, job, known, retry, log>>

\* It fails in a way that may pass, and is rolled back.
MeetRetryable(w) ==
  /\ pc[w] = "begin" /\ doing[w].op \in Ready(w)
  /\ retry' = retry \cup {w}
  /\ Goto(w, "release")
  /\ UNCHANGED <<row, outcomes, blobs, cursor, latest, job, known, doing, log>>

\* Mutant: the outcome is written whoever has the job by now.
WritableAnyway(w) == row[job[w]].state = "ready"

\* The guard of the update that ends writeOutcome.
Writable(w) == Owned(w) /\ row[job[w]].state = "ready"

CompletesAt(j, completed, errors) ==
  completed = Count[j] \/ (FailOn[j] # 0 /\ errors >= FailOn[j])

\* Whether the outcome w is about to write is the last of its job.
Completes(w) ==
  LET r == row[job[w]]
  IN  CompletesAt(job[w], r.completed + 1, IF doing[w].ok THEN r.errors ELSE r.errors + 1)

\* writeOutcome: the result, the outcome, the progress and the effect of the
\* operation, in one transaction.
WriteOutcome(w) ==
  LET j == job[w]
      r == row[j]
      o == [op |-> doing[w].op, index |-> r.completed, ok |-> doing[w].ok]
  IN  /\ row' = [row EXCEPT ![j] =
           [r EXCEPT !.completed = r.completed + 1,
                     !.errors = IF o.ok THEN r.errors ELSE r.errors + 1,
                     !.state = IF Completes(w) THEN "complete" ELSE "ready"]]
      /\ outcomes' = [outcomes EXCEPT ![j] = @ \cup {o}]
      /\ blobs' = [blobs EXCEPT ![j] = @ \cup {o.op}]
      /\ log' = [log EXCEPT ![j] = Append(@, doing[w])]
      /\ latest' = LatestJob(j, w)
      /\ known' = [known EXCEPT ![w] = @ \cup {o}]

Commit(w) ==
  /\ pc[w] = "commit"
  /\ IF Writable(w)
     THEN WriteOutcome(w) /\ Goto(w, IF Completes(w) THEN "release" ELSE "loop")
     ELSE /\ Goto(w, "release")
          /\ UNCHANGED <<row, outcomes, blobs, log, latest, known>>
  /\ UNCHANGED <<cursor, job, doing, retry>>

\* The transaction is committed, and the worker is told that it failed.
CommitLost(w) ==
  /\ "lost" \in Faults /\ pc[w] = "commit" /\ Writable(w)
  /\ WriteOutcome(w)
  /\ Goto(w, "release")
  /\ UNCHANGED <<cursor, job, doing, retry>>

\* Mutant: the lease is given up whoever has it by now.
ReleasableAnyway(w) == TRUE

\* The guard of the update that gives the lease up.
Releasable(w) == row[job[w]].holder = w

\* However a worker ends it releases the lease, unless it is another's by now.
Release(w) ==
  /\ pc[w] = "release"
  /\ IF Releasable(w)
     THEN /\ row' = [row EXCEPT ![job[w]].holder = "none",
                                ![job[w]].left = IF w \in retry THEN Backoff ELSE 0]
          /\ latest' = LatestJob(job[w], w)
     ELSE UNCHANGED <<row, latest>>
  /\ Finish(w)
  /\ UNCHANGED <<outcomes, blobs, cursor, log>>

\* A call that ends without giving its lease up leaves it with nobody.
Forget(w) ==
  row' = [j \in Jobs |->
    IF row[j].holder = w THEN [row[j] EXCEPT !.holder = "lost"] ELSE row[j]]

\* An await rejects.
Throw(w) ==
  /\ "throw" \in Faults /\ pc[w] # "idle"
  /\ IF pc[w] \in {"load", "loop", "begin", "commit"}
     THEN Goto(w, "release") /\ UNCHANGED <<row, local>>
     ELSE Forget(w) /\ Finish(w)
  /\ UNCHANGED <<outcomes, blobs, cursor, latest, log>>

\* The invocation is killed.
Crash(w) ==
  /\ "crash" \in Faults /\ pc[w] # "idle"
  /\ Forget(w)
  /\ Finish(w)
  /\ UNCHANGED <<outcomes, blobs, cursor, latest, log>>

-----------------------------------------------------------------------------
(* The results of a job are deleted, a few rows at a time.                 *)

Purge(w, j) ==
  /\ "purge" \in Calls /\ pc[w] = "idle"
  /\ row[j].state \in {"complete", "purging"}
  /\ job' = [job EXCEPT ![w] = j]
  /\ latest' = latest \cup {w}
  /\ Goto(w, "purge")
  /\ UNCHANGED <<row, outcomes, blobs, cursor, known, doing, retry, log>>

\* Some rows of a set: all of them if they are few.
Some(S) == {T \in SUBSET S : Cardinality(T) = MaxRows \/ (T = S /\ Cardinality(S) < MaxRows)}

\* Mutant: the outcomes are forgotten.
AllGoneButOutcomes(j) == blobs[j] = {}

AllGone(j) == blobs[j] = {} /\ outcomes[j] = {}

\* The payload goes before the outcomes, and the row says so if it has not changed.
PurgeCommit(w) ==
  /\ pc[w] = "purge"
  /\ IF w \in latest
     THEN LET j == job[w] IN
          /\ \E T \in Some(blobs[j]) : blobs' = [blobs EXCEPT ![j] = @ \ T]
          /\ \E T \in Some(outcomes[j]) :
               outcomes' = [outcomes EXCEPT ![j] = IF blobs[j] = {} THEN @ \ T ELSE @]
          /\ row' = [row EXCEPT ![j].state = IF AllGone(j) THEN "expired" ELSE "purging"]
          /\ latest' = LatestJob(j, w)
     ELSE UNCHANGED <<row, blobs, outcomes, latest>>
  /\ Finish(w)
  /\ UNCHANGED <<cursor, log>>

\* Time passes for the leases: for that of a worker in flight only if a worker
\* may be paused for so long.
Ages(j) == row[j].left > 0 /\ (row[j].holder \in Workers => "paused" \in Faults)

Tick ==
  /\ \E j \in Jobs : Ages(j)
  /\ row' = [j \in Jobs |-> IF Ages(j) THEN [row[j] EXCEPT !.left = @ - 1] ELSE row[j]]
  /\ UNCHANGED <<outcomes, blobs, cursor, pc, latest, local, log>>

Regular(w) ==
  \/ Find(w) \/ Checkpoint(w) \/ Dispatch(w) \/ Claim(w) \/ Acquire(w) \/ Load(w)
  \/ Renew(w) \/ Stop(w) \/ Begin(w) \/ Commit(w) \/ Release(w) \/ PurgeCommit(w)
  \/ \E j \in Jobs : Process(w, j) \/ Purge(w, j)

Fault(w) == NoToken(w) \/ MeetRetryable(w) \/ CommitLost(w) \/ Throw(w) \/ Crash(w)

Environment == Tick \/ \E j \in Jobs : Enqueue(j)

Next == Environment \/ \E w \in Workers : Regular(w) \/ Fault(w)

Spec == Init /\ [][Next]_vars

\* Workers are scheduled again and again and go on, at times for longer than
\* no operation, and the faults end.
FaultsEnd == <>[][Environment \/ \E w \in Workers : Regular(w)]_vars

Fairness ==
  /\ FaultsEnd
  /\ WF_vars(Tick)
  /\ \A w \in Workers :
       /\ SF_vars(Renew(w))
       /\ WF_vars(Find(w)) /\ WF_vars(Checkpoint(w)) /\ WF_vars(Dispatch(w))
       /\ WF_vars(Claim(w)) /\ WF_vars(Acquire(w)) /\ WF_vars(Load(w))
       /\ WF_vars(Begin(w)) /\ WF_vars(Commit(w)) /\ WF_vars(Release(w))

FairSpec == Spec /\ Fairness

-----------------------------------------------------------------------------
(* Properties.                                                             *)

\* Whatever workers do, the operations of a job take effect as BulkProgress
\* promises: one at a time, each once, in an order that their references allow.
Progress == INSTANCE BulkProgress
RefinesProgress == Progress!Spec

\* The outcomes are numbered as they took effect and until they are purged
\* none is missing, so that a client that polls from where it stopped sees each
\* once; the row counts them, and a job that is expired has none left.
OutcomesNumbered ==
  \A j \in Jobs :
    /\ row[j].completed = Len(log[j]) /\ row[j].errors = Progress!Errors(log[j])
    /\ row[j].state \in {"ready", "complete"} =>
         outcomes[j] = {[op |-> log[j][k].op, index |-> k - 1, ok |-> log[j][k].ok] :
                          k \in DOMAIN log[j]}
    /\ row[j].state = "expired" => outcomes[j] = {} /\ blobs[j] = {}

\* A lease that has not run out is taken from nobody.
LeaseRespected ==
  [][\A w \in Workers, j \in Jobs :
       row[j].holder = w /\ row[j].left > 0 /\ row'[j].holder # w
         => pc[w] # "idle" /\ pc'[w] = "idle"]_vars

\* A job that was accepted is completed, unless its payload cannot be read:
\* neither such jobs nor failing ones starve the others.
JobsComplete ==
  \A j \in Jobs \ Corrupt : row[j].state = "ready" ~> row[j].state # "ready"
=============================================================================
