--------------------------- MODULE BulkJobsProofs ---------------------------
(***************************************************************************)
(* Theorems about BulkJobs: type correctness, that operations take effect  *)
(* as BulkProgress promises and are numbered without a gap, and that a     *)
(* lease is taken from nobody while it runs.                               *)
(***************************************************************************)
EXTENDS BulkJobs, FiniteSetTheorems, WellFoundedInduction, SequenceTheorems, TLAPS

-----------------------------------------------------------------------------
(* Type correctness.                                                       *)

\* A worker that is past the cursor has a job.
Busy == {"dispatch", "claim", "acquire", "load", "loop", "begin", "commit", "release", "purge"}
JobHeld == \A w \in Workers : pc[w] \in Busy => job[w] \in Jobs

TypeInv == TypeOK /\ JobHeld

\* Ending a call keeps the types of the local variables, and the jobs of others.
LEMMA FinishTyped ==
  ASSUME TypeInv, NEW w \in Workers, Finish(w)
  PROVE  /\ pc' \in [Workers -> Labels]
         /\ job' \in [Workers -> Jobs \cup {0}]
         /\ known' \in [Workers -> SUBSET Outcome]
         /\ doing' \in [Workers -> Entry]
         /\ retry' \subseteq Workers
         /\ JobHeld'
<1>1. Nothing \in Entry
  BY DEF Nothing, Entry
<1>2. "idle" \in Labels /\ "idle" \notin Busy
  BY DEF Labels, Busy
<1>. QED  BY <1>1, <1>2 DEF TypeInv, TypeOK, JobHeld, Finish, Goto

\* A worker that goes on has the job it had.
LEMMA GotoTyped ==
  ASSUME TypeInv, NEW w \in Workers, NEW l \in Labels, Goto(w, l), UNCHANGED job,
         l \in Busy => job[w] \in Jobs
  PROVE  pc' \in [Workers -> Labels] /\ JobHeld'
BY DEF TypeInv, TypeOK, JobHeld, Goto

\* The rows that a lost lease leaves are rows.
LEMMA ForgetTyped ==
  ASSUME TypeInv, NEW w \in Workers, Forget(w)
  PROVE  row' \in [Jobs -> Row]
<1>1. \A j \in Jobs : row[j] \in Row
  BY DEF TypeInv, TypeOK
<1>2. \A r \in Row : [r EXCEPT !.holder = "lost"] \in Row
  BY DEF Row
<1>. QED  BY <1>1, <1>2 DEF Forget

\* A row that a worker writes is a row, whatever it writes of these.
LEMMA RowTyped ==
  ASSUME NEW r \in Row, NEW h \in Workers \cup {"none", "lost"}, NEW n \in Nat,
         NEW s \in {"none", "ready", "complete", "purging", "expired"}
  PROVE  /\ [r EXCEPT !.holder = h, !.left = n] \in Row
         /\ [r EXCEPT !.left = n] \in Row
         /\ [r EXCEPT !.state = s] \in Row
BY DEF Row

LEMMA RowsTyped ==
  ASSUME TypeOK, NEW j \in Jobs, NEW h \in Workers \cup {"none", "lost"}, NEW n \in Nat,
         NEW s \in {"none", "ready", "complete", "purging", "expired"}
  PROVE  /\ [row EXCEPT ![j].holder = h, ![j].left = n] \in [Jobs -> Row]
         /\ [row EXCEPT ![j].left = n] \in [Jobs -> Row]
         /\ [row EXCEPT ![j].state = s] \in [Jobs -> Row]
<1>1. row[j] \in Row
  BY DEF TypeOK
<1>2. [row[j] EXCEPT !.holder = h] \in Row /\ [row[j] EXCEPT !.left = n] \in Row
      /\ [row[j] EXCEPT !.holder = h, !.left = n] \in Row /\ [row[j] EXCEPT !.state = s] \in Row
  BY <1>1 DEF Row
<1>. QED  BY <1>2 DEF TypeOK

\* A set of natural numbers that is not empty has a least one.
LEMMA LeastExists ==
  ASSUME NEW S \in SUBSET Nat, S # {}
  PROVE  \E i \in S : \A k \in S : i <= k
<1>. DEFINE R == OpToRel(<, Nat)
<1>1. IsWellFoundedOn(R, Nat)
  BY NatLessThanWellFounded
<1>2. \A x, y \in Nat : x < y => <<x, y>> \in R
  BY DEF OpToRel
<1>. HIDE DEF R
<1>3. \E i \in S : \A k \in S : ~(<<k, i>> \in R)
  BY <1>1, WFMin, Zenon
<1>4. PICK i \in S : \A k \in S : ~(<<k, i>> \in R)
  BY <1>3
<1>5. \A k \in S : ~(k < i)
  BY <1>2, <1>4
<1>6. S \subseteq Nat
  OBVIOUS
<1>. QED  BY <1>5, <1>6

\* The operations of a job that are still to be decided; one is chosen among
\* them, and it has what it refers to if any of them has.
LEMMA NextOperationPending ==
  ASSUME TypeInv, NEW w \in Workers, job[w] \in Jobs, Pending(w) # {}
  PROVE  NextOperation(w) \in Pending(w)
<1>. DEFINE S == IF Ready(w) = {} THEN Pending(w) ELSE Ready(w)
<1>1. S \subseteq Pending(w) /\ S # {}
  BY DEF Ready
<1>2. Pending(w) \subseteq Nat
  BY BulkAssumption DEF Pending
<1>3. \E i \in S : \A k \in S : i <= k
  BY <1>1, <1>2, LeastExists
<1>. QED  BY <1>1, <1>3 DEF NextOperation

\* What a worker carries out is an entry, if it was and is set to one.
LEMMA EntryWritten ==
  ASSUME TypeOK, NEW w \in Workers,
         doing' = doing \/ \E e \in Entry : doing' = [doing EXCEPT ![w] = e]
  PROVE  doing' \in [Workers -> Entry]
BY DEF TypeOK

\* What is left of a payload is a payload.
LEMMA PayloadPurged ==
  ASSUME TypeOK, NEW j \in Jobs,
         blobs' = blobs \/ \E T : blobs' = [blobs EXCEPT ![j] = blobs[j] \ T]
  PROVE  blobs' \in [Jobs -> SUBSET Nat]
<1>1. blobs \in [Jobs -> SUBSET Nat]
  BY DEF TypeOK
<1>2. \A T : blobs[j] \ T \in SUBSET Nat
  BY <1>1
<1>. QED  BY <1>1, <1>2

\* Writing an outcome keeps the types of everything it writes.
LEMMA WriteOutcomeTyped ==
  ASSUME TypeInv, NEW w \in Workers, pc[w] = "commit", WriteOutcome(w)
  PROVE  /\ row' \in [Jobs -> Row]
         /\ outcomes' \in [Jobs -> SUBSET Outcome]
         /\ blobs' \in [Jobs -> SUBSET Nat]
         /\ log' \in [Jobs -> Seq(Entry)]
         /\ latest' \subseteq Workers
         /\ known' \in [Workers -> SUBSET Outcome]
<1>. DEFINE j == job[w]
            o == [op |-> doing[w].op, index |-> row[j].completed, ok |-> doing[w].ok]
<1>1. j \in Jobs
  BY DEF TypeInv, JobHeld, Busy
<1>2. doing[w] \in Entry /\ row[j] \in Row
  BY <1>1 DEF TypeInv, TypeOK
<1>3. o \in Outcome
  BY <1>2 DEF Outcome, Entry, Row
<1>4. row' \in [Jobs -> Row]
  <2>1. \A n, m \in Nat, s \in {"complete", "ready"} :
          [row[j] EXCEPT !.completed = n, !.errors = m, !.state = s] \in Row
    BY <1>2 DEF Row
  <2>2. row[j].completed + 1 \in Nat /\ row[j].errors \in Nat /\ row[j].errors + 1 \in Nat
    BY <1>2 DEF Row
  <2>. QED  BY <1>1, <2>1, <2>2 DEF WriteOutcome, TypeInv, TypeOK
<1>5. outcomes' \in [Jobs -> SUBSET Outcome] /\ known' \in [Workers -> SUBSET Outcome]
  BY <1>1, <1>3 DEF WriteOutcome, TypeInv, TypeOK
<1>6. blobs' \in [Jobs -> SUBSET Nat]
  BY <1>1, <1>2 DEF WriteOutcome, TypeInv, TypeOK, Entry
<1>7. log' \in [Jobs -> Seq(Entry)]
  <2>1. Append(log[j], doing[w]) \in Seq(Entry)
    BY <1>1, <1>2 DEF TypeInv, TypeOK
  <2>. QED  BY <1>1, <2>1 DEF WriteOutcome, TypeInv, TypeOK
<1>8. latest' \subseteq Workers
  BY DEF WriteOutcome, LatestJob, AtCursor, TypeInv, TypeOK
<1>. QED  BY <1>4, <1>5, <1>6, <1>7, <1>8

\* Initially.
LEMMA TypeInit == Init => TypeInv
BY BulkAssumption, EmptySeq
  DEF Init, TypeInv, TypeOK, JobHeld, Busy, Row, Outcome, Entry, Labels, Nothing

\* The queue, and the calls that start.
LEMMA QueueTyped ==
  ASSUME TypeInv, NEW w \in Workers,
         \/ Find(w) \/ Checkpoint(w) \/ Dispatch(w) \/ NoToken(w)
         \/ \E j \in Jobs : Process(w, j) \/ Purge(w, j)
  PROVE  TypeInv'
<1>. USE BulkAssumption DEF TypeInv, TypeOK
<1>1. CASE Find(w)
  <2>1. pc' \in [Workers -> Labels] /\ job' \in [Workers -> Jobs \cup {0}]
    <3>1. PICK l \in Labels : pc' = [pc EXCEPT ![w] = l]
      BY <1>1 DEF Find, Goto, Labels
    <3>2. CASE job' = job
      BY <3>1, <3>2
    <3>3. ASSUME NEW j \in Jobs, job' = [job EXCEPT ![w] = j]
          PROVE  pc' \in [Workers -> Labels] /\ job' \in [Workers -> Jobs \cup {0}]
      BY <3>1, <3>3
    <3>. QED  BY <1>1, <3>2, <3>3 DEF Find, Queued
  <2>2. JobHeld'
    BY <1>1 DEF Find, Goto, Queued, JobHeld, Busy
  <2>. QED  BY <1>1, <2>1, <2>2 DEF Find
<1>2. CASE Checkpoint(w)
  <2>1. cursor' \in [shard : 0 .. Shards - 1, after : Nat]
    <3>1. ShardAfter(cursor.shard) \in 0 .. Shards - 1
      BY DEF ShardAfter
    <3>2. Jobs \subseteq Nat
      OBVIOUS
    <3>3. job[w] \in Nat
      <4>1. job[w] \in Jobs \/ job[w] = 0
        OBVIOUS
      <4>2. 0 \in Nat
        OBVIOUS
      <4>. QED  BY <3>2, <4>1, <4>2, Zenon
    <3>4. CASE cursor' = cursor
      BY <3>4
    <3>5. CASE cursor' = [shard |-> ShardAfter(cursor.shard), after |-> 0]
      BY <3>1, <3>5
    <3>6. CASE cursor' = [cursor EXCEPT !.after = job[w]]
      BY <3>3, <3>6
    <3>. QED  BY <1>2, <3>4, <3>5, <3>6 DEF Checkpoint
  <2>2. latest' \subseteq Workers /\ UNCHANGED <<row, outcomes, blobs, log>>
    BY <1>2 DEF Checkpoint, LatestCursor, AtCursor
  <2>3. CASE Finish(w)
    BY <2>1, <2>2, <2>3, FinishTyped
  <2>4. CASE Goto(w, "dispatch") /\ job[w] # 0 /\ UNCHANGED local
    BY <2>1, <2>2, <2>4, GotoTyped DEF local, Labels
  <2>. QED  BY <1>2, <2>3, <2>4 DEF Checkpoint
<1>3. CASE Dispatch(w)
  <2>1. pc' \in [Workers -> Labels] /\ JobHeld'
    BY <1>3, GotoTyped DEF Dispatch, local, Labels, JobHeld, Busy
  <2>. QED  BY <1>3, <2>1 DEF Dispatch, local
<1>4. CASE NoToken(w)
  BY <1>4, FinishTyped DEF NoToken
<1>5. ASSUME NEW j \in Jobs, Process(w, j) \/ Purge(w, j) PROVE TypeInv'
  <2>0. PICK l \in Labels : pc' = [pc EXCEPT ![w] = l]
    BY <1>5 DEF Process, Purge, Goto, Labels
  <2>1. pc' \in [Workers -> Labels]
    BY <2>0
  <2>2. job' = [job EXCEPT ![w] = j]
    BY <1>5 DEF Process, Purge
  <2>3. job' \in [Workers -> Jobs \cup {0}]
    BY <2>2
  <2>4. JobHeld'
    BY <2>0, <2>2 DEF JobHeld
  <2>5. latest' \subseteq Workers /\ UNCHANGED <<row, outcomes, blobs, cursor, known, doing, retry, log>>
    BY <1>5 DEF Process, Purge
  <2>. QED  BY <2>1, <2>3, <2>4, <2>5
<1>. QED  BY <1>1, <1>2, <1>3, <1>4, <1>5

\* The claim and the operations.
LEMMA OperationsTyped ==
  ASSUME TypeInv, NEW w \in Workers,
         \/ Claim(w) \/ Acquire(w) \/ Load(w) \/ Renew(w) \/ Stop(w)
         \/ Begin(w) \/ MeetRetryable(w) \/ Commit(w) \/ CommitLost(w)
  PROVE  TypeInv'
<1>. USE BulkAssumption DEF TypeInv, TypeOK
<1>0. job[w] \in Jobs
  BY DEF Claim, Acquire, Load, Renew, Stop, Begin, MeetRetryable, Commit, CommitLost, JobHeld, Busy
<1>1. CASE Claim(w)
  <2>1. CASE Finish(w)
    <3>1. latest' \subseteq Workers /\ UNCHANGED <<row, outcomes, blobs, cursor, log>>
      BY <1>1 DEF Claim
    <3>. QED  BY <2>1, <3>1, FinishTyped
  <2>2. CASE ~Finish(w)
    <3>1. Goto(w, "acquire") /\ latest' = latest \cup {w} /\ UNCHANGED local
      BY <1>1, <2>2 DEF Claim
    <3>2. pc' \in [Workers -> Labels] /\ JobHeld'
      BY <1>0, <3>1, GotoTyped DEF local, Labels
    <3>. QED  BY <1>1, <3>1, <3>2 DEF Claim, local
  <2>. QED  BY <2>1, <2>2
<1>2. CASE Acquire(w)
  <2>1. row' \in [Jobs -> Row] /\ latest' \subseteq Workers
    <3>1. [row EXCEPT ![job[w]].holder = w, ![job[w]].left = Lease] \in [Jobs -> Row]
      BY <1>0, RowsTyped
    <3>. QED  BY <1>2, <3>1 DEF Acquire, LatestJob, AtCursor
  <2>2. CASE Finish(w)
    BY <1>2, <2>1, <2>2, FinishTyped DEF Acquire
  <2>3. CASE ~Finish(w)
    BY <1>0, <1>2, <2>1, <2>3, GotoTyped DEF Acquire, local, Labels
  <2>. QED  BY <2>2, <2>3
<1>3. CASE Load(w)
  <2>1. pc' \in [Workers -> Labels] /\ JobHeld'
    BY <1>0, <1>3, GotoTyped DEF Load, Labels
  <2>. QED  BY <1>0, <1>3, <2>1 DEF Load
<1>4. CASE Renew(w)
  <2>1. pc' \in [Workers -> Labels] /\ JobHeld'
    BY <1>0, <1>4, GotoTyped DEF Renew, Labels
  <2>2. [op |-> NextOperation(w), ok |-> FALSE] \in Entry
    BY <1>0, <1>4, NextOperationPending DEF Renew, Pending, Entry
  <2>3. row' \in [Jobs -> Row] /\ latest' \subseteq Workers
    <3>1. [row EXCEPT ![job[w]].left = Lease] \in [Jobs -> Row]
      BY <1>0, RowsTyped
    <3>. QED  BY <1>4, <3>1 DEF Renew, LatestJob, AtCursor
  <2>4. doing' \in [Workers -> Entry]
    <3>1. \/ doing' = doing
          \/ doing' = [doing EXCEPT ![w] = [op |-> NextOperation(w), ok |-> FALSE]]
      BY <1>4 DEF Renew
    <3>. QED  BY <2>2, <3>1, EntryWritten
  <2>. QED  BY <1>4, <2>1, <2>3, <2>4 DEF Renew
<1>5. CASE Stop(w)
  <2>1. pc' \in [Workers -> Labels] /\ JobHeld'
    BY <1>0, <1>5, GotoTyped DEF Stop, local, Labels
  <2>. QED  BY <1>5, <2>1 DEF Stop, local
<1>6. CASE Begin(w)
  <2>1. pc' \in [Workers -> Labels] /\ JobHeld'
    BY <1>0, <1>6, GotoTyped DEF Begin, Labels
  <2>2. doing' \in [Workers -> Entry]
    <3>1. doing[w] \in Entry
      OBVIOUS
    <3>2. \A ok \in BOOLEAN : [doing[w] EXCEPT !.ok = ok] \in Entry
      BY <3>1, Zenon DEF Entry
    <3>3. \/ doing' = doing
          \/ \E ok \in BOOLEAN : doing' = [doing EXCEPT ![w] = [doing[w] EXCEPT !.ok = ok]]
      BY <1>6 DEF Begin
    <3>. QED  BY <3>2, <3>3, EntryWritten
  <2>. QED  BY <1>6, <2>1, <2>2 DEF Begin
<1>7. CASE MeetRetryable(w)
  <2>1. pc' \in [Workers -> Labels] /\ JobHeld'
    BY <1>0, <1>7, GotoTyped DEF MeetRetryable, Labels
  <2>. QED  BY <1>7, <2>1 DEF MeetRetryable
<1>8. CASE Commit(w) \/ CommitLost(w)
  <2>1. pc' \in [Workers -> Labels] /\ JobHeld'
    BY <1>0, <1>8, GotoTyped DEF Commit, CommitLost, Labels
  <2>2. CASE WriteOutcome(w)
    BY <1>8, <2>1, <2>2, WriteOutcomeTyped DEF Commit, CommitLost
  <2>3. CASE ~WriteOutcome(w)
    BY <1>8, <2>1, <2>3 DEF Commit, CommitLost
  <2>. QED  BY <2>2, <2>3
<1>. QED  BY <1>1, <1>2, <1>3, <1>4, <1>5, <1>6, <1>7, <1>8

\* The end of a call, the purge, time and new jobs.
LEMMA EndTyped ==
  ASSUME TypeInv,
         \/ \E w \in Workers : Release(w) \/ Throw(w) \/ Crash(w) \/ PurgeCommit(w)
         \/ Environment
  PROVE  TypeInv'
<1>. USE BulkAssumption DEF TypeInv, TypeOK
<1>1. ASSUME NEW w \in Workers, Release(w) PROVE TypeInv'
  <2>1. row' \in [Jobs -> Row] /\ latest' \subseteq Workers
    <3>1. job[w] \in Jobs
      BY <1>1 DEF Release, JobHeld, Busy
    <3>. DEFINE n == IF w \in retry THEN Backoff ELSE 0
    <3>2. n \in Nat
      OBVIOUS
    <3>3. [row EXCEPT ![job[w]].holder = "none", ![job[w]].left = n] \in [Jobs -> Row]
      <4>. HIDE DEF n
      <4>. QED  BY <3>1, <3>2, RowsTyped
    <3>. QED  BY <1>1, <3>3 DEF Release, LatestJob, AtCursor
  <2>. QED  BY <1>1, <2>1, FinishTyped DEF Release
<1>2. ASSUME NEW w \in Workers, Throw(w) PROVE TypeInv'
  <2>1. CASE pc[w] \in {"load", "loop", "begin", "commit"}
    <3>1. pc' \in [Workers -> Labels] /\ JobHeld'
      BY <1>2, <2>1, GotoTyped DEF Throw, Labels, local, JobHeld, Busy
    <3>. QED  BY <1>2, <2>1, <3>1 DEF Throw, local
  <2>2. CASE pc[w] \notin {"load", "loop", "begin", "commit"}
    BY <1>2, <2>2, FinishTyped, ForgetTyped DEF Throw
  <2>. QED  BY <2>1, <2>2
<1>3. ASSUME NEW w \in Workers, Crash(w) PROVE TypeInv'
  BY <1>3, FinishTyped, ForgetTyped DEF Crash
<1>4. ASSUME NEW w \in Workers, PurgeCommit(w) PROVE TypeInv'
  <2>1. job[w] \in Jobs
    BY <1>4 DEF PurgeCommit, JobHeld, Busy
  <2>2. row' \in [Jobs -> Row] /\ latest' \subseteq Workers
    <3>1. /\ [row EXCEPT ![job[w]].state = "expired"] \in [Jobs -> Row]
          /\ [row EXCEPT ![job[w]].state = "purging"] \in [Jobs -> Row]
      BY <2>1, RowsTyped
    <3>2. \/ UNCHANGED <<row, latest>>
          \/ /\ row' = [row EXCEPT ![job[w]].state =
                               IF AllGone(job[w]) THEN "expired" ELSE "purging"]
             /\ latest' = LatestJob(job[w], w)
      BY <1>4 DEF PurgeCommit
    <3>. QED  BY <3>1, <3>2 DEF LatestJob, AtCursor
  <2>3. blobs' \in [Jobs -> SUBSET Nat]
    <3>1. blobs' = blobs \/ \E T : blobs' = [blobs EXCEPT ![job[w]] = blobs[job[w]] \ T]
      BY <1>4 DEF PurgeCommit
    <3>. QED  BY <2>1, <3>1, PayloadPurged
  <2>4. outcomes' \in [Jobs -> SUBSET Outcome]
    <3>1. outcomes' = outcomes \/ \E T : outcomes' = [outcomes EXCEPT ![job[w]] =
                                                       IF blobs[job[w]] = {} THEN @ \ T ELSE @]
      BY <1>4 DEF PurgeCommit
    <3>. QED  BY <3>1
  <2>. QED  BY <1>4, <2>2, <2>3, <2>4, FinishTyped DEF PurgeCommit
<1>5. CASE Tick
  <2>1. \A j \in Jobs : Ages(j) => row[j].left - 1 \in Nat
    BY DEF Ages, Row
  <2>2. row' \in [Jobs -> Row]
    BY <1>5, <2>1, RowTyped DEF Tick
  <2>. QED  BY <1>5, <2>2 DEF Tick, local, JobHeld
<1>6. ASSUME NEW j \in Jobs, Enqueue(j) PROVE TypeInv'
  <2>1. row' \in [Jobs -> Row]
    BY <1>6, RowTyped DEF Enqueue
  <2>. QED  BY <1>6, <2>1 DEF Enqueue, local, JobHeld
<1>. QED  BY <1>1, <1>2, <1>3, <1>4, <1>5, <1>6 DEF Environment

\* Every step.
LEMMA TypeStep == TypeInv /\ [Next]_vars => TypeInv'
<1>. SUFFICES ASSUME TypeInv, [Next]_vars PROVE TypeInv'
  OBVIOUS
<1>1. CASE UNCHANGED vars
  BY <1>1 DEF vars, TypeInv, TypeOK, JobHeld
<1>2. CASE Environment
  BY <1>2, EndTyped
<1>3. ASSUME NEW w \in Workers, Regular(w) \/ Fault(w) PROVE TypeInv'
  BY <1>3, QueueTyped, OperationsTyped, EndTyped DEF Regular, Fault
<1>. QED  BY <1>1, <1>2, <1>3 DEF Next

\* In every reachable state every variable has its type, and a worker that is
\* past the cursor has a job.
THEOREM TypeInvCorrect == Spec => []TypeInv
BY TypeInit, TypeStep, PTL DEF Spec

\* In every reachable state every variable has its type, for any jobs, queues
\* and workers.
THEOREM TypeCorrect == Spec => []TypeOK
<1>1. TypeInv => TypeOK
  BY DEF TypeInv
<1>. QED  BY <1>1, TypeInvCorrect, PTL

-----------------------------------------------------------------------------
(* The inductive invariant behind the promise of BulkProgress.             *)

\* Nothing is written for a job that was not submitted, and a job that is
\* complete does not stay in the queue.
Unstarted == \A j \in Jobs : row[j].state = "none" => outcomes[j] = {} /\ log[j] = <<>>
Unfinished == \A j \in Jobs : row[j].state = "ready" => ~Progress!Complete(j, log[j])

Accounts == OutcomesNumbered /\ Unstarted /\ Unfinished

\* A worker that knows the latest revision of the job it holds knows its
\* outcomes; what it carries out is pending as far as it knows.
Working == {"loop", "begin", "commit"}

KnownLatest ==
  \A w \in Workers :
    pc[w] \in Working /\ w \in latest /\ row[job[w]].holder = w => known[w] = outcomes[job[w]]

Chosen ==
  \A w \in Workers :
    /\ pc[w] \in {"begin", "commit"} => doing[w].op \in Pending(w)
    /\ pc[w] = "commit" /\ doing[w].ok => doing[w].op \in Ready(w)

ProgressInv == TypeInv /\ Accounts /\ KnownLatest /\ Chosen

\* BulkProgress counts as FiniteSets does.
LEMMA SameCardinality == \A S : Progress!Cardinality(S) = Cardinality(S)
BY DEF Progress!Cardinality, Cardinality

\* The errors of a sequence of operations are counted one by one.
LEMMA ErrorsCounted ==
  ASSUME NEW s \in Seq(Entry), NEW e \in Entry
  PROVE  /\ Progress!Errors(<<>>) = 0
         /\ Progress!Errors(s) \in Nat
         /\ Progress!Errors(Append(s, e)) =
              IF e.ok THEN Progress!Errors(s) ELSE Progress!Errors(s) + 1
<1>. DEFINE E(t) == {k \in DOMAIN t : ~t[k].ok}
            n == Len(s) + 1
<1>1. Progress!Errors(<<>>) = 0
  <2>1. E(<<>>) = {}
    OBVIOUS
  <2>2. Cardinality({}) = 0
    BY FS_EmptySet
  <2>. QED  BY <2>1, <2>2, SameCardinality DEF Progress!Errors
<1>2. IsFiniteSet(E(s))
  <2>1. IsFiniteSet(1 .. Len(s))
    BY FS_Interval
  <2>2. E(s) \subseteq 1 .. Len(s)
    OBVIOUS
  <2>. QED  BY <2>1, <2>2, FS_Subset
<1>3. Cardinality(E(s)) \in Nat
  BY <1>2, FS_CardinalityType
<1>4. E(Append(s, e)) = IF e.ok THEN E(s) ELSE E(s) \cup {n}
  <2>1. DOMAIN Append(s, e) = DOMAIN s \cup {n} /\ n \notin DOMAIN s
    OBVIOUS
  <2>2. \A k \in DOMAIN s : Append(s, e)[k] = s[k]
    OBVIOUS
  <2>3. Append(s, e)[n] = e
    OBVIOUS
  <2>. QED  BY <2>1, <2>2, <2>3
<1>5. n \notin E(s)
  OBVIOUS
<1>6. Cardinality(E(s) \cup {n}) = Cardinality(E(s)) + 1
  BY <1>2, <1>5, FS_AddElement
<1>7. Progress!Errors(s) = Cardinality(E(s))
      /\ Progress!Errors(Append(s, e)) = Cardinality(E(Append(s, e)))
  BY SameCardinality DEF Progress!Errors
<1>. HIDE DEF E
<1>8. CASE e.ok
  BY <1>1, <1>3, <1>4, <1>7, <1>8
<1>9. CASE ~e.ok
  BY <1>1, <1>3, <1>4, <1>6, <1>7, <1>9
<1>. QED  BY <1>8, <1>9

\* A step that leaves the outcomes and the progress of the rows alone.
LEMMA AccountsKept ==
  ASSUME TypeInv, Accounts, UNCHANGED <<outcomes, blobs, log>>,
         \A j \in Jobs : /\ row'[j].completed = row[j].completed
                          /\ row'[j].errors = row[j].errors
                          /\ row'[j].state = row[j].state
  PROVE  Accounts'
<1>1. OutcomesNumbered'
  BY DEF Accounts, OutcomesNumbered, Progress!Errors
<1>2. Unstarted'
  BY DEF Accounts, Unstarted
<1>3. Unfinished'
  BY DEF Accounts, Unfinished, Progress!Errors, Progress!Complete
<1>. QED  BY <1>1, <1>2, <1>3 DEF Accounts

\* A step of w after which it carries nothing out, and which hides what it
\* changes from the workers on the same job.
LEMMA LocalsKept ==
  ASSUME TypeInv, KnownLatest, Chosen, NEW w \in Workers, pc'[w] \notin Working,
         \A v \in Workers \ {w} :
           /\ pc'[v] = pc[v] /\ job'[v] = job[v] /\ known'[v] = known[v] /\ doing'[v] = doing[v]
           /\ pc[v] \in Working /\ v \in latest' /\ row'[job[v]].holder = v
                => /\ v \in latest /\ row[job[v]].holder = v
                   /\ outcomes'[job[v]] = outcomes[job[v]]
  PROVE  KnownLatest' /\ Chosen'
<1>1. ASSUME NEW v \in Workers, pc'[v] \in Working
      PROVE  v # w /\ pc'[v] = pc[v] /\ job'[v] = job[v] /\ known'[v] = known[v]
             /\ doing'[v] = doing[v]
  BY <1>1
<1>2. KnownLatest'
  BY <1>1 DEF KnownLatest
<1>3. Chosen'
  BY <1>1 DEF Chosen, Working, Pending, Ready
<1>. QED  BY <1>2, <1>3

-----------------------------------------------------------------------------
(* The steps.                                                              *)

\* The outcomes of a sequence of operations tell which were decided, and how.
LEMMA NumberedTell ==
  ASSUME NEW s \in Seq(Entry), NEW S,
         S = {[op |-> s[k].op, index |-> k - 1, ok |-> s[k].ok] : k \in DOMAIN s}
  PROVE  Decided(S) = Progress!Decided(s) /\ Succeeded(S) = Progress!Succeeded(s)
<1>1. \A k \in DOMAIN s : \E o \in S : o.op = s[k].op /\ o.ok = s[k].ok
  <2>1. \A k \in DOMAIN s : [op |-> s[k].op, index |-> k - 1, ok |-> s[k].ok] \in S
    OBVIOUS
  <2>. QED  BY <2>1
<1>2. \A o \in S : \E k \in DOMAIN s : o.op = s[k].op /\ o.ok = s[k].ok
  OBVIOUS
<1>3. Decided(S) = Progress!Decided(s)
  <2>1. ASSUME NEW x \in Decided(S) PROVE x \in Progress!Decided(s)
    <3>1. PICK o \in S : x = o.op
      BY <2>1 DEF Decided
    <3>2. PICK k \in DOMAIN s : o.op = s[k].op
      BY <1>2
    <3>. QED  BY <3>1, <3>2 DEF Progress!Decided
  <2>2. ASSUME NEW x \in Progress!Decided(s) PROVE x \in Decided(S)
    <3>1. PICK k \in DOMAIN s : x = s[k].op
      BY <2>2 DEF Progress!Decided
    <3>2. PICK o \in S : o.op = s[k].op
      BY <1>1
    <3>. QED  BY <3>1, <3>2 DEF Decided
  <2>. QED  BY <2>1, <2>2
<1>4. Succeeded(S) = Progress!Succeeded(s)
  <2>1. ASSUME NEW x \in Succeeded(S) PROVE x \in Progress!Succeeded(s)
    <3>1. PICK o \in S : o.ok /\ x = o.op
      BY <2>1 DEF Succeeded
    <3>2. PICK k \in DOMAIN s : o.op = s[k].op /\ o.ok = s[k].ok
      BY <1>2
    <3>. QED  BY <3>1, <3>2 DEF Progress!Succeeded
  <2>2. ASSUME NEW x \in Progress!Succeeded(s) PROVE x \in Succeeded(S)
    <3>1. PICK k \in DOMAIN s : s[k].ok /\ x = s[k].op
      BY <2>2 DEF Progress!Succeeded
    <3>2. PICK o \in S : o.op = s[k].op /\ o.ok = s[k].ok
      BY <1>1
    <3>. QED  BY <3>1, <3>2 DEF Succeeded
  <2>. QED  BY <2>1, <2>2
<1>. QED  BY <1>3, <1>4

\* What a worker that may write knows is what has taken effect so far, so its
\* operation is one that BulkProgress allows.
LEMMA WriterDecides ==
  ASSUME ProgressInv, NEW w \in Workers, pc[w] = "commit", Writable(w), WriteOutcome(w)
  PROVE  /\ job[w] \in Jobs /\ doing[w] \in Entry
         /\ Progress!Decide(job[w], doing[w])
         /\ doing[w].op \in 1 .. Count[job[w]]
<1>. DEFINE j == job[w]
<1>1. j \in Jobs /\ doing[w] \in Entry /\ row[j].state = "ready"
  BY DEF ProgressInv, TypeInv, TypeOK, JobHeld, Busy, Writable
<1>2. known[w] = outcomes[j]
  BY DEF ProgressInv, KnownLatest, Working, Writable, Owned
<1>3. known[w] = {[op |-> log[j][k].op, index |-> k - 1, ok |-> log[j][k].ok] : k \in DOMAIN log[j]}
  BY <1>1, <1>2 DEF ProgressInv, Accounts, OutcomesNumbered
<1>4. Decided(known[w]) = Progress!Decided(log[j])
      /\ Succeeded(known[w]) = Progress!Succeeded(log[j])
  <2>1. log[j] \in Seq(Entry)
    BY <1>1 DEF ProgressInv, TypeInv, TypeOK
  <2>. QED  BY <1>3, <2>1, NumberedTell
<1>6. doing[w].op \in 1 .. Count[j] \ Progress!Decided(log[j])
  BY <1>4 DEF ProgressInv, Chosen, Pending
<1>7. doing[w].ok => Needs[j][doing[w].op] \subseteq Progress!Succeeded(log[j])
  BY <1>4 DEF ProgressInv, Chosen, Ready
<1>8. ~Progress!Complete(j, log[j])
  BY <1>1 DEF ProgressInv, Accounts, Unfinished
<1>9. log' = [log EXCEPT ![j] = Append(@, doing[w])]
  BY DEF WriteOutcome
<1>. QED  BY <1>1, <1>6, <1>7, <1>8, <1>9 DEF Progress!Decide

\* Writing an outcome keeps the accounts.
LEMMA WriterAccounts ==
  ASSUME ProgressInv, NEW w \in Workers, pc[w] = "commit", Writable(w), WriteOutcome(w)
  PROVE  Accounts'
<1>. DEFINE j == job[w]
            e == doing[w]
            m == IF e.ok THEN row[j].errors ELSE row[j].errors + 1
            o == [op |-> e.op, index |-> row[j].completed, ok |-> e.ok]
<1>1. j \in Jobs /\ e \in Entry /\ row[j].state = "ready"
  BY DEF ProgressInv, TypeInv, TypeOK, JobHeld, Busy, Writable
<1>2. log[j] \in Seq(Entry) /\ row[j] \in Row
  BY <1>1 DEF ProgressInv, TypeInv, TypeOK
<1>3. row[j].completed = Len(log[j]) /\ row[j].errors = Progress!Errors(log[j])
  BY <1>1 DEF ProgressInv, Accounts, OutcomesNumbered
<1>4. /\ row' = [row EXCEPT ![j] = [row[j] EXCEPT !.completed = row[j].completed + 1, !.errors = m,
                                          !.state = IF Completes(w) THEN "complete" ELSE "ready"]]
      /\ outcomes' = [outcomes EXCEPT ![j] = @ \cup {o}]
      /\ log' = [log EXCEPT ![j] = Append(@, e)]
  BY DEF WriteOutcome
<1>5. \A i \in Jobs \ {j} : row'[i] = row[i] /\ outcomes'[i] = outcomes[i] /\ log'[i] = log[i]
                            /\ blobs'[i] = blobs[i]
  BY <1>1 DEF WriteOutcome, ProgressInv, TypeInv, TypeOK
<1>6. log'[j] = Append(log[j], e) /\ outcomes'[j] = outcomes[j] \cup {o}
  BY <1>1, <1>4 DEF ProgressInv, TypeInv, TypeOK
<1>7. /\ row'[j].completed = row[j].completed + 1 /\ row'[j].errors = m
      /\ row'[j].state = IF Completes(w) THEN "complete" ELSE "ready"
  BY <1>1, <1>2, <1>4 DEF ProgressInv, TypeInv, TypeOK, Row
<1>8. row'[j].completed = Len(log'[j]) /\ row'[j].errors = Progress!Errors(log'[j])
  BY <1>1, <1>2, <1>3, <1>6, <1>7, ErrorsCounted
<1>9. outcomes'[j] = {[op |-> log'[j][k].op, index |-> k - 1, ok |-> log'[j][k].ok] :
                        k \in DOMAIN log'[j]}
  <2>1. outcomes[j] = {[op |-> log[j][k].op, index |-> k - 1, ok |-> log[j][k].ok] :
                         k \in DOMAIN log[j]}
    BY <1>1 DEF ProgressInv, Accounts, OutcomesNumbered
  <2>2. DOMAIN log'[j] = DOMAIN log[j] \cup {Len(log[j]) + 1}
    BY <1>2, <1>6
  <2>3. \A k \in DOMAIN log[j] : log'[j][k] = log[j][k]
    BY <1>2, <1>6
  <2>4. log'[j][Len(log[j]) + 1] = e /\ Len(log[j]) + 1 - 1 = row[j].completed
    BY <1>2, <1>3, <1>6
  <2>. QED  BY <1>6, <2>1, <2>2, <2>3, <2>4
<1>10. row'[j].state = "ready" => ~Progress!Complete(j, log'[j])
  <2>1. Completes(w) <=> CompletesAt(j, row[j].completed + 1, m)
    BY DEF Completes
  <2>2. CompletesAt(j, row[j].completed + 1, m) <=> Progress!Complete(j, log'[j])
    BY <1>7, <1>8 DEF CompletesAt, Progress!Complete
  <2>. QED  BY <1>7, <2>1, <2>2
<1>11. OutcomesNumbered'
  <2>. DEFINE Fine(i) ==
         /\ row'[i].completed = Len(log'[i]) /\ row'[i].errors = Progress!Errors(log'[i])
         /\ row'[i].state \in {"ready", "complete"} =>
              outcomes'[i] = {[op |-> log'[i][k].op, index |-> k - 1, ok |-> log'[i][k].ok] :
                                k \in DOMAIN log'[i]}
         /\ row'[i].state = "expired" => outcomes'[i] = {} /\ blobs'[i] = {}
  <2>1. ASSUME NEW i \in Jobs \ {j} PROVE Fine(i)
    BY <1>5 DEF ProgressInv, Accounts, OutcomesNumbered
  <2>2. Fine(j)
    BY <1>7, <1>8, <1>9
  <2>3. \A i \in Jobs : Fine(i)
    BY <2>1, <2>2
  <2>. QED  BY <2>3 DEF OutcomesNumbered, Progress!Errors
<1>12. Unstarted'
  BY <1>5, <1>7 DEF ProgressInv, Accounts, Unstarted
<1>13. Unfinished'
  <2>1. ASSUME NEW i \in Jobs \ {j}, row'[i].state = "ready"
        PROVE  ~Progress!Complete(i, log'[i])
    BY <1>5, <2>1 DEF ProgressInv, Accounts, Unfinished
  <2>2. \A i \in Jobs : row'[i].state = "ready" => ~Progress!Complete(i, log'[i])
    BY <1>10, <2>1
  <2>. QED  BY <2>2 DEF Unfinished, Progress!Complete, Progress!Errors
<1>. QED  BY <1>11, <1>12, <1>13 DEF Accounts

\* What is left of a row when its lease is taken by w, given up or lost.
LEMMA LeaseOnly ==
  ASSUME TypeInv, NEW w \in Workers, NEW j \in Jobs,
         \/ UNCHANGED row
         \/ \E h \in {w, "none"}, n \in Nat :
              row' = [row EXCEPT ![job[w]].holder = h, ![job[w]].left = n]
         \/ \E n \in Nat : row' = [row EXCEPT ![job[w]].left = n]
         \/ Forget(w)
  PROVE  /\ row'[j].completed = row[j].completed
         /\ row'[j].errors = row[j].errors
         /\ row'[j].state = row[j].state
         /\ row'[j].holder \in {row[j].holder, w, "none", "lost"}
<1>1. row[j] \in Row /\ DOMAIN row = Jobs
  BY DEF TypeInv, TypeOK
<1>2. CASE UNCHANGED row
  BY <1>2
<1>3. ASSUME NEW h \in {w, "none"}, NEW n \in Nat,
             row' = [row EXCEPT ![job[w]].holder = h, ![job[w]].left = n]
      PROVE  row'[j] = row[j] \/ row'[j] = [row[j] EXCEPT !.holder = h, !.left = n]
  BY <1>1, <1>3
<1>4. ASSUME NEW n \in Nat, row' = [row EXCEPT ![job[w]].left = n]
      PROVE  /\ row'[j].completed = row[j].completed
             /\ row'[j].errors = row[j].errors
             /\ row'[j].state = row[j].state
             /\ row'[j].holder = row[j].holder
  <2>1. row'[j] = row[j] \/ row'[j] = [row[j] EXCEPT !.left = n]
    BY <1>1, <1>4
  <2>. QED  BY <1>1, <2>1 DEF Row
<1>5. CASE Forget(w)
  <2>1. row'[j] = row[j] \/ row'[j] = [row[j] EXCEPT !.holder = "lost"]
    BY <1>5 DEF Forget
  <2>. QED  BY <1>1, <2>1 DEF Row
<1>6. ASSUME NEW h \in {w, "none"}, NEW n \in Nat, row'[j] = [row[j] EXCEPT !.holder = h, !.left = n]
      PROVE  /\ row'[j].completed = row[j].completed
             /\ row'[j].errors = row[j].errors
             /\ row'[j].state = row[j].state
             /\ row'[j].holder = h
  BY <1>1, <1>6 DEF Row
<1>. QED  BY <1>1, <1>2, <1>3, <1>4, <1>5, <1>6

\* A step by which w stops working: outcomes and progress stay as they are.
LEMMA StoppingKeeps ==
  ASSUME ProgressInv, TypeInv', NEW w \in Workers,
         \/ Find(w) \/ Checkpoint(w) \/ Dispatch(w) \/ NoToken(w) \/ Claim(w) \/ Acquire(w)
         \/ MeetRetryable(w) \/ Stop(w) \/ Release(w) \/ Throw(w) \/ Crash(w)
         \/ \E j \in Jobs : Process(w, j) \/ Purge(w, j)
  PROVE  ProgressInv'
<1>. DEFINE Same(v) == /\ pc'[v] = pc[v] /\ job'[v] = job[v] /\ known'[v] = known[v]
                       /\ doing'[v] = doing[v]
            Kept(v) == pc[v] \in Working /\ v \in latest' /\ row'[job[v]].holder = v
                         => v \in latest /\ row[job[v]].holder = v
<1>1. UNCHANGED <<outcomes, blobs, log>>
  BY DEF Find, Checkpoint, Dispatch, NoToken, Claim, Acquire, MeetRetryable, Stop, Release,
         Throw, Crash, Process, Purge
<1>0. \/ UNCHANGED row
      \/ \E h \in {w, "none"}, n \in Nat :
           row' = [row EXCEPT ![job[w]].holder = h, ![job[w]].left = n]
      \/ Forget(w)
  <2>1. CASE Acquire(w)
    <3>1. Lease \in Nat
      BY BulkAssumption
    <3>. QED  BY <2>1, <3>1 DEF Acquire
  <2>2. CASE Release(w)
    <3>. DEFINE n == IF w \in retry THEN Backoff ELSE 0
    <3>1. n \in Nat
      BY BulkAssumption
    <3>2. UNCHANGED row \/ row' = [row EXCEPT ![job[w]].holder = "none", ![job[w]].left = n]
      BY <2>2 DEF Release
    <3>. HIDE DEF n
    <3>. QED  BY <3>1, <3>2
  <2>. QED  BY <2>1, <2>2 DEF Find, Checkpoint, Dispatch, NoToken, Claim, MeetRetryable, Stop,
                              Throw, Crash, Process, Purge
<1>2. \A j \in Jobs : /\ row'[j].completed = row[j].completed
                       /\ row'[j].errors = row[j].errors
                       /\ row'[j].state = row[j].state
                       /\ row'[j].holder \in {row[j].holder, w, "none", "lost"}
  <2>1. TypeInv
    BY DEF ProgressInv
  <2>. QED  BY <1>0, <2>1, LeaseOnly
<1>3. pc'[w] \notin Working
  BY DEF Find, Checkpoint, Dispatch, NoToken, Claim, Acquire, MeetRetryable, Stop, Release,
         Throw, Crash, Process, Purge, Goto, Finish, Working, ProgressInv, TypeInv, TypeOK
<1>4. \A v \in Workers \ {w} : Same(v)
  BY DEF Find, Checkpoint, Dispatch, NoToken, Claim, Acquire, MeetRetryable, Stop, Release,
         Throw, Crash, Process, Purge, Goto, Finish, local, ProgressInv, TypeInv, TypeOK
<1>5. ASSUME NEW v \in Workers \ {w}, pc[v] \in Working PROVE Kept(v)
  <2>1. job[v] \in Jobs
    BY <1>5 DEF ProgressInv, TypeInv, JobHeld, Working, Busy
  <2>2. v \in latest' => v \in latest
    BY DEF Find, Checkpoint, Dispatch, NoToken, Claim, Acquire, MeetRetryable, Stop, Release,
           Throw, Crash, Process, Purge, LatestCursor, LatestJob, AtCursor
  <2>3. row'[job[v]].holder = v => row[job[v]].holder = v
    BY <1>2, <2>1, BulkAssumption
  <2>. QED  BY <2>2, <2>3
<1>6. Accounts'
  BY <1>1, <1>2, AccountsKept DEF ProgressInv
<1>7. KnownLatest' /\ Chosen'
  BY <1>1, <1>3, <1>4, <1>5, LocalsKept DEF ProgressInv
<1>. QED  BY <1>6, <1>7 DEF ProgressInv

\* A step of w with an operation in hand: it knows what it read, carries out
\* what is pending, and hides what it changes from the workers on the same job.
LEMMA WorkerKept ==
  ASSUME TypeInv, KnownLatest, Chosen, NEW w \in Workers,
         \A v \in Workers \ {w} :
           /\ pc'[v] = pc[v] /\ job'[v] = job[v] /\ known'[v] = known[v] /\ doing'[v] = doing[v]
           /\ pc[v] \in Working /\ v \in latest' /\ row'[job[v]].holder = v
                => /\ v \in latest /\ row[job[v]].holder = v
                   /\ outcomes'[job[v]] = outcomes[job[v]],
         pc'[w] \in Working /\ w \in latest' /\ row'[job'[w]].holder = w
           => known'[w] = outcomes'[job'[w]],
         pc'[w] \in {"begin", "commit"} => doing'[w].op \in Pending(w)',
         pc'[w] = "commit" /\ doing'[w].ok => doing'[w].op \in Ready(w)'
  PROVE  KnownLatest' /\ Chosen'
<1>1. \A v \in Workers \ {w} :
        pc'[v] = pc[v] /\ job'[v] = job[v] /\ known'[v] = known[v] /\ doing'[v] = doing[v]
  OBVIOUS
<1>2. KnownLatest'
  <2>1. ASSUME NEW v \in Workers, v # w,
               pc'[v] \in Working, v \in latest', row'[job'[v]].holder = v
        PROVE  known'[v] = outcomes'[job'[v]]
    BY <1>1, <2>1 DEF KnownLatest
  <2>. QED  BY <2>1 DEF KnownLatest
<1>3. Chosen'
  <2>1. ASSUME NEW v \in Workers, v # w
        PROVE  /\ pc'[v] \in {"begin", "commit"} => doing'[v].op \in Pending(v)'
               /\ pc'[v] = "commit" /\ doing'[v].ok => doing'[v].op \in Ready(v)'
    BY <1>1, <2>1 DEF Chosen, Pending, Ready
  <2>. QED  BY <2>1 DEF Chosen
<1>. QED  BY <1>2, <1>3

\* Who raises the revision of a job hides it from the others that work on it.
LEMMA OthersHidden ==
  ASSUME TypeInv, NEW w \in Workers, NEW v \in Workers \ {w},
         pc[v] \in Working, v \in LatestJob(job[w], w)
  PROVE  v \in latest /\ job[v] # job[w]
BY DEF LatestJob, AtCursor, Working

\* Reading a job, renewing its lease and beginning an operation.
LEMMA OperationKeeps ==
  ASSUME ProgressInv, TypeInv', NEW w \in Workers, Load(w) \/ Renew(w) \/ Begin(w)
  PROVE  ProgressInv'
<1>. DEFINE j == job[w]
<1>. USE DEF ProgressInv
<1>1. UNCHANGED <<outcomes, blobs, log, job>>
  BY DEF Load, Renew, Begin
<1>2. \A v \in Workers \ {w} :
        pc'[v] = pc[v] /\ job'[v] = job[v] /\ known'[v] = known[v] /\ doing'[v] = doing[v]
  BY DEF Load, Renew, Begin, Goto, TypeInv, TypeOK
<1>3. j \in Jobs
  BY DEF Load, Renew, Begin, TypeInv, JobHeld, Busy
<1>4. UNCHANGED row \/ \E n \in Nat : row' = [row EXCEPT ![j].left = n]
  <2>1. Lease \in Nat
    BY BulkAssumption
  <2>. QED  BY <2>1 DEF Load, Renew, Begin
<1>5. \A i \in Jobs : /\ row'[i].completed = row[i].completed
                      /\ row'[i].errors = row[i].errors
                      /\ row'[i].state = row[i].state
                      /\ row'[i].holder = row[i].holder
  <2>1. row \in [Jobs -> Row]
    BY DEF TypeInv, TypeOK
  <2>2. ASSUME NEW n \in Nat, row' = [row EXCEPT ![j].left = n], NEW i \in Jobs
        PROVE  /\ row'[i].completed = row[i].completed /\ row'[i].errors = row[i].errors
               /\ row'[i].state = row[i].state /\ row'[i].holder = row[i].holder
    <3>1. row'[i] = row[i] \/ row'[i] = [row[i] EXCEPT !.left = n]
      BY <2>1, <2>2
    <3>. QED  BY <2>1, <3>1 DEF Row
  <2>. QED  BY <1>4, <2>2
<1>6. Accounts'
  BY <1>1, <1>5, AccountsKept
<1>7. ASSUME NEW v \in Workers \ {w}, pc[v] \in Working, v \in latest', row'[job[v]].holder = v
      PROVE  /\ v \in latest /\ row[job[v]].holder = v
             /\ outcomes'[job[v]] = outcomes[job[v]]
  <2>1. v \in latest
    BY <1>7 DEF Load, Renew, Begin, LatestJob, AtCursor
  <2>2. job[v] \in Jobs
    BY <1>7 DEF Working, TypeInv, JobHeld, Busy
  <2>. QED  BY <1>1, <1>5, <1>7, <2>1, <2>2
<1>8. /\ pc'[w] \in Working /\ w \in latest' /\ row'[job'[w]].holder = w
           => known'[w] = outcomes'[job'[w]]
      /\ pc'[w] \in {"begin", "commit"} => doing'[w].op \in Pending(w)'
      /\ pc'[w] = "commit" /\ doing'[w].ok => doing'[w].op \in Ready(w)'
  <2>1. CASE Load(w)
    BY <1>1, <2>1 DEF Load, Goto, Working, TypeInv, TypeOK
  <2>2. CASE Renew(w)
    <3>1. UNCHANGED known /\ pc[w] = "loop"
      BY <2>2 DEF Renew
    <3>2. Pending(w)' = Pending(w)
      BY <1>1, <3>1 DEF Pending
    <3>3. CASE Owned(w)
      <4>1. NextOperation(w) \in Pending(w)
        BY <2>2, <1>3, NextOperationPending DEF Renew
      <4>2. doing'[w].op = NextOperation(w) /\ pc'[w] = "begin"
        BY <2>2, <3>3 DEF Renew, Goto, TypeInv, TypeOK
      <4>3. known[w] = outcomes[j]
        BY <3>1, <3>3 DEF Owned, KnownLatest, Working
      <4>. QED  BY <1>1, <3>1, <3>2, <4>1, <4>2, <4>3
    <3>4. CASE ~Owned(w)
      BY <2>2, <3>4 DEF Renew, Goto, Working, TypeInv, TypeOK
    <3>. QED  BY <3>3, <3>4
  <2>3. CASE Begin(w)
    <3>1. UNCHANGED <<known, latest, row>> /\ pc[w] = "begin"
      BY <2>3 DEF Begin
    <3>2. Pending(w)' = Pending(w) /\ Ready(w)' = Ready(w)
      BY <1>1, <3>1 DEF Pending, Ready
    <3>3. CASE pc'[w] # "commit"
      BY <2>3, <3>3 DEF Begin, Goto, Working, TypeInv, TypeOK
    <3>4. CASE pc'[w] = "commit"
      <4>1. pc' # [pc EXCEPT ![w] = "release"]
        BY <3>4 DEF TypeInv, TypeOK
      <4>2. PICK ok \in IF doing[w].op \in Ready(w) THEN BOOLEAN ELSE {FALSE} :
              doing' = [doing EXCEPT ![w].ok = ok]
        BY <2>3, <4>1 DEF Begin, Goto
      <4>3. doing'[w].op = doing[w].op /\ doing'[w].ok = ok
        BY <4>2 DEF TypeInv, TypeOK, Entry
      <4>4. known[w] = outcomes[j]
        BY <2>3, <3>1, <4>1 DEF Begin, Goto, Owned, KnownLatest, Working
      <4>5. doing[w].op \in Pending(w)
        BY <3>1 DEF Chosen
      <4>6. ok => doing[w].op \in Ready(w)
        BY <4>2
      <4>. QED  BY <1>1, <3>1, <3>2, <4>3, <4>4, <4>5, <4>6
    <3>. QED  BY <3>3, <3>4
  <2>. QED  BY <2>1, <2>2, <2>3
<1>9. KnownLatest' /\ Chosen'
  BY <1>2, <1>7, <1>8, WorkerKept
<1>. QED  BY <1>6, <1>9

\* Committing an operation, whether the worker hears of it or not.
LEMMA CommitKeeps ==
  ASSUME ProgressInv, TypeInv', NEW w \in Workers, Commit(w) \/ CommitLost(w)
  PROVE  ProgressInv'
<1>. DEFINE j == job[w]
<1>. USE DEF ProgressInv
<1>1. pc[w] = "commit" /\ UNCHANGED <<job, doing>> /\ j \in Jobs
  BY DEF Commit, CommitLost, TypeInv, JobHeld, Busy
<1>2. \A v \in Workers \ {w} : pc'[v] = pc[v] /\ job'[v] = job[v] /\ doing'[v] = doing[v]
  BY DEF Commit, CommitLost, Goto, TypeInv, TypeOK
<1>3. CASE ~(Writable(w) /\ WriteOutcome(w))
  <2>1. UNCHANGED <<row, outcomes, blobs, log, latest, known>> /\ pc' = [pc EXCEPT ![w] = "release"]
    BY <1>3 DEF Commit, CommitLost, Goto
  <2>2. pc'[w] \notin Working
    BY <2>1 DEF Working, TypeInv, TypeOK
  <2>3. Accounts'
    BY <2>1, AccountsKept
  <2>4. KnownLatest' /\ Chosen'
    BY <1>2, <2>1, <2>2, LocalsKept
  <2>. QED  BY <2>3, <2>4
<1>4. CASE Writable(w) /\ WriteOutcome(w)
  <2>. DEFINE o == [op |-> doing[w].op, index |-> row[j].completed, ok |-> doing[w].ok]
  <2>1. Accounts'
    BY <1>1, <1>4, WriterAccounts
  <2>2. outcomes' = [outcomes EXCEPT ![j] = @ \cup {o}] /\ known' = [known EXCEPT ![w] = @ \cup {o}]
        /\ latest' = LatestJob(j, w) /\ \E r : row' = [row EXCEPT ![j] = r]
    BY <1>4 DEF WriteOutcome
  <2>. HIDE DEF o
  <2>3. ASSUME NEW v \in Workers \ {w}, pc[v] \in Working, v \in latest', row'[job[v]].holder = v
        PROVE  /\ v \in latest /\ row[job[v]].holder = v
               /\ outcomes'[job[v]] = outcomes[job[v]]
    <3>1. v \in latest /\ job[v] # j
      BY <2>2, <2>3, OthersHidden
    <3>2. job[v] \in Jobs
      BY <2>3 DEF Working, TypeInv, JobHeld, Busy
    <3>3. row'[job[v]] = row[job[v]] /\ outcomes'[job[v]] = outcomes[job[v]]
      BY <1>1, <2>2, <3>1, <3>2 DEF TypeInv, TypeOK
    <3>. QED  BY <2>3, <3>1, <3>3
  <2>4. known'[w] = outcomes'[j]
    <3>1. known[w] = outcomes[j]
      BY <1>1, <1>4 DEF Writable, Owned, KnownLatest, Working
    <3>. QED  BY <1>1, <2>2, <3>1 DEF TypeInv, TypeOK
  <2>5. pc'[w] \notin {"begin", "commit"}
    BY DEF Commit, CommitLost, Goto, TypeInv, TypeOK
  <2>6. \A v \in Workers \ {w} : known'[v] = known[v]
    BY <2>2 DEF TypeInv, TypeOK
  <2>7. KnownLatest' /\ Chosen'
    BY <1>1, <1>2, <2>3, <2>4, <2>5, <2>6, WorkerKept
  <2>. QED  BY <2>1, <2>7
<1>. QED  BY <1>3, <1>4

\* Deleting some of the results of a job.
LEMMA PurgeKeeps ==
  ASSUME ProgressInv, TypeInv', NEW w \in Workers, PurgeCommit(w)
  PROVE  ProgressInv'
<1>. DEFINE j == job[w]
            s == IF AllGone(j) THEN "expired" ELSE "purging"
<1>. USE DEF ProgressInv
<1>1. UNCHANGED log /\ j \in Jobs
  BY DEF PurgeCommit, TypeInv, JobHeld, Busy
<1>2. /\ pc'[w] \notin Working
      /\ \A v \in Workers \ {w} :
           pc'[v] = pc[v] /\ job'[v] = job[v] /\ known'[v] = known[v] /\ doing'[v] = doing[v]
  BY DEF PurgeCommit, Finish, Goto, Working, TypeInv, TypeOK
<1>3. CASE w \notin latest
  <2>1. UNCHANGED <<row, outcomes, blobs, latest>>
    BY <1>3 DEF PurgeCommit
  <2>2. Accounts'
    BY <1>1, <2>1, AccountsKept
  <2>3. KnownLatest' /\ Chosen'
    BY <1>2, <2>1, LocalsKept
  <2>. QED  BY <2>2, <2>3
<1>4. CASE w \in latest
  <2>1. /\ row' = [row EXCEPT ![j].state = s]
        /\ latest' = LatestJob(j, w)
        /\ \E T : blobs' = [blobs EXCEPT ![j] = @ \ T]
        /\ \E T : outcomes' = [outcomes EXCEPT ![j] = IF blobs[j] = {} THEN @ \ T ELSE @]
    BY <1>4 DEF PurgeCommit
  <2>2. \A i \in Jobs \ {j} : row'[i] = row[i] /\ outcomes'[i] = outcomes[i] /\ blobs'[i] = blobs[i]
    BY <2>1 DEF TypeInv, TypeOK
  <2>3. /\ row'[j].completed = row[j].completed /\ row'[j].errors = row[j].errors
        /\ row'[j].state = s
    BY <1>1, <2>1 DEF TypeInv, TypeOK, Row
  <2>4. blobs'[j] \subseteq blobs[j] /\ outcomes'[j] \subseteq outcomes[j]
    BY <1>1, <2>1 DEF TypeInv, TypeOK
  <2>5. OutcomesNumbered'
    <3>. DEFINE Fine(i) ==
           /\ row'[i].completed = Len(log'[i]) /\ row'[i].errors = Progress!Errors(log'[i])
           /\ row'[i].state \in {"ready", "complete"} =>
                outcomes'[i] = {[op |-> log'[i][k].op, index |-> k - 1, ok |-> log'[i][k].ok] :
                                  k \in DOMAIN log'[i]}
           /\ row'[i].state = "expired" => outcomes'[i] = {} /\ blobs'[i] = {}
    <3>1. ASSUME NEW i \in Jobs \ {j} PROVE Fine(i)
      BY <1>1, <2>2 DEF Accounts, OutcomesNumbered
    <3>2. Fine(j)
      BY <1>1, <2>3, <2>4 DEF Accounts, OutcomesNumbered, AllGone
    <3>3. \A i \in Jobs : Fine(i)
      BY <3>1, <3>2
    <3>. QED  BY <3>3 DEF OutcomesNumbered, Progress!Errors
  <2>6. Unstarted' /\ Unfinished'
    <3>1. row'[j].state \notin {"none", "ready"}
      BY <2>3
    <3>2. \A i \in Jobs \ {j} :
            row'[i] = row[i] /\ outcomes'[i] = outcomes[i] /\ log'[i] = log[i]
      BY <1>1, <2>2
    <3>3. Unstarted'
      BY <3>1, <3>2 DEF Accounts, Unstarted
    <3>4. Unfinished'
      BY <3>1, <3>2 DEF Accounts, Unfinished, Progress!Complete, Progress!Errors
    <3>. QED  BY <3>3, <3>4
  <2>7. ASSUME NEW v \in Workers \ {w}, pc[v] \in Working, v \in latest', row'[job[v]].holder = v
        PROVE  /\ v \in latest /\ row[job[v]].holder = v
               /\ outcomes'[job[v]] = outcomes[job[v]]
    <3>1. v \in latest /\ job[v] # j
      BY <2>1, <2>7, OthersHidden
    <3>2. job[v] \in Jobs
      BY <2>7 DEF Working, TypeInv, JobHeld, Busy
    <3>. QED  BY <2>2, <2>7, <3>1, <3>2
  <2>8. KnownLatest' /\ Chosen'
    BY <1>2, <2>7, LocalsKept
  <2>. QED  BY <2>5, <2>6, <2>8 DEF Accounts
<1>. QED  BY <1>3, <1>4

\* Time passes, and a job is submitted.
LEMMA EnvironmentKeeps ==
  ASSUME ProgressInv, TypeInv', Environment
  PROVE  ProgressInv'
<1>. USE DEF ProgressInv
<1>1. UNCHANGED <<outcomes, pc, latest, job, known, doing, log>>
  BY DEF Environment, Tick, Enqueue, local
<1>2. CASE Tick
  <2>1. \A j \in Jobs : /\ row'[j].completed = row[j].completed
                        /\ row'[j].errors = row[j].errors
                        /\ row'[j].state = row[j].state
                        /\ row'[j].holder = row[j].holder
    <3>. SUFFICES ASSUME NEW j \in Jobs
                  PROVE  /\ row'[j].completed = row[j].completed
                         /\ row'[j].errors = row[j].errors
                         /\ row'[j].state = row[j].state
                         /\ row'[j].holder = row[j].holder
      OBVIOUS
    <3>1. row'[j] = row[j] \/ \E n : row'[j] = [row[j] EXCEPT !.left = n]
      BY <1>2 DEF Tick
    <3>. QED  BY <3>1 DEF TypeInv, TypeOK, Row
  <2>2. Accounts'
    BY <1>1, <1>2, <2>1, AccountsKept DEF Tick
  <2>3. KnownLatest' /\ Chosen'
    BY <1>1, <2>1 DEF KnownLatest, Chosen, Pending, Ready, Working, TypeInv, JobHeld, Busy
  <2>. QED  BY <2>2, <2>3
<1>3. ASSUME NEW j \in Jobs, Enqueue(j) PROVE ProgressInv'
  <2>1. /\ row[j].state = "none" /\ row' = [row EXCEPT ![j].state = "ready"]
        /\ blobs' = [blobs EXCEPT ![j] = {0}]
    BY <1>3 DEF Enqueue
  <2>2. \A i \in Jobs \ {j} : row'[i] = row[i] /\ blobs'[i] = blobs[i]
    BY <2>1 DEF TypeInv, TypeOK
  <2>3. /\ row'[j].completed = row[j].completed /\ row'[j].errors = row[j].errors
        /\ row'[j].state = "ready" /\ row'[j].holder = row[j].holder
    BY <2>1 DEF TypeInv, TypeOK, Row
  <2>4. outcomes[j] = {} /\ log[j] = <<>>
    BY <2>1 DEF Accounts, Unstarted
  <2>5. OutcomesNumbered'
    <3>1. {[op |-> log[j][k].op, index |-> k - 1, ok |-> log[j][k].ok] : k \in DOMAIN log[j]} = {}
      BY <2>4
    <3>. DEFINE Fine(i) ==
           /\ row[i].completed = Len(log[i]) /\ row[i].errors = Progress!Errors(log[i])
           /\ row[i].state \in {"ready", "complete"} =>
                outcomes[i] = {[op |-> log[i][k].op, index |-> k - 1, ok |-> log[i][k].ok] :
                               k \in DOMAIN log[i]}
           /\ row[i].state = "expired" => outcomes[i] = {} /\ blobs[i] = {}
    <3>2. \A i \in Jobs : Fine(i)
      BY DEF Accounts, OutcomesNumbered
    <3>3. ASSUME NEW i \in Jobs \ {j}
          PROVE  Fine(i)'
      <4>1. log'[i] = log[i] /\ outcomes'[i] = outcomes[i]
            /\ row'[i] = row[i] /\ blobs'[i] = blobs[i]
        BY <1>1, <2>2
      <4>2. Progress!Errors(log[i])' = Progress!Errors(log[i])
        BY <4>1 DEF Progress!Errors
      <4>3. Fine(i)
        BY <3>2
      <4>. QED  BY <4>1, <4>2, <4>3
    <3>4. Fine(j)'
      BY <1>1, <2>3, <2>4, <3>1, <3>2 DEF Progress!Errors
    <3>5. \A i \in Jobs : Fine(i)'
      BY <3>3, <3>4
    <3>. QED  BY <3>5 DEF OutcomesNumbered
  <2>6. ~Progress!Complete(j, log[j])
    <3>1. Progress!Errors(log[j]) = 0
      <4>1. [op |-> 0, ok |-> FALSE] \in Entry /\ <<>> \in Seq(Entry)
        BY DEF Entry
      <4>. QED  BY <2>4, <4>1, ErrorsCounted
    <3>2. Count[j] \in Nat \ {0} /\ FailOn[j] \in Nat
      BY BulkAssumption
    <3>. QED  BY <2>4, <3>1, <3>2 DEF Progress!Complete
  <2>7. Unstarted' /\ Unfinished'
    <3>1. outcomes' = outcomes /\ log' = log
      BY <1>3 DEF Enqueue
    <3>2. \A i \in Jobs : row'[i].state = "ready" => ~Progress!Complete(i, log[i])
      BY <2>2, <2>6 DEF Accounts, Unfinished
    <3>3. Unstarted'
      BY <2>2, <2>3, <3>1 DEF Accounts, Unstarted
    <3>. QED  BY <3>1, <3>2, <3>3 DEF Unfinished, Progress!Complete, Progress!Errors
  <2>8. \A i \in Jobs : row'[i].holder = row[i].holder
    BY <2>2, <2>3
  <2>9. KnownLatest' /\ Chosen'
    BY <1>1, <2>8 DEF KnownLatest, Chosen, Pending, Ready, Working, TypeInv, JobHeld, Busy
  <2>. QED  BY <2>5, <2>7, <2>9 DEF Accounts
<1>. QED  BY <1>2, <1>3 DEF Environment

\* The initial states.
LEMMA ProgressInit == Init => ProgressInv
<1>. SUFFICES ASSUME Init PROVE ProgressInv
  OBVIOUS
<1>1. Progress!Errors(<<>>) = 0
  <2>1. [op |-> 0, ok |-> FALSE] \in Entry /\ <<>> \in Seq(Entry)
    BY DEF Entry
  <2>. QED  BY <2>1, ErrorsCounted
<1>2. OutcomesNumbered
  BY <1>1 DEF Init, OutcomesNumbered
<1>3. Unstarted /\ Unfinished /\ KnownLatest /\ Chosen
  BY DEF Init, Unstarted, Unfinished, KnownLatest, Chosen, Working
<1>. QED  BY <1>2, <1>3, TypeInit DEF ProgressInv, Accounts

\* Every step.
LEMMA ProgressStep == ProgressInv /\ [Next]_vars => ProgressInv'
<1>. SUFFICES ASSUME ProgressInv, [Next]_vars PROVE ProgressInv'
  OBVIOUS
<1>0. TypeInv'
  BY TypeStep DEF ProgressInv
<1>1. CASE UNCHANGED vars
  <2>1. Accounts'
    BY <1>1, AccountsKept DEF vars, ProgressInv
  <2>2. KnownLatest' /\ Chosen'
    BY <1>1 DEF vars, ProgressInv, KnownLatest, Chosen, Pending, Ready
  <2>. QED  BY <1>0, <2>1, <2>2 DEF ProgressInv
<1>2. CASE Environment
  BY <1>0, <1>2, EnvironmentKeeps
<1>3. ASSUME NEW w \in Workers, Regular(w) \/ Fault(w) PROVE ProgressInv'
  <2>1. \/ Find(w) \/ Checkpoint(w) \/ Dispatch(w) \/ NoToken(w) \/ Claim(w) \/ Acquire(w)
        \/ MeetRetryable(w) \/ Stop(w) \/ Release(w) \/ Throw(w) \/ Crash(w)
        \/ (\E j \in Jobs : Process(w, j) \/ Purge(w, j))
        \/ Load(w) \/ Renew(w) \/ Begin(w) \/ Commit(w) \/ CommitLost(w) \/ PurgeCommit(w)
    BY <1>3 DEF Regular, Fault
  <2>. QED  BY <1>0, <2>1, StoppingKeeps, OperationKeeps, CommitKeeps, PurgeKeeps
<1>. QED  BY <1>1, <1>2, <1>3 DEF Next

\* The inductive invariant holds in every reachable state.
LEMMA ProgressInvCorrect == Spec => []ProgressInv
BY ProgressInit, ProgressStep, PTL DEF Spec

\* Whatever workers do, the outcomes of a job number its operations as they took
\* effect, the row counts them, and an expired job has nothing left
\* (bulk-job-storage.ts, writeOutcome and purgeBulkJob).
THEOREM OutcomesNumberedCorrect == Spec => []OutcomesNumbered
<1>1. ProgressInv => OutcomesNumbered
  BY DEF ProgressInv, Accounts
<1>. QED  BY <1>1, ProgressInvCorrect, PTL

\* Only a commit adds to the history.
LEMMA LogKept ==
  ASSUME NEW w \in Workers, Regular(w) \/ Fault(w), ~Commit(w), ~CommitLost(w)
  PROVE  log' = log
BY DEF Regular, Fault, Find, Checkpoint, Dispatch, NoToken, Claim, Acquire, MeetRetryable, Stop,
   Release, Throw, Crash, Process, Purge, Load, Renew, Begin, PurgeCommit

\* A step decides an operation as BulkProgress allows, or none.
LEMMA ProgressRefined == ProgressInv /\ [Next]_vars => [Progress!Next]_log
<1>. SUFFICES ASSUME ProgressInv, [Next]_vars PROVE Progress!Next \/ log' = log
  OBVIOUS
<1>1. CASE UNCHANGED vars \/ Environment
  BY <1>1 DEF vars, Environment, Tick, Enqueue
<1>2. ASSUME NEW w \in Workers, Commit(w) \/ CommitLost(w) PROVE Progress!Next \/ log' = log
  <2>1. pc[w] = "commit"
    BY <1>2 DEF Commit, CommitLost
  <2>3. CASE ~(Writable(w) /\ WriteOutcome(w))
    BY <1>2, <2>3 DEF Commit, CommitLost
  <2>2. CASE Writable(w) /\ WriteOutcome(w)
    <3>1. /\ job[w] \in Jobs /\ doing[w] \in Entry /\ Progress!Decide(job[w], doing[w])
          /\ doing[w].op \in 1 .. Count[job[w]]
      BY <2>1, <2>2, WriterDecides
    <3>2. doing[w] \in [op : 1 .. Count[job[w]], ok : BOOLEAN]
      BY <3>1 DEF Entry
    <3>. QED  BY <3>1, <3>2 DEF Progress!Next
  <2>. QED  BY <2>2, <2>3
<1>3. ASSUME NEW w \in Workers, Regular(w) \/ Fault(w) PROVE Progress!Next \/ log' = log
  BY <1>2, <1>3, LogKept
<1>. QED  BY <1>1, <1>3 DEF Next

\* Workers that race, crash, lose their leases and miss their commits carry the
\* operations of a job out one at a time, each at most once, in an order that
\* their references allow, and none after the job is complete: BulkJobs
\* implements BulkProgress (bulk-job-worker.ts, processSCIMBulkJob).
THEOREM RefinesProgressCorrect == Spec => RefinesProgress
<1>1. Init => Progress!Init
  BY DEF Init, Progress!Init
<1>. QED  BY <1>1, ProgressInvCorrect, ProgressRefined, PTL DEF Spec, RefinesProgress, Progress!Spec

-----------------------------------------------------------------------------
(* Leases.                                                                 *)

\* A worker about to claim a job that nobody has changed claims it free.
ClaimedFree ==
  \A w \in Workers : pc[w] = "acquire" /\ w \in latest => row[job[w]].left = 0

\* A step of w leaves the leases that others have, and the jobs that others claim.
LEMMA ClaimOthers ==
  ASSUME TypeInv, NEW w \in Workers, Regular(w) \/ Fault(w), NEW v \in Workers \ {w},
         pc'[v] = "acquire", v \in latest'
  PROVE  /\ pc[v] = "acquire" /\ v \in latest /\ job'[v] = job[v]
         /\ row'[job[v]].left = row[job[v]].left
<1>1. pc'[v] = pc[v] /\ job'[v] = job[v]
  BY DEF Regular, Fault, Find, Checkpoint, Dispatch, NoToken, Claim, Acquire, MeetRetryable,
     Stop, Release, Throw, Crash, Process, Purge, Load, Renew, Begin, PurgeCommit, Commit,
     CommitLost, Goto, Finish, local, TypeInv, TypeOK
<1>2. job[v] \in Jobs
  BY <1>1 DEF TypeInv, JobHeld, Busy
<1>3. CASE latest' = LatestJob(job[w], w) /\ \E r : row' = [row EXCEPT ![job[w]] = r]
  <2>1. v \in latest /\ job[v] # job[w]
    BY <1>1, <1>3 DEF LatestJob, AtCursor
  <2>. QED  BY <1>1, <1>2, <1>3, <2>1 DEF TypeInv, TypeOK
<1>4. CASE UNCHANGED row /\ latest' \subseteq latest \cup {w}
  BY <1>1, <1>4
<1>5. CASE Forget(w) /\ UNCHANGED latest
  <2>1. row'[job[v]] = row[job[v]] \/ row'[job[v]] = [row[job[v]] EXCEPT !.holder = "lost"]
    BY <1>2, <1>5 DEF Forget
  <2>. QED  BY <1>1, <1>2, <1>5, <2>1 DEF TypeInv, TypeOK, Row
<1>6. \/ latest' = LatestJob(job[w], w) /\ \E r : row' = [row EXCEPT ![job[w]] = r]
      \/ UNCHANGED row /\ latest' \subseteq latest \cup {w}
      \/ Forget(w) /\ UNCHANGED latest
  <2>1. CASE \/ Find(w) \/ Checkpoint(w) \/ Dispatch(w) \/ NoToken(w) \/ Claim(w) \/ Load(w)
             \/ Stop(w) \/ Begin(w) \/ MeetRetryable(w) \/ Throw(w) \/ Crash(w)
             \/ (\E j \in Jobs : Process(w, j) \/ Purge(w, j))
    BY <2>1 DEF Find, Checkpoint, Dispatch, NoToken, Claim, Load, Stop, Begin, MeetRetryable,
       Throw, Crash, Process, Purge, LatestCursor, AtCursor
  <2>2. CASE Acquire(w)
    BY <2>2 DEF Acquire
  <2>3. CASE Renew(w)
    BY <2>3 DEF Renew
  <2>4. CASE Release(w)
    BY <2>4 DEF Release
  <2>5. CASE Commit(w) \/ CommitLost(w)
    BY <2>5 DEF Commit, CommitLost, WriteOutcome
  <2>6. CASE PurgeCommit(w)
    BY <2>6 DEF PurgeCommit
  <2>. QED  BY <2>1, <2>2, <2>3, <2>4, <2>5, <2>6 DEF Regular, Fault
<1>. QED  BY <1>3, <1>4, <1>5, <1>6

\* A worker that claims a job, claims one that is free.
LEMMA ClaimStep == TypeInv /\ ClaimedFree /\ [Next]_vars => ClaimedFree'
<1>. SUFFICES ASSUME TypeInv, ClaimedFree, [Next]_vars,
                     NEW v \in Workers, pc'[v] = "acquire", v \in latest'
              PROVE  row'[job'[v]].left = 0
  BY DEF ClaimedFree
<1>1. CASE UNCHANGED vars
  BY <1>1 DEF vars, ClaimedFree
<1>2. CASE Environment
  <2>1. pc[v] = "acquire" /\ v \in latest /\ job'[v] = job[v] /\ job[v] \in Jobs
    BY <1>2 DEF Environment, Tick, Enqueue, local, TypeInv, JobHeld, Busy
  <2>2. row[job[v]].left = 0
    BY <2>1 DEF ClaimedFree
  <2>3. CASE Tick
    BY <2>1, <2>2, <2>3 DEF Tick, Ages
  <2>4. ASSUME NEW j \in Jobs, Enqueue(j) PROVE row'[job[v]].left = 0
    <3>1. row'[job[v]] = row[job[v]] \/ row'[job[v]] = [row[job[v]] EXCEPT !.state = "ready"]
      BY <2>1, <2>4 DEF Enqueue, TypeInv, TypeOK
    <3>. QED  BY <2>1, <2>2, <3>1 DEF TypeInv, TypeOK, Row
  <2>. QED  BY <1>2, <2>1, <2>3, <2>4 DEF Environment
<1>3. ASSUME NEW w \in Workers, Regular(w) \/ Fault(w) PROVE row'[job'[v]].left = 0
  <2>1. CASE v # w
    <3>1. /\ pc[v] = "acquire" /\ v \in latest /\ job'[v] = job[v]
          /\ row'[job[v]].left = row[job[v]].left
      BY <1>3, <2>1, ClaimOthers
    <3>. QED  BY <3>1 DEF ClaimedFree
  <2>2. CASE v = w
    <3>1. Claim(w) /\ pc' # [pc EXCEPT ![w] = "idle"]
      BY <1>3, <2>2 DEF Regular, Fault, Find, Checkpoint, Dispatch, NoToken, Claim, Acquire,
         MeetRetryable, Stop, Release, Throw, Crash, Process, Purge, Load, Renew, Begin,
         PurgeCommit, Commit, CommitLost, Goto, Finish, local, TypeInv, TypeOK
    <3>. QED  BY <2>2, <3>1 DEF Claim, Goto, Finish, local
  <2>. QED  BY <2>1, <2>2
<1>. QED  BY <1>1, <1>2, <1>3 DEF Next

\* A lease that runs is given up by who has it, or by a call that ends.
LEMMA LeaseStep ==
  ASSUME TypeInv, ClaimedFree, [Next]_vars, NEW w \in Workers, NEW j \in Jobs,
         row[j].holder = w, row[j].left > 0, row'[j].holder # w
  PROVE  pc[w] # "idle" /\ pc'[w] = "idle"
<1>1. row[j] \in Row /\ w \notin {"none", "lost"}
  BY BulkAssumption DEF TypeInv, TypeOK
<1>2. CASE UNCHANGED vars
  BY <1>2 DEF vars
<1>3. CASE Environment
  <2>1. CASE Tick
    <3>1. row'[j] = row[j] \/ \E n : row'[j] = [row[j] EXCEPT !.left = n]
      BY <2>1 DEF Tick
    <3>. QED  BY <1>1, <3>1 DEF Row
  <2>2. ASSUME NEW i \in Jobs, Enqueue(i)  PROVE FALSE
    <3>1. row'[j] = row[j] \/ row'[j] = [row[j] EXCEPT !.state = "ready"]
      BY <2>2 DEF Enqueue, TypeInv, TypeOK
    <3>. QED  BY <1>1, <3>1 DEF Row
  <2>. QED  BY <1>3, <2>1, <2>2 DEF Environment
<1>4. ASSUME NEW v \in Workers, Regular(v) \/ Fault(v)
      PROVE  pc[w] # "idle" /\ pc'[w] = "idle"
  <2>1. CASE UNCHANGED row
    BY <2>1
  <2>2. CASE Acquire(v) /\ Unclaimed(v)
    <3>1. row' = [row EXCEPT ![job[v]].holder = v, ![job[v]].left = Lease]
      BY <2>2 DEF Acquire
    <3>2. job[v] # j
      BY <2>2 DEF Acquire, Unclaimed, ClaimedFree
    <3>3. row'[j] = row[j]
      BY <3>1, <3>2 DEF TypeInv, TypeOK
    <3>. QED  BY <3>3
  <2>3. CASE Renew(v)
    <3>1. row' = row \/ row' = [row EXCEPT ![job[v]].left = Lease]
      BY <2>3 DEF Renew
    <3>2. row'[j] = row[j] \/ row'[j] = [row[j] EXCEPT !.left = Lease]
      BY <3>1 DEF TypeInv, TypeOK
    <3>. QED  BY <1>1, <3>2 DEF Row
  <2>4. CASE (Commit(v) \/ CommitLost(v)) /\ WriteOutcome(v)
    <3>1. row'[j] = row[j] \/ \E c, e, s :
            row'[j] = [row[j] EXCEPT !.completed = c, !.errors = e, !.state = s]
      BY <2>4 DEF WriteOutcome, TypeInv, TypeOK
    <3>. QED  BY <1>1, <3>1 DEF Row
  <2>5. CASE PurgeCommit(v)
    <3>. DEFINE s == IF AllGone(job[v]) THEN "expired" ELSE "purging"
    <3>2. row' = row \/ row' = [row EXCEPT ![job[v]].state = s]
      BY <2>5 DEF PurgeCommit
    <3>. HIDE DEF s
    <3>1. row'[j] = row[j] \/ row'[j] = [row[j] EXCEPT !.state = s]
      BY <3>2 DEF TypeInv, TypeOK
    <3>. QED  BY <1>1, <3>1 DEF Row
  <2>6. CASE Release(v) /\ Releasable(v)
    <3>1. pc[v] = "release" /\ pc'[v] = "idle"
      BY <2>6 DEF Release, Finish, Goto, TypeInv, TypeOK
    <3>2. \E n : row' = [row EXCEPT ![job[v]].holder = "none", ![job[v]].left = n]
      BY <2>6 DEF Release
    <3>3. job[v] = j
      BY <3>2 DEF TypeInv, TypeOK
    <3>4. v = w
      BY <2>6, <3>3 DEF Releasable
    <3>. QED  BY <3>1, <3>4
  <2>7. CASE Forget(v) /\ Finish(v) /\ pc[v] # "idle"
    <3>1. pc'[v] = "idle"
      BY <2>7 DEF Finish, Goto, TypeInv, TypeOK
    <3>2. v = w
      BY <2>7 DEF Forget
    <3>. QED  BY <2>7, <3>1, <3>2
  <2>8. \/ UNCHANGED row
        \/ Acquire(v) /\ Unclaimed(v)
        \/ Renew(v)
        \/ (Commit(v) \/ CommitLost(v)) /\ WriteOutcome(v)
        \/ PurgeCommit(v)
        \/ Release(v) /\ Releasable(v)
        \/ Forget(v) /\ Finish(v) /\ pc[v] # "idle"
    <3>1. CASE \/ Find(v) \/ Checkpoint(v) \/ Dispatch(v) \/ NoToken(v) \/ Claim(v) \/ Load(v)
               \/ Stop(v) \/ Begin(v) \/ MeetRetryable(v)
               \/ (\E i \in Jobs : Process(v, i) \/ Purge(v, i))
      BY <3>1 DEF Find, Checkpoint, Dispatch, NoToken, Claim, Load, Stop, Begin, MeetRetryable,
         Process, Purge
    <3>2. CASE Acquire(v)
      BY <3>2 DEF Acquire
    <3>3. CASE Commit(v)
      BY <3>3 DEF Commit
    <3>4. CASE CommitLost(v)
      BY <3>4 DEF CommitLost
    <3>5. CASE Release(v)
      BY <3>5 DEF Release
    <3>6. CASE Throw(v)
      BY <3>6 DEF Throw
    <3>7. CASE Crash(v)
      BY <3>7 DEF Crash
    <3>. QED  BY <1>4, <3>1, <3>2, <3>3, <3>4, <3>5, <3>6, <3>7 DEF Regular, Fault
  <2>. QED  BY <2>1, <2>2, <2>3, <2>4, <2>5, <2>6, <2>7, <2>8
<1>. QED  BY <1>2, <1>3, <1>4 DEF Next

\* No worker takes over a job whose lease runs: the lease ends with the call that
\* has it, or by time (bulk-job-storage.ts, claimBulkJob).
THEOREM LeaseRespectedCorrect == Spec => LeaseRespected
<1>1. Init => ClaimedFree
  BY DEF Init, ClaimedFree
<1>2. TypeInv /\ ClaimedFree /\ [Next]_vars =>
        [\A w \in Workers, j \in Jobs :
           row[j].holder = w /\ row[j].left > 0 /\ row'[j].holder # w
             => pc[w] # "idle" /\ pc'[w] = "idle"]_vars
  BY LeaseStep
<1>3. Spec => []ClaimedFree
  BY <1>1, ClaimStep, TypeInvCorrect, PTL DEF Spec
<1>. QED  BY <1>2, <1>3, TypeInvCorrect, PTL DEF Spec, LeaseRespected
=============================================================================
