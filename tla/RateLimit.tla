------------------------------ MODULE RateLimit ------------------------------
(***************************************************************************)
(* The request rate limiter                                                *)
(* (packages/better-auth/src/api/rate-limiter/index.ts) over its three     *)
(* storages.  Over a database it is composed with incrementOne, native or  *)
(* by the compare-and-swap loop of                                         *)
(* packages/core/src/db/adapter/atomic-fallback.ts.                        *)
(*                                                                         *)
(* A process is one request; each of its steps ends at an await.           *)
(***************************************************************************)
EXTENDS Integers, FiniteSets

CONSTANTS
  Procs,        \* requests in flight
  Keys,         \* rate-limited keys: a client and a path
  NoKey,        \* "no key": no request
  Window, Max,  \* the rule of each key
  Configured,   \* the longest window of the static rules, in ticks
  Backend,      \* rateLimit.storage: "database" | "memory" | "secondary"
  Native,       \* the adapter has an incrementOne of its own
  MaxAttempts,  \* MAX_ATTEMPTS of the fallback
  Cap,          \* MEMORY_STORE_MAX_ENTRIES
  Lag,          \* bound: ticks between a request's reading the clock and its last write
  MaxTime       \* bound: the clock

ASSUME RateLimitAssumption ==
  /\ NoKey \notin Keys
  /\ Window \in [Keys -> Nat \ {0}] /\ Max \in [Keys -> Nat \ {0}]
  /\ Configured \in Nat
  /\ Backend \in {"database", "memory", "secondary"}
  /\ Native \in BOOLEAN
  /\ MaxAttempts \in Nat \ {0}
  /\ Cap \in Nat
  /\ Lag \in Nat /\ MaxTime \in Nat

VARIABLES
  now,    \* the clock
  row,    \* what the storage has for each key
  pc,     \* where each request is suspended
  key,    \* the key of each request
  seen,   \* the row a request read
  clock,  \* `now` of each request
  op,     \* the incrementOne a request is in: "reset" | "bump" | "none"
  snap,   \* the snapshot the fallback compares with
  tries,  \* the attempts of the fallback so far
  last,   \* history: when a request for the key was last let through
  run     \* history: the requests let through since a window without any

vars == <<now, row, pc, key, seen, clock, op, snap, tries, last, run>>
history == <<last, run>>
local == <<key, seen, clock, op, snap, tries>>

\* A row that is not there has the count 0.
Row == [count : Nat, last : Nat]
NoRow == [count |-> 0, last |-> 0]
There(r) == r.count > 0

Labels ==
  {"idle", "read", "decide", "create", "recheck", "apply", "swap", "reread", "sweep"}

\* Where a request goes on with a `now` it read before.
Stamped == {"create", "apply", "swap", "reread", "sweep"}

TypeOK ==
  /\ now \in Nat
  /\ row \in [Keys -> Row]
  /\ pc \in [Procs -> Labels]
  /\ key \in [Procs -> Keys \cup {NoKey}]
  /\ \A p \in Procs : pc[p] # "idle" => key[p] \in Keys
  /\ seen \in [Procs -> Row] /\ snap \in [Procs -> Row]
  /\ clock \in [Procs -> Nat]
  /\ op \in [Procs -> {"reset", "bump", "none"}]
  /\ tries \in [Procs -> 0 .. MaxAttempts]
  /\ last \in [Keys -> Nat] /\ run \in [Keys -> Nat]

Init ==
  /\ now = 1
  /\ row = [k \in Keys |-> NoRow]
  /\ pc = [p \in Procs |-> "idle"]
  /\ key = [p \in Procs |-> NoKey]
  /\ seen = [p \in Procs |-> NoRow] /\ snap = [p \in Procs |-> NoRow]
  /\ clock = [p \in Procs |-> 0]
  /\ op = [p \in Procs |-> "none"]
  /\ tries = [p \in Procs |-> 0]
  /\ last = [k \in Keys |-> 0] /\ run = [k \in Keys |-> 0]

-----------------------------------------------------------------------------
(* Helpers.                                                                *)

Goto(p, l) == pc' = [pc EXCEPT ![p] = l]

\* The request is answered, or fails: nothing of its closure is left.
Finish(p) ==
  /\ Goto(p, "idle")
  /\ key' = [key EXCEPT ![p] = NoKey]
  /\ seen' = [seen EXCEPT ![p] = NoRow]
  /\ snap' = [snap EXCEPT ![p] = NoRow]
  /\ clock' = [clock EXCEPT ![p] = 0]
  /\ op' = [op EXCEPT ![p] = "none"]
  /\ tries' = [tries EXCEPT ![p] = 0]

\* consume is called again, with the clock and the row still to be read.
Again(p) ==
  /\ Goto(p, "read") /\ key' = key
  /\ seen' = [seen EXCEPT ![p] = NoRow]
  /\ snap' = [snap EXCEPT ![p] = NoRow]
  /\ clock' = [clock EXCEPT ![p] = 0]
  /\ op' = [op EXCEPT ![p] = "none"]
  /\ tries' = [tries EXCEPT ![p] = 0]

\* A window has passed since a request for k was let through, up to the time
\* a request may take.
Quiet(k) == run[k] = 0 \/ now - last[k] >= Window[k] - Lag

\* A request for k is let through.
Granted(k) ==
  /\ run' = [run EXCEPT ![k] = IF Quiet(k) THEN 1 ELSE run[k] + 1]
  /\ last' = [last EXCEPT ![k] =
                IF Backend = "secondary" /\ ~Quiet(k) THEN last[k] ELSE now]

-----------------------------------------------------------------------------
(* consume over the database.                                              *)

Request(p) ==
  /\ Backend = "database" /\ pc[p] = "idle"
  /\ \E k \in Keys : key' = [key EXCEPT ![p] = k]
  /\ Goto(p, "read")
  /\ UNCHANGED <<now, row, seen, clock, op, snap, tries, history>>

Read(p) ==
  /\ pc[p] = "read"
  /\ seen' = [seen EXCEPT ![p] = row[key[p]]]
  /\ Goto(p, "decide")
  /\ UNCHANGED <<now, row, key, clock, op, snap, tries, history>>

\* The clock is read once the row has arrived, and used until the end; an
\* increment does not look at the row again.
Decide(p) ==
  /\ pc[p] = "decide"
  /\ clock' = [clock EXCEPT ![p] = now]
  /\ CASE ~There(seen[p]) -> Goto(p, "create") /\ UNCHANGED <<op, seen>>
       [] There(seen[p]) /\ now - seen[p].last >= Window[key[p]] ->
            Goto(p, "apply") /\ op' = [op EXCEPT ![p] = "reset"] /\ seen' = seen
       [] OTHER ->
            /\ Goto(p, "apply") /\ op' = [op EXCEPT ![p] = "bump"]
            /\ seen' = [seen EXCEPT ![p] = NoRow]
  /\ UNCHANGED <<now, row, key, snap, tries, history>>

\* The row opens the window.  The key is unique: a request that comes too late
\* is refused by the constraint.  The answer may be lost, and the insert fail for other reasons.
Create(p) ==
  /\ pc[p] = "create" /\ ~There(row[key[p]])
  /\ row' = [row EXCEPT ![key[p]] = [count |-> 1, last |-> clock[p]]]
  /\ \/ Granted(key[p]) /\ Finish(p)
     \/ Goto(p, "recheck") /\ UNCHANGED <<local, history>>
  /\ UNCHANGED now

CreateFails(p) ==
  /\ pc[p] = "create"
  /\ Goto(p, "recheck")
  /\ UNCHANGED <<now, row, local, history>>

\* Retried only when the row is there now.
Recheck(p) ==
  /\ pc[p] = "recheck"
  /\ IF There(row[key[p]]) THEN Again(p) ELSE Finish(p)
  /\ UNCHANGED <<now, row, history>>

\* The where clause of incrementOne.
Matches(p, r) ==
  /\ There(r)
  /\ IF op[p] = "reset" THEN r.last <= seen[p].last
     ELSE r.last > clock[p] - Window[key[p]] /\ r.count < Max[key[p]]

\* Mutant: the start of the window is written for the time of the request.
IncrementedFromStart(p, r) ==
  [count |-> IF op[p] = "reset" THEN 1 ELSE r.count + 1, last |-> clock[p] - Window[key[p]]]

\* The row incrementOne makes of r.
Incremented(p, r) ==
  [count |-> IF op[p] = "reset" THEN 1 ELSE r.count + 1, last |-> clock[p]]

\* incrementOne changed r; the answer may be lost on the way back.
Applied(p, r) ==
  /\ row' = [row EXCEPT ![key[p]] = Incremented(p, r)]
  /\ \/ /\ Granted(key[p])
        /\ IF op[p] = "reset"
           THEN Goto(p, "sweep") /\ UNCHANGED local
           ELSE Finish(p)
     \/ Finish(p) /\ UNCHANGED history

\* incrementOne answered null: a reset starts again, an increment looks first.
Missed(p) ==
  IF op[p] = "reset" THEN Again(p)
  ELSE Goto(p, "reread") /\ UNCHANGED local

\* A native incrementOne is one statement.
Increment(p) ==
  /\ pc[p] = "apply" /\ Native
  /\ IF Matches(p, row[key[p]])
     THEN Applied(p, row[key[p]])
     ELSE Missed(p) /\ UNCHANGED <<row, history>>
  /\ UNCHANGED now

\* The fallback selects the row, and takes an update that would change
\* nothing for done.
Snapshot(p) ==
  /\ pc[p] = "apply" /\ ~Native
  /\ LET r == row[key[p]] IN
       CASE ~Matches(p, r) -> Missed(p) /\ UNCHANGED history
         [] Matches(p, r) /\ Incremented(p, r) = r -> Applied(p, r)
         [] OTHER -> /\ snap' = [snap EXCEPT ![p] = r]
                     /\ Goto(p, "swap")
                     /\ UNCHANGED <<key, seen, clock, op, tries, history>>
  /\ UNCHANGED <<now, row>>

\* Mutant: the update is guarded by the row's id alone.
SameRow(p) == There(row[key[p]])

\* The update is guarded by every field it reads or writes.  (And by the id:
\* a row that was deleted and created again with the same fields would have
\* been found by the next attempt.)
Unchanged(p) == row[key[p]] = snap[p]

Swap(p) ==
  /\ pc[p] = "swap"
  /\ IF Unchanged(p)
     THEN Applied(p, snap[p])
     ELSE /\ IF tries[p] + 1 < MaxAttempts
             THEN /\ tries' = [tries EXCEPT ![p] = @ + 1]
                  /\ Goto(p, "apply")
                  /\ UNCHANGED <<key, seen, clock, op, snap>>
             ELSE Finish(p)
          /\ UNCHANGED <<row, history>>
  /\ UNCHANGED now

\* Refused, unless the row is gone or a window old by now.
Reread(p) ==
  /\ pc[p] = "reread"
  /\ LET r == row[key[p]] IN
       IF ~There(r) \/ clock[p] - r.last >= Window[key[p]] THEN Again(p) ELSE Finish(p)
  /\ UNCHANGED <<now, row, history>>

\* The longest window a request knows of: the closure that remembers it is
\* made anew for each request.
LongestObserved(p) ==
  IF Window[key[p]] > Configured THEN Window[key[p]] ELSE Configured

\* Mutant: rows are swept by the window of the request itself.
OldForRequest(p, r) == r.last < clock[p] - Window[key[p]]

Old(p, r) == r.last < clock[p] - LongestObserved(p)

Sweep(p) ==
  /\ pc[p] = "sweep"
  /\ row' = [k \in Keys |-> IF Old(p, row[k]) THEN NoRow ELSE row[k]]
  /\ Finish(p)
  /\ UNCHANGED <<now, history>>

\* An await rejects, or the server dies, before anything was written.
Fail(p) ==
  /\ pc[p] # "idle"
  /\ Finish(p)
  /\ UNCHANGED <<now, row, history>>

-----------------------------------------------------------------------------
(* consume in memory and over secondary storage: one step.                 *)

Running(k) == There(row[k]) /\ now < row[k].last + Window[k]

\* pruneMemoryStore: what has expired goes, and of the rest what exceeds the
\* cap.  The entries inserted first go first; which those are is left open.
Pruned(kept) ==
  LET live == {k \in Keys : Running(k)} IN
    IF Cardinality(live) <= Cap THEN kept = live
    ELSE kept \subseteq live /\ Cardinality(kept) = Cap

\* The promise starts anew for an entry that was evicted.
ConsumeInMemory(k) ==
  /\ Backend = "memory"
  /\ \E kept \in SUBSET Keys :
       LET old == IF k \in kept THEN row[k] ELSE NoRow
           allowed == old.count < Max[k]
           evicted == {j \in Keys \ kept : Running(j)}
       IN /\ Pruned(kept)
          /\ row' = [j \in Keys |->
               CASE j = k /\ allowed -> [count |-> old.count + 1, last |-> now]
                 [] j \in kept /\ ~(j = k /\ allowed) -> row[j]
                 [] OTHER -> NoRow]
          /\ last' = [last EXCEPT ![k] = IF allowed THEN now ELSE last[k]]
          /\ run' = [j \in Keys |->
               CASE j = k /\ allowed -> IF j \in evicted \/ Quiet(j) THEN 1 ELSE run[j] + 1
                 [] j \in evicted /\ ~(j = k /\ allowed) -> 0
                 [] OTHER -> run[j]]
  /\ UNCHANGED <<now, pc, local>>

\* The counter gets its time to live when it is created, and keeps it.  A
\* count beyond the first that is refused is not told from it.
ConsumeInSecondary(k) ==
  /\ Backend = "secondary"
  /\ LET old == IF Running(k) THEN row[k] ELSE NoRow IN
       /\ row' = [row EXCEPT ![k] =
            [count |-> IF old.count <= Max[k] THEN old.count + 1 ELSE old.count,
             last |-> IF There(old) THEN old.last ELSE now]]
       /\ IF old.count < Max[k] THEN Granted(k) ELSE UNCHANGED history
  /\ UNCHANGED <<now, pc, local>>

-----------------------------------------------------------------------------
Tick ==
  /\ now < MaxTime
  /\ \A p \in Procs : pc[p] \in Stamped => now < clock[p] + Lag
  /\ now' = now + 1
  /\ UNCHANGED <<row, pc, local, history>>

Step(p) ==
  \/ Read(p) \/ Decide(p) \/ Create(p) \/ CreateFails(p) \/ Recheck(p)
  \/ Increment(p) \/ Snapshot(p) \/ Swap(p) \/ Reread(p) \/ Sweep(p)

Next ==
  \/ \E p \in Procs : Request(p) \/ Step(p) \/ Fail(p)
  \/ \E k \in Keys : ConsumeInMemory(k) \/ ConsumeInSecondary(k)
  \/ Tick

Spec == Init /\ [][Next]_vars

-----------------------------------------------------------------------------
(* Properties.                                                             *)

\* "A burst of concurrent requests can never exceed the limit": of requests
\* each of which follows the one before within the window, less the time a
\* request may take between reading the clock and writing it, at most Max are
\* let through.  (Secondary storage counts from the first, not the last.)
LimitHolds == \A k \in Keys : run[k] <= Max[k]

\* "Best-effort sweep of clearly-expired rows": no request sweeps a row away
\* while the row's window runs, and with it the count of what was let through.
OnlyExpiredSwept ==
  [][\A p \in Procs, k \in Keys :
       pc[p] = "sweep" /\ pc'[p] # "sweep" /\ There(row[k]) /\ ~There(row'[k])
       => now - row[k].last >= Window[k]]_vars
=============================================================================
