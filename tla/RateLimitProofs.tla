--------------------------- MODULE RateLimitProofs ---------------------------
(***************************************************************************)
(* Theorems about RateLimit: type correctness, and that the limit holds in *)
(* memory, over a database whose rules are static, and over secondary      *)
(* storage.                                                                *)
(***************************************************************************)
EXTENDS RateLimit, TLAPS

-----------------------------------------------------------------------------
(* Type correctness.                                                       *)

\* The absent row is a row, and windows, limits and counts are numbers.
LEMMA Numbers ==
  ASSUME RateLimitAssumption, TypeOK
  PROVE  /\ NoRow \in Row /\ now \in Nat /\ Lag \in Nat
         /\ \A k \in Keys : /\ Window[k] \in Nat /\ Window[k] > 0
                            /\ Max[k] \in Nat /\ Max[k] > 0
                            /\ row[k] \in Row /\ row[k].count \in Nat /\ row[k].last \in Nat
                            /\ last[k] \in Nat /\ run[k] \in Nat
         /\ \A p \in Procs : /\ seen[p] \in Row /\ snap[p] \in Row /\ clock[p] \in Nat
                             /\ seen[p].last \in Nat /\ seen[p].count \in Nat
                             /\ snap[p].last \in Nat /\ snap[p].count \in Nat
  BY DEF RateLimitAssumption, TypeOK, Row, NoRow

\* The closures of the requests keep their types when one ends.
LEMMA FinishTyped ==
  ASSUME RateLimitAssumption, TypeOK, NEW p \in Procs, Finish(p)
  PROVE  /\ pc' \in [Procs -> Labels] /\ key' \in [Procs -> Keys \cup {NoKey}]
         /\ \A q \in Procs : pc'[q] # "idle" => key'[q] \in Keys
         /\ seen' \in [Procs -> Row] /\ snap' \in [Procs -> Row]
         /\ clock' \in [Procs -> Nat] /\ op' \in [Procs -> {"reset", "bump", "none"}]
         /\ tries' \in [Procs -> 0 .. MaxAttempts]
  BY DEF RateLimitAssumption, TypeOK, Finish, Goto, Row, NoRow, Labels

\* And when one starts again.
LEMMA AgainTyped ==
  ASSUME RateLimitAssumption, TypeOK, NEW p \in Procs, Again(p), pc[p] # "idle"
  PROVE  /\ pc' \in [Procs -> Labels] /\ key' \in [Procs -> Keys \cup {NoKey}]
         /\ \A q \in Procs : pc'[q] # "idle" => key'[q] \in Keys
         /\ seen' \in [Procs -> Row] /\ snap' \in [Procs -> Row]
         /\ clock' \in [Procs -> Nat] /\ op' \in [Procs -> {"reset", "bump", "none"}]
         /\ tries' \in [Procs -> 0 .. MaxAttempts]
  BY DEF RateLimitAssumption, TypeOK, Again, Goto, Row, NoRow, Labels

\* Letting a request through keeps the types of the history.
LEMMA GrantedTyped ==
  ASSUME TypeOK, NEW k, Granted(k)
  PROVE  last' \in [Keys -> Nat] /\ run' \in [Keys -> Nat]
  <1>1. CASE k \in Keys
    BY <1>1 DEF TypeOK, Granted
  <1>2. CASE k \notin Keys
    <2>1. run' = run /\ last' = last
      BY <1>2 DEF TypeOK, Granted
    <2> QED BY <2>1 DEF TypeOK
  <1> QED BY <1>1, <1>2

\* What an increment makes of a row is a row.
LEMMA IncrementedTyped ==
  ASSUME RateLimitAssumption, TypeOK, NEW p \in Procs, NEW r \in Row
  PROVE  Incremented(p, r) \in Row
  BY Numbers DEF Incremented, Row

\* An increment that found its row.
LEMMA AppliedTyped ==
  ASSUME RateLimitAssumption, TypeOK, NEW p \in Procs, NEW r \in Row, Applied(p, r),
         now' = now, pc[p] # "idle"
  PROVE  TypeOK'
  <1>1. row' \in [Keys -> Row]
    BY IncrementedTyped DEF Applied, TypeOK
  <1>2. CASE Granted(key[p])
    <2>1. last' \in [Keys -> Nat] /\ run' \in [Keys -> Nat]
      BY <1>2, GrantedTyped
    <2>2. CASE Finish(p)
      BY <1>1, <2>1, <2>2, FinishTyped DEF TypeOK
    <2>3. CASE Goto(p, "sweep") /\ UNCHANGED local
      BY <1>1, <2>1, <2>3 DEF TypeOK, Goto, Labels, local
    <2>4. CASE Finish(p) /\ UNCHANGED history
      BY <1>1, <2>1, <2>4, FinishTyped DEF TypeOK
    <2> QED BY <2>2, <2>3, <2>4 DEF Applied
  <1>3. CASE Finish(p) /\ UNCHANGED history
    BY <1>1, <1>3, FinishTyped DEF TypeOK, history
  <1> QED BY <1>2, <1>3 DEF Applied

\* An increment that found no row.
LEMMA MissedTyped ==
  ASSUME RateLimitAssumption, TypeOK, NEW p \in Procs, Missed(p), pc[p] # "idle",
         UNCHANGED <<now, row, history>>
  PROVE  TypeOK'
  <1>1. CASE Again(p)
    BY <1>1, AgainTyped DEF TypeOK, history
  <1>2. CASE Goto(p, "reread") /\ UNCHANGED local
    BY <1>2 DEF TypeOK, Goto, Labels, local, history
  <1> QED BY <1>1, <1>2 DEF Missed

\* A request that ends without writing.
LEMMA FinishOnlyTyped ==
  ASSUME RateLimitAssumption, TypeOK, NEW p \in Procs, Finish(p), UNCHANGED <<now, history>>,
         row' \in [Keys -> Row]
  PROVE  TypeOK'
  BY FinishTyped DEF TypeOK, history

\* The steps of a request keep the state well formed.
LEMMA StepTyped ==
  ASSUME RateLimitAssumption, TypeOK, NEW p \in Procs, Step(p)
  PROVE  TypeOK'
  <1>1. CASE Read(p)
    BY <1>1 DEF Read, TypeOK, Goto, Labels, history
  <1>2. CASE Decide(p)
    <2>0. now \in Nat /\ NoRow \in Row
      BY Numbers
    <2>1. clock' \in [Procs -> Nat] /\ seen' \in [Procs -> Row]
          /\ op' \in [Procs -> {"reset", "bump", "none"}]
      <3>1. clock' \in [Procs -> Nat]
        BY <1>2, <2>0 DEF Decide, TypeOK
      <3>2. seen' = seen \/ seen' = [seen EXCEPT ![p] = NoRow]
        BY <1>2 DEF Decide
      <3>3. op' = op \/ op' = [op EXCEPT ![p] = "reset"] \/ op' = [op EXCEPT ![p] = "bump"]
        BY <1>2 DEF Decide
      <3> QED BY <2>0, <3>1, <3>2, <3>3 DEF TypeOK
    <2>2. pc' \in [Procs -> Labels] /\ \A q \in Procs : pc'[q] # "idle" => pc[q] # "idle"
      BY <1>2 DEF Decide, TypeOK, Goto, Labels
    <2> QED BY <1>2, <2>1, <2>2 DEF Decide, TypeOK, history
  <1>3. CASE Create(p)
    <2>1. row' \in [Keys -> Row]
      BY <1>3, Numbers DEF Create, TypeOK, Row
    <2>2. CASE Granted(key[p]) /\ Finish(p)
      BY <1>3, <2>1, <2>2, GrantedTyped, FinishTyped DEF TypeOK, Create
    <2>3. CASE Goto(p, "recheck") /\ UNCHANGED <<local, history>>
      BY <1>3, <2>1, <2>3 DEF TypeOK, Create, Goto, Labels, local, history
    <2> QED BY <1>3, <2>2, <2>3 DEF Create
  <1>4. CASE CreateFails(p)
    BY <1>4 DEF CreateFails, TypeOK, Goto, Labels, local, history
  <1>5. CASE Recheck(p)
    BY <1>5, AgainTyped, FinishTyped DEF Recheck, TypeOK, history
  <1>6. CASE Increment(p)
    <2>1. CASE Applied(p, row[key[p]])
      BY <1>6, <2>1, AppliedTyped DEF Increment, TypeOK
    <2>2. CASE Missed(p) /\ UNCHANGED <<row, history>>
      BY <1>6, <2>2, MissedTyped DEF Increment
    <2> QED BY <1>6, <2>1, <2>2 DEF Increment
  <1>7. CASE Snapshot(p)
    <2>1. CASE Applied(p, row[key[p]])
      BY <1>7, <2>1, AppliedTyped DEF Snapshot, TypeOK
    <2>2. CASE Missed(p) /\ UNCHANGED history
      BY <1>7, <2>2, MissedTyped DEF Snapshot
    <2>3. CASE /\ snap' = [snap EXCEPT ![p] = row[key[p]]]
               /\ Goto(p, "swap")
               /\ UNCHANGED <<key, seen, clock, op, tries, history>>
      BY <1>7, <2>3 DEF Snapshot, TypeOK, Goto, Labels, history
    <2> QED BY <1>7, <2>1, <2>2, <2>3 DEF Snapshot
  <1>8. CASE Swap(p)
    <2>1. CASE Applied(p, snap[p])
      BY <1>8, <2>1, AppliedTyped DEF Swap, TypeOK
    <2>2. CASE /\ tries[p] + 1 < MaxAttempts
               /\ tries' = [tries EXCEPT ![p] = @ + 1]
               /\ Goto(p, "apply")
               /\ UNCHANGED <<now, key, seen, clock, op, snap, row, history>>
      <3>1. tries' \in [Procs -> 0 .. MaxAttempts]
        BY <2>2 DEF RateLimitAssumption, TypeOK
      <3>2. pc[p] # "idle"
        BY <1>8 DEF Swap
      <3> QED BY <2>2, <3>1, <3>2 DEF TypeOK, Goto, Labels, history
    <2>3. CASE Finish(p) /\ UNCHANGED <<now, row, history>>
      BY <2>3, FinishOnlyTyped DEF TypeOK
    <2> QED BY <1>8, <2>1, <2>2, <2>3 DEF Swap
  <1>9. CASE Reread(p)
    BY <1>9, AgainTyped, FinishTyped DEF Reread, TypeOK, history
  <1>10. CASE Sweep(p)
    <2>1. row' \in [Keys -> Row]
      BY <1>10, Numbers DEF Sweep, TypeOK
    <2> QED BY <1>10, <2>1, FinishOnlyTyped DEF Sweep
  <1> QED BY <1>1, <1>2, <1>3, <1>4, <1>5, <1>6, <1>7, <1>8, <1>9, <1>10 DEF Step

\* consume in memory keeps the state well formed.
LEMMA MemoryTyped ==
  ASSUME RateLimitAssumption, TypeOK, NEW k \in Keys, ConsumeInMemory(k)
  PROVE  TypeOK'
  <1>1. PICK kept \in SUBSET Keys :
          LET old == IF k \in kept THEN row[k] ELSE NoRow
              allowed == old.count < Max[k]
              evicted == {j \in Keys \ kept : Running(j)}
          IN /\ row' = [j \in Keys |->
                  CASE j = k /\ allowed -> [count |-> old.count + 1, last |-> now]
                    [] j \in kept /\ ~(j = k /\ allowed) -> row[j]
                    [] OTHER -> NoRow]
             /\ last' = [last EXCEPT ![k] = IF allowed THEN now ELSE last[k]]
             /\ run' = [j \in Keys |->
                  CASE j = k /\ allowed -> IF j \in evicted \/ Quiet(j) THEN 1 ELSE run[j] + 1
                    [] j \in evicted /\ ~(j = k /\ allowed) -> 0
                    [] OTHER -> run[j]]
    BY DEF ConsumeInMemory
  <1>2. row' \in [Keys -> Row]
    BY <1>1, Numbers DEF TypeOK, Row, NoRow
  <1>3. last' \in [Keys -> Nat] /\ run' \in [Keys -> Nat]
    BY <1>1, Numbers DEF TypeOK
  <1> QED BY <1>2, <1>3 DEF TypeOK, ConsumeInMemory, local

\* consume over secondary storage keeps the state well formed.
LEMMA SecondaryTyped ==
  ASSUME RateLimitAssumption, TypeOK, NEW k \in Keys, ConsumeInSecondary(k)
  PROVE  TypeOK'
  <1>1. row' \in [Keys -> Row]
    BY Numbers DEF ConsumeInSecondary, TypeOK, Row, NoRow, Running, There
  <1>2. last' \in [Keys -> Nat] /\ run' \in [Keys -> Nat]
    BY GrantedTyped DEF ConsumeInSecondary, TypeOK, history
  <1> QED BY <1>1, <1>2 DEF TypeOK, ConsumeInSecondary, local

\* Every step keeps the state well formed.
LEMMA TypeStep ==
  ASSUME RateLimitAssumption, TypeOK, [Next]_vars
  PROVE  TypeOK'
  <1>1. CASE UNCHANGED vars
    BY <1>1 DEF vars, TypeOK
  <1>2. ASSUME NEW p \in Procs, Request(p)
        PROVE  TypeOK'
    BY <1>2 DEF Request, TypeOK, Goto, Labels, history
  <1>3. ASSUME NEW p \in Procs, Fail(p)
        PROVE  TypeOK'
    BY <1>3, FinishOnlyTyped DEF Fail, TypeOK
  <1>4. CASE Tick
    BY <1>4 DEF Tick, TypeOK, local, history
  <1> QED BY <1>1, <1>2, <1>3, <1>4, StepTyped, MemoryTyped, SecondaryTyped DEF Next

\* The rate limiter's table, its requests and the history stay well formed.
THEOREM TypeCorrect == RateLimitAssumption => (Spec => []TypeOK)
  <1> SUFFICES ASSUME RateLimitAssumption
               PROVE  Spec => []TypeOK
    OBVIOUS
  <1>1. Init => TypeOK
    BY DEF RateLimitAssumption, Init, TypeOK, Row, NoRow, Labels
  <1>2. TypeOK /\ [Next]_vars => TypeOK'
    BY TypeStep
  <1> QED BY <1>1, <1>2, PTL DEF Spec

-----------------------------------------------------------------------------
(* The limit.  A row counts at least what was let through since the last   *)
(* window without a request, and is at most Lag older than the last one;   *)
(* a row that is gone counted nothing that matters any more.               *)

\* What the theorem assumes of the deployment: the window opens with the last
\* request, and over a database the longest window is one of the static rules.
Static ==
  /\ Backend # "secondary"
  /\ Backend = "database" => \A k \in Keys : Window[k] <= Configured

Counted(k) ==
  There(row[k]) =>
    /\ Quiet(k) \/ run[k] <= row[k].count
    /\ row[k].count <= Max[k]
    /\ last[k] <= row[k].last + Lag

Forgotten(k) == ~There(row[k]) => Quiet(k)

KeysInv ==
  \A k \in Keys : Counted(k) /\ Forgotten(k) /\ run[k] <= Max[k] /\ last[k] <= now

\* What a request knows when it resumes.
Closure(p) ==
  /\ pc[p] \in Stamped => clock[p] <= now /\ now <= clock[p] + Lag
  /\ pc[p] \in {"apply", "swap"} /\ op[p] = "reset"
       => seen[p].last + Window[key[p]] <= clock[p]
  /\ pc[p] = "swap" => Matches(p, snap[p])

\* Only over a database is a request ever suspended.
Suspended == \A p \in Procs : pc[p] # "idle" => Backend = "database"

LimitInv == TypeOK /\ Suspended /\ KeysInv /\ \A p \in Procs : Closure(p)

\* A key whose row and history stay as they are.
LEMMA KeyStays ==
  ASSUME RateLimitAssumption, TypeOK, KeysInv, NEW k \in Keys, now' \in {now, now + 1},
         row'[k] = row[k], run'[k] = run[k], last'[k] = last[k]
  PROVE  (Counted(k) /\ Forgotten(k) /\ run[k] <= Max[k] /\ last[k] <= now)'
  <1>1. Quiet(k) => Quiet(k)'
    BY Numbers DEF Quiet
  <1> QED BY <1>1, Numbers DEF KeysInv, Counted, Forgotten

\* A write of n requests at time c for k, of which one is let through.
LEMMA WriteKeeps ==
  ASSUME RateLimitAssumption, Static, TypeOK, KeysInv, NEW k \in Keys, NEW n \in Nat, NEW c \in Nat,
         row' = [row EXCEPT ![k] = [count |-> n, last |-> c]],
         c <= now, now <= c + Lag, now' = now, 0 < n, n <= Max[k],
         Granted(k) \/ UNCHANGED history, Quiet(k) \/ run[k] + 1 <= n
  PROVE  KeysInv'
  <1> SUFFICES ASSUME NEW j \in Keys
               PROVE  (Counted(j) /\ Forgotten(j) /\ run[j] <= Max[j] /\ last[j] <= now)'
    BY DEF KeysInv
  <1>1. CASE j # k
    <2>1. row'[j] = row[j] /\ run'[j] = run[j] /\ last'[j] = last[j]
      BY <1>1 DEF TypeOK, Granted, history
    <2> QED BY <2>1, KeyStays
  <1>2. CASE j = k
    <2>1. row'[k].count = n /\ row'[k].last = c
      BY DEF TypeOK
    <2>2. CASE Granted(k)
      <3>1. last'[k] = now /\ run'[k] = IF Quiet(k) THEN 1 ELSE run[k] + 1
        BY <2>2 DEF Granted, Static, TypeOK
      <3>2. run'[k] <= n
        BY <3>1, Numbers
      <3> QED BY <1>2, <2>1, <3>1, <3>2, Numbers DEF Counted, Forgotten, There
    <2>3. CASE UNCHANGED history
      <3>1. last'[k] = last[k] /\ run'[k] = run[k] /\ (Quiet(k) <=> Quiet(k)')
        BY <2>3 DEF history, Quiet
      <3>2. last[k] <= now /\ run[k] <= Max[k]
        BY DEF KeysInv
      <3> QED BY <1>2, <2>1, <3>1, <3>2, Numbers DEF Counted, Forgotten, There
    <2> QED BY <2>2, <2>3
  <1> QED BY <1>1, <1>2

\* A request that ends, or starts again, knows nothing.
LEMMA EndsClosed ==
  ASSUME RateLimitAssumption, TypeOK, NEW p \in Procs, \A q \in Procs : Closure(q),
         now' = now, Finish(p) \/ Again(p)
  PROVE  \A q \in Procs : Closure(q)'
  BY DEF TypeOK, Finish, Again, Goto, Closure, Stamped, Matches, There

\* A request that goes on with what it knows.
LEMMA GoesOnClosed ==
  ASSUME RateLimitAssumption, TypeOK, NEW p \in Procs, \A q \in Procs : Closure(q),
         now' = now, NEW l \in {"recheck", "reread", "sweep"}, Goto(p, l), UNCHANGED local,
         l # "recheck" => pc[p] \in Stamped
  PROVE  \A q \in Procs : Closure(q)'
  BY DEF TypeOK, Goto, Closure, Stamped, Matches, There, local

\* An increment by a request that matched the row of its key.
LEMMA AppliedKeeps ==
  ASSUME RateLimitAssumption, Static, LimitInv, NEW p \in Procs, pc[p] \in {"apply", "swap"},
         Matches(p, row[key[p]]), Applied(p, row[key[p]]), now' = now
  PROVE  KeysInv' /\ \A q \in Procs : Closure(q)'
  <1> DEFINE k == key[p]
             r == row[k]
             n == Incremented(p, r).count
  <1>1. k \in Keys /\ r \in Row /\ There(r) /\ clock[p] <= now /\ now <= clock[p] + Lag
    BY DEF LimitInv, TypeOK, Closure, Stamped, Matches
  <1>2. Counted(k)
    BY <1>1 DEF LimitInv, KeysInv
  <1>3. /\ n \in Nat /\ 0 < n /\ n <= Max[k]
        /\ Quiet(k) \/ run[k] + 1 <= n
    <2>1. CASE op[p] = "reset"
      <3>1. r.last + Window[k] <= clock[p]
        BY <1>1, <2>1, Numbers DEF Matches, LimitInv, Closure
      <3>2. Quiet(k)
        BY <1>1, <1>2, <3>1, Numbers DEF Counted, Quiet, LimitInv
      <3> QED BY <1>1, <2>1, <3>2, Numbers DEF Incremented, LimitInv
    <2>2. CASE op[p] # "reset"
      BY <1>1, <1>2, <2>2, Numbers DEF Incremented, Matches, Counted, LimitInv, There
    <2> QED BY <2>1, <2>2
  <1>4. /\ row' = [row EXCEPT ![k] = [count |-> n, last |-> clock[p]]]
        /\ Granted(k) \/ UNCHANGED history
    BY DEF Applied, Incremented
  <1>5. KeysInv'
    BY <1>1, <1>3, <1>4, WriteKeeps, Numbers DEF LimitInv
  <1>6. Finish(p) \/ (Goto(p, "sweep") /\ UNCHANGED local)
    BY DEF Applied
  <1>7. pc[p] \in Stamped
    BY DEF Stamped
  <1> QED BY <1>5, <1>6, <1>7, EndsClosed, GoesOnClosed DEF LimitInv

\* A step that writes nothing.
LEMMA NothingWritten ==
  ASSUME RateLimitAssumption, TypeOK, KeysInv, UNCHANGED <<row, history>>, now' \in {now, now + 1}
  PROVE  KeysInv'
  <1> SUFFICES ASSUME NEW k \in Keys
               PROVE  (Counted(k) /\ Forgotten(k) /\ run[k] <= Max[k] /\ last[k] <= now)'
    BY DEF KeysInv
  <1> QED BY KeyStays DEF history

\* An increment that found no row.
LEMMA MissedClosed ==
  ASSUME RateLimitAssumption, TypeOK, NEW p \in Procs, \A q \in Procs : Closure(q),
         now' = now, pc[p] \in Stamped, Missed(p)
  PROVE  \A q \in Procs : Closure(q)'
  <1>1. CASE Again(p)
    BY <1>1, EndsClosed
  <1>2. CASE Goto(p, "reread") /\ UNCHANGED local
    BY <1>2, GoesOnClosed
  <1> QED BY <1>1, <1>2 DEF Missed

\* A request reads the clock and decides.
LEMMA DecideKeeps ==
  ASSUME RateLimitAssumption, LimitInv, NEW p \in Procs, Decide(p)
  PROVE  KeysInv' /\ \A q \in Procs : Closure(q)'
  <1>1. KeysInv'
    BY NothingWritten DEF LimitInv, Decide
  <1>2. ASSUME NEW q \in Procs, q # p
        PROVE  Closure(q)'
    BY <1>2 DEF LimitInv, TypeOK, Decide, Goto, Closure, Stamped, Matches, There
  <1>3. clock'[p] = now /\ now' = now
    BY DEF LimitInv, TypeOK, Decide
  <1>4. CASE ~There(seen[p])
    <2>1. pc'[p] = "create"
      BY <1>4 DEF LimitInv, TypeOK, Decide, Goto
    <2>2. Closure(p)'
      BY <1>3, <2>1, Numbers DEF Closure, LimitInv
    <2> QED BY <1>1, <1>2, <2>2
  <1>5. CASE There(seen[p]) /\ now - seen[p].last >= Window[key[p]]
    <2>1. pc'[p] = "apply" /\ seen'[p] = seen[p] /\ key'[p] = key[p] /\ key[p] \in Keys
      BY <1>5 DEF LimitInv, TypeOK, Decide, Goto
    <2>2. Closure(p)'
      BY <1>3, <1>5, <2>1, Numbers DEF Closure, LimitInv
    <2> QED BY <1>1, <1>2, <2>2
  <1>6. CASE There(seen[p]) /\ ~(now - seen[p].last >= Window[key[p]])
    <2>1. pc'[p] = "apply" /\ op'[p] = "bump"
      BY <1>6 DEF LimitInv, TypeOK, Decide, Goto
    <2>2. Closure(p)'
      BY <1>3, <2>1, Numbers DEF Closure, LimitInv
    <2> QED BY <1>1, <1>2, <2>2
  <1> QED BY <1>4, <1>5, <1>6

\* A request opens the window of a key that has no row.
LEMMA CreateKeeps ==
  ASSUME RateLimitAssumption, Static, LimitInv, NEW p \in Procs, Create(p)
  PROVE  KeysInv' /\ \A q \in Procs : Closure(q)'
  <1> DEFINE k == key[p]
  <1>1. k \in Keys /\ clock[p] <= now /\ now <= clock[p] + Lag /\ now' = now
    BY DEF LimitInv, TypeOK, Closure, Stamped, Create
  <1>2. Quiet(k)
    BY <1>1 DEF Create, LimitInv, KeysInv, Forgotten
  <1>3. /\ row' = [row EXCEPT ![k] = [count |-> 1, last |-> clock[p]]]
        /\ Granted(k) \/ UNCHANGED history
    BY DEF Create
  <1>4. KeysInv'
    <2>1. clock[p] \in Nat /\ 1 \in Nat /\ 0 < 1 /\ 1 <= Max[k] /\ TypeOK /\ KeysInv
      BY <1>1, Numbers DEF LimitInv
    <2> HIDE DEF k
    <2> QED BY <1>1, <1>2, <1>3, <2>1, WriteKeeps
  <1>5. Finish(p) \/ (Goto(p, "recheck") /\ UNCHANGED local)
    BY DEF Create
  <1> QED BY <1>1, <1>4, <1>5, EndsClosed, GoesOnClosed DEF LimitInv

\* The fallback selects the row it will compare with.
LEMMA SnapshotKeeps ==
  ASSUME RateLimitAssumption, Static, LimitInv, NEW p \in Procs, Snapshot(p)
  PROVE  KeysInv' /\ \A q \in Procs : Closure(q)'
  <1> DEFINE r == row[key[p]]
  <1>1. pc[p] = "apply" /\ now' = now /\ row' = row
    BY DEF Snapshot
  <1>2. CASE Missed(p) /\ UNCHANGED history
    BY <1>1, <1>2, NothingWritten, MissedClosed DEF LimitInv, Stamped
  <1>3. CASE Matches(p, r) /\ Applied(p, r)
    BY <1>1, <1>3, AppliedKeeps
  <1>4. CASE /\ Matches(p, r)
             /\ snap' = [snap EXCEPT ![p] = r]
             /\ Goto(p, "swap")
             /\ UNCHANGED <<key, seen, clock, op, tries, history>>
    <2>1. KeysInv'
      BY <1>1, <1>4, NothingWritten DEF LimitInv
    <2>2. ASSUME NEW q \in Procs
          PROVE  Closure(q)'
      BY <1>1, <1>4 DEF LimitInv, TypeOK, Goto, Closure, Stamped, Matches, There
    <2> QED BY <2>1, <2>2
  <1> QED BY <1>2, <1>3, <1>4 DEF Snapshot

\* The fallback compares and swaps.
LEMMA SwapKeeps ==
  ASSUME RateLimitAssumption, Static, LimitInv, NEW p \in Procs, Swap(p)
  PROVE  KeysInv' /\ \A q \in Procs : Closure(q)'
  <1>1. pc[p] = "swap" /\ now' = now
    BY DEF Swap
  <1>2. CASE Unchanged(p)
    <2>1. Matches(p, row[key[p]]) /\ Applied(p, row[key[p]])
      BY <1>1, <1>2 DEF Unchanged, Swap, LimitInv, Closure
    <2> QED BY <1>1, <2>1, AppliedKeeps
  <1>3. CASE UNCHANGED <<row, history>> /\ Finish(p)
    BY <1>1, <1>3, NothingWritten, EndsClosed DEF LimitInv
  <1>4. CASE /\ UNCHANGED <<row, history, key, seen, clock, op, snap>>
             /\ Goto(p, "apply")
    <2>1. KeysInv'
      BY <1>1, <1>4, NothingWritten DEF LimitInv
    <2>2. ASSUME NEW q \in Procs
          PROVE  Closure(q)'
      BY <1>1, <1>4 DEF LimitInv, TypeOK, Goto, Closure, Stamped, Matches, There
    <2> QED BY <2>1, <2>2
  <1> QED BY <1>2, <1>3, <1>4 DEF Swap

\* The sweep takes rows away whose windows have passed.
LEMMA SweepKeeps ==
  ASSUME RateLimitAssumption, Static, LimitInv, NEW p \in Procs, Sweep(p)
  PROVE  KeysInv' /\ \A q \in Procs : Closure(q)'
  <1>1. pc[p] = "sweep" /\ now' = now /\ Finish(p) /\ UNCHANGED history
    BY DEF Sweep
  <1>2. ASSUME NEW k \in Keys
        PROVE  (Counted(k) /\ Forgotten(k) /\ run[k] <= Max[k] /\ last[k] <= now)'
    <2>1. CASE Old(p, row[k])
      <3>1. key[p] \in Keys /\ clock[p] <= now
        BY <1>1 DEF LimitInv, TypeOK, Closure, Stamped
      <3>2. row[k].last + Window[k] < now
        <4>1. Window[k] <= LongestObserved(p) /\ LongestObserved(p) \in Nat
          BY <1>1, <3>1, Numbers DEF Static, LongestObserved, RateLimitAssumption, LimitInv, Suspended
        <4> QED BY <2>1, <3>1, <4>1, Numbers DEF Old, LimitInv
      <3>3. Quiet(k)
        BY <3>2, Numbers DEF LimitInv, KeysInv, Counted, Forgotten, Quiet
      <3>4. row'[k] = NoRow /\ run'[k] = run[k] /\ last'[k] = last[k]
        BY <1>1, <2>1 DEF Sweep, history
      <3>5. ~There(row'[k]) /\ Quiet(k)'
        BY <1>1, <3>3, <3>4 DEF There, NoRow, Quiet
      <3> QED BY <1>1, <3>4, <3>5 DEF Counted, Forgotten, LimitInv, KeysInv
    <2>2. CASE ~Old(p, row[k])
      <3>1. row'[k] = row[k] /\ run'[k] = run[k] /\ last'[k] = last[k]
        BY <1>1, <2>2 DEF Sweep, history
      <3> QED BY <1>1, <3>1, KeyStays DEF LimitInv
    <2> QED BY <2>1, <2>2
  <1>3. KeysInv'
    BY <1>2 DEF KeysInv
  <1> QED BY <1>1, <1>3, EndsClosed DEF LimitInv

\* The steps of a request keep the invariant.
LEMMA LimitStep ==
  ASSUME RateLimitAssumption, Static, LimitInv, NEW p \in Procs, Step(p)
  PROVE  KeysInv' /\ \A q \in Procs : Closure(q)'
  <1>1. CASE Read(p)
    <2>1. KeysInv'
      BY <1>1, NothingWritten DEF Read, LimitInv
    <2>2. ASSUME NEW q \in Procs
          PROVE  Closure(q)'
      BY <1>1 DEF Read, LimitInv, TypeOK, Goto, Closure, Stamped, Matches, There
    <2> QED BY <2>1, <2>2
  <1>2. CASE Decide(p)
    BY <1>2, DecideKeeps
  <1>3. CASE Create(p)
    BY <1>3, CreateKeeps
  <1>4. CASE CreateFails(p)
    BY <1>4, NothingWritten, GoesOnClosed DEF CreateFails, LimitInv
  <1>5. CASE Recheck(p)
    BY <1>5, NothingWritten, EndsClosed DEF Recheck, LimitInv
  <1>6. CASE Increment(p)
    <2>1. CASE Matches(p, row[key[p]])
      BY <1>6, <2>1, AppliedKeeps DEF Increment
    <2>2. CASE ~Matches(p, row[key[p]])
      BY <1>6, <2>2, NothingWritten, MissedClosed DEF Increment, LimitInv, Stamped
    <2> QED BY <2>1, <2>2
  <1>7. CASE Snapshot(p)
    BY <1>7, SnapshotKeeps
  <1>8. CASE Swap(p)
    BY <1>8, SwapKeeps
  <1>9. CASE Reread(p)
    BY <1>9, NothingWritten, EndsClosed DEF Reread, LimitInv
  <1>10. CASE Sweep(p)
    BY <1>10, SweepKeeps
  <1> QED BY <1>1, <1>2, <1>3, <1>4, <1>5, <1>6, <1>7, <1>8, <1>9, <1>10 DEF Step

\* consume in memory keeps the invariant: what it prunes has expired, or is
\* evicted and promises nothing any more.
LEMMA MemoryKeeps ==
  ASSUME RateLimitAssumption, Static, LimitInv, NEW k \in Keys, ConsumeInMemory(k)
  PROVE  KeysInv' /\ \A q \in Procs : Closure(q)'
  <1>1. PICK kept \in SUBSET Keys :
          LET old == IF k \in kept THEN row[k] ELSE NoRow
              allowed == old.count < Max[k]
              evicted == {j \in Keys \ kept : Running(j)}
          IN /\ Pruned(kept)
             /\ row' = [j \in Keys |->
                  CASE j = k /\ allowed -> [count |-> old.count + 1, last |-> now]
                    [] j \in kept /\ ~(j = k /\ allowed) -> row[j]
                    [] OTHER -> NoRow]
             /\ last' = [last EXCEPT ![k] = IF allowed THEN now ELSE last[k]]
             /\ run' = [j \in Keys |->
                  CASE j = k /\ allowed -> IF j \in evicted \/ Quiet(j) THEN 1 ELSE run[j] + 1
                    [] j \in evicted /\ ~(j = k /\ allowed) -> 0
                    [] OTHER -> run[j]]
    BY DEF ConsumeInMemory
  <1> DEFINE old == IF k \in kept THEN row[k] ELSE NoRow
             allowed == old.count < Max[k]
             evicted == {j \in Keys \ kept : Running(j)}
  <1>2. now' = now /\ UNCHANGED <<pc, local>>
    BY DEF ConsumeInMemory
  <1>3. ASSUME NEW j \in Keys, ~There(row[j]) \/ ~Running(j)
        PROVE  Quiet(j)
    BY <1>3, Numbers DEF Running, LimitInv, KeysInv, Counted, Forgotten, Quiet
  <1>4. ASSUME NEW j \in Keys
        PROVE  (Counted(j) /\ Forgotten(j) /\ run[j] <= Max[j] /\ last[j] <= now)'
    <2>1. CASE j = k /\ allowed
      <3>1. /\ row'[k] = [count |-> old.count + 1, last |-> now] /\ last'[k] = now
            /\ run'[k] = IF k \in evicted \/ Quiet(k) THEN 1 ELSE run[k] + 1
        BY <1>1, <2>1 DEF LimitInv, TypeOK
      <3>2. old.count \in Nat /\ old.count + 1 <= Max[k]
        BY <2>1, Numbers DEF LimitInv, NoRow
      <3>3. run'[k] <= old.count + 1
        <4>1. CASE k \in kept
          BY <3>1, <3>2, <4>1, Numbers, <1>3 DEF LimitInv, KeysInv, Counted
        <4>2. CASE k \notin kept
          BY <3>1, <3>2, <4>2, <1>3 
        <4> QED BY <4>1, <4>2
      <3> QED BY <1>2, <2>1, <3>1, <3>2, <3>3, Numbers DEF Counted, Forgotten, There, LimitInv
    <2>2. CASE ~(j = k /\ allowed)
      <3>1. last'[j] = last[j]
        BY <1>1, <2>2 DEF LimitInv, TypeOK
      <3>2. CASE j \in kept
        <4>1. row'[j] = row[j] /\ run'[j] = run[j]
          BY <1>1, <2>2, <3>2
        <4> QED BY <1>2, <3>1, <4>1, KeyStays DEF LimitInv
      <3>3. CASE j \in evicted
        <4>1. row'[j] = NoRow /\ run'[j] = 0
          BY <1>1, <2>2, <3>3
        <4> QED BY <1>2, <3>1, <4>1, Numbers DEF Counted, Forgotten, There, NoRow, Quiet, LimitInv, KeysInv
      <3>4. CASE j \notin kept /\ j \notin evicted
        <4>1. row'[j] = NoRow /\ run'[j] = run[j]
          BY <1>1, <2>2, <3>4
        <4>2. Quiet(j)'
          BY <1>2, <1>3, <3>1, <3>4, <4>1 DEF Quiet
        <4> QED BY <1>2, <3>1, <4>1, <4>2 DEF Counted, Forgotten, There, NoRow, LimitInv, KeysInv
      <3> QED BY <3>2, <3>3, <3>4
    <2> QED BY <2>1, <2>2
  <1>5. \A q \in Procs : Closure(q)'
    BY <1>2 DEF LimitInv, Closure, local, Matches, There
  <1> QED BY <1>4, <1>5 DEF KeysInv

\* A request is suspended by its own steps only, and begins over a database.
LEMMA SuspendedStep ==
  ASSUME RateLimitAssumption, TypeOK, Suspended, [Next]_vars
  PROVE  Suspended'
  <1>1. CASE UNCHANGED vars \/ Tick \/ \E k \in Keys : ConsumeInMemory(k) \/ ConsumeInSecondary(k)
    BY <1>1 DEF vars, Tick, ConsumeInMemory, ConsumeInSecondary, Suspended
  <1>2. ASSUME NEW p \in Procs, Request(p) \/ Step(p) \/ Fail(p)
        PROVE  Suspended'
    <2>1. /\ pc[p] # "idle" \/ Backend = "database"
          /\ \A q \in Procs : q # p => pc'[q] = pc[q]
      BY <1>2 DEF Request, Step, Fail, Read, Decide, Create, CreateFails, Recheck, Increment, Snapshot,
                  Swap, Reread, Sweep, Applied, Missed, Again, Finish, Goto, TypeOK
    <2> QED BY <2>1 DEF Suspended
  <1> QED BY <1>1, <1>2 DEF Next

\* Every step keeps the invariant.
LEMMA InvStep ==
  ASSUME RateLimitAssumption, Static, LimitInv, [Next]_vars
  PROVE  LimitInv'
  <1>1. TypeOK' /\ Suspended'
    BY TypeStep, SuspendedStep DEF LimitInv
  <1>2. CASE UNCHANGED vars
    <2>1. KeysInv'
      BY <1>2, NothingWritten DEF vars, history, LimitInv
    <2>2. \A q \in Procs : Closure(q)'
      BY <1>2 DEF vars, LimitInv, Closure, Matches, There
    <2> QED BY <1>1, <2>1, <2>2 DEF LimitInv
  <1>3. ASSUME NEW p \in Procs, Request(p)
        PROVE  LimitInv'
    <2>1. KeysInv'
      BY <1>3, NothingWritten DEF Request, LimitInv
    <2>2. ASSUME NEW q \in Procs
          PROVE  Closure(q)'
      BY <1>3 DEF Request, LimitInv, TypeOK, Goto, Closure, Stamped, Matches, There
    <2> QED BY <1>1, <2>1, <2>2 DEF LimitInv
  <1>4. ASSUME NEW p \in Procs, Fail(p)
        PROVE  LimitInv'
    BY <1>1, <1>4, NothingWritten, EndsClosed DEF Fail, LimitInv
  <1>5. CASE Tick
    <2>1. KeysInv'
      BY <1>5, NothingWritten DEF Tick, LimitInv
    <2>2. ASSUME NEW q \in Procs
          PROVE  Closure(q)'
      BY <1>5, Numbers DEF Tick, LimitInv, Closure, Matches, There, local
    <2> QED BY <1>1, <2>1, <2>2 DEF LimitInv
  <1>6. ASSUME NEW k \in Keys, ConsumeInSecondary(k)
        PROVE  FALSE
    BY <1>6 DEF ConsumeInSecondary, Static
  <1> QED BY <1>1, <1>2, <1>3, <1>4, <1>5, <1>6, LimitStep, MemoryKeeps DEF Next, LimitInv

\* The invariant holds initially and in every reachable state.
LEMMA InvHolds == RateLimitAssumption /\ Static => (Spec => []LimitInv)
  <1> SUFFICES ASSUME RateLimitAssumption, Static
               PROVE  Spec => []LimitInv
    OBVIOUS
  <1>1. Init => LimitInv
    <2> SUFFICES ASSUME Init
                 PROVE  LimitInv
      OBVIOUS
    <2>1. TypeOK
      BY DEF RateLimitAssumption, Init, TypeOK, Row, NoRow, Labels
    <2>2. KeysInv
      BY <2>1, Numbers DEF Init, KeysInv, Counted, Forgotten, There, NoRow, Quiet
    <2>3. \A p \in Procs : Closure(p)
      BY DEF Init, Closure, Stamped
    <2>4. Suspended
      BY DEF Init, Suspended
    <2> QED BY <2>1, <2>2, <2>3, <2>4 DEF LimitInv
  <1>2. LimitInv /\ [Next]_vars => LimitInv'
    BY InvStep
  <1> QED BY <1>1, <1>2, PTL DEF Spec

\* In memory, and over a database by the native or the fallback increment, any
\* number of concurrent requests never lets more through than the limit.
THEOREM LimitHoldsCorrect == RateLimitAssumption /\ Static => (Spec => []LimitHolds)
  <1>1. LimitInv => LimitHolds
    BY DEF LimitInv, KeysInv, LimitHolds
  <1> QED BY <1>1, InvHolds, PTL

\* With static rules no request sweeps away a row whose window still runs.
THEOREM OnlyExpiredSweptCorrect == RateLimitAssumption /\ Static => (Spec => OnlyExpiredSwept)
  <1> DEFINE A == \A p \in Procs, k \in Keys :
       pc[p] = "sweep" /\ pc'[p] # "sweep" /\ There(row[k]) /\ ~There(row'[k])
       => now - row[k].last >= Window[k]
  <1> SUFFICES ASSUME RateLimitAssumption, Static
               PROVE  Spec => OnlyExpiredSwept
    OBVIOUS
  <1>1. LimitInv /\ [Next]_vars => [A]_vars
    <2> SUFFICES ASSUME LimitInv, Next,
                        NEW p \in Procs, NEW k \in Keys,
                        pc[p] = "sweep", pc'[p] # "sweep", There(row[k]), ~There(row'[k])
                 PROVE  now - row[k].last >= Window[k]
      OBVIOUS
    <2>1. Sweep(p) \/ UNCHANGED row
      <3>1. ASSUME NEW q \in Procs, q # p, Request(q) \/ Step(q) \/ Fail(q)
            PROVE  FALSE
        BY <3>1 DEF Request, Step, Fail, Read, Decide, Create, CreateFails, Recheck,
                    Increment, Snapshot, Swap, Reread, Sweep, Applied, Missed, Again,
                    Finish, Goto, LimitInv, TypeOK
      <3>2. ASSUME NEW j \in Keys, ConsumeInMemory(j) \/ ConsumeInSecondary(j)
            PROVE  FALSE
        BY <3>2 DEF ConsumeInMemory, ConsumeInSecondary
      <3>3. CASE Request(p) \/ Step(p) \/ Fail(p)
        BY <3>3 DEF Request, Step, Fail, Read, Decide, Create, CreateFails, Recheck,
                    Increment, Snapshot, Swap, Reread
      <3> QED BY <3>1, <3>2, <3>3 DEF Next, Tick
    <2>2. Sweep(p) /\ Old(p, row[k])
      BY <2>1 DEF Sweep
    <2>3. key[p] \in Keys /\ clock[p] <= now
      BY DEF LimitInv, TypeOK, Closure, Stamped
    <2>4. Window[k] <= LongestObserved(p) /\ LongestObserved(p) \in Nat
      BY <2>3, Numbers DEF Static, LongestObserved, RateLimitAssumption, LimitInv, Suspended
    <2> QED BY <2>2, <2>3, <2>4, Numbers DEF Old, LimitInv
  <1>2. Spec => []LimitInv
    BY InvHolds
  <1> QED BY <1>1, <1>2, PTL DEF Spec, OnlyExpiredSwept

-----------------------------------------------------------------------------
(* The limit over secondary storage, whose counter lives for a window from *)
(* the first request and then is gone.                                     *)

\* Every request is one step, so that none lags behind the clock.
Counters == Backend = "secondary" /\ Lag = 0

\* A counter was made for the first request that was let through since a window passed without
\* any, and counts those let through until then, and one that was refused.
CountedFromFirst(k) ==
  /\ There(row[k]) => /\ last[k] = row[k].last /\ 0 < run[k]
                      /\ run[k] = IF row[k].count <= Max[k] THEN row[k].count ELSE Max[k]
  /\ ~There(row[k]) => run[k] = 0

CounterInv ==
  /\ TypeOK
  /\ \A p \in Procs : pc[p] = "idle"
  /\ \A k \in Keys : CountedFromFirst(k)

\* A counter runs as long as the window of what was let through.
LEMMA RunningNotQuiet ==
  ASSUME RateLimitAssumption, Counters, CounterInv, NEW k \in Keys
  PROVE  Running(k) <=> ~Quiet(k)
  BY Numbers DEF CounterInv, Counters, CountedFromFirst, Running, Quiet, There

\* A request is counted, for the key it has.
LEMMA CounterKeeps ==
  ASSUME RateLimitAssumption, Counters, CounterInv, NEW k \in Keys, ConsumeInSecondary(k)
  PROVE  \A j \in Keys : CountedFromFirst(j)'
  <1> DEFINE old == IF Running(k) THEN row[k] ELSE NoRow
  <1>1. /\ row'[k] = [count |-> IF old.count <= Max[k] THEN old.count + 1 ELSE old.count,
                      last |-> IF There(old) THEN old.last ELSE now]
        /\ IF old.count < Max[k] THEN Granted(k) ELSE UNCHANGED history
    BY DEF ConsumeInSecondary, CounterInv, TypeOK
  <1>2. ASSUME NEW j \in Keys, j # k
        PROVE  CountedFromFirst(j)'
    <2>1. row'[j] = row[j] /\ run'[j] = run[j] /\ last'[j] = last[j]
      BY <1>2 DEF ConsumeInSecondary, Granted, history, CounterInv, TypeOK
    <2> QED BY <2>1 DEF CounterInv, CountedFromFirst
  <1>3. CASE Running(k)
    <2>1. ~Quiet(k) /\ old = row[k] /\ There(row[k])
      BY <1>3, RunningNotQuiet DEF Running
    <2>2. /\ row'[k].last = row[k].last
          /\ row'[k].count = IF row[k].count <= Max[k] THEN row[k].count + 1 ELSE row[k].count
      BY <1>1, <2>1
    <2>3. /\ last'[k] = last[k]
          /\ run'[k] = IF row[k].count < Max[k] THEN run[k] + 1 ELSE run[k]
      BY <1>1, <2>1 DEF Granted, Counters, history, CounterInv, TypeOK
    <2>4. CountedFromFirst(k)'
      BY <2>1, <2>2, <2>3, Numbers DEF CounterInv, CountedFromFirst, There
    <2> QED BY <1>2, <2>4
  <1>4. CASE ~Running(k)
    <2>1. Quiet(k) /\ old = NoRow /\ NoRow.count = 0 /\ ~There(NoRow)
      BY <1>4, RunningNotQuiet DEF NoRow, There
    <2>2. row'[k].last = now /\ row'[k].count = 1
      BY <1>1, <2>1, Numbers DEF CounterInv
    <2>3. last'[k] = now /\ run'[k] = 1
      BY <1>1, <2>1, Numbers DEF Granted, CounterInv, TypeOK
    <2>4. CountedFromFirst(k)'
      BY <2>2, <2>3, Numbers DEF CounterInv, CountedFromFirst, There
    <2> QED BY <1>2, <2>4
  <1> QED BY <1>3, <1>4

LEMMA CounterInvStep ==
  ASSUME RateLimitAssumption, Counters, CounterInv, [Next]_vars
  PROVE  CounterInv'
  <1>1. TypeOK'
    BY TypeStep DEF CounterInv
  <1>2. CASE Tick \/ UNCHANGED vars
    BY <1>1, <1>2 DEF Tick, vars, local, history, CounterInv, CountedFromFirst
  <1>3. ASSUME NEW k \in Keys, ConsumeInSecondary(k)
        PROVE  CounterInv'
    BY <1>1, <1>3, CounterKeeps DEF ConsumeInSecondary, CounterInv
  <1>4. \A k \in Keys : ~ConsumeInMemory(k)
    BY DEF ConsumeInMemory, Counters
  <1>5. \A p \in Procs : ~Request(p) /\ ~Step(p) /\ ~Fail(p)
    BY DEF CounterInv, Counters, Request, Step, Fail, Read, Decide, Create, CreateFails, Recheck, Increment,
           Snapshot, Swap, Reread, Sweep
  <1> QED BY <1>2, <1>3, <1>4, <1>5 DEF Next

\* Over secondary storage the limit holds for what is let through from the first request of a
\* window, whatever the windows are, because the counter has the lifetime of the window and a
\* later request does not extend it.
THEOREM LimitHoldsInSecondary == RateLimitAssumption /\ Counters => (Spec => []LimitHolds)
  <1> SUFFICES ASSUME RateLimitAssumption, Counters
               PROVE  Spec => []LimitHolds
    OBVIOUS
  <1>1. Init => CounterInv
    <2> SUFFICES ASSUME Init
                 PROVE  CounterInv
      OBVIOUS
    <2>1. TypeOK
      BY DEF RateLimitAssumption, Init, TypeOK, Row, NoRow, Labels
    <2> QED BY <2>1 DEF Init, CounterInv, CountedFromFirst, There, NoRow
  <1>2. CounterInv /\ [Next]_vars => CounterInv'
    BY CounterInvStep
  <1>3. CounterInv => LimitHolds
    BY Numbers DEF CounterInv, CountedFromFirst, LimitHolds
  <1> QED BY <1>1, <1>2, <1>3, PTL DEF Spec
=============================================================================
