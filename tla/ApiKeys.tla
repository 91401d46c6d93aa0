------------------------------ MODULE ApiKeys ------------------------------
(***************************************************************************)
(* API keys (packages/api-key/src): verifying a key takes one of its       *)
(* remaining uses, refills them when that is due, counts the request in    *)
(* the window of the key, and refreshes the cached copy, while its owner   *)
(* updates or deletes it.                                                  *)
(*                                                                         *)
(* One key is modelled, with its row in the database and, where secondary  *)
(* storage stands in front of it, its copy there.                          *)
(***************************************************************************)
EXTENDS Integers

CONSTANTS
  Procs,    \* calls in flight
  Cached,   \* whether storage = "secondary-storage" with fallbackToDatabase
  Limited,  \* whether the key has a number of remaining uses
  Grant,    \* the uses it is created with, refilled to and topped up to
  Refill,   \* refillInterval in ticks, 0 for none
  Max,      \* rateLimitMax, 0 when it is null: the key has no rate limit
  Window,   \* rateLimitTimeWindow, in ticks
  Owner,    \* what the owner does, a subset of {"topUp", "switch", "delete"}
  MaxTime   \* bound: the clock

\* What the constants are assumed to be.
ApiKeyAssumption ==
  /\ {Cached, Limited} \subseteq BOOLEAN
  /\ Grant \in Nat \ {0}
  /\ {Refill, Max, Window, MaxTime} \subseteq Nat
  /\ Owner \subseteq {"topUp", "switch", "delete"}

VARIABLES
  now,     \* the clock, from 1
  row,     \* the row of the key, in a set that is empty once it is deleted
  cache,   \* its copy in secondary storage, in a set
  pc,      \* where each call is suspended
  seen,    \* the key as a call knows it, in a set
  at,      \* the time at which a call decided on a window or a refill
  late,    \* history: the calls that began when the row was gone
  used,    \* history: uses taken since they were last granted
  burst    \* history: requests counted without a gap of a window

vars == <<now, row, cache, pc, seen, at, late, used, burst>>

\* A time is 0 where the code has null.
Key == [enabled : BOOLEAN, left : 0 .. Grant, refilled : Nat, count : Nat, last : Nat]

Labels ==
  {"idle", "lookup", "read", "populate", "judge", "evict", "remove", "refill", "take", "rate",
   "start", "reset", "increment", "reread", "stamp", "publish", "topUp", "switch"}

TypeOK ==
  /\ now \in Nat \ {0}
  /\ row \subseteq Key /\ \A k, l \in row : k = l
  /\ cache \subseteq Key /\ \A k, l \in cache : k = l
  /\ pc \in [Procs -> Labels]
  /\ seen \in [Procs -> SUBSET Key]
  /\ at \in [Procs -> Nat]
  /\ late \subseteq Procs
  /\ used \in Nat /\ burst \in Nat

Goto(p, l) == pc' = [pc EXCEPT ![p] = l]

Know(p, K) == seen' = [seen EXCEPT ![p] = K]

Finish(p) == Goto(p, "idle") /\ Know(p, {})

Init ==
  /\ now = 1
  /\ row = {[enabled |-> TRUE, left |-> Grant, refilled |-> 0, count |-> 0, last |-> 0]}
  /\ cache = {}
  /\ pc = [p \in Procs |-> "idle"] /\ seen = [p \in Procs |-> {}]
  /\ at = [p \in Procs |-> 0]
  /\ late = {} /\ used = 0 /\ burst = 0

-----------------------------------------------------------------------------
(* The key is looked up and judged.                                        *)

Verify(p) ==
  /\ pc[p] = "idle"
  /\ late' = IF row = {} THEN late \cup {p} ELSE late \ {p}
  /\ Goto(p, IF Cached THEN "lookup" ELSE "read")
  /\ UNCHANGED <<now, row, cache, seen, at, used, burst>>

\* getApiKey: the copy, or else the row, which is copied.
Lookup(p) ==
  /\ pc[p] = "lookup"
  /\ Know(p, cache)
  /\ Goto(p, IF cache = {} THEN "read" ELSE "judge")
  /\ UNCHANGED <<now, row, cache, at, late, used, burst>>

Read(p) ==
  /\ pc[p] = "read"
  /\ Know(p, row)
  /\ Goto(p, IF row = {} THEN "idle" ELSE IF Cached THEN "populate" ELSE "judge")
  /\ UNCHANGED <<now, row, cache, at, late, used, burst>>

Populate(p) ==
  /\ pc[p] = "populate"
  /\ cache' = seen[p]
  /\ Goto(p, "judge")
  /\ UNCHANGED <<now, row, seen, at, late, used, burst>>

\* What comes after the uses: without a limit of its own a key is not counted.
Counting == IF Max = 0 THEN "stamp" ELSE "rate"

\* A key that was never refilled counts from its creation.
RefillDue(k) == Refill # 0 /\ now - (IF k.refilled = 0 THEN 1 ELSE k.refilled) > Refill

Judge(p) ==
  /\ pc[p] = "judge"
  /\ \E k \in seen[p] :
       IF ~k.enabled
       THEN Finish(p)
       ELSE /\ Goto(p, IF ~Limited THEN Counting
                       ELSE IF k.left = 0 /\ Refill = 0 THEN (IF Cached THEN "evict" ELSE "remove")
                       ELSE IF RefillDue(k) THEN "refill" ELSE "take")
            /\ UNCHANGED seen
  /\ at' = [at EXCEPT ![p] = now]
  /\ UNCHANGED <<now, row, cache, late, used, burst>>

\* A key that is used up and never refilled is deleted, and so is one on demand.
Evict(p) ==
  /\ pc[p] = "evict"
  /\ cache' = {}
  /\ Goto(p, "remove")
  /\ UNCHANGED <<now, row, seen, at, late, used, burst>>

Remove(p) ==
  /\ pc[p] = "remove"
  /\ row' = {}
  /\ Finish(p)
  /\ UNCHANGED <<now, cache, at, late, used, burst>>

-----------------------------------------------------------------------------
(* consumeRemaining                                                        *)

\* Mutant: the refill looks at the copy that was read, and not at the row.
NotRefilledAnyway(p) == row

\* The row, if nobody has refilled it since it was read.
NotRefilled(p) == {r \in row : \A k \in seen[p] : r.refilled = k.refilled}

RefillKey(p) ==
  /\ pc[p] = "refill"
  /\ IF NotRefilled(p) # {}
     THEN /\ row' = {[r EXCEPT !.left = Grant - 1, !.refilled = at[p]] : r \in row}
          /\ Know(p, row')
          /\ used' = 1
          /\ Goto(p, Counting)
     ELSE Goto(p, "take") /\ UNCHANGED <<row, seen, used>>
  /\ UNCHANGED <<now, cache, at, late, burst>>

\* Mutant: a use is taken from what was read, whatever is left by now.
UsesLeftAnyway == row # {}

UsesLeft == \E r \in row : r.left > 0

Take(p) ==
  /\ pc[p] = "take"
  /\ IF UsesLeft
     THEN /\ row' = {[r EXCEPT !.left = @ - 1] : r \in row}
          /\ Know(p, row')
          /\ used' = used + 1
          /\ Goto(p, Counting)
     ELSE Finish(p) /\ UNCHANGED <<row, used>>
  /\ UNCHANGED <<now, cache, at, late, burst>>

-----------------------------------------------------------------------------
(* consumeRateLimit                                                        *)

\* evaluateRateLimit, of the key as the call knows it.
Rate(p) ==
  /\ pc[p] = "rate"
  /\ \E k \in seen[p] :
       IF k.last # 0 /\ now - k.last <= Window /\ k.count >= Max
       THEN Finish(p)
       ELSE /\ Goto(p, IF k.last = 0 THEN "start"
                       ELSE IF now - k.last > Window THEN "reset" ELSE "increment")
            /\ UNCHANGED seen
  /\ at' = [at EXCEPT ![p] = now]
  /\ UNCHANGED <<now, row, cache, late, used, burst>>

\* Mutant: a window is opened whatever the row says by now.
MayOpenAnyway(p) == row

\* The row, if the window that the call found closed still is.
MayOpen(p) ==
  {r \in row : IF pc[p] = "start" THEN r.last = 0 ELSE r.last <= at[p] - Window}

\* The row, if its window is open and has room.
MayCount(p) == {r \in row : r.last > at[p] - Window /\ r.count < Max}

\* The requests counted close together, once another one is.
BurstAfter(p) == IF \E r \in row : r.last # 0 /\ r.last > at[p] - Window THEN burst + 1 ELSE 1

\* The guarded update, and a second look at the row if it changed nothing.
Counted(p, R) ==
  /\ IF R # {}
     THEN /\ row' = {[r EXCEPT !.count = IF pc[p] = "increment" THEN @ + 1 ELSE 1,
                              !.last = at[p]] : r \in R}
          /\ Know(p, row')
          /\ burst' = BurstAfter(p)
          /\ Goto(p, "stamp")
     ELSE Goto(p, "reread") /\ UNCHANGED <<row, seen, burst>>
  /\ UNCHANGED <<now, cache, at, late, used>>

Open(p) ==
  /\ pc[p] \in {"start", "reset"}
  /\ Counted(p, MayOpen(p))

Increment(p) ==
  /\ pc[p] = "increment"
  /\ Counted(p, MayCount(p))

Reread(p) ==
  /\ pc[p] = "reread"
  /\ Know(p, row)
  /\ Goto(p, IF row = {} THEN "idle" ELSE "rate")
  /\ UNCHANGED <<now, row, cache, at, late, used, burst>>

-----------------------------------------------------------------------------
(* The end of a verification, and the owner.                               *)

\* Mutant: without a row the call goes on with the key it knows.
StampedOrKnown(p) == IF row = {} THEN seen[p] ELSE row

\* The row as the last update finds it; the call is refused if it is gone.
Stamped(p) == row

Stamp(p) ==
  /\ pc[p] = "stamp"
  /\ Know(p, Stamped(p))
  /\ Goto(p, IF Stamped(p) = {} THEN "idle" ELSE "publish")
  /\ UNCHANGED <<now, row, cache, at, late, used, burst>>

\* The row becomes the copy, and the call is accepted.
Publish(p) ==
  /\ pc[p] = "publish"
  /\ cache' = IF Cached THEN seen[p] ELSE cache
  /\ Finish(p)
  /\ UNCHANGED <<now, row, at, late, used, burst>>

\* updateApiKey gives the key new uses, or switches it off or on again.
Update(p, what) ==
  /\ what \in Owner /\ pc[p] = "idle" /\ row # {}
  /\ Goto(p, what)
  /\ late' = late \ {p}
  /\ UNCHANGED <<now, row, cache, seen, at, used, burst>>

WriteUpdate(p) ==
  /\ pc[p] \in {"topUp", "switch"}
  /\ row' = {IF pc[p] = "topUp" THEN [r EXCEPT !.left = Grant] ELSE [r EXCEPT !.enabled = ~@] :
               r \in row}
  /\ used' = IF pc[p] = "topUp" THEN 0 ELSE used
  /\ Know(p, row')
  /\ Goto(p, IF row = {} THEN "idle" ELSE "publish")
  /\ UNCHANGED <<now, cache, at, late, burst>>

\* deleteApiKey: the copy first, then the row.
Delete(p) ==
  /\ "delete" \in Owner /\ pc[p] = "idle" /\ row # {}
  /\ Goto(p, IF Cached THEN "evict" ELSE "remove")
  /\ late' = late \ {p}
  /\ UNCHANGED <<now, row, cache, seen, at, used, burst>>

\* An await rejects or the server dies.
Throw(p) ==
  /\ pc[p] # "idle"
  /\ Finish(p)
  /\ UNCHANGED <<now, row, cache, at, late, used, burst>>

\* The copy is dropped by secondary storage.
Evicted ==
  /\ cache # {} /\ cache' = {}
  /\ UNCHANGED <<now, row, pc, seen, at, late, used, burst>>

Tick ==
  /\ now < MaxTime
  /\ now' = now + 1
  /\ UNCHANGED <<row, cache, pc, seen, at, late, used, burst>>

Step(p) ==
  \/ Verify(p) \/ Lookup(p) \/ Read(p) \/ Populate(p) \/ Judge(p) \/ Evict(p) \/ Remove(p)
  \/ RefillKey(p) \/ Take(p) \/ Rate(p) \/ Open(p) \/ Increment(p) \/ Reread(p)
  \/ Stamp(p) \/ Publish(p) \/ Update(p, "topUp") \/ Update(p, "switch") \/ WriteUpdate(p)
  \/ Delete(p) \/ Throw(p)

Next == (\E p \in Procs : Step(p)) \/ Evicted \/ Tick

Spec == Init /\ [][Next]_vars

-----------------------------------------------------------------------------
(* Properties.                                                             *)

\* However many verifications run at the same time, no more uses are taken than
\* were granted, and no more requests are counted in a window than allowed.
WithinLimits ==
  /\ used <= Grant
  /\ Max # 0 => burst <= Max /\ \A r \in row : r.count <= Max

\* Two refills are more than an interval apart, however many calls find the
\* refill due at once.
RefillApart ==
  \A r \in row, s \in row' :
    r.refilled # s.refilled => s.refilled - (IF r.refilled = 0 THEN 1 ELSE r.refilled) > Refill

RefillsApart == [][RefillApart]_vars

\* A key whose row is gone is accepted from nobody who asks afterwards, even if
\* a copy of it has come back.
GoneIsRefused == \A p \in late : pc[p] # "publish"
=============================================================================
