---------------------------- MODULE Verification ----------------------------
(***************************************************************************)
(* The single-use verification values of the internal adapter              *)
(* (packages/better-auth/src/db/internal-adapter.ts): reset tokens, OTPs,  *)
(* two-factor challenges, magic links, authorization codes.                *)
(*                                                                         *)
(* One identifier is modelled: calls on different identifiers share        *)
(* nothing but the clean-up of expired rows.  A process is one call in     *)
(* flight, and every step of a process ends at an await, so that the calls *)
(* of all processes interleave as the event loops of the servers let them. *)
(***************************************************************************)
EXTENDS Integers, FiniteSets

CONSTANTS
  Procs,      \* calls in flight
  NoProc,     \* "no call": the value of an empty link of a lock chain
  Servers,    \* instances of the program, each with its own lock map
  ServerOf,   \* the server a call runs on
  Storage,    \* "database" | "both" (secondary + storeInDatabase) | "secondary"
  Isolation,  \* what adapter.transaction gives: "none" | "locking" | "snapshot"
  Hashed,     \* storeIdentifier hashes this identifier, so two keys are tried
  Ops,        \* the operations callers issue
  Lifetimes,  \* how long a value may live, in ticks
  MaxRows,    \* bound: values ever created
  MaxTime     \* bound: the clock

Keys == {"stored", "plain"}
Ids == 1 .. MaxRows

ASSUME ConfigAssumption ==
  /\ NoProc \notin Procs
  /\ ServerOf \in [Procs -> Servers]
  /\ Storage \in {"database", "both", "secondary"}
  /\ Isolation \in {"none", "locking", "snapshot"}
  /\ Hashed \in BOOLEAN
  /\ MaxRows \in Nat /\ MaxTime \in Nat
  /\ Lifetimes \subseteq Nat

\* `id` names a value for ever; `pk` is the primary key, which only
\* reservations share (ReservationKey).  `at` is createdAt.
Row == [id : Ids, pk : 0 .. MaxRows, key : Keys, at : Nat, exp : Nat]
ReservationKey == 0

VARIABLES
  now,     \* the clock
  nextId,  \* the next unused id
  rows,    \* the verification table
  cache,   \* secondary storage, at most one entry for each key
  tail,    \* verificationConsumeLocks, for each server: the newest promise
  pc,      \* where each call is suspended
  prev,    \* the promise a call waits for in withVerificationConsumeLock
  at,      \* the key a call works on
  seen,    \* the rows a call read: the latest one, or its whole snapshot
  held,    \* the row a call took out of the store ({} or a singleton)
  uses,    \* history: how often each value was returned by a consume
  beside   \* history: the values stored beside a value when it was taken out

vars == <<now, nextId, rows, cache, tail, pc, prev, at, seen, held, uses, beside>>
store == <<now, nextId, rows, cache>>
lock == <<tail, prev>>
local == <<at, seen, held>>
history == <<uses, beside>>

InDatabase == Storage \in {"database", "both"}
Cached == Storage \in {"both", "secondary"}

Labels == {"idle", "mirroring", "waiting", "consuming", "sweeping", "releasing",
           "retrying", "uncaching", "deciding", "rewriting", "updating", "deleting"}
InLock == {"consuming", "sweeping", "releasing"}

TypeOK ==
  /\ now \in Nat
  /\ nextId \in 1 .. MaxRows + 1
  /\ rows \subseteq Row
  /\ cache \subseteq Row
  /\ tail \in [Servers -> [Keys -> Procs \cup {NoProc}]]
  /\ pc \in [Procs -> Labels]
  /\ prev \in [Procs -> Procs \cup {NoProc}]
  /\ at \in [Procs -> Keys]
  /\ seen \in [Procs -> SUBSET Row]
  /\ held \in [Procs -> SUBSET Row]
  /\ uses \in [Ids -> Nat]
  /\ beside \in [Ids -> SUBSET Ids]

-----------------------------------------------------------------------------
(* Rows and cache entries.                                                 *)

OfKey(S, k) == {r \in S : r.key = k}
Newest(S) == {r \in S : \A o \in S : o.at <= r.at}
Put(r) == {c \in cache : c.key # r.key} \cup {r}

\* An entry whose time to live would be zero or negative is not written.
PutIfLive(r) == IF r.exp > now THEN Put(r) ELSE cache

\* Mutant: the last moment of a value counts as past.
ExpiredEarly(r) == r.exp <= now

Expired(r) == r.exp < now

\* A plain row written before identifiers were hashed may still be there.
Legacy == [id |-> 1, pk |-> 1, key |-> "plain", at |-> 0, exp |-> MaxTime]

Init ==
  /\ now = 0
  /\ \E old \in IF Hashed /\ MaxRows > 0 THEN {{}, {Legacy}} ELSE {{}} :
       /\ nextId = IF old = {} THEN 1 ELSE 2
       /\ rows = IF InDatabase THEN old ELSE {}
       /\ cache = IF InDatabase THEN {} ELSE old
  /\ tail = [s \in Servers |-> [k \in Keys |-> NoProc]]
  /\ pc = [p \in Procs |-> "idle"]
  /\ prev = [p \in Procs |-> NoProc]
  /\ at = [p \in Procs |-> "stored"]
  /\ seen = [p \in Procs |-> {}]
  /\ held = [p \in Procs |-> {}]
  /\ uses = [i \in Ids |-> 0]
  /\ beside = [i \in Ids |-> {}]

\* Suspend p at label l with nothing else of its local state changed.
Goto(p, l) == pc' = [pc EXCEPT ![p] = l]

\* History: the rows in `taken` leave a store that holds the rows in S.
Take(taken, S) ==
  beside' = [i \in Ids |-> IF i \in {r.id : r \in taken}
                           THEN {r.id : r \in S \ taken} ELSE beside[i]]

\* The call of p ends: its closure is gone.
Finish(p) ==
  /\ Goto(p, "idle")
  /\ at' = [at EXCEPT ![p] = "stored"]
  /\ seen' = [seen EXCEPT ![p] = {}]
  /\ held' = [held EXCEPT ![p] = {}]

-----------------------------------------------------------------------------
(* createVerificationValue and reserveVerificationValue.  createdAt is     *)
(* read when the call starts, so that it may be older than the insert.     *)

NewRows ==
  {[id |-> nextId, pk |-> nextId, key |-> "stored", at |-> c, exp |-> c + t] :
      c \in {now, now - 1} \cap Nat, t \in Lifetimes}

CreateRow(p) ==
  /\ "create" \in Ops /\ pc[p] = "idle" /\ InDatabase /\ nextId <= MaxRows
  /\ \E r \in NewRows :
       /\ rows' = rows \cup {r}
       /\ held' = [held EXCEPT ![p] = IF Cached THEN {r} ELSE {}]
  /\ nextId' = nextId + 1
  /\ Goto(p, IF Cached THEN "mirroring" ELSE "idle")
  /\ UNCHANGED <<now, cache, lock, at, seen, history>>

CreateCached(p) ==
  /\ "create" \in Ops /\ pc[p] = "idle" /\ ~InDatabase /\ nextId <= MaxRows
  /\ \E r \in NewRows : cache' = PutIfLive(r)
  /\ nextId' = nextId + 1
  /\ UNCHANGED <<now, rows, lock, pc, local, history>>

\* The primary key is the hash of the identifier: the insert is refused while
\* a reservation row is there, and the refused caller changes nothing.  The
\* in-memory adapter has no primary keys and inserts a second row.
Reserve(p) ==
  /\ "reserve" \in Ops /\ pc[p] = "idle" /\ InDatabase /\ nextId <= MaxRows
  /\ Isolation # "snapshot" => \A r \in rows : r.pk # ReservationKey
  /\ \E r \in NewRows : LET marker == [r EXCEPT !.pk = ReservationKey] IN
       /\ rows' = rows \cup {marker}
       /\ held' = [held EXCEPT ![p] = IF Cached THEN {marker} ELSE {}]
  /\ nextId' = nextId + 1
  /\ Goto(p, IF Cached THEN "mirroring" ELSE "idle")
  /\ UNCHANGED <<now, cache, lock, at, seen, history>>

Mirror(p) ==
  /\ pc[p] = "mirroring"
  /\ \E r \in held[p] : cache' = PutIfLive(r)
  /\ Finish(p)
  /\ UNCHANGED <<now, nextId, rows, lock, history>>

-----------------------------------------------------------------------------
(* findVerificationValue.  A hit in secondary storage changes nothing; a   *)
(* miss reads the database and then deletes every expired row, whatever    *)
(* its identifier: the find may be one for another identifier.             *)

FindAndCleanUp(p) ==
  /\ "find" \in Ops /\ pc[p] = "idle" /\ InDatabase
  /\ rows' = {r \in rows : ~Expired(r)}
  /\ UNCHANGED <<now, nextId, cache, lock, pc, local, history>>

(* deleteVerificationByIdentifier: secondary storage, then the database.   *)

Delete(p) ==
  /\ "delete" \in Ops /\ pc[p] = "idle"
  /\ cache' = cache \ OfKey(cache, "stored")
  /\ Goto(p, IF InDatabase THEN "deleting" ELSE "idle")
  /\ UNCHANGED <<now, nextId, rows, lock, local, history>>

DeleteRows(p) ==
  /\ pc[p] = "deleting"
  /\ rows' = rows \ OfKey(rows, "stored")
  /\ Finish(p)
  /\ UNCHANGED <<now, nextId, cache, lock, history>>

(* updateVerificationByIdentifier: reads the cached value, writes it back  *)
(* in a later step, then updates every row of the identifier.  The new     *)
(* expiry is the one part of the value the properties distinguish.         *)

\* Mutant: an entry that is missing is taken for one without fields.
ParsedOrEmpty ==
  IF OfKey(cache, "stored") = {} THEN {[key |-> "stored"]} ELSE OfKey(cache, "stored")

Parsed == OfKey(cache, "stored")

UpdateRead(p) ==
  /\ "update" \in Ops /\ pc[p] = "idle"
  /\ held' = [held EXCEPT ![p] = Parsed]
  /\ Goto(p, CASE Parsed # {} -> "rewriting"
               [] Parsed = {} /\ InDatabase -> "updating"
               [] OTHER -> "idle")
  /\ UNCHANGED <<store, lock, at, seen, history>>

UpdateWrite(p) ==
  /\ pc[p] = "rewriting"
  /\ \E r \in held[p], e \in {now + t : t \in Lifetimes} :
       cache' = PutIfLive([r EXCEPT !.exp = e])
  /\ held' = [held EXCEPT ![p] = {}]
  /\ Goto(p, IF InDatabase THEN "updating" ELSE "idle")
  /\ UNCHANGED <<now, nextId, rows, lock, at, seen, history>>

UpdateRows(p) ==
  /\ pc[p] = "updating"
  /\ \E e \in {now + t : t \in Lifetimes} :
       rows' = {IF r.key = "stored" THEN [r EXCEPT !.exp = e] ELSE r : r \in rows}
  /\ Finish(p)
  /\ UNCHANGED <<now, nextId, cache, lock, history>>

-----------------------------------------------------------------------------
(* consumeVerificationValue over the database.                             *)

\* Mutant: a call does not wait for the promise it found in the map.
NoPredecessor(p) == NoProc

Predecessor(p) == tail[ServerOf[p]][at[p]]

\* withVerificationConsumeLock: chain a new promise behind the current one.
Acquire(p) ==
  /\ \/ "consume" \in Ops /\ pc[p] = "idle"
     \/ pc[p] = "retrying"
  /\ InDatabase
  /\ prev' = [prev EXCEPT ![p] = Predecessor(p)]
  /\ tail' = [tail EXCEPT ![ServerOf[p]][at[p]] = p]
  /\ Goto(p, "waiting")
  /\ UNCHANGED <<store, local, history>>

\* The transaction starts and selects the latest row of the identifier; under
\* "snapshot" it goes on working on the copy of the table it started from.
ReadLatest(p) ==
  /\ pc[p] = "waiting" /\ prev[p] = NoProc
  /\ LET mine == OfKey(rows, at[p]) IN
       /\ IF mine = {}
          THEN UNCHANGED seen
          ELSE \E r \in Newest(mine) :
                 seen' = [seen EXCEPT ![p] =
                            IF Isolation = "snapshot" THEN mine ELSE {r}]
       /\ Goto(p, IF mine = {} THEN "releasing" ELSE "consuming")
  /\ UNCHANGED <<store, lock, at, held, history>>

\* Mutant: the row that was read is returned, whoever deletes it.
GateOnRead(p) == seen[p]

\* What consumeOne finds by primary key in the table now.
Gate(p) == {r \in rows : \E o \in seen[p] : o.pk = r.pk}

\* Mutant: deleteMany looks for the primary key that is already gone.
StaleByPrimaryKey(p) == {r \in OfKey(rows, at[p]) : \E o \in held[p] : o.pk = r.pk}

\* What the deleteMany after it finds.
Stale(p) == OfKey(rows, at[p])

\* consumeOne deletes by primary key what is in the table now, and is the gate
\* of the race.  The stale rows go in a later statement, which under "locking"
\* commits together with the first.
ConsumeOne(p) ==
  /\ pc[p] = "consuming" /\ Isolation # "snapshot"
  /\ LET hit == Gate(p)
         stale == IF Isolation = "locking" /\ hit # {} THEN Stale(p) ELSE {}
     IN /\ held' = [held EXCEPT ![p] = hit]
        /\ rows' = rows \ (hit \cup stale)
        /\ Take(hit, rows)
        /\ Goto(p, IF hit # {} /\ Isolation = "none" THEN "sweeping" ELSE "releasing")
  /\ UNCHANGED <<now, nextId, cache, lock, at, seen, uses>>

\* consumeOne of the in-memory adapter takes the row that was inserted first of
\* those with the primary key of the latest.
FirstWithKeyOf(r, S) ==
  {x \in S : x.pk = r.pk /\ \A o \in S : o.pk = r.pk => x.id <= o.id}

\* That adapter merges its copy back: it drops the rows it deleted whether or
\* not somebody else deleted them meanwhile.
ConsumeSnapshot(p) ==
  /\ pc[p] = "consuming" /\ Isolation = "snapshot"
  /\ \E latest \in Newest(seen[p]) : \E r \in FirstWithKeyOf(latest, seen[p]) :
       /\ held' = [held EXCEPT ![p] = {r}]
       /\ Take({r}, seen[p])
  /\ rows' = {r \in rows : \A o \in seen[p] : o.pk # r.pk}
  /\ Goto(p, "releasing")
  /\ UNCHANGED <<now, nextId, cache, lock, at, seen, uses>>

\* A delete.before hook of the database answered false: nothing is consumed.
Veto(p) ==
  /\ pc[p] = "consuming"
  /\ Goto(p, "releasing")
  /\ UNCHANGED <<store, lock, local, history>>

SweepStale(p) ==
  /\ pc[p] = "sweeping"
  /\ rows' = rows \ Stale(p)
  /\ Goto(p, "releasing")
  /\ UNCHANGED <<now, nextId, cache, lock, local, history>>

\* Mutant: release() is not called.
NobodyWoken(p) == {p}

Woken(p) == {q \in Procs : prev[q] = p} \cup {p}

\* Mutant: the map entry goes even if somebody queued behind us.
UnlockAll(p) ==
  /\ prev' = [q \in Procs |-> IF q \in Woken(p) THEN NoProc ELSE prev[q]]
  /\ tail' = [tail EXCEPT ![ServerOf[p]][at[p]] = NoProc]

\* release() wakes the successor; the map entry goes if it is still ours.
Unlock(p) ==
  /\ prev' = [q \in Procs |-> IF q \in Woken(p) THEN NoProc ELSE prev[q]]
  /\ tail' = IF tail[ServerOf[p]][at[p]] = p
             THEN [tail EXCEPT ![ServerOf[p]][at[p]] = NoProc]
             ELSE tail

AfterLock(p) ==
  CASE held[p] # {} /\ Cached -> "uncaching"
    [] held[p] # {} /\ ~Cached -> "deciding"
    [] held[p] = {} /\ Hashed /\ at[p] = "stored" -> "retrying"
    [] OTHER -> "idle"

Release(p) ==
  /\ pc[p] = "releasing"
  /\ Unlock(p)
  /\ Goto(p, AfterLock(p))
  /\ at' = [at EXCEPT ![p] = IF AfterLock(p) = "retrying" THEN "plain" ELSE "stored"]
  /\ seen' = [seen EXCEPT ![p] = {}]
  /\ UNCHANGED <<store, held, history>>

(* consumeVerificationValue over secondary storage: getAndDelete.          *)

GetAndDelete(p) ==
  /\ \/ "consume" \in Ops /\ pc[p] = "idle"
     \/ pc[p] = "retrying"
  /\ ~InDatabase
  /\ LET hit == OfKey(cache, at[p])
         retry == hit = {} /\ Hashed /\ at[p] = "stored"
     IN /\ held' = [held EXCEPT ![p] = hit]
        /\ cache' = cache \ hit
        /\ Take(hit, cache)
        /\ at' = [at EXCEPT ![p] = IF retry THEN "plain" ELSE "stored"]
        /\ Goto(p, CASE hit # {} -> IF Hashed THEN "uncaching" ELSE "deciding"
                     [] retry -> "retrying"
                     [] OTHER -> "idle")
  /\ UNCHANGED <<now, nextId, rows, lock, seen, uses>>

\* Drop the entries of the identifier that are left in secondary storage.
Uncache(p) ==
  /\ pc[p] = "uncaching"
  /\ cache' = IF Hashed THEN {} ELSE cache \ OfKey(cache, "stored")
  /\ Goto(p, "deciding")
  /\ UNCHANGED <<now, nextId, rows, lock, local, history>>

\* The single expiry gate; beyond it the caller acts on the value.
Decide(p) ==
  /\ pc[p] = "deciding"
  /\ uses' = [i \in Ids |-> IF \E r \in held[p] : r.id = i /\ ~Expired(r)
                            THEN uses[i] + 1 ELSE uses[i]]
  /\ Finish(p)
  /\ UNCHANGED <<store, lock, beside>>

-----------------------------------------------------------------------------
(* Failures and time.                                                      *)

\* An await rejects.  The lock is released by `finally`; what a call without a
\* real transaction has done so far stays done.
Fail(p) ==
  /\ pc[p] \notin {"idle", "waiting", "retrying"}
  /\ IF pc[p] \in InLock THEN Unlock(p) ELSE UNCHANGED lock
  /\ Finish(p)
  /\ UNCHANGED <<store, history>>

\* A server dies with the calls it runs and its lock map.
Crash(s) ==
  LET dead == {p \in Procs : ServerOf[p] = s} IN
  /\ \E p \in dead : pc[p] # "idle"
  /\ tail' = [tail EXCEPT ![s] = [k \in Keys |-> NoProc]]
  /\ prev' = [p \in Procs |-> IF p \in dead THEN NoProc ELSE prev[p]]
  /\ pc' = [p \in Procs |-> IF p \in dead THEN "idle" ELSE pc[p]]
  /\ at' = [p \in Procs |-> IF p \in dead THEN "stored" ELSE at[p]]
  /\ seen' = [p \in Procs |-> IF p \in dead THEN {} ELSE seen[p]]
  /\ held' = [p \in Procs |-> IF p \in dead THEN {} ELSE held[p]]
  /\ UNCHANGED <<store, history>>

\* Secondary storage drops an entry when its time to live is over.
Tick ==
  /\ now < MaxTime
  /\ now' = now + 1
  /\ cache' = {c \in cache : c.exp > now'}
  /\ UNCHANGED <<nextId, rows, lock, pc, local, history>>

-----------------------------------------------------------------------------
\* The steps that only continue a call somebody made.
Continue(p) ==
  \/ Mirror(p) \/ DeleteRows(p) \/ UpdateWrite(p) \/ UpdateRows(p)
  \/ pc[p] = "retrying" /\ (Acquire(p) \/ GetAndDelete(p))
  \/ ReadLatest(p) \/ ConsumeOne(p) \/ ConsumeSnapshot(p) \/ SweepStale(p)
  \/ Release(p) \/ Uncache(p) \/ Decide(p)

Call(p) ==
  \/ CreateRow(p) \/ CreateCached(p) \/ Reserve(p) \/ FindAndCleanUp(p)
  \/ Delete(p) \/ UpdateRead(p)
  \/ pc[p] = "idle" /\ (Acquire(p) \/ GetAndDelete(p))

Next ==
  \/ \E p \in Procs : Call(p) \/ Continue(p) \/ Veto(p) \/ Fail(p)
  \/ \E s \in Servers : Crash(s)
  \/ Tick

Spec == Init /\ [][Next]_vars

\* Every ready continuation is eventually run by its event loop, and the
\* stores answer.  Nobody is obliged to call, and nothing has to fail.
FairSpec == Spec /\ \A p \in Procs : WF_vars(Continue(p))

-----------------------------------------------------------------------------
(* Properties.                                                             *)

\* "The first concurrent caller receives the latest row; every other caller
\* racing against it receives null": no value is returned by two consumes,
\* whatever the interleaving of creates, updates, deletes and consumes.
SingleUse == \A i \in Ids : uses[i] <= 1

\* "Consuming one row invalidates the whole identifier and stale rows cannot
\* be replayed": when a value is returned, no other value of the identifier
\* that was stored beside it is ever returned, before or after.
StaleNeverReplayed ==
  \A i \in Ids : uses[i] > 0 => \A j \in beside[i] : uses[j] = 0

\* The promise of OneTimeValues.  A value is live while a store that consumes
\* look at has it, or a consume that has not yet returned took it out.
Holders == {p \in Procs : pc[p] \in {"sweeping", "releasing", "uncaching", "deciding"}}
Live ==
  {r.id : r \in rows \cup (IF InDatabase THEN {} ELSE cache)
                    \cup UNION {held[p] : p \in Holders}}
OneTime == INSTANCE OneTimeValues WITH next <- nextId, live <- Live, spent <- uses
RefinesOneTime == OneTime!Spec

\* withVerificationConsumeLock: on one server at most one call works on a key
\* at a time, although entries of the lock map are dropped while others queue.
LockExclusion ==
  \A p, q \in Procs :
    /\ p # q /\ ServerOf[p] = ServerOf[q] /\ at[p] = at[q]
    => ~(pc[p] \in InLock /\ pc[q] \in InLock)

\* "The first caller wins and every later caller must observe that the marker
\* is already taken": before it expires a reservation goes only with a consume
\* or a delete of its identifier, never with the clean-up of a find, an update,
\* a mirror or a failure.
ReservationHolds ==
  [][(\E r \in rows : r.pk = ReservationKey /\ r.exp >= now)
       => \/ \E r \in rows' : r.pk = ReservationKey
          \/ \E p \in Procs : pc[p] \in {"consuming", "sweeping", "deleting"} /\ pc'[p] # pc[p]]_vars

\* No call waits for ever on the promise chain: a consume that is suspended
\* ends, also when a call in front of it fails or was refused by a hook.
CallsEnd == \A p \in Procs : pc[p] # "idle" ~> pc[p] = "idle"
=============================================================================
