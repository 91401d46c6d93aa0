------------------------- MODULE VerificationProofs -------------------------
(* Theorems about Verification for every value of its constants.           *)
EXTENDS Verification, TLAPS

USE DEF Ids, Keys

-----------------------------------------------------------------------------
(* Type correctness.                                                       *)

\* Writing an entry to secondary storage leaves rows there.
LEMMA PutType ==
  ASSUME TypeOK, NEW r \in Row
  PROVE  PutIfLive(r) \in SUBSET Row
  BY DEF TypeOK, PutIfLive, Put

\* A new row, and the reservation made of it, is a row with the next id.
LEMMA NewRowsType ==
  ASSUME ConfigAssumption, TypeOK, nextId <= MaxRows, NEW r \in NewRows
  PROVE  /\ r \in Row /\ r.id = nextId /\ r.pk = nextId
         /\ [r EXCEPT !.pk = ReservationKey] \in Row
         /\ [r EXCEPT !.pk = ReservationKey].id = nextId
         /\ [r EXCEPT !.pk = ReservationKey].pk = ReservationKey
         /\ [r EXCEPT !.pk = ReservationKey].key = "stored"
  <1>1. PICK c \in {now, now - 1} \cap Nat, t \in Lifetimes :
          r = [id |-> nextId, pk |-> nextId, key |-> "stored", at |-> c, exp |-> c + t]
    BY DEF NewRows
  <1>2. t \in Nat /\ nextId \in 1 .. MaxRows /\ MaxRows \in Nat
    BY DEF ConfigAssumption, TypeOK
  <1> QED BY <1>1, <1>2 DEF Row, ReservationKey

\* A new expiry changes nothing else of a row.
LEMMA RenewType ==
  ASSUME NEW r \in Row, NEW e \in Nat
  PROVE  /\ [r EXCEPT !.exp = e] \in Row
         /\ [r EXCEPT !.exp = e].id = r.id
         /\ [r EXCEPT !.exp = e].pk = r.pk
         /\ [r EXCEPT !.exp = e].key = r.key
  BY DEF Row

\* The rows of a key are some of the rows.
LEMMA OfKeyType == \A S, k : OfKey(S, k) \subseteq S
  BY DEF OfKey

\* Recording what stood beside a taken value keeps the type of the record.
LEMMA TakeType ==
  ASSUME TypeOK, NEW taken, NEW S \in SUBSET Row, Take(taken, S)
  PROVE  beside' \in [Ids -> SUBSET Ids]
  <1>1. {r.id : r \in S \ taken} \subseteq Ids
    BY DEF Row
  <1> QED BY <1>1 DEF Take, TypeOK

\* The initial states are well formed.
LEMMA TypeInit == ConfigAssumption /\ Init => TypeOK
  BY DEF ConfigAssumption, Init, TypeOK, Legacy, Row, Labels

\* Every step keeps the state well formed, action by action.
LEMMA TypeStep == ConfigAssumption /\ TypeOK /\ [Next]_vars => TypeOK'
  <1> SUFFICES ASSUME ConfigAssumption, TypeOK, [Next]_vars
               PROVE  TypeOK'
    OBVIOUS
  <1> USE ConfigAssumption, TypeOK DEF store, lock, local, history
  <1>1. CASE UNCHANGED vars
    BY <1>1 DEF TypeOK, vars
  <1>2. ASSUME NEW p \in Procs, CreateRow(p)
        PROVE  TypeOK'
    <2>1. PICK r \in NewRows :
            /\ rows' = rows \cup {r}
            /\ held' = [held EXCEPT ![p] = IF Cached THEN {r} ELSE {}]
      BY <1>2 DEF CreateRow
    <2>2. r \in Row
      BY <1>2, NewRowsType DEF CreateRow
    <2>3. nextId' \in 1 .. MaxRows + 1
      BY <1>2 DEF CreateRow, TypeOK, ConfigAssumption
    <2> QED BY <1>2, <2>1, <2>2, <2>3 DEF CreateRow, TypeOK, Goto, Labels
  <1>3. ASSUME NEW p \in Procs, CreateCached(p)
        PROVE  TypeOK'
    <2>1. PICK r \in NewRows : cache' = PutIfLive(r)
      BY <1>3 DEF CreateCached
    <2>2. r \in Row
      BY <1>3, NewRowsType DEF CreateCached
    <2>3. nextId' \in 1 .. MaxRows + 1
      BY <1>3 DEF CreateCached, TypeOK, ConfigAssumption
    <2> QED BY <1>3, <2>1, <2>2, <2>3, PutType DEF CreateCached, TypeOK
  <1>4. ASSUME NEW p \in Procs, Reserve(p)
        PROVE  TypeOK'
    BY <1>4, NewRowsType DEF Reserve, TypeOK, Goto, Labels, ConfigAssumption
  <1>5. ASSUME NEW p \in Procs, Mirror(p)
        PROVE  TypeOK'
    <2>1. PICK r \in held[p] : cache' = PutIfLive(r)
      BY <1>5 DEF Mirror
    <2>2. r \in Row
      BY <2>1 DEF TypeOK
    <2> QED BY <1>5, <2>1, <2>2, PutType DEF Mirror, TypeOK, Finish, Goto, Labels
  <1>6. ASSUME NEW p \in Procs, FindAndCleanUp(p)
        PROVE  TypeOK'
    BY <1>6 DEF FindAndCleanUp, TypeOK
  <1>7. ASSUME NEW p \in Procs, Delete(p) \/ DeleteRows(p)
        PROVE  TypeOK'
    BY <1>7 DEF Delete, DeleteRows, TypeOK, Goto, Finish, Labels, OfKey
  <1>8. ASSUME NEW p \in Procs, UpdateRead(p)
        PROVE  TypeOK'
    BY <1>8 DEF UpdateRead, Parsed, TypeOK, Goto, Labels, OfKey
  <1>9. ASSUME NEW p \in Procs, UpdateWrite(p)
        PROVE  TypeOK'
    <2>1. PICK r \in held[p], e \in {now + t : t \in Lifetimes} :
            cache' = PutIfLive([r EXCEPT !.exp = e])
      BY <1>9 DEF UpdateWrite
    <2>2. r \in Row /\ e \in Nat
      BY <2>1 DEF TypeOK, ConfigAssumption
    <2>3. [r EXCEPT !.exp = e] \in Row
      BY <2>2 DEF Row
    <2> QED BY <1>9, <2>1, <2>3, PutType DEF UpdateWrite, TypeOK, Goto, Labels
  <1>10. ASSUME NEW p \in Procs, UpdateRows(p)
         PROVE  TypeOK'
    <2>1. PICK e \in {now + t : t \in Lifetimes} :
            rows' = {IF r.key = "stored" THEN [r EXCEPT !.exp = e] ELSE r : r \in rows}
      BY <1>10 DEF UpdateRows
    <2>2. e \in Nat
      BY <2>1 DEF TypeOK, ConfigAssumption
    <2>3. rows' \subseteq Row
      <3> SUFFICES ASSUME NEW x \in rows'  PROVE x \in Row
        OBVIOUS
      <3>1. PICK r \in rows : x = IF r.key = "stored" THEN [r EXCEPT !.exp = e] ELSE r
        BY <2>1
      <3>2. r \in Row
        BY DEF TypeOK
      <3> QED BY <2>2, <3>1, <3>2, RenewType
    <2> QED BY <1>10, <2>3 DEF UpdateRows, TypeOK, Finish, Goto, Labels
  <1>11. ASSUME NEW p \in Procs, Acquire(p)
         PROVE  TypeOK'
    BY <1>11 DEF Acquire, Predecessor, TypeOK, Goto, Labels, ConfigAssumption
  <1>12. ASSUME NEW p \in Procs, ReadLatest(p)
         PROVE  TypeOK'
    <2>1. seen' \in [Procs -> SUBSET Row]
      BY <1>12, OfKeyType DEF ReadLatest, Newest, TypeOK
    <2> QED BY <1>12, <2>1 DEF ReadLatest, TypeOK, Goto, Labels
  <1>13. ASSUME NEW p \in Procs, ConsumeOne(p)
         PROVE  TypeOK'
    <2>1. Gate(p) \subseteq Row /\ rows \in SUBSET Row
      BY DEF Gate, TypeOK
    <2>2. beside' \in [Ids -> SUBSET Ids]
      BY <1>13, <2>1, TakeType DEF ConsumeOne
    <2> QED BY <1>13, <2>1, <2>2 DEF ConsumeOne, TypeOK, Goto, Labels
  <1>14. ASSUME NEW p \in Procs, ConsumeSnapshot(p)
         PROVE  TypeOK'
    <2>1. PICK r \in seen[p] :
            /\ held' = [held EXCEPT ![p] = {r}]
            /\ Take({r}, seen[p])
      BY <1>14 DEF ConsumeSnapshot, FirstWithKeyOf
    <2>2. r \in Row /\ seen[p] \in SUBSET Row
      BY <2>1 DEF TypeOK
    <2>3. beside' \in [Ids -> SUBSET Ids]
      BY <2>1, <2>2, TakeType
    <2> QED BY <1>14, <2>1, <2>2, <2>3 DEF ConsumeSnapshot, TypeOK, Goto, Labels
  <1>15. ASSUME NEW p \in Procs, Veto(p) \/ SweepStale(p)
         PROVE  TypeOK'
    BY <1>15 DEF Veto, SweepStale, TypeOK, Goto, Labels
  <1>16. ASSUME NEW p \in Procs, Unlock(p)
         PROVE  /\ prev' \in [Procs -> Procs \cup {NoProc}]
                /\ tail' \in [Servers -> [Keys -> Procs \cup {NoProc}]]
    BY <1>16 DEF Unlock, TypeOK, ConfigAssumption
  <1>17. ASSUME NEW p \in Procs, Release(p)
         PROVE  TypeOK'
    BY <1>16, <1>17 DEF Release, AfterLock, TypeOK, Goto, Labels
  <1>18. ASSUME NEW p \in Procs, GetAndDelete(p)
         PROVE  TypeOK'
    <2>1. beside' \in [Ids -> SUBSET Ids]
      <3>1. cache \in SUBSET Row
        BY DEF TypeOK
      <3> QED BY <1>18, <3>1, TakeType DEF GetAndDelete
    <2>2. held' \in [Procs -> SUBSET Row] /\ cache' \subseteq Row
      BY <1>18, OfKeyType DEF GetAndDelete, TypeOK
    <2> QED BY <1>18, <2>1, <2>2 DEF GetAndDelete, TypeOK, Goto, Labels
  <1>19. ASSUME NEW p \in Procs, Uncache(p)
         PROVE  TypeOK'
    BY <1>19 DEF Uncache, TypeOK, Goto, Labels
  <1>20. ASSUME NEW p \in Procs, Decide(p)
         PROVE  TypeOK'
    BY <1>20 DEF Decide, TypeOK, Finish, Goto, Labels
  <1>21. ASSUME NEW p \in Procs, Fail(p)
         PROVE  TypeOK'
    BY <1>16, <1>21 DEF Fail, TypeOK, Finish, Goto, Labels
  <1>22. ASSUME NEW s \in Servers, Crash(s)
         PROVE  TypeOK'
    BY <1>22 DEF Crash, TypeOK, Labels
  <1>23. CASE Tick
    BY <1>23 DEF Tick, TypeOK
  <1> QED
    BY <1>1, <1>2, <1>3, <1>4, <1>5, <1>6, <1>7, <1>8, <1>9, <1>10, <1>11, <1>12,
       <1>13, <1>14, <1>15, <1>17, <1>18, <1>19, <1>20, <1>21, <1>22, <1>23
    DEF Next, Call, Continue

\* Every state of the store, of the lock map and of the calls is well formed.
THEOREM TypeCorrect == Spec => []TypeOK
  BY ConfigAssumption, TypeInit, TypeStep, PTL DEF Spec

-----------------------------------------------------------------------------
(* The inductive invariant: every value is in at most one place, and none  *)
(* that was returned is anywhere.                                          *)

\* What the theorems on single use assume of the deployment: nobody writes back
\* to a store without a database what was read from it before, and ...
Durable == InDatabase \/ "update" \notin Ops

\* ... a transaction deletes what is in the table.
Sound == Isolation # "snapshot" /\ Durable

\* The rows a consume may still take out.
Stored == rows \cup (IF InDatabase THEN {} ELSE cache)

\* Primary keys are apart where the adapter keeps them apart, values everywhere.
RowsUnique ==
  /\ \A r \in rows : r.pk \in {r.id, ReservationKey}
  /\ \A r, o \in rows : r.id = o.id => r = o
  /\ Isolation # "snapshot" => \A r, o \in rows : r.pk = o.pk => r = o
  /\ \A r \in rows : r.pk = ReservationKey => r.key = "stored"

CacheUnique ==
  /\ \A r, o \in cache : r.key = o.key => r = o
  /\ ~InDatabase => \A r, o \in cache : r.id = o.id => r = o

IssuedOnly ==
  /\ \A r \in Stored : r.id < nextId
  /\ \A p \in Holders : \A r \in held[p] : r.id < nextId
  /\ \A i \in Ids : uses[i] > 0 => i < nextId

\* A value that was taken out is in one hand, and nowhere in the store.
TakenOnce ==
  \A p \in Holders : \A r \in held[p] :
    /\ \A o \in held[p] : o = r
    /\ \A o \in Stored : o.id # r.id
    /\ \A q \in Holders \ {p} : \A o \in held[q] : o.id # r.id

ReturnedGone ==
  \A i \in Ids : uses[i] > 0 =>
    /\ uses[i] = 1
    /\ \A r \in Stored : r.id # i
    /\ \A p \in Holders : \A r \in held[p] : r.id # i

\* What a suspended call has in its closure.
Closures ==
  \A p \in Procs :
    /\ held[p] # {} => p \in Holders \/ pc[p] \in {"mirroring", "rewriting"}
    /\ Isolation # "snapshot" => \A r, o \in seen[p] : r = o
    /\ ~InDatabase => pc[p] \in {"idle", "retrying", "uncaching", "deciding"}

NoTable == ~InDatabase => rows = {}

IInv ==
  /\ TypeOK /\ RowsUnique /\ CacheUnique /\ IssuedOnly /\ TakenOnce
  /\ ReturnedGone /\ Closures /\ NoTable

\* Deleting rows keeps primary keys apart.
LEMMA RowsVoided ==
  ASSUME RowsUnique, rows' \subseteq rows
  PROVE  RowsUnique'
  BY DEF RowsUnique

\* Deleting entries keeps one entry for a key.
LEMMA CacheVoided ==
  ASSUME CacheUnique, cache' \subseteq cache
  PROVE  CacheUnique'
  BY DEF CacheUnique, InDatabase

\* Deleting rows creates no table.
LEMMA NoTableKept ==
  ASSUME NoTable, rows' \subseteq rows
  PROVE  NoTable'
  BY DEF NoTable, InDatabase

\* The refinement mapping: what is stored and what calls have taken out.
LEMMA LiveIs ==
  /\ Live = {r.id : r \in Stored} \cup {r.id : r \in UNION {held[p] : p \in Holders}}
  /\ Live' = {r.id : r \in Stored'} \cup {r.id : r \in UNION {held'[p] : p \in Holders'}}
  BY DEF Live, Stored, InDatabase

\* A step that takes no value out of the store and returns none.
LEMMA Voids ==
  ASSUME IssuedOnly, TakenOnce, ReturnedGone,
         uses' = uses, nextId' = nextId,
         \A p \in Holders' : held'[p] # {} => p \in Holders /\ held'[p] \subseteq held[p],
         \A o \in Stored' : \E r \in Stored : r.id = o.id
  PROVE  IssuedOnly' /\ TakenOnce' /\ ReturnedGone' /\ OneTime!Next
  <1>1. IssuedOnly'
    BY DEF IssuedOnly
  <1>2. TakenOnce'
    BY DEF TakenOnce
  <1>3. ReturnedGone'
    BY DEF ReturnedGone
  <1>4. Live' \subseteq Live
    BY LiveIs
  <1>5. OneTime!Next
    BY <1>4 DEF OneTime!Next, OneTime!Void
  <1> QED BY <1>1, <1>2, <1>3, <1>5

\* A step that issues the next value.
LEMMA Issues ==
  ASSUME TypeOK, IssuedOnly, TakenOnce, ReturnedGone, nextId <= MaxRows,
         uses' = uses, nextId' = nextId + 1,
         \A p \in Holders' : held'[p] # {} => p \in Holders /\ held'[p] \subseteq held[p],
         \A o \in Stored' : o.id = nextId \/ \E r \in Stored : r.id = o.id
  PROVE  IssuedOnly' /\ TakenOnce' /\ ReturnedGone' /\ OneTime!Next
  <1>1. /\ \A r \in Stored : r.id \in Int
        /\ \A p \in Holders : \A r \in held[p] : r.id \in Int
        /\ nextId \in Int /\ \A i \in Ids : i \in Int
    BY DEF TypeOK, Row, Stored, Holders
  <1>2. IssuedOnly'
    BY <1>1 DEF IssuedOnly
  <1>3. TakenOnce'
    BY <1>1 DEF TakenOnce, IssuedOnly
  <1>4. ReturnedGone'
    BY <1>1 DEF ReturnedGone, IssuedOnly
  <1>5. Live' \subseteq Live \cup {nextId}
    BY LiveIs
  <1>6. OneTime!Next
    BY <1>5 DEF OneTime!Next, OneTime!Issue
  <1> QED BY <1>2, <1>3, <1>4, <1>6

\* A step that puts a new row into the table keeps primary keys apart.
LEMMA RowsIssued ==
  ASSUME TypeOK, RowsUnique, IssuedOnly, nextId <= MaxRows, NEW r \in Row,
         r.id = nextId, rows' = rows \cup {r},
         r.pk \in {nextId, ReservationKey}, r.pk = ReservationKey => r.key = "stored",
         \/ Isolation = "snapshot" \/ r.pk # ReservationKey
         \/ \A o \in rows : o.pk # ReservationKey
  PROVE  RowsUnique'
  <1>1. \A o \in rows : o.id \in Int /\ o.id < nextId /\ o.id > 0
    BY DEF TypeOK, Row, IssuedOnly, Stored
  <1>2. nextId \in Int /\ nextId > 0
    BY DEF TypeOK
  <1> QED BY <1>1, <1>2 DEF RowsUnique, ReservationKey

\* set() of secondary storage replaces the entry of its key.
LEMMA CachePut ==
  ASSUME CacheUnique, NEW r, cache' = PutIfLive(r),
         ~InDatabase => \A c \in cache : c.id # r.id
  PROVE  CacheUnique'
  BY DEF CacheUnique, PutIfLive, Put, InDatabase

-----------------------------------------------------------------------------
(* Each action keeps the invariant.                                        *)

\* The part of the invariant that TypeStep does not give.
Rest == RowsUnique /\ CacheUnique /\ IssuedOnly /\ TakenOnce /\ ReturnedGone
        /\ Closures /\ NoTable

\* createVerificationValue inserts a row and keeps the invariant.
LEMMA CreateRowStep ==
  ASSUME ConfigAssumption, Durable, IInv, NEW p \in Procs, CreateRow(p)
  PROVE  Rest' /\ OneTime!Next
  <1> USE DEF IInv
  <1>1. PICK r \in NewRows :
          /\ rows' = rows \cup {r}
          /\ held' = [held EXCEPT ![p] = IF Cached THEN {r} ELSE {}]
    BY DEF CreateRow
  <1>2. r \in Row /\ r.id = nextId /\ r.pk = nextId
    BY NewRowsType DEF CreateRow
  <1>3. pc[p] = "idle" /\ pc' = [pc EXCEPT ![p] = IF Cached THEN "mirroring" ELSE "idle"]
    BY DEF CreateRow, Goto
  <1>4. \A q \in Holders' : q \in Holders /\ held'[q] = held[q]
    BY <1>1, <1>3 DEF Holders, TypeOK
  <1>5. RowsUnique' /\ CacheUnique' /\ NoTable'
    <2>1. RowsUnique'
      <3>1. nextId <= MaxRows
        BY DEF CreateRow
      <3>2. nextId # ReservationKey
        BY DEF TypeOK, ReservationKey
      <3> QED BY <1>1, <1>2, <3>1, <3>2, RowsIssued
    <2>2. CacheUnique' /\ NoTable'
      BY DEF CreateRow, CacheUnique, NoTable, InDatabase
    <2> QED BY <2>1, <2>2
  <1>6. IssuedOnly' /\ TakenOnce' /\ ReturnedGone' /\ OneTime!Next
    BY <1>1, <1>2, <1>4, Issues DEF CreateRow, Stored, history, InDatabase
  <1>7. Closures'
    BY <1>1, <1>3, <1>4 DEF CreateRow, Closures, Holders, TypeOK, InDatabase
  <1> QED BY <1>5, <1>6, <1>7 DEF Rest

\* reserveVerificationValue inserts a reservation and keeps the invariant.
LEMMA ReserveStep ==
  ASSUME ConfigAssumption, Durable, IInv, NEW p \in Procs, Reserve(p)
  PROVE  Rest' /\ OneTime!Next
  <1> USE DEF IInv
  <1>1. PICK n \in NewRows :
          /\ rows' = rows \cup {[n EXCEPT !.pk = ReservationKey]}
          /\ held' = [held EXCEPT ![p] = IF Cached THEN {[n EXCEPT !.pk = ReservationKey]}
                                                   ELSE {}]
    BY DEF Reserve
  <1> DEFINE r == [n EXCEPT !.pk = ReservationKey]
  <1>2. r \in Row /\ r.id = nextId /\ r.pk = ReservationKey /\ r.key = "stored"
    BY NewRowsType DEF Reserve
  <1>3. pc[p] = "idle" /\ pc' = [pc EXCEPT ![p] = IF Cached THEN "mirroring" ELSE "idle"]
    BY DEF Reserve, Goto
  <1> HIDE DEF r
  <1>4. /\ rows' = rows \cup {r}
        /\ held' = [held EXCEPT ![p] = IF Cached THEN {r} ELSE {}]
    BY <1>1 DEF r
  <1>5. \A q \in Holders' : q \in Holders /\ held'[q] = held[q]
    BY <1>3, <1>4 DEF Holders, TypeOK
  <1>6. RowsUnique' /\ CacheUnique' /\ NoTable'
    BY <1>2, <1>4, RowsIssued DEF Reserve, CacheUnique, NoTable, InDatabase
  <1>7. IssuedOnly' /\ TakenOnce' /\ ReturnedGone' /\ OneTime!Next
    BY <1>2, <1>4, <1>5, Issues DEF Reserve, Stored, history, InDatabase
  <1>8. Closures'
    BY <1>3, <1>4, <1>5 DEF Reserve, Closures, Holders, TypeOK, InDatabase
  <1> QED BY <1>6, <1>7, <1>8 DEF Rest

\* createVerificationValue writes to secondary storage only and keeps the invariant.
LEMMA CreateCachedStep ==
  ASSUME ConfigAssumption, Durable, IInv, NEW p \in Procs, CreateCached(p)
  PROVE  Rest' /\ OneTime!Next
  <1> USE DEF IInv
  <1>1. PICK r \in NewRows : cache' = PutIfLive(r)
    BY DEF CreateCached
  <1>2. r \in Row /\ r.id = nextId
    BY NewRowsType DEF CreateCached
  <1>3. Holders' = Holders /\ held' = held
    BY DEF CreateCached, Holders, local
  <1>4. \A c \in cache : c.id # nextId
    BY DEF CreateCached, IssuedOnly, Stored, TypeOK, Row
  <1>5. RowsUnique' /\ CacheUnique' /\ NoTable'
    BY <1>1, <1>2, <1>4, CachePut DEF CreateCached, RowsUnique, NoTable, InDatabase
  <1>6. \A o \in Stored' : o.id = nextId \/ \E x \in Stored : x.id = o.id
    BY <1>1, <1>2 DEF CreateCached, Stored, InDatabase, PutIfLive, Put
  <1>7. IssuedOnly' /\ TakenOnce' /\ ReturnedGone' /\ OneTime!Next
    BY <1>3, <1>6, Issues DEF CreateCached, history
  <1>8. Closures'
    BY <1>3 DEF CreateCached, Closures, local, Holders, InDatabase
  <1> QED BY <1>5, <1>7, <1>8 DEF Rest
\* findVerificationValue cleans up expired rows and keeps the invariant.
LEMMA FindAndCleanUpStep ==
  ASSUME ConfigAssumption, Durable, IInv, NEW p \in Procs, FindAndCleanUp(p)
  PROVE  Rest' /\ OneTime!Next
  <1> USE DEF IInv
  <1>1. RowsUnique' /\ CacheUnique' /\ NoTable'
    BY CacheVoided, RowsVoided, NoTableKept DEF FindAndCleanUp, store
  <1>2. \A q \in Holders' : held'[q] # {} => q \in Holders /\ held'[q] \subseteq held[q]
    BY DEF FindAndCleanUp, Holders, TypeOK, Goto, Finish, local
  <1>3. \A o \in Stored' : \E r \in Stored : r.id = o.id
    BY DEF FindAndCleanUp, Stored, InDatabase, store
  <1>4. IssuedOnly' /\ TakenOnce' /\ ReturnedGone' /\ OneTime!Next
    BY <1>2, <1>3, Voids DEF FindAndCleanUp, history, store
  <1>5. Closures'
    BY DEF FindAndCleanUp, Closures, Holders, TypeOK, Goto, Finish, local, InDatabase
  <1> QED BY <1>1, <1>4, <1>5 DEF Rest

\* deleteVerificationByIdentifier drops the cached entry and keeps the invariant.
LEMMA DeleteStep ==
  ASSUME ConfigAssumption, Durable, IInv, NEW p \in Procs, Delete(p)
  PROVE  Rest' /\ OneTime!Next
  <1> USE DEF IInv
  <1>1. RowsUnique' /\ CacheUnique' /\ NoTable'
    BY CacheVoided, RowsVoided, NoTableKept DEF Delete, store
  <1>2. \A q \in Holders' : held'[q] # {} => q \in Holders /\ held'[q] \subseteq held[q]
    BY DEF Delete, Holders, TypeOK, Goto, Finish, local
  <1>3. \A o \in Stored' : \E r \in Stored : r.id = o.id
    BY DEF Delete, Stored, InDatabase, store, OfKey
  <1>4. IssuedOnly' /\ TakenOnce' /\ ReturnedGone' /\ OneTime!Next
    BY <1>2, <1>3, Voids DEF Delete, history, store
  <1>5. Closures'
    BY DEF Delete, Closures, Holders, TypeOK, Goto, Finish, local, InDatabase
  <1> QED BY <1>1, <1>4, <1>5 DEF Rest

\* deleteVerificationByIdentifier deletes the rows and keeps the invariant.
LEMMA DeleteRowsStep ==
  ASSUME ConfigAssumption, Durable, IInv, NEW p \in Procs, DeleteRows(p)
  PROVE  Rest' /\ OneTime!Next
  <1> USE DEF IInv
  <1>1. RowsUnique' /\ CacheUnique' /\ NoTable'
    BY CacheVoided, RowsVoided, NoTableKept DEF DeleteRows, store
  <1>2. \A q \in Holders' : held'[q] # {} => q \in Holders /\ held'[q] \subseteq held[q]
    BY DEF DeleteRows, Holders, TypeOK, Goto, Finish, local
  <1>3. \A o \in Stored' : \E r \in Stored : r.id = o.id
    BY DEF DeleteRows, Stored, InDatabase, store
  <1>4. IssuedOnly' /\ TakenOnce' /\ ReturnedGone' /\ OneTime!Next
    BY <1>2, <1>3, Voids DEF DeleteRows, history, store
  <1>5. Closures'
    BY DEF DeleteRows, Closures, Holders, TypeOK, Goto, Finish, local, InDatabase
  <1> QED BY <1>1, <1>4, <1>5 DEF Rest

\* A consume deletes the stale rows and keeps the invariant.
LEMMA SweepStaleStep ==
  ASSUME ConfigAssumption, Durable, IInv, NEW p \in Procs, SweepStale(p)
  PROVE  Rest' /\ OneTime!Next
  <1> USE DEF IInv
  <1>1. RowsUnique' /\ CacheUnique' /\ NoTable'
    BY CacheVoided, RowsVoided, NoTableKept DEF SweepStale, store
  <1>2. \A q \in Holders' : held'[q] # {} => q \in Holders /\ held'[q] \subseteq held[q]
    BY DEF SweepStale, Holders, TypeOK, Goto, Finish, local
  <1>3. \A o \in Stored' : \E r \in Stored : r.id = o.id
    BY DEF SweepStale, Stored, InDatabase, store
  <1>4. IssuedOnly' /\ TakenOnce' /\ ReturnedGone' /\ OneTime!Next
    BY <1>2, <1>3, Voids DEF SweepStale, history, store
  <1>5. Closures'
    BY DEF SweepStale, Closures, Holders, TypeOK, Goto, Finish, local, InDatabase
  <1> QED BY <1>1, <1>4, <1>5 DEF Rest

\* A hook refuses a consume and keeps the invariant.
LEMMA VetoStep ==
  ASSUME ConfigAssumption, Durable, IInv, NEW p \in Procs, Veto(p)
  PROVE  Rest' /\ OneTime!Next
  <1> USE DEF IInv
  <1>1. RowsUnique' /\ CacheUnique' /\ NoTable'
    BY CacheVoided, RowsVoided, NoTableKept DEF Veto, store
  <1>2. \A q \in Holders' : held'[q] # {} => q \in Holders /\ held'[q] \subseteq held[q]
    BY DEF Veto, Holders, Closures, TypeOK, Goto, Finish, local
  <1>3. \A o \in Stored' : \E r \in Stored : r.id = o.id
    BY DEF Veto, Stored, InDatabase, store
  <1>4. IssuedOnly' /\ TakenOnce' /\ ReturnedGone' /\ OneTime!Next
    BY <1>2, <1>3, Voids DEF Veto, history, store
  <1>5. Closures'
    BY DEF Veto, Closures, Holders, TypeOK, Goto, Finish, local, InDatabase
  <1> QED BY <1>1, <1>4, <1>5 DEF Rest

\* updateVerificationByIdentifier reads the cached entry and keeps the invariant.
LEMMA UpdateReadStep ==
  ASSUME ConfigAssumption, Durable, IInv, NEW p \in Procs, UpdateRead(p)
  PROVE  Rest' /\ OneTime!Next
  <1> USE DEF IInv
  <1>1. RowsUnique' /\ CacheUnique' /\ NoTable'
    BY CacheVoided, RowsVoided, NoTableKept DEF UpdateRead, store
  <1>2. \A q \in Holders' : held'[q] # {} => q \in Holders /\ held'[q] \subseteq held[q]
    BY DEF UpdateRead, Holders, TypeOK, Goto, Finish, local
  <1>3. \A o \in Stored' : \E r \in Stored : r.id = o.id
    BY DEF UpdateRead, Stored, InDatabase, store
  <1>4. IssuedOnly' /\ TakenOnce' /\ ReturnedGone' /\ OneTime!Next
    BY <1>2, <1>3, Voids DEF UpdateRead, history, store
  <1>5. Closures'
    <2>1. InDatabase
      BY DEF UpdateRead, Durable
    <2>2. /\ held' = [held EXCEPT ![p] = Parsed]
          /\ Parsed # {} => pc' = [pc EXCEPT ![p] = "rewriting"]
          /\ Parsed = {} => pc' = [pc EXCEPT ![p] = "updating"]
      BY <2>1 DEF UpdateRead, Goto
    <2> QED BY <2>1, <2>2 DEF UpdateRead, Closures, Holders, TypeOK
  <1> QED BY <1>1, <1>4, <1>5 DEF Rest

\* A consume queues for the lock and keeps the invariant.
LEMMA AcquireStep ==
  ASSUME ConfigAssumption, Durable, IInv, NEW p \in Procs, Acquire(p)
  PROVE  Rest' /\ OneTime!Next
  <1> USE DEF IInv
  <1>1. RowsUnique' /\ CacheUnique' /\ NoTable'
    BY CacheVoided, RowsVoided, NoTableKept DEF Acquire, store
  <1>2. \A q \in Holders' : held'[q] # {} => q \in Holders /\ held'[q] \subseteq held[q]
    BY DEF Acquire, Holders, TypeOK, Goto, Finish, local
  <1>3. \A o \in Stored' : \E r \in Stored : r.id = o.id
    BY DEF Acquire, Stored, InDatabase, store
  <1>4. IssuedOnly' /\ TakenOnce' /\ ReturnedGone' /\ OneTime!Next
    BY <1>2, <1>3, Voids DEF Acquire, history, store
  <1>5. Closures'
    BY DEF Acquire, Closures, Holders, TypeOK, Goto, Finish, local, InDatabase
  <1> QED BY <1>1, <1>4, <1>5 DEF Rest

\* A consume drops what is cached and keeps the invariant.
LEMMA UncacheStep ==
  ASSUME ConfigAssumption, Durable, IInv, NEW p \in Procs, Uncache(p)
  PROVE  Rest' /\ OneTime!Next
  <1> USE DEF IInv
  <1>1. RowsUnique' /\ CacheUnique' /\ NoTable'
    BY CacheVoided, RowsVoided, NoTableKept DEF Uncache, store
  <1>2. \A q \in Holders' : held'[q] # {} => q \in Holders /\ held'[q] \subseteq held[q]
    BY DEF Uncache, Holders, TypeOK, Goto, Finish, local
  <1>3. \A o \in Stored' : \E r \in Stored : r.id = o.id
    BY DEF Uncache, Stored, InDatabase, store
  <1>4. IssuedOnly' /\ TakenOnce' /\ ReturnedGone' /\ OneTime!Next
    BY <1>2, <1>3, Voids DEF Uncache, history, store
  <1>5. Closures'
    BY DEF Uncache, Closures, Holders, TypeOK, Goto, Finish, local, InDatabase
  <1> QED BY <1>1, <1>4, <1>5 DEF Rest

\* A create writes its entry to secondary storage and keeps the invariant.
LEMMA MirrorStep ==
  ASSUME ConfigAssumption, Durable, IInv, NEW p \in Procs, Mirror(p)
  PROVE  Rest' /\ OneTime!Next
  <1> USE DEF IInv
  <1>1. RowsUnique' /\ CacheUnique' /\ NoTable'
    <2>1. InDatabase /\ rows' = rows
      BY DEF Mirror, Closures
    <2>2. PICK r : cache' = PutIfLive(r)
      BY DEF Mirror
    <2> QED BY <2>1, <2>2, CachePut DEF RowsUnique, NoTable, InDatabase
  <1>2. \A q \in Holders' : held'[q] # {} => q \in Holders /\ held'[q] \subseteq held[q]
    BY DEF Mirror, Holders, TypeOK, Goto, Finish, local
  <1>3. \A o \in Stored' : \E r \in Stored : r.id = o.id
    BY DEF Mirror, Stored, InDatabase, store, Closures
  <1>4. IssuedOnly' /\ TakenOnce' /\ ReturnedGone' /\ OneTime!Next
    BY <1>2, <1>3, Voids DEF Mirror, history, store
  <1>5. Closures'
    BY DEF Mirror, Closures, Holders, TypeOK, Goto, Finish, local, InDatabase
  <1> QED BY <1>1, <1>4, <1>5 DEF Rest

\* updateVerificationByIdentifier writes the entry back and keeps the invariant.
LEMMA UpdateWriteStep ==
  ASSUME ConfigAssumption, Durable, IInv, NEW p \in Procs, UpdateWrite(p)
  PROVE  Rest' /\ OneTime!Next
  <1> USE DEF IInv
  <1>1. RowsUnique' /\ CacheUnique' /\ NoTable'
    <2>1. InDatabase /\ rows' = rows
      BY DEF UpdateWrite, Closures
    <2>2. PICK r : cache' = PutIfLive(r)
      BY DEF UpdateWrite
    <2> QED BY <2>1, <2>2, CachePut DEF RowsUnique, NoTable, InDatabase
  <1>2. \A q \in Holders' : held'[q] # {} => q \in Holders /\ held'[q] \subseteq held[q]
    BY DEF UpdateWrite, Holders, TypeOK, Goto, Finish, local
  <1>3. \A o \in Stored' : \E r \in Stored : r.id = o.id
    BY DEF UpdateWrite, Stored, InDatabase, store, Closures
  <1>4. IssuedOnly' /\ TakenOnce' /\ ReturnedGone' /\ OneTime!Next
    BY <1>2, <1>3, Voids DEF UpdateWrite, history, store
  <1>5. Closures'
    BY DEF UpdateWrite, Closures, Holders, TypeOK, Goto, Finish, local, InDatabase
  <1> QED BY <1>1, <1>4, <1>5 DEF Rest

\* A consume selects the latest row and keeps the invariant.
LEMMA ReadLatestStep ==
  ASSUME ConfigAssumption, Durable, IInv, NEW p \in Procs, ReadLatest(p)
  PROVE  Rest' /\ OneTime!Next
  <1> USE DEF IInv
  <1>1. RowsUnique' /\ CacheUnique' /\ NoTable'
    BY CacheVoided, RowsVoided, NoTableKept DEF ReadLatest, store
  <1>2. \A q \in Holders' : held'[q] # {} => q \in Holders /\ held'[q] \subseteq held[q]
    BY DEF ReadLatest, Holders, TypeOK, Goto, Finish, local, Closures
  <1>3. \A o \in Stored' : \E r \in Stored : r.id = o.id
    BY DEF ReadLatest, Stored, InDatabase, store
  <1>4. IssuedOnly' /\ TakenOnce' /\ ReturnedGone' /\ OneTime!Next
    BY <1>2, <1>3, Voids DEF ReadLatest, history, store
  <1>5. Closures'
    <2>1. InDatabase
      BY DEF ReadLatest, Closures
    <2>2. ASSUME NEW q \in Procs, Isolation # "snapshot"
          PROVE  \A r, o \in seen'[q] : r = o
      <3>1. CASE OfKey(rows, at[p]) = {}
        BY <2>2, <3>1 DEF ReadLatest, Closures
      <3>2. CASE OfKey(rows, at[p]) # {}
        <4>1. PICK r : seen' = [seen EXCEPT ![p] = {r}]
          BY <2>2, <3>2 DEF ReadLatest
        <4>2. seen'[q] = seen[q] \/ seen'[q] = {r}
          BY <4>1 DEF TypeOK
        <4> QED BY <2>2, <4>2 DEF Closures
      <3> QED BY <3>1, <3>2
    <2>3. held' = held /\ \E l \in {"releasing", "consuming"} : pc' = [pc EXCEPT ![p] = l]
      BY DEF ReadLatest, Goto
    <2>4. held[p] = {}
      BY DEF ReadLatest, Closures, Holders
    <2>5. \A q \in Procs : held'[q] # {} => q \in Holders' \/ pc'[q] \in {"mirroring", "rewriting"}
      BY <2>3, <2>4 DEF Closures, Holders, TypeOK
    <2> QED BY <2>1, <2>2, <2>5 DEF Closures, InDatabase
  <1> QED BY <1>1, <1>4, <1>5 DEF Rest

\* A consume releases the lock and keeps the invariant.
LEMMA ReleaseStep ==
  ASSUME ConfigAssumption, Durable, IInv, NEW p \in Procs, Release(p)
  PROVE  Rest' /\ OneTime!Next
  <1> USE DEF IInv
  <1>1. RowsUnique' /\ CacheUnique' /\ NoTable'
    BY CacheVoided, RowsVoided, NoTableKept DEF Release, store
  <1>2. \A q \in Holders' : held'[q] # {} => q \in Holders /\ held'[q] \subseteq held[q]
    BY DEF Release, Holders, TypeOK, Goto, Finish, local
  <1>3. \A o \in Stored' : \E r \in Stored : r.id = o.id
    BY DEF Release, Stored, InDatabase, store
  <1>4. IssuedOnly' /\ TakenOnce' /\ ReturnedGone' /\ OneTime!Next
    BY <1>2, <1>3, Voids DEF Release, history, store
  <1>5. Closures'
    <2>1. pc[p] = "releasing" /\ held' = held /\ InDatabase
      BY DEF Release, Closures
    <2>2. seen' = [seen EXCEPT ![p] = {}] /\ pc' = [pc EXCEPT ![p] = AfterLock(p)]
      BY DEF Release, Goto
    <2>3. held[p] # {} => AfterLock(p) \in {"uncaching", "deciding"}
      BY DEF AfterLock
    <2> QED BY <2>1, <2>2, <2>3 DEF Closures, Holders, TypeOK
  <1> QED BY <1>1, <1>4, <1>5 DEF Rest

\* A call throws and keeps the invariant.
LEMMA FailStep ==
  ASSUME ConfigAssumption, Durable, IInv, NEW p \in Procs, Fail(p)
  PROVE  Rest' /\ OneTime!Next
  <1> USE DEF IInv
  <1>1. RowsUnique' /\ CacheUnique' /\ NoTable'
    BY CacheVoided, RowsVoided, NoTableKept DEF Fail, store
  <1>2. \A q \in Holders' : held'[q] # {} => q \in Holders /\ held'[q] \subseteq held[q]
    BY DEF Fail, Holders, TypeOK, Goto, Finish, local
  <1>3. \A o \in Stored' : \E r \in Stored : r.id = o.id
    BY DEF Fail, Stored, InDatabase, store
  <1>4. IssuedOnly' /\ TakenOnce' /\ ReturnedGone' /\ OneTime!Next
    BY <1>2, <1>3, Voids DEF Fail, history, store
  <1>5. Closures'
    BY DEF Fail, Closures, Holders, TypeOK, Goto, Finish, local, InDatabase
  <1> QED BY <1>1, <1>4, <1>5 DEF Rest

\* updateVerificationByIdentifier updates the rows and keeps the invariant.
LEMMA UpdateRowsStep ==
  ASSUME ConfigAssumption, Durable, IInv, NEW p \in Procs, UpdateRows(p)
  PROVE  Rest' /\ OneTime!Next
  <1> USE DEF IInv
  <1>1. PICK e \in {now + t : t \in Lifetimes} :
          rows' = {IF r.key = "stored" THEN [r EXCEPT !.exp = e] ELSE r : r \in rows}
    BY DEF UpdateRows
  <1>2. e \in Nat
    BY DEF TypeOK, ConfigAssumption
  <1>3. \A o \in rows' : \E r \in rows :
          o.id = r.id /\ o.pk = r.pk /\ o.key = r.key /\ o = IF r.key = "stored" THEN [r EXCEPT !.exp = e] ELSE r
    <2> SUFFICES ASSUME NEW o \in rows'
                 PROVE  \E r \in rows : /\ o.id = r.id /\ o.pk = r.pk /\ o.key = r.key
                                       /\ o = IF r.key = "stored" THEN [r EXCEPT !.exp = e] ELSE r
      OBVIOUS
    <2>1. PICK r \in rows : o = IF r.key = "stored" THEN [r EXCEPT !.exp = e] ELSE r
      BY <1>1
    <2>2. r \in Row
      BY DEF TypeOK
    <2> QED BY <1>2, <2>1, <2>2, RenewType
  <1>4. RowsUnique'
    BY <1>3 DEF RowsUnique, ReservationKey
  <1>5. CacheUnique' /\ NoTable'
    BY <1>1 DEF UpdateRows, CacheUnique, NoTable, InDatabase
  <1>6. \A q \in Holders' : held'[q] # {} => q \in Holders /\ held'[q] \subseteq held[q]
    BY DEF UpdateRows, Holders, TypeOK, Goto, Finish
  <1>7. \A o \in Stored' : \E r \in Stored : r.id = o.id
    BY <1>3 DEF UpdateRows, Stored, InDatabase
  <1>8. IssuedOnly' /\ TakenOnce' /\ ReturnedGone' /\ OneTime!Next
    BY <1>6, <1>7, Voids DEF UpdateRows, history
  <1>9. Closures'
    BY DEF UpdateRows, Closures, Holders, TypeOK, Goto, Finish, InDatabase
  <1> QED BY <1>4, <1>5, <1>8, <1>9 DEF Rest

\* A step that moves values with one id out of the store into a hand.
LEMMA Takes ==
  ASSUME TypeOK, IssuedOnly, TakenOnce, ReturnedGone, NEW p \in Procs, NEW hit,
         hit \subseteq Stored, \A r, o \in hit : r = o,
         held' = [held EXCEPT ![p] = hit], p \notin Holders,
         Holders' \subseteq Holders \cup {p}, uses' = uses, nextId' = nextId,
         Stored' \subseteq Stored,
         \A r \in hit : \A o \in Stored' : o.id # r.id
  PROVE  IssuedOnly' /\ TakenOnce' /\ ReturnedGone' /\ OneTime!Next
  <1>1. held'[p] = hit /\ \A q \in Holders : held'[q] = held[q]
    BY DEF TypeOK, Holders
  <1>2. IssuedOnly'
    BY <1>1 DEF IssuedOnly
  <1>3. TakenOnce'
    BY <1>1 DEF TakenOnce
  <1>4. ReturnedGone'
    BY <1>1 DEF ReturnedGone
  <1>5. Live' \subseteq Live
    BY <1>1, LiveIs
  <1>6. OneTime!Next
    BY <1>5 DEF OneTime!Next, OneTime!Void
  <1> QED BY <1>2, <1>3, <1>4, <1>6

\* consumeOne deletes the row by primary key and keeps the invariant.
LEMMA ConsumeOneStep ==
  ASSUME ConfigAssumption, Durable, IInv, NEW p \in Procs, ConsumeOne(p)
  PROVE  Rest' /\ OneTime!Next
  <1> USE DEF IInv
  <1>1. /\ pc[p] = "consuming" /\ held' = [held EXCEPT ![p] = Gate(p)]
        /\ \E l \in {"sweeping", "releasing"} : pc' = [pc EXCEPT ![p] = l]
        /\ rows' \subseteq rows \ Gate(p)
        /\ UNCHANGED <<now, nextId, cache, seen, uses>>
    BY DEF ConsumeOne, Goto
  <1>2. Gate(p) \subseteq rows /\ \A r, o \in Gate(p) : r = o
    <2>1. Isolation # "snapshot" /\ \A r, o \in seen[p] : r = o
      BY DEF ConsumeOne, Closures
    <2> QED BY <2>1 DEF Gate, RowsUnique
  <1>3. InDatabase
    BY <1>1 DEF Closures
  <1>4. RowsUnique' /\ CacheUnique' /\ NoTable'
    BY <1>1, <1>3, RowsVoided, CacheVoided, NoTableKept
  <1>5. IssuedOnly' /\ TakenOnce' /\ ReturnedGone' /\ OneTime!Next
    <2>1. p \notin Holders /\ Holders' \subseteq Holders \cup {p}
      BY <1>1 DEF Holders, TypeOK
    <2>2. Gate(p) \subseteq Stored /\ Stored' \subseteq rows \ Gate(p) /\ rows \subseteq Stored
      BY <1>1, <1>2, <1>3 DEF Stored, InDatabase
    <2>3. \A r \in Gate(p) : \A o \in Stored' : o.id # r.id
      BY <1>2, <2>2 DEF RowsUnique
    <2> QED BY <1>1, <1>2, <2>1, <2>2, <2>3, Takes
  <1>6. Closures'
    BY <1>1, <1>3 DEF Closures, Holders, TypeOK, InDatabase
  <1> QED BY <1>4, <1>5, <1>6 DEF Rest

\* A consume over secondary storage takes the entry and keeps the invariant.
LEMMA GetAndDeleteStep ==
  ASSUME ConfigAssumption, Durable, IInv, NEW p \in Procs, GetAndDelete(p)
  PROVE  Rest' /\ OneTime!Next
  <1> USE DEF IInv
  <1> DEFINE hit == OfKey(cache, at[p])
  <1>1. /\ ~InDatabase /\ pc[p] \in {"idle", "retrying"}
        /\ held' = [held EXCEPT ![p] = hit]
        /\ cache' = cache \ hit
        /\ UNCHANGED <<now, nextId, rows, seen, uses>>
    BY DEF GetAndDelete
  <1>2. \E l \in {"uncaching", "deciding", "retrying", "idle"} :
          pc' = [pc EXCEPT ![p] = l] /\ (hit # {} => l \in {"uncaching", "deciding"})
    <2>1. CASE hit # {}
      BY <2>1 DEF GetAndDelete, Goto
    <2>2. CASE hit = {}
      BY <2>2 DEF GetAndDelete, Goto
    <2> QED BY <2>1, <2>2
  <1>3. hit \subseteq cache /\ \A r, o \in hit : r = o
    BY DEF OfKey, CacheUnique
  <1>4. RowsUnique' /\ CacheUnique' /\ NoTable'
    BY <1>1, RowsVoided, CacheVoided, NoTableKept
  <1> HIDE DEF hit
  <1>5. IssuedOnly' /\ TakenOnce' /\ ReturnedGone' /\ OneTime!Next
    <2>1. p \notin Holders /\ Holders' \subseteq Holders \cup {p}
      BY <1>1, <1>2 DEF Holders, TypeOK
    <2>2. rows = {} /\ Stored = cache /\ Stored' = cache \ hit
      BY <1>1 DEF Stored, InDatabase, NoTable
    <2>3. \A r \in hit : \A o \in Stored' : o.id # r.id
      BY <1>1, <1>3, <2>2 DEF CacheUnique
    <2> QED BY <1>1, <1>3, <2>1, <2>2, <2>3, Takes
  <1>6. Closures'
    BY <1>1, <1>2 DEF Closures, Holders, TypeOK, InDatabase
  <1> QED BY <1>4, <1>5, <1>6 DEF Rest

\* A consume passes the expiry gate and returns the value and keeps the invariant.
LEMMA DecideStep ==
  ASSUME ConfigAssumption, Durable, IInv, NEW p \in Procs, Decide(p)
  PROVE  Rest' /\ OneTime!Next
  <1> USE DEF IInv
  <1>1. /\ pc[p] = "deciding" /\ p \in Holders
        /\ pc' = [pc EXCEPT ![p] = "idle"] /\ held' = [held EXCEPT ![p] = {}]
        /\ seen' = [seen EXCEPT ![p] = {}]
        /\ UNCHANGED <<now, nextId, rows, cache>>
    BY DEF Decide, Finish, Goto, store, Holders
  <1>2. \A q \in Holders' : q \in Holders /\ q # p /\ held'[q] = held[q]
    BY <1>1 DEF Holders, TypeOK
  <1>3. Stored' = Stored
    BY <1>1 DEF Stored, InDatabase
  <1>4. \A i \in Ids : \/ uses'[i] = uses[i]
                       \/ uses'[i] = uses[i] + 1 /\ \E r \in held[p] : r.id = i
    BY DEF Decide
  <1>5. RowsUnique' /\ CacheUnique' /\ NoTable'
    BY <1>1 DEF RowsUnique, CacheUnique, NoTable, InDatabase
  <1>6. IssuedOnly'
    BY <1>1, <1>2, <1>3, <1>4 DEF IssuedOnly, TypeOK
  <1>7. TakenOnce'
    BY <1>1, <1>2, <1>3 DEF TakenOnce
  <1>8. ReturnedGone'
    <2>1. \A i \in Ids : uses[i] \in Nat
      BY DEF TypeOK
    <2>2. ASSUME NEW i \in Ids, uses'[i] = uses[i], uses'[i] > 0
          PROVE  /\ uses'[i] = 1
                 /\ \A r \in Stored : r.id # i
                 /\ \A q \in Holders' : \A r \in held'[q] : r.id # i
      BY <1>2, <2>2 DEF ReturnedGone
    <2>3. ASSUME NEW i \in Ids, uses'[i] = uses[i] + 1, NEW r \in held[p], r.id = i
          PROVE  /\ uses'[i] = 1
                 /\ \A o \in Stored : o.id # i
                 /\ \A q \in Holders' : \A o \in held'[q] : o.id # i
      <3>1. uses[i] = 0
        BY <1>1, <2>1, <2>3 DEF ReturnedGone
      <3> QED BY <1>1, <1>2, <2>3, <3>1 DEF TakenOnce
    <2> QED BY <1>3, <1>4, <2>2, <2>3 DEF ReturnedGone
  <1>9. Closures'
    BY <1>1 DEF Closures, Holders, TypeOK, InDatabase
  <1>10. OneTime!Next
    <2>1. PICK R \in SUBSET held[p] :
            uses' = [i \in Ids |-> IF \E r \in R : r.id = i THEN uses[i] + 1 ELSE uses[i]]
      <3>1. uses' = [i \in Ids |-> IF \E r \in {o \in held[p] : ~Expired(o)} : r.id = i
                                  THEN uses[i] + 1 ELSE uses[i]]
        BY DEF Decide
      <3> QED BY <3>1
    <2>2. CASE R = {}
      <3>1. uses' = uses
        <4>1. uses' = [i \in Ids |-> uses[i]]
          BY <2>1, <2>2
        <4> QED BY <4>1 DEF TypeOK
      <3>2. \A i : i \in Live' => i \in Live
        BY <1>2, <1>3, LiveIs
      <3> QED BY <1>1, <3>1, <3>2 DEF OneTime!Next, OneTime!Void
    <2>3. ASSUME NEW r \in R
          PROVE  r.id \in 1 .. MaxRows /\ OneTime!Use(r.id)
      <3>1. r \in held[p] /\ r \in Row /\ R = {r} /\ held[p] = {r}
        BY <1>1, <2>3 DEF TypeOK, TakenOnce
      <3>2. r.id \in Ids
        BY <3>1 DEF Row
      <3>3. uses' = [uses EXCEPT ![r.id] = @ + 1]
        BY <2>1, <3>1, <3>2 DEF TypeOK
      <3>4. r.id \in Live
        BY <1>1, <3>1, LiveIs
      <3>5. Live' = Live \ {r.id}
        <4>1. \A o \in Stored' : o.id # r.id
          BY <1>1, <1>3, <3>1 DEF TakenOnce
        <4>2. \A q \in Holders' : \A o \in held'[q] : o.id # r.id
          BY <1>1, <1>2, <3>1 DEF TakenOnce
        <4>3. \A q \in Holders : q = p \/ (q \in Holders' /\ held'[q] = held[q])
          <5> SUFFICES ASSUME NEW q \in Holders, q # p
                       PROVE  q \in Holders' /\ held'[q] = held[q]
            OBVIOUS
          <5>1. q \in Procs /\ pc'[q] = pc[q] /\ held'[q] = held[q]
            BY <1>1 DEF Holders, TypeOK
          <5> QED BY <5>1 DEF Holders
        <4> QED BY <1>2, <1>3, <3>1, <4>1, <4>2, <4>3, LiveIs
      <3> QED BY <1>1, <3>2, <3>3, <3>4, <3>5 DEF OneTime!Use
    <2> QED BY <2>2, <2>3 DEF OneTime!Next
  <1> QED BY <1>5, <1>6, <1>7, <1>8, <1>9, <1>10 DEF Rest

\* A server dies and keeps the invariant.
LEMMA CrashStep ==
  ASSUME ConfigAssumption, Durable, IInv, NEW s \in Servers, Crash(s)
  PROVE  Rest' /\ OneTime!Next
  <1> USE DEF IInv
  <1>1. \A q \in Procs : \/ pc'[q] = "idle" /\ held'[q] = {} /\ seen'[q] = {}
                         \/ pc'[q] = pc[q] /\ held'[q] = held[q] /\ seen'[q] = seen[q]
    BY DEF Crash, TypeOK
  <1>2. UNCHANGED <<now, nextId, rows, cache, uses>>
    BY DEF Crash, store, history
  <1>3. RowsUnique' /\ CacheUnique' /\ NoTable' /\ Stored' = Stored
    BY <1>2 DEF RowsUnique, CacheUnique, NoTable, InDatabase, Stored
  <1>4. \A q \in Holders' : held'[q] # {} => q \in Holders /\ held'[q] \subseteq held[q]
    BY <1>1 DEF Holders
  <1>5. IssuedOnly' /\ TakenOnce' /\ ReturnedGone' /\ OneTime!Next
    BY <1>2, <1>3, <1>4, Voids
  <1>6. Closures'
    BY <1>1 DEF Closures, Holders, InDatabase
  <1> QED BY <1>3, <1>5, <1>6 DEF Rest

\* Time passes and keeps the invariant.
LEMMA TickStep ==
  ASSUME ConfigAssumption, Durable, IInv, Tick
  PROVE  Rest' /\ OneTime!Next
  <1> USE DEF IInv
  <1>1. /\ UNCHANGED <<nextId, rows, pc, seen, held, uses>>
        /\ cache' \subseteq cache
    BY DEF Tick, local, history
  <1>2. RowsUnique' /\ CacheUnique' /\ NoTable'
    BY <1>1, RowsVoided, CacheVoided, NoTableKept
  <1>3. Holders' = Holders /\ Stored' \subseteq Stored
    BY <1>1 DEF Holders, Stored, InDatabase
  <1>4. IssuedOnly' /\ TakenOnce' /\ ReturnedGone' /\ OneTime!Next
    BY <1>1, <1>3, Voids
  <1>5. Closures'
    BY <1>1, <1>3 DEF Closures, InDatabase
  <1> QED BY <1>2, <1>4, <1>5 DEF Rest

-----------------------------------------------------------------------------
(* The theorems.                                                           *)

\* The invariant holds at the start.
LEMMA InvInit == ConfigAssumption /\ Init => IInv
  <1> SUFFICES ASSUME ConfigAssumption, Init
               PROVE  IInv
    OBVIOUS
  <1>1. TypeOK
    BY TypeInit
  <1>2. /\ rows \subseteq {Legacy} /\ cache \subseteq {Legacy} /\ Stored \subseteq {Legacy}
        /\ rows = {} \/ InDatabase
        /\ Stored # {} => nextId = 2
    BY DEF Init, Stored
  <1>3. Legacy.id = 1 /\ Legacy.pk = 1
    BY DEF Legacy
  <1>4. Holders = {} /\ \A i \in Ids : uses[i] = 0
    BY DEF Init, Holders
  <1>5. \A p \in Procs : pc[p] = "idle" /\ held[p] = {} /\ seen[p] = {}
    BY DEF Init
  <1>6. RowsUnique /\ CacheUnique /\ NoTable
    BY <1>2, <1>3 DEF RowsUnique, CacheUnique, NoTable, ReservationKey
  <1>7. IssuedOnly /\ TakenOnce /\ ReturnedGone
    BY <1>2, <1>3, <1>4 DEF IssuedOnly, TakenOnce, ReturnedGone
  <1>8. Closures
    BY <1>5 DEF Closures
  <1> QED BY <1>1, <1>6, <1>7, <1>8 DEF IInv

\* Every step but the one of the in-memory adapter keeps the invariant, and is a
\* step of OneTimeValues or none.
LEMMA InvOthers ==
  ASSUME ConfigAssumption, Durable, IInv, [Next]_vars,
         \A p \in Procs : ~ConsumeSnapshot(p)
  PROVE  IInv' /\ [OneTime!Next]_(OneTime!ovars)
  <1>1. TypeOK'
    BY TypeStep DEF IInv
  <1>2. CASE UNCHANGED vars
    <2>1. UNCHANGED <<rows, cache, nextId, pc, held, seen, uses>>
      BY <1>2 DEF vars
    <2>2. Holders' = Holders /\ Stored' = Stored
      BY <2>1 DEF Holders, Stored, InDatabase
    <2>3. Live' = Live
      BY <2>1, <2>2, LiveIs
    <2>4. Rest'
      BY <2>1, <2>2 DEF Rest, IInv, RowsUnique, CacheUnique, IssuedOnly, TakenOnce,
                        ReturnedGone, Closures, NoTable, InDatabase
    <2> QED BY <1>1, <2>1, <2>3, <2>4 DEF IInv, Rest, OneTime!ovars
  <1>3. ASSUME NEW p \in Procs, Call(p) \/ Continue(p) \/ Veto(p) \/ Fail(p)
        PROVE  Rest' /\ OneTime!Next
    BY <1>3, CreateRowStep, ReserveStep, CreateCachedStep, FindAndCleanUpStep,
       DeleteStep, DeleteRowsStep, SweepStaleStep, VetoStep, UpdateReadStep,
       AcquireStep, UncacheStep, MirrorStep, UpdateWriteStep, ReadLatestStep,
       ReleaseStep, FailStep, UpdateRowsStep, ConsumeOneStep, GetAndDeleteStep,
       DecideStep
    DEF Call, Continue
  <1>4. ASSUME Next
        PROVE  Rest' /\ OneTime!Next
    BY <1>3, <1>4, CrashStep, TickStep DEF Next
  <1> QED BY <1>1, <1>2, <1>4 DEF IInv, Rest

\* The same where a transaction deletes what is in the table.
LEMMA InvStep ==
  ASSUME ConfigAssumption, Sound, IInv, [Next]_vars
  PROVE  IInv' /\ [OneTime!Next]_(OneTime!ovars)
  <1>1. Durable /\ \A p \in Procs : ~ConsumeSnapshot(p)
    BY DEF Sound, ConsumeSnapshot
  <1> QED BY <1>1, InvOthers

\* The invariant holds for ever.
LEMMA InvCorrect == ASSUME Sound PROVE Spec => []IInv
  <1>1. Init => IInv
    BY ConfigAssumption, InvInit
  <1>2. IInv /\ [Next]_vars => IInv'
    BY ConfigAssumption, InvStep
  <1> QED BY <1>1, <1>2, PTL DEF Spec

\* No verification value is returned by two consumes, for any number of calls,
\* servers and values, with or without transactions, whatever fails between.
THEOREM SingleUseCorrect == ASSUME Sound PROVE Spec => []SingleUse
  <1>1. IInv => SingleUse
    BY DEF IInv, TypeOK, ReturnedGone, SingleUse
  <1> QED BY <1>1, InvCorrect, PTL

\* The initial states are initial states of OneTimeValues.
LEMMA OneTimeInit ==
  ASSUME ConfigAssumption, Init
  PROVE  OneTime!Init
  <1>1. IInv
    BY ConfigAssumption, InvInit
  <1>2. nextId \in Nat /\ nextId > 0 /\ nextId <= MaxRows + 1
    BY <1>1, ConfigAssumption DEF IInv, TypeOK, ConfigAssumption
  <1>3. Live \subseteq 1 .. nextId - 1
    <2>1. \A r \in Stored : r.id \in Nat /\ r.id > 0 /\ r.id < nextId
      BY <1>1 DEF IInv, IssuedOnly, TypeOK, Row, Stored
    <2>2. Holders = {}
      BY DEF Init, Holders
    <2> QED BY <1>2, <2>1, <2>2, LiveIs
  <1> QED BY <1>2, <1>3 DEF Init, OneTime!Init

\* The store of verification values implements the promise of OneTimeValues:
\* what was returned, dropped or overwritten never becomes live again.
THEOREM RefinesOneTimeCorrect == ASSUME Sound PROVE Spec => RefinesOneTime
  <1>1. Init => OneTime!Init
    BY ConfigAssumption, OneTimeInit
  <1>2. IInv /\ [Next]_vars => [OneTime!Next]_(OneTime!ovars)
    BY ConfigAssumption, InvStep
  <1> QED BY <1>1, <1>2, InvCorrect, PTL DEF Spec, RefinesOneTime, OneTime!Spec

-----------------------------------------------------------------------------
(* The promise chain: the calls on a key of a server stand in line, each   *)
(* behind another, whatever is dropped from the map.                       *)

Queued == InLock \cup {"waiting"}

Queue(s, k) == {p \in Procs : ServerOf[p] = s /\ at[p] = k /\ pc[p] \in Queued}

\* A promise in the map is that of a call in the line; without one there is no line.
Tails ==
  \A s \in Servers, k \in Keys :
    IF tail[s][k] = NoProc THEN Queue(s, k) = {} ELSE tail[s][k] \in Queue(s, k)

\* A call waits for one in front of it in its line, no two for the same, and nobody
\* for the last one; in particular one call at most waits for nobody.
Links ==
  \A s \in Servers, k \in Keys : \A p \in Queue(s, k) :
    /\ prev[p] # tail[s][k]
    /\ prev[p] # NoProc => prev[p] \in Queue(s, k)
    /\ \A q \in Queue(s, k) : prev[p] = prev[q] => p = q

\* Only calls in a line wait, and no longer once they work.
Waiters == \A p \in Procs : pc[p] # "waiting" => prev[p] = NoProc

\* Calls do not wait for each other in a circle.
NoCircle == \A X \in SUBSET Procs : (\A p \in X : prev[p] \in X) => X = {}

LineInv == Tails /\ Links /\ Waiters /\ NoCircle

\* Nobody waits at the start.
LEMMA LineInit == ConfigAssumption /\ Init => LineInv
  <1> SUFFICES ASSUME ConfigAssumption, Init  PROVE LineInv
    OBVIOUS
  <1>1. \A s \in Servers, k \in Keys : Queue(s, k) = {} /\ tail[s][k] = NoProc
    BY DEF Init, Queue, Queued, InLock
  <1>2. \A p \in Procs : prev[p] = NoProc /\ NoProc \notin Procs
    BY DEF Init, ConfigAssumption
  <1>3. NoCircle
    BY <1>2 DEF NoCircle
  <1> QED BY <1>1, <1>2, <1>3 DEF LineInv, Tails, Links, Waiters

\* A step that nobody joins a line in or leaves it.
LEMMA LineKept ==
  ASSUME LineInv, UNCHANGED lock,
         \A q \in Procs : /\ pc'[q] \in Queued <=> pc[q] \in Queued
                          /\ pc[q] \in Queued => at'[q] = at[q]
                          /\ pc[q] = "waiting" => pc'[q] = "waiting" \/ prev[q] = NoProc
  PROVE  LineInv'
  <1>1. \A s, k : Queue(s, k)' = Queue(s, k)
    BY DEF Queue
  <1>2. tail' = tail /\ prev' = prev
    BY DEF lock
  <1>3. Waiters'
    BY <1>2 DEF LineInv, Waiters, Queued
  <1> QED BY <1>1, <1>2, <1>3 DEF LineInv, Tails, Links, NoCircle

\* A call joins the line as its last one.
LEMMA LineJoined ==
  ASSUME ConfigAssumption, TypeOK, LineInv, NEW p \in Procs, Acquire(p)
  PROVE  LineInv'
  <1>0. PICK s \in Servers, k \in Keys : s = ServerOf[p] /\ k = at[p]
    BY DEF TypeOK, ConfigAssumption
  <1>1. s \in Servers /\ k \in Keys /\ p # NoProc /\ NoProc \notin Procs
    BY DEF ConfigAssumption
  <1>2. /\ pc[p] \notin Queued /\ pc' = [pc EXCEPT ![p] = "waiting"]
        /\ prev' = [prev EXCEPT ![p] = tail[s][k]]
        /\ tail' = [tail EXCEPT ![s][k] = p] /\ at' = at
    BY <1>0 DEF Acquire, Predecessor, Goto, local, Queued, InLock
  <1>3. \A q \in Procs \ {p} : pc'[q] = pc[q] /\ prev'[q] = prev[q]
    BY <1>2 DEF TypeOK
  <1>4. pc'[p] = "waiting" /\ prev'[p] = tail[s][k]
    BY <1>2 DEF TypeOK
  <1>5. /\ tail'[s][k] = p
        /\ \A t \in Servers, l \in Keys : t # s \/ l # k => tail'[t][l] = tail[t][l]
    BY <1>1, <1>2 DEF TypeOK
  <1>6. /\ Queue(s, k)' = Queue(s, k) \cup {p} /\ p \notin Queue(s, k)
        /\ \A t \in Servers, l \in Keys : t # s \/ l # k => Queue(t, l)' = Queue(t, l)
    BY <1>0, <1>2, <1>3, <1>4 DEF Queue, Queued
  <1>7. Tails'
    <2> SUFFICES ASSUME NEW t \in Servers, NEW l \in Keys
                 PROVE  IF tail'[t][l] = NoProc THEN Queue(t, l)' = {}
                                                ELSE tail'[t][l] \in Queue(t, l)'
      BY DEF Tails
    <2>1. CASE t # s \/ l # k
      BY <1>5, <1>6, <2>1 DEF LineInv, Tails
    <2>2. CASE t = s /\ l = k
      BY <1>1, <1>5, <1>6, <2>2
    <2> QED BY <2>1, <2>2
  <1>8. \A q \in Procs : q \in Queue(s, k) => q # p /\ prev'[q] = prev[q]
    BY <1>3, <1>6
  <1>9. Links'
    <2> SUFFICES ASSUME NEW t \in Servers, NEW l \in Keys, NEW q \in Queue(t, l)'
                 PROVE  /\ prev'[q] # tail'[t][l]
                        /\ prev'[q] # NoProc => prev'[q] \in Queue(t, l)'
                        /\ \A r \in Queue(t, l)' : prev'[q] = prev'[r] => q = r
      BY DEF Links
    <2>1. CASE t # s \/ l # k
      <3>1. p \notin Queue(t, l) /\ Queue(t, l)' = Queue(t, l) /\ tail'[t][l] = tail[t][l]
        BY <1>2, <1>5, <1>6, <2>1 DEF Queue
      <3>2. \A r \in Queue(t, l) : prev'[r] = prev[r]
        BY <1>3, <3>1 DEF Queue
      <3> QED BY <3>1, <3>2 DEF LineInv, Links
    <2>2. CASE t = s /\ l = k
      <3>1. \A r \in Queue(s, k) :
              /\ prev'[r] = prev[r] /\ prev[r] # tail[s][k]
              /\ prev[r] # NoProc => prev[r] \in Queue(s, k)
              /\ \A o \in Queue(s, k) : prev[o] = prev[r] => o = r
        BY <1>1, <1>8 DEF LineInv, Links, Queue
      <3>2. /\ IF tail[s][k] = NoProc THEN Queue(s, k) = {} ELSE tail[s][k] \in Queue(s, k)
            /\ tail[s][k] # p
        BY <1>1, <1>6 DEF LineInv, Tails
      <3>3. q \in Queue(s, k) \cup {p} /\ Queue(t, l)' = Queue(s, k) \cup {p} /\ tail'[t][l] = p
        BY <1>5, <1>6, <2>2
      <3>4. prev'[q] # p /\ (prev'[q] # NoProc => prev'[q] \in Queue(s, k))
        BY <1>1, <1>4, <1>6, <3>1, <3>2, <3>3
      <3>5. \A r \in Queue(s, k) \cup {p} : prev'[q] = prev'[r] => q = r
        BY <1>4, <3>1, <3>3
      <3> QED BY <3>3, <3>4, <3>5
    <2> QED BY <2>1, <2>2
  <1>10. Waiters'
    BY <1>3, <1>4 DEF Waiters, LineInv
  <1>11. NoCircle'
    <2> SUFFICES ASSUME NEW X \in SUBSET Procs, \A q \in X : prev'[q] \in X
                 PROVE  X = {}
      BY DEF NoCircle
    <2>1. \A q \in Procs \ {p} : prev[q] # p
      <3> SUFFICES ASSUME NEW q \in Procs, prev[q] = p  PROVE FALSE
        OBVIOUS
      <3>1. pc[q] = "waiting"
        BY <1>1 DEF LineInv, Waiters
      <3>2. ServerOf[q] \in Servers /\ at[q] \in Keys /\ q \in Queue(ServerOf[q], at[q])
        BY <3>1 DEF Queue, Queued, TypeOK, ConfigAssumption
      <3>3. p \in Queue(ServerOf[q], at[q])
        BY <1>1, <3>2 DEF LineInv, Links
      <3> QED BY <1>2, <3>3 DEF Queue
    <2>2. \A q \in X \ {p} : prev[q] \in X \ {p}
      BY <1>3, <2>1
    <2>3. X \ {p} = {}
      BY <2>2 DEF LineInv, NoCircle
    <2>4. tail[s][k] # p
      BY <1>1, <1>6 DEF LineInv, Tails
    <2> QED BY <1>4, <2>3, <2>4
  <1> QED BY <1>7, <1>9, <1>10, <1>11 DEF LineInv

\* The call at the head of the line leaves it: its successor is the head, and if it was
\* the last one there is no line.
LEMMA LineLeft ==
  ASSUME ConfigAssumption, TypeOK, LineInv, NEW p \in Procs, Unlock(p),
         pc[p] \in InLock, pc'[p] \notin Queued,
         \A q \in Procs \ {p} : pc'[q] = pc[q] /\ at'[q] = at[q]
  PROVE  LineInv'
  <1>0. PICK s \in Servers, k \in Keys : s = ServerOf[p] /\ k = at[p]
    BY DEF TypeOK, ConfigAssumption
  <1>1. s \in Servers /\ k \in Keys /\ p # NoProc /\ NoProc \notin Procs
    BY DEF ConfigAssumption
  <1>2. p \in Queue(s, k) /\ prev[p] = NoProc
    BY <1>0 DEF Queue, Queued, InLock, LineInv, Waiters
  <1>3. \A q \in Procs : prev'[q] = IF prev[q] = p \/ q = p THEN NoProc ELSE prev[q]
    BY DEF Unlock, Woken
  <1>4. tail' = IF tail[s][k] = p THEN [tail EXCEPT ![s][k] = NoProc] ELSE tail
    BY <1>0 DEF Unlock
  <1>5. /\ tail'[s][k] = IF tail[s][k] = p THEN NoProc ELSE tail[s][k]
        /\ \A t \in Servers, l \in Keys : t # s \/ l # k => tail'[t][l] = tail[t][l]
    BY <1>1, <1>4 DEF TypeOK
  <1>6. /\ Queue(s, k)' = Queue(s, k) \ {p}
        /\ \A t \in Servers, l \in Keys :
             t # s \/ l # k => Queue(t, l)' = Queue(t, l) /\ p \notin Queue(t, l)
    <2>1. ASSUME NEW t, NEW l  PROVE Queue(t, l)' = Queue(t, l) \ {p}
      BY DEF Queue
    <2>2. ASSUME NEW t, NEW l, t # s \/ l # k  PROVE p \notin Queue(t, l)
      BY <1>0, <2>2 DEF Queue
    <2>3. ASSUME NEW t, NEW l, t # s \/ l # k  PROVE Queue(t, l)' = Queue(t, l)
      BY <2>1, <2>2, <2>3
    <2> QED BY <2>1, <2>2, <2>3
  <1>7. tail[s][k] = p => Queue(s, k) \ {p} = {}
    <2> SUFFICES ASSUME tail[s][k] = p  PROVE Queue(s, k) \ {p} = {}
      OBVIOUS
    <2>1. Queue(s, k) \ {p} \in SUBSET Procs
      BY DEF Queue
    <2>2. ASSUME NEW q \in Queue(s, k) \ {p}
          PROVE  prev[q] \in Queue(s, k) \ {p}
      BY <1>1, <1>2, <2>2 DEF LineInv, Links
    <2> QED BY <2>1, <2>2 DEF LineInv, NoCircle
  <1>8. Tails'
    <2> SUFFICES ASSUME NEW t \in Servers, NEW l \in Keys
                 PROVE  IF tail'[t][l] = NoProc THEN Queue(t, l)' = {}
                                                ELSE tail'[t][l] \in Queue(t, l)'
      BY DEF Tails
    <2>1. CASE t # s \/ l # k
      BY <1>5, <1>6, <2>1 DEF LineInv, Tails
    <2>2. CASE t = s /\ l = k
      <3>1. CASE tail[s][k] = p
        BY <1>5, <1>6, <1>7, <2>2, <3>1
      <3>2. CASE tail[s][k] # p
        <4>1. tail[s][k] # NoProc /\ tail[s][k] \in Queue(s, k)
          BY <1>1, <1>2 DEF LineInv, Tails
        <4> QED BY <1>5, <1>6, <2>2, <3>2, <4>1
      <3> QED BY <3>1, <3>2
    <2> QED BY <2>1, <2>2
  <1>9. Links'
    <2> SUFFICES ASSUME NEW t \in Servers, NEW l \in Keys, NEW q \in Queue(t, l)'
                 PROVE  /\ prev'[q] # tail'[t][l]
                        /\ prev'[q] # NoProc => prev'[q] \in Queue(t, l)'
                        /\ \A r \in Queue(t, l)' : prev'[q] = prev'[r] => q = r
      BY DEF Links
    <2>1. CASE t # s \/ l # k
      <3>1. Queue(t, l)' = Queue(t, l) /\ p \notin Queue(t, l) /\ tail'[t][l] = tail[t][l]
        BY <1>5, <1>6, <2>1
      <3>2. \A r \in Queue(t, l) : prev[r] # p /\ r # p
        BY <1>1, <3>1 DEF LineInv, Links
      <3>3. \A r \in Queue(t, l) : prev'[r] = prev[r]
        BY <1>3, <3>2 DEF Queue
      <3> QED BY <3>1, <3>3 DEF LineInv, Links
    <2>2. CASE t = s /\ l = k
      <3>1. q \in Queue(s, k) \ {p} /\ Queue(t, l)' = Queue(s, k) \ {p}
        <4>1. Queue(t, l)' = Queue(s, k)'
          BY <2>2
        <4> QED BY <1>6, <4>1
      <3>2. \A r \in Queue(s, k) :
              /\ prev[r] # tail[s][k]
              /\ prev[r] # NoProc => prev[r] \in Queue(s, k)
              /\ \A o \in Queue(s, k) : prev[o] = prev[r] => o = r
        BY <1>1 DEF LineInv, Links
      <3>3. \A r \in Queue(s, k) \ {p} :
              /\ prev[r] # NoProc
              /\ prev'[r] = IF prev[r] = p THEN NoProc ELSE prev[r]
        BY <1>2, <1>3, <3>2 DEF Queue
      <3>4. tail[s][k] # p /\ tail'[s][k] = tail[s][k] /\ tail[s][k] # NoProc
        BY <1>1, <1>2, <1>5, <1>7, <3>1 DEF LineInv, Tails
      <3> QED BY <2>2, <3>1, <3>2, <3>3, <3>4
    <2> QED BY <2>1, <2>2
  <1>10. Waiters'
    BY <1>3 DEF LineInv, Waiters
  <1>11. NoCircle'
    <2> SUFFICES ASSUME NEW X \in SUBSET Procs, \A q \in X : prev'[q] \in X
                 PROVE  X = {}
      BY DEF NoCircle
    <2>1. \A q \in X : prev[q] \in X
      BY <1>1, <1>3
    <2> QED BY <2>1 DEF LineInv, NoCircle
  <1> QED BY <1>8, <1>9, <1>10, <1>11 DEF LineInv

\* A server dies with all of its lines.
LEMMA LineLost ==
  ASSUME ConfigAssumption, TypeOK, LineInv, NEW s \in Servers, Crash(s)
  PROVE  LineInv'
  <1>1. \A q \in Procs :
          /\ ServerOf[q] = s => prev'[q] = NoProc /\ pc'[q] = "idle"
          /\ ServerOf[q] # s => prev'[q] = prev[q] /\ pc'[q] = pc[q] /\ at'[q] = at[q]
    BY DEF Crash
  <1>2. /\ \A k \in Keys : tail'[s][k] = NoProc
        /\ \A t \in Servers \ {s}, k \in Keys : tail'[t][k] = tail[t][k]
    BY DEF Crash, TypeOK
  <1>3. \A k : Queue(s, k)' = {}
    BY <1>1 DEF Queue, Queued, InLock
  <1>4. \A t \in Servers \ {s}, k \in Keys :
          Queue(t, k)' = Queue(t, k) /\ \A q \in Queue(t, k) : prev'[q] = prev[q]
    BY <1>1 DEF Queue
  <1>5. Tails'
    BY <1>2, <1>3, <1>4 DEF LineInv, Tails
  <1>6. Links'
    BY <1>2, <1>3, <1>4 DEF LineInv, Links
  <1>7. Waiters'
    BY <1>1 DEF LineInv, Waiters
  <1>8. NoCircle'
    BY <1>1 DEF LineInv, NoCircle, ConfigAssumption
  <1> QED BY <1>5, <1>6, <1>7, <1>8 DEF LineInv

\* Every step keeps the calls in their lines.
LEMMA LineStep == ConfigAssumption /\ TypeOK /\ LineInv /\ [Next]_vars => LineInv'
  <1> SUFFICES ASSUME ConfigAssumption, TypeOK, LineInv, [Next]_vars
               PROVE  LineInv'
    OBVIOUS
  <1> USE DEF Queued, InLock
  <1>1. CASE UNCHANGED vars \/ Tick
    BY <1>1, LineKept DEF vars, Tick, lock, local
  <1>2. ASSUME NEW p \in Procs,
               \/ CreateRow(p) \/ CreateCached(p) \/ Reserve(p) \/ FindAndCleanUp(p)
               \/ Delete(p) \/ UpdateRead(p) \/ GetAndDelete(p)
        PROVE  LineInv'
    <2>1. /\ UNCHANGED lock /\ pc[p] \in {"idle", "retrying"}
          /\ \E l \in {"idle", "mirroring", "deleting", "rewriting", "updating", "retrying",
                       "uncaching", "deciding"} : pc' = [pc EXCEPT ![p] = l]
      <3>1. CASE UpdateRead(p)
        BY <3>1 DEF UpdateRead, Goto
      <3>2. CASE GetAndDelete(p)
        BY <3>2 DEF GetAndDelete, Goto
      <3>3. CASE CreateCached(p) \/ FindAndCleanUp(p)
        <4>1. pc' = [pc EXCEPT ![p] = "idle"]
          BY <3>3 DEF CreateCached, FindAndCleanUp, TypeOK
        <4> QED BY <3>3, <4>1 DEF CreateCached, FindAndCleanUp
      <3> QED BY <1>2, <3>1, <3>2, <3>3 DEF CreateRow, Reserve, Delete, Goto
    <2>2. \A q \in Procs \ {p} : pc'[q] = pc[q] /\ at'[q] = at[q]
      BY <1>2, <2>1 DEF CreateRow, CreateCached, Reserve, FindAndCleanUp, Delete, UpdateRead,
                        GetAndDelete, TypeOK, local
    <2>3. pc'[p] \notin Queued /\ pc[p] \notin Queued
      BY <2>1 DEF TypeOK
    <2> QED BY <2>1, <2>2, <2>3, LineKept
  <1>3. ASSUME NEW p \in Procs,
               \/ Mirror(p) \/ DeleteRows(p) \/ UpdateWrite(p) \/ UpdateRows(p)
               \/ Uncache(p) \/ Decide(p)
        PROVE  LineInv'
    <2>1. /\ UNCHANGED lock
          /\ pc[p] \in {"mirroring", "deleting", "rewriting", "updating", "uncaching", "deciding"}
          /\ \E l \in {"idle", "updating", "deciding"} : pc' = [pc EXCEPT ![p] = l]
      BY <1>3 DEF Mirror, DeleteRows, UpdateWrite, UpdateRows, Uncache, Decide, Finish, Goto
    <2>2. \A q \in Procs \ {p} : pc'[q] = pc[q] /\ at'[q] = at[q]
      BY <1>3, <2>1 DEF Mirror, DeleteRows, UpdateWrite, UpdateRows, Uncache, Decide, Finish,
                        TypeOK, local
    <2>3. pc'[p] \notin Queued /\ pc[p] \notin Queued
      BY <2>1 DEF TypeOK
    <2> QED BY <2>1, <2>2, <2>3, LineKept
  <1>4. ASSUME NEW p \in Procs,
               ReadLatest(p) \/ ConsumeOne(p) \/ ConsumeSnapshot(p) \/ SweepStale(p) \/ Veto(p)
        PROVE  LineInv'
    <2>1. /\ UNCHANGED lock /\ at' = at
          /\ pc[p] \in Queued /\ (pc[p] = "waiting" => prev[p] = NoProc)
          /\ \E l \in InLock : pc' = [pc EXCEPT ![p] = l]
      BY <1>4 DEF ReadLatest, ConsumeOne, ConsumeSnapshot, SweepStale, Veto, Goto, local
    <2>2. pc'[p] \in Queued /\ \A q \in Procs \ {p} : pc'[q] = pc[q]
      BY <2>1 DEF TypeOK
    <2> QED BY <2>1, <2>2, LineKept
  <1>5. ASSUME NEW p \in Procs, Release(p)
        PROVE  LineInv'
    <2>1. /\ Unlock(p) /\ pc[p] \in InLock
          /\ \E l \in {"uncaching", "deciding", "retrying", "idle"} : pc' = [pc EXCEPT ![p] = l]
      BY <1>5 DEF Release, AfterLock, Goto
    <2>2. /\ pc'[p] \notin Queued
          /\ \A q \in Procs \ {p} : pc'[q] = pc[q] /\ at'[q] = at[q]
      BY <1>5, <2>1 DEF Release, TypeOK
    <2> QED BY <2>1, <2>2, LineLeft
  <1>6. ASSUME NEW p \in Procs, Fail(p)
        PROVE  LineInv'
    <2>1. /\ pc[p] # "waiting" /\ pc'[p] = "idle"
          /\ \A q \in Procs \ {p} : pc'[q] = pc[q] /\ at'[q] = at[q]
      BY <1>6 DEF Fail, Finish, Goto, TypeOK
    <2>2. CASE pc[p] \in InLock
      <3>1. Unlock(p)
        BY <1>6, <2>2 DEF Fail
      <3> QED BY <2>1, <2>2, <3>1, LineLeft
    <2>3. CASE pc[p] \notin InLock
      <3>1. UNCHANGED lock
        BY <1>6, <2>3 DEF Fail
      <3> QED BY <2>1, <2>3, <3>1, LineKept
    <2> QED BY <2>2, <2>3
  <1> QED
    BY <1>1, <1>2, <1>3, <1>4, <1>5, <1>6, LineJoined, LineLost DEF Next, Call, Continue

\* The call at the head of a line, whose turn it is, is the only one there.
LEMMA FirstAlone ==
  ASSUME ConfigAssumption, TypeOK, LineInv, NEW p \in Procs, NEW q \in Procs,
         ServerOf[p] = ServerOf[q], at[p] = at[q],
         pc[p] \in Queued, prev[p] = NoProc, pc[q] \in Queued, prev[q] = NoProc
  PROVE  p = q
  <1>1. /\ ServerOf[p] \in Servers /\ at[p] \in Keys
        /\ p \in Queue(ServerOf[p], at[p]) /\ q \in Queue(ServerOf[p], at[p])
    BY DEF TypeOK, ConfigAssumption, Queue
  <1> QED BY <1>1 DEF LineInv, Links

\* withVerificationConsumeLock: of all calls of a server that consume under one key, one
\* works at a time, although entries leave the lock map while others stand in line, calls
\* fail, and servers die.
THEOREM LockExclusionCorrect == Spec => []LockExclusion
<1>1. ConfigAssumption /\ TypeOK /\ LineInv => LockExclusion
  BY FirstAlone DEF LockExclusion, LineInv, Waiters, InLock, Queued
<1> QED
  BY <1>1, ConfigAssumption, TypeInit, TypeStep, LineInit, LineStep, PTL DEF Spec

-----------------------------------------------------------------------------
(* What a step does that takes no row out of the database.                 *)

\* A step over a database that takes no row out of it: what it may do to the rows, to the
\* hands of the consumes that took one, and to the calls under the lock.
Calm ==
  /\ beside' = beside /\ nextId' \in Nat /\ nextId <= nextId'
  /\ \A r \in rows' : \/ r.id = nextId /\ r.key = "stored" /\ nextId < nextId'
                      \/ \E o \in rows : o.id = r.id /\ o.key = r.key /\ o.pk = r.pk
  /\ \A p \in Holders' : held'[p] # {} => p \in Holders /\ held'[p] = held[p]
  /\ \A i \in Ids : \/ uses'[i] = uses[i]
                    \/ \E p \in Holders : pc[p] = "deciding" /\ \E r \in held[p] : r.id = i
  /\ \A p \in Procs : at'[p] \in {at[p], "stored"} \/ Hashed
  /\ \A p \in Procs : pc[p] = "sweeping" =>
       \/ pc'[p] = "sweeping" /\ held'[p] = held[p]
       \/ p \notin Holders'
       \/ rows' = rows \ Stale(p)
  /\ \A p \in Procs : pc'[p] = "consuming" =>
       \/ pc[p] = "consuming" /\ seen'[p] = seen[p] /\ at'[p] = at[p]
       \/ /\ pc[p] = "waiting" /\ prev[p] = NoProc /\ at'[p] = at[p] /\ rows' = rows
          /\ Isolation = "snapshot" => seen'[p] = OfKey(rows, at[p])

\* Every step over a database is such a step, or takes a row out.
LEMMA CalmStep ==
  ASSUME ConfigAssumption, InDatabase, IInv, [Next]_vars,
         \A p \in Procs : ~ConsumeOne(p) /\ ~ConsumeSnapshot(p)
  PROVE  Calm
  <1> USE DEF IInv
  <1>0. nextId \in Nat /\ NoProc \notin Procs
    BY DEF TypeOK, ConfigAssumption
  <1>1. CASE UNCHANGED vars \/ Tick
    <2>1. UNCHANGED <<nextId, rows, pc, at, seen, held, uses, beside>>
      BY <1>1 DEF vars, Tick, local, history
    <2> QED BY <1>0, <2>1 DEF Calm, Holders
  <1>2. ASSUME NEW p \in Procs, CreateRow(p) \/ Reserve(p)
        PROVE  Calm
    <2>1. /\ nextId' = nextId + 1 /\ UNCHANGED <<at, seen, uses, beside>>
          /\ pc[p] = "idle" /\ \E l \in {"mirroring", "idle"} : pc' = [pc EXCEPT ![p] = l]
          /\ \E S : held' = [held EXCEPT ![p] = S]
      BY <1>2 DEF CreateRow, Reserve, Goto, history
    <2>2. PICK r \in Row : r.id = nextId /\ r.key = "stored" /\ rows' = rows \cup {r}
      <3>1. CASE CreateRow(p)
        <4>1. PICK n \in NewRows : rows' = rows \cup {n}
          BY <3>1 DEF CreateRow
        <4>2. n.key = "stored"
          BY <4>1 DEF NewRows
        <4> QED BY <3>1, <4>1, <4>2, NewRowsType DEF CreateRow
      <3>2. CASE Reserve(p)
        <4>1. PICK n \in NewRows : rows' = rows \cup {[n EXCEPT !.pk = ReservationKey]}
          BY <3>2 DEF Reserve
        <4>2. [n EXCEPT !.pk = ReservationKey].key = "stored"
          BY <4>1 DEF NewRows
        <4> QED BY <3>2, <4>1, <4>2, NewRowsType DEF Reserve
      <3> QED BY <1>2, <3>1, <3>2
    <2>3. \A q \in Procs \ {p} : pc'[q] = pc[q] /\ held'[q] = held[q]
      BY <2>1 DEF TypeOK
    <2>4. pc'[p] \in {"mirroring", "idle"}
      BY <2>1 DEF TypeOK
    <2> QED BY <1>0, <2>1, <2>2, <2>3, <2>4 DEF Calm, Holders
  <1>3. ASSUME NEW p \in Procs, UpdateRows(p)
        PROVE  Calm
    <2>1. PICK e \in {now + t : t \in Lifetimes} :
            rows' = {IF r.key = "stored" THEN [r EXCEPT !.exp = e] ELSE r : r \in rows}
      BY <1>3 DEF UpdateRows
    <2>2. e \in Nat
      <3>1. now \in Nat /\ Lifetimes \subseteq Nat
        BY DEF TypeOK, ConfigAssumption
      <3> QED BY <3>1
    <2>3. ASSUME NEW o \in rows'
          PROVE  \E r \in rows : o.id = r.id /\ o.key = r.key /\ o.pk = r.pk
      <3>1. PICK r \in rows : o = IF r.key = "stored" THEN [r EXCEPT !.exp = e] ELSE r
        BY <2>1
      <3>2. r \in Row
        BY DEF TypeOK
      <3> QED BY <2>2, <3>1, <3>2, RenewType
    <2>4. /\ pc[p] = "updating" /\ pc'[p] = "idle" /\ at'[p] = "stored"
          /\ \A q \in Procs \ {p} : /\ pc'[q] = pc[q] /\ at'[q] = at[q]
                                    /\ seen'[q] = seen[q] /\ held'[q] = held[q]
          /\ UNCHANGED <<nextId, uses, beside>>
      BY <1>3 DEF UpdateRows, Finish, Goto, TypeOK, history
    <2> QED BY <1>0, <2>3, <2>4 DEF Calm, Holders
  <1>4. ASSUME NEW p \in Procs,
               FindAndCleanUp(p) \/ Delete(p) \/ UpdateRead(p) \/ Acquire(p) \/ Uncache(p)
        PROVE  Calm
    <2>1. /\ UNCHANGED <<nextId, at, seen, uses, beside>> /\ rows' \subseteq rows
          /\ \E l \in {"idle", "deleting", "rewriting", "updating", "waiting", "deciding"} :
               pc'[p] = l /\ (l = "deciding" => p \in Holders)
          /\ pc[p] \notin {"sweeping", "consuming"}
          /\ \A q \in Procs \ {p} : pc'[q] = pc[q]
      BY <1>4 DEF FindAndCleanUp, Delete, UpdateRead, Acquire, Uncache, history, store, local,
                  Goto, TypeOK, Holders
    <2>2. /\ held'[p] = held[p] \/ pc'[p] # "deciding"
          /\ \A q \in Procs \ {p} : held'[q] = held[q]
      BY <1>4 DEF FindAndCleanUp, Delete, UpdateRead, Acquire, Uncache, local, Goto, TypeOK
    <2> QED BY <1>0, <2>1, <2>2 DEF Calm, Holders
  <1>5. ASSUME NEW p \in Procs, ReadLatest(p)
        PROVE  Calm
    <2>1. /\ UNCHANGED <<nextId, rows, at, held, uses, beside>>
          /\ pc[p] = "waiting" /\ prev[p] = NoProc /\ held[p] = {}
          /\ pc'[p] \in {"releasing", "consuming"}
          /\ \A q \in Procs \ {p} : pc'[q] = pc[q]
      BY <1>5 DEF ReadLatest, Closures, Holders, Goto, TypeOK, history, store
    <2>2. pc'[p] = "consuming" /\ Isolation = "snapshot" => seen'[p] = OfKey(rows, at[p])
      BY <1>5 DEF ReadLatest, Goto, TypeOK
    <2>3. ASSUME NEW q \in Procs \ {p}  PROVE seen'[q] = seen[q]
      <3>1. CASE OfKey(rows, at[p]) = {}
        BY <1>5, <3>1 DEF ReadLatest
      <3>2. CASE OfKey(rows, at[p]) # {}
        <4>1. \E S : seen' = [seen EXCEPT ![p] = S]
          BY <1>5, <3>2 DEF ReadLatest
        <4> QED BY <4>1 DEF TypeOK
      <3> QED BY <3>1, <3>2
    <2> QED BY <1>0, <2>1, <2>2, <2>3 DEF Calm, Holders
  <1>6. ASSUME NEW p \in Procs, Veto(p) \/ SweepStale(p)
        PROVE  Calm
    <2>1. /\ UNCHANGED <<nextId, at, seen, held, uses, beside>>
          /\ pc'[p] = "releasing" /\ (pc[p] = "consuming" => held[p] = {})
          /\ pc[p] \in {"consuming", "sweeping"}
          /\ rows' = IF pc[p] = "sweeping" THEN rows \ Stale(p) ELSE rows
          /\ \A q \in Procs \ {p} : pc'[q] = pc[q]
      BY <1>6 DEF Veto, SweepStale, Closures, Holders, Goto, TypeOK, history, store, local
    <2>2. rows' \subseteq rows /\ (pc[p] = "consuming" => rows' = rows)
      BY <2>1
    <2> QED BY <1>0, <2>1, <2>2 DEF Calm, Holders
  <1>7. ASSUME NEW p \in Procs, Mirror(p) \/ UpdateWrite(p) \/ DeleteRows(p) \/ Fail(p)
        PROVE  Calm
    <2>1. /\ UNCHANGED <<nextId, uses, beside>> /\ rows' \subseteq rows
          /\ pc'[p] \in {"idle", "updating"} /\ at'[p] \in {at[p], "stored"}
          /\ (pc'[p] = "updating" => pc[p] = "rewriting")
          /\ \A q \in Procs \ {p} : /\ pc'[q] = pc[q] /\ at'[q] = at[q]
                                    /\ seen'[q] = seen[q] /\ held'[q] = held[q]
      BY <1>7 DEF Mirror, UpdateWrite, DeleteRows, Fail, Finish, Goto, TypeOK, history, store
    <2> QED BY <1>0, <2>1 DEF Calm, Holders
  <1>8. ASSUME NEW p \in Procs, Release(p)
        PROVE  Calm
    <2>1. /\ UNCHANGED <<nextId, rows, uses, beside, held>>
          /\ pc[p] = "releasing" /\ pc'[p] \in {"idle", "retrying", "uncaching", "deciding"}
          /\ at'[p] = "stored" \/ Hashed
          /\ \A q \in Procs \ {p} : pc'[q] = pc[q] /\ at'[q] = at[q] /\ seen'[q] = seen[q]
      BY <1>8 DEF Release, Goto, store, history, AfterLock, TypeOK
    <2> QED BY <1>0, <2>1 DEF Calm, Holders
  <1>9. ASSUME NEW p \in Procs, Decide(p)
        PROVE  Calm
    <2>1. /\ UNCHANGED <<nextId, rows, beside>> /\ pc[p] = "deciding" /\ p \in Holders
          /\ pc'[p] = "idle" /\ at'[p] = "stored"
          /\ \A q \in Procs \ {p} : /\ pc'[q] = pc[q] /\ at'[q] = at[q]
                                    /\ seen'[q] = seen[q] /\ held'[q] = held[q]
      BY <1>9 DEF Decide, Finish, Goto, store, Holders, TypeOK
    <2>2. \A i \in Ids : uses'[i] = uses[i] \/ \E r \in held[p] : r.id = i
      BY <1>9 DEF Decide
    <2> QED BY <1>0, <2>1, <2>2 DEF Calm, Holders
  <1>10. ASSUME NEW s \in Servers, Crash(s)
         PROVE  Calm
    <2>1. UNCHANGED <<nextId, rows, uses, beside>>
      BY <1>10 DEF Crash, store, history
    <2>2. \A q \in Procs : \/ pc'[q] = "idle" /\ at'[q] = "stored"
                           \/ /\ pc'[q] = pc[q] /\ at'[q] = at[q]
                              /\ held'[q] = held[q] /\ seen'[q] = seen[q]
      BY <1>10 DEF Crash
    <2> QED BY <1>0, <2>1, <2>2 DEF Calm, Holders
  <1>11. ASSUME NEW p \in Procs
         PROVE  ~CreateCached(p) /\ ~GetAndDelete(p)
    BY DEF CreateCached, GetAndDelete
  <1> QED
    BY <1>1, <1>2, <1>3, <1>4, <1>5, <1>6, <1>7, <1>8, <1>9, <1>10, <1>11
    DEF Next, Call, Continue

\* A consume whose row is gone takes nothing.
LEMMA CalmMiss ==
  ASSUME ConfigAssumption, InDatabase, IInv, NEW p \in Procs, ConsumeOne(p), Gate(p) = {}
  PROVE  Calm
  <1> USE DEF IInv
  <1>1. /\ pc[p] = "consuming" /\ held' = [held EXCEPT ![p] = {}] /\ Take({}, rows)
        /\ UNCHANGED <<nextId, at, seen, uses>> /\ rows' = rows
        /\ pc' = [pc EXCEPT ![p] = "releasing"]
    BY DEF ConsumeOne, Goto
  <1>2. beside' = beside /\ nextId \in Nat
    <2>1. beside' = [i \in Ids |-> beside[i]]
      BY <1>1 DEF Take
    <2> QED BY <2>1 DEF TypeOK
  <1>3. /\ held'[p] = {} /\ pc'[p] = "releasing"
        /\ \A q \in Procs \ {p} : pc'[q] = pc[q] /\ held'[q] = held[q]
    BY <1>1 DEF TypeOK
  <1> QED BY <1>1, <1>2, <1>3 DEF Calm, Holders

-----------------------------------------------------------------------------
(* Stale values and reservations.                                          *)

\* What the theorem on stale values assumes of the deployment: transactions that lock
\* the rows they delete, and one key for the identifier.
Locked == Isolation = "locking" /\ InDatabase /\ ~Hashed

\* Without hashing there is one key.
OneKey == (\A r \in rows : r.key = "stored") /\ \A p \in Procs : at[p] = "stored"

\* What was stored beside a value that was taken out is gone, and was not returned.
StaleGone ==
  \A i \in Ids : \A j \in beside[i] :
    /\ j < nextId /\ uses[j] = 0
    /\ \A r \in rows : r.id # j
    /\ \A p \in Holders : \A r \in held[p] : r.id # j

StaleInv == OneKey /\ StaleGone

\* Nothing was taken out at the start.
LEMMA StaleInit == ASSUME Locked PROVE Init => StaleInv
  BY DEF Init, Locked, StaleInv, OneKey, StaleGone

\* A step that takes nothing out stores and returns nothing that was gone.
LEMMA StaleKept ==
  ASSUME TypeOK, StaleInv, ~Hashed, Calm
  PROVE  StaleInv'
  <1>1. OneKey'
    BY DEF StaleInv, OneKey, Calm
  <1>2. StaleGone'
    <2> SUFFICES ASSUME NEW i \in Ids, NEW j \in beside[i]
                 PROVE  /\ j < nextId' /\ uses'[j] = 0
                        /\ \A r \in rows' : r.id # j
                        /\ \A p \in Holders' : \A r \in held'[p] : r.id # j
      BY DEF StaleGone, Calm
    <2>1. /\ j < nextId /\ uses[j] = 0
          /\ \A r \in rows : r.id # j
          /\ \A p \in Holders : \A r \in held[p] : r.id # j
      BY DEF StaleInv, StaleGone
    <2>2. j \in Ids /\ j \in Int /\ nextId \in Int /\ nextId' \in Int /\ nextId <= nextId'
      BY DEF TypeOK, Calm
    <2> QED BY <2>1, <2>2 DEF Calm
  <1> QED BY <1>1, <1>2 DEF StaleInv

\* The transaction takes the latest row and deletes the others.
LEMMA StaleTaken ==
  ASSUME ConfigAssumption, Locked, IInv, StaleInv, NEW p \in Procs, ConsumeOne(p)
  PROVE  StaleInv'
  <1> USE DEF IInv
  <1>1. /\ pc[p] = "consuming" /\ at' = at /\ uses' = uses /\ nextId' = nextId
        /\ held' = [held EXCEPT ![p] = Gate(p)]
        /\ Take(Gate(p), rows)
        /\ \E l \in {"releasing", "sweeping"} : pc' = [pc EXCEPT ![p] = l]
    BY DEF ConsumeOne, Goto
  <1>2. rows' = IF Gate(p) = {} THEN rows ELSE {}
    <2>1. Stale(p) = rows /\ Gate(p) \subseteq rows
      BY DEF Stale, OfKey, StaleInv, OneKey, Gate
    <2> QED BY <2>1 DEF ConsumeOne, Locked
  <1>3. OneKey'
    BY <1>1, <1>2 DEF StaleInv, OneKey
  <1>4. \A q \in Holders' : q = p \/ (q \in Holders /\ held'[q] = held[q])
    BY <1>1 DEF Holders, TypeOK
  <1>5. held'[p] = Gate(p) /\ p \notin Holders
    BY <1>1 DEF Holders, TypeOK
  <1>6. CASE Gate(p) = {}
    BY <1>6, CalmMiss, StaleKept DEF Locked
  <1>7. CASE Gate(p) # {}
    <2> SUFFICES ASSUME NEW i \in Ids, NEW j \in beside'[i]
                 PROVE  /\ j < nextId /\ uses[j] = 0
                        /\ \A q \in Holders' : \A r \in held'[q] : r.id # j
      BY <1>1, <1>2, <1>3, <1>7 DEF StaleInv, StaleGone
    <2>1. Gate(p) \subseteq rows /\ rows \subseteq Stored /\ rows \subseteq Row
      BY DEF Gate, Stored, TypeOK
    <2>2. ASSUME j \in beside[i]
          PROVE  /\ j < nextId /\ uses[j] = 0
                 /\ \A q \in Holders' : \A r \in held'[q] : r.id # j
      BY <1>4, <1>5, <2>1, <2>2 DEF StaleInv, StaleGone
    <2>3. ASSUME NEW o \in rows \ Gate(p), j = o.id
          PROVE  /\ j < nextId /\ uses[j] = 0
                 /\ \A q \in Holders' : \A r \in held'[q] : r.id # j
      <3>1. j < nextId /\ j \in Ids
        BY <2>1, <2>3 DEF IssuedOnly, Row
      <3>2. uses[j] = 0
        <4>1. uses[j] \in Nat /\ o \in Stored
          BY <2>1, <2>3, <3>1 DEF TypeOK
        <4> QED BY <2>3, <3>1, <4>1 DEF ReturnedGone
      <3>3. \A r \in Gate(p) : r.id # j
        BY <2>1, <2>3 DEF RowsUnique
      <3>4. \A q \in Holders : \A r \in held[q] : r.id # j
        BY <2>1, <2>3 DEF TakenOnce
      <3> QED BY <1>4, <1>5, <3>1, <3>2, <3>3, <3>4
    <2>4. j \in beside[i] \/ \E o \in rows \ Gate(p) : j = o.id
      BY <1>1 DEF Take
    <2> QED BY <2>2, <2>3, <2>4
  <1> QED BY <1>6, <1>7

\* Every step keeps the stale values away.
LEMMA StaleStep ==
  ASSUME ConfigAssumption, Locked, IInv, StaleInv, [Next]_vars
  PROVE  StaleInv'
  <1>1. \A p \in Procs : ~ConsumeSnapshot(p)
    BY DEF Locked, ConsumeSnapshot
  <1>2. CASE \A p \in Procs : ~ConsumeOne(p)
    BY <1>1, <1>2, CalmStep, StaleKept DEF Locked, IInv
  <1> QED BY <1>2, StaleTaken

\* Over a database with transactions that lock rows, an older value of an identifier is
\* never returned once a newer one was, nor the other way round, for any number of calls,
\* servers and values.
THEOREM StaleNeverReplayedCorrect == ASSUME Locked PROVE Spec => []StaleNeverReplayed
<1>1. Sound
  BY DEF Sound, Durable, Locked
<1>2. Init => StaleInv
  BY StaleInit
<1>3. IInv /\ StaleInv /\ [Next]_vars => StaleInv'
  BY ConfigAssumption, StaleStep
<1>4. StaleInv => StaleNeverReplayed
  BY DEF StaleInv, StaleGone, StaleNeverReplayed
<1> QED
  BY <1>1, <1>2, <1>3, <1>4, InvCorrect, PTL DEF Spec

\* reserveVerificationValue: the marker outlives every step of any other kind than a
\* consume or a delete until it expires, whatever the deployment.
THEOREM ReservationHoldsCorrect == Spec => ReservationHolds
<1>1. ASSUME ConfigAssumption, TypeOK, Next, NEW m \in rows, m.pk = ReservationKey, m.exp >= now
      PROVE  \/ \E r \in rows' : r.pk = ReservationKey
             \/ \E p \in Procs : pc[p] \in {"consuming", "sweeping", "deleting"} /\ pc'[p] # pc[p]
  <2>1. ASSUME NEW p \in Procs, FindAndCleanUp(p)
        PROVE  m \in rows'
    BY <1>1, <2>1 DEF FindAndCleanUp, Expired, TypeOK, Row
  <2>2. ASSUME NEW p \in Procs, UpdateRows(p)
        PROVE  \E r \in rows' : r.pk = ReservationKey
    <3>1. PICK e \in {now + t : t \in Lifetimes} :
            rows' = {IF r.key = "stored" THEN [r EXCEPT !.exp = e] ELSE r : r \in rows}
      BY <2>2 DEF UpdateRows
    <3>2. (IF m.key = "stored" THEN [m EXCEPT !.exp = e] ELSE m) \in rows'
      BY <1>1, <3>1
    <3>3. e \in Nat /\ m \in Row
      BY <1>1 DEF TypeOK, ConfigAssumption
    <3> QED BY <1>1, <3>2, <3>3, RenewType
  <2>3. ASSUME NEW p \in Procs,
               ConsumeOne(p) \/ ConsumeSnapshot(p) \/ SweepStale(p) \/ DeleteRows(p)
        PROVE  pc[p] \in {"consuming", "sweeping", "deleting"} /\ pc'[p] # pc[p]
    BY <1>1, <2>3 DEF ConsumeOne, ConsumeSnapshot, SweepStale, DeleteRows, Finish, Goto, TypeOK
  <2>4. ASSUME NEW p \in Procs, CreateRow(p) \/ Reserve(p)
        PROVE  m \in rows'
    BY <1>1, <2>4 DEF CreateRow, Reserve
  <2>5. ASSUME NEW p \in Procs,
               \/ CreateCached(p) \/ Delete(p) \/ UpdateRead(p) \/ Acquire(p) \/ GetAndDelete(p)
               \/ Mirror(p) \/ UpdateWrite(p) \/ ReadLatest(p) \/ Release(p) \/ Uncache(p)
               \/ Decide(p) \/ Veto(p) \/ Fail(p)
        PROVE  rows' = rows
    BY <2>5 DEF CreateCached, Delete, UpdateRead, Acquire, GetAndDelete, Mirror, UpdateWrite,
                ReadLatest, Release, Uncache, Decide, Veto, Fail, store
  <2>6. ASSUME NEW s \in Servers, Crash(s)
        PROVE  rows' = rows
    BY <2>6 DEF Crash, store
  <2>7. CASE Tick
    BY <1>1, <2>7 DEF Tick
  <2> QED
    BY <1>1, <2>1, <2>2, <2>3, <2>4, <2>5, <2>6, <2>7 DEF Next, Call, Continue
<1>2. ConfigAssumption /\ TypeOK /\ [Next]_vars =>
        [(\E r \in rows : r.pk = ReservationKey /\ r.exp >= now)
           => \/ \E r \in rows' : r.pk = ReservationKey
              \/ \E p \in Procs : pc[p] \in {"consuming", "sweeping", "deleting"}
                                  /\ pc'[p] # pc[p]]_vars
  BY <1>1
<1> QED
  BY <1>2, TypeCorrect, ConfigAssumption, PTL DEF Spec, ReservationHolds

-----------------------------------------------------------------------------
(* One server: what a consume holds the lock for.                          *)

\* The calls share one lock map.
OneLock == InDatabase /\ \A p, q \in Procs : ServerOf[p] = ServerOf[q]

\* The calls that work on a copy of the table of the in-memory adapter.
Readers == {p \in Procs : pc[p] = "consuming" /\ Isolation = "snapshot"}

\* A value keeps its identifier and its primary key, in the table and in the copies.
Alike ==
  /\ \A p \in Readers : \A r \in seen[p] : \A o \in rows :
       r.id = o.id => r.key = o.key /\ r.pk = o.pk
  /\ \A p, q \in Readers : \A r \in seen[p], o \in seen[q] : r.id = o.id => r.key = o.key
  /\ \A p \in Readers : \A r, o \in seen[p] : r.id = o.id => r = o

\* What is in a copy has not been taken out by anybody else.
CopiesUntaken ==
  \A p \in Readers : \A r \in seen[p] :
    /\ r.key = at[p] /\ r.id < nextId /\ uses[r.id] = 0
    /\ \A q \in Holders : \A o \in held[q] : o.id # r.id

CopyInv == Alike /\ CopiesUntaken

\* Steps that take nothing out leave the copies as they are, and make good ones.
LEMMA CopiesKept ==
  ASSUME IInv, CopyInv, Calm
  PROVE  CopyInv'
  <1> USE DEF IInv
  <1>1. /\ \A r \in rows : r.id \in Ids /\ r.id < nextId /\ uses[r.id] = 0
        /\ nextId \in Nat /\ nextId' \in Nat /\ nextId <= nextId'
        /\ rows \subseteq Row
    <2>1. \A r \in rows : r \in Row /\ r \in Stored
      BY DEF TypeOK, Stored
    <2>2. \A i \in Ids : uses[i] \in Nat
      BY DEF TypeOK
    <2> QED BY <2>1, <2>2 DEF Calm, IssuedOnly, ReturnedGone, Row, TypeOK
  <1>2. \A p \in Readers' : \/ p \in Readers /\ seen'[p] = seen[p] /\ at'[p] = at[p]
                            \/ seen'[p] = OfKey(rows, at'[p]) /\ rows' = rows
    BY DEF Readers, Calm
  <1>3. \A p \in Readers : \A r \in seen[p] : r \in Row /\ r.id \in Ids /\ r.id < nextId
    BY DEF CopyInv, CopiesUntaken, Readers, TypeOK, Row
  <1>4. \A r \in rows' : \/ r.id = nextId
                         \/ \E o \in rows : o.id = r.id /\ o.key = r.key /\ o.pk = r.pk
    BY DEF Calm
  <1>5. \A r, o \in rows : r.id = o.id => r = o
    BY DEF RowsUnique
  <1>6. \A p : OfKey(rows, at'[p]) \subseteq rows /\ \A r \in OfKey(rows, at'[p]) : r.key = at'[p]
    BY DEF OfKey
  <1>7. ASSUME NEW p \in Readers', NEW r \in seen'[p]
        PROVE  /\ \/ p \in Readers /\ r \in seen[p] /\ at'[p] = at[p]
                  \/ r \in rows /\ rows' = rows /\ r.key = at'[p]
               /\ r.id \in Ids /\ r.id < nextId
    BY <1>1, <1>2, <1>3, <1>6, <1>7
  <1>8. Alike'
    <2>1. ASSUME NEW p \in Readers', NEW r \in seen'[p], NEW o \in rows', r.id = o.id
          PROVE  r.key = o.key /\ r.pk = o.pk
      <3>1. r.id # nextId
        BY <1>1, <1>7, <2>1
      <3>2. PICK x \in rows : x.id = o.id /\ x.key = o.key /\ x.pk = o.pk
        BY <1>4, <2>1, <3>1
      <3>3. r \in rows => r = x
        BY <1>5, <2>1, <3>2
      <3> QED BY <1>7, <2>1, <3>2, <3>3 DEF CopyInv, Alike
    <2>2. ASSUME NEW p \in Readers', NEW q \in Readers', NEW r \in seen'[p], NEW o \in seen'[q],
                 r.id = o.id
          PROVE  r.key = o.key
      <3>1. /\ (p \in Readers /\ r \in seen[p]) \/ r \in rows
            /\ (q \in Readers /\ o \in seen[q]) \/ o \in rows
        BY <1>7, <2>2
      <3>2. CASE r \in rows /\ o \in rows
        BY <1>5, <2>2, <3>2
      <3>3. CASE r \notin rows \/ o \notin rows
        BY <2>2, <3>1, <3>3 DEF CopyInv, Alike
      <3> QED BY <3>2, <3>3
    <2>3. ASSUME NEW p \in Readers', NEW r \in seen'[p], NEW o \in seen'[p], r.id = o.id
          PROVE  r = o
      <3>1. CASE p \in Readers /\ seen'[p] = seen[p]
        BY <2>3, <3>1 DEF CopyInv, Alike
      <3>2. CASE seen'[p] = OfKey(rows, at'[p])
        BY <1>5, <1>6, <2>3, <3>2
      <3> QED BY <1>2, <3>1, <3>2
    <2> QED BY <2>1, <2>2, <2>3 DEF Alike
  <1>9. CopiesUntaken'
    <2> SUFFICES ASSUME NEW p \in Readers', NEW r \in seen'[p]
                 PROVE  /\ r.key = at'[p] /\ r.id < nextId' /\ uses'[r.id] = 0
                        /\ \A q \in Holders' : \A o \in held'[q] : o.id # r.id
      BY DEF CopiesUntaken
    <2>1. /\ r.key = at'[p] /\ r.id < nextId /\ uses[r.id] = 0 /\ r.id \in Ids
          /\ \A q \in Holders : \A o \in held[q] : o.id # r.id
      <3>1. CASE p \in Readers /\ r \in seen[p] /\ at'[p] = at[p]
        BY <1>7, <3>1 DEF CopyInv, CopiesUntaken
      <3>2. CASE r \in rows /\ r.key = at'[p]
        BY <1>1, <3>2 DEF TakenOnce, Stored
      <3> QED BY <1>7, <3>1, <3>2
    <2>2. \A q \in Holders' : \A o \in held'[q] : q \in Holders /\ o \in held[q]
      BY DEF Calm
    <2>3. uses'[r.id] = uses[r.id]
      BY <2>1 DEF Calm
    <2>4. r.id < nextId'
      BY <1>1, <2>1
    <2> QED BY <2>1, <2>2, <2>3, <2>4
  <1> QED BY <1>8, <1>9 DEF CopyInv

\* On one server two calls that work under the lock work on different keys.
LEMMA KeysApart ==
  ASSUME ConfigAssumption, TypeOK, LineInv, OneLock, NEW p \in Procs, NEW q \in Procs, p # q,
         pc[p] \in InLock, pc[q] \in Queued, prev[q] = NoProc
  PROVE  at[p] # at[q]
  <1>1. prev[p] = NoProc /\ pc[p] \in Queued
    BY DEF LineInv, Waiters, Queued, InLock
  <1> QED BY <1>1, FirstAlone DEF OneLock

\* The in-memory adapter takes a row of its copy, which nobody else has taken.
LEMMA SnapshotTaken ==
  ASSUME ConfigAssumption, OneLock, IInv, LineInv, CopyInv, NEW p \in Procs, ConsumeSnapshot(p)
  PROVE  Rest' /\ CopyInv'
  <1> USE DEF IInv
  <1>1. PICK r \in seen[p] : held' = [held EXCEPT ![p] = {r}]
    BY DEF ConsumeSnapshot, FirstWithKeyOf
  <1>2. /\ pc[p] = "consuming" /\ pc' = [pc EXCEPT ![p] = "releasing"]
        /\ rows' = {o \in rows : \A x \in seen[p] : x.pk # o.pk}
        /\ UNCHANGED <<now, nextId, cache, tail, prev, at, seen, uses>>
        /\ p \in Readers /\ InDatabase
    BY DEF ConsumeSnapshot, Goto, lock, Readers, OneLock
  <1>3. r \in seen[p] /\ r \in Row /\ r.id \in Ids
    BY DEF TypeOK, Row
  <1>4. /\ r.id < nextId /\ uses[r.id] = 0 /\ r.key = at[p]
        /\ \A q \in Holders : \A o \in held[q] : o.id # r.id
    BY <1>2, <1>3 DEF CopyInv, CopiesUntaken
  <1>5. \A o \in rows' : o \in rows /\ o.id # r.id
    BY <1>2, <1>3 DEF CopyInv, Alike
  <1>6. /\ held'[p] = {r} /\ p \notin Holders /\ p \in Holders'
        /\ \A q \in Holders' : q = p \/ (q \in Holders /\ q # p /\ held'[q] = held[q])
    BY <1>1, <1>2 DEF Holders, TypeOK
  <1>7. Stored = rows /\ Stored' = rows' /\ rows' \subseteq rows
    BY <1>2 DEF Stored, InDatabase
  <1>8. RowsUnique' /\ CacheUnique' /\ NoTable'
    BY <1>2, <1>7, RowsVoided, CacheVoided, NoTableKept
  <1>9. IssuedOnly'
    BY <1>2, <1>4, <1>6, <1>7 DEF IssuedOnly
  <1>10. TakenOnce'
    BY <1>4, <1>5, <1>6, <1>7 DEF TakenOnce
  <1>11. ReturnedGone'
    <2>1. \A i \in Ids : uses[i] > 0 => r.id # i
      BY <1>4
    <2> QED BY <1>2, <1>6, <1>7, <2>1 DEF ReturnedGone
  <1>12. Closures'
    <2>1. \A q \in Procs \ {p} : pc'[q] = pc[q] /\ held'[q] = held[q]
      BY <1>1, <1>2 DEF TypeOK
    <2> QED BY <1>2, <1>6, <2>1 DEF Closures, Holders, InDatabase, ConsumeSnapshot
  <1>13. CopyInv'
    <2>1. \A q \in Readers' : q \in Readers /\ q # p
      BY <1>2 DEF Readers, TypeOK
    <2>2. ASSUME NEW q \in Readers, q # p, NEW o \in seen[q]
          PROVE  o.id # r.id
      <3>1. pc[q] = "consuming" /\ q \in Procs
        BY DEF Readers
      <3>2. at[p] # at[q]
        BY <1>2, <2>2, <3>1, KeysApart DEF LineInv, Waiters, Queued, InLock
      <3>3. o.key = at[q]
        BY DEF CopyInv, CopiesUntaken
      <3> QED BY <1>2, <1>3, <1>4, <3>2, <3>3 DEF CopyInv, Alike
    <2>3. Alike'
      BY <1>2, <1>7, <2>1 DEF CopyInv, Alike
    <2>4. CopiesUntaken'
      BY <1>2, <1>6, <2>1, <2>2 DEF CopyInv, CopiesUntaken
    <2> QED BY <2>3, <2>4 DEF CopyInv
  <1> QED BY <1>8, <1>9, <1>10, <1>11, <1>12, <1>13 DEF Rest

\* What a database with one lock map keeps.
LockedInv == IInv /\ LineInv /\ CopyInv

\* Every step keeps it.
LEMMA LockedStep ==
  ASSUME ConfigAssumption, OneLock, LockedInv, [Next]_vars
  PROVE  LockedInv'
  <1> USE DEF LockedInv
  <1>1. LineInv' /\ TypeOK'
    BY LineStep, TypeStep DEF IInv
  <1>2. Durable /\ InDatabase
    BY DEF OneLock, Durable
  <1>3. CASE \A p \in Procs : ~ConsumeOne(p) /\ ~ConsumeSnapshot(p)
    BY <1>1, <1>2, <1>3, InvOthers, CalmStep, CopiesKept
  <1>4. ASSUME NEW p \in Procs, ConsumeOne(p)
        PROVE  IInv' /\ CopyInv'
    <2>1. Isolation # "snapshot"
      BY <1>4 DEF ConsumeOne
    <2>2. IInv'
      BY <1>2, <2>1, InvStep DEF Sound
    <2>3. Readers' = {}
      BY <2>1 DEF Readers
    <2>4. CopyInv'
      BY <2>3 DEF CopyInv, Alike, CopiesUntaken
    <2> QED BY <2>2, <2>4
  <1>5. ASSUME NEW p \in Procs, ConsumeSnapshot(p)
        PROVE  IInv' /\ CopyInv'
    BY <1>1, <1>5, SnapshotTaken DEF IInv, Rest
  <1> QED BY <1>1, <1>3, <1>4, <1>5

\* It holds for ever.
LEMMA LockedCorrect == ASSUME OneLock PROVE Spec => []LockedInv
  <1>1. Init => LockedInv
    <2> SUFFICES ASSUME Init  PROVE CopyInv
      BY ConfigAssumption, InvInit, LineInit DEF LockedInv
    <2>1. Readers = {}
      BY DEF Init, Readers
    <2> QED BY <2>1 DEF CopyInv, Alike, CopiesUntaken
  <1>2. LockedInv /\ [Next]_vars => LockedInv'
    BY ConfigAssumption, LockedStep
  <1> QED BY <1>1, <1>2, PTL DEF Spec

\* The in-memory adapter merges a copy of the table back.  On one server the promise chain
\* alone keeps a value from being returned twice: nobody else takes a row while a copy has it.
THEOREM SingleUseOneServer == ASSUME OneLock PROVE Spec => []SingleUse
  <1>1. LockedInv => SingleUse
    BY DEF LockedInv, IInv, TypeOK, ReturnedGone, SingleUse
  <1> QED BY <1>1, LockedCorrect, PTL

\* A value that a consume returned, or has taken out and may return.
Chosen(i) == uses[i] > 0 \/ \E p \in Holders : \E r \in held[p] : r.id = i

\* What was stored beside a chosen value is in nobody's hands, and in the table only as
\* long as the consume that chose it has yet to delete it under the lock.
StaleDoomed ==
  \A i \in Ids : Chosen(i) => \A j \in beside[i] :
    /\ j < nextId /\ uses[j] = 0
    /\ \A q \in Holders : \A o \in held[q] : o.id # j
    /\ \A q \in Readers : \A o \in seen[q] : o.id # j
    /\ (\E o \in rows : o.id = j)
         => \E p \in Procs : pc[p] = "sweeping" /\ \E r \in held[p] : r.id = i

DoomedInv == OneKey /\ StaleDoomed

\* Steps that take nothing out.
LEMMA DoomedKept ==
  ASSUME ConfigAssumption, OneLock, ~Hashed, LockedInv, DoomedInv, Calm
  PROVE  DoomedInv'
  <1> USE DEF LockedInv, IInv
  <1>1. OneKey'
    <2>1. \A r \in rows' : r.key = "stored"
      BY DEF Calm, DoomedInv, OneKey
    <2>2. \A p \in Procs : at'[p] = "stored"
      BY DEF Calm, DoomedInv, OneKey
    <2> QED BY <2>1, <2>2 DEF OneKey
  <1>2. StaleDoomed'
    <2> SUFFICES ASSUME NEW i \in Ids, Chosen(i)', NEW j \in beside'[i]
                 PROVE  /\ j < nextId' /\ uses'[j] = 0
                        /\ \A q \in Holders' : \A o \in held'[q] : o.id # j
                        /\ \A q \in Readers' : \A o \in seen'[q] : o.id # j
                        /\ (\E o \in rows' : o.id = j) =>
                             \E p \in Procs : pc'[p] = "sweeping" /\ \E r \in held'[p] : r.id = i
      BY DEF StaleDoomed
    <2>1. \A q \in Holders' : \A o \in held'[q] : q \in Holders /\ o \in held[q]
      BY DEF Calm
    <2>2. Chosen(i) /\ j \in beside[i] /\ j \in Ids
      <3>1. uses'[i] = uses[i] \/ \E p \in Holders : \E r \in held[p] : r.id = i
        BY DEF Calm
      <3> QED BY <2>1, <3>1 DEF Chosen, Calm, TypeOK
    <2>3. /\ j < nextId /\ uses[j] = 0
          /\ \A q \in Holders : \A o \in held[q] : o.id # j
          /\ \A q \in Readers : \A o \in seen[q] : o.id # j
          /\ (\E o \in rows : o.id = j)
               => \E p \in Procs : pc[p] = "sweeping" /\ \E r \in held[p] : r.id = i
      BY <2>2 DEF DoomedInv, StaleDoomed
    <2>4. j < nextId' /\ j # nextId
      <3>1. nextId \in Int /\ nextId' \in Int /\ nextId <= nextId' /\ j \in Int
        BY <2>2 DEF TypeOK, Calm
      <3> QED BY <2>3, <3>1
    <2>5. uses'[j] = 0
      BY <2>2, <2>3 DEF Calm
    <2>6. ASSUME NEW q \in Readers', NEW o \in seen'[q], o.id = j
          PROVE  FALSE
      <3>1. pc[q] = "waiting" /\ prev[q] = NoProc /\ o \in rows /\ q \in Procs
        BY <2>3, <2>6 DEF Readers, Calm, OfKey
      <3>2. PICK p \in Procs : pc[p] = "sweeping"
        BY <2>3, <2>6, <3>1
      <3>3. at[p] # at[q]
        BY <3>1, <3>2, KeysApart DEF InLock, Queued
      <3> QED BY <3>1, <3>3 DEF DoomedInv, OneKey
    <2>7. ASSUME NEW o \in rows', o.id = j
          PROVE  \E p \in Procs : pc'[p] = "sweeping" /\ \E r \in held'[p] : r.id = i
      <3>1. \E x \in rows : x.id = j
        BY <2>4, <2>7 DEF Calm
      <3>2. PICK p \in Procs : pc[p] = "sweeping" /\ \E r \in held[p] : r.id = i
        BY <2>3, <3>1
      <3>3. p \in Holders
        BY <3>2 DEF Holders
      <3>4. rows' # rows \ Stale(p)
        <4>1. Stale(p) = rows
          BY DEF Stale, OfKey, DoomedInv, OneKey
        <4> QED BY <2>7, <4>1
      <3>5. ASSUME p \notin Holders'
            PROVE  FALSE
        <4>1. \A q \in Holders : \A x \in held[q] : x.id = i => q = p
          BY <3>2, <3>3 DEF TakenOnce
        <4>2. uses[i] = 0
          BY <3>2, <3>3 DEF ReturnedGone, TypeOK
        <4>3. uses'[i] = 0
          BY <3>2, <4>1, <4>2 DEF Calm
        <4>4. PICK q \in Holders' : \E x \in held'[q] : x.id = i
          BY <4>3 DEF Chosen
        <4> QED BY <2>1, <3>5, <4>1, <4>4
      <3> QED BY <3>2, <3>4, <3>5 DEF Calm
    <2> QED BY <2>1, <2>3, <2>4, <2>5, <2>6, <2>7
  <1> QED BY <1>1, <1>2 DEF DoomedInv

\* A step that takes one row out, and with it dooms the others.
LEMMA DoomedTaken ==
  ASSUME ConfigAssumption, LockedInv, OneKey, StaleDoomed, OneKey', NEW p \in Procs,
         p \notin Holders, Holders' = Holders \cup {p}, NEW r \in Row,
         held' = [held EXCEPT ![p] = {r}], \A i \in Ids : i # r.id => beside'[i] = beside[i],
         uses[r.id] = 0, \A q \in Holders : \A o \in held[q] : o.id # r.id,
         Readers' = {}, UNCHANGED <<nextId, uses>>, rows' \subseteq rows,
         \A i \in Ids : Chosen(i) => r.id \notin beside[i] /\ \A o \in rows : o.id \notin beside[i],
         \A j \in beside'[r.id] :
           /\ j < nextId /\ uses[j] = 0 /\ j # r.id
           /\ \A q \in Holders : \A x \in held[q] : x.id # j
           /\ (\E x \in rows' : x.id = j) => pc'[p] = "sweeping"
  PROVE  DoomedInv'
  <1> USE DEF LockedInv, IInv
  <1>1. held'[p] = {r} /\ \A q \in Procs \ {p} : held'[q] = held[q]
    BY DEF TypeOK
  <1>2. r.id \in Ids
    BY DEF Row
  <1>3. \A i \in Ids : Chosen(i)' => Chosen(i) \/ i = r.id
    BY <1>1 DEF Chosen, Holders
  <1> SUFFICES ASSUME NEW i \in Ids, Chosen(i)', NEW j \in beside'[i]
               PROVE  /\ j < nextId /\ uses[j] = 0
                      /\ \A q \in Holders' : \A o \in held'[q] : o.id # j
                      /\ (\E o \in rows' : o.id = j) =>
                           \E q \in Procs : pc'[q] = "sweeping" /\ \E x \in held'[q] : x.id = i
    BY DEF DoomedInv, StaleDoomed
  <1>5. CASE i = r.id
    <2>1. j < nextId /\ uses[j] = 0 /\ j # r.id /\ \A q \in Holders : \A x \in held[q] : x.id # j
      BY <1>5
    <2>2. \A q \in Holders' : \A x \in held'[q] : x.id # j
      BY <1>1, <2>1 DEF Holders
    <2> QED BY <1>1, <1>5, <2>1, <2>2
  <1>6. CASE i # r.id
    <2>1. Chosen(i) /\ j \in beside[i]
      BY <1>3, <1>6
    <2>2. /\ j < nextId /\ uses[j] = 0 /\ j # r.id
          /\ \A q \in Holders : \A o \in held[q] : o.id # j
          /\ \A o \in rows : o.id # j
      BY <2>1 DEF StaleDoomed
    <2> QED BY <1>1, <2>2 DEF Holders
  <1> QED BY <1>5, <1>6

\* The step that is about to take a row: it is alone, and what is stored is nobody's.
LEMMA Alone ==
  ASSUME ConfigAssumption, OneLock, LockedInv, DoomedInv, NEW p \in Procs,
         pc[p] = "consuming", \E l \in InLock \ {"consuming"} : pc' = [pc EXCEPT ![p] = l]
  PROVE  /\ p \notin Holders /\ \A q \in Procs : pc[q] # "sweeping"
         /\ Readers' = {} /\ \A q \in Readers : q = p
         /\ \A o \in rows : /\ o.id < nextId /\ uses[o.id] = 0 /\ o.id \in Ids /\ o \in Row
                            /\ \A q \in Holders : \A x \in held[q] : x.id # o.id
         /\ \A i \in Ids : Chosen(i) => \A o \in rows : o.id \notin beside[i]
  <1> USE DEF LockedInv, IInv
  <1>1. \A q \in Procs : q # p => pc[q] \notin InLock
    <2> SUFFICES ASSUME NEW q \in Procs, q # p, pc[q] \in InLock
                 PROVE  FALSE
      OBVIOUS
    <2>1. pc[p] \in InLock /\ pc[q] \in Queued /\ prev[q] = NoProc
      BY DEF LineInv, Waiters, InLock, Queued
    <2>2. at[p] # at[q]
      BY <2>1, KeysApart
    <2> QED BY <2>2 DEF DoomedInv, OneKey
  <1>2. p \notin Holders /\ \A q \in Procs : pc[q] # "sweeping"
    BY <1>1 DEF Holders, InLock
  <1>3. Readers' = {} /\ \A q \in Readers : q = p
    BY <1>1 DEF Readers, InLock, TypeOK
  <1>4. \A o \in rows : /\ o.id < nextId /\ uses[o.id] = 0 /\ o.id \in Ids /\ o \in Row
                        /\ \A q \in Holders : \A x \in held[q] : x.id # o.id
    <2>1. rows \subseteq Stored /\ rows \subseteq Row /\ \A i \in Ids : uses[i] \in Nat
      BY DEF Stored, TypeOK
    <2> QED BY <2>1 DEF IssuedOnly, ReturnedGone, TakenOnce, Row
  <1>5. \A i \in Ids : Chosen(i) => \A o \in rows : o.id \notin beside[i]
    BY <1>2 DEF DoomedInv, StaleDoomed
  <1> QED BY <1>2, <1>3, <1>4, <1>5

\* consumeOne finds the row in the table, and the rows beside it go under the lock.
LEMMA DoomedConsumeOne ==
  ASSUME ConfigAssumption, OneLock, ~Hashed, LockedInv, DoomedInv,
         NEW p \in Procs, ConsumeOne(p)
  PROVE  DoomedInv'
  <1> USE DEF LockedInv, IInv
  <1>1. /\ pc[p] = "consuming" /\ Isolation # "snapshot"
        /\ held' = [held EXCEPT ![p] = Gate(p)] /\ Take(Gate(p), rows)
        /\ UNCHANGED <<nextId, at, seen, uses>>
        /\ \E l \in {"sweeping", "releasing"} : pc' = [pc EXCEPT ![p] = l]
        /\ rows' = rows \ (Gate(p) \cup (IF Isolation = "locking" /\ Gate(p) # {}
                                         THEN Stale(p) ELSE {}))
        /\ Gate(p) # {} /\ Isolation = "none" => pc'[p] = "sweeping"
    BY DEF ConsumeOne, Goto, TypeOK
  <1>2. /\ p \notin Holders /\ \A q \in Procs : pc[q] # "sweeping"
        /\ Readers' = {} /\ \A q \in Readers : q = p
        /\ \A o \in rows : /\ o.id < nextId /\ uses[o.id] = 0 /\ o.id \in Ids /\ o \in Row
                           /\ \A q \in Holders : \A x \in held[q] : x.id # o.id
        /\ \A i \in Ids : Chosen(i) => \A o \in rows : o.id \notin beside[i]
    BY <1>1, Alone DEF InLock
  <1>3. Gate(p) \subseteq rows /\ \A r, o \in Gate(p) : r = o
    <2>1. \A r, o \in seen[p] : r = o
      BY <1>1 DEF Closures
    <2> QED BY <1>1, <2>1 DEF Gate, RowsUnique
  <1>4. CASE Gate(p) = {}
    BY <1>4, CalmMiss, DoomedKept DEF OneLock
  <1>5. CASE Gate(p) # {}
    <2>1. PICK r \in rows : Gate(p) = {r}
      BY <1>3, <1>5
    <2>2. r \in Row /\ Holders' = Holders \cup {p} /\ rows' \subseteq rows
      BY <1>1, <1>2, <2>1 DEF Holders, TypeOK
    <2>3. OneKey'
      BY <1>1, <2>2 DEF DoomedInv, OneKey
    <2>4. uses[r.id] = 0 /\ \A q \in Holders : \A o \in held[q] : o.id # r.id
      BY <1>2, <2>1
    <2>5. \A o \in rows : o = r \/ o.id # r.id
      BY <2>1 DEF RowsUnique
    <2>6. (\E o \in rows' : TRUE) => pc'[p] = "sweeping"
      <3>1. Stale(p) = rows
        BY DEF Stale, OfKey, DoomedInv, OneKey
      <3>2. Isolation \in {"none", "locking"}
        BY <1>1 DEF ConfigAssumption
      <3> QED BY <1>1, <1>5, <3>1, <3>2
    <2>7. /\ held' = [held EXCEPT ![p] = {r}]
          /\ \A i \in Ids : i # r.id => beside'[i] = beside[i]
          /\ \A j \in beside'[r.id] : \E o \in rows \ {r} : j = o.id
      BY <1>1, <1>2, <2>1 DEF Take
    <2>8. \A i \in Ids : Chosen(i) => r.id \notin beside[i] /\ \A o \in rows : o.id \notin beside[i]
      BY <1>2, <2>1
    <2>9. \A j \in beside'[r.id] :
            /\ j < nextId /\ uses[j] = 0 /\ j # r.id
            /\ \A q \in Holders : \A x \in held[q] : x.id # j
            /\ (\E x \in rows' : x.id = j) => pc'[p] = "sweeping"
      BY <1>2, <2>5, <2>6, <2>7
    <2>10. OneKey /\ StaleDoomed /\ UNCHANGED <<nextId, uses>> /\ p \notin Holders /\ Readers' = {}
      BY <1>1, <1>2 DEF DoomedInv
    <2> HIDE DEF IInv, LockedInv
    <2> QED BY <2>1, <2>2, <2>3, <2>4, <2>7, <2>8, <2>9, <2>10, DoomedTaken
  <1> QED BY <1>4, <1>5

\* The in-memory adapter deletes with the row everything its copy had for the identifier.
LEMMA DoomedConsumeSnapshot ==
  ASSUME ConfigAssumption, OneLock, LockedInv, DoomedInv,
         NEW p \in Procs, ConsumeSnapshot(p)
  PROVE  DoomedInv'
  <1> USE DEF LockedInv, IInv
  <1>0. PICK r \in seen[p] : held' = [held EXCEPT ![p] = {r}] /\ Take({r}, seen[p])
    BY DEF ConsumeSnapshot, FirstWithKeyOf
  <1>1. /\ held' = [held EXCEPT ![p] = {r}]
        /\ \A i \in Ids : i # r.id => beside'[i] = beside[i]
        /\ \A j \in beside'[r.id] : \E o \in seen[p] \ {r} : j = o.id
    <2>1. r.id \in Ids
      BY DEF TypeOK, Row
    <2> QED BY <1>0, <2>1 DEF Take
  <1>2. /\ pc[p] = "consuming" /\ pc' = [pc EXCEPT ![p] = "releasing"] /\ p \in Readers
        /\ rows' = {o \in rows : \A x \in seen[p] : x.pk # o.pk}
        /\ UNCHANGED <<nextId, at, seen, uses>>
    BY DEF ConsumeSnapshot, Goto, Readers
  <1>3. r \in seen[p] /\ r \in Row /\ r.id \in Ids
    BY DEF TypeOK, Row
  <1>4. /\ p \notin Holders /\ Readers' = {}
        /\ \A i \in Ids : Chosen(i) => \A o \in rows : o.id \notin beside[i]
    BY <1>2, Alone DEF InLock
  <1>5. \A o \in seen[p] : /\ o.id < nextId /\ uses[o.id] = 0
                           /\ \A q \in Holders : \A x \in held[q] : x.id # o.id
                           /\ o = r \/ o.id # r.id
                           /\ \A x \in rows' : x.id # o.id
    BY <1>2, <1>3 DEF CopyInv, CopiesUntaken, Alike
  <1>6. uses[r.id] = 0 /\ \A q \in Holders : \A o \in held[q] : o.id # r.id
    BY <1>3, <1>5
  <1>7. \A i \in Ids : Chosen(i) => r.id \notin beside[i]
    BY <1>2, <1>3 DEF DoomedInv, StaleDoomed
  <1>8. OneKey' /\ rows' \subseteq rows /\ Holders' = Holders \cup {p}
    BY <1>2 DEF DoomedInv, OneKey, Holders, TypeOK
  <1>9. \A i \in Ids : Chosen(i) => r.id \notin beside[i] /\ \A o \in rows : o.id \notin beside[i]
    BY <1>4, <1>7
  <1>10. OneKey /\ StaleDoomed /\ UNCHANGED <<nextId, uses>>
    BY <1>2 DEF DoomedInv
  <1>11. \A j \in beside'[r.id] :
           /\ j < nextId /\ uses[j] = 0 /\ j # r.id
           /\ \A q \in Holders : \A x \in held[q] : x.id # j
           /\ (\E x \in rows' : x.id = j) => pc'[p] = "sweeping"
    BY <1>1, <1>5
  <1> HIDE DEF IInv, LockedInv
  <1> QED BY <1>1, <1>3, <1>4, <1>6, <1>8, <1>9, <1>10, <1>11, DoomedTaken

\* Every step keeps the stale values doomed.
LEMMA DoomedStep ==
  ASSUME ConfigAssumption, OneLock, ~Hashed, LockedInv, DoomedInv, [Next]_vars
  PROVE  DoomedInv'
  <1>1. CASE \A p \in Procs : ~ConsumeOne(p) /\ ~ConsumeSnapshot(p)
    BY <1>1, CalmStep, DoomedKept DEF LockedInv, OneLock
  <1> QED BY <1>1, DoomedConsumeOne, DoomedConsumeSnapshot

\* On one server and under one key the promise chain replaces the transaction: an older
\* value is never returned once a newer one was, nor the other way round, also where the
\* rows beside the returned one are deleted in a statement of their own, or from a copy.
THEOREM StaleNeverReplayedOneServer ==
  ASSUME OneLock, ~Hashed PROVE Spec => []StaleNeverReplayed
  <1>1. Init => DoomedInv
    BY DEF Init, DoomedInv, OneKey, StaleDoomed, Chosen, Holders
  <1>2. LockedInv /\ DoomedInv /\ [Next]_vars => DoomedInv'
    BY ConfigAssumption, DoomedStep
  <1>3. DoomedInv => StaleNeverReplayed
    BY DEF DoomedInv, StaleDoomed, StaleNeverReplayed, Chosen
  <1> QED BY <1>1, <1>2, <1>3, LockedCorrect, PTL DEF Spec

\* Over the in-memory adapter a clean-up or a delete may take away a row that a consume
\* goes on to return from its copy.  Where nobody calls either, what is in a copy is stored.
NothingDeleted == OneLock /\ Isolation = "snapshot" /\ "find" \notin Ops /\ "delete" \notin Ops

CopiesStored ==
  /\ \A p \in Readers : \A r \in seen[p] : \E o \in rows : o.id = r.id
  /\ \A p \in Procs : pc[p] \notin {"deleting", "sweeping"}

\* Only a consume takes rows out of the table then.
LEMMA RowsStay ==
  ASSUME ConfigAssumption, NothingDeleted, LockedInv, CopiesStored, [Next]_vars,
         \A p \in Procs : ~ConsumeSnapshot(p)
  PROVE  CopiesStored'
  <1> USE DEF LockedInv, IInv
  <1>1. ASSUME NEW p \in Procs
        PROVE  ~ConsumeOne(p) /\ ~FindAndCleanUp(p) /\ ~Delete(p) /\ ~DeleteRows(p)
               /\ ~SweepStale(p) /\ ~CreateCached(p) /\ ~GetAndDelete(p)
    BY DEF ConsumeOne, FindAndCleanUp, Delete, DeleteRows, SweepStale, CreateCached,
           GetAndDelete, NothingDeleted, OneLock, CopiesStored
  <1>2. Calm
    BY <1>1, CalmStep DEF NothingDeleted, OneLock
  <1> DEFINE Stay == /\ \A o \in rows : \E x \in rows' : x.id = o.id
                     /\ \A q \in Procs : pc'[q] \notin {"deleting", "sweeping"}
  <1>3. Stay
    <2>1. CASE UNCHANGED vars \/ Tick
      BY <2>1 DEF vars, Tick, local, CopiesStored
    <2>2. ASSUME NEW p \in Procs, CreateRow(p) \/ Reserve(p)
          PROVE  Stay
      <3>1. rows \subseteq rows' /\ \E l \in {"mirroring", "idle"} : pc' = [pc EXCEPT ![p] = l]
        BY <2>2 DEF CreateRow, Reserve, Goto
      <3> QED BY <3>1 DEF CopiesStored, TypeOK
    <2>3. ASSUME NEW p \in Procs, UpdateRows(p)
          PROVE  Stay
      <3>1. PICK e \in {now + t : t \in Lifetimes} :
              rows' = {IF r.key = "stored" THEN [r EXCEPT !.exp = e] ELSE r : r \in rows}
        BY <2>3 DEF UpdateRows
      <3>2. e \in Nat
        <4>1. now \in Nat /\ Lifetimes \subseteq Nat
          BY DEF TypeOK, ConfigAssumption
        <4> QED BY <4>1
      <3>3. ASSUME NEW o \in rows  PROVE \E x \in rows' : x.id = o.id
        <4>1. (IF o.key = "stored" THEN [o EXCEPT !.exp = e] ELSE o) \in rows' /\ o \in Row
          BY <3>1 DEF TypeOK
        <4> QED BY <3>2, <4>1, RenewType
      <3> QED BY <2>3, <3>3 DEF UpdateRows, Finish, Goto, CopiesStored, TypeOK
    <2>4. ASSUME NEW p \in Procs,
                 \/ UpdateRead(p) \/ Acquire(p) \/ Mirror(p) \/ UpdateWrite(p) \/ ReadLatest(p)
                 \/ Release(p) \/ Uncache(p) \/ Decide(p) \/ Veto(p) \/ Fail(p)
          PROVE  Stay
      <3>1. rows' = rows /\ pc'[p] \notin {"deleting", "sweeping"}
        BY <2>4 DEF UpdateRead, Acquire, Mirror, UpdateWrite, ReadLatest, Release, AfterLock,
                    Uncache, Decide, Veto, Fail, Finish, Goto, store, TypeOK
      <3>2. \A q \in Procs \ {p} : pc'[q] = pc[q]
        BY <2>4 DEF UpdateRead, Acquire, Mirror, UpdateWrite, ReadLatest, Release,
                    Uncache, Decide, Veto, Fail, Finish, Goto, TypeOK
      <3> QED BY <3>1, <3>2 DEF CopiesStored
    <2>5. ASSUME NEW s \in Servers, Crash(s)
          PROVE  Stay
      BY <2>5 DEF Crash, store, CopiesStored
    <2> QED BY <1>1, <2>1, <2>2, <2>3, <2>4, <2>5 DEF Next, Call, Continue
  <1>4. \A p \in Readers' : \/ p \in Readers /\ seen'[p] = seen[p]
                            \/ seen'[p] = OfKey(rows, at[p])
    BY <1>2 DEF Readers, Calm
  <1>5. \A p : OfKey(rows, at[p]) \subseteq rows
    BY DEF OfKey
  <1>6. ASSUME NEW p \in Readers', NEW r \in seen'[p]
        PROVE  \E o \in rows' : o.id = r.id
    <2>1. \E o \in rows : o.id = r.id
      BY <1>4, <1>5, <1>6 DEF CopiesStored
    <2> QED BY <1>3, <2>1
  <1> QED BY <1>3, <1>6 DEF CopiesStored

\* A consume takes out of the table what its copy has, and of other copies nothing.
LEMMA CopyMerged ==
  ASSUME ConfigAssumption, NothingDeleted, LockedInv, CopiesStored,
         NEW p \in Procs, ConsumeSnapshot(p)
  PROVE  CopiesStored' /\ OneTime!Next
  <1> USE DEF LockedInv, IInv
  <1>1. PICK r \in seen[p] : held' = [held EXCEPT ![p] = {r}]
    BY DEF ConsumeSnapshot, FirstWithKeyOf
  <1>2. /\ pc[p] = "consuming" /\ pc' = [pc EXCEPT ![p] = "releasing"] /\ p \in Readers
        /\ rows' = {o \in rows : \A x \in seen[p] : x.pk # o.pk}
        /\ UNCHANGED <<nextId, cache, at, seen, uses>> /\ InDatabase /\ r \in seen[p]
    BY DEF ConsumeSnapshot, Goto, Readers, NothingDeleted, OneLock
  <1>3. \A q \in Procs : pc'[q] = IF q = p THEN "releasing" ELSE pc[q]
    BY <1>2 DEF TypeOK
  <1>4. ASSUME NEW q \in Readers', NEW o \in seen'[q]
        PROVE  \E x \in rows' : x.id = o.id
    <2>1. q \in Readers /\ q # p /\ pc[q] = "consuming" /\ o \in seen[q] /\ q \in Procs
      BY <1>2, <1>3 DEF Readers
    <2>2. at[p] # at[q]
      BY <1>2, <2>1, KeysApart DEF NothingDeleted, LineInv, Waiters, Queued, InLock
    <2>3. PICK x \in rows : x.id = o.id
      BY <2>1 DEF CopiesStored
    <2>4. ASSUME NEW y \in seen[p], y.pk = x.pk
          PROVE  FALSE
      <3>1. PICK z \in rows : z.id = y.id
        BY <1>2 DEF CopiesStored
      <3>2. z.pk = y.pk
        BY <1>2, <3>1 DEF CopyInv, Alike
      <3>3. z.key = at[p] /\ x.key = at[q]
        BY <1>2, <2>1, <2>3, <3>1 DEF CopyInv, Alike, CopiesUntaken
      <3>4. x.pk # ReservationKey
        BY <2>2, <2>3, <2>4, <3>1, <3>2, <3>3 DEF RowsUnique
      <3>5. x = z
        BY <2>3, <2>4, <3>1, <3>2, <3>4 DEF RowsUnique
      <3> QED BY <2>2, <3>3, <3>5
    <2> QED BY <1>2, <2>3, <2>4
  <1>5. CopiesStored'
    BY <1>3, <1>4 DEF CopiesStored
  <1>6. Live' \subseteq Live
    <2>1. \A q \in Holders' : q = p \/ (q \in Holders /\ held'[q] = held[q])
      BY <1>1, <1>3 DEF Holders, TypeOK
    <2>2. held'[p] = {r} /\ Stored = rows /\ Stored' \subseteq rows
      BY <1>1, <1>2 DEF TypeOK, Stored, InDatabase
    <2>3. \E o \in Stored : o.id = r.id
      BY <1>2, <2>2 DEF CopiesStored
    <2> QED BY <2>1, <2>2, <2>3, LiveIs
  <1> QED BY <1>2, <1>5, <1>6 DEF OneTime!Next, OneTime!Void

\* The in-memory adapter on one server implements the promise of OneTimeValues for
\* callers that create, reserve, update and consume. The adapter refuses no second
\* reservation of one id: both rows then stand, and each is taken once.
THEOREM RefinesOneTimeInMemory == ASSUME NothingDeleted PROVE Spec => RefinesOneTime
  <1>1. OneLock /\ Durable
    BY DEF NothingDeleted, OneLock, Durable
  <1>2. Init => OneTime!Init /\ CopiesStored
    <2>1. Init => Readers = {} /\ \A p \in Procs : pc[p] = "idle"
      BY DEF Init, Readers
    <2> QED BY <2>1, OneTimeInit, ConfigAssumption DEF CopiesStored
  <1>3. ASSUME LockedInv, CopiesStored, [Next]_vars
        PROVE  CopiesStored' /\ [OneTime!Next]_(OneTime!ovars)
    <2>1. CASE \A p \in Procs : ~ConsumeSnapshot(p)
      BY <1>1, <1>3, <2>1, ConfigAssumption, RowsStay, InvOthers DEF LockedInv
    <2> QED BY <1>3, <2>1, ConfigAssumption, CopyMerged
  <1>4. LockedInv /\ CopiesStored /\ [Next]_vars
          => CopiesStored' /\ [OneTime!Next]_(OneTime!ovars)
    BY <1>3
  <1> QED BY <1>1, <1>2, <1>4, LockedCorrect, PTL DEF Spec, RefinesOneTime, OneTime!Spec
=============================================================================
