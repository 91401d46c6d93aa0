--------------------------- MODULE SessionsProofs ---------------------------
(***************************************************************************)
(* Theorems about Sessions: type correctness; over a database alone no     *)
(* revoked session ever comes back, and no live one is lost to the calls   *)
(* of others; over any stores a sign-out is final among sign-ins and       *)
(* sign-outs; over both stores live sessions are found whatever fails;     *)
(* where rows outlive their session, ended sessions stay dead and their    *)
(* hooks run once in calls that do not overlap.                            *)
(***************************************************************************)
EXTENDS Sessions, TLAPS

-----------------------------------------------------------------------------
(* The operators on sets of sessions.                                      *)

\* Subsets chosen by token or expiry are sets of sessions.
LEMMA PartsAreSessions ==
  ASSUME NEW S \in SUBSET Session, NEW T
  PROVE  /\ Of(S, T) \in SUBSET Session
         /\ Without(S, T) \in SUBSET Session
         /\ Fresh(S) \in SUBSET Session
         /\ ToksOf(S) \in SUBSET Tokens
BY DEF Of, Without, Fresh, ToksOf, Session

\* What set() leaves in secondary storage are sessions.
LEMMA PutIsSessions ==
  ASSUME NEW S \in SUBSET Session, NEW s \in Session
  PROVE  Put(S, s) \in SUBSET Session
BY DEF Put, Without, Session

\* A session with another expiry is a session.
LEMMA RenewedIsSession ==
  ASSUME NEW s \in Session, NEW e \in Nat \ {0}
  PROVE  /\ [s EXCEPT !.exp = e] \in Session
         /\ [s EXCEPT !.exp = e].tok = s.tok
BY DEF Session

-----------------------------------------------------------------------------
(* Type correctness.                                                       *)

\* Starting a call keeps the types of the local variables it sets.
LEMMA StartTyped ==
  ASSUME TypeOK, NEW p \in Procs, NEW o \in OpNames, NEW T \in SUBSET Tokens, Start(p, o, T)
  PROVE  op' \in [Procs -> OpNames \cup {"none"}] /\ sel' \in [Procs -> SUBSET Tokens]
BY DEF TypeOK, Start

\* Ending a call keeps the types of all local variables.
LEMMA FinishTyped ==
  ASSUME TypeOK, NEW p \in Procs, Finish(p)
  PROVE  /\ pc' \in [Procs -> Labels]
         /\ op' \in [Procs -> OpNames \cup {"none"}]
         /\ sel' \in [Procs -> SUBSET Tokens]
         /\ time' \in [Procs -> Nat]
         /\ got' \in [Procs -> SUBSET Session]
         /\ hold' \in [Procs -> SUBSET Session]
         /\ aim' \in [Procs -> SUBSET Tokens]
BY DEF TypeOK, Finish, Goto, Labels

\* Marks what callers were told keep their type.
LEMMA ForgetTyped ==
  ASSUME TypeOK, NEW T, Forget(T)
  PROVE  due' \in [Tokens -> Nat]
BY DEF TypeOK, Forget

\* Creating a session and mirroring it.
LEMMA CreateTyped ==
  ASSUME SessionsAssumption, TypeOK, NEW p \in Procs,
         Create(p) \/ ListForCreate(p) \/ AddToList(p) \/ AddToken(p) \/ MirrorLost(p)
  PROVE  TypeOK'
<1>1. CASE Create(p)
  <2>. PICK l \in Lifetimes : LET s == [tok |-> next, exp |-> now + l] IN
       /\ rows' = IF InDatabase THEN rows \cup {s} ELSE rows
       /\ IF Cached
          THEN /\ Start(p, "create", {})
               /\ hold' = [hold EXCEPT ![p] = {s}]
               /\ Goto(p, "listing") /\ due' = due
          ELSE /\ due' = [due EXCEPT ![next] = s.exp]
               /\ UNCHANGED <<pc, op, sel, hold>>
    BY <1>1 DEF Create
  <2>. DEFINE s == [tok |-> next, exp |-> now + l]
  <2>1. next \in Tokens /\ l \in Nat /\ s \in Session /\ s.exp \in Nat
    BY <1>1 DEF Create, TypeOK, SessionsAssumption, Tokens, Session
  <2>2. rows' \in SUBSET Session
    BY <2>1 DEF TypeOK
  <2>3. /\ op' \in [Procs -> OpNames \cup {"none"}] /\ sel' \in [Procs -> SUBSET Tokens]
        /\ hold' \in [Procs -> SUBSET Session] /\ pc' \in [Procs -> Labels]
        /\ due' \in [Tokens -> Nat]
    <3>1. CASE Cached
      <4>. Start(p, "create", {}) /\ hold' = [hold EXCEPT ![p] = {s}]
           /\ Goto(p, "listing") /\ due' = due
        BY <3>1
      <4>1. "create" \in OpNames
        BY DEF OpNames
      <4>. QED  BY <2>1, <4>1, StartTyped DEF TypeOK, Goto, Labels
    <3>2. CASE ~Cached
      BY <3>2, <2>1 DEF TypeOK
    <3>. QED  BY <3>1, <3>2
  <2>4. next' \in 1 .. MaxSessions + 1
    BY <1>1 DEF Create, TypeOK, SessionsAssumption
  <2>. QED  BY <1>1, <2>2, <2>3, <2>4 DEF Create, TypeOK
<1>2. CASE ListForCreate(p)
  BY <1>2, PartsAreSessions DEF ListForCreate, TypeOK, Goto, Labels, store, history
<1>3. CASE AddToList(p)
  BY <1>3 DEF AddToList, Listed, TypeOK, Goto, Labels, local, history
<1>4. CASE AddToken(p)
  <2>. PICK s \in hold[p] : cache' = Put(cache, s) /\ due' = [due EXCEPT ![s.tok] = s.exp]
    BY <1>4 DEF AddToken
  <2>1. s \in Session /\ s.tok \in Tokens /\ s.exp \in Nat
    BY DEF TypeOK, Session
  <2>2. cache' \in SUBSET Session /\ due' \in [Tokens -> Nat]
    BY <2>1, PutIsSessions DEF TypeOK
  <2>. QED  BY <1>4, <2>2, FinishTyped DEF AddToken, TypeOK
<1>5. CASE MirrorLost(p)
  <2>. PICK s \in hold[p] : due' = [due EXCEPT ![s.tok] = s.exp]
    BY <1>5 DEF MirrorLost
  <2>1. due' \in [Tokens -> Nat]
    BY DEF TypeOK, Session
  <2>. QED  BY <1>5, <2>1, FinishTyped DEF MirrorLost, TypeOK, store
<1>. QED  BY <1>1, <1>2, <1>3, <1>4, <1>5

\* Updating a session.
LEMMA UpdateTyped ==
  ASSUME SessionsAssumption, TypeOK, NEW p \in Procs,
         Update(p) \/ GetToken(p) \/ SetToken(p) \/ Relist(p) \/ SetRelist(p) \/ UpdateRow(p)
  PROVE  TypeOK'
<1>1. CASE Update(p)
  <2>. PICK t \in Issued : \E s \in Lookup(t) :
         /\ ~(s.exp < now)
         /\ Start(p, "update", {t})
         /\ \E e \in {0} \cup {x \in {now + ExpiresIn} : s.exp <= x} :
              time' = [time EXCEPT ![p] = e]
    BY <1>1 DEF Update
  <2>. PICK e \in {0, now + ExpiresIn} :
         Start(p, "update", {t}) /\ time' = [time EXCEPT ![p] = e]
    OBVIOUS
  <2>1. t \in Tokens /\ e \in Nat /\ "update" \in OpNames
    BY DEF Issued, TypeOK, SessionsAssumption, Tokens, OpNames
  <2>2. op' \in [Procs -> OpNames \cup {"none"}] /\ sel' \in [Procs -> SUBSET Tokens]
    BY <2>1, StartTyped
  <2>. QED  BY <1>1, <2>1, <2>2 DEF Update, TypeOK, Goto, Labels, store, history
<1>2. CASE GetToken(p)
  <2>1. CASE Finish(p)
    BY <1>2, <2>1, FinishTyped DEF GetToken, TypeOK, store
  <2>2. CASE ~Finish(p)
    <3>1. Of(cache, sel[p]) \in SUBSET Session
      BY PartsAreSessions DEF TypeOK
    <3>. QED  BY <1>2, <2>2, <3>1 DEF GetToken, TypeOK, Goto, Labels, store
  <2>. QED  BY <2>1, <2>2
<1>3. CASE SetToken(p)
  <2>. PICK s \in Merged(p) : /\ cache' = Put(cache, s)
                              /\ hold' = [hold EXCEPT ![p] = {s}]
                              /\ Goto(p, IF s.exp > now THEN "relist" ELSE "updateRow")
    BY <1>3 DEF SetToken
  <2>1. s \in Session
    <3>1. PICK r \in hold[p] : s = [r EXCEPT !.exp = IF time[p] = 0 THEN r.exp ELSE time[p]]
      BY DEF Merged
    <3>2. r \in Session /\ r.exp \in Nat \ {0} /\ time[p] \in Nat
      BY DEF TypeOK, Session
    <3>. QED  BY <3>1, <3>2, RenewedIsSession
  <2>2. cache' \in SUBSET Session
    BY <2>1, PutIsSessions DEF TypeOK
  <2>. QED  BY <1>3, <2>1, <2>2 DEF SetToken, TypeOK, Goto, Labels, history
<1>4. CASE Relist(p)
  <2>1. Without(Fresh(list), sel[p]) \in SUBSET Session
    BY PartsAreSessions DEF TypeOK
  <2>. QED  BY <1>4, <2>1 DEF Relist, TypeOK, Goto, Labels, store, history
<1>5. CASE SetRelist(p)
  BY <1>5 DEF SetRelist, Listed, TypeOK, Goto, Labels, local, history
<1>6. CASE UpdateRow(p)
  <2>1. time[p] # 0 => UpdatedRows(p) \in SUBSET Session
    <3>. SUFFICES ASSUME time[p] # 0, NEW r \in rows
                  PROVE  (IF r.tok \in sel[p] THEN [r EXCEPT !.exp = time[p]] ELSE r) \in Session
      BY DEF UpdatedRows
    <3>1. time[p] \in Nat \ {0} /\ r \in Session
      BY DEF TypeOK
    <3>. QED  BY <3>1, RenewedIsSession
  <2>2. rows' \in SUBSET Session
    BY <1>6, <2>1 DEF UpdateRow, TypeOK
  <2>3. due' \in [Tokens -> Nat]
    BY <1>6 DEF UpdateRow, TypeOK
  <2>. QED  BY <1>6, <2>2, <2>3, FinishTyped DEF UpdateRow, TypeOK
<1>. QED  BY <1>1, <1>2, <1>3, <1>4, <1>5, <1>6

\* Refreshing the cached sessions of a user.
LEMMA RefreshTyped ==
  ASSUME SessionsAssumption, TypeOK, NEW p \in Procs,
         Refresh(p) \/ Scan(p) \/ WriteBack(p) \/ Refreshed(p)
  PROVE  TypeOK'
<1>1. CASE Refresh(p)
  <2>1. Fresh(list) \in SUBSET Session /\ "refreshUser" \in OpNames
    BY PartsAreSessions DEF TypeOK, OpNames
  <2>2. op' \in [Procs -> OpNames \cup {"none"}] /\ sel' \in [Procs -> SUBSET Tokens]
    BY <1>1, <2>1, StartTyped DEF Refresh
  <2>. QED  BY <1>1, <2>1, <2>2 DEF Refresh, TypeOK, Goto, Labels, store, history
<1>2. CASE Scan(p)
  <2>. PICK s \in got[p] : /\ got' = [got EXCEPT ![p] = @ \ {s}]
                           /\ hold' = [hold EXCEPT ![p] = @ \cup Of(cache, {s.tok})]
    BY <1>2 DEF Scan
  <2>1. Of(cache, {s.tok}) \in SUBSET Session
    BY PartsAreSessions DEF TypeOK
  <2>. QED  BY <1>2, <2>1 DEF Scan, TypeOK, store, history
<1>3. CASE WriteBack(p)
  <2>. PICK s \in hold[p] : cache' = Put(cache, s) /\ hold' = [hold EXCEPT ![p] = @ \ {s}]
    BY <1>3 DEF WriteBack
  <2>1. cache' \in SUBSET Session
    BY PutIsSessions DEF TypeOK
  <2>. QED  BY <1>3, <2>1 DEF WriteBack, TypeOK, history
<1>4. CASE Refreshed(p)
  BY <1>4, FinishTyped DEF Refreshed, TypeOK, store
<1>. QED  BY <1>1, <1>2, <1>3, <1>4

\* Starting to delete sessions, and the part of a delete in secondary storage.
LEMMA DeleteTyped ==
  ASSUME SessionsAssumption, TypeOK, NEW p \in Procs,
         \/ Delete(p) \/ CleanUp(p) \/ Unlist(p) \/ ReadList(p) \/ SetList(p)
         \/ DropToken(p) \/ DeleteMany(p) \/ DropSome(p) \/ DroppedSome(p)
  PROVE  TypeOK'
<1>0. Issued \in SUBSET Tokens /\ {"delete", "cleanUp", "deleteMany"} \subseteq OpNames
  BY DEF Issued, TypeOK, SessionsAssumption, Tokens, OpNames
<1>1. CASE Delete(p)
  <2>. PICK t \in Issued : /\ Start(p, "delete", {t})
                           /\ aim' = [aim EXCEPT ![p] = {t}]
                           /\ Forget({t})
    BY <1>1 DEF Delete
  <2>1. op' \in [Procs -> OpNames \cup {"none"}] /\ sel' \in [Procs -> SUBSET Tokens]
    BY <1>0, StartTyped
  <2>. QED  BY <1>0, <1>1, <2>1, ForgetTyped DEF Delete, TypeOK, Goto, Labels, store
<1>2. CASE CleanUp(p)
  <2>. PICK t \in Issued : Start(p, "cleanUp", {t})
    BY <1>2 DEF CleanUp
  <2>1. op' \in [Procs -> OpNames \cup {"none"}] /\ sel' \in [Procs -> SUBSET Tokens]
    BY <1>0, StartTyped
  <2>. QED  BY <1>2, <2>1 DEF CleanUp, TypeOK, Goto, Labels, store, history
<1>3. CASE Unlist(p)
  BY <1>3 DEF Unlist, TypeOK, Goto, Labels, store, local, history
<1>4. CASE ReadList(p)
  <2>1. Without(Fresh(list), sel[p]) \in SUBSET Session
    BY PartsAreSessions DEF TypeOK
  <2>. QED
    BY <1>4, <2>1 DEF ReadList, AfterReadList, TypeOK, Goto, Labels, store, history
<1>5. CASE SetList(p)
  BY <1>5 DEF SetList, TypeOK, Goto, Labels, local, history
<1>6. CASE DropToken(p)
  <2>1. cache' \in SUBSET Session
    BY <1>6, PartsAreSessions DEF DropToken, TypeOK
  <2>2. CASE InDatabase
    BY <1>6, <2>1, <2>2 DEF DropToken, TypeOK, Goto, Labels, local
  <2>3. CASE ~InDatabase
    BY <1>6, <2>1, <2>3, FinishTyped DEF DropToken, Ended, TypeOK
  <2>. QED  BY <2>2, <2>3
<1>7. CASE DeleteMany(p)
  <2>. PICK T \in SUBSET Issued \ {{}} :
         /\ Start(p, "deleteMany", T)
         /\ aim' = [aim EXCEPT ![p] = T]
         /\ hold' = [hold EXCEPT ![p] = {[tok |-> t, exp |-> 1] : t \in T}]
         /\ Forget(T)
    BY <1>7 DEF DeleteMany
  <2>0. T \in SUBSET Tokens
    BY <1>0
  <2>1. op' \in [Procs -> OpNames \cup {"none"}] /\ sel' \in [Procs -> SUBSET Tokens]
    BY <1>0, <2>0, StartTyped
  <2>2. {[tok |-> t, exp |-> 1] : t \in T} \in SUBSET Session
    BY <2>0 DEF Session
  <2>3. hold' \in [Procs -> SUBSET Session] /\ aim' \in [Procs -> SUBSET Tokens]
    BY <2>0, <2>2 DEF TypeOK
  <2>. QED
    BY <1>7, <2>1, <2>3, ForgetTyped DEF DeleteMany, TypeOK, Goto, Labels, store
<1>8. CASE DropSome(p)
  <2>. PICK s \in hold[p] : /\ cache' = Without(cache, {s.tok})
                            /\ hold' = [hold EXCEPT ![p] = @ \ {s}]
    BY <1>8 DEF DropSome
  <2>1. cache' \in SUBSET Session
    BY PartsAreSessions DEF TypeOK
  <2>. QED  BY <1>8, <2>1 DEF DropSome, TypeOK, history
<1>9. CASE DroppedSome(p)
  <2>1. CASE InDatabase
    BY <1>9, <2>1 DEF DroppedSome, TypeOK, Goto, Labels, store, local
  <2>2. CASE ~InDatabase
    BY <1>9, <2>2, FinishTyped DEF DroppedSome, Ended, TypeOK, store
  <2>. QED  BY <2>1, <2>2
<1>. QED  BY <1>1, <1>2, <1>3, <1>4, <1>5, <1>6, <1>7, <1>8, <1>9

\* Ending rows.
LEMMA EndTyped ==
  ASSUME SessionsAssumption, TypeOK, NEW p \in Procs,
         FindRows(p) \/ FindRowsLost(p) \/ EndRows(p) \/ Vetoed(p)
  PROVE  TypeOK'
<1>0. \A since : Targets(p, since) \subseteq rows
  BY DEF Targets, Of
<1>1. CASE FindRows(p)
  BY <1>0, <1>1 DEF FindRows, TypeOK, Goto, Labels, store, history
<1>2. CASE FindRowsLost(p)
  BY <1>2 DEF FindRowsLost, TypeOK, Goto, Labels, store, history
<1>3. CASE EndRows(p)
  <2>1. Gone(p) \subseteq rows
    BY <1>0 DEF Gone
  <2>2. {[r EXCEPT !.exp = now] : r \in Gone(p)} \subseteq Session
    BY <2>1, RenewedIsSession DEF TypeOK
  <2>3. rows' \in SUBSET Session
    BY <1>3, <2>2 DEF EndRows, TypeOK
  <2>4. fired' \in [Tokens -> Nat]
    BY <1>3 DEF EndRows, TypeOK
  <2>5. CASE Cached /\ op[p] = "revokeAll"
    BY <1>3, <2>3, <2>4, <2>5, ForgetTyped DEF EndRows, TypeOK, Goto, Labels
  <2>6. CASE ~(Cached /\ op[p] = "revokeAll")
    <3>1. due' \in [Tokens -> Nat]
      BY <1>3, <2>6, ForgetTyped DEF EndRows, TypeOK
    <3>2. Ended(p)
      BY <1>3, <2>6 DEF EndRows
    <3>3. dead' \in SUBSET Tokens
      BY <3>2 DEF Ended, TypeOK
    <3>. QED  BY <1>3, <2>3, <2>4, <3>1, <3>2, <3>3, FinishTyped DEF EndRows, Ended, TypeOK
  <2>. QED  BY <2>5, <2>6
<1>4. CASE Vetoed(p)
  BY <1>4, FinishTyped DEF Vetoed, TypeOK, store
<1>. QED  BY <1>1, <1>2, <1>3, <1>4

\* Revoking all sessions, and a call that throws.
LEMMA RevokeTyped ==
  ASSUME SessionsAssumption, TypeOK, NEW p \in Procs,
         \/ RevokeAll(p) \/ DropOne(p) \/ RereadList(p) \/ TrimList(p) \/ RevokeLost(p)
         \/ Throw(p)
  PROVE  TypeOK'
<1>1. CASE RevokeAll(p)
  <2>1. "revokeAll" \in OpNames /\ Tokens \in SUBSET Tokens
    BY DEF OpNames
  <2>2. op' \in [Procs -> OpNames \cup {"none"}] /\ sel' \in [Procs -> SUBSET Tokens]
    BY <1>1, <2>1, StartTyped DEF RevokeAll
  <2>. QED
    BY <1>1, <2>2, ForgetTyped DEF RevokeAll, TypeOK, Goto, Labels, store
<1>2. CASE DropOne(p)
  <2>. PICK s \in hold[p] : /\ cache' = Without(cache, {s.tok})
                            /\ hold' = [hold EXCEPT ![p] = @ \ {s}]
    BY <1>2 DEF DropOne
  <2>1. cache' \in SUBSET Session
    BY PartsAreSessions DEF TypeOK
  <2>. QED  BY <1>2, <2>1 DEF DropOne, TypeOK, history
<1>3. CASE RereadList(p)
  <2>1. Without(Fresh(list), ToksOf(got[p])) \in SUBSET Session
    BY PartsAreSessions DEF TypeOK
  <2>. QED  BY <1>3, <2>1 DEF RereadList, TypeOK, Goto, Labels, store, history
<1>4. CASE TrimList(p)
  BY <1>4, FinishTyped DEF TrimList, Ended, TypeOK
<1>5. CASE RevokeLost(p)
  BY <1>5, FinishTyped DEF RevokeLost, Ended, TypeOK, store
<1>6. CASE Throw(p)
  BY <1>6, FinishTyped DEF Throw, TypeOK, store
<1>. QED  BY <1>1, <1>2, <1>3, <1>4, <1>5, <1>6

\* Every reachable state is well formed, whatever the stores, the calls in
\* flight, their failures and the bounds.
THEOREM TypeCorrect == SessionsAssumption => (Spec => []TypeOK)
<1>. SUFFICES ASSUME SessionsAssumption PROVE Spec => []TypeOK
  OBVIOUS
<1>1. Init => TypeOK
  BY DEF Init, TypeOK, SessionsAssumption, Labels, Tokens, Session
<1>2. TypeOK /\ [Next]_vars => TypeOK'
  <2>. SUFFICES ASSUME TypeOK, [Next]_vars PROVE TypeOK'
    OBVIOUS
  <2>1. CASE UNCHANGED vars
    BY <2>1 DEF vars, TypeOK
  <2>2. CASE Tick
    BY <2>2 DEF Tick, TypeOK, local, history
  <2>3. ASSUME NEW p \in Procs, Begin(p) \/ Step(p) \/ Fault(p) PROVE TypeOK'
    BY <2>3, CreateTyped, UpdateTyped, RefreshTyped, DeleteTyped, EndTyped, RevokeTyped
       DEF Begin, Step, Fault
  <2>. QED  BY <2>1, <2>2, <2>3 DEF Next
<1>. QED  BY <1>1, <1>2, PTL DEF Spec

-----------------------------------------------------------------------------
(* Over a database alone a revocation is final.  A delete that read no row *)
(* for the hooks leaves the table alone, so it must be known that the row  *)
(* it did not find cannot appear later: tokens are used once, and no       *)
(* update creates a row.                                                   *)

\* The database is the only store, and its reads do not fail unnoticed.
DatabaseOnly == Mode = "database" /\ "swallow" \notin Faults

\* The tokens handed out so far.
Used == {t \in Tokens : t < next}

\* Nothing is cached, and calls are only where the database takes them.
NothingCached ==
  /\ cache = {}
  /\ \A p \in Procs : pc[p] \in {"idle", "updateRow", "findRows", "endRows"}

\* Rows, and the tokens that calls name, were created.
Created ==
  /\ ToksOf(rows) \subseteq Used /\ dead \subseteq Used
  /\ \A p \in Procs : aim[p] \subseteq sel[p] \cap Used
  /\ \A p \in Procs : op[p] # "revokeAll" => sel[p] \subseteq Used
  /\ \A p \in Procs : pc[p] = "idle" => aim[p] = {}

\* A row a delete did not find is not there.
UnfoundAbsent ==
  \A p \in Procs :
    pc[p] = "endRows" /\ op[p] \in {"delete", "cleanUp"} /\ hold[p] = {} =>
      sel[p] \cap ToksOf(rows) = {}

\* What was revoked has no row.
DeadHaveNoRow == dead \cap ToksOf(rows) = {}

\* The inductive invariant.
RevocationInv == TypeOK /\ NothingCached /\ Created /\ UnfoundAbsent /\ DeadHaveNoRow

\* A call that ends or fails without adding to the table keeps the invariant.
LEMMA FinishKeeps ==
  ASSUME RevocationInv, NEW p \in Procs, Finish(p),
         cache' = {}, next' = next, ToksOf(rows') \subseteq ToksOf(rows),
         dead' \subseteq Used, dead' \cap ToksOf(rows') = {}
  PROVE  NothingCached' /\ Created' /\ UnfoundAbsent' /\ DeadHaveNoRow'
<1>. USE DEF RevocationInv, TypeOK
<1>1. /\ pc' = [pc EXCEPT ![p] = "idle"] /\ op' = [op EXCEPT ![p] = "none"]
      /\ sel' = [sel EXCEPT ![p] = {}] /\ hold' = [hold EXCEPT ![p] = {}]
      /\ aim' = [aim EXCEPT ![p] = {}]
  BY DEF Finish, Goto
<1>2. Used' = Used
  BY DEF Used
<1>3. NothingCached'
  BY <1>1 DEF NothingCached
<1>4. Created'
  BY <1>1, <1>2 DEF Created
<1>5. UnfoundAbsent'
  <2>. SUFFICES ASSUME NEW q \in Procs, pc'[q] = "endRows",
                       op'[q] \in {"delete", "cleanUp"}, hold'[q] = {}
                PROVE  sel'[q] \cap ToksOf(rows') = {}
    BY DEF UnfoundAbsent
  <2>1. q # p
    BY <1>1
  <2>. QED  BY <1>1, <2>1 DEF UnfoundAbsent
<1>. QED  BY <1>3, <1>4, <1>5 DEF DeadHaveNoRow

\* A call that starts on tokens handed out, and goes on to read the rows.
LEMMA StartKeeps ==
  ASSUME RevocationInv, NEW p \in Procs, NEW o, NEW T \in SUBSET Tokens, Start(p, o, T),
         o # "revokeAll" => T \subseteq Used,
         NEW l \in {"findRows", "updateRow"}, Goto(p, l),
         UNCHANGED <<next, rows, cache, dead>>,
         NEW A \in SUBSET (T \cap Used), aim' = [aim EXCEPT ![p] = A],
         \A q \in Procs : q # p => hold'[q] = hold[q]
  PROVE  NothingCached' /\ Created' /\ UnfoundAbsent' /\ DeadHaveNoRow'
<1>. USE DEF RevocationInv, TypeOK
<1>1. /\ pc' = [pc EXCEPT ![p] = l] /\ op' = [op EXCEPT ![p] = o]
      /\ sel' = [sel EXCEPT ![p] = T]
  BY DEF Start, Goto
<1>2. Used' = Used /\ ToksOf(rows') = ToksOf(rows)
  BY DEF Used, ToksOf
<1>3. NothingCached'
  BY <1>1 DEF NothingCached
<1>4. Created'
  <2>1. ASSUME NEW q \in Procs
        PROVE  /\ aim'[q] \subseteq sel'[q] \cap Used
               /\ op'[q] # "revokeAll" => sel'[q] \subseteq Used
               /\ pc'[q] = "idle" => aim'[q] = {}
    BY <1>1 DEF Created
  <2>. QED  BY <1>2, <2>1 DEF Created
<1>5. UnfoundAbsent'
  <2>. SUFFICES ASSUME NEW q \in Procs, pc'[q] = "endRows",
                       op'[q] \in {"delete", "cleanUp"}, hold'[q] = {}
                PROVE  sel'[q] \cap ToksOf(rows') = {}
    BY DEF UnfoundAbsent
  <2>1. q # p
    BY <1>1
  <2>. QED  BY <1>1, <1>2, <2>1 DEF UnfoundAbsent
<1>. QED  BY <1>2, <1>3, <1>4, <1>5 DEF DeadHaveNoRow

\* A new row has a token that nobody has used.
LEMMA CreateKeeps ==
  ASSUME SessionsAssumption, DatabaseOnly, RevocationInv, NEW p \in Procs, Create(p)
  PROVE  NothingCached' /\ Created' /\ UnfoundAbsent' /\ DeadHaveNoRow'
<1>. USE DEF RevocationInv, TypeOK
<1>1. PICK l \in Lifetimes : /\ rows' = rows \cup {[tok |-> next, exp |-> now + l]}
                             /\ UNCHANGED <<pc, op, sel, hold>>
  BY DEF Create, DatabaseOnly, InDatabase, Cached
<1>2. next \in Tokens /\ next' = next + 1 /\ UNCHANGED <<cache, aim, dead>>
  BY DEF Create, SessionsAssumption, Tokens
<1>3. ToksOf(rows') = ToksOf(rows) \cup {next}
  <2>. DEFINE s == [tok |-> next, exp |-> now + l]
  <2>1. s.tok = next /\ rows' = rows \cup {s}
    BY <1>1
  <2>. HIDE DEF s
  <2>. QED  BY <2>1 DEF ToksOf
<1>4. Used' = Used \cup {next} /\ next \notin Used
  BY <1>2 DEF Used, Tokens, SessionsAssumption
<1>5. UnfoundAbsent'
  <2>. SUFFICES ASSUME NEW q \in Procs, pc[q] = "endRows",
                       op[q] \in {"delete", "cleanUp"}, hold[q] = {}
                PROVE  sel[q] \cap ToksOf(rows') = {}
    BY <1>1 DEF UnfoundAbsent
  <2>1. sel[q] \subseteq Used /\ sel[q] \cap ToksOf(rows) = {}
    BY DEF UnfoundAbsent, Created
  <2>. QED  BY <1>3, <1>4, <2>1
<1>6. Created'
  <2>1. ToksOf(rows') \subseteq Used' /\ dead' \subseteq Used'
    BY <1>2, <1>3, <1>4 DEF Created
  <2>2. \A q \in Procs : /\ aim'[q] \subseteq sel'[q] \cap Used'
                         /\ op'[q] # "revokeAll" => sel'[q] \subseteq Used'
                         /\ pc'[q] = "idle" => aim'[q] = {}
    BY <1>1, <1>2, <1>4 DEF Created
  <2>. QED  BY <2>1, <2>2 DEF Created
<1>7. DeadHaveNoRow'
  BY <1>2, <1>3, <1>4 DEF DeadHaveNoRow, Created
<1>. QED  BY <1>1, <1>2, <1>5, <1>6, <1>7 DEF NothingCached

\* Reading the rows for the hooks.
LEMMA FindRowsKeeps ==
  ASSUME DatabaseOnly, RevocationInv, NEW p \in Procs, FindRows(p)
  PROVE  NothingCached' /\ Created' /\ UnfoundAbsent' /\ DeadHaveNoRow'
<1>. USE DEF RevocationInv, TypeOK
<1>1. /\ pc' = [pc EXCEPT ![p] = "endRows"] /\ hold' = [hold EXCEPT ![p] = Targets(p, now)]
      /\ UNCHANGED <<next, rows, cache, op, sel, aim, dead>>
  BY DEF FindRows, Goto, store, history
<1>2. Targets(p, now) = Of(rows, sel[p])
  BY DEF Targets, DatabaseOnly
<1>3. Used' = Used /\ ToksOf(rows') = ToksOf(rows)
  BY <1>1 DEF Used, ToksOf
<1>4. UnfoundAbsent'
  <2>. SUFFICES ASSUME NEW q \in Procs, pc'[q] = "endRows",
                       op'[q] \in {"delete", "cleanUp"}, hold'[q] = {}
                PROVE  sel'[q] \cap ToksOf(rows') = {}
    BY DEF UnfoundAbsent
  <2>1. CASE q = p
    BY <1>1, <1>2, <2>1 DEF Of, ToksOf
  <2>2. CASE q # p
    BY <1>1, <1>3, <2>2 DEF UnfoundAbsent
  <2>. QED  BY <2>1, <2>2
<1>. QED  BY <1>1, <1>3, <1>4 DEF NothingCached, Created, DeadHaveNoRow

\* Ending rows ends every row the call was meant to end.
LEMMA EndRowsKeeps ==
  ASSUME DatabaseOnly, RevocationInv, NEW p \in Procs, EndRows(p)
  PROVE  NothingCached' /\ Created' /\ UnfoundAbsent' /\ DeadHaveNoRow'
<1>. USE DEF RevocationInv, TypeOK
<1>1. /\ pc[p] = "endRows" /\ rows' = rows \ Gone(p)
      /\ Finish(p) /\ dead' = dead \cup aim[p]
      /\ UNCHANGED <<next, cache>>
  BY DEF EndRows, Ended, DatabaseOnly, Cached
<1>2. sel[p] \cap ToksOf(rows') = {}
  <2>1. CASE op[p] \in {"delete", "cleanUp"} /\ hold[p] = {}
    BY <1>1, <2>1 DEF UnfoundAbsent, ToksOf
  <2>2. CASE ~(op[p] \in {"delete", "cleanUp"} /\ hold[p] = {})
    <3>1. Gone(p) = Of(rows, sel[p])
      BY <2>2 DEF Gone, Targets, DatabaseOnly
    <3>. QED  BY <1>1, <3>1 DEF Of, ToksOf
  <2>. QED  BY <2>1, <2>2
<1>3. ToksOf(rows') \subseteq ToksOf(rows)
  BY <1>1 DEF ToksOf
<1>4. dead' \subseteq Used /\ dead' \cap ToksOf(rows') = {}
  BY <1>1, <1>2, <1>3 DEF Created, DeadHaveNoRow
<1>. QED  BY <1>1, <1>3, <1>4, FinishKeeps DEF NothingCached

\* Every step over a database alone keeps the invariant.
LEMMA RevocationStep ==
  ASSUME SessionsAssumption, DatabaseOnly, RevocationInv, [Next]_vars, TypeOK'
  PROVE  RevocationInv'
<1>. USE DEF RevocationInv
<1>1. CASE UNCHANGED vars
  BY <1>1 DEF vars, NothingCached, Created, UnfoundAbsent, DeadHaveNoRow, Used, ToksOf
<1>2. CASE Tick
  BY <1>2 DEF Tick, local, history, NothingCached, Created, UnfoundAbsent, DeadHaveNoRow,
              Used, ToksOf
<1>3. ASSUME NEW p \in Procs, Begin(p) PROVE RevocationInv'
  <2>0. /\ Issued \subseteq Used /\ Used \subseteq Tokens
        /\ ~Cached /\ InDatabase
    <3>1. next \in 1 .. MaxSessions + 1 /\ MaxSessions \in Nat
      BY DEF TypeOK, SessionsAssumption
    <3>2. \A t \in Issued : t \in Tokens /\ t < next
      BY <3>1 DEF Issued, Tokens
    <3>. QED  BY <3>2 DEF Used, DatabaseOnly, Cached, InDatabase
  <2>1. CASE Create(p)
    BY <2>1, CreateKeeps
  <2>2. CASE Update(p)
    <3>1. PICK t \in Issued : Start(p, "update", {t})
      BY <2>2 DEF Update
    <3>2. aim' = [aim EXCEPT ![p] = {}]
      BY <2>2, <3>1 DEF Update, history, Start, TypeOK, Created
    <3>3. Goto(p, "updateRow") /\ UNCHANGED <<next, rows, cache, dead, hold>>
      BY <2>0, <2>2 DEF Update, store, history
    <3>4. {t} \in SUBSET Tokens /\ {t} \subseteq Used
      BY <2>0
    <3>. QED  BY <3>1, <3>2, <3>3, <3>4, StartKeeps
  <2>3. CASE Refresh(p)
    BY <2>0, <2>3 DEF Refresh
  <2>4. CASE Delete(p)
    <3>1. PICK t \in Issued : Start(p, "delete", {t}) /\ aim' = [aim EXCEPT ![p] = {t}]
      BY <2>4 DEF Delete
    <3>2. Goto(p, "findRows") /\ UNCHANGED <<next, rows, cache, dead, hold>>
      BY <2>0, <2>4 DEF Delete, store
    <3>3. {t} \in SUBSET Tokens /\ {t} \in SUBSET ({t} \cap Used)
      BY <2>0
    <3>. QED  BY <3>1, <3>2, <3>3, StartKeeps
  <2>5. CASE CleanUp(p)
    <3>1. PICK t \in Issued : Start(p, "cleanUp", {t})
      BY <2>5 DEF CleanUp
    <3>2. aim' = [aim EXCEPT ![p] = {}]
      BY <2>5, <3>1 DEF CleanUp, history, Start, TypeOK, Created
    <3>3. Goto(p, "findRows") /\ UNCHANGED <<next, rows, cache, dead, hold>>
      BY <2>0, <2>5 DEF CleanUp, store, history
    <3>4. {t} \in SUBSET Tokens /\ {t} \subseteq Used
      BY <2>0
    <3>. QED  BY <3>1, <3>2, <3>3, <3>4, StartKeeps
  <2>6. CASE DeleteMany(p)
    <3>1. PICK T \in SUBSET Issued \ {{}} :
            /\ Start(p, "deleteMany", T) /\ aim' = [aim EXCEPT ![p] = T]
            /\ hold' = [hold EXCEPT ![p] = {[tok |-> t, exp |-> 1] : t \in T}]
      BY <2>6 DEF DeleteMany
    <3>2. Goto(p, "findRows") /\ UNCHANGED <<next, rows, cache, dead>>
      BY <2>0, <2>6 DEF DeleteMany, store
    <3>3. T \in SUBSET Tokens /\ T \in SUBSET (T \cap Used)
      BY <2>0
    <3>4. \A q \in Procs : q # p => hold'[q] = hold[q]
      BY <3>1 DEF TypeOK
    <3>. QED  BY <3>1, <3>2, <3>3, <3>4, StartKeeps
  <2>7. CASE RevokeAll(p)
    <3>. DEFINE A == {t \in Tokens : due[t] > 0 /\ Alive(t)}
    <3>1. Start(p, "revokeAll", Tokens) /\ aim' = [aim EXCEPT ![p] = A]
      BY <2>7 DEF RevokeAll
    <3>2. Goto(p, "findRows") /\ UNCHANGED <<next, rows, cache, dead>>
      BY <2>0, <2>7 DEF RevokeAll, store
    <3>3. A \in SUBSET (Tokens \cap Used)
      BY <2>0 DEF Alive, NothingCached, Created, ToksOf
    <3>4. \A q \in Procs : q # p => hold'[q] = hold[q]
      BY <2>7 DEF RevokeAll, TypeOK
    <3>5. Tokens \in SUBSET Tokens
      OBVIOUS
    <3>. HIDE DEF A
    <3>. QED  BY <3>1, <3>2, <3>3, <3>4, <3>5, StartKeeps
  <2>. QED  BY <1>3, <2>1, <2>2, <2>3, <2>4, <2>5, <2>6, <2>7 DEF Begin
<1>4. ASSUME NEW p \in Procs, Step(p) PROVE RevocationInv'
  <2>1. \/ UpdateRow(p) \/ FindRows(p) \/ EndRows(p)
    BY <1>4 DEF Step, NothingCached, ListForCreate, AddToList, AddToken, GetToken, SetToken,
                Relist, SetRelist, Scan, WriteBack, Refreshed, Unlist, ReadList, SetList,
                DropToken, DropSome, DroppedSome, DropOne, RereadList, TrimList
  <2>2. CASE UpdateRow(p)
    <3>1. ToksOf(rows') = ToksOf(rows)
      <4>1. CASE rows' = rows
        BY <4>1 DEF ToksOf
      <4>2. CASE rows' = UpdatedRows(p)
        <5>. DEFINE New(r) == IF r.tok \in sel[p] THEN [r EXCEPT !.exp = time[p]] ELSE r
        <5>1. \A r \in rows : New(r).tok = r.tok
          BY RenewedIsSession DEF TypeOK
        <5>2. rows' = {New(r) : r \in rows}
          BY <4>2 DEF UpdatedRows
        <5>. HIDE DEF New
        <5>. QED  BY <5>1, <5>2 DEF ToksOf
      <4>. QED  BY <2>2, <4>1, <4>2 DEF UpdateRow
    <3>. QED
      BY <2>2, <3>1, FinishKeeps DEF UpdateRow, NothingCached, Created, DeadHaveNoRow
  <2>3. CASE FindRows(p)
    BY <2>3, FindRowsKeeps
  <2>4. CASE EndRows(p)
    BY <2>4, EndRowsKeeps
  <2>. QED  BY <2>1, <2>2, <2>3, <2>4
<1>5. ASSUME NEW p \in Procs, Fault(p) PROVE RevocationInv'
  <2>1. Finish(p) /\ UNCHANGED <<next, rows, cache, dead>>
    BY <1>5 DEF Fault, DatabaseOnly, MirrorLost, FindRowsLost, RevokeLost, Vetoed, Throw, store
  <2>2. ToksOf(rows') = ToksOf(rows)
    BY <2>1 DEF ToksOf
  <2>. QED  BY <2>1, <2>2, FinishKeeps DEF NothingCached, Created, DeadHaveNoRow
<1>. QED  BY <1>1, <1>2, <1>3, <1>4, <1>5 DEF Next

\* Over a database alone, for any number of concurrent calls that may throw or
\* be vetoed anywhere, a session whose revocation succeeded is dead for good:
\* no update in flight brings its row back.
THEOREM RevokedStaysDeadCorrect ==
  SessionsAssumption /\ DatabaseOnly => (Spec => []RevokedStaysDead)
<1>. SUFFICES ASSUME SessionsAssumption, DatabaseOnly PROVE Spec => []RevokedStaysDead
  OBVIOUS
<1>1. Init => RevocationInv
  <2>1. Init => TypeOK
    BY DEF Init, TypeOK, SessionsAssumption, Labels, Tokens, Session
  <2>. QED
    BY <2>1 DEF Init, RevocationInv, NothingCached, Created, UnfoundAbsent, DeadHaveNoRow, ToksOf
<1>2. Spec => []TypeOK
  BY TypeCorrect
<1>3. RevocationInv /\ TypeOK' /\ [Next]_vars => RevocationInv'
  BY RevocationStep
<1>4. RevocationInv => RevokedStaysDead
  BY DEF RevocationInv, NothingCached, DeadHaveNoRow, RevokedStaysDead, Alive, ToksOf
<1>. QED  BY <1>1, <1>2, <1>3, <1>4, PTL DEF Spec

-----------------------------------------------------------------------------
(* Over a database alone nobody is signed out by the calls of others.      *)

\* The database is the only store, and no expired session is cleaned up: a
\* clean-up that began before a refresh came through ends what was refreshed.
NothingCleanedUp == Mode = "database" /\ "cleanUp" \notin Ops

\* What callers were told is what the rows say.
Promised == \A t \in Tokens : due[t] # 0 => [tok |-> t, exp |-> due[t]] \in rows

\* Nobody relies any more on what a call is about to end.
Withdrawn ==
  \A p \in Procs :
    /\ op[p] # "cleanUp"
    /\ op[p] # "revokeAll" => sel[p] \subseteq Used
    /\ pc[p] \in {"findRows", "endRows"} /\ op[p] # "revokeAll" => \A t \in sel[p] : due[t] = 0

PromiseInv == TypeOK /\ NothingCached /\ ToksOf(rows) \subseteq Used /\ Promised /\ Withdrawn

\* A call that ends, or that goes on with what it has, keeps what was withdrawn.
LEMMA StaysWithdrawn ==
  ASSUME PromiseInv, NEW p \in Procs, next' = next,
         \/ Finish(p)
         \/ pc[p] = "findRows" /\ Goto(p, "endRows") /\ UNCHANGED <<op, sel>>,
         cache' = {},
         \A t \in Tokens : due[t] = 0 => due'[t] = 0
  PROVE  NothingCached' /\ Withdrawn'
<1>. USE DEF PromiseInv, TypeOK
<1>1. \A t \in Used : t \in Used'
  BY DEF Used, Tokens
<1>2. NothingCached'
  BY DEF NothingCached, Finish, Goto
<1>3. ASSUME NEW q \in Procs
      PROVE  /\ op'[q] # "cleanUp"
             /\ op'[q] # "revokeAll" => sel'[q] \subseteq Used'
             /\ pc'[q] \in {"findRows", "endRows"} /\ op'[q] # "revokeAll" =>
                  \A t \in sel'[q] : due'[t] = 0
  <2>1. CASE q = p /\ Finish(p)
    BY <2>1 DEF Finish, Goto
  <2>2. CASE q # p \/ ~Finish(p)
    <3>1. /\ op'[q] = op[q] /\ sel'[q] = sel[q]
          /\ pc'[q] \in {"findRows", "endRows"} => pc[q] \in {"findRows", "endRows"}
      BY <2>2 DEF Finish, Goto
    <3>2. /\ op[q] # "cleanUp"
          /\ op[q] # "revokeAll" => sel[q] \subseteq Used
          /\ pc[q] \in {"findRows", "endRows"} /\ op[q] # "revokeAll" => \A t \in sel[q] : due[t] = 0
      BY DEF Withdrawn
    <3>. QED  BY <1>1, <3>1, <3>2
  <2>. QED  BY <2>1, <2>2
<1>. QED  BY <1>2, <1>3 DEF Withdrawn

\* A call that starts withdraws first what it is to end.
LEMMA StartWithdraws ==
  ASSUME PromiseInv, NEW p \in Procs, NEW o, o # "cleanUp", NEW T \in SUBSET Tokens, Start(p, o, T),
         o # "revokeAll" => T \subseteq Used,
         NEW l \in {"findRows", "updateRow"}, Goto(p, l), UNCHANGED <<next, rows, cache>>,
         (due' = due /\ l = "updateRow") \/ Forget(T), TypeOK'
  PROVE  PromiseInv'
<1>. USE DEF PromiseInv, TypeOK
<1>0. /\ pc' = [pc EXCEPT ![p] = l] /\ op' = [op EXCEPT ![p] = o]
      /\ sel' = [sel EXCEPT ![p] = T]
  BY DEF Start, Goto
<1>1. Used' = Used /\ ToksOf(rows') = ToksOf(rows)
  BY DEF Used, ToksOf
<1>2. NothingCached'
  BY <1>0 DEF NothingCached
<1>3. /\ \A t \in Tokens : due'[t] \in {0, due[t]}
      /\ l = "findRows" => \A t \in T : due'[t] = 0
  BY DEF Forget
<1>4. Promised'
  BY <1>3 DEF Promised
<1>5. ASSUME NEW q \in Procs
      PROVE  /\ op'[q] # "cleanUp"
             /\ op'[q] # "revokeAll" => sel'[q] \subseteq Used
             /\ pc'[q] \in {"findRows", "endRows"} /\ op'[q] # "revokeAll" =>
                  \A t \in sel'[q] : due'[t] = 0
  <2>1. CASE q = p
    BY <1>0, <1>3, <2>1
  <2>2. CASE q # p
    <3>1. /\ op[q] # "cleanUp"
          /\ op[q] # "revokeAll" => sel[q] \subseteq Used
          /\ pc[q] \in {"findRows", "endRows"} /\ op[q] # "revokeAll" => \A t \in sel[q] : due[t] = 0
      BY DEF Withdrawn
    <3>2. sel[q] \subseteq Tokens
      OBVIOUS
    <3>. QED  BY <1>0, <1>3, <2>2, <3>1, <3>2
  <2>. QED  BY <2>1, <2>2
<1>6. Withdrawn'
  BY <1>1, <1>5 DEF Withdrawn
<1>. QED  BY <1>1, <1>2, <1>4, <1>6

\* A new session has a token that no call names.
LEMMA CreatePromises ==
  ASSUME SessionsAssumption, NothingCleanedUp, PromiseInv, NEW p \in Procs, Create(p)
  PROVE  NothingCached' /\ ToksOf(rows') \subseteq Used' /\ Promised' /\ Withdrawn'
<1>. USE DEF PromiseInv, TypeOK
<1>1. PICK s : /\ s.tok = next /\ s = [tok |-> next, exp |-> s.exp]
               /\ rows' = rows \cup {s} /\ due' = [due EXCEPT ![next] = s.exp]
               /\ UNCHANGED <<pc, op, sel>>
  <2>1. PICK l \in Lifetimes :
          /\ rows' = rows \cup {[tok |-> next, exp |-> now + l]}
          /\ due' = [due EXCEPT ![next] = [tok |-> next, exp |-> now + l].exp]
          /\ UNCHANGED <<pc, op, sel, hold>>
    BY DEF Create, NothingCleanedUp, InDatabase, Cached
  <2>2. PICK s : s = [tok |-> next, exp |-> now + l]
    OBVIOUS
  <2>3. s.tok = next /\ s = [tok |-> next, exp |-> s.exp]
    BY <2>2
  <2>. QED  BY <2>1, <2>2, <2>3
<1>2. next \in Tokens /\ next' = next + 1 /\ cache' = cache
  BY DEF Create, SessionsAssumption, Tokens
<1>3. Used' = Used \cup {next} /\ next \notin Used
  BY <1>2 DEF Used, Tokens, SessionsAssumption
<1>4. ToksOf(rows') = ToksOf(rows) \cup {next}
  BY <1>1 DEF ToksOf
<1>5. Promised'
  BY <1>1, <1>2 DEF Promised
<1>6. ASSUME NEW q \in Procs
      PROVE  /\ op'[q] # "cleanUp"
             /\ op'[q] # "revokeAll" => sel'[q] \subseteq Used'
             /\ pc'[q] \in {"findRows", "endRows"} /\ op'[q] # "revokeAll" =>
                  \A t \in sel'[q] : due'[t] = 0
  <2>1. /\ op[q] # "cleanUp"
        /\ op[q] # "revokeAll" => sel[q] \subseteq Used
        /\ pc[q] \in {"findRows", "endRows"} /\ op[q] # "revokeAll" => \A t \in sel[q] : due[t] = 0
    BY DEF Withdrawn
  <2>. QED  BY <1>1, <1>2, <1>3, <2>1
<1>. QED  BY <1>1, <1>2, <1>3, <1>4, <1>5, <1>6 DEF NothingCached, Withdrawn

\* The row and the promise are written together.
LEMMA UpdatePromises ==
  ASSUME NothingCleanedUp, PromiseInv, NEW p \in Procs, UpdateRow(p)
  PROVE  NothingCached' /\ ToksOf(rows') \subseteq Used' /\ Promised' /\ Withdrawn'
<1>. USE DEF PromiseInv, TypeOK
<1>1. /\ rows' = IF time[p] = 0 THEN rows ELSE UpdatedRows(p)
      /\ due' = [t \in Tokens |->
           IF /\ time[p] # 0 /\ t \in sel[p] /\ due[t] # 0
              /\ t \in ToksOf(rows)
           THEN time[p] ELSE due[t]]
      /\ Finish(p) /\ next' = next /\ cache' = cache
  BY DEF UpdateRow, NothingCleanedUp, InDatabase
<1>. DEFINE New(r) == IF r.tok \in sel[p] THEN [r EXCEPT !.exp = time[p]] ELSE r
<1>2. ASSUME NEW r \in rows
      PROVE  /\ New(r).tok = r.tok
             /\ r.tok \in sel[p] => New(r) = [tok |-> r.tok, exp |-> time[p]]
  BY RenewedIsSession DEF Session
<1>3. UpdatedRows(p) = {New(r) : r \in rows}
  BY DEF UpdatedRows
<1>. HIDE DEF New
<1>4. ToksOf(rows') = ToksOf(rows) /\ Used' = Used
  BY <1>1, <1>2, <1>3 DEF ToksOf, Used
<1>5. ASSUME NEW t \in Tokens, due'[t] # 0
      PROVE  [tok |-> t, exp |-> due'[t]] \in rows'
  <2>1. due[t] # 0
    BY <1>1, <1>5
  <2>2. PICK r \in rows : r = [tok |-> t, exp |-> due[t]]
    BY <2>1 DEF Promised
  <2>3. r.tok = t /\ t \in ToksOf(rows)
    BY <2>2 DEF ToksOf
  <2>4. CASE time[p] = 0
    BY <1>1, <2>2, <2>4
  <2>5. CASE time[p] # 0 /\ t \in sel[p]
    <3>1. due'[t] = time[p] /\ New(r) = [tok |-> t, exp |-> time[p]]
      BY <1>1, <1>2, <2>1, <2>3, <2>5
    <3>. QED  BY <1>1, <1>3, <2>5, <3>1
  <2>6. CASE time[p] # 0 /\ t \notin sel[p]
    <3>1. due'[t] = due[t] /\ New(r) = r
      BY <1>1, <2>3, <2>6 DEF New
    <3>. QED  BY <1>1, <1>3, <2>2, <2>6, <3>1
  <2>. QED  BY <2>4, <2>5, <2>6
<1>6. \A t \in Tokens : due[t] = 0 => due'[t] = 0
  BY <1>1
<1>7. NothingCached' /\ Withdrawn'
  BY <1>1, <1>6, StaysWithdrawn DEF NothingCached
<1>. QED  BY <1>4, <1>5, <1>7 DEF Promised

\* Of the rows that go nobody was promised any more, or nobody is from now on.
LEMMA EndPromises ==
  ASSUME NothingCleanedUp, PromiseInv, NEW p \in Procs, EndRows(p)
  PROVE  NothingCached' /\ ToksOf(rows') \subseteq Used' /\ Promised' /\ Withdrawn'
<1>. USE DEF PromiseInv, TypeOK
<1>1. /\ pc[p] = "endRows" /\ rows' = rows \ Gone(p) /\ Finish(p) /\ next' = next /\ cache' = cache
      /\ IF op[p] = "revokeAll" THEN Forget(ToksOf(Gone(p))) ELSE due' = due
  BY DEF EndRows, Ended, NothingCleanedUp, Cached
<1>2. \A t \in Tokens : due'[t] \in {0, due[t]}
  BY <1>1 DEF Forget
<1>3. ASSUME NEW t \in Tokens, due'[t] # 0
      PROVE  [tok |-> t, exp |-> due'[t]] \in rows'
  <2>1. due'[t] = due[t] /\ due[t] # 0
    BY <1>2, <1>3
  <2>2. PICK r \in rows : r = [tok |-> t, exp |-> due[t]]
    BY <2>1 DEF Promised
  <2>3. r \notin Gone(p)
    <3>1. CASE op[p] = "revokeAll"
      <4>1. t \notin ToksOf(Gone(p))
        BY <1>1, <1>3, <3>1 DEF Forget
      <4>. QED  BY <2>2, <4>1 DEF ToksOf
    <3>2. CASE op[p] # "revokeAll"
      <4>1. t \notin sel[p]
        BY <1>1, <2>1, <3>2 DEF Withdrawn
      <4>. QED  BY <2>2, <4>1 DEF Gone, Targets, Of
    <3>. QED  BY <3>1, <3>2
  <2>. QED  BY <1>1, <2>1, <2>2, <2>3
<1>4. ToksOf(rows') \subseteq Used'
  BY <1>1 DEF ToksOf, Used
<1>5. NothingCached' /\ Withdrawn'
  BY <1>1, <1>2, StaysWithdrawn DEF NothingCached
<1>. QED  BY <1>3, <1>4, <1>5 DEF Promised

\* Every step keeps the promises.
LEMMA PromiseStep ==
  ASSUME SessionsAssumption, NothingCleanedUp, PromiseInv, [Next]_vars, TypeOK'
  PROVE  PromiseInv'
<1>1. CASE UNCHANGED vars \/ Tick
  <2>1. UNCHANGED <<next, rows, pc, op, sel, due>> /\ cache' \subseteq cache
    BY <1>1 DEF vars, Tick, local, history
  <2>. QED  BY <2>1 DEF PromiseInv, NothingCached, Used, ToksOf, Promised, Withdrawn
<1>2. ASSUME NEW p \in Procs, Begin(p) PROVE PromiseInv'
  <2>0. /\ Issued \subseteq Used /\ Used \subseteq Tokens
        /\ ~Cached /\ InDatabase
    <3>1. next \in 1 .. MaxSessions + 1 /\ MaxSessions \in Nat
      BY DEF PromiseInv, TypeOK, SessionsAssumption
    <3>2. \A t \in Issued : t \in Tokens /\ t < next
      BY <3>1 DEF Issued, Tokens
    <3>. QED  BY <3>2 DEF Used, NothingCleanedUp, Cached, InDatabase
  <2>1. CASE Create(p)
    BY <2>1, CreatePromises DEF PromiseInv
  <2>2. CASE Update(p)
    <3>1. PICK t \in Issued : Start(p, "update", {t})
      BY <2>2 DEF Update
    <3>2. Goto(p, "updateRow") /\ UNCHANGED <<next, rows, cache, due>>
      BY <2>0, <2>2 DEF Update, store, history
    <3>3. {t} \in SUBSET Tokens /\ {t} \subseteq Used
      BY <2>0
    <3>. QED  BY <3>1, <3>2, <3>3, StartWithdraws
  <2>3. CASE Refresh(p) \/ CleanUp(p)
    BY <2>0, <2>3 DEF Refresh, CleanUp, Start, NothingCleanedUp
  <2>4. CASE Delete(p)
    <3>1. PICK t \in Issued : Start(p, "delete", {t}) /\ Forget({t})
      BY <2>4 DEF Delete
    <3>2. Goto(p, "findRows") /\ UNCHANGED <<next, rows, cache>>
      BY <2>0, <2>4 DEF Delete, store
    <3>3. {t} \in SUBSET Tokens /\ {t} \subseteq Used
      BY <2>0
    <3>. QED  BY <3>1, <3>2, <3>3, StartWithdraws
  <2>5. CASE DeleteMany(p)
    <3>1. PICK T \in SUBSET Issued \ {{}} : Start(p, "deleteMany", T) /\ Forget(T)
      BY <2>5 DEF DeleteMany
    <3>2. Goto(p, "findRows") /\ UNCHANGED <<next, rows, cache>>
      BY <2>0, <2>5 DEF DeleteMany, store
    <3>3. T \in SUBSET Tokens /\ T \subseteq Used
      BY <2>0
    <3>. QED  BY <3>1, <3>2, <3>3, StartWithdraws
  <2>6. CASE RevokeAll(p)
    <3>1. Start(p, "revokeAll", Tokens) /\ Forget(Tokens)
      BY <2>6 DEF RevokeAll
    <3>2. Goto(p, "findRows") /\ UNCHANGED <<next, rows, cache>>
      BY <2>0, <2>6 DEF RevokeAll, store
    <3>3. Tokens \in SUBSET Tokens
      OBVIOUS
    <3>. QED  BY <3>1, <3>2, <3>3, StartWithdraws
  <2>. QED  BY <1>2, <2>1, <2>2, <2>3, <2>4, <2>5, <2>6 DEF Begin
<1>3. ASSUME NEW p \in Procs, Step(p) \/ Fault(p) PROVE PromiseInv'
  <2>0. /\ cache' = cache => cache' = {}
        /\ pc[p] \in {"idle", "updateRow", "findRows", "endRows"}
    BY DEF PromiseInv, NothingCached
  <2>1. \/ UpdateRow(p) \/ EndRows(p) \/ FindRows(p) \/ FindRowsLost(p) \/ Vetoed(p) \/ Throw(p)
    BY <1>3, <2>0 DEF Step, Fault, ListForCreate, AddToList, AddToken, GetToken, SetToken,
       Relist, SetRelist, Scan, WriteBack, Refreshed, Unlist, ReadList, SetList, DropToken,
       DropSome, DroppedSome, DropOne, RereadList, TrimList, MirrorLost, RevokeLost
  <2>2. CASE UpdateRow(p)
    BY <2>2, UpdatePromises DEF PromiseInv
  <2>3. CASE EndRows(p)
    BY <2>3, EndPromises DEF PromiseInv
  <2>4. CASE FindRows(p) \/ FindRowsLost(p) \/ Vetoed(p) \/ Throw(p)
    <3>1. /\ UNCHANGED <<next, rows, cache, due>>
          /\ \/ Finish(p)
             \/ pc[p] = "findRows" /\ Goto(p, "endRows") /\ UNCHANGED <<op, sel>>
      BY <2>4 DEF FindRows, FindRowsLost, Vetoed, Throw, store, history
    <3>2. NothingCached' /\ Withdrawn'
      BY <2>0, <3>1, StaysWithdrawn
    <3>. QED  BY <3>1, <3>2 DEF PromiseInv, Used, ToksOf, Promised
  <2>. QED  BY <2>1, <2>2, <2>3, <2>4
<1>. QED  BY <1>1, <1>2, <1>3 DEF Next

\* Over a database alone, for any number of calls and whatever fails, a session that
\* no call was meant to end can be found until the expiry its owner was told: no
\* refresh that comes late, and no delete of other sessions, takes it away.
THEOREM LiveUntilRevokedCorrect ==
  SessionsAssumption /\ NothingCleanedUp => (Spec => []LiveUntilRevoked)
<1>. SUFFICES ASSUME SessionsAssumption, NothingCleanedUp PROVE Spec => []LiveUntilRevoked
  OBVIOUS
<1>1. Init => PromiseInv
  <2>1. Init => TypeOK
    BY DEF Init, TypeOK, SessionsAssumption, Labels, Tokens, Session
  <2>. QED  BY <2>1 DEF Init, PromiseInv, NothingCached, ToksOf, Promised, Withdrawn
<1>2. Spec => []TypeOK
  BY TypeCorrect
<1>3. PromiseInv /\ TypeOK' /\ [Next]_vars => PromiseInv'
  BY PromiseStep
<1>4. PromiseInv => LiveUntilRevoked
  <2>. SUFFICES ASSUME PromiseInv, NEW t \in Tokens, due[t] > now
                PROVE  \E s \in Lookup(t) : s.exp > now
    BY DEF LiveUntilRevoked
  <2>1. due[t] # 0
    BY DEF PromiseInv, TypeOK
  <2>2. PICK r \in rows : r = [tok |-> t, exp |-> due[t]]
    BY <2>1 DEF PromiseInv, Promised
  <2>3. r.tok = t /\ r.exp > now
    BY <2>2
  <2>4. Lookup(t) = Of(rows, {t})
    BY DEF Lookup, NothingCleanedUp, Cached
  <2>. QED  BY <2>3, <2>4 DEF Of
<1>. QED  BY <1>1, <1>2, <1>3, <1>4, PTL DEF Spec

-----------------------------------------------------------------------------
(* Whatever the stores, sign-outs are final while sessions are only        *)
(* created and ended: a mirror that is under way brings none back.         *)

SignInsAndOuts ==
  Ops \subseteq {"create", "delete", "deleteMany", "cleanUp"} /\ "swallow" \notin Faults

Mirroring == {"listing", "addToList", "addToken"}
Dropping == {"unlist", "readList", "setList", "dropToken", "dropSome", "findRows", "endRows"}

\* What is nowhere used stays empty.
Unused == (~Cached => cache = {}) /\ (~InDatabase => rows = {})

\* Calls that create sessions hold what callers do not have yet, and calls that end
\* sessions name what callers have.
Apart(p) ==
  /\ pc[p] \in {"idle"} \cup Mirroring \cup Dropping
  /\ pc[p] \in Mirroring <=> op[p] = "create"
  /\ op[p] = "create" => Cached
  /\ op[p] # "revokeAll"
  /\ sel[p] \subseteq Issued /\ aim[p] \subseteq sel[p]
  /\ pc[p] = "idle" => aim[p] = {}

\* How far a call that ends sessions has come.
HalfEnded(p) ==
  /\ pc[p] \in {"findRows", "endRows"} => sel[p] \cap ToksOf(cache) = {}
  /\ pc[p] = "dropSome" => sel[p] \cap ToksOf(cache) \subseteq ToksOf(hold[p])
  /\ pc[p] = "endRows" =>
       /\ time[p] <= now
       /\ op[p] \in {"delete", "cleanUp"} /\ Mode # "preserve" /\ hold[p] = {} =>
            sel[p] \cap ToksOf(rows) = {}

\* A session that has ended has no entry, and no row that is live.
Over(t) == t \in Issued /\ t \notin ToksOf(cache) /\ \A r \in rows : r.tok = t => r.exp <= now

FinalInv ==
  /\ TypeOK /\ Unused
  /\ \A p \in Procs : Apart(p) /\ HalfEnded(p)
  /\ \A t \in dead : Over(t)

\* The steps there are, where sessions are only created and ended.
EndStep(p) ==
  \/ Create(p) \/ ListForCreate(p) \/ AddToList(p) \/ AddToken(p)
  \/ Delete(p) \/ CleanUp(p) \/ DeleteMany(p)
  \/ Unlist(p) \/ ReadList(p) \/ SetList(p) \/ DropToken(p) \/ DropSome(p) \/ DroppedSome(p)
  \/ FindRows(p) \/ EndRows(p) \/ Vetoed(p) \/ Throw(p)

LEMMA OnlyEndSteps ==
  ASSUME SignInsAndOuts, FinalInv, NEW p \in Procs, Begin(p) \/ Step(p) \/ Fault(p)
  PROVE  EndStep(p)
<1>1. pc[p] \in {"idle"} \cup Mirroring \cup Dropping
  BY DEF FinalInv, Apart
<1>2. CASE Begin(p)
  BY <1>2 DEF Begin, EndStep, Update, Refresh, RevokeAll, Start, SignInsAndOuts
<1>3. CASE Step(p)
  BY <1>1, <1>3 DEF Step, EndStep, Mirroring, Dropping, GetToken, SetToken, Relist, SetRelist, UpdateRow, Scan, WriteBack,
     Refreshed, DropOne, RereadList, TrimList
<1>4. CASE Fault(p)
  BY <1>4 DEF Fault, EndStep, MirrorLost, FindRowsLost, RevokeLost, SignInsAndOuts
<1>. QED  BY <1>2, <1>3, <1>4

\* Only its own step changes what a call holds.
LEMMA OthersHold ==
  ASSUME TypeOK, NEW p \in Procs, EndStep(p)
  PROVE  \A q \in Procs \ {p} : /\ pc'[q] = pc[q] /\ op'[q] = op[q] /\ sel'[q] = sel[q]
                                /\ time'[q] = time[q] /\ hold'[q] = hold[q] /\ aim'[q] = aim[q]
<1>. USE DEF TypeOK
<1>1. CASE Create(p)
  <2>1. /\ UNCHANGED <<time, aim>>
        /\ \/ UNCHANGED <<pc, op, sel, hold>>
           \/ /\ Start(p, "create", {}) /\ Goto(p, "listing")
              /\ \E s : hold' = [hold EXCEPT ![p] = {s}]
    BY <1>1 DEF Create
  <2>. QED  BY <2>1 DEF Start, Goto
<1>2. CASE ListForCreate(p) \/ AddToList(p) \/ AddToken(p) \/ Vetoed(p) \/ Throw(p)
  BY <1>2 DEF ListForCreate, AddToList, AddToken, Vetoed, Throw, Finish, Goto, local, history
<1>3. CASE Delete(p) \/ CleanUp(p) \/ DeleteMany(p)
  BY <1>3 DEF Delete, CleanUp, DeleteMany, Start, Goto, history
<1>4. CASE Unlist(p) \/ ReadList(p) \/ SetList(p) \/ DropToken(p) \/ DropSome(p) \/ DroppedSome(p)
  <2>1. \/ Finish(p)
        \/ /\ UNCHANGED <<op, sel, time, aim>> /\ (UNCHANGED pc \/ \E l : Goto(p, l))
           /\ UNCHANGED hold \/ \E S : hold' = [hold EXCEPT ![p] = S]
    BY <1>4 DEF Unlist, ReadList, SetList, DropToken, DropSome, DroppedSome, Ended, local, history
  <2>. QED  BY <2>1 DEF Finish, Goto
<1>5. CASE FindRows(p)
  BY <1>5 DEF FindRows, Goto, history
<1>6. CASE EndRows(p)
  <2>1. \/ Finish(p)
        \/ /\ hold' = [hold EXCEPT ![p] = got[p]] /\ Goto(p, "dropTokens")
           /\ UNCHANGED <<op, sel, time, aim>>
    BY <1>6 DEF EndRows, Ended
  <2>. QED  BY <2>1 DEF Finish, Goto
<1>. QED  BY <1>1, <1>2, <1>3, <1>4, <1>5, <1>6 DEF EndStep

\* Nothing that callers have comes back to a store.
LEMMA NothingReturns ==
  ASSUME SessionsAssumption, FinalInv, NEW p \in Procs, EndStep(p)
  PROVE  /\ now' = now /\ Issued \subseteq Issued'
         /\ ToksOf(cache') \cap Issued \subseteq ToksOf(cache)
         /\ \A r \in rows' : r.tok \in Issued =>
              r \in rows \/ (r.exp <= now /\ r.tok \in ToksOf(rows))
<1>. USE DEF FinalInv, TypeOK
<1>1. /\ Apart(p) /\ next \in Nat
      /\ \A t \in Issued : t \in Nat /\ t < next
      /\ \A t \in Issued : \A q \in Procs : op[q] = "create" => t \notin ToksOf(hold[q])
  BY DEF Issued, SessionsAssumption
<1>2. CASE Create(p)
  <2>1. PICK s : /\ s.tok = next /\ rows' \subseteq rows \cup {s}
                 /\ \/ UNCHANGED <<op, hold>>
                    \/ op' = [op EXCEPT ![p] = "create"] /\ hold' = [hold EXCEPT ![p] = {s}]
    <3>1. PICK l \in Lifetimes :
            /\ rows' \subseteq rows \cup {[tok |-> next, exp |-> now + l]}
            /\ \/ UNCHANGED <<op, hold>>
               \/ /\ Start(p, "create", {})
                  /\ hold' = [hold EXCEPT ![p] = {[tok |-> next, exp |-> now + l]}]
      BY <1>2 DEF Create
    <3>2. PICK s : s = [tok |-> next, exp |-> now + l]
      OBVIOUS
    <3>. QED  BY <3>1, <3>2 DEF Start
  <2>2. next' = next + 1 /\ now' = now /\ cache' = cache
    BY <1>2 DEF Create
  <2>3. ASSUME NEW t \in Issued PROVE t \in Issued'
    <3>1. \A q \in Procs : op'[q] = "create" => t \notin ToksOf(hold'[q])
      BY <1>1, <2>1 DEF ToksOf
    <3>2. t \in 1 .. next' - 1
      BY <1>1, <2>2 DEF Issued
    <3>. QED  BY <3>1, <3>2 DEF Issued
  <2>. QED  BY <1>1, <2>1, <2>2, <2>3
<1>3. ASSUME ~Create(p)
      PROVE  Issued \subseteq Issued'
  <2>1. next' = next
    BY <1>3 DEF EndStep, ListForCreate, AddToList, AddToken, Delete, CleanUp, DeleteMany, Unlist, ReadList,
       SetList, DropToken, DropSome, DroppedSome, FindRows, EndRows, Vetoed, Throw
  <2>2. op'[p] = "create" => op[p] = "create" /\ hold'[p] = hold[p]
    <3>1. CASE Delete(p) \/ CleanUp(p) \/ DeleteMany(p)
      BY <3>1 DEF Delete, CleanUp, DeleteMany, Start
    <3>2. CASE Finish(p)
      BY <3>2 DEF Finish
    <3>3. CASE AddToken(p) \/ Vetoed(p) \/ Throw(p)
      BY <3>2, <3>3 DEF AddToken, Vetoed, Throw
    <3>4. CASE ListForCreate(p) \/ AddToList(p)
      BY <3>4 DEF ListForCreate, AddToList, local
    <3>5. CASE /\ \/ Unlist(p) \/ ReadList(p) \/ SetList(p) \/ DropToken(p) \/ DropSome(p)
                  \/ DroppedSome(p) \/ FindRows(p) \/ EndRows(p)
               /\ ~Finish(p)
      <4>1. op[p] # "create"
        BY <1>1, <3>5 DEF Apart, Mirroring, Unlist, ReadList, SetList, DropToken, DropSome, DroppedSome,
           FindRows, EndRows
      <4>2. op' = op
        BY <3>5 DEF Unlist, ReadList, SetList, DropToken, DropSome, DroppedSome, FindRows, EndRows, Ended, local
      <4>. QED  BY <4>1, <4>2
    <3>. QED  BY <1>3, <3>1, <3>2, <3>3, <3>4, <3>5 DEF EndStep
  <2>3. \A q \in Procs \ {p} : op'[q] = op[q] /\ hold'[q] = hold[q]
    BY OthersHold
  <2>. QED  BY <2>1, <2>2, <2>3 DEF Issued
<1>4. CASE AddToken(p)
  <2>1. PICK s \in hold[p] : cache' = Put(cache, s)
    BY <1>4 DEF AddToken
  <2>2. s.tok \notin Issued
    BY <1>1, <1>4 DEF AddToken, Apart, Mirroring, ToksOf
  <2>3. ToksOf(cache') \cap Issued \subseteq ToksOf(cache)
    BY <2>1, <2>2 DEF Put, Without, ToksOf
  <2>. QED  BY <1>3, <1>4, <2>3 DEF AddToken, Create
<1>5. CASE EndRows(p)
  <2>. DEFINE g(r) == [r EXCEPT !.exp = now]
  <2>1. \A r \in rows : g(r).tok = r.tok /\ g(r).exp = now
    BY RenewedIsSession DEF Session
  <2>2. rows' \subseteq rows \cup {g(r) : r \in Gone(p)} /\ now' = now /\ cache' = cache
    BY <1>5 DEF EndRows
  <2>3. Gone(p) \subseteq rows
    BY DEF Gone, Targets, Of
  <2>. HIDE DEF g
  <2>4. \A r \in rows' : r \in rows \/ (r.exp <= now /\ r.tok \in ToksOf(rows))
    BY <2>1, <2>2, <2>3 DEF ToksOf
  <2>. QED  BY <1>3, <1>5, <2>2, <2>4 DEF EndRows, Create
<1>6. CASE \/ ListForCreate(p) \/ AddToList(p) \/ Delete(p) \/ CleanUp(p) \/ DeleteMany(p)
           \/ Unlist(p) \/ ReadList(p) \/ SetList(p) \/ DropToken(p) \/ DropSome(p)
           \/ DroppedSome(p) \/ FindRows(p) \/ Vetoed(p) \/ Throw(p)
  <2>1. now' = now /\ rows' = rows /\ cache' \subseteq cache
    BY <1>6 DEF ListForCreate, AddToList, Delete, CleanUp, DeleteMany, Unlist, ReadList, SetList,
       DropToken, DropSome, DroppedSome, FindRows, Vetoed, Throw, store, Without
  <2>. QED  BY <1>2, <1>3, <2>1 DEF ToksOf
<1>. QED  BY <1>2, <1>4, <1>5, <1>6 DEF EndStep

\* What a call has achieved, no other call undoes.
LEMMA OthersHalfEnded ==
  ASSUME SessionsAssumption, FinalInv, NEW p \in Procs, EndStep(p), NEW q \in Procs \ {p}
  PROVE  Apart(q)' /\ HalfEnded(q)'
<1>1. /\ pc'[q] = pc[q] /\ op'[q] = op[q] /\ sel'[q] = sel[q]
      /\ time'[q] = time[q] /\ hold'[q] = hold[q] /\ aim'[q] = aim[q]
  BY OthersHold DEF FinalInv
<1>2. /\ now' = now /\ Issued \subseteq Issued'
      /\ ToksOf(cache') \cap Issued \subseteq ToksOf(cache)
      /\ \A r \in rows' : r.tok \in Issued => r \in rows \/ r.tok \in ToksOf(rows)
  BY NothingReturns
<1>3. Apart(q) /\ HalfEnded(q)
  BY DEF FinalInv
<1>4. Apart(q)'
  BY <1>1, <1>2, <1>3 DEF Apart
<1>5. sel[q] \subseteq Issued
  BY <1>3 DEF Apart
<1>6. sel[q] \cap ToksOf(cache') \subseteq sel[q] \cap ToksOf(cache)
  BY <1>2, <1>5
<1>7. sel[q] \cap ToksOf(rows') \subseteq sel[q] \cap ToksOf(rows)
  BY <1>2, <1>5 DEF ToksOf
<1>8. HalfEnded(q)'
  BY <1>1, <1>2, <1>3, <1>6, <1>7 DEF HalfEnded, ToksOf
<1>. QED  BY <1>4, <1>8

\* A call that ends a step has nothing left to end.
LEMMA FinishHalfEnded ==
  ASSUME TypeOK, NEW p \in Procs, Finish(p)
  PROVE  Apart(p)' /\ HalfEnded(p)'
<1>1. /\ pc'[p] = "idle" /\ op'[p] = "none" /\ sel'[p] = {} /\ aim'[p] = {}
  BY DEF Finish, Goto, TypeOK
<1>2. Apart(p)'
  BY <1>1 DEF Apart, Mirroring
<1>3. HalfEnded(p)'
  BY <1>1 DEF HalfEnded
<1>. QED  BY <1>2, <1>3

\* A step of a call that creates a session.
LEMMA CreatingApart ==
  ASSUME SessionsAssumption, FinalInv, NEW p \in Procs,
         Create(p) \/ ListForCreate(p) \/ AddToList(p) \/ AddToken(p)
  PROVE  Apart(p)' /\ HalfEnded(p)' /\ Unused'
<1>. USE DEF FinalInv, TypeOK
<1>1. Apart(p) /\ HalfEnded(p) /\ Unused
  OBVIOUS
<1>2. Issued \subseteq Issued'
  BY NothingReturns DEF EndStep
<1>3. CASE Create(p)
  <2>1. CASE ~Cached
    <3>1. /\ UNCHANGED <<pc, op, sel, hold, aim, cache, now, time>>
          /\ InDatabase
      BY <1>3, <2>1 DEF Create, Cached, InDatabase
    <3>2. pc[p] = "idle" /\ pc'[p] = "idle"
      BY <1>3, <3>1 DEF Create
    <3>3. Apart(p)'
      BY <1>1, <1>2, <3>1 DEF Apart
    <3>4. HalfEnded(p)'
      BY <3>2 DEF HalfEnded
    <3>. QED  BY <1>1, <3>1, <3>3, <3>4 DEF Unused, Cached, InDatabase
  <2>2. CASE Cached
    <3>1. /\ Start(p, "create", {}) /\ Goto(p, "listing") /\ UNCHANGED <<aim, cache>>
          /\ pc[p] = "idle" /\ (~InDatabase => rows' = rows)
      BY <1>3, <2>2 DEF Create
    <3>2. /\ pc'[p] = "listing" /\ op'[p] = "create" /\ sel'[p] = {} /\ aim'[p] = {}
      BY <1>1, <3>1 DEF Start, Goto, Apart
    <3>3. Apart(p)'
      BY <2>2, <3>2 DEF Apart, Mirroring, Cached
    <3>4. HalfEnded(p)'
      BY <3>2 DEF HalfEnded
    <3>. QED  BY <1>1, <2>2, <3>1, <3>3, <3>4 DEF Unused, Cached, InDatabase
  <2>. QED  BY <2>1, <2>2
<1>4. CASE ListForCreate(p) \/ AddToList(p)
  <2>1. /\ UNCHANGED <<op, sel, aim, rows, cache>> /\ pc[p] \in Mirroring
        /\ Goto(p, "addToList") \/ Goto(p, "addToken")
    BY <1>4 DEF ListForCreate, AddToList, local, history, store, Mirroring
  <2>2. pc'[p] \in Mirroring
    BY <2>1 DEF Goto, Mirroring
  <2>3. Apart(p)'
    BY <1>1, <1>2, <2>1, <2>2 DEF Apart, Cached, Mirroring
  <2>4. HalfEnded(p)'
    BY <2>2 DEF HalfEnded, Mirroring
  <2>. QED  BY <1>1, <2>1, <2>3, <2>4 DEF Unused, Cached, InDatabase
<1>5. CASE AddToken(p)
  <2>1. Finish(p) /\ rows' = rows /\ Cached
    BY <1>1, <1>5 DEF AddToken, Apart, Mirroring
  <2>. QED  BY <1>1, <2>1, FinishHalfEnded DEF Unused, Cached, InDatabase
<1>. QED  BY <1>3, <1>4, <1>5

\* The start of a call that ends sessions.
LEMMA StartApart ==
  ASSUME SessionsAssumption, FinalInv, NEW p \in Procs, Delete(p) \/ CleanUp(p) \/ DeleteMany(p)
  PROVE  Apart(p)' /\ HalfEnded(p)' /\ Unused'
<1>. USE DEF FinalInv, TypeOK
<1>1. Apart(p) /\ HalfEnded(p) /\ Unused
  OBVIOUS
<1>2. Issued \subseteq Issued' /\ UNCHANGED <<rows, cache>>
  BY NothingReturns DEF EndStep, Delete, CleanUp, DeleteMany, store
<1>3. /\ pc[p] = "idle" /\ aim[p] = {}
      /\ \E T \in SUBSET Issued :
           /\ sel' = [sel EXCEPT ![p] = T]
           /\ UNCHANGED aim \/ aim' = [aim EXCEPT ![p] = T]
           /\ (Goto(p, "dropSome") /\ Cached) =>
                hold' = [hold EXCEPT ![p] = {[tok |-> t, exp |-> 1] : t \in T}]
      /\ \E o \in {"delete", "cleanUp", "deleteMany"} : op' = [op EXCEPT ![p] = o]
      /\ \/ Goto(p, "findRows") /\ ~Cached
         \/ Goto(p, "unlist")
         \/ Goto(p, "dropSome") /\ Cached
  <2>1. CASE Delete(p)
    <3>1. PICK t \in Issued : Start(p, "delete", {t}) /\ aim' = [aim EXCEPT ![p] = {t}]
      BY <2>1 DEF Delete
    <3>2. {t} \in SUBSET Issued /\ pc[p] = "idle" /\ aim[p] = {}
      BY <1>1, <3>1 DEF Start, Apart
    <3>3. (Goto(p, "findRows") /\ ~Cached) \/ Goto(p, "unlist")
      BY <2>1 DEF Delete
    <3>4. ~Goto(p, "dropSome")
      BY <3>3 DEF Goto
    <3>. QED  BY <3>1, <3>2, <3>3, <3>4 DEF Start
  <2>2. CASE CleanUp(p)
    <3>1. PICK t \in Issued : Start(p, "cleanUp", {t})
      BY <2>2 DEF CleanUp
    <3>2. {t} \in SUBSET Issued /\ pc[p] = "idle" /\ aim[p] = {} /\ aim' = aim
      BY <1>1, <2>2, <3>1 DEF Start, Apart, CleanUp, history
    <3>3. (Goto(p, "findRows") /\ ~Cached) \/ Goto(p, "unlist")
      BY <2>2 DEF CleanUp
    <3>4. ~Goto(p, "dropSome")
      BY <3>3 DEF Goto
    <3>. QED  BY <3>1, <3>2, <3>3, <3>4 DEF Start
  <2>3. CASE DeleteMany(p)
    BY <1>1, <2>3 DEF DeleteMany, Start, Goto, Apart
  <2>. QED  BY <2>1, <2>2, <2>3
<1>4. PICK T \in SUBSET Issued :
        /\ sel' = [sel EXCEPT ![p] = T]
        /\ UNCHANGED aim \/ aim' = [aim EXCEPT ![p] = T]
        /\ (Goto(p, "dropSome") /\ Cached) =>
             hold' = [hold EXCEPT ![p] = {[tok |-> t, exp |-> 1] : t \in T}]
  BY <1>3
<1>5. sel'[p] = T /\ aim'[p] \subseteq T
  BY <1>3, <1>4
<1>6. /\ op'[p] \in {"delete", "cleanUp", "deleteMany"}
      /\ pc'[p] \in {"findRows", "unlist", "dropSome"}
      /\ pc'[p] = "findRows" => ~Cached
  BY <1>3 DEF Goto
<1>7. Apart(p)'
  BY <1>2, <1>5, <1>6 DEF Apart, Dropping, Mirroring
<1>8. pc'[p] = "dropSome" => T \subseteq ToksOf(hold'[p])
  <2>. SUFFICES ASSUME pc'[p] = "dropSome"  PROVE T \subseteq ToksOf(hold'[p])
    OBVIOUS
  <2>1. Goto(p, "dropSome") /\ Cached
    BY <1>3 DEF Goto
  <2>2. hold'[p] = {[tok |-> t, exp |-> 1] : t \in T}
    BY <1>4, <2>1
  <2>3. ASSUME NEW t \in T PROVE t \in ToksOf(hold'[p])
    <3>. PICK s : s = [tok |-> t, exp |-> 1]
      OBVIOUS
    <3>1. s \in hold'[p] /\ s.tok = t
      BY <2>2
    <3>. QED  BY <3>1 DEF ToksOf
  <2>. QED  BY <2>3
<1>9. pc'[p] = "findRows" => ToksOf(cache') = {}
  BY <1>1, <1>2, <1>6 DEF Unused, ToksOf
<1>10. HalfEnded(p)'
  BY <1>5, <1>6, <1>8, <1>9 DEF HalfEnded
<1>. QED  BY <1>1, <1>2, <1>7, <1>10 DEF Unused, Cached, InDatabase

\* A step of a call that ends sessions, as long as it does not return.
LEMMA EndingApart ==
  ASSUME SessionsAssumption, FinalInv, NEW p \in Procs,
         \/ Unlist(p) \/ ReadList(p) \/ SetList(p) \/ DropToken(p) \/ DropSome(p)
         \/ DroppedSome(p) \/ FindRows(p),
         ~Finish(p)
  PROVE  Apart(p)' /\ HalfEnded(p)' /\ Unused'
<1>. USE DEF FinalInv, TypeOK
<1>1. Apart(p) /\ HalfEnded(p) /\ Unused
  OBVIOUS
<1>2. Issued \subseteq Issued'
  BY NothingReturns DEF EndStep
<1>3. /\ UNCHANGED <<op, sel, aim, rows, now>> /\ cache' \subseteq cache
      /\ pc[p] \in Dropping
  BY DEF Unlist, ReadList, SetList, DropToken, DropSome, DroppedSome, FindRows, Ended, local, history,
     store, Without, Dropping
<1>4. pc'[p] \in Dropping
  BY DEF Unlist, ReadList, SetList, DropToken, DropSome, DroppedSome, FindRows, Ended, Goto, Dropping,
     AfterReadList
<1>5. Apart(p)'
  BY <1>1, <1>2, <1>3, <1>4 DEF Apart, Dropping, Mirroring, Cached
<1>6. Unused'
  BY <1>1, <1>3 DEF Unused, Cached, InDatabase
<1>7. CASE Unlist(p) \/ ReadList(p) \/ SetList(p)
  <2>1. pc'[p] \in {"readList", "setList", "dropToken"}
    BY <1>7 DEF Unlist, ReadList, SetList, AfterReadList, Goto
  <2>2. HalfEnded(p)'
    BY <2>1 DEF HalfEnded
  <2>. QED  BY <1>5, <1>6, <2>2
<1>8. CASE DropToken(p)
  <2>1. pc'[p] = "findRows" /\ cache' = Without(cache, sel[p])
    BY <1>8 DEF DropToken, Ended, Goto
  <2>2. sel'[p] \cap ToksOf(cache') = {}
    BY <1>3, <2>1 DEF Without, ToksOf
  <2>3. HalfEnded(p)'
    BY <2>1, <2>2 DEF HalfEnded
  <2>. QED  BY <1>5, <1>6, <2>3
<1>9. CASE DropSome(p)
  <2>1. PICK s \in hold[p] : /\ cache' = Without(cache, {s.tok})
                             /\ hold' = [hold EXCEPT ![p] = @ \ {s}]
    BY <1>9 DEF DropSome
  <2>2. pc[p] = "dropSome" /\ pc'[p] = "dropSome"
    BY <1>9 DEF DropSome
  <2>3. sel[p] \cap ToksOf(cache) \subseteq ToksOf(hold[p])
    BY <1>1, <2>2 DEF HalfEnded
  <2>4. hold'[p] = hold[p] \ {s}
    BY <2>1
  <2>5. ASSUME NEW t \in sel[p], t \in ToksOf(cache')  PROVE t \in ToksOf(hold'[p])
    <3>1. t # s.tok /\ t \in ToksOf(cache)
      BY <2>1, <2>5 DEF Without, ToksOf
    <3>2. PICK r \in hold[p] : r.tok = t
      BY <2>3, <3>1 DEF ToksOf
    <3>. QED  BY <2>4, <3>1, <3>2 DEF ToksOf
  <2>6. HalfEnded(p)'
    BY <1>3, <2>2, <2>5 DEF HalfEnded
  <2>. QED  BY <1>5, <1>6, <2>6
<1>10. CASE DroppedSome(p)
  <2>1. pc[p] = "dropSome" /\ hold[p] = {} /\ pc'[p] = "findRows" /\ cache' = cache
    BY <1>10 DEF DroppedSome, Ended, Goto, store
  <2>2. sel'[p] \cap ToksOf(cache') = {}
    BY <1>1, <1>3, <2>1 DEF HalfEnded, ToksOf
  <2>3. HalfEnded(p)'
    BY <2>1, <2>2 DEF HalfEnded
  <2>. QED  BY <1>5, <1>6, <2>3
<1>11. CASE FindRows(p)
  <2>1. /\ pc[p] = "findRows" /\ pc'[p] = "endRows" /\ cache' = cache
        /\ time'[p] = now /\ hold'[p] = Targets(p, now)
    BY <1>11 DEF FindRows, Goto, store
  <2>2. sel'[p] \cap ToksOf(cache') = {}
    BY <1>1, <1>3, <2>1 DEF HalfEnded
  <2>3. Mode # "preserve" /\ hold'[p] = {} => sel'[p] \cap ToksOf(rows') = {}
    BY <1>3, <2>1 DEF Targets, Of, ToksOf
  <2>4. now \in Nat /\ time'[p] <= now'
    BY <1>3, <2>1
  <2>5. HalfEnded(p)'
    BY <2>1, <2>2, <2>3, <2>4 DEF HalfEnded
  <2>. QED  BY <1>5, <1>6, <2>5
<1>. QED  BY <1>7, <1>8, <1>9, <1>10, <1>11

\* What a call that succeeds was to end has neither entry nor live row.
LEMMA EndedIsOver ==
  ASSUME SessionsAssumption, FinalInv, NEW p \in Procs, EndStep(p), Ended(p), NEW t \in aim[p]
  PROVE  /\ t \in Issued /\ t \notin ToksOf(cache')
         /\ \A r \in rows' : r.tok = t => r.exp <= now
<1>. USE DEF FinalInv, TypeOK
<1>1. Apart(p) /\ HalfEnded(p) /\ Unused
  OBVIOUS
<1>2. t \in sel[p] /\ t \in Issued
  BY <1>1 DEF Apart
<1>3. pc[p] # "idle" /\ t \notin {}
  BY <1>1 DEF Apart
<1>4. t \notin dead => DropToken(p) \/ DroppedSome(p) \/ EndRows(p)
  <2>. SUFFICES ASSUME t \notin dead  PROVE DropToken(p) \/ DroppedSome(p) \/ EndRows(p)
    OBVIOUS
  <2>1. dead' # dead
    BY DEF Ended
  <2>. QED  BY <2>1 DEF EndStep, Create, ListForCreate, AddToList, AddToken, Delete, CleanUp, DeleteMany,
     Unlist, ReadList, SetList, DropSome, FindRows, Vetoed, Throw, history
<1>5. CASE t \in dead
  <2>1. Over(t)
    BY <1>5
  <2>. QED  BY <1>2, <2>1, NothingReturns DEF Over, ToksOf
<1>6. CASE DropToken(p)
  <2>1. rows' = {} /\ cache' = Without(cache, sel[p])
    BY <1>1, <1>6 DEF DropToken, Ended, Finish, Goto, Unused
  <2>. QED  BY <1>2, <2>1 DEF Without, ToksOf
<1>7. CASE DroppedSome(p)
  <2>1. rows' = {} /\ cache' = cache /\ pc[p] = "dropSome" /\ hold[p] = {}
    BY <1>1, <1>7 DEF DroppedSome, Ended, Finish, Goto, Unused, store
  <2>. QED  BY <1>1, <1>2, <2>1 DEF HalfEnded, ToksOf
<1>8. CASE EndRows(p)
  <2>1. /\ pc[p] = "endRows" /\ cache' = cache
        /\ rows' = (rows \ Gone(p)) \cup
             (IF Mode = "preserve" THEN {[r EXCEPT !.exp = now] : r \in Gone(p)} ELSE {})
    BY <1>8 DEF EndRows
  <2>2. t \notin ToksOf(cache')
    BY <1>1, <1>2, <2>1 DEF HalfEnded
  <2>3. ASSUME NEW r \in rows', r.tok = t  PROVE r.exp <= now
    <3>1. CASE r \in rows \ Gone(p)
      <4>1. t \in ToksOf(rows) /\ r \in Of(rows, sel[p]) /\ r.exp \in Nat /\ time[p] \in Nat
        BY <1>2, <2>3, <3>1 DEF ToksOf, Of, Session
      <4>2. Gone(p) = Targets(p, time[p])
        BY <1>1, <1>2, <2>1, <4>1 DEF HalfEnded, Gone
      <4>3. Mode = "preserve" /\ ~(r.exp > time[p])
        BY <3>1, <4>1, <4>2 DEF Targets
      <4>4. time[p] <= now
        BY <1>1, <2>1 DEF HalfEnded
      <4>. QED  BY <4>1, <4>3, <4>4
    <3>2. CASE r \notin rows \ Gone(p)
      <4>1. PICK g \in Gone(p) : r = [g EXCEPT !.exp = now]
        BY <2>1, <3>2
      <4>2. g \in Session
        BY DEF Gone, Targets, Of
      <4>. QED  BY <4>1, <4>2 DEF Session
    <3>. QED  BY <3>1, <3>2
  <2>. QED  BY <1>2, <2>2, <2>3
<1>. QED  BY <1>4, <1>5, <1>6, <1>7, <1>8

\* Every step keeps the invariant.
LEMMA FinalStep ==
  ASSUME SessionsAssumption, SignInsAndOuts, TypeOK', FinalInv, [Next]_vars
  PROVE  FinalInv'
<1>1. CASE UNCHANGED vars
  BY <1>1 DEF vars, FinalInv, Unused, Apart, HalfEnded, Over, Issued, ToksOf
<1>2. CASE Tick
  <2>1. /\ UNCHANGED <<next, rows, pc, op, sel, time, hold, aim, dead>>
        /\ cache' \subseteq cache /\ now' = now + 1
    BY <1>2 DEF Tick, local, history
  <2>2. Issued' = Issued /\ ToksOf(cache') \subseteq ToksOf(cache) /\ now \in Nat
    BY <2>1 DEF Issued, ToksOf, FinalInv, TypeOK
  <2>3. Unused'
    BY <2>1 DEF FinalInv, Unused, Cached, InDatabase
  <2>4. ASSUME NEW q \in Procs PROVE Apart(q)' /\ HalfEnded(q)'
    <3>1. Apart(q) /\ HalfEnded(q) /\ time[q] \in Nat
      BY DEF FinalInv, TypeOK
    <3>2. Apart(q)'
      BY <2>1, <2>2, <3>1 DEF Apart, Cached
    <3>3. time[q] <= now => time[q] <= now'
      BY <2>1, <2>2, <3>1
    <3>4. HalfEnded(q)'
      BY <2>1, <2>2, <3>1, <3>3 DEF HalfEnded, ToksOf
    <3>. QED  BY <3>2, <3>4
  <2>5. ASSUME NEW t \in dead' PROVE Over(t)'
    <3>1. Over(t) /\ rows \subseteq Session
      BY <2>1 DEF FinalInv, TypeOK
    <3>2. \A r \in rows : r.exp \in Nat
      BY <3>1 DEF Session
    <3>. QED  BY <2>1, <2>2, <3>1, <3>2 DEF Over
  <2>. QED  BY <2>3, <2>4, <2>5 DEF FinalInv
<1>3. ASSUME NEW p \in Procs, Begin(p) \/ Step(p) \/ Fault(p) PROVE FinalInv'
  <2>1. EndStep(p)
    BY <1>3, OnlyEndSteps
  <2>2. ASSUME NEW q \in Procs \ {p} PROVE Apart(q)' /\ HalfEnded(q)'
    BY <2>1, OthersHalfEnded
  <2>3. Apart(p)' /\ HalfEnded(p)' /\ Unused'
    <3>1. CASE Finish(p)
      <4>1. Unused
        BY DEF FinalInv
      <4>2. ~InDatabase => rows' = {}
        <5>1. CASE EndRows(p)
          BY <4>1, <5>1 DEF EndRows, Unused, Gone, Targets, Of
        <5>2. CASE ~EndRows(p)
          BY <2>1, <3>1, <4>1, <5>2 DEF EndStep, Create, ListForCreate, AddToList, AddToken, Delete, CleanUp,
             DeleteMany, Unlist, ReadList, SetList, DropToken, DropSome, DroppedSome, FindRows, Vetoed,
             Throw, Unused, InDatabase, store
        <5>. QED  BY <5>1, <5>2
      <4>3. ~Cached => cache' = {}
        <5>1. CASE AddToken(p)
          BY <5>1 DEF AddToken, FinalInv, Apart, Mirroring
        <5>2. CASE ~AddToken(p)
          BY <2>1, <4>1, <5>2 DEF EndStep, Create, ListForCreate, AddToList, Delete, CleanUp,
             DeleteMany, Unlist, ReadList, SetList, DropToken, DropSome, DroppedSome, FindRows, EndRows,
             Vetoed, Throw, Unused, Cached, store, Without
        <5>. QED  BY <5>1, <5>2
      <4>4. Unused'
        BY <4>2, <4>3 DEF Unused, Cached, InDatabase
      <4>. QED  BY <3>1, <4>4, FinishHalfEnded DEF FinalInv
    <3>2. CASE ~Finish(p)
      <4>1. ~EndRows(p) /\ ~Vetoed(p) /\ ~Throw(p)
        <5>1. EndRows(p) => Finish(p)
          BY <1>3 DEF EndRows, Ended, FinalInv, Apart
        <5>. QED  BY <3>2, <5>1 DEF Vetoed, Throw
      <4>. QED  BY <2>1, <3>2, <4>1, CreatingApart, StartApart, EndingApart DEF EndStep
    <3>. QED  BY <3>1, <3>2
  <2>4. ASSUME NEW t \in dead' PROVE Over(t)'
    <3>1. t \in dead \/ (Ended(p) /\ t \in aim[p])
      BY <2>1, <2>4 DEF EndStep, Create, ListForCreate, AddToList, AddToken, Delete, CleanUp, DeleteMany,
         Unlist, ReadList, SetList, DropToken, DropSome, DroppedSome, FindRows, EndRows, Vetoed, Throw,
         Ended, history
    <3>2. now' = now /\ Issued \subseteq Issued'
      BY <2>1, NothingReturns
    <3>3. CASE t \in dead
      <4>1. Over(t)
        BY <3>3 DEF FinalInv
      <4>2. t \notin ToksOf(cache')
        BY <2>1, <4>1, NothingReturns DEF Over
      <4>3. \A r \in rows' : r.tok = t => r.exp <= now
        BY <2>1, <4>1, NothingReturns DEF Over
      <4>. QED  BY <3>2, <4>1, <4>2, <4>3 DEF Over
    <3>4. CASE Ended(p) /\ t \in aim[p]
      BY <2>1, <3>2, <3>4, EndedIsOver DEF Over
    <3>. QED  BY <3>1, <3>3, <3>4
  <2>. QED  BY <2>2, <2>3, <2>4 DEF FinalInv
<1>. QED  BY <1>1, <1>2, <1>3 DEF Next

\* Whatever the stores, whatever fails or is vetoed: a session that a sign-out or a
\* bulk deletion ended (deleteSession and deleteSessions of internal-adapter.ts)
\* never comes back to life, if meanwhile sessions are only created, ended and
\* cleaned up.
THEOREM SignOutIsFinal ==
  SessionsAssumption /\ SignInsAndOuts => (Spec => []RevokedStaysDead)
<1>. SUFFICES ASSUME SessionsAssumption, SignInsAndOuts PROVE Spec => []RevokedStaysDead
  OBVIOUS
<1>1. Spec => []TypeOK
  BY TypeCorrect
<1>2. TypeOK /\ Init => FinalInv
  BY DEF Init, FinalInv, Unused, Apart, HalfEnded, Mirroring
<1>3. TypeOK' /\ FinalInv /\ [Next]_vars => FinalInv'
  BY FinalStep
<1>4. FinalInv => RevokedStaysDead
  <2>. SUFFICES ASSUME FinalInv, NEW t \in dead, Alive(t) PROVE FALSE
    BY DEF RevokedStaysDead
  <2>1. PICK s \in rows \cup cache : s.tok = t /\ s.exp > now
    BY DEF Alive
  <2>2. Over(t) /\ s.exp \in Nat /\ now \in Nat
    BY DEF FinalInv, TypeOK, Session
  <2>3. s \in rows
    BY <2>1, <2>2 DEF Over, ToksOf
  <2>4. s.exp <= now
    BY <2>1, <2>2, <2>3 DEF Over
  <2>. QED  BY <2>1, <2>2, <2>4
<1>. QED  BY <1>1, <1>2, <1>3, <1>4, PTL DEF Spec

-----------------------------------------------------------------------------
(* Over both stores sessions are found, whatever fails.                    *)

\* Both stores, with calls that do not overlap, or without clean-ups and "revoke all sessions": a
\* clean-up may delete the row that a refresh has just extended, and "revoke all sessions" that of
\* a session whose creation goes on.
BothStores ==
  /\ SessionsAssumption /\ Mode = "both"
  /\ {"cleanUp", "revokeAll"} \cap Ops = {} \/ \A p, q \in Procs : p = q

Updating == {"getToken", "setToken", "relist", "setRelist", "updateRow", "scan"}
Ending == Dropping \cup {"dropTokens", "trimList"}

\* What callers were told is what the rows say, as long as it is not over.
Stored == \A t \in Tokens : due[t] > now => [tok |-> t, exp |-> due[t]] \in rows

\* A call that creates a session has its row to itself; on what a call is about to end nobody
\* relies, or not any longer.
Minds(p) ==
  /\ op[p] \in Ops \cup {"none"}
  /\ pc[p] \in Mirroring <=> op[p] = "create"
  /\ op[p] = "create" => hold[p] \subseteq rows
  /\ pc[p] \in Updating => op[p] \in {"update", "refreshUser"}
  /\ pc[p] \in Ending => op[p] \in {"delete", "deleteMany", "cleanUp", "revokeAll"}
  /\ op[p] # "revokeAll" => sel[p] \subseteq Issued
  /\ op[p] \in {"delete", "deleteMany"} => \A t \in sel[p] : due[t] = 0
  /\ op[p] \in {"cleanUp", "revokeAll"} => \A t \in sel[p] : due[t] <= now

FoundInv ==
  /\ TypeOK /\ Stored
  /\ \A c \in cache : c.exp > now
  /\ \A r \in rows : r.tok < next
  /\ \A r, s \in rows : r.tok = s.tok => r = s
  /\ \A p \in Procs : Minds(p)

\* Callers keep the tokens they have.
LEMMA IssuedKept ==
  ASSUME next' = next, \A q \in Procs : op'[q] = "create" => op[q] = "create" /\ hold'[q] = hold[q]
  PROVE  Issued \subseteq Issued'
BY DEF Issued

\* A step of p leaves the other calls where they are.
LEMMA OthersMind ==
  ASSUME BothStores, FoundInv, NEW p \in Procs, NEW q \in Procs, q # p,
         pc'[q] = pc[q], op'[q] = op[q], sel'[q] = sel[q], hold'[q] = hold[q],
         Issued \subseteq Issued', \A t \in Issued : due[t] = 0 => due'[t] = 0,
         op[q] = "create" => hold[q] \subseteq rows'
  PROVE  Minds(q)'
<1>1. Minds(q) /\ op[q] \notin {"cleanUp", "revokeAll"}
  BY DEF FoundInv, Minds, BothStores
<1>. QED  BY <1>1 DEF Minds

\* A call that ends leaves nothing, and the others where they are.
LEMMA FinishMinds ==
  ASSUME BothStores, FoundInv, NEW p \in Procs, Finish(p), next' = next,
         \A t \in Issued : due[t] = 0 => due'[t] = 0,
         \A q \in Procs : q # p /\ op[q] = "create" => hold[q] \subseteq rows'
  PROVE  \A q \in Procs : Minds(q)'
<1>1. /\ pc'[p] = "idle" /\ op'[p] = "none" /\ sel'[p] = {}
      /\ \A q \in Procs : q # p => /\ pc'[q] = pc[q] /\ op'[q] = op[q]
                                   /\ sel'[q] = sel[q] /\ hold'[q] = hold[q]
  BY DEF Finish, Goto, FoundInv, TypeOK
<1>2. Issued \subseteq Issued'
  BY <1>1, IssuedKept
<1>3. Minds(p)'
  BY <1>1 DEF Minds, Mirroring, Updating, Ending, Dropping
<1>. QED  BY <1>1, <1>2, <1>3, OthersMind

\* The steps within a call that leave the rows and the promises alone.
LEMMA QuietFound ==
  ASSUME BothStores, FoundInv, TypeOK', NEW p \in Procs,
         \/ ListForCreate(p) \/ AddToList(p) \/ GetToken(p) \/ SetToken(p) \/ Relist(p) \/ SetRelist(p)
         \/ Scan(p) \/ WriteBack(p) \/ Unlist(p) \/ ReadList(p) \/ SetList(p) \/ DropToken(p) \/ DropSome(p)
         \/ DroppedSome(p) \/ FindRows(p) \/ FindRowsLost(p) \/ DropOne(p) \/ RereadList(p)
  PROVE  FoundInv'
<1>0. InDatabase
  BY DEF BothStores, InDatabase
<1>1. UNCHANGED <<now, next, rows, due, op, sel>>
  BY <1>0 DEF ListForCreate, AddToList, GetToken, SetToken, Relist, SetRelist, Scan, WriteBack, Unlist, ReadList,
     SetList, DropToken, DropSome, DroppedSome, FindRows, FindRowsLost, DropOne, RereadList, store, local, history
<1>2. \A c \in cache' : c.exp > now
  <2>1. CASE SetToken(p)
    <3>1. PICK s \in Merged(p) : cache' = Put(cache, s)
      BY <2>1 DEF SetToken
    <3>. QED  BY <3>1 DEF Put, Without, FoundInv
  <2>2. CASE WriteBack(p)
    <3>1. PICK s \in hold[p] : cache' = Put(cache, s)
      BY <2>2 DEF WriteBack
    <3>. QED  BY <3>1 DEF Put, Without, FoundInv
  <2>3. CASE DropToken(p) \/ DropSome(p) \/ DropOne(p)
    BY <2>3 DEF DropToken, DropSome, DropOne, Without, FoundInv
  <2>4. CASE cache' = cache
    BY <2>4 DEF FoundInv
  <2>. QED  BY <2>1, <2>2, <2>3, <2>4 DEF ListForCreate, AddToList, GetToken, Relist, SetRelist, Scan, Unlist,
               ReadList, SetList, DroppedSome, FindRows, FindRowsLost, RereadList, store
<1>3. \A q \in Procs : q # p => pc'[q] = pc[q] /\ hold'[q] = hold[q]
  BY <1>0 DEF ListForCreate, AddToList, GetToken, SetToken, Relist, SetRelist, Scan, WriteBack, Unlist, ReadList,
     SetList, DropToken, DropSome, DroppedSome, FindRows, FindRowsLost, DropOne, RereadList, Goto, local, FoundInv, TypeOK
<1>4. \A l : Goto(p, l) => pc'[p] = l
  BY DEF Goto, FoundInv, TypeOK
<1>5. \/ pc[p] \in Mirroring /\ pc'[p] \in Mirroring /\ hold' = hold
      \/ pc[p] \in Updating /\ pc'[p] \in Updating
      \/ pc[p] \in Ending /\ pc'[p] \in Ending
  <2>1. CASE ListForCreate(p) \/ AddToList(p)
    BY <1>4, <2>1 DEF ListForCreate, AddToList, Mirroring, local
  <2>2. CASE GetToken(p) \/ SetToken(p) \/ Relist(p) \/ SetRelist(p) \/ Scan(p) \/ WriteBack(p)
    BY <1>0, <1>4, <2>2 DEF GetToken, SetToken, Relist, SetRelist, Scan, WriteBack, Updating
  <2>3. CASE Unlist(p) \/ ReadList(p) \/ SetList(p) \/ DropToken(p) \/ DropSome(p)
    BY <1>0, <1>4, <2>3 DEF Unlist, ReadList, AfterReadList, SetList, DropToken, DropSome, Ending, Dropping
  <2>4. CASE DroppedSome(p) \/ FindRows(p) \/ FindRowsLost(p) \/ DropOne(p) \/ RereadList(p)
    BY <1>0, <1>4, <2>4 DEF DroppedSome, FindRows, FindRowsLost, DropOne, RereadList, Ending, Dropping
  <2>. QED  BY <2>1, <2>2, <2>3, <2>4
<1>6. Minds(p)
  BY DEF FoundInv
<1>7. Updating \cap Mirroring = {} /\ Ending \cap Mirroring = {} /\ Ending \cap Updating = {}
  BY DEF Updating, Mirroring, Ending, Dropping
<1>8. op[p] = "create" => hold'[p] = hold[p]
  BY <1>5, <1>6, <1>7 DEF Minds
<1>9. Issued \subseteq Issued'
  BY <1>1, <1>3, <1>8, IssuedKept
<1>10. Minds(p)'
  BY <1>1, <1>5, <1>6, <1>7, <1>8, <1>9 DEF Minds
<1>11. \A q \in Procs : Minds(q)'
  <2>. SUFFICES ASSUME NEW q \in Procs, q # p PROVE Minds(q)'
    BY <1>10
  <2>1. Minds(q)
    BY DEF FoundInv
  <2>. QED  BY <1>1, <1>3, <1>9, <2>1, OthersMind DEF Minds
<1>. QED  BY <1>1, <1>2, <1>11 DEF FoundInv, Stored

\* A new session has a row, and a token that nobody has.
LEMMA CreateFound ==
  ASSUME BothStores, FoundInv, TypeOK', NEW p \in Procs, Create(p)
  PROVE  FoundInv'
<1>1. PICK l \in Lifetimes : /\ rows' = rows \cup {[tok |-> next, exp |-> now + l]}
                             /\ Start(p, "create", {})
                             /\ hold' = [hold EXCEPT ![p] = {[tok |-> next, exp |-> now + l]}]
                             /\ Goto(p, "listing") /\ due' = due
  BY DEF Create, BothStores, InDatabase, Cached
<1>2. next' = next + 1 /\ now' = now /\ cache' = cache /\ next \in Nat
  BY DEF Create, FoundInv, TypeOK
<1>3. /\ pc'[p] = "listing" /\ op'[p] = "create" /\ sel'[p] = {} /\ hold'[p] \subseteq rows'
      /\ \A q \in Procs : q # p => /\ pc'[q] = pc[q] /\ op'[q] = op[q]
                                   /\ sel'[q] = sel[q] /\ hold'[q] = hold[q]
  BY <1>1 DEF Goto, Start, FoundInv, TypeOK
<1>4. ToksOf(hold'[p]) = {next}
  BY <1>1 DEF ToksOf, FoundInv, TypeOK
<1>5. Issued \subseteq Issued'
  BY <1>2, <1>3, <1>4 DEF Issued
<1>6. Minds(p)'
  BY <1>1, <1>3 DEF Minds, Mirroring, Updating, Ending, Dropping, Start
<1>7. \A q \in Procs : Minds(q)'
  <2>. SUFFICES ASSUME NEW q \in Procs, q # p PROVE Minds(q)'
    BY <1>6
  <2>1. Minds(q)
    BY DEF FoundInv
  <2>. QED  BY <1>1, <1>3, <1>5, <2>1, OthersMind DEF Minds
<1>8. \A r \in rows : r.tok < next /\ r.tok \in Nat
  BY DEF FoundInv, TypeOK, Session, Tokens
<1>9. \A r \in rows' : r.tok < next'
  BY <1>1, <1>2, <1>8
<1>10. \A r, s \in rows' : r.tok = s.tok => r = s
  BY <1>1, <1>2, <1>8 DEF FoundInv
<1>. QED  BY <1>1, <1>2, <1>7, <1>9, <1>10 DEF FoundInv, Stored

\* A call that begins forgets first what it is to end, and cleans up only what is over.
LEMMA BeginFound ==
  ASSUME BothStores, FoundInv, TypeOK', NEW p \in Procs, Begin(p), ~Create(p)
  PROVE  FoundInv'
<1>0. Cached /\ InDatabase
  BY DEF BothStores, Cached, InDatabase
<1>1. UNCHANGED <<now, next, rows, cache>> /\ (due' = due \/ \E T : Forget(T))
  BY DEF Begin, Update, Refresh, Delete, CleanUp, DeleteMany, RevokeAll, store, history
<1>2. \A t \in Tokens : due'[t] \in {0, due[t]}
  BY <1>1 DEF Forget
<1>3. \A o, T : Start(p, o, T) => /\ o \in Ops /\ op'[p] = o /\ sel'[p] = T
                                  /\ \A q \in Procs : q # p => op'[q] = op[q] /\ sel'[q] = sel[q]
  BY DEF Start, FoundInv, TypeOK
<1>4. \A l : Goto(p, l) => pc'[p] = l /\ \A q \in Procs : q # p => pc'[q] = pc[q]
  BY DEF Goto, FoundInv, TypeOK
<1>5. \A q \in Procs : q # p => pc'[q] = pc[q] /\ op'[q] = op[q] /\ sel'[q] = sel[q] /\ hold'[q] = hold[q]
  <2>1. /\ \E o, T : Start(p, o, T)
        /\ \E l : Goto(p, l)
        /\ hold' = hold \/ \E h : hold' = [hold EXCEPT ![p] = h]
    BY DEF Begin, Update, Refresh, Delete, CleanUp, DeleteMany, RevokeAll
  <2>2. \A q \in Procs : q # p => hold'[q] = hold[q]
    BY <2>1 DEF FoundInv, TypeOK
  <2>. QED  BY <1>3, <1>4, <2>1, <2>2
<1>6. op'[p] # "create"
  <2>1. \E T : \E o \in OpNames \ {"create"} : Start(p, o, T)
    BY DEF Begin, Update, Refresh, Delete, CleanUp, DeleteMany, RevokeAll, OpNames
  <2>. QED  BY <1>3, <2>1
<1>7. Issued \subseteq Issued' /\ Issued \subseteq Tokens
  <2>1. Issued \subseteq Issued'
    BY <1>1, <1>5, <1>6, IssuedKept
  <2>2. next \in 1 .. MaxSessions + 1 /\ MaxSessions \in Nat
    BY DEF FoundInv, TypeOK, BothStores, SessionsAssumption
  <2>3. Issued \subseteq Tokens
    BY <2>2 DEF Issued, Tokens
  <2>. QED  BY <2>1, <2>3
<1>8. Minds(p)'
  <2>1. CASE Update(p) \/ Refresh(p)
    <3>1. pc'[p] \in {"getToken", "scan"}
      BY <1>0, <1>4, <2>1 DEF Update, Refresh
    <3>2. \E o \in {"update", "refreshUser"}, T \in SUBSET Issued : Start(p, o, T)
      BY <2>1 DEF Update, Refresh
    <3>. QED  BY <1>3, <1>7, <3>1, <3>2 DEF Minds, Mirroring, Updating, Ending, Dropping
  <2>2. CASE Delete(p)
    <3>1. PICK t \in Issued : Start(p, "delete", {t}) /\ Forget({t})
      BY <2>2 DEF Delete
    <3>2. pc'[p] = "unlist"
      BY <1>0, <1>4, <2>2 DEF Delete
    <3>3. due'[t] = 0
      BY <1>7, <3>1 DEF Forget
    <3>. QED  BY <1>3, <1>7, <3>1, <3>2, <3>3 DEF Minds, Mirroring, Updating, Ending, Dropping
  <2>3. CASE CleanUp(p)
    <3>1. PICK t \in Issued : (\E s \in Lookup(t) : s.exp < now) /\ Start(p, "cleanUp", {t})
      BY <2>3 DEF CleanUp
    <3>2. PICK s \in Lookup(t) : s.exp < now
      BY <3>1
    <3>3. pc'[p] = "unlist" /\ due' = due
      BY <1>0, <1>4, <2>3 DEF CleanUp, history
    <3>4. s \in rows /\ s.tok = t
      <4>1. s \in Of(cache, {t}) \/ s \in Of(rows, {t})
        BY DEF Lookup
      <4>2. \A c \in Of(cache, {t}) : c.exp > now /\ c.exp \in Nat /\ now \in Nat
        BY DEF Of, FoundInv, TypeOK, Session
      <4>3. s \notin Of(cache, {t})
        BY <3>2, <4>2
      <4>. QED  BY <4>1, <4>3 DEF Of
    <3>5. t \in Tokens /\ due[t] \in Nat /\ now \in Nat /\ s.exp \in Nat
      BY <1>7, <3>4 DEF FoundInv, TypeOK, Session
    <3>6. due[t] <= now
      <4>. SUFFICES ASSUME due[t] > now PROVE FALSE
        BY <3>5
      <4>1. [tok |-> t, exp |-> due[t]] \in rows
        BY <3>5 DEF FoundInv, Stored
      <4>2. s = [tok |-> t, exp |-> due[t]]
        BY <3>4, <4>1 DEF FoundInv
      <4>. QED  BY <3>2, <3>5, <4>2
    <3>. QED  BY <1>1, <1>3, <1>7, <3>1, <3>3, <3>6 DEF Minds, Mirroring, Updating, Ending, Dropping
  <2>4. CASE DeleteMany(p)
    <3>1. PICK T \in SUBSET Issued : Start(p, "deleteMany", T) /\ Forget(T)
      BY <2>4 DEF DeleteMany
    <3>2. pc'[p] = "dropSome"
      BY <1>0, <1>4, <2>4 DEF DeleteMany
    <3>3. \A t \in T : due'[t] = 0
      BY <1>7, <3>1 DEF Forget
    <3>. QED  BY <1>3, <1>7, <3>1, <3>2, <3>3 DEF Minds, Mirroring, Updating, Ending, Dropping
  <2>5. CASE RevokeAll(p)
    <3>1. Start(p, "revokeAll", Tokens) /\ Forget(Tokens) /\ pc'[p] = "findRows"
      BY <1>0, <1>4, <2>5 DEF RevokeAll
    <3>2. \A t \in Tokens : due'[t] = 0
      BY <3>1 DEF Forget
    <3>3. now' \in Nat
      BY DEF TypeOK
    <3>. QED  BY <1>3, <3>1, <3>2, <3>3 DEF Minds, Mirroring, Updating, Ending, Dropping
  <2>. QED  BY <2>1, <2>2, <2>3, <2>4, <2>5 DEF Begin
<1>9. \A q \in Procs : Minds(q)'
  <2>. SUFFICES ASSUME NEW q \in Procs, q # p PROVE Minds(q)'
    BY <1>8
  <2>1. Minds(q)
    BY DEF FoundInv
  <2>2. \A t \in Issued : due[t] = 0 => due'[t] = 0
    BY <1>2, <1>7
  <2>. QED  BY <1>1, <1>5, <1>7, <2>1, <2>2, OthersMind DEF Minds
<1>10. Stored'
  <2>. SUFFICES ASSUME NEW t \in Tokens, due'[t] > now PROVE [tok |-> t, exp |-> due'[t]] \in rows
    BY <1>1 DEF Stored
  <2>1. due'[t] = due[t]
    BY <1>2 DEF FoundInv, TypeOK
  <2>. QED  BY <2>1 DEF FoundInv, Stored
<1>. QED  BY <1>1, <1>9, <1>10 DEF FoundInv

\* The caller is told of a session whose row is there.
LEMMA MirrorFound ==
  ASSUME BothStores, FoundInv, TypeOK', NEW p \in Procs, AddToken(p) \/ MirrorLost(p)
  PROVE  FoundInv'
<1>1. /\ pc[p] \in Mirroring /\ Finish(p) /\ UNCHANGED <<now, next, rows>>
  BY DEF AddToken, MirrorLost, store, Mirroring
<1>2. PICK s \in hold[p] : /\ due' = [due EXCEPT ![s.tok] = s.exp]
                           /\ cache' = cache \/ cache' = Put(cache, s)
  BY DEF AddToken, MirrorLost, store
<1>3. op[p] = "create" /\ s \in rows
  BY <1>1 DEF FoundInv, Minds
<1>4. s \in Session
  BY <1>3 DEF FoundInv, TypeOK
<1>5. s.tok \in Tokens /\ s = [tok |-> s.tok, exp |-> s.exp]
  BY <1>4 DEF Session
<1>6. s.tok \notin Issued
  BY <1>3 DEF Issued, ToksOf
<1>7. Stored'
  BY <1>1, <1>2, <1>3, <1>5 DEF FoundInv, TypeOK, Stored
<1>8. \A c \in cache' : c.exp > now
  BY <1>2 DEF Put, Without, FoundInv
<1>9. \A t \in Issued : due'[t] = due[t]
  BY <1>2, <1>5, <1>6 DEF FoundInv, TypeOK
<1>10. \A q \in Procs : op[q] = "create" => hold[q] \subseteq rows'
  BY <1>1 DEF FoundInv, Minds
<1>11. \A q \in Procs : Minds(q)'
  BY <1>1, <1>9, <1>10, FinishMinds
<1>. QED  BY <1>1, <1>7, <1>8, <1>11 DEF FoundInv

\* The row and the promise are written together.
LEMMA UpdateFound ==
  ASSUME BothStores, FoundInv, TypeOK', NEW p \in Procs, UpdateRow(p)
  PROVE  FoundInv'
<1>1. /\ rows' = IF time[p] = 0 THEN rows ELSE UpdatedRows(p)
      /\ due' = [t \in Tokens |->
           IF /\ time[p] # 0 /\ t \in sel[p] /\ due[t] # 0
              /\ t \in ToksOf(rows)
           THEN time[p] ELSE due[t]]
      /\ Finish(p) /\ UNCHANGED <<now, next, cache>>
      /\ pc[p] = "updateRow"
  BY DEF UpdateRow, BothStores, InDatabase
<1>. DEFINE New(r) == IF r.tok \in sel[p] THEN [r EXCEPT !.exp = time[p]] ELSE r
<1>2. ASSUME NEW r \in rows
      PROVE  /\ New(r).tok = r.tok
             /\ r.tok \in sel[p] => New(r) = [tok |-> r.tok, exp |-> time[p]]
             /\ r.tok \notin sel[p] => New(r) = r
  BY RenewedIsSession DEF Session, FoundInv, TypeOK
<1>3. UpdatedRows(p) = {New(r) : r \in rows}
  BY DEF UpdatedRows
<1>. HIDE DEF New
<1>4. sel[p] \subseteq Issued
  BY <1>1 DEF FoundInv, Minds, Updating
<1>5. \A r \in rows : r.tok \notin sel[p] => r \in rows'
  BY <1>1, <1>2, <1>3
<1>6. Stored'
  <2>. SUFFICES ASSUME NEW t \in Tokens, due'[t] > now PROVE [tok |-> t, exp |-> due'[t]] \in rows'
    BY <1>1 DEF Stored
  <2>1. CASE time[p] # 0 /\ t \in sel[p] /\ due[t] # 0 /\ t \in ToksOf(rows)
    <3>1. PICK r \in rows : r.tok = t
      BY <2>1 DEF ToksOf
    <3>2. New(r) = [tok |-> t, exp |-> due'[t]]
      BY <1>1, <1>2, <2>1, <3>1
    <3>. QED  BY <1>1, <1>3, <2>1, <3>2
  <2>2. CASE ~(time[p] # 0 /\ t \in sel[p] /\ due[t] # 0 /\ t \in ToksOf(rows))
    <3>1. due'[t] = due[t]
      BY <1>1, <2>2
    <3>2. [tok |-> t, exp |-> due[t]] \in rows
      BY <3>1 DEF FoundInv, Stored
    <3>3. t \in ToksOf(rows) /\ due[t] # 0
      BY <3>1, <3>2 DEF ToksOf, FoundInv, TypeOK
    <3>. QED  BY <1>1, <1>5, <2>2, <3>1, <3>2, <3>3
  <2>. QED  BY <2>1, <2>2
<1>7. \A r \in rows' : r.tok < next
  BY <1>1, <1>2, <1>3 DEF FoundInv
<1>8. \A r, s \in rows' : r.tok = s.tok => r = s
  <2>1. \A r, s \in rows : New(r).tok = New(s).tok => New(r) = New(s)
    BY <1>2 DEF FoundInv
  <2>. QED  BY <1>1, <1>3, <2>1 DEF FoundInv
<1>9. \A q \in Procs : q # p /\ op[q] = "create" => hold[q] \subseteq rows'
  <2>. SUFFICES ASSUME NEW q \in Procs, op[q] = "create", NEW s \in hold[q] PROVE s \in rows'
    OBVIOUS
  <2>1. s \in rows
    BY DEF FoundInv, Minds
  <2>2. s.tok \notin sel[p]
    BY <1>4 DEF Issued, ToksOf
  <2>. QED  BY <1>5, <2>1, <2>2
<1>10. \A t \in Issued : due[t] = 0 => due'[t] = 0
  <2>1. \A t \in sel[p] : t \in Tokens
    BY DEF FoundInv, TypeOK
  <2>2. Issued \subseteq Tokens
    <3>1. next \in 1 .. MaxSessions + 1 /\ MaxSessions \in Nat
      BY DEF FoundInv, TypeOK, BothStores, SessionsAssumption
    <3>. QED  BY <3>1 DEF Issued, Tokens
  <2>. QED  BY <1>1, <2>2
<1>11. \A q \in Procs : Minds(q)'
  BY <1>1, <1>9, <1>10, FinishMinds
<1>. QED  BY <1>1, <1>6, <1>7, <1>8, <1>11 DEF FoundInv

\* The rows that go are those nobody relies on.
LEMMA EndFound ==
  ASSUME BothStores, FoundInv, TypeOK', NEW p \in Procs, EndRows(p)
  PROVE  FoundInv'
<1>1. /\ pc[p] = "endRows" /\ rows' = rows \ Gone(p) /\ UNCHANGED <<now, next, cache>>
      /\ due' = due \/ \E T : Forget(T)
  BY DEF EndRows, BothStores
<1>2. \/ Finish(p)
      \/ op[p] = "revokeAll" /\ Goto(p, "dropTokens") /\ UNCHANGED <<op, sel>> /\ hold' = [hold EXCEPT ![p] = got[p]]
  BY DEF EndRows, Ended, BothStores, Cached
<1>3. \A t \in Tokens : due'[t] \in {0, due[t]}
  BY <1>1 DEF Forget
<1>4. op[p] \in {"delete", "deleteMany", "cleanUp", "revokeAll"} /\ Minds(p)
  BY <1>1 DEF FoundInv, Minds, Ending, Dropping
<1>5. \A t \in sel[p] : ~(due[t] > now)
  BY <1>4 DEF Minds, FoundInv, TypeOK
<1>6. \A r \in rows : r.tok \notin sel[p] => r \in rows'
  BY <1>1 DEF Gone, Targets, Of
<1>7. Stored'
  <2>. SUFFICES ASSUME NEW t \in Tokens, due'[t] > now PROVE [tok |-> t, exp |-> due'[t]] \in rows'
    BY <1>1 DEF Stored
  <2>1. due'[t] = due[t]
    BY <1>3 DEF FoundInv, TypeOK
  <2>2. t \notin sel[p] /\ [tok |-> t, exp |-> due[t]] \in rows
    BY <1>5, <2>1 DEF FoundInv, Stored
  <2>. QED  BY <1>6, <2>1, <2>2
<1>8. Issued \subseteq Tokens
  <2>1. next \in 1 .. MaxSessions + 1 /\ MaxSessions \in Nat
    BY DEF FoundInv, TypeOK, BothStores, SessionsAssumption
  <2>. QED  BY <2>1 DEF Issued, Tokens
<1>9. \A t \in Issued : due[t] = 0 => due'[t] = 0
  BY <1>3, <1>8
<1>10. \A q \in Procs : q # p /\ op[q] = "create" => hold[q] \subseteq rows'
  <2>. SUFFICES ASSUME NEW q \in Procs, q # p, op[q] = "create", NEW s \in hold[q] PROVE s \in rows'
    OBVIOUS
  <2>1. s \in rows
    BY DEF FoundInv, Minds
  <2>2. sel[p] \subseteq Issued
    BY <1>4 DEF Minds, BothStores
  <2>3. s.tok \notin sel[p]
    BY <2>2 DEF Issued, ToksOf
  <2>. QED  BY <1>6, <2>1, <2>3
<1>11. \A q \in Procs : Minds(q)'
  <2>1. CASE Finish(p)
    BY <1>1, <1>9, <1>10, <2>1, FinishMinds
  <2>2. CASE op[p] = "revokeAll" /\ Goto(p, "dropTokens") /\ UNCHANGED <<op, sel>> /\ hold' = [hold EXCEPT ![p] = got[p]]
    <3>1. /\ pc'[p] = "dropTokens" /\ op'[p] = "revokeAll" /\ sel'[p] = sel[p]
          /\ \A q \in Procs : q # p => /\ pc'[q] = pc[q] /\ op'[q] = op[q]
                                       /\ sel'[q] = sel[q] /\ hold'[q] = hold[q]
      BY <2>2 DEF Goto, FoundInv, TypeOK
    <3>2. Issued \subseteq Issued'
      BY <1>1, <3>1, IssuedKept
    <3>3. sel[p] \subseteq Tokens /\ \A t \in Tokens : due[t] \in Nat /\ now \in Nat
      BY DEF FoundInv, TypeOK
    <3>4. \A t \in sel[p] : due'[t] <= now
      BY <1>3, <1>4, <3>1, <3>3, <2>2 DEF Minds
    <3>5. Minds(p)'
      BY <1>1, <1>4, <2>2, <3>1, <3>4 DEF Minds, Mirroring, Updating, Ending, Dropping
    <3>. QED  BY <1>9, <1>10, <3>1, <3>2, <3>5, OthersMind
  <2>. QED  BY <1>2, <2>1, <2>2
<1>. QED  BY <1>1, <1>6, <1>7, <1>11 DEF FoundInv

\* Every step keeps what is stored.
LEMMA FoundStep ==
  ASSUME BothStores, FoundInv, [Next]_vars, TypeOK'
  PROVE  FoundInv'
<1>1. CASE UNCHANGED vars
  BY <1>1 DEF vars, FoundInv, Stored, Minds, Issued
<1>2. CASE Tick
  <2>1. /\ now' = now + 1 /\ \A c \in cache' : c.exp > now'
        /\ UNCHANGED <<next, rows, pc, op, sel, hold, due>>
    BY <1>2 DEF Tick, local, history
  <2>2. now \in Nat /\ \A t \in Tokens : due[t] \in Nat
    BY DEF FoundInv, TypeOK
  <2>3. Stored'
    BY <2>1, <2>2 DEF FoundInv, Stored
  <2>4. Issued' = Issued
    BY <2>1 DEF Issued
  <2>5. ASSUME NEW p \in Procs PROVE Minds(p)'
    <3>1. Minds(p) /\ sel[p] \subseteq Tokens
      BY DEF FoundInv, TypeOK
    <3>2. \A t \in sel[p] : due[t] <= now => due[t] <= now + 1
      BY <2>2, <3>1
    <3>. QED  BY <2>1, <2>4, <3>1, <3>2 DEF Minds
  <2>. QED  BY <2>1, <2>3, <2>5 DEF FoundInv
<1>3. ASSUME NEW p \in Procs, Begin(p) PROVE FoundInv'
  BY <1>3, CreateFound, BeginFound
<1>4. ASSUME NEW p \in Procs, Refreshed(p) \/ TrimList(p) \/ Vetoed(p) \/ RevokeLost(p) \/ Throw(p)
      PROVE  FoundInv'
  <2>1. Finish(p) /\ UNCHANGED <<now, next, rows, cache, due>>
    BY <1>4 DEF Refreshed, TrimList, Vetoed, RevokeLost, Throw, Ended, store
  <2>2. \A q \in Procs : op[q] = "create" => hold[q] \subseteq rows'
    BY <2>1 DEF FoundInv, Minds
  <2>3. \A q \in Procs : Minds(q)'
    BY <2>1, <2>2, FinishMinds
  <2>. QED  BY <2>1, <2>3 DEF FoundInv, Stored
<1>5. ASSUME NEW p \in Procs, Step(p) \/ Fault(p) PROVE FoundInv'
  BY <1>4, <1>5, QuietFound, MirrorFound, UpdateFound, EndFound DEF Step, Fault
<1>. QED  BY <1>1, <1>2, <1>3, <1>5 DEF Next

\* Over both stores, whatever fails and wherever a call dies, a session that no call was meant to
\* end is found until the expiry its owner was told: in secondary storage, or when its entry was
\* lost or has expired earlier, in the database.
THEOREM FoundInBothStores == ASSUME BothStores PROVE Spec => []LiveUntilRevoked
<1>1. Spec => []TypeOK
  BY TypeCorrect DEF BothStores
<1>2. TypeOK /\ Init => FoundInv
  BY DEF Init, FoundInv, Stored, Minds, Mirroring, Updating, Ending, Dropping
<1>3. FoundInv /\ TypeOK' /\ [Next]_vars => FoundInv'
  BY FoundStep
<1>4. FoundInv => LiveUntilRevoked
  <2>. SUFFICES ASSUME FoundInv, NEW t \in Tokens, due[t] > now PROVE \E s \in Lookup(t) : s.exp > now
    BY DEF LiveUntilRevoked
  <2>1. CASE Of(cache, {t}) # {}
    <3>1. Lookup(t) = Of(cache, {t}) /\ Lookup(t) # {}
      BY <2>1 DEF Lookup, BothStores, Cached
    <3>2. \A c \in Of(cache, {t}) : c.exp > now
      BY DEF Of, FoundInv
    <3>. QED  BY <3>1, <3>2
  <2>2. CASE Of(cache, {t}) = {}
    <3>1. Lookup(t) = Of(rows, {t})
      BY <2>2 DEF Lookup, BothStores
    <3>2. PICK r \in rows : r = [tok |-> t, exp |-> due[t]]
      BY DEF FoundInv, Stored
    <3>3. r \in Of(rows, {t}) /\ r.exp > now
      BY <3>2 DEF Of
    <3>. QED  BY <3>1, <3>3
  <2>. QED  BY <2>1, <2>2
<1>. QED  BY <1>1, <1>2, <1>3, <1>4, PTL DEF Spec

-----------------------------------------------------------------------------
(* Preserved rows, one call after the other.                               *)

\* Rows outlive their session, calls do not overlap, and none dies halfway.
SerialPreserved ==
  /\ SessionsAssumption
  /\ Mode = "preserve" /\ Faults \subseteq {"veto"}
  /\ \A p, q \in Procs : p = q

\* A token whose hooks ran, or that a call which succeeded was meant to end.
Closed(t) == fired[t] # 0 \/ t \in dead

\* What was closed was a session, and no row of it is live.
ClosedOver ==
  \A t \in Tokens : Closed(t) => t < next /\ \A r \in rows : r.tok = t => r.exp <= now

\* Every cached session is live, issued, and the only one of its token.
CacheSound ==
  /\ \A c \in cache : c.exp > now /\ c.tok < next
  /\ \A c, d \in cache : c.tok = d.tok => c = d

\* S has an entry for every cached session, but for those of T, that expires no earlier.
Covers(S, T) ==
  \A c \in cache : c.tok \notin T => \E s \in S : s.tok = c.tok /\ s.exp >= c.exp

\* No cached session was closed.
Open == \A c \in cache : ~Closed(c.tok)

\* The list covers secondary storage while p does not write it, and what p will write to it does
\* so otherwise.
ListCovers(p) ==
  /\ pc[p] \notin {"addToList", "relist", "setRelist", "setList", "dropToken", "dropTokens", "trimList"} =>
       Covers(list, {})
  /\ pc[p] = "addToList" => Covers(got[p], {})
  /\ pc[p] \in {"relist", "dropToken"} => Covers(list, sel[p])
  /\ pc[p] \in {"setRelist", "setList"} => Covers(got[p], sel[p])

\* A call that mirrors or updates a session has one that was not closed.
Writes(p) ==
  /\ pc[p] = "idle" => hold[p] = {}
  /\ pc[p] \in {"listing", "addToList", "addToken"} =>
       \A s \in hold[p] : s.tok < next /\ ~Closed(s.tok)
  /\ pc[p] = "addToken" =>
       \A s \in hold[p] : s.exp > now => \E l \in list : l.tok = s.tok /\ l.exp >= s.exp
  /\ pc[p] \in {"getToken", "setToken", "relist", "setRelist", "updateRow"} =>
       \A t, u \in sel[p] : t < next /\ ~Closed(t) /\ t = u
  /\ pc[p] = "setToken" => ToksOf(hold[p]) \subseteq sel[p]
  /\ pc[p] \in {"relist", "setRelist"} => Of(cache, sel[p]) \subseteq hold[p]
  /\ pc[p] = "scan" => \A s \in hold[p] : s.exp > now => s \in cache

\* A call that ends sessions has removed them from secondary storage before it ends the rows,
\* or will remove all that is there.
Ends(p) ==
  /\ aim[p] \subseteq sel[p] /\ \A t \in aim[p] : t < next
  /\ pc[p] = "idle" => aim[p] = {}
  /\ pc[p] \in {"unlist", "readList", "setList", "dropToken", "dropSome"} => op[p] # "revokeAll"
  /\ pc[p] = "dropSome" => ToksOf(Of(cache, sel[p])) \subseteq ToksOf(hold[p])
  /\ pc[p] \in {"findRows", "endRows"} =>
       IF op[p] = "revokeAll" THEN ToksOf(cache) \subseteq ToksOf(got[p]) /\ sel[p] = Tokens
       ELSE Of(cache, sel[p]) = {}
  /\ pc[p] = "endRows" =>
       /\ hold[p] = Targets(p, time[p]) /\ time[p] <= now
       /\ \A s \in hold[p] : fired[s.tok] = 0
  /\ pc[p] = "dropTokens" => ToksOf(cache) \subseteq ToksOf(hold[p])
  /\ pc[p] = "trimList" => cache = {}
  /\ pc[p] \in {"dropTokens", "trimList"} => \A r \in rows : r.exp <= now

\* What the stores satisfy, and what a call does.
StoresSound ==
  /\ HooksRunOnce /\ ClosedOver /\ CacheSound
  /\ \A r \in rows : r.tok < next
  /\ \A t \in dead : t \notin ToksOf(cache)

CallSound(p) == ListCovers(p) /\ Writes(p) /\ Ends(p) /\ (pc[p] # "dropTokens" => Open)

PreservedInv == TypeOK /\ StoresSound /\ \A p \in Procs : CallSound(p)

\* Both stores are used, and the cached entry is what a session is found by.
LEMMA PreservedMode ==
  ASSUME SerialPreserved
  PROVE  /\ InDatabase /\ Cached /\ Mode = "preserve"
         /\ \A t : Lookup(t) = Of(cache, {t})
         /\ {"throw", "swallow"} \cap Faults = {}
BY DEF SerialPreserved, InDatabase, Cached, Lookup

\* A step that writes no store keeps what is true of them.
LEMMA StoresKept ==
  ASSUME StoresSound, UNCHANGED <<now, next, rows, cache, dead, fired>>
  PROVE  StoresSound'
BY DEF StoresSound, HooksRunOnce, ClosedOver, Closed, CacheSound, ToksOf

\* A call that has ended has nothing to keep to but that the list covers secondary storage.
LEMMA IdleSound ==
  ASSUME TypeOK, NEW p \in Procs, Finish(p), Covers(list, {})', Open'
  PROVE  CallSound(p)'
<1>1. pc'[p] = "idle" /\ aim'[p] = {} /\ hold'[p] = {}
  BY DEF Finish, Goto, TypeOK
<1>. QED  BY <1>1 DEF CallSound, ListCovers, Writes, Ends

\* The expired entries of what covers secondary storage are not needed.
LEMMA FreshCovers ==
  ASSUME TypeOK, CacheSound, NEW S \in SUBSET Session, NEW T, Covers(S, T)
  PROVE  Covers(Fresh(S), T) /\ (T = {} /\ Fresh(S) = {} => cache = {})
<1>1. \A c \in cache : c.exp \in Nat
  BY DEF TypeOK, Session
<1>2. \A s \in S : s.exp \in Nat
  BY DEF Session
<1>3. now \in Nat
  BY DEF TypeOK
<1>4. Covers(Fresh(S), T)
  BY <1>1, <1>2, <1>3 DEF Covers, CacheSound, Fresh
<1>. QED  BY <1>4 DEF Covers

\* An entry of a session that was not closed goes into secondary storage.
LEMMA PutSound ==
  ASSUME TypeOK, StoresSound, NEW s \in Session, s.tok < next, ~Closed(s.tok), cache' = Put(cache, s),
         UNCHANGED <<now, next, rows, dead, fired>>
  PROVE  StoresSound'
<1>1. CacheSound'
  BY DEF StoresSound, CacheSound, Put, Without
<1>2. \A t \in dead : t \notin ToksOf(Put(cache, s))
  BY DEF StoresSound, ToksOf, Put, Without, Closed
<1>. QED  BY <1>1, <1>2 DEF StoresSound, HooksRunOnce, ClosedOver, Closed

\* The calls that begin.
LEMMA BeginSound ==
  ASSUME SerialPreserved, PreservedInv, NEW p \in Procs, Begin(p), ~Create(p)
  PROVE  StoresSound' /\ CallSound(p)'
<1>1. UNCHANGED <<now, next, rows, cache, list, dead, fired>>
  BY DEF Begin, Update, Refresh, Delete, CleanUp, DeleteMany, RevokeAll, store, history
<1>2. pc[p] = "idle"
  BY DEF Begin, Update, Refresh, Delete, CleanUp, DeleteMany, RevokeAll, Start
<1>3. Covers(list, {}) /\ Open /\ aim[p] = {}
  BY <1>2 DEF PreservedInv, CallSound, ListCovers, Ends
<1>4. Covers(list, {})' /\ Open'
  BY <1>1, <1>3 DEF Covers, Open, Closed
<1>5. \A o, T : Start(p, o, T) => op'[p] = o /\ sel'[p] = T
  BY DEF Start, PreservedInv, TypeOK
<1>6. \A l : Goto(p, l) => pc'[p] = l
  BY DEF Goto, PreservedInv, TypeOK
<1>7. Issued \subseteq 1 .. next - 1 /\ next \in Nat
  BY DEF Issued, PreservedInv, TypeOK
<1>8. CallSound(p)'
  <2>1. CASE Update(p)
    <3>1. PICK t \in Issued : Lookup(t) # {} /\ Start(p, "update", {t})
      BY <2>1 DEF Update
    <3>2. pc'[p] = "getToken" /\ sel'[p] = {t} /\ aim' = aim
      BY <1>5, <1>6, <2>1, <3>1, PreservedMode DEF Update, history
    <3>3. ~Closed(t)
      BY <1>3, <3>1, PreservedMode DEF Open, Of
    <3>4. t < next
      BY <1>7
    <3>5. ~Closed(t)'
      BY <1>1, <3>3 DEF Closed
    <3>. QED  BY <1>1, <1>3, <1>4, <3>2, <3>4, <3>5 DEF CallSound, ListCovers, Writes, Ends
  <2>2. CASE Refresh(p)
    <3>1. pc'[p] = "scan" /\ aim' = aim /\ hold' = hold
      BY <1>6, <2>2 DEF Refresh, history
    <3>2. hold[p] = {}
      BY <1>2 DEF PreservedInv, CallSound, Writes
    <3>. QED  BY <1>1, <1>3, <1>4, <3>1, <3>2 DEF CallSound, ListCovers, Writes, Ends
  <2>3. CASE Delete(p) \/ CleanUp(p)
    <3>1. PICK t \in Issued, o \in {"delete", "cleanUp"} :
             Start(p, o, {t}) /\ (aim' = [aim EXCEPT ![p] = {t}] \/ aim' = aim)
      BY <2>3 DEF Delete, CleanUp, history
    <3>2. sel'[p] = {t} /\ op'[p] = o
      BY <1>5, <3>1
    <3>3. aim'[p] = {t} \/ aim' = aim
      BY <3>1 DEF PreservedInv, TypeOK
    <3>4. sel'[p] = {t} /\ (aim'[p] = {t} \/ aim' = aim) /\ op'[p] # "revokeAll"
      BY <3>1, <3>2, <3>3
    <3>5. pc'[p] = "unlist"
      BY <1>6, <2>3, PreservedMode DEF Delete, CleanUp
    <3>6. aim'[p] \subseteq {t} /\ t < next
      BY <1>3, <1>7, <3>4
    <3>. QED  BY <1>1, <1>3, <1>4, <3>4, <3>5, <3>6 DEF CallSound, ListCovers, Writes, Ends
  <2>4. CASE DeleteMany(p)
    <3>1. PICK T \in SUBSET Issued : /\ Start(p, "deleteMany", T) /\ aim' = [aim EXCEPT ![p] = T]
                                     /\ hold' = [hold EXCEPT ![p] = {[tok |-> t, exp |-> 1] : t \in T}]
      BY <2>4 DEF DeleteMany
    <3>2. op'[p] = "deleteMany" /\ sel'[p] = T /\ aim'[p] = T /\ hold'[p] = {[tok |-> t, exp |-> 1] : t \in T}
      BY <1>5, <3>1 DEF PreservedInv, TypeOK
    <3>3. pc'[p] = "dropSome"
      BY <1>6, <2>4, PreservedMode DEF DeleteMany
    <3>4. T \subseteq ToksOf(hold[p])'
      <4>1. \A t \in T : [tok |-> t, exp |-> 1] \in hold'[p] /\ [tok |-> t, exp |-> 1].tok = t
        BY <3>2
      <4>. QED  BY <4>1 DEF ToksOf
    <3>5. ToksOf(Of(cache, sel[p]))' \subseteq T
      BY <3>2 DEF ToksOf, Of
    <3>6. \A t \in T : t < next
      BY <1>7
    <3>. QED  BY <1>1, <1>4, <3>2, <3>3, <3>4, <3>5, <3>6 DEF CallSound, ListCovers, Writes, Ends
  <2>5. CASE RevokeAll(p)
    <3>1. /\ sel'[p] = Tokens /\ op'[p] = "revokeAll" /\ got'[p] = list
          /\ aim'[p] = {t \in Tokens : due[t] > 0 /\ Alive(t)}
      BY <1>5, <2>5, PreservedMode DEF RevokeAll, PreservedInv, TypeOK
    <3>2. pc'[p] = "findRows"
      BY <1>6, <2>5, PreservedMode DEF RevokeAll
    <3>3. ToksOf(cache)' \subseteq ToksOf(got[p])'
      BY <1>3, <1>1, <3>1 DEF Covers, ToksOf
    <3>4. \A t \in aim'[p] : t < next
      BY <3>1 DEF Alive, PreservedInv, StoresSound, CacheSound
    <3>. QED  BY <1>1, <1>4, <3>1, <3>2, <3>3, <3>4 DEF CallSound, ListCovers, Writes, Ends
  <2>. QED  BY <2>1, <2>2, <2>3, <2>4, <2>5 DEF Begin
<1>. QED  BY <1>1, <1>8, StoresKept DEF PreservedInv

\* createSession and its mirror.
LEMMA CreateSound ==
  ASSUME SerialPreserved, PreservedInv, NEW p \in Procs,
         Create(p) \/ ListForCreate(p) \/ AddToList(p) \/ AddToken(p)
  PROVE  StoresSound' /\ CallSound(p)'
<1>0. /\ \A l : Goto(p, l) => pc'[p] = l
      /\ now \in Nat /\ next \in Nat
      /\ Cached /\ InDatabase
  BY PreservedMode DEF Goto, PreservedInv, TypeOK
<1>1. CASE Create(p)
  <2>1. PICK l \in Lifetimes : /\ rows' = rows \cup {[tok |-> next, exp |-> now + l]}
                               /\ hold' = [hold EXCEPT ![p] = {[tok |-> next, exp |-> now + l]}]
    BY <1>0, <1>1 DEF Create
  <2>2. /\ pc[p] = "idle" /\ pc'[p] = "listing" /\ next' = next + 1
        /\ UNCHANGED <<now, cache, list, aim, dead, fired>>
    BY <1>0, <1>1 DEF Create
  <2>3. hold'[p] = {[tok |-> next, exp |-> now + l]} /\ next \in Tokens
    BY <1>0, <1>1, <2>1 DEF Create, PreservedInv, TypeOK, Tokens
  <2>4. ~Closed(next) /\ \A r \in rows : r.tok < next
    BY <1>0, <2>3 DEF PreservedInv, StoresSound, ClosedOver
  <2>5. \A t : Closed(t)' <=> Closed(t)
    BY <2>2 DEF Closed
  <2>6. \A t \in Tokens : t < next => t < next'
    BY <1>0, <2>2 DEF Tokens
  <2>7. ClosedOver'
    BY <2>1, <2>2, <2>4, <2>5, <2>6 DEF PreservedInv, StoresSound, ClosedOver
  <2>8. CacheSound'
    BY <2>2, <2>6 DEF PreservedInv, StoresSound, CacheSound, TypeOK, Session
  <2>9. \A r \in rows' : r.tok < next'
    BY <1>0, <2>1, <2>2, <2>6 DEF PreservedInv, StoresSound, TypeOK, Session
  <2>10. StoresSound'
    BY <2>2, <2>7, <2>8, <2>9 DEF PreservedInv, StoresSound, HooksRunOnce, ToksOf
  <2>11. Covers(list, {})' /\ Open' /\ aim'[p] = {}
    BY <2>2, <2>5 DEF PreservedInv, CallSound, ListCovers, Ends, Covers, Open
  <2>12. \A s \in hold'[p] : s.tok < next' /\ ~Closed(s.tok)'
    BY <1>0, <2>2, <2>3, <2>4, <2>5
  <2>. QED  BY <2>2, <2>3, <2>10, <2>11, <2>12 DEF CallSound, ListCovers, Writes, Ends
<1>2. CASE ListForCreate(p)
  <2>1. /\ UNCHANGED <<now, next, rows, cache, list, dead, fired, aim, sel, hold>>
        /\ pc[p] = "listing" /\ pc'[p] = "addToList" /\ got'[p] = Fresh(list)
    BY <1>0, <1>2 DEF ListForCreate, store, history, PreservedInv, TypeOK
  <2>2. Covers(Fresh(list), {})
    BY <2>1, FreshCovers DEF PreservedInv, StoresSound, CallSound, ListCovers, TypeOK
  <2>3. Covers(got[p], {})'
    BY <2>1, <2>2 DEF Covers
  <2>4. CallSound(p)'
    BY <2>1, <2>3 DEF PreservedInv, CallSound, ListCovers, Writes, Ends, Open, Closed
  <2>. QED  BY <2>1, <2>4, StoresKept DEF PreservedInv
<1>3. CASE AddToList(p)
  <2>1. /\ UNCHANGED <<now, next, rows, cache, dead, fired, aim, sel, hold>>
        /\ pc[p] = "addToList" /\ pc'[p] = "addToken"
        /\ list' = IF Fresh(Listed(p)) # {} THEN Listed(p) ELSE list
    BY <1>0, <1>3 DEF AddToList, local, history
  <2>2. Covers(got[p], {}) /\ Listed(p) \in SUBSET Session
    BY <2>1 DEF PreservedInv, CallSound, ListCovers, Listed, TypeOK
  <2>3. Covers(Listed(p), {})
    BY <2>2 DEF Covers, Listed
  <2>4. Covers(list, {})'
    <3>1. Covers(Listed(p), {})'
      BY <2>1, <2>3, <1>3 DEF Covers, Listed, AddToList, local
    <3>2. CASE Fresh(Listed(p)) # {}
      BY <2>1, <2>3, <3>2 DEF Covers
    <3>3. CASE Fresh(Listed(p)) = {}
      BY <2>1, <2>2, <2>3, <3>3, FreshCovers DEF Covers, PreservedInv, StoresSound
    <3>. QED  BY <3>2, <3>3
  <2>5. \A s \in hold[p] : s.exp > now => \E l \in list' : l.tok = s.tok /\ l.exp >= s.exp
    <3>. SUFFICES ASSUME NEW s \in hold[p], s.exp > now PROVE \E l \in list' : l.tok = s.tok /\ l.exp >= s.exp
      OBVIOUS
    <3>1. s \in Listed(p) /\ s \in Fresh(Listed(p)) /\ s.exp \in Nat
      BY DEF Listed, Fresh, PreservedInv, TypeOK, Session
    <3>. QED  BY <2>1, <3>1
  <2>6. CallSound(p)'
    BY <2>1, <2>4, <2>5 DEF PreservedInv, CallSound, ListCovers, Writes, Ends, Open, Closed
  <2>. QED  BY <2>1, <2>6, StoresKept DEF PreservedInv
<1>4. CASE AddToken(p)
  <2>1. PICK s \in hold[p] : cache' = Put(cache, s)
    BY <1>4 DEF AddToken
  <2>2. Finish(p) /\ pc[p] = "addToken" /\ UNCHANGED <<now, next, rows, list, dead, fired>>
    BY <1>4 DEF AddToken
  <2>3. /\ s.tok < next /\ ~Closed(s.tok) /\ s \in Session
        /\ s.exp > now => \E l \in list : l.tok = s.tok /\ l.exp >= s.exp
        /\ Covers(list, {}) /\ Open
    BY <2>2 DEF PreservedInv, CallSound, ListCovers, Writes, TypeOK
  <2>4. StoresSound'
    BY <2>1, <2>2, <2>3, PutSound DEF PreservedInv
  <2>5. Covers(list, {})' /\ Open'
    BY <2>1, <2>2, <2>3 DEF Covers, Open, Put, Without, Closed
  <2>. QED  BY <2>2, <2>4, <2>5, IdleSound DEF PreservedInv
<1>. QED  BY <1>1, <1>2, <1>3, <1>4

\* Fewer entries are in secondary storage.
LEMMA DropSound ==
  ASSUME StoresSound, cache' \subseteq cache, UNCHANGED <<now, next, rows, dead, fired>>
  PROVE  StoresSound'
BY DEF StoresSound, HooksRunOnce, ClosedOver, Closed, CacheSound, ToksOf

\* updateSession.
LEMMA UpdateSound ==
  ASSUME SerialPreserved, PreservedInv, NEW p \in Procs,
         GetToken(p) \/ SetToken(p) \/ Relist(p) \/ SetRelist(p) \/ UpdateRow(p)
  PROVE  StoresSound' /\ CallSound(p)'
<1>0. /\ \A l : Goto(p, l) => pc'[p] = l
      /\ now \in Nat /\ next \in Nat
      /\ Cached /\ InDatabase
      /\ pc[p] \in {"getToken", "setToken", "relist", "setRelist", "updateRow"}
      /\ \A t, u \in sel[p] : t < next /\ ~Closed(t) /\ t = u
      /\ Open /\ aim[p] \subseteq sel[p] /\ \A t \in aim[p] : t < next
  BY PreservedMode DEF Goto, PreservedInv, TypeOK, CallSound, Writes, Ends,
                       GetToken, SetToken, Relist, SetRelist, UpdateRow
<1>1. CASE GetToken(p)
  <2>1. /\ UNCHANGED <<now, next, rows, cache, list, dead, fired, sel, aim>>
        /\ pc[p] = "getToken" /\ pc'[p] \in {"setToken", "updateRow"} /\ hold'[p] = Of(cache, sel[p])
    BY <1>0, <1>1 DEF GetToken, store, PreservedInv, TypeOK
  <2>2. ToksOf(hold[p])' \subseteq sel[p]
    BY <2>1 DEF ToksOf, Of
  <2>3. Covers(list, {})' /\ Open'
    BY <1>0, <2>1 DEF PreservedInv, CallSound, ListCovers, Covers, Open, Closed
  <2>4. CallSound(p)'
    BY <1>0, <2>1, <2>2, <2>3 DEF CallSound, ListCovers, Writes, Ends, Closed
  <2>. QED  BY <2>1, <2>4, StoresKept DEF PreservedInv
<1>2. CASE SetToken(p)
  <2>1. PICK s \in Merged(p) : /\ cache' = Put(cache, s) /\ hold' = [hold EXCEPT ![p] = {s}]
                               /\ Goto(p, IF s.exp > now THEN "relist" ELSE "updateRow")
    BY <1>2 DEF SetToken
  <2>2. /\ UNCHANGED <<now, next, rows, list, dead, fired, sel, aim>>
        /\ pc[p] = "setToken" /\ pc'[p] = IF s.exp > now THEN "relist" ELSE "updateRow"
        /\ hold'[p] = {s}
    BY <1>0, <1>2, <2>1 DEF SetToken, history, PreservedInv, TypeOK
  <2>3. s \in Session /\ s.tok \in sel[p]
    <3>1. PICK h \in hold[p] : s = [h EXCEPT !.exp = IF time[p] = 0 THEN h.exp ELSE time[p]]
      BY DEF Merged
    <3>2. h \in Session /\ h.tok \in sel[p] /\ h.exp \in Nat \ {0} /\ time[p] \in Nat
      BY <2>2 DEF PreservedInv, TypeOK, CallSound, Writes, ToksOf, Session
    <3>. QED  BY <3>1, <3>2, RenewedIsSession
  <2>4. s.tok < next /\ ~Closed(s.tok) /\ \A t \in sel[p] : t = s.tok
    BY <1>0, <2>3
  <2>5. StoresSound'
    BY <2>1, <2>2, <2>3, <2>4, PutSound DEF PreservedInv
  <2>6. Covers(list, sel[p]) /\ Covers(list, {})
    BY <2>2 DEF PreservedInv, CallSound, ListCovers, Covers
  <2>7. CASE s.exp > now
    <3>1. cache' = {c \in cache : c.tok # s.tok} \cup {s}
      BY <2>1, <2>7 DEF Put, Without
    <3>2. Covers(list, sel[p])' /\ Open'
      BY <1>0, <2>2, <2>3, <2>4, <2>6, <3>1 DEF Covers, Open, Closed
    <3>3. Of(cache, sel[p])' \subseteq hold'[p]
      BY <2>2, <2>4, <3>1 DEF Of
    <3>. QED  BY <1>0, <2>2, <2>5, <2>7, <3>2, <3>3 DEF CallSound, ListCovers, Writes, Ends, Closed
  <2>8. CASE ~(s.exp > now)
    <3>1. cache' = cache
      BY <2>1, <2>8 DEF Put
    <3>2. Covers(list, {})' /\ Open'
      BY <1>0, <2>2, <2>6, <3>1 DEF Covers, Open, Closed
    <3>. QED  BY <1>0, <2>2, <2>5, <2>8, <3>2 DEF CallSound, ListCovers, Writes, Ends, Closed
  <2>. QED  BY <2>7, <2>8
<1>3. CASE Relist(p)
  <2>1. /\ UNCHANGED <<now, next, rows, cache, list, dead, fired, sel, aim, hold>>
        /\ pc[p] = "relist" /\ pc'[p] = "setRelist" /\ got'[p] = Without(Fresh(list), sel[p])
    BY <1>0, <1>3 DEF Relist, store, history, PreservedInv, TypeOK
  <2>2. Covers(Fresh(list), sel[p])
    BY <2>1, FreshCovers DEF PreservedInv, StoresSound, CallSound, ListCovers, TypeOK
  <2>3. Covers(got[p], sel[p])'
    BY <2>1, <2>2 DEF Covers, Without
  <2>4. (Of(cache, sel[p]) \subseteq hold[p])'
    BY <2>1 DEF PreservedInv, CallSound, Writes, Of
  <2>5. Open'
    BY <1>0, <2>1 DEF Open, Closed
  <2>6. CallSound(p)'
    BY <1>0, <2>1, <2>3, <2>4, <2>5 DEF CallSound, ListCovers, Writes, Ends, Closed
  <2>. QED  BY <2>1, <2>6, StoresKept DEF PreservedInv
<1>4. CASE SetRelist(p)
  <2>1. /\ UNCHANGED <<now, next, rows, cache, dead, fired, sel, aim, hold>>
        /\ pc[p] = "setRelist" /\ pc'[p] = "updateRow"
        /\ list' = IF Fresh(Listed(p)) # {} THEN Listed(p) ELSE {}
    BY <1>0, <1>4 DEF SetRelist, local, history
  <2>2. Covers(got[p], sel[p]) /\ Of(cache, sel[p]) \subseteq hold[p] /\ Listed(p) \in SUBSET Session
    BY <2>1 DEF PreservedInv, CallSound, ListCovers, Writes, Listed, TypeOK
  <2>3. Covers(Listed(p), {})
    <3>1. \A c \in cache : c.exp >= c.exp
      BY DEF PreservedInv, TypeOK, Session
    <3>. QED  BY <2>2, <3>1 DEF Covers, Listed, Of
  <2>4. Fresh(Listed(p)) = {} => cache = {}
    BY <2>2, <2>3, FreshCovers DEF PreservedInv, StoresSound
  <2>5. Covers(list, {})'
    BY <2>1, <2>3, <2>4 DEF Covers
  <2>6. Open'
    BY <1>0, <2>1 DEF Open, Closed
  <2>7. CallSound(p)'
    BY <1>0, <2>1, <2>5, <2>6 DEF CallSound, ListCovers, Writes, Ends, Closed
  <2>. QED  BY <2>1, <2>7, StoresKept DEF PreservedInv
<1>5. CASE UpdateRow(p)
  <2>1. /\ Finish(p) /\ UNCHANGED <<now, next, cache, list, dead, fired>>
        /\ rows' = rows \/ rows' = UpdatedRows(p)
    BY <1>5 DEF UpdateRow
  <2>2. \A r \in rows' : /\ r.tok \in ToksOf(rows)
                         /\ r.tok \notin sel[p] => r \in rows
    <3>1. \A r \in rows : /\ [r EXCEPT !.exp = time[p]].tok = r.tok
                          /\ r.tok \in ToksOf(rows)
      BY DEF PreservedInv, TypeOK, Session, ToksOf
    <3>2. CASE rows' = rows
      BY <3>1, <3>2
    <3>3. CASE rows' = UpdatedRows(p)
      <4>. SUFFICES ASSUME NEW q \in rows,
                           NEW r, r = IF q.tok \in sel[p] THEN [q EXCEPT !.exp = time[p]] ELSE q
                    PROVE  r.tok \in ToksOf(rows) /\ (r.tok \notin sel[p] => r \in rows)
        BY <3>3 DEF UpdatedRows
      <4>. QED  BY <3>1
    <3>. QED  BY <2>1, <3>2, <3>3
  <2>3. \A r \in rows' : r.tok < next
    BY <2>2 DEF PreservedInv, StoresSound, ToksOf
  <2>4. ClosedOver'
    <3>1. \A t \in Tokens : Closed(t) => t \notin sel[p]
      BY <1>0
    <3>. QED  BY <2>1, <2>2, <3>1 DEF PreservedInv, StoresSound, ClosedOver, Closed
  <2>5. StoresSound'
    BY <2>1, <2>3, <2>4 DEF PreservedInv, StoresSound, HooksRunOnce, CacheSound, ToksOf
  <2>6. Covers(list, {})' /\ Open'
    BY <1>0, <1>5, <2>1 DEF UpdateRow, PreservedInv, CallSound, ListCovers, Covers, Open, Closed
  <2>. QED  BY <2>1, <2>5, <2>6, IdleSound DEF PreservedInv
<1>. QED  BY <1>1, <1>2, <1>3, <1>4, <1>5

\* refreshUserSessions.
LEMMA RefreshSound ==
  ASSUME SerialPreserved, PreservedInv, NEW p \in Procs, Scan(p) \/ WriteBack(p) \/ Refreshed(p)
  PROVE  StoresSound' /\ CallSound(p)'
<1>0. /\ pc[p] = "scan" /\ UNCHANGED <<now, next, rows, list, dead, fired>>
      /\ Covers(list, {}) /\ Open
  BY DEF Scan, WriteBack, Refreshed, store, history, PreservedInv, CallSound, ListCovers
<1>1. CASE Scan(p)
  <2>1. /\ UNCHANGED <<cache, sel, aim, pc>>
        /\ hold'[p] \subseteq hold[p] \cup cache
    BY <1>1 DEF Scan, store, history, Of, PreservedInv, TypeOK
  <2>2. \A s \in hold'[p] : s.exp > now => s \in cache
    BY <1>0, <2>1 DEF PreservedInv, CallSound, Writes
  <2>3. Covers(list, {})' /\ Open'
    BY <1>0, <2>1 DEF Covers, Open, Closed
  <2>4. CallSound(p)'
    BY <1>0, <2>1, <2>2, <2>3 DEF PreservedInv, CallSound, ListCovers, Writes, Ends
  <2>. QED  BY <1>0, <2>1, <2>4, StoresKept DEF PreservedInv
<1>2. CASE WriteBack(p)
  <2>1. PICK s \in hold[p] : cache' = Put(cache, s) /\ hold' = [hold EXCEPT ![p] = @ \ {s}]
    BY <1>2 DEF WriteBack
  <2>2. UNCHANGED <<pc, sel, aim>> /\ hold'[p] \subseteq hold[p]
    BY <1>2, <2>1 DEF WriteBack, history, PreservedInv, TypeOK
  <2>3. s.exp > now => s \in cache
    BY <1>0 DEF PreservedInv, CallSound, Writes
  <2>4. cache' = cache
    BY <2>1, <2>3 DEF Put, Without, PreservedInv, StoresSound, CacheSound
  <2>5. Covers(list, {})' /\ Open'
    BY <1>0, <2>4 DEF Covers, Open, Closed
  <2>6. CallSound(p)'
    BY <1>0, <2>2, <2>4, <2>5 DEF PreservedInv, CallSound, ListCovers, Writes, Ends
  <2>. QED  BY <1>0, <2>4, <2>6, StoresKept DEF PreservedInv
<1>3. CASE Refreshed(p)
  <2>1. Finish(p) /\ cache' = cache
    BY <1>3 DEF Refreshed, store
  <2>2. Covers(list, {})' /\ Open'
    BY <1>0, <2>1 DEF Covers, Open, Closed
  <2>. QED  BY <1>0, <2>1, <2>2, StoresKept, IdleSound DEF PreservedInv
<1>. QED  BY <1>1, <1>2, <1>3

\* The calls that end sessions, before they end the rows.
LEMMA DropFromCacheSound ==
  ASSUME SerialPreserved, PreservedInv, NEW p \in Procs,
         Unlist(p) \/ ReadList(p) \/ SetList(p) \/ DropToken(p) \/ DropSome(p) \/ DroppedSome(p)
  PROVE  StoresSound' /\ CallSound(p)'
<1>0. /\ \A l : Goto(p, l) => pc'[p] = l
      /\ Cached /\ InDatabase
      /\ UNCHANGED <<now, next, rows, dead, fired, op, sel, aim>>
      /\ pc[p] \in {"unlist", "readList", "setList", "dropToken", "dropSome"}
      /\ Open /\ aim[p] \subseteq sel[p] /\ \A t \in aim[p] : t < next
      /\ op[p] # "revokeAll"
  BY PreservedMode DEF Goto, PreservedInv, TypeOK, CallSound, Ends, store, local, history,
                       Unlist, ReadList, SetList, DropToken, DropSome, DroppedSome
<1>1. CASE Unlist(p)
  <2>1. UNCHANGED <<cache, list>> /\ pc[p] = "unlist" /\ pc'[p] \in {"readList", "dropToken"}
    BY <1>0, <1>1 DEF Unlist, store
  <2>2. Covers(list, {})' /\ Covers(list, sel[p])' /\ Open'
    BY <1>0, <2>1 DEF PreservedInv, CallSound, ListCovers, Covers, Open, Closed
  <2>3. CallSound(p)'
    BY <1>0, <2>1, <2>2 DEF CallSound, ListCovers, Writes, Ends
  <2>. QED  BY <1>0, <2>1, <2>3, StoresKept DEF PreservedInv
<1>2. CASE ReadList(p)
  <2>1. /\ UNCHANGED <<cache, list>> /\ pc[p] = "readList" /\ pc'[p] \in {"setList", "dropToken"}
        /\ got'[p] = Without(Fresh(list), sel[p])
    BY <1>0, <1>2 DEF ReadList, AfterReadList, store, PreservedInv, TypeOK
  <2>2. Covers(list, {}) /\ Covers(Fresh(list), {})
    BY <2>1, FreshCovers DEF PreservedInv, StoresSound, CallSound, ListCovers, TypeOK
  <2>3. Covers(list, sel[p])' /\ Covers(got[p], sel[p])' /\ Open'
    BY <1>0, <2>1, <2>2 DEF Covers, Open, Closed, Without
  <2>4. CallSound(p)'
    BY <1>0, <2>1, <2>3 DEF CallSound, ListCovers, Writes, Ends
  <2>. QED  BY <1>0, <2>1, <2>4, StoresKept DEF PreservedInv
<1>3. CASE SetList(p)
  <2>1. /\ UNCHANGED <<cache, got>> /\ pc[p] = "setList" /\ pc'[p] = "dropToken"
        /\ list' = IF Fresh(got[p]) # {} THEN got[p] ELSE {}
    BY <1>0, <1>3 DEF SetList, local
  <2>2. Covers(got[p], sel[p]) /\ Covers(Fresh(got[p]), sel[p])
    BY <2>1, FreshCovers DEF PreservedInv, StoresSound, CallSound, ListCovers, TypeOK
  <2>3. Covers(list, sel[p])' /\ Open'
    BY <1>0, <2>1, <2>2 DEF Covers, Open, Closed
  <2>4. CallSound(p)'
    BY <1>0, <2>1, <2>3 DEF CallSound, ListCovers, Writes, Ends
  <2>. QED  BY <1>0, <2>1, <2>4, StoresKept DEF PreservedInv
<1>4. CASE DropToken(p)
  <2>1. /\ cache' = Without(cache, sel[p]) /\ list' = list
        /\ pc[p] = "dropToken" /\ pc'[p] = "findRows"
    BY <1>0, <1>4 DEF DropToken
  <2>2. cache' \subseteq cache /\ Of(cache, sel[p])' = {}
    BY <1>0, <2>1 DEF Without, Of
  <2>3. Covers(list, {})' /\ Open'
    BY <1>0, <2>1 DEF PreservedInv, CallSound, ListCovers, Covers, Open, Closed, Without
  <2>4. CallSound(p)'
    BY <1>0, <2>1, <2>2, <2>3 DEF CallSound, ListCovers, Writes, Ends
  <2>. QED  BY <1>0, <2>2, <2>4, DropSound DEF PreservedInv
<1>5. CASE DropSome(p)
  <2>1. PICK s \in hold[p] : cache' = Without(cache, {s.tok}) /\ hold' = [hold EXCEPT ![p] = @ \ {s}]
    BY <1>5 DEF DropSome
  <2>2. list' = list /\ pc[p] = "dropSome" /\ pc' = pc /\ hold'[p] = hold[p] \ {s}
    BY <1>5, <2>1 DEF DropSome, PreservedInv, TypeOK
  <2>3. cache' = {c \in cache : c.tok # s.tok}
    BY <2>1 DEF Without
  <2>4. ToksOf(Of(cache, sel[p]))' \subseteq ToksOf(hold[p])'
    <3>1. \A c \in cache : c.tok \in sel[p] => \E h \in hold[p] : h.tok = c.tok
      BY <2>2 DEF PreservedInv, CallSound, Ends, ToksOf, Of
    <3>2. \A c \in cache' : c.tok \in sel[p] => \E h \in hold'[p] : h.tok = c.tok
      BY <2>2, <2>3, <3>1
    <3>. QED  BY <1>0, <3>2 DEF ToksOf, Of
  <2>5. Covers(list, {})' /\ Open'
    BY <1>0, <2>2, <2>3 DEF PreservedInv, CallSound, ListCovers, Covers, Open, Closed
  <2>6. CallSound(p)'
    BY <1>0, <2>2, <2>4, <2>5 DEF CallSound, ListCovers, Writes, Ends
  <2>. QED  BY <1>0, <2>3, <2>6, DropSound DEF PreservedInv
<1>6. CASE DroppedSome(p)
  <2>1. UNCHANGED <<cache, list>> /\ pc[p] = "dropSome" /\ hold[p] = {} /\ pc'[p] = "findRows"
    BY <1>0, <1>6 DEF DroppedSome, store
  <2>2. Of(cache, sel[p])' = {}
    BY <1>0, <2>1 DEF PreservedInv, CallSound, Ends, ToksOf, Of
  <2>3. Covers(list, {})' /\ Open'
    BY <1>0, <2>1 DEF PreservedInv, CallSound, ListCovers, Covers, Open, Closed
  <2>4. CallSound(p)'
    BY <1>0, <2>1, <2>2, <2>3 DEF CallSound, ListCovers, Writes, Ends
  <2>. QED  BY <1>0, <2>1, <2>4, StoresKept DEF PreservedInv
<1>. QED  BY <1>1, <1>2, <1>3, <1>4, <1>5, <1>6

\* The rows that were read live are marked as ended, and their hooks run.
LEMMA EndRowsSound ==
  ASSUME SerialPreserved, PreservedInv, NEW p \in Procs, EndRows(p)
  PROVE  StoresSound' /\ CallSound(p)'
<1>0. /\ \A l : Goto(p, l) => pc'[p] = l
      /\ now \in Nat /\ Cached /\ Mode = "preserve"
      /\ UNCHANGED <<now, next, cache, list>> /\ pc[p] = "endRows"
      /\ \A r \in rows : r.exp \in Nat /\ r.tok \in Tokens
  BY PreservedMode DEF Goto, PreservedInv, TypeOK, EndRows, Session
<1>1. /\ hold[p] = Targets(p, time[p]) /\ time[p] \in Nat /\ time[p] <= now
      /\ \A s \in hold[p] : fired[s.tok] = 0
      /\ aim[p] \subseteq sel[p] /\ \A t \in aim[p] : t < next
      /\ Covers(list, {}) /\ Open
  BY <1>0 DEF PreservedInv, TypeOK, CallSound, ListCovers, Ends
<1>2. Gone(p) = {r \in rows : r.tok \in sel[p] /\ r.exp > time[p]} /\ hold[p] = Gone(p)
  BY <1>0, <1>1 DEF Gone, Targets, Of
<1>3. rows' = (rows \ Gone(p)) \cup {[r EXCEPT !.exp = now] : r \in Gone(p)}
  BY <1>0 DEF EndRows
<1>4. \A r \in rows' : /\ \E q \in rows : q.tok = r.tok /\ r.exp <= (IF q.exp > now THEN q.exp ELSE now)
                       /\ r.tok \in sel[p] => r.exp <= now
                       /\ r \in rows \/ r.exp = now
  <2>1. \A q \in Gone(p) : [q EXCEPT !.exp = now].tok = q.tok /\ [q EXCEPT !.exp = now].exp = now
    BY <1>0, <1>2 DEF PreservedInv, TypeOK, Session
  <2>2. \A r \in rows' : (r \in rows /\ r \notin Gone(p)) \/ \E q \in Gone(p) : r = [q EXCEPT !.exp = now]
    BY <1>3
  <2>3. ASSUME NEW r \in rows', r \in rows, r \notin Gone(p)
        PROVE  /\ \E q \in rows : q.tok = r.tok /\ r.exp <= (IF q.exp > now THEN q.exp ELSE now)
               /\ r.tok \in sel[p] => r.exp <= now
    BY <1>0, <1>1, <1>2, <2>3
  <2>4. ASSUME NEW r \in rows', NEW q \in Gone(p), r = [q EXCEPT !.exp = now]
        PROVE  /\ \E x \in rows : x.tok = r.tok /\ r.exp <= (IF x.exp > now THEN x.exp ELSE now)
               /\ r.exp <= now /\ r.exp = now
    <3>1. r.tok = q.tok /\ r.exp = now /\ q \in rows
      BY <1>2, <2>1, <2>4
    <3>. QED  BY <1>0, <3>1
  <2>. QED  BY <2>2, <2>3, <2>4
<1>5. \A r \in rows' : r.tok < next
  BY <1>4 DEF PreservedInv, StoresSound
<1>6. \A t \in Tokens : /\ t \in ToksOf(hold[p]) => fired'[t] = 1 /\ t \in sel[p] /\ t < next
                        /\ t \notin ToksOf(hold[p]) => fired'[t] = fired[t]
  <2>1. fired' = [t \in Tokens |-> IF t \in ToksOf(hold[p]) THEN fired[t] + 1 ELSE fired[t]]
    BY DEF EndRows
  <2>2. \A t \in ToksOf(hold[p]) : fired[t] = 0 /\ t \in sel[p] /\ t < next
    BY <1>1, <1>2 DEF ToksOf, PreservedInv, StoresSound
  <2>. QED  BY <2>1, <2>2
<1>7. dead' \subseteq dead \cup aim[p]
  BY DEF EndRows, Ended
<1>8. \A t \in Tokens : Closed(t)' => Closed(t) \/ (t \in sel[p] /\ t < next)
  BY <1>1, <1>6, <1>7 DEF Closed
<1>9. HooksRunOnce'
  BY <1>6 DEF PreservedInv, StoresSound, HooksRunOnce
<1>10. ClosedOver'
  <2>. SUFFICES ASSUME NEW t \in Tokens, Closed(t)' PROVE t < next /\ \A r \in rows' : r.tok = t => r.exp <= now
    BY <1>0 DEF ClosedOver
  <2>1. CASE t \in sel[p] /\ t < next
    BY <1>4, <2>1
  <2>2. CASE Closed(t)
    <3>1. t < next /\ \A r \in rows : r.tok = t => r.exp <= now
      BY <2>2 DEF PreservedInv, StoresSound, ClosedOver
    <3>2. ASSUME NEW r \in rows', r.tok = t PROVE r.exp <= now
      BY <1>0, <1>4, <3>1, <3>2
    <3>. QED  BY <3>1, <3>2
  <2>. QED  BY <1>8, <2>1, <2>2
<1>11. CASE op[p] = "revokeAll"
  <2>1. /\ pc'[p] = "dropTokens" /\ hold'[p] = got[p] /\ UNCHANGED <<sel, aim, dead>>
        /\ ToksOf(cache) \subseteq ToksOf(got[p]) /\ sel[p] = Tokens
    BY <1>0, <1>11 DEF EndRows, PreservedInv, TypeOK, CallSound, Ends
  <2>2. StoresSound'
    BY <1>0, <1>5, <1>9, <1>10, <2>1 DEF PreservedInv, StoresSound, CacheSound, ToksOf
  <2>3. \A r \in rows' : r.exp <= now
    BY <1>0, <1>4, <2>1
  <2>4. (ToksOf(cache) \subseteq ToksOf(hold[p]))'
    BY <1>0, <2>1 DEF ToksOf
  <2>. QED  BY <1>0, <1>1, <2>1, <2>2, <2>3, <2>4 DEF CallSound, ListCovers, Writes, Ends
<1>12. CASE op[p] # "revokeAll"
  <2>1. Ended(p) /\ dead' = dead \cup aim[p] /\ Of(cache, sel[p]) = {}
    BY <1>0, <1>12 DEF EndRows, Ended, PreservedInv, CallSound, Ends
  <2>2. \A c \in cache : c.tok \notin sel[p] /\ c.tok \in Tokens
    BY <2>1 DEF Of, PreservedInv, TypeOK, Session
  <2>3. \A t \in dead' : t \notin ToksOf(cache')
    BY <1>0, <1>1, <2>1, <2>2 DEF PreservedInv, StoresSound, ToksOf
  <2>4. StoresSound'
    BY <1>0, <1>5, <1>9, <1>10, <2>3 DEF PreservedInv, StoresSound, CacheSound
  <2>5. Covers(list, {})'
    BY <1>0, <1>1 DEF Covers
  <2>6. Open'
    <3>1. \A t : Closed(t)' /\ t \in Tokens /\ t \notin sel[p] => Closed(t)
      BY <1>8
    <3>. QED  BY <1>0, <1>1, <2>2, <3>1 DEF Open
  <2>. QED  BY <2>1, <2>4, <2>5, <2>6, IdleSound DEF PreservedInv, Ended
<1>. QED  BY <1>11, <1>12

\* The rows are read, and a veto leaves everything as it was.
LEMMA FindRowsSound ==
  ASSUME SerialPreserved, PreservedInv, NEW p \in Procs, FindRows(p) \/ Vetoed(p)
  PROVE  StoresSound' /\ CallSound(p)'
<1>0. /\ UNCHANGED <<now, next, rows, cache, list, dead, fired>> /\ now \in Nat
      /\ Covers(list, {}) /\ Open
  BY DEF FindRows, Vetoed, store, history, PreservedInv, TypeOK, CallSound, ListCovers
<1>1. Covers(list, {})' /\ Open'
  BY <1>0 DEF Covers, Open, Closed
<1>2. CASE Vetoed(p)
  BY <1>0, <1>1, <1>2, StoresKept, IdleSound DEF Vetoed, PreservedInv
<1>3. CASE FindRows(p)
  <2>1. /\ UNCHANGED <<op, sel, got, aim>> /\ pc[p] = "findRows" /\ pc'[p] = "endRows"
        /\ time'[p] = now /\ hold'[p] = Targets(p, now)
    BY <1>3 DEF FindRows, Goto, history, PreservedInv, TypeOK
  <2>2. Targets(p, now) = {r \in rows : r.tok \in sel[p] /\ r.exp > now}
    BY PreservedMode DEF Targets, Of
  <2>3. Targets(p, time[p])' = {r \in rows : r.tok \in sel[p] /\ r.exp > now}
    BY <1>0, <2>1, PreservedMode DEF Targets, Of
  <2>4. \A s \in hold'[p] : fired[s.tok] = 0
    <3>1. \A s \in hold'[p] : s \in rows /\ s.tok \in Tokens /\ s.exp \in Nat /\ s.exp > now
      BY <2>1, <2>2 DEF PreservedInv, TypeOK, Session
    <3>2. \A s \in hold'[p] : ~(s.exp <= now)
      BY <1>0, <3>1
    <3>. QED  BY <3>1, <3>2 DEF PreservedInv, StoresSound, ClosedOver, Closed
  <2>5. IF op[p] = "revokeAll" THEN ToksOf(cache) \subseteq ToksOf(got[p]) /\ sel[p] = Tokens
        ELSE Of(cache, sel[p]) = {}
    BY <2>1 DEF PreservedInv, CallSound, Ends
  <2>6. aim[p] \subseteq sel[p] /\ \A t \in aim[p] : t < next
    BY DEF PreservedInv, CallSound, Ends
  <2>7. CallSound(p)'
    BY <1>0, <1>1, <2>1, <2>2, <2>3, <2>4, <2>5, <2>6 DEF CallSound, ListCovers, Writes, Ends
  <2>. QED  BY <1>0, <2>7, StoresKept DEF PreservedInv
<1>. QED  BY <1>2, <1>3

\* deleteCachedUserSessions.
LEMMA DropTokensSound ==
  ASSUME SerialPreserved, PreservedInv, NEW p \in Procs, DropOne(p) \/ RereadList(p) \/ TrimList(p)
  PROVE  StoresSound' /\ CallSound(p)'
<1>0. /\ \A l : Goto(p, l) => pc'[p] = l
      /\ UNCHANGED <<now, next, rows, fired>>
      /\ pc[p] \in {"dropTokens", "trimList"}
      /\ aim[p] \subseteq sel[p] /\ \A t \in aim[p] : t < next
      /\ \A r \in rows : r.exp <= now
  BY DEF Goto, PreservedInv, TypeOK, CallSound, Ends, store, history, DropOne, RereadList, TrimList
<1>1. CASE DropOne(p)
  <2>1. PICK s \in hold[p] : cache' = Without(cache, {s.tok}) /\ hold' = [hold EXCEPT ![p] = @ \ {s}]
    BY <1>1 DEF DropOne
  <2>2. /\ UNCHANGED <<list, sel, aim, dead>> /\ pc[p] = "dropTokens" /\ pc' = pc
        /\ hold'[p] = hold[p] \ {s}
    BY <1>1, <2>1 DEF DropOne, history, PreservedInv, TypeOK
  <2>3. cache' = {c \in cache : c.tok # s.tok}
    BY <2>1 DEF Without
  <2>4. (ToksOf(cache) \subseteq ToksOf(hold[p]))'
    <3>1. \A c \in cache : \E h \in hold[p] : h.tok = c.tok
      BY <2>2 DEF PreservedInv, CallSound, Ends, ToksOf
    <3>2. \A c \in cache' : \E h \in hold'[p] : h.tok = c.tok
      BY <2>2, <2>3, <3>1
    <3>. QED  BY <3>2 DEF ToksOf
  <2>5. CallSound(p)'
    BY <1>0, <2>2, <2>4 DEF CallSound, ListCovers, Writes, Ends
  <2>. QED  BY <1>0, <2>2, <2>3, <2>5, DropSound DEF PreservedInv
<1>2. CASE RereadList(p)
  <2>1. /\ UNCHANGED <<cache, list, sel, aim, dead>> /\ pc[p] = "dropTokens" /\ pc'[p] = "trimList"
        /\ hold[p] = {}
    BY <1>0, <1>2 DEF RereadList, store, history
  <2>2. cache = {}
    BY <2>1 DEF PreservedInv, CallSound, Ends, ToksOf
  <2>3. CallSound(p)'
    BY <1>0, <2>1, <2>2 DEF CallSound, ListCovers, Writes, Ends, Open
  <2>. QED  BY <1>0, <2>1, <2>3, StoresKept DEF PreservedInv
<1>3. CASE TrimList(p)
  <2>1. Finish(p) /\ cache' = cache /\ cache = {} /\ dead' = dead \cup aim[p]
    BY <1>3 DEF TrimList, Ended, PreservedInv, CallSound, Ends
  <2>2. Covers(list, {})' /\ Open' /\ CacheSound'
    BY <2>1 DEF Covers, Open, CacheSound
  <2>3. ClosedOver'
    BY <1>0, <2>1 DEF PreservedInv, StoresSound, ClosedOver, Closed
  <2>4. StoresSound'
    BY <1>0, <2>1, <2>2, <2>3 DEF PreservedInv, StoresSound, HooksRunOnce, ToksOf
  <2>. QED  BY <2>1, <2>2, <2>4, IdleSound DEF PreservedInv
<1>. QED  BY <1>1, <1>2, <1>3

\* Time passes, and secondary storage drops what has expired.
LEMMA TickStores == ASSUME PreservedInv, Tick PROVE StoresSound'
<1>0. /\ now \in Nat /\ now' = now + 1
      /\ cache' = {c \in cache : c.exp > now'}
      /\ UNCHANGED <<next, rows, dead, fired>>
  BY DEF Tick, local, history, PreservedInv, TypeOK
<1>1. \A r \in rows : r.exp <= now => r.exp <= now'
  BY <1>0 DEF PreservedInv, TypeOK, Session
<1>2. CacheSound'
  BY <1>0 DEF PreservedInv, StoresSound, CacheSound
<1>3. ClosedOver'
  BY <1>0, <1>1 DEF PreservedInv, StoresSound, ClosedOver, Closed
<1>. QED  BY <1>0, <1>2, <1>3 DEF PreservedInv, StoresSound, HooksRunOnce, ToksOf

LEMMA TickSound ==
  ASSUME PreservedInv, NEW p \in Procs, Tick
  PROVE  CallSound(p)'
<1>0. /\ now \in Nat /\ now' = now + 1
      /\ cache' = {c \in cache : c.exp > now'}
      /\ list' = IF \E s \in list : s.exp > now' THEN list ELSE {}
      /\ UNCHANGED <<next, rows, dead, fired, pc, op, sel, time, got, hold, aim>>
  BY DEF Tick, local, history, PreservedInv, TypeOK
<1>1. /\ \A r \in rows : r.exp \in Nat
      /\ \A c \in cache : c.exp \in Nat
      /\ \A s \in list : s.exp \in Nat
      /\ \A s \in got[p] : s.exp \in Nat
      /\ \A s \in hold[p] : s.exp \in Nat
      /\ time[p] \in Nat
  BY DEF PreservedInv, TypeOK, Session
<1>2. \A r \in rows : r.exp <= now => r.exp <= now'
  BY <1>0, <1>1
<1>3. \A T : Covers(list, T) => \A c \in cache' : c.tok \notin T => \E s \in list' : s.tok = c.tok /\ s.exp >= c.exp
  <2>. SUFFICES ASSUME NEW T, Covers(list, T), NEW c \in cache', c.tok \notin T
                PROVE  \E s \in list' : s.tok = c.tok /\ s.exp >= c.exp
    OBVIOUS
  <2>1. PICK s \in list : s.tok = c.tok /\ s.exp >= c.exp
    BY <1>0 DEF Covers
  <2>2. s.exp > now'
    BY <1>0, <1>1, <2>1
  <2>. QED  BY <1>0, <2>1, <2>2
<1>4. ListCovers(p)'
  <2>1. \A T : Covers(got[p], T) => \A c \in cache' : c.tok \notin T => \E s \in got[p] : s.tok = c.tok /\ s.exp >= c.exp
    BY <1>0 DEF Covers
  <2>2. ListCovers(p)
    BY DEF PreservedInv, CallSound
  <2>. QED  BY <1>0, <1>3, <2>1, <2>2 DEF ListCovers, Covers
<1>5. Writes(p)'
  <2>1. \A t : Closed(t)' <=> Closed(t)
    BY <1>0 DEF Closed
  <2>2. pc[p] = "addToken" => \A s \in hold[p] : s.exp > now' => \E l \in list' : l.tok = s.tok /\ l.exp >= s.exp
    <3>. SUFFICES ASSUME pc[p] = "addToken", NEW s \in hold[p], s.exp > now'
                  PROVE  \E l \in list' : l.tok = s.tok /\ l.exp >= s.exp
      OBVIOUS
    <3>1. s.exp > now
      BY <1>0, <1>1
    <3>2. PICK l \in list : l.tok = s.tok /\ l.exp >= s.exp
      BY <3>1 DEF PreservedInv, CallSound, Writes
    <3>3. l.exp > now'
      BY <1>0, <1>1, <3>2
    <3>. QED  BY <1>0, <3>2, <3>3
  <2>3. Of(cache, sel[p])' \subseteq Of(cache, sel[p])
    BY <1>0 DEF Of
  <2>4. pc[p] = "scan" => \A s \in hold[p] : s.exp > now' => s \in cache'
    BY <1>0, <1>1 DEF PreservedInv, CallSound, Writes
  <2>5. Writes(p)
    BY DEF PreservedInv, CallSound
  <2>. QED  BY <1>0, <2>1, <2>2, <2>3, <2>4, <2>5 DEF Writes
<1>6. Ends(p)'
  <2>1. /\ ToksOf(Of(cache, sel[p]))' \subseteq ToksOf(Of(cache, sel[p]))
        /\ ToksOf(cache)' \subseteq ToksOf(cache)
        /\ Of(cache, sel[p])' \subseteq Of(cache, sel[p])
    BY <1>0 DEF ToksOf, Of
  <2>2. Targets(p, time[p])' = Targets(p, time[p])
    BY <1>0 DEF Targets, Of
  <2>3. time[p] <= now => time[p] <= now'
    BY <1>0, <1>1
  <2>4. Ends(p) /\ ToksOf(hold[p])' = ToksOf(hold[p]) /\ ToksOf(got[p])' = ToksOf(got[p])
    BY <1>0 DEF PreservedInv, CallSound, ToksOf
  <2>. QED  BY <1>0, <1>2, <2>1, <2>2, <2>3, <2>4 DEF Ends
<1>7. (pc[p] # "dropTokens" => Open)'
  BY <1>0 DEF PreservedInv, CallSound, Open, Closed
<1>. QED  BY <1>4, <1>5, <1>6, <1>7 DEF CallSound

LEMMA PreservedInvariance == ASSUME SerialPreserved PROVE Spec => []PreservedInv
<1>1. Spec => []TypeOK
  BY TypeCorrect DEF SerialPreserved
<1>2. TypeOK /\ Init => PreservedInv
  <2>. SUFFICES ASSUME TypeOK, Init PROVE PreservedInv
    OBVIOUS
  <2>1. StoresSound
    BY DEF Init, StoresSound, HooksRunOnce, ClosedOver, Closed, CacheSound, ToksOf
  <2>2. Covers(list, {}) /\ Open
    BY DEF Init, Covers, Open
  <2>. QED  BY <2>1, <2>2 DEF Init, PreservedInv, CallSound, ListCovers, Writes, Ends
<1>3. PreservedInv /\ TypeOK' /\ [Next]_vars => PreservedInv'
  <2>. SUFFICES ASSUME PreservedInv, TypeOK', [Next]_vars
                PROVE  StoresSound' /\ \A p \in Procs : CallSound(p)'
    BY DEF PreservedInv
  <2>1. CASE UNCHANGED vars
    <3>1. StoresSound'
      BY <2>1, StoresKept DEF PreservedInv, vars
    <3>2. \A p \in Procs : CallSound(p)'
      BY <2>1 DEF PreservedInv, vars, CallSound, ListCovers, Covers, Writes, Ends, Open, Closed, Of, ToksOf, Targets
    <3>. QED  BY <3>1, <3>2
  <2>2. CASE Tick
    BY <2>2, TickStores, TickSound
  <2>3. ASSUME NEW p \in Procs, Begin(p) \/ Step(p) \/ Fault(p)
        PROVE  StoresSound' /\ CallSound(p)'
    <3>1. ~FindRowsLost(p) /\ ~MirrorLost(p) /\ ~RevokeLost(p) /\ ~Throw(p)
      BY PreservedMode DEF FindRowsLost, MirrorLost, RevokeLost, Throw
    <3>. QED  BY <2>3, <3>1, BeginSound, CreateSound, UpdateSound, RefreshSound, DropFromCacheSound, FindRowsSound,
                 EndRowsSound, DropTokensSound DEF Step, Fault
  <2>. QED  BY <2>1, <2>2, <2>3 DEF Next, SerialPreserved
<1>. QED  BY <1>1, <1>2, <1>3, PTL DEF Spec

\* Where rows outlive their session (preserveSessionInDatabase), the hooks of a session end run
\* once for it in calls that do not overlap, however often its row is matched by later deletes and
\* revocations, and though updates write the expiry of rows that are still there.
THEOREM HooksRunOnceCorrect == ASSUME SerialPreserved PROVE Spec => []HooksRunOnce
<1>1. PreservedInv => HooksRunOnce
  BY DEF PreservedInv, StoresSound
<1>. QED  BY <1>1, PreservedInvariance, PTL

\* There, a session that a call which succeeded was meant to end is not alive in either store again:
\* nothing that was cached before is left to be refreshed, as the list names every cached session.
THEOREM PreservedStayDead == ASSUME SerialPreserved PROVE Spec => []RevokedStaysDead
<1>1. PreservedInv => RevokedStaysDead
  <2>. SUFFICES ASSUME PreservedInv, NEW t \in dead, NEW s \in rows \cup cache, s.tok = t, s.exp > now
                PROVE  FALSE
    BY DEF RevokedStaysDead, Alive
  <2>1. t \in Tokens /\ s.exp \in Nat /\ now \in Nat
    BY DEF PreservedInv, TypeOK, Session
  <2>2. s \notin cache
    BY DEF PreservedInv, StoresSound, ToksOf
  <2>3. s.exp <= now
    BY <2>1, <2>2 DEF PreservedInv, StoresSound, ClosedOver, Closed
  <2>. QED  BY <2>1, <2>3
<1>. QED  BY <1>1, PreservedInvariance, PTL

=============================================================================
