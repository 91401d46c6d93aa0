------------------------------ MODULE Sessions ------------------------------
(***************************************************************************)
(* The session store of the internal adapter                               *)
(* (packages/better-auth/src/db/internal-adapter.ts): session rows in the  *)
(* database, their mirrors in secondary storage, and the list of active    *)
(* sessions of a user by which secondary storage is searched.              *)
(*                                                                         *)
(* The sessions are those of one user.  Every step of a call ends at an    *)
(* await, so that calls interleave as the event loop lets them.            *)
(***************************************************************************)
EXTENDS Naturals, FiniteSets

CONSTANTS
  Procs,        \* calls in flight
  Mode,         \* "database", "secondary", or both stores: "both" | "preserve"
  Ops,          \* the operations callers issue, a subset of OpNames
  Faults,       \* what an await may meet: "throw", "swallow" (the error is
                \* caught and the call goes on), "veto" (by a delete hook)
  ExpiresIn,    \* session.expiresIn, in ticks
  Lifetimes,    \* the lifetimes sessions are created with
  MaxSessions,  \* bound: sessions ever created
  MaxTime       \* bound: the clock

Tokens == 1 .. MaxSessions

ASSUME SessionsAssumption ==
  /\ Mode \in {"database", "secondary", "both", "preserve"}
  /\ ExpiresIn \in Nat \ {0} /\ Lifetimes \subseteq Nat \ {0}
  /\ MaxSessions \in Nat /\ MaxTime \in Nat

\* A session row, a cached session and an entry of the list are all told
\* apart by their token and carry an expiry.
Session == [tok : Tokens, exp : Nat \ {0}]

VARIABLES
  now,    \* the clock
  next,   \* the next unused token
  rows,   \* the session table
  cache,  \* secondary storage: the entry of each token
  list,   \* secondary storage: active-sessions-<user>; {} when it is absent
  pc,     \* where each call is suspended
  op,     \* the operation of each call
  sel,    \* the tokens a call selects: one, some, or all those of the user
  time,   \* of an update, the new expiry, or 0 to leave the expiry alone;
          \* of a call that ends rows, since when they must be live
  got,    \* the list a call read
  hold,   \* the sessions a call has in its hands
  aim,    \* history: the sessions a call is meant to end
  dead,   \* history: the sessions a call that succeeded was meant to end
  due,    \* history: the expiry callers were told, 0 before and after
  fired   \* history: how often the delete hooks ran for a session

vars ==
  <<now, next, rows, cache, list, pc, op, sel, time, got, hold, aim, dead, due, fired>>
store == <<rows, cache, list>>
local == <<op, sel, time, got, hold>>
history == <<aim, dead, due, fired>>

InDatabase == Mode # "secondary"
Cached == Mode # "database"

OpNames ==
  {"create", "update", "refreshUser", "cleanUp", "delete", "deleteMany", "revokeAll"}

Labels ==
  {"idle", "listing", "addToList", "addToken",
   "getToken", "setToken", "relist", "setRelist", "updateRow", "scan",
   "unlist", "readList", "setList", "dropToken", "dropSome", "findRows", "endRows",
   "dropTokens", "trimList"}

TypeOK ==
  /\ now \in Nat \ {0}
  /\ next \in 1 .. MaxSessions + 1
  /\ rows \subseteq Session /\ cache \subseteq Session /\ list \subseteq Session
  /\ pc \in [Procs -> Labels]
  /\ op \in [Procs -> OpNames \cup {"none"}]
  /\ sel \in [Procs -> SUBSET Tokens]
  /\ time \in [Procs -> Nat]
  /\ got \in [Procs -> SUBSET Session]
  /\ hold \in [Procs -> SUBSET Session]
  /\ aim \in [Procs -> SUBSET Tokens]
  /\ dead \subseteq Tokens
  /\ due \in [Tokens -> Nat]
  /\ fired \in [Tokens -> Nat]

-----------------------------------------------------------------------------
(* Helpers.                                                                *)

ToksOf(S) == {s.tok : s \in S}
Of(S, T) == {s \in S : s.tok \in T}
Without(S, T) == {s \in S : s.tok \notin T}

\* The entries of S that have not expired.
Fresh(S) == {s \in S : s.exp > now}

\* set() of secondary storage, skipped when the time to live would be zero.
Put(S, s) == IF s.exp > now THEN Without(S, {s.tok}) \cup {s} ELSE S

\* findSession: the cached entry, else the row, unless ended rows are kept.
Lookup(t) ==
  IF Cached /\ (Of(cache, {t}) # {} \/ Mode \in {"secondary", "preserve"})
  THEN Of(cache, {t}) ELSE Of(rows, {t})

\* The tokens callers have: of the sessions whose creation has come to an end.
Issued ==
  {t \in 1 .. next - 1 :
     \A q \in Procs : op[q] = "create" => t \notin ToksOf(hold[q])}

Goto(p, l) == pc' = [pc EXCEPT ![p] = l]

\* The call of p starts operation o on the tokens T.
Start(p, o, T) ==
  /\ o \in Ops /\ pc[p] = "idle"
  /\ op' = [op EXCEPT ![p] = o]
  /\ sel' = [sel EXCEPT ![p] = T]

\* The call of p returns or throws: nothing of its closure is left.
Finish(p) ==
  /\ Goto(p, "idle")
  /\ op' = [op EXCEPT ![p] = "none"]
  /\ sel' = [sel EXCEPT ![p] = {}]
  /\ time' = [time EXCEPT ![p] = 0]
  /\ got' = [got EXCEPT ![p] = {}]
  /\ hold' = [hold EXCEPT ![p] = {}]
  /\ aim' = [aim EXCEPT ![p] = {}]

\* What callers are told stops counting for the sessions T.
Forget(T) == due' = [t \in Tokens |-> IF t \in T THEN 0 ELSE due[t]]

\* A call that ends sessions succeeds.
Ended(p) ==
  /\ Finish(p)
  /\ dead' = dead \cup aim[p]

Init ==
  /\ now = 1 /\ next = 1
  /\ rows = {} /\ cache = {} /\ list = {}
  /\ pc = [p \in Procs |-> "idle"] /\ op = [p \in Procs |-> "none"]
  /\ sel = [p \in Procs |-> {}] /\ time = [p \in Procs |-> 0]
  /\ got = [p \in Procs |-> {}] /\ hold = [p \in Procs |-> {}]
  /\ aim = [p \in Procs |-> {}]
  /\ dead = {}
  /\ due = [t \in Tokens |-> 0] /\ fired = [t \in Tokens |-> 0]

-----------------------------------------------------------------------------
(* createSession: the row, then the mirror in secondary storage, which     *)
(* reads the list, writes it back with the new token, and then writes the  *)
(* entry of the token (mirrorSessionToSecondaryStorage).                   *)

Create(p) ==
  /\ "create" \in Ops /\ pc[p] = "idle" /\ next <= MaxSessions
  /\ \E l \in Lifetimes : LET s == [tok |-> next, exp |-> now + l] IN
       /\ rows' = IF InDatabase THEN rows \cup {s} ELSE rows
       /\ IF Cached
          THEN /\ Start(p, "create", {})
               /\ hold' = [hold EXCEPT ![p] = {s}]
               /\ Goto(p, "listing") /\ due' = due
          ELSE /\ due' = [due EXCEPT ![next] = s.exp]
               /\ UNCHANGED <<pc, op, sel, hold>>
  /\ next' = next + 1
  /\ UNCHANGED <<now, cache, list, time, got, aim, dead, fired>>

ListForCreate(p) ==
  /\ pc[p] = "listing"
  /\ got' = [got EXCEPT ![p] = Fresh(list)]
  /\ Goto(p, "addToList")
  /\ UNCHANGED <<now, next, store, op, sel, time, hold, history>>

Listed(p) == got[p] \cup hold[p]

AddToList(p) ==
  /\ pc[p] = "addToList"
  /\ list' = IF Fresh(Listed(p)) # {} THEN Listed(p) ELSE list
  /\ Goto(p, "addToken")
  /\ UNCHANGED <<now, next, rows, cache, local, history>>

AddToken(p) ==
  /\ pc[p] = "addToken"
  /\ \E s \in hold[p] :
       /\ cache' = Put(cache, s)
       /\ due' = [due EXCEPT ![s.tok] = s.exp]
  /\ Finish(p)
  /\ UNCHANGED <<now, next, rows, list, dead, fired>>

\* The mirror fails after the row was committed: with deferred writes the
\* error is logged, and sessions are found in the database instead.
MirrorLost(p) ==
  /\ "swallow" \in Faults /\ Mode = "both"
  /\ pc[p] \in {"listing", "addToList", "addToken"}
  /\ \E s \in hold[p] : due' = [due EXCEPT ![s.tok] = s.exp]
  /\ Finish(p)
  /\ UNCHANGED <<now, next, store, dead, fired>>

-----------------------------------------------------------------------------
(* getSession and updateSession.  A refresh, which gives a new expiry, is  *)
(* due only when it extends the session; other updates leave it alone.     *)

Update(p) ==
  /\ \E t \in Issued : \E s \in Lookup(t) :
       /\ ~(s.exp < now)
       /\ Start(p, "update", {t})
       /\ \E e \in {0} \cup {x \in {now + ExpiresIn} : s.exp <= x} :
            time' = [time EXCEPT ![p] = e]
  /\ Goto(p, IF Cached THEN "getToken" ELSE "updateRow")
  /\ UNCHANGED <<now, next, store, got, hold, history>>

\* A token that secondary storage no longer has ends an update there.
GetToken(p) ==
  /\ pc[p] = "getToken"
  /\ LET entry == Of(cache, sel[p]) IN
       IF entry = {} /\ ~InDatabase
       THEN Finish(p)
       ELSE /\ hold' = [hold EXCEPT ![p] = entry]
            /\ Goto(p, IF entry # {} THEN "setToken" ELSE "updateRow")
            /\ UNCHANGED <<op, sel, time, got, aim>>
  /\ UNCHANGED <<now, next, store, dead, due, fired>>

\* Mutant: data that leaves the expiry alone overwrites it with nothing.
MergedUndefined(p) == {[s EXCEPT !.exp = time[p]] : s \in hold[p]}

\* The entry with the data of the update merged into what was read.
Merged(p) == {[s EXCEPT !.exp = IF time[p] = 0 THEN s.exp ELSE time[p]] : s \in hold[p]}

SetToken(p) ==
  /\ pc[p] = "setToken"
  /\ \E s \in Merged(p) :
       /\ cache' = Put(cache, s)
       /\ hold' = [hold EXCEPT ![p] = {s}]
       /\ Goto(p, IF s.exp > now THEN "relist" ELSE "updateRow")
  /\ UNCHANGED <<now, next, rows, list, op, sel, time, got, history>>

Relist(p) ==
  /\ pc[p] = "relist"
  /\ got' = [got EXCEPT ![p] = Without(Fresh(list), sel[p])]
  /\ Goto(p, "setRelist")
  /\ UNCHANGED <<now, next, store, op, sel, time, hold, history>>

SetRelist(p) ==
  /\ pc[p] = "setRelist"
  /\ list' = IF Fresh(Listed(p)) # {} THEN Listed(p) ELSE {}
  /\ Goto(p, "updateRow")
  /\ UNCHANGED <<now, next, rows, cache, local, history>>

\* Mutant: the row is written whether or not it is still there.
UpsertedRows(p) == Without(rows, sel[p]) \cup {[tok |-> t, exp |-> time[p]] : t \in sel[p]}

\* The update statement writes by token, whatever became of the row.
UpdatedRows(p) == {IF r.tok \in sel[p] THEN [r EXCEPT !.exp = time[p]] ELSE r : r \in rows}

\* The owner is told the new expiry if there was a session to write it to.
UpdateRow(p) ==
  /\ pc[p] = "updateRow"
  /\ rows' = IF time[p] = 0 \/ ~InDatabase THEN rows ELSE UpdatedRows(p)
  /\ due' = [t \in Tokens |->
       IF /\ time[p] # 0 /\ t \in sel[p] /\ due[t] # 0
          /\ t \in ToksOf(IF InDatabase THEN rows ELSE hold[p])
       THEN time[p] ELSE due[t]]
  /\ Finish(p)
  /\ UNCHANGED <<now, next, cache, list, dead, fired>>

(* refreshUserSessions, after a change of the user: every cached session   *)
(* of the list is read and written back, all at the same time.             *)

Refresh(p) ==
  /\ Start(p, "refreshUser", {}) /\ Cached /\ Fresh(list) # {}
  /\ got' = [got EXCEPT ![p] = Fresh(list)]
  /\ Goto(p, "scan")
  /\ UNCHANGED <<now, next, store, time, hold, history>>

Scan(p) ==
  /\ pc[p] = "scan"
  /\ \E s \in got[p] :
       /\ got' = [got EXCEPT ![p] = @ \ {s}]
       /\ hold' = [hold EXCEPT ![p] = @ \cup Of(cache, {s.tok})]
  /\ UNCHANGED <<now, next, store, pc, op, sel, time, history>>

WriteBack(p) ==
  /\ pc[p] = "scan"
  /\ \E s \in hold[p] :
       /\ cache' = Put(cache, s)
       /\ hold' = [hold EXCEPT ![p] = @ \ {s}]
  /\ UNCHANGED <<now, next, rows, list, pc, op, sel, time, got, history>>

Refreshed(p) ==
  /\ pc[p] = "scan" /\ got[p] = {} /\ hold[p] = {}
  /\ Finish(p)
  /\ UNCHANGED <<now, next, store, dead, due, fired>>

-----------------------------------------------------------------------------
(* deleteSession: the list first, then the entry of the token, then the    *)
(* row, which "preserve" keeps and only marks as ended.                    *)

Delete(p) ==
  /\ \E t \in Issued :
       /\ Start(p, "delete", {t})
       /\ aim' = [aim EXCEPT ![p] = {t}]
       /\ Forget({t})
  /\ Goto(p, IF Cached THEN "unlist" ELSE "findRows")
  /\ UNCHANGED <<now, next, store, time, got, hold, dead, fired>>

\* getSession cleans up a session it found expired.
CleanUp(p) ==
  /\ \E t \in Issued : (\E s \in Lookup(t) : s.exp < now) /\ Start(p, "cleanUp", {t})
  /\ Goto(p, IF Cached THEN "unlist" ELSE "findRows")
  /\ UNCHANGED <<now, next, store, time, got, hold, history>>

Unlist(p) ==
  /\ pc[p] = "unlist"
  /\ Goto(p, IF Of(cache, sel[p]) # {} THEN "readList" ELSE "dropToken")
  /\ UNCHANGED <<now, next, store, local, history>>

\* A list that is not there is an error to log, no more.
AfterReadList == IF list # {} THEN "setList" ELSE "dropToken"

ReadList(p) ==
  /\ pc[p] = "readList"
  /\ got' = [got EXCEPT ![p] = Without(Fresh(list), sel[p])]
  /\ Goto(p, AfterReadList)
  /\ UNCHANGED <<now, next, store, op, sel, time, hold, history>>

SetList(p) ==
  /\ pc[p] = "setList"
  /\ list' = IF Fresh(got[p]) # {} THEN got[p] ELSE {}
  /\ Goto(p, "dropToken")
  /\ UNCHANGED <<now, next, rows, cache, local, history>>

DropToken(p) ==
  /\ pc[p] = "dropToken"
  /\ cache' = Without(cache, sel[p])
  /\ IF InDatabase
     THEN Goto(p, "findRows") /\ UNCHANGED <<local, aim, dead>>
     ELSE Ended(p)
  /\ UNCHANGED <<now, next, rows, list, due, fired>>

(* deleteSessions: the entries all at once; the list is left as it is.     *)
(* The call holds tokens, and no step looks at the expiry beside them.     *)

DeleteMany(p) ==
  /\ \E T \in SUBSET Issued \ {{}} :
       /\ Start(p, "deleteMany", T)
       /\ aim' = [aim EXCEPT ![p] = T]
       /\ hold' = [hold EXCEPT ![p] = {[tok |-> t, exp |-> 1] : t \in T}]
       /\ Forget(T)
  /\ Goto(p, IF Cached THEN "dropSome" ELSE "findRows")
  /\ UNCHANGED <<now, next, store, time, got, dead, fired>>

DropSome(p) ==
  /\ pc[p] = "dropSome"
  /\ \E s \in hold[p] :
       /\ cache' = Without(cache, {s.tok})
       /\ hold' = [hold EXCEPT ![p] = @ \ {s}]
  /\ UNCHANGED <<now, next, rows, list, pc, op, sel, time, got, history>>

DroppedSome(p) ==
  /\ pc[p] = "dropSome" /\ hold[p] = {}
  /\ IF InDatabase
     THEN Goto(p, "findRows") /\ UNCHANGED <<local, aim, dead>>
     ELSE Ended(p)
  /\ UNCHANGED <<now, next, store, due, fired>>

-----------------------------------------------------------------------------
(* deleteWithHooks, deleteManyWithHooks and endPreservedSessions: the rows *)
(* are read for the hooks first, and deleted or marked as ended next.      *)

\* Mutant: preserved rows are matched whether or not they have ended.
TargetsEndedToo(p, since) == Of(rows, sel[p])

\* Mutant: the rows of the user, whatever the tokens.
TargetsOfUser(p, since) == rows

\* The rows a call is to end; of rows that are kept, only those live since then.
Targets(p, since) == {r \in Of(rows, sel[p]) : Mode = "preserve" => r.exp > since}

FindRows(p) ==
  /\ pc[p] = "findRows"
  /\ hold' = [hold EXCEPT ![p] = Targets(p, now)]
  /\ time' = [time EXCEPT ![p] = now]
  /\ Goto(p, "endRows")
  /\ UNCHANGED <<now, next, store, op, sel, got, history>>

\* The read fails, and the error is ignored.
FindRowsLost(p) ==
  /\ "swallow" \in Faults /\ pc[p] = "findRows"
  /\ hold' = [hold EXCEPT ![p] = {}]
  /\ time' = [time EXCEPT ![p] = now]
  /\ Goto(p, "endRows")
  /\ UNCHANGED <<now, next, store, op, sel, got, history>>

\* A delete of one row is skipped when none was found for the hooks.
Gone(p) ==
  IF op[p] \in {"delete", "cleanUp"} /\ Mode # "preserve" /\ hold[p] = {} THEN {} ELSE Targets(p, time[p])

EndRows(p) ==
  /\ pc[p] = "endRows"
  /\ rows' = (rows \ Gone(p)) \cup
             (IF Mode = "preserve" THEN {[r EXCEPT !.exp = now] : r \in Gone(p)} ELSE {})
  /\ fired' = [t \in Tokens |-> IF t \in ToksOf(hold[p]) THEN fired[t] + 1 ELSE fired[t]]
  /\ IF Cached /\ op[p] = "revokeAll"
     THEN /\ hold' = [hold EXCEPT ![p] = got[p]]
          /\ Goto(p, "dropTokens")
          /\ Forget(ToksOf(Gone(p)))
          /\ UNCHANGED <<op, sel, time, got, aim, dead>>
     ELSE /\ Ended(p)
          /\ IF op[p] = "revokeAll" THEN Forget(ToksOf(Gone(p))) ELSE due' = due
  /\ UNCHANGED <<now, next, cache, list>>

\* A hook returns false: the rows stay, and so does what comes after them.
Vetoed(p) ==
  /\ "veto" \in Faults /\ pc[p] = "endRows" /\ hold[p] # {}
  /\ Finish(p)
  /\ UNCHANGED <<now, next, store, dead, due, fired>>

-----------------------------------------------------------------------------
(* deleteUserSessions: the list tells which entries to delete, read before *)
(* the rows are ended; the entries go afterwards.                          *)

\* A session of which a store says that it has not expired.
Alive(t) == \E s \in rows \cup cache : s.tok = t /\ s.exp > now

\* What it is meant to end are the sessions that callers hold by now.
RevokeAll(p) ==
  /\ Start(p, "revokeAll", Tokens)
  /\ aim' = [aim EXCEPT ![p] = {t \in Tokens : due[t] > 0 /\ Alive(t)}]
  /\ Forget(Tokens)
  /\ got' = [got EXCEPT ![p] = IF Cached THEN list ELSE {}]
  /\ hold' = [hold EXCEPT ![p] = IF InDatabase THEN {} ELSE list]
  /\ Goto(p, IF InDatabase THEN "findRows" ELSE "dropTokens")
  /\ UNCHANGED <<now, next, store, time, dead, fired>>

\* deleteCachedUserSessions: the entries one by one, then the list without
\* them as it is by then.
DropOne(p) ==
  /\ pc[p] = "dropTokens"
  /\ \E s \in hold[p] :
       /\ cache' = Without(cache, {s.tok})
       /\ hold' = [hold EXCEPT ![p] = @ \ {s}]
  /\ UNCHANGED <<now, next, rows, list, pc, op, sel, time, got, history>>

RereadList(p) ==
  /\ pc[p] = "dropTokens" /\ hold[p] = {}
  /\ got' = [got EXCEPT ![p] = Without(Fresh(list), ToksOf(@))]
  /\ Goto(p, "trimList")
  /\ UNCHANGED <<now, next, store, op, sel, time, hold, history>>

TrimList(p) ==
  /\ pc[p] = "trimList"
  /\ list' = IF Fresh(got[p]) # {} THEN got[p] ELSE {}
  /\ Ended(p)
  /\ UNCHANGED <<now, next, rows, cache, due, fired>>

\* Secondary storage fails: the error is logged, and the call succeeds.
RevokeLost(p) ==
  /\ "swallow" \in Faults /\ pc[p] \in {"dropTokens", "trimList"}
  /\ Ended(p)
  /\ UNCHANGED <<now, next, store, due, fired>>

-----------------------------------------------------------------------------
(* Failures and time.                                                      *)

Throw(p) ==
  /\ "throw" \in Faults /\ pc[p] \notin {"idle", "dropTokens", "trimList"}
  /\ Finish(p)
  /\ UNCHANGED <<now, next, store, dead, due, fired>>

\* Secondary storage drops what has outlived its time to live; the list lives
\* as long as the session in it that expires last.
Tick ==
  /\ now < MaxTime
  /\ now' = now + 1
  /\ cache' = {c \in cache : c.exp > now'}
  /\ list' = IF \E s \in list : s.exp > now' THEN list ELSE {}
  /\ UNCHANGED <<next, rows, pc, local, history>>

Begin(p) ==
  Create(p) \/ Update(p) \/ Refresh(p) \/ Delete(p) \/ CleanUp(p) \/ DeleteMany(p)
    \/ RevokeAll(p)

Step(p) ==
  \/ ListForCreate(p) \/ AddToList(p) \/ AddToken(p)
  \/ GetToken(p) \/ SetToken(p) \/ Relist(p) \/ SetRelist(p) \/ UpdateRow(p)
  \/ Scan(p) \/ WriteBack(p) \/ Refreshed(p)
  \/ Unlist(p) \/ ReadList(p) \/ SetList(p) \/ DropToken(p)
  \/ DropSome(p) \/ DroppedSome(p) \/ FindRows(p) \/ EndRows(p)
  \/ DropOne(p) \/ RereadList(p) \/ TrimList(p)

Fault(p) ==
  MirrorLost(p) \/ FindRowsLost(p) \/ Vetoed(p) \/ RevokeLost(p) \/ Throw(p)

Next == (\E p \in Procs : Begin(p) \/ Step(p) \/ Fault(p)) \/ Tick

Spec == Init /\ [][Next]_vars

-----------------------------------------------------------------------------
(* Properties.                                                             *)

\* A session that sign-out, a revocation or "revoke all sessions" was meant to
\* end and that reported success is not alive in any store, ever after.
RevokedStaysDead == \A t \in dead : ~Alive(t)

\* Nobody is signed out by the calls of others: a session that no call was
\* meant to end can be found until the expiry its owner was told.
LiveUntilRevoked ==
  \A t \in Tokens : due[t] > now => \E s \in Lookup(t) : s.exp > now

\* The hooks of a session end (token revocation, back-channel logout) run at
\* most once for a session, however often its row is matched afterwards.
HooksRunOnce == \A t \in Tokens : fired[t] <= 1
=============================================================================
