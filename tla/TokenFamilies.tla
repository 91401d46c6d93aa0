--------------------------- MODULE TokenFamilies ---------------------------
(***************************************************************************)
(* The tokens of the OAuth provider (packages/oauth-provider/src): the     *)
(* redemption of an authorization code, the rotation of refresh tokens     *)
(* with its reuse interval, replay detection, which ends the whole family  *)
(* of a client and a user, revocation, and what signing out does to the    *)
(* tokens of a session.                                                    *)
(*                                                                         *)
(* The tokens are those of one client, one user and one session.  Every    *)
(* step of a call ends at an await.                                        *)
(***************************************************************************)
EXTENDS Naturals, FiniteSets

CONSTANTS
  Procs,           \* calls in flight
  Codes,           \* the authorization codes that were issued
  Ops,             \* the operations callers issue, a subset of OpNames
  Faults,          \* what an await may meet: "throw", "swallow" (the error is
                   \* caught and the call goes on)
  Opaque,          \* whether access tokens are opaque, and stored, or JWTs
  ForeignKeys,     \* whether the database enforces the references of the schema
  Narrowing,       \* whether clients drop the scope offline_access
  ReuseInterval,   \* refreshTokenReuseInterval, in ticks; 0 when it is not set
  AccessLifetime,  \* accessTokenExpiresIn, in ticks
  RefreshLifetime, \* refreshTokenExpiresIn, in ticks
  MaxTokens,       \* bound: pairs of tokens ever created
  MaxTime          \* bound: the clock

\* A token, and the access token and the refresh token that are issued
\* together, are named by one number; 0 is none.
Tokens == 1 .. MaxTokens
NoCode == 0
Kinds == {"refresh", "access"}

ASSUME TokensAssumption ==
  /\ Codes \subseteq Nat \ {0}
  /\ {Opaque, ForeignKeys, Narrowing} \subseteq BOOLEAN
  /\ ReuseInterval \in Nat /\ AccessLifetime \in Nat /\ RefreshLifetime \in Nat
  /\ MaxTokens \in Nat /\ MaxTime \in Nat

OpNames == {"redeem", "refresh", "revoke", "revokeAccess", "signOut"}

RefreshRow ==
  [id : Tokens, code : Codes, sess : BOOLEAN, exp : Nat, revoked : BOOLEAN,
   until : Nat,                \* rotationReplayExpiresAt, 0 when it is not set
   reply : {0} \cup Tokens,    \* the token in rotationReplayResponse
   offline : BOOLEAN]          \* whether the scopes have offline_access

AccessRow ==
  [id : Tokens, code : Codes, ref : {0} \cup Tokens, sess : BOOLEAN, exp : Nat,
   revoked : BOOLEAN]

VARIABLES
  now,      \* the clock
  next,     \* the next unused token
  session,  \* whether the session row exists
  used,     \* the authorization codes that were consumed
  refresh,  \* table oauthRefreshToken
  access,   \* table oauthAccessToken
  pc,       \* where each call is suspended
  code,     \* the code of a call that mints tokens
  row,      \* the refresh row a call has read, in a set
  scope,    \* whether the tokens a call asks for have offline_access
  iat,      \* the time a call issues its tokens at
  mint,     \* the token a call has created, or 0
  ids,      \* the refresh tokens a call has listed
  accIds,   \* the access tokens a call has listed
  told,     \* history: what was returned: the token given, or 0, the code it
            \* descends from, and the token returned for it
  aim,      \* history: the tokens a call is meant to end
  dead      \* history: the tokens a call that succeeded was meant to end

vars == <<now, next, session, used, refresh, access, pc, code, row, scope, iat, mint,
          ids, accIds, told, aim, dead>>
store == <<session, used, refresh, access>>
local == <<code, row, scope, iat, mint, ids, accIds>>
history == <<told, aim, dead>>

Labels ==
  {"idle", "checkSession", "judge", "rotate", "mintRefresh", "mintAccess", "storeReply",
   "replayAccess", "replayRefresh", "listFamily", "endAccess", "endFamily",
   "revokeSwap", "revokeAccess",
   "plan", "planAccess", "planRefresh", "endSession", "applyAccess", "applyRefresh"}

TypeOK ==
  /\ now \in Nat /\ next \in 1 .. MaxTokens + 1
  /\ session \in BOOLEAN /\ used \subseteq Codes
  /\ refresh \subseteq RefreshRow /\ access \subseteq AccessRow
  /\ pc \in [Procs -> Labels]
  /\ code \in [Procs -> Codes \cup {NoCode}]
  /\ row \in [Procs -> SUBSET RefreshRow]
  /\ scope \in [Procs -> BOOLEAN]
  /\ iat \in [Procs -> Nat]
  /\ mint \in [Procs -> {0} \cup Tokens]
  /\ ids \in [Procs -> SUBSET Tokens] /\ accIds \in [Procs -> SUBSET Tokens]
  /\ told \subseteq [from : {0} \cup Tokens, code : Codes, tok : Tokens]
  /\ aim \in [Procs -> SUBSET (Kinds \X Tokens)]
  /\ dead \subseteq Kinds \X Tokens

-----------------------------------------------------------------------------
(* Helpers.                                                                *)

Ids(S) == {r.id : r \in S}

\* The tokens clients have been given.
Known == {x.tok : x \in told}

\* Room for one more token under the bound, counting the calls that may create
\* one.
Room ==
  next + Cardinality({p \in Procs : mint[p] = 0 /\ pc[p] \in
    {"checkSession", "judge", "rotate", "mintRefresh", "mintAccess"}}) <= MaxTokens

\* The refresh token a call was given, if it was.
Parent(p) == Ids(row[p])

\* Whether the tokens of a call are for the session: those of a code are, those
\* of a refresh token if its row has kept the session id.
ForSession(p) == row[p] = {} \/ \E r \in row[p] : r.sess

Goto(p, l) == pc' = [pc EXCEPT ![p] = l]

Enter(p, o, l) == o \in Ops /\ pc[p] = "idle" /\ Goto(p, l)

\* The call of p returns or throws.
Finish(p) ==
  /\ Goto(p, "idle")
  /\ code' = [code EXCEPT ![p] = NoCode]
  /\ row' = [row EXCEPT ![p] = {}]
  /\ scope' = [scope EXCEPT ![p] = FALSE]
  /\ iat' = [iat EXCEPT ![p] = 0]
  /\ mint' = [mint EXCEPT ![p] = 0]
  /\ ids' = [ids EXCEPT ![p] = {}]
  /\ accIds' = [accIds EXCEPT ![p] = {}]
  /\ aim' = [aim EXCEPT ![p] = {}]

\* The call of p returns the token n for the refresh token or code it was given.
Answer(p, n) ==
  /\ Finish(p)
  /\ told' = told \cup
       {[from |-> f, code |-> code[p], tok |-> n] : f \in IF row[p] = {} THEN {0} ELSE Parent(p)}

\* A call that ends tokens has done so.
Ended(p) ==
  /\ Finish(p)
  /\ dead' = dead \cup aim[p]

Init ==
  /\ now = 1 /\ next = 1
  /\ session = TRUE /\ used = {} /\ refresh = {} /\ access = {}
  /\ pc = [p \in Procs |-> "idle"]
  /\ code = [p \in Procs |-> NoCode] /\ row = [p \in Procs |-> {}]
  /\ scope = [p \in Procs |-> FALSE] /\ iat = [p \in Procs |-> 0]
  /\ mint = [p \in Procs |-> 0]
  /\ ids = [p \in Procs |-> {}] /\ accIds = [p \in Procs |-> {}]
  /\ told = {}
  /\ aim = [p \in Procs |-> {}]
  /\ dead = {}

-----------------------------------------------------------------------------
(* The grant authorization_code: the code is consumed, the session it was  *)
(* issued for must still be there, and then tokens are created.  Whoever   *)
(* brings a code again ends the tokens that were issued for it.            *)

Redeem(p) ==
  /\ \E c \in Codes :
       /\ c \in used \/ Room
       /\ code' = [code EXCEPT ![p] = c]
       /\ IF c \notin used
          THEN Enter(p, "redeem", "checkSession") /\ aim' = aim
          ELSE /\ Enter(p, "redeem", "replayAccess")
               /\ aim' = [aim EXCEPT ![p] = Kinds \X {x.tok : x \in {y \in told : y.code = c}}]
       /\ used' = used \cup {c}
  /\ \E offline \in {TRUE} \cup {~(Narrowing /\ Opaque)} :
       scope' = [scope EXCEPT ![p] = offline]
  /\ UNCHANGED <<now, next, session, refresh, access, row, iat, mint, ids, accIds,
                 told, dead>>

CheckSession(p) ==
  /\ pc[p] = "checkSession"
  /\ IF session
     THEN /\ iat' = [iat EXCEPT ![p] = now]
          /\ Goto(p, IF scope[p] THEN "mintRefresh" ELSE "mintAccess")
          /\ UNCHANGED <<code, row, scope, mint, ids, accIds, aim>>
     ELSE Finish(p)
  /\ UNCHANGED <<now, next, store, told, dead>>

\* revokeTokensIssuedForAuthorizationCode; each half may fail on its own.
ReplayAccess(p) ==
  /\ pc[p] = "replayAccess"
  /\ \/ access' = {a \in access : a.code # code[p]} /\ aim' = aim
     \/ /\ "swallow" \in Faults /\ access' = access
        /\ aim' = [aim EXCEPT ![p] = {x \in @ : x[1] # "access"}]
  /\ Goto(p, "replayRefresh")
  /\ UNCHANGED <<now, next, session, used, refresh, local, told, dead>>

\* The rows of refresh tokens go, and where references are enforced the access
\* tokens that refer to them go with them.
DeleteRefresh(R) ==
  /\ refresh' = refresh \ R
  /\ access' = IF ForeignKeys THEN {a \in access : a.ref \notin Ids(R)} ELSE access

ReplayRefresh(p) ==
  /\ pc[p] = "replayRefresh"
  /\ DeleteRefresh({r \in refresh : r.code = code[p]})
  /\ Ended(p)
  /\ UNCHANGED <<now, next, session, used, told>>

ReplayRefreshLost(p) ==
  /\ "swallow" \in Faults /\ pc[p] = "replayRefresh"
  /\ dead' = dead \cup {x \in aim[p] : x[1] # "refresh"}
  /\ Finish(p)
  /\ UNCHANGED <<now, next, store, told>>

-----------------------------------------------------------------------------
(* createUserTokens: for a refresh token the old one is revoked by compare *)
(* and swap first; then the rows of the new refresh token and of the new   *)
(* access token are created, and the response is stored for retries.       *)

\* Mutant: the row is revoked whether or not another call has done it.
RotatableAnyway(p) == {r \in refresh : r.id \in Parent(p)}

Rotatable(p) == {r \in refresh : r.id \in Parent(p) /\ ~r.revoked}

Rotate(p) ==
  /\ pc[p] = "rotate"
  /\ IF Rotatable(p) = {}
     THEN Finish(p) /\ refresh' = refresh
     ELSE /\ refresh' = {IF r \in Rotatable(p)
                         THEN [r EXCEPT !.revoked = TRUE,
                                 !.until = IF ReuseInterval > 0
                                           THEN iat[p] + ReuseInterval ELSE 0]
                         ELSE r : r \in refresh}
          /\ Goto(p, "mintRefresh")
          /\ UNCHANGED <<local, aim>>
  /\ UNCHANGED <<now, next, session, used, access, told, dead>>

\* A reference to the session is refused when the session is gone.
SessionMissing(p) == ForeignKeys /\ ForSession(p) /\ ~session

Minted(p) ==
  /\ mint' = [mint EXCEPT ![p] = next]
  /\ next' = next + 1

MintRefresh(p) ==
  /\ pc[p] = "mintRefresh"
  /\ IF SessionMissing(p)
     THEN Finish(p) /\ UNCHANGED <<next, refresh>>
     ELSE /\ refresh' = refresh \cup
               {[id |-> next, code |-> code[p], sess |-> ForSession(p),
                 exp |-> iat[p] + RefreshLifetime, revoked |-> FALSE, until |-> 0,
                 reply |-> 0, offline |-> scope[p]]}
          /\ Minted(p)
          /\ Goto(p, IF Opaque THEN "mintAccess" ELSE "storeReply")
          /\ UNCHANGED <<code, row, scope, iat, ids, accIds, aim>>
  /\ UNCHANGED <<now, session, used, access, told, dead>>

\* The access token refers to the refresh token that was created with it.
ParentMissing(p) == ForeignKeys /\ mint[p] # 0 /\ mint[p] \notin Ids(refresh)

MintAccess(p) ==
  /\ pc[p] = "mintAccess"
  /\ IF SessionMissing(p) \/ ParentMissing(p)
     THEN Finish(p) /\ UNCHANGED <<next, access>>
     ELSE /\ access' = access \cup
               {[id |-> IF mint[p] = 0 THEN next ELSE mint[p], code |-> code[p],
                 ref |-> mint[p], sess |-> ForSession(p),
                 exp |-> iat[p] + AccessLifetime, revoked |-> FALSE]}
          /\ IF mint[p] = 0 THEN Minted(p) ELSE UNCHANGED <<next, mint>>
          /\ Goto(p, "storeReply")
          /\ UNCHANGED <<code, row, scope, iat, ids, accIds, aim>>
  /\ UNCHANGED <<now, session, used, refresh, told, dead>>

\* Whether there is a response to store: one of a rotation.
Replayable(p) == ReuseInterval > 0 /\ \E r \in row[p] : r.offline

StoreReply(p) ==
  /\ pc[p] = "storeReply"
  /\ \/ refresh' = {IF Replayable(p) /\ r.id \in Parent(p)
                    THEN [r EXCEPT !.reply = mint[p]] ELSE r : r \in refresh}
     \/ "swallow" \in Faults /\ Replayable(p) /\ refresh' = refresh
  /\ Answer(p, mint[p])
  /\ UNCHANGED <<now, next, session, used, access, dead>>

-----------------------------------------------------------------------------
(* The grant refresh_token.                                                *)

\* findOne and the checks that follow it at once.  Using a token without
\* offline_access changes nothing where access tokens are not stored.
Refresh(p) ==
  /\ Enter(p, "refresh", "judge")
  /\ \E r \in refresh :
       /\ r.id \in Known /\ ~(r.exp < now) /\ (r.offline \/ Opaque) /\ (r.revoked \/ Room)
       /\ row' = [row EXCEPT ![p] = {r}]
       /\ code' = [code EXCEPT ![p] = r.code]
       /\ \E offline \in {r.offline} \cup {r.offline /\ ~Narrowing} :
            scope' = [scope EXCEPT ![p] = offline]
  /\ UNCHANGED <<now, next, store, iat, mint, ids, accIds, history>>

\* Mutant: a retry is answered whether or not a response was stored.
StoredOrNot(r) == r.revoked

Stored(r) == r.reply # 0

\* isWithinRefreshTokenReuseInterval
InReuseInterval(r) == r.until # 0 /\ r.until >= now

\* A live token is exchanged, or, without offline_access, only used.
JudgeLive(p) ==
  /\ pc[p] = "judge"
  /\ \E r \in row[p] :
       /\ ~r.revoked
       /\ Goto(p, IF r.offline THEN "rotate" ELSE "mintAccess")
  /\ iat' = [iat EXCEPT ![p] = now]
  /\ UNCHANGED <<now, next, store, code, row, scope, mint, ids, accIds, history>>

\* A retry in the reuse interval gets the stored response, or an error while
\* there is none and for a request that differs.
JudgeRetry(p) ==
  /\ pc[p] = "judge"
  /\ \E r \in row[p] :
       /\ r.revoked /\ InReuseInterval(r)
       /\ \/ Stored(r) /\ Answer(p, r.reply)
          \/ Finish(p) /\ told' = told
  /\ UNCHANGED <<now, next, store, dead>>

JudgeReplay(p) ==
  /\ pc[p] = "judge"
  /\ \E r \in row[p] : r.revoked /\ ~InReuseInterval(r)
  /\ Goto(p, "listFamily")
  /\ UNCHANGED <<now, next, store, local, history>>

-----------------------------------------------------------------------------
(* invalidateRefreshFamily: the refresh tokens of the client and the user  *)
(* are listed, the access tokens that refer to them deleted, then they.    *)

ListFamily(p) ==
  /\ pc[p] = "listFamily"
  /\ ids' = [ids EXCEPT ![p] = Ids(refresh)]
  /\ aim' = [aim EXCEPT ![p] =
       ({"refresh"} \X Known) \cup ({"access"} \X Ids({a \in access : a.ref \in Ids(refresh)}))]
  /\ Goto(p, "endAccess")
  /\ UNCHANGED <<now, next, store, code, row, scope, iat, mint, accIds, told, dead>>

EndAccess(p) ==
  /\ pc[p] = "endAccess"
  /\ access' = {a \in access : a.ref \notin ids[p]}
  /\ Goto(p, "endFamily")
  /\ UNCHANGED <<now, next, session, used, refresh, local, history>>

\* Mutant: only the tokens of the code that was replayed end.
FamilyOfCode(p) == {r \in refresh : r.code = code[p]}

Family(p) == refresh

EndFamily(p) ==
  /\ pc[p] = "endFamily"
  /\ DeleteRefresh(Family(p))
  /\ Ended(p)
  /\ UNCHANGED <<now, next, session, used, told>>

-----------------------------------------------------------------------------
(* The revocation endpoint.                                                *)

Revoke(p) ==
  /\ \E r \in refresh :
       /\ r.id \in Known
       /\ Enter(p, "revoke", IF r.revoked THEN "listFamily" ELSE "revokeSwap")
       /\ row' = [row EXCEPT ![p] = {r}]
       /\ code' = [code EXCEPT ![p] = r.code]
       /\ aim' = [aim EXCEPT ![p] = Kinds \X {r.id}]
  /\ UNCHANGED <<now, next, store, scope, iat, mint, ids, accIds, told, dead>>

\* A rotation that came first has made tokens of its own: all of them end.
RevokeSwap(p) ==
  /\ pc[p] = "revokeSwap"
  /\ refresh' = {IF r \in Rotatable(p) THEN [r EXCEPT !.revoked = TRUE] ELSE r : r \in refresh}
  /\ Goto(p, IF Rotatable(p) = {} THEN "listFamily" ELSE "revokeAccess")
  /\ UNCHANGED <<now, next, session, used, access, local, history>>

RevokeAccess(p) ==
  /\ pc[p] = "revokeAccess"
  /\ access' = {a \in access : a.ref \notin Parent(p)}
  /\ Ended(p)
  /\ UNCHANGED <<now, next, session, used, refresh, told>>

\* revokeOpaqueAccessToken finds the row and deletes it by its id.
RevokeOpaque(p) ==
  /\ "revokeAccess" \in Ops /\ pc[p] = "idle"
  /\ \E a \in access :
       /\ a.id \in Known
       /\ access' = access \ {a}
       /\ dead' = dead \cup {<<"access", a.id>>}
  /\ UNCHANGED <<now, next, session, used, refresh, pc, local, told, aim>>

-----------------------------------------------------------------------------
(* The session ends: what it must take with it is listed in the hook       *)
(* before, and revoked in the hook after the row was deleted.              *)

SignOut(p) ==
  /\ Enter(p, "signOut", "plan") /\ session
  /\ aim' = [aim EXCEPT ![p] =
       ({"access"} \X {a.id : a \in {x \in access : x.sess /\ x.id \in Known}})
         \cup ({"refresh"} \X {r.id : r \in {x \in refresh : x.sess /\ x.id \in Known /\ ~x.offline}})]
  /\ UNCHANGED <<now, next, store, local, told, dead>>

\* The two reads of the plan are out at the same time.
PlanAccess(p) ==
  /\ pc[p] \in {"plan", "planAccess"}
  /\ accIds' = [accIds EXCEPT ![p] = Ids({a \in access : a.sess /\ ~a.revoked})]
  /\ Goto(p, IF pc[p] = "plan" THEN "planRefresh" ELSE "endSession")
  /\ UNCHANGED <<now, next, store, code, row, scope, iat, mint, ids, history>>

PlanRefresh(p) ==
  /\ pc[p] \in {"plan", "planRefresh"}
  /\ ids' = [ids EXCEPT ![p] = Ids({r \in refresh : r.sess /\ ~r.revoked /\ ~r.offline})]
  /\ Goto(p, IF pc[p] = "plan" THEN "planAccess" ELSE "endSession")
  /\ UNCHANGED <<now, next, store, code, row, scope, iat, mint, accIds, history>>

\* A read fails, which is logged: the session ends without a plan.
PlanLost(p) ==
  /\ "swallow" \in Faults /\ pc[p] \in {"plan", "planAccess", "planRefresh"}
  /\ ids' = [ids EXCEPT ![p] = {}] /\ accIds' = [accIds EXCEPT ![p] = {}]
  /\ Goto(p, "endSession")
  /\ UNCHANGED <<now, next, store, code, row, scope, iat, mint, history>>

\* Where references are enforced the tokens lose the id of the session.  A call
\* that finds the row gone ends nothing of its own.
EndSession(p) ==
  /\ pc[p] = "endSession"
  /\ session' = FALSE
  /\ refresh' = IF ForeignKeys THEN {[r EXCEPT !.sess = FALSE] : r \in refresh} ELSE refresh
  /\ access' = IF ForeignKeys THEN {[a EXCEPT !.sess = FALSE] : a \in access} ELSE access
  /\ aim' = [aim EXCEPT ![p] = IF session THEN @ ELSE {}]
  /\ Goto(p, "applyAccess")
  /\ UNCHANGED <<now, next, used, local, told, dead>>

\* Mutant: the tokens are looked up by the session, which they have lost.
PlannedBySession(p) == Ids({a \in access : a.sess})

Planned(p) == accIds[p]

ApplyAccess(p) ==
  /\ pc[p] = "applyAccess"
  /\ \/ access' = {IF a.id \in Planned(p) THEN [a EXCEPT !.revoked = TRUE] ELSE a : a \in access}
     \/ "swallow" \in Faults /\ access' = access
  /\ Goto(p, "applyRefresh")
  /\ UNCHANGED <<now, next, session, used, refresh, local, history>>

ApplyRefresh(p) ==
  /\ pc[p] = "applyRefresh"
  /\ \/ refresh' = {IF r.id \in ids[p] THEN [r EXCEPT !.revoked = TRUE] ELSE r : r \in refresh}
     \/ "swallow" \in Faults /\ refresh' = refresh
  /\ Ended(p)
  /\ UNCHANGED <<now, next, session, used, access, told>>

-----------------------------------------------------------------------------
(* Failures and time.                                                      *)

\* An await rejects or the server dies: the call is over, with what it did.
\* Where the error of an await is caught only the server can end the call.
Throw(p) ==
  /\ "throw" \in Faults /\ pc[p] \notin {"idle", "replayAccess", "replayRefresh"}
  /\ Finish(p)
  /\ UNCHANGED <<now, next, store, told, dead>>

Tick ==
  /\ now < MaxTime
  /\ now' = now + 1
  /\ UNCHANGED <<next, store, pc, local, history>>

Grant(p) ==
  \/ Redeem(p) \/ CheckSession(p) \/ ReplayAccess(p) \/ ReplayRefresh(p)
  \/ Refresh(p) \/ JudgeLive(p) \/ JudgeRetry(p) \/ JudgeReplay(p)
  \/ Rotate(p) \/ MintRefresh(p) \/ MintAccess(p) \/ StoreReply(p)

Ending(p) ==
  \/ ListFamily(p) \/ EndAccess(p) \/ EndFamily(p)
  \/ Revoke(p) \/ RevokeSwap(p) \/ RevokeAccess(p) \/ RevokeOpaque(p)
  \/ SignOut(p) \/ PlanAccess(p) \/ PlanRefresh(p) \/ PlanLost(p)
  \/ EndSession(p) \/ ApplyAccess(p) \/ ApplyRefresh(p)

Next ==
  \/ \E p \in Procs : Grant(p) \/ Ending(p) \/ ReplayRefreshLost(p) \/ Throw(p)
  \/ Tick

Spec == Init /\ [][Next]_vars

-----------------------------------------------------------------------------
(* Properties.                                                             *)

\* The introspection endpoint calls the token active.
LiveRefresh(t) == \E r \in refresh : r.id = t /\ ~r.revoked /\ ~(r.exp < now)
LiveAccess(t) ==
  \E a \in access : a.id = t /\ ~a.revoked /\ ~(a.exp < now) /\ (a.sess => session)

\* What was ended stays so: a token that a revocation, a replay or the end of
\* the session was meant to end, by a call that has done its work, is not
\* active again, whatever exchanges were under way.
EndedStaysDead ==
  \A t \in Tokens : /\ <<"refresh", t>> \in dead => ~LiveRefresh(t)
                    /\ <<"access", t>> \in dead => ~LiveAccess(t)

\* A refresh token is exchanged for one pair of tokens only, however often and
\* however concurrently it is brought: retries get the pair that was made first.
OneAnswer == \A r \in refresh : r.offline => Cardinality({x \in told : x.from = r.id}) <= 1

Heads(c) == {r \in refresh : r.code = c /\ ~r.revoked}
Turns(c) == {p \in Procs : code[p] = c /\ pc[p] \in {"checkSession", "mintRefresh"}}

\* What the tables and the calls in flight say of a chain.
TurnOf(c) ==
  CASE c \notin used /\ Heads(c) = {} /\ Turns(c) = {} -> "unused"
    [] c \in used /\ Heads(c) = {} /\ Turns(c) # {} -> "turning"
    [] c \in used /\ Heads(c) # {} /\ Turns(c) = {} -> "held"
    [] c \in used /\ Heads(c) = {} /\ Turns(c) = {} -> "ended"
    [] OTHER -> "forked"

Turn ==
  [c \in Codes |->
     IF Cardinality(Heads(c)) + Cardinality(Turns(c)) > 1 THEN "forked" ELSE TurnOf(c)]

\* The refresh tokens of a code are a chain with one turn, whatever exchanges,
\* retries, revocations and replays run at the same time.
Chain == INSTANCE TokenChain WITH turn <- Turn
RefinesChain == Chain!Spec
=============================================================================
