------------------------ MODULE TokenFamiliesProofs ------------------------
(***************************************************************************)
(* Proofs about TokenFamilies, for any number of calls, codes and tokens:  *)
(* whatever exchanges, retries, revocations and replays run at the same    *)
(* time, the refresh tokens of a code are a chain with one turn, each is   *)
(* answered with one pair at most, and what was ended stays dead.          *)
(***************************************************************************)
EXTENDS TokenFamilies, FiniteSetTheorems, TLAPS

\* The part of the types that the chains depend on, without the bounds of the model.
Token == [id : Nat, code : Codes, sess : BOOLEAN, exp : Nat, revoked : BOOLEAN, until : Nat,
          reply : Nat, offline : BOOLEAN]

Typed ==
  /\ now \in Nat /\ next \in Nat
  /\ used \subseteq Codes /\ refresh \subseteq Token
  /\ pc \in [Procs -> Labels]
  /\ code \in [Procs -> Codes \cup {NoCode}]
  /\ row \in [Procs -> SUBSET Token]
  /\ scope \in [Procs -> BOOLEAN]
  /\ iat \in [Procs -> Nat] /\ mint \in [Procs -> Nat]

-----------------------------------------------------------------------------
(* Types.                                                                  *)

\* A call that ends leaves its variables well typed.
LEMMA FinishTyped ==
  ASSUME Typed, NEW p \in Procs, Finish(p)
  PROVE  /\ pc' \in [Procs -> Labels] /\ code' \in [Procs -> Codes \cup {NoCode}]
         /\ row' \in [Procs -> SUBSET Token] /\ scope' \in [Procs -> BOOLEAN]
         /\ iat' \in [Procs -> Nat] /\ mint' \in [Procs -> Nat]
BY DEF Typed, Finish, Goto, Labels

\* So does one that goes on.
LEMMA GotoTyped ==
  ASSUME Typed, NEW p \in Procs, NEW l \in Labels, Goto(p, l)
  PROVE  pc' \in [Procs -> Labels]
BY DEF Typed, Goto

\* A row of which one column changes.
LEMMA TokenTyped ==
  ASSUME NEW r \in Token, NEW b \in BOOLEAN, NEW n \in Nat
  PROVE  /\ [r EXCEPT !.revoked = b] \in Token /\ [r EXCEPT !.revoked = b, !.until = n] \in Token
         /\ [r EXCEPT !.reply = n] \in Token /\ [r EXCEPT !.sess = b] \in Token
BY DEF Token

\* The steps of the grant authorization_code.
LEMMA RedeemTyped ==
  ASSUME Typed, NEW p \in Procs,
         Redeem(p) \/ CheckSession(p) \/ ReplayAccess(p) \/ ReplayRefresh(p) \/ ReplayRefreshLost(p)
  PROVE  Typed'
<1>0. {"checkSession", "replayAccess", "replayRefresh", "mintRefresh", "mintAccess"} \subseteq Labels
  BY DEF Labels
<1>1. CASE Redeem(p)
  <2>1. PICK c \in Codes :
          /\ code' = [code EXCEPT ![p] = c] /\ used' = used \cup {c}
          /\ \E l \in {"checkSession", "replayAccess"} : Goto(p, l)
    BY <1>1 DEF Redeem, Enter
  <2>2. \E b \in BOOLEAN : scope' = [scope EXCEPT ![p] = b]
    BY <1>1 DEF Redeem
  <2>. QED  BY <1>0, <1>1, <2>1, <2>2, GotoTyped DEF Redeem, Typed
<1>2. CASE CheckSession(p)
  <2>1. CASE session
    <3>1. \E l \in Labels : Goto(p, l)
      BY <1>0, <1>2, <2>1 DEF CheckSession
    <3>. QED  BY <1>2, <2>1, <3>1, GotoTyped DEF CheckSession, Typed, store
  <2>. QED  BY <1>2, <2>1, FinishTyped DEF CheckSession, Typed, store
<1>3. CASE ReplayAccess(p)
  BY <1>0, <1>3, GotoTyped DEF ReplayAccess, Typed, local
<1>4. CASE ReplayRefresh(p)
  BY <1>4, FinishTyped DEF ReplayRefresh, Ended, DeleteRefresh, Typed
<1>5. CASE ReplayRefreshLost(p)
  BY <1>5, FinishTyped DEF ReplayRefreshLost, Typed, store
<1>. QED  BY <1>1, <1>2, <1>3, <1>4, <1>5

\* The steps that create tokens.
LEMMA MintTyped ==
  ASSUME Typed, NEW p \in Procs,
         Rotate(p) \/ MintRefresh(p) \/ MintAccess(p) \/ StoreReply(p),
         pc[p] = "mintRefresh" => code[p] \in Codes
  PROVE  Typed'
<1>0. /\ {"mintRefresh", "mintAccess", "storeReply"} \subseteq Labels
      /\ ReuseInterval \in Nat /\ RefreshLifetime \in Nat
  BY TokensAssumption DEF Labels
<1>1. CASE Rotate(p)
  <2>1. CASE Rotatable(p) = {}
    BY <1>1, <2>1, FinishTyped DEF Rotate, Typed
  <2>2. CASE Rotatable(p) # {}
    <3>. DEFINE n == IF ReuseInterval > 0 THEN iat[p] + ReuseInterval ELSE 0
    <3>1. n \in Nat
      BY <1>0 DEF Typed
    <3>2. refresh' = {IF r \in Rotatable(p) THEN [r EXCEPT !.revoked = TRUE, !.until = n]
                      ELSE r : r \in refresh}
      BY <1>1, <2>2 DEF Rotate
    <3>. HIDE DEF n
    <3>3. ASSUME NEW t \in refresh' PROVE t \in Token
      <4>1. PICK r \in refresh : t = r \/ t = [r EXCEPT !.revoked = TRUE, !.until = n]
        BY <3>2, <3>3
      <4>. QED  BY <3>1, <4>1, TokenTyped DEF Typed
    <3>. QED  BY <1>0, <1>1, <2>2, <3>3, GotoTyped DEF Rotate, Typed, local
  <2>. QED  BY <2>1, <2>2
<1>2. CASE MintRefresh(p)
  <2>1. CASE SessionMissing(p)
    BY <1>2, <2>1, FinishTyped DEF MintRefresh, Typed
  <2>2. CASE ~SessionMissing(p)
    <3>1. PICK t : /\ refresh' = refresh \cup {t}
                   /\ t = [id |-> next, code |-> code[p], sess |-> ForSession(p),
                           exp |-> iat[p] + RefreshLifetime, revoked |-> FALSE, until |-> 0,
                           reply |-> 0, offline |-> scope[p]]
      BY <1>2, <2>2 DEF MintRefresh
    <3>2. ForSession(p) \in BOOLEAN
      BY DEF ForSession, Typed, Token
    <3>3. /\ next \in Nat /\ code[p] \in Codes /\ iat[p] + RefreshLifetime \in Nat
          /\ scope[p] \in BOOLEAN
      BY <1>0, <1>2 DEF MintRefresh, Typed
    <3>4. t \in Token
      BY <3>1, <3>2, <3>3 DEF Token
    <3>5. /\ UNCHANGED <<now, used, code, row, scope, iat>>
          /\ mint' = [mint EXCEPT ![p] = next] /\ next' = next + 1
          /\ \E l \in Labels : Goto(p, l)
      BY <1>0, <1>2, <2>2 DEF MintRefresh, Minted
    <3>6. pc' \in [Procs -> Labels]
      BY <3>5, GotoTyped
    <3>7. mint' \in [Procs -> Nat] /\ next' \in Nat
      BY <3>5 DEF Typed
    <3>8. refresh' \subseteq Token
      BY <3>1, <3>4 DEF Typed
    <3>. QED  BY <3>5, <3>6, <3>7, <3>8 DEF Typed
  <2>. QED  BY <2>1, <2>2
<1>3. CASE MintAccess(p)
  <2>1. CASE UNCHANGED next /\ Finish(p)
    BY <1>3, <2>1, FinishTyped DEF MintAccess, Typed
  <2>2. CASE ~(UNCHANGED next /\ Finish(p))
    <3>1. /\ UNCHANGED <<now, used, refresh, code, row, scope, iat>>
          /\ Goto(p, "storeReply")
          /\ \/ mint' = [mint EXCEPT ![p] = next] /\ next' = next + 1
             \/ UNCHANGED <<next, mint>>
      BY <1>3, <2>2 DEF MintAccess, Minted
    <3>. QED  BY <1>0, <3>1, GotoTyped DEF Typed
  <2>. QED  BY <2>1, <2>2
<1>4. CASE StoreReply(p)
  <2>. DEFINE f(r) == [r EXCEPT !.reply = mint[p]]
  <2>1. refresh' \subseteq refresh \cup {f(r) : r \in refresh}
    BY <1>4 DEF StoreReply
  <2>2. \A r \in refresh : f(r) \in Token
    BY TokenTyped DEF Typed
  <2>. HIDE DEF f
  <2>3. refresh' \subseteq Token
    BY <2>1, <2>2 DEF Typed
  <2>. QED  BY <1>4, <2>3, FinishTyped DEF StoreReply, Answer, Typed
<1>. QED  BY <1>1, <1>2, <1>3, <1>4

\* The steps of the grant refresh_token.
LEMMA RefreshTyped ==
  ASSUME Typed, NEW p \in Procs,
         Refresh(p) \/ JudgeLive(p) \/ JudgeRetry(p) \/ JudgeReplay(p)
  PROVE  Typed'
<1>0. {"judge", "rotate", "mintAccess", "listFamily"} \subseteq Labels
  BY DEF Labels
<1>1. CASE Refresh(p)
  <2>1. PICK r \in refresh :
          /\ row' = [row EXCEPT ![p] = {r}] /\ code' = [code EXCEPT ![p] = r.code]
          /\ \E offline \in {r.offline} \cup {r.offline /\ ~Narrowing} :
               scope' = [scope EXCEPT ![p] = offline]
    BY <1>1 DEF Refresh
  <2>2. r \in Token /\ r.code \in Codes /\ r.offline \in BOOLEAN
    BY DEF Typed, Token
  <2>3. \A b \in {r.offline} \cup {r.offline /\ ~Narrowing} : b \in BOOLEAN
    BY <2>2
  <2>4. PICK b \in BOOLEAN : scope' = [scope EXCEPT ![p] = b]
    BY <2>1, <2>3
  <2>5. scope' \in [Procs -> BOOLEAN]
    BY <2>4 DEF Typed
  <2>. QED  BY <1>0, <1>1, <2>1, <2>2, <2>5, GotoTyped DEF Refresh, Enter, Typed, store
<1>2. CASE JudgeLive(p)
  <2>1. \E l \in Labels : Goto(p, l)
    BY <1>0, <1>2 DEF JudgeLive
  <2>. QED  BY <1>2, <2>1, GotoTyped DEF JudgeLive, Typed, store
<1>3. CASE JudgeRetry(p)
  <2>1. Finish(p)
    BY <1>3 DEF JudgeRetry, Answer
  <2>. QED  BY <1>3, <2>1, FinishTyped DEF JudgeRetry, Typed, store
<1>4. CASE JudgeReplay(p)
  BY <1>0, <1>4, GotoTyped DEF JudgeReplay, Typed, store, local
<1>. QED  BY <1>1, <1>2, <1>3, <1>4

\* The steps that end tokens.
LEMMA EndingTyped ==
  ASSUME Typed, NEW p \in Procs, Ending(p)
  PROVE  Typed'
<1>0. {"listFamily", "endAccess", "endFamily", "revokeSwap", "revokeAccess", "plan",
       "planAccess", "planRefresh", "endSession", "applyAccess", "applyRefresh"} \subseteq Labels
  BY DEF Labels
<1>1. CASE ListFamily(p) \/ PlanAccess(p) \/ PlanRefresh(p) \/ PlanLost(p)
  BY <1>0, <1>1, GotoTyped DEF ListFamily, PlanAccess, PlanRefresh, PlanLost, Typed, store
<1>2. CASE EndAccess(p) \/ ApplyAccess(p)
  BY <1>0, <1>2, GotoTyped DEF EndAccess, ApplyAccess, Typed, local
<1>3. CASE EndFamily(p) \/ RevokeAccess(p)
  BY <1>3, FinishTyped DEF EndFamily, RevokeAccess, Ended, DeleteRefresh, Family, Typed
<1>4. CASE Revoke(p)
  <2>1. PICK r \in refresh :
          /\ row' = [row EXCEPT ![p] = {r}] /\ code' = [code EXCEPT ![p] = r.code]
          /\ \E l \in {"listFamily", "revokeSwap"} : Goto(p, l)
    BY <1>4 DEF Revoke, Enter
  <2>2. r \in Token /\ r.code \in Codes
    BY DEF Typed, Token
  <2>. QED  BY <1>0, <1>4, <2>1, <2>2, GotoTyped DEF Revoke, Typed, store
<1>5. CASE RevokeSwap(p)
  <2>. DEFINE f(r) == [r EXCEPT !.revoked = TRUE]
  <2>1. refresh' \subseteq refresh \cup {f(r) : r \in refresh}
    BY <1>5 DEF RevokeSwap
  <2>2. \A r \in refresh : f(r) \in Token
    BY TokenTyped DEF Typed
  <2>. HIDE DEF f
  <2>3. refresh' \subseteq Token /\ \E l \in Labels : Goto(p, l)
    BY <1>0, <1>5, <2>1, <2>2 DEF RevokeSwap, Typed
  <2>. QED  BY <1>5, <2>3, GotoTyped DEF RevokeSwap, Typed, local
<1>6. CASE RevokeOpaque(p)
  BY <1>6 DEF RevokeOpaque, Typed, local
<1>7. CASE SignOut(p)
  BY <1>0, <1>7, GotoTyped DEF SignOut, Enter, Typed, store, local
<1>8. CASE EndSession(p)
  <2>. DEFINE f(r) == [r EXCEPT !.sess = FALSE]
  <2>1. refresh' \subseteq refresh \cup {f(r) : r \in refresh}
    BY <1>8 DEF EndSession
  <2>2. \A r \in refresh : f(r) \in Token
    BY TokenTyped DEF Typed
  <2>. HIDE DEF f
  <2>3. refresh' \subseteq Token
    BY <2>1, <2>2 DEF Typed
  <2>. QED  BY <1>0, <1>8, <2>3, GotoTyped DEF EndSession, Typed, local
<1>9. CASE ApplyRefresh(p)
  <2>. DEFINE f(r) == [r EXCEPT !.revoked = TRUE]
  <2>1. refresh' \subseteq refresh \cup {f(r) : r \in refresh}
    BY <1>9 DEF ApplyRefresh
  <2>2. \A r \in refresh : f(r) \in Token
    BY TokenTyped DEF Typed
  <2>. HIDE DEF f
  <2>3. refresh' \subseteq Token
    BY <2>1, <2>2 DEF Typed
  <2>. QED  BY <1>9, <2>3, FinishTyped DEF ApplyRefresh, Ended, Typed
<1>. QED  BY <1>1, <1>2, <1>3, <1>4, <1>5, <1>6, <1>7, <1>8, <1>9 DEF Ending

-----------------------------------------------------------------------------
(* The inductive invariant behind the chains.                              *)

\* The calls that have the turn of a chain.
Moving == {"checkSession", "mintRefresh"}

\* A number names one row, a row descends from a code that was redeemed, and
\* what a call has read agrees with what is stored.
Consistent ==
  /\ \A r, s \in refresh : r.id = s.id => r = s
  /\ \A r \in refresh : r.id < next /\ r.code \in used
  /\ \A p \in Procs :
       /\ pc[p] = "idle" => row[p] = {}
       /\ pc[p] \in Moving => code[p] \in used
       /\ \A s \in row[p] :
            /\ s.id < next /\ s.code = code[p]
            /\ \A r \in refresh : r.id = s.id => r.code = s.code

\* At most one token of a code can be exchanged or is being exchanged.
OneTurn ==
  \A c \in Codes :
    /\ \A r, s \in Heads(c) : r = s
    /\ \A p, q \in Turns(c) : p = q
    /\ Heads(c) = {} \/ Turns(c) = {}

ChainInv == Typed /\ Consistent /\ OneTurn

\* The turn of a chain, without counting.
Status(c) ==
  CASE c \notin used -> "unused"
    [] c \in used /\ Turns(c) # {} -> "turning"
    [] c \in used /\ Turns(c) = {} /\ Heads(c) # {} -> "held"
    [] OTHER -> "ended"

\* A set whose members are equal has one member or none.
LEMMA AtMostOne ==
  ASSUME NEW S, \A x, y \in S : x = y
  PROVE  Cardinality(S) \in {0, 1} /\ (Cardinality(S) = 0 <=> S = {})
<1>1. CASE S = {}
  BY <1>1, FS_EmptySet
<1>2. ASSUME NEW x \in S PROVE Cardinality(S) = 1
  <2>1. S = {x}
    OBVIOUS
  <2>. QED  BY <2>1, FS_Singleton
<1>. QED  BY <1>1, <1>2

\* Of a code that was not redeemed there is no chain.
LEMMA NoChain ==
  ASSUME Consistent, NEW c \in Codes, c \notin used
  PROVE  Heads(c) = {} /\ Turns(c) = {}
BY DEF Consistent, Heads, Turns, Moving

\* No chain is forked.
LEMMA TurnIsStatus == ChainInv => Turn = [c \in Codes |-> Status(c)]
<1>. SUFFICES ASSUME ChainInv, NEW c \in Codes PROVE Turn[c] = Status(c)
  BY DEF Turn
<1>1. /\ Cardinality(Heads(c)) \in {0, 1} /\ (Cardinality(Heads(c)) = 0 <=> Heads(c) = {})
      /\ Cardinality(Turns(c)) \in {0, 1} /\ (Cardinality(Turns(c)) = 0 <=> Turns(c) = {})
      /\ Heads(c) = {} \/ Turns(c) = {}
  <2>. DEFINE H == Heads(c)
              T == Turns(c)
  <2>1. (\A r, s \in H : r = s) /\ (\A p, q \in T : p = q) /\ (H = {} \/ T = {})
    BY DEF ChainInv, OneTurn
  <2>. HIDE DEF H, T
  <2>2. /\ Cardinality(H) \in {0, 1} /\ (Cardinality(H) = 0 <=> H = {})
        /\ Cardinality(T) \in {0, 1} /\ (Cardinality(T) = 0 <=> T = {})
    BY <2>1, AtMostOne
  <2>. QED  BY <2>1, <2>2 DEF H, T
<1>2. ~(Cardinality(Heads(c)) + Cardinality(Turns(c)) > 1)
  BY <1>1
<1>3. Turn[c] = TurnOf(c)
  BY <1>2 DEF Turn
<1>4. c \notin used => Heads(c) = {} /\ Turns(c) = {}
  BY NoChain DEF ChainInv
<1>5. CASE c \notin used
  <2>1. Heads(c) = {} /\ Turns(c) = {}
    BY <1>4, <1>5
  <2>2. TurnOf(c) = "unused"
    BY <1>5, <2>1 DEF TurnOf
  <2>3. Status(c) = "unused"
    BY <1>5, <2>1 DEF Status
  <2>. QED  BY <1>3, <2>2, <2>3
<1>6. CASE c \in used /\ Turns(c) # {} /\ Heads(c) = {}
  BY <1>3, <1>6 DEF TurnOf, Status
<1>7. CASE c \in used /\ Turns(c) = {} /\ Heads(c) # {}
  BY <1>3, <1>7 DEF TurnOf, Status
<1>8. CASE c \in used /\ Turns(c) = {} /\ Heads(c) = {}
  BY <1>3, <1>8 DEF TurnOf, Status
<1>. QED  BY <1>1, <1>5, <1>6, <1>7, <1>8

\* A step of p that starts no turn and revives no token: chains go on or end.
LEMMA Shrinks ==
  ASSUME ChainInv, Typed', NEW p \in Procs,
         used' = used, next <= next',
         \A s \in refresh' : \E r \in refresh :
           s.id = r.id /\ s.code = r.code /\ (r.revoked => s.revoked),
         \A s, t \in refresh' : s.id = t.id => s = t,
         \A q \in Procs \ {p} : pc'[q] = pc[q] /\ code'[q] = code[q] /\ row'[q] = row[q],
         pc'[p] \in Moving => pc[p] \in Moving /\ code'[p] = code[p],
         pc'[p] = "idle" => row'[p] = {},
         \/ row'[p] = {}
         \/ row'[p] = row[p] /\ code'[p] = code[p]
         \/ \E r \in refresh : row'[p] = {r} /\ code'[p] = r.code
  PROVE  ChainInv' /\ \A c \in Codes : Status(c)' \in {Status(c), "ended"}
<1>. USE DEF ChainInv
<1>1. \A r \in refresh : r.id < next' /\ r.id \in Nat
  BY DEF Typed, Token, Consistent
<1>2. \A c \in Codes : Turns(c)' \subseteq Turns(c)
  BY DEF Turns, Moving
<1>3. \A c \in Codes : \A s \in Heads(c)' : \E r \in Heads(c) : s.id = r.id
  BY DEF Heads, Typed, Token
<1>4. OneTurn'
  <2>. SUFFICES ASSUME NEW c \in Codes
                PROVE  /\ \A r, s \in Heads(c)' : r = s
                       /\ \A q1, q2 \in Turns(c)' : q1 = q2
                       /\ Heads(c)' = {} \/ Turns(c)' = {}
    BY DEF OneTurn
  <2>1. \A r, s \in Heads(c)' : r.id = s.id
    BY <1>3 DEF OneTurn
  <2>2. Heads(c)' \subseteq refresh'
    BY DEF Heads
  <2>. QED  BY <1>2, <1>3, <2>1, <2>2 DEF OneTurn
<1>5. Consistent'
  <2>1. \A r \in refresh' : r.id < next' /\ r.code \in used'
    BY <1>1 DEF Consistent
  <2>2. ASSUME NEW q \in Procs, q # p
        PROVE  /\ pc'[q] = "idle" => row'[q] = {}
               /\ pc'[q] \in Moving => code'[q] \in used'
               /\ \A s \in row'[q] :
                    /\ s.id < next' /\ s.code = code'[q]
                    /\ \A r \in refresh' : r.id = s.id => r.code = s.code
    <3>1. \A s \in row[q] : s.id \in Nat /\ s.id < next /\ next \in Nat /\ next' \in Nat
      BY DEF Typed, Token, Consistent
    <3>2. \A s \in row[q] : s.id < next'
      BY <3>1
    <3>. QED  BY <2>2, <3>2 DEF Consistent
  <2>3. pc'[p] \in Moving => code'[p] \in used'
    BY DEF Consistent
  <2>4. \A s \in row'[p] :
          /\ s.id < next' /\ s.code = code'[p]
          /\ \A r \in refresh' : r.id = s.id => r.code = s.code
    <3>1. CASE row'[p] = {}
      BY <3>1
    <3>2. CASE row'[p] = row[p] /\ code'[p] = code[p]
      <4>1. \A s \in row[p] : s.id \in Nat /\ s.id < next /\ next \in Nat /\ next' \in Nat
        BY DEF Typed, Token, Consistent
      <4>2. \A s \in row[p] : s.id < next'
        BY <4>1
      <4>. QED  BY <3>2, <4>2 DEF Consistent
    <3>3. ASSUME NEW r \in refresh, row'[p] = {r} /\ code'[p] = r.code
          PROVE  \A s \in row'[p] :
                   /\ s.id < next' /\ s.code = code'[p]
                   /\ \A t \in refresh' : t.id = s.id => t.code = s.code
      BY <1>1, <3>3 DEF Consistent
    <3>. QED  BY <3>1, <3>2, <3>3
  <2>. QED  BY <2>1, <2>2, <2>3, <2>4 DEF Consistent
<1>6. \A c \in Codes : Status(c)' \in {Status(c), "ended"}
  <2>. SUFFICES ASSUME NEW c \in Codes PROVE Status(c)' \in {Status(c), "ended"}
    OBVIOUS
  <2>1. /\ Turns(c)' # {} => Turns(c) # {}
        /\ Heads(c)' # {} => Heads(c) # {}
        /\ Heads(c) = {} \/ Turns(c) = {}
    BY <1>2, <1>3 DEF OneTurn
  <2>. QED  BY <2>1 DEF Status
<1>. QED  BY <1>4, <1>5, <1>6

-----------------------------------------------------------------------------
(* The steps.                                                              *)

\* Only its own step moves a call.
LEMMA OthersStay ==
  ASSUME Typed, NEW p \in Procs, Grant(p) \/ Ending(p) \/ ReplayRefreshLost(p) \/ Throw(p)
  PROVE  \A q \in Procs \ {p} : pc'[q] = pc[q] /\ code'[q] = code[q] /\ row'[q] = row[q]
<1>1. CASE \/ Redeem(p) \/ CheckSession(p) \/ ReplayAccess(p) \/ ReplayRefresh(p)
           \/ ReplayRefreshLost(p) \/ Throw(p)
  BY <1>1 DEF Redeem, CheckSession, ReplayAccess, ReplayRefresh, ReplayRefreshLost, Throw, Enter,
     Goto, Finish, Ended, local, Typed
<1>2. CASE Refresh(p) \/ JudgeLive(p) \/ JudgeRetry(p) \/ JudgeReplay(p)
  BY <1>2 DEF Refresh, JudgeLive, JudgeRetry, JudgeReplay, Enter, Goto, Finish, Answer, local, Typed
<1>3. CASE Rotate(p) \/ MintRefresh(p) \/ MintAccess(p) \/ StoreReply(p)
  BY <1>3 DEF Rotate, MintRefresh, MintAccess, StoreReply, Goto, Finish, Answer, local, Typed
<1>4. CASE \/ ListFamily(p) \/ EndAccess(p) \/ EndFamily(p)
           \/ Revoke(p) \/ RevokeSwap(p) \/ RevokeAccess(p) \/ RevokeOpaque(p)
  BY <1>4 DEF ListFamily, EndAccess, EndFamily, Revoke, RevokeSwap, RevokeAccess, RevokeOpaque,
     Enter, Goto, Finish, Ended, local, Typed
<1>5. CASE \/ SignOut(p) \/ PlanAccess(p) \/ PlanRefresh(p) \/ PlanLost(p) \/ EndSession(p)
           \/ ApplyAccess(p) \/ ApplyRefresh(p)
  BY <1>5 DEF SignOut, PlanAccess, PlanRefresh, PlanLost, EndSession, ApplyAccess, ApplyRefresh, Enter, Goto,
     Finish, Ended, local, Typed
<1>. QED  BY <1>1, <1>2, <1>3, <1>4, <1>5 DEF Grant, Ending

\* Where a call stands that has made a step, if it starts no turn.
Settled(p) ==
  /\ pc'[p] \in Moving => pc[p] \in Moving /\ code'[p] = code[p]
  /\ pc'[p] = "idle" => row'[p] = {}
  /\ \/ row'[p] = {}
     \/ row'[p] = row[p] /\ code'[p] = code[p]
     \/ \E r \in refresh : row'[p] = {r} /\ code'[p] = r.code

\* A call that ends is settled, and one that goes on with what it has.
LEMMA FinishSettled ==
  ASSUME ChainInv, NEW p \in Procs,
         \/ Finish(p)
         \/ \E l \in Labels \ (Moving \cup {"idle"}) : Goto(p, l) /\ UNCHANGED <<code, row>>
  PROVE  Settled(p)
BY DEF Settled, Finish, Goto, Moving, ChainInv, Typed

\* The steps that leave the refresh tokens alone.
LEMMA QuietSteps ==
  ASSUME ChainInv, Typed', NEW p \in Procs,
         \/ CheckSession(p) \/ ReplayAccess(p) \/ ReplayRefreshLost(p) \/ Throw(p) \/ MintAccess(p)
         \/ Refresh(p) \/ JudgeLive(p) \/ JudgeRetry(p) \/ JudgeReplay(p)
         \/ ListFamily(p) \/ EndAccess(p) \/ Revoke(p) \/ RevokeAccess(p) \/ RevokeOpaque(p)
         \/ SignOut(p) \/ PlanAccess(p) \/ PlanRefresh(p) \/ PlanLost(p) \/ ApplyAccess(p)
  PROVE  ChainInv' /\ \A c \in Codes : Status(c)' \in {Status(c), "ended"}
<1>0. {"replayRefresh", "storeReply", "mintAccess", "judge", "rotate", "listFamily", "endAccess",
       "endFamily", "revokeSwap", "plan", "planAccess", "planRefresh", "endSession", "applyRefresh"}
        \subseteq Labels \ (Moving \cup {"idle"})
  BY DEF Labels, Moving
<1>1. UNCHANGED <<used, refresh>> /\ next <= next'
  <2>1. next \in Nat
    BY DEF ChainInv, Typed
  <2>2. CASE MintAccess(p)
    BY <2>1, <2>2 DEF MintAccess, Minted
  <2>3. CASE ~MintAccess(p)
    <3>1. UNCHANGED <<used, refresh, next>>
      BY <2>3 DEF CheckSession, ReplayAccess, ReplayRefreshLost, Throw, Refresh, JudgeLive,
         JudgeRetry, JudgeReplay, ListFamily, EndAccess, Revoke, RevokeAccess, RevokeOpaque,
         SignOut, PlanAccess, PlanRefresh, PlanLost, ApplyAccess, store
    <3>. QED  BY <2>1, <3>1
  <2>. QED  BY <2>2, <2>3
<1>2. \A q \in Procs \ {p} : pc'[q] = pc[q] /\ code'[q] = code[q] /\ row'[q] = row[q]
  BY OthersStay DEF Grant, Ending, ChainInv
<1>3. Settled(p)
  <2>1. CASE ReplayRefreshLost(p) \/ Throw(p) \/ RevokeAccess(p) \/ JudgeRetry(p)
    BY <2>1, FinishSettled DEF ReplayRefreshLost, Throw, RevokeAccess, Ended, JudgeRetry, Answer
  <2>2. CASE \/ ReplayAccess(p) \/ JudgeReplay(p) \/ ListFamily(p) \/ EndAccess(p)
             \/ SignOut(p) \/ PlanAccess(p) \/ PlanRefresh(p) \/ PlanLost(p) \/ ApplyAccess(p)
    BY <1>0, <2>2, FinishSettled DEF ReplayAccess, JudgeReplay, ListFamily, EndAccess, SignOut,
       PlanAccess, PlanRefresh, PlanLost, ApplyAccess, Enter, local
  <2>3. CASE JudgeLive(p)
    <3>1. \E l \in {"rotate", "mintAccess"} : Goto(p, l)
      BY <2>3 DEF JudgeLive
    <3>. QED  BY <1>0, <2>3, <3>1, FinishSettled DEF JudgeLive
  <2>4. CASE MintAccess(p)
    <3>1. Finish(p) \/ (Goto(p, "storeReply") /\ UNCHANGED <<code, row>>)
      BY <2>4 DEF MintAccess
    <3>. QED  BY <1>0, <3>1, FinishSettled
  <2>5. CASE CheckSession(p)
    <3>1. CASE session
      <4>1. /\ pc[p] = "checkSession" /\ UNCHANGED <<code, row>>
            /\ \E l \in {"mintRefresh", "mintAccess"} : Goto(p, l)
        BY <2>5, <3>1 DEF CheckSession
      <4>. QED  BY <4>1 DEF Settled, Moving, Goto, ChainInv, Typed
    <3>2. CASE ~session
      BY <2>5, <3>2, FinishSettled DEF CheckSession
    <3>. QED  BY <3>1, <3>2
  <2>6. CASE Refresh(p) \/ Revoke(p)
    <3>1. PICK r \in refresh :
            /\ row' = [row EXCEPT ![p] = {r}] /\ code' = [code EXCEPT ![p] = r.code]
            /\ \E l \in {"judge", "listFamily", "revokeSwap"} : Goto(p, l)
      BY <2>6 DEF Refresh, Revoke, Enter
    <3>. QED  BY <3>1 DEF Settled, Moving, Goto, ChainInv, Typed
  <2>7. CASE RevokeOpaque(p)
    BY <2>7 DEF RevokeOpaque, Settled, Moving, local, ChainInv, Consistent
  <2>. QED  BY <2>1, <2>2, <2>3, <2>4, <2>5, <2>6, <2>7
<1>4. \A s \in refresh' : \E r \in refresh :
        s.id = r.id /\ s.code = r.code /\ (r.revoked => s.revoked)
  BY <1>1
<1>5. \A s, t \in refresh' : s.id = t.id => s = t
  BY <1>1 DEF ChainInv, Consistent
<1>. QED  BY <1>1, <1>2, <1>3, <1>4, <1>5, Shrinks DEF Settled

\* The steps that delete refresh tokens, revoke them or write to their rows.
LEMMA RowSteps ==
  ASSUME ChainInv, Typed', NEW p \in Procs,
         \/ ReplayRefresh(p) \/ StoreReply(p) \/ EndFamily(p) \/ RevokeSwap(p)
         \/ EndSession(p) \/ ApplyRefresh(p)
  PROVE  ChainInv' /\ \A c \in Codes : Status(c)' \in {Status(c), "ended"}
<1>0. {"listFamily", "revokeAccess", "applyAccess"} \subseteq Labels \ (Moving \cup {"idle"})
  BY DEF Labels, Moving
<1>1. UNCHANGED <<used, next>> /\ next <= next'
  <2>1. UNCHANGED <<used, next>>
    BY DEF ReplayRefresh, StoreReply, EndFamily, RevokeSwap, EndSession, ApplyRefresh
  <2>. QED  BY <2>1 DEF ChainInv, Typed
<1>2. \A q \in Procs \ {p} : pc'[q] = pc[q] /\ code'[q] = code[q] /\ row'[q] = row[q]
  BY OthersStay DEF Grant, Ending, ChainInv
<1>3. Settled(p)
  <2>1. CASE ReplayRefresh(p) \/ StoreReply(p) \/ EndFamily(p) \/ ApplyRefresh(p)
    BY <2>1, FinishSettled DEF ReplayRefresh, StoreReply, Answer, EndFamily, ApplyRefresh, Ended
  <2>2. CASE RevokeSwap(p)
    <3>1. \E l \in {"listFamily", "revokeAccess"} : Goto(p, l)
      BY <2>2 DEF RevokeSwap
    <3>. QED  BY <1>0, <2>2, <3>1, FinishSettled DEF RevokeSwap, local
  <2>3. CASE EndSession(p)
    BY <1>0, <2>3, FinishSettled DEF EndSession, local
  <2>. QED  BY <2>1, <2>2, <2>3
<1>4. /\ \A s \in refresh' : \E r \in refresh :
           s.id = r.id /\ s.code = r.code /\ (r.revoked => s.revoked)
      /\ \A s, t \in refresh' : s.id = t.id => s = t
  <2>0. /\ \A r \in refresh : r \in Token
        /\ \A r, s \in refresh : r.id = s.id => r = s
    BY DEF ChainInv, Typed, Consistent
  <2>1. CASE refresh' \subseteq refresh
    BY <2>0, <2>1
  <2>2. ASSUME NEW S, refresh' = {IF r \in S THEN [r EXCEPT !.revoked = TRUE] ELSE r : r \in refresh}
        PROVE  /\ \A s \in refresh' : \E r \in refresh :
                    s.id = r.id /\ s.code = r.code /\ (r.revoked => s.revoked)
               /\ \A s, t \in refresh' : s.id = t.id => s = t
    <3>. DEFINE f(r) == IF r \in S THEN [r EXCEPT !.revoked = TRUE] ELSE r
    <3>1. \A r \in refresh : f(r).id = r.id /\ f(r).code = r.code /\ (r.revoked => f(r).revoked)
      BY <2>0 DEF Token
    <3>2. refresh' = {f(r) : r \in refresh}
      BY <2>2
    <3>. HIDE DEF f
    <3>. QED  BY <2>0, <3>1, <3>2
  <2>3. CASE refresh' = {[r EXCEPT !.sess = FALSE] : r \in refresh}
    <3>. DEFINE f(r) == [r EXCEPT !.sess = FALSE]
    <3>1. \A r \in refresh : f(r).id = r.id /\ f(r).code = r.code /\ (r.revoked => f(r).revoked)
      BY <2>0 DEF Token
    <3>2. refresh' = {f(r) : r \in refresh}
      BY <2>3
    <3>. HIDE DEF f
    <3>. QED  BY <2>0, <3>1, <3>2
  <2>4. CASE StoreReply(p)
    <3>. DEFINE f(r) == IF Replayable(p) /\ r.id \in Parent(p)
                        THEN [r EXCEPT !.reply = mint[p]] ELSE r
    <3>1. \A r \in refresh : f(r).id = r.id /\ f(r).code = r.code /\ (r.revoked => f(r).revoked)
      BY <2>0 DEF Token
    <3>2. refresh' = {f(r) : r \in refresh} \/ refresh' = refresh
      BY <2>4 DEF StoreReply
    <3>. HIDE DEF f
    <3>. QED  BY <2>0, <3>1, <3>2
  <2>5. CASE ReplayRefresh(p) \/ EndFamily(p)
    <3>1. refresh' \subseteq refresh
      BY <2>5 DEF ReplayRefresh, EndFamily, DeleteRefresh
    <3>. QED  BY <2>1, <3>1
  <2>6. CASE RevokeSwap(p)
    BY <2>2, <2>6 DEF RevokeSwap
  <2>7. CASE EndSession(p)
    BY <2>1, <2>3, <2>7 DEF EndSession
  <2>8. CASE ApplyRefresh(p)
    <3>1. CASE refresh' = refresh
      BY <2>1, <3>1
    <3>2. CASE refresh' = {IF r.id \in ids[p] THEN [r EXCEPT !.revoked = TRUE] ELSE r : r \in refresh}
      <4>. DEFINE f(r) == IF r.id \in ids[p] THEN [r EXCEPT !.revoked = TRUE] ELSE r
      <4>1. \A r \in refresh : f(r).id = r.id /\ f(r).code = r.code /\ (r.revoked => f(r).revoked)
        BY <2>0 DEF Token
      <4>2. refresh' = {f(r) : r \in refresh}
        BY <3>2
      <4>. HIDE DEF f
      <4>. QED  BY <2>0, <4>1, <4>2
    <3>. QED  BY <2>8, <3>1, <3>2 DEF ApplyRefresh
  <2>. QED  BY <2>4, <2>5, <2>6, <2>7, <2>8
<1>. QED  BY <1>1, <1>2, <1>3, <1>4, Shrinks DEF Settled

\* What a step does that starts the turn of one chain or ends it with a token.
LEMMA RotateStep ==
  ASSUME ChainInv, Typed', NEW p \in Procs, Rotate(p)
  PROVE  /\ ChainInv'
         /\ \/ \A c \in Codes : Status(c)' \in {Status(c), "ended"}
            \/ \E c \in Codes : /\ Status(c) = "held" /\ Status(c)' = "turning"
                                /\ \A d \in Codes \ {c} : Status(d)' = Status(d)
<1>. USE DEF ChainInv
<1>0. \A q \in Procs \ {p} : pc'[q] = pc[q] /\ code'[q] = code[q] /\ row'[q] = row[q]
  BY OthersStay DEF Grant
<1>1. CASE Rotatable(p) = {}
  <2>1. UNCHANGED <<used, refresh, next>> /\ Finish(p)
    BY <1>1 DEF Rotate
  <2>2. Settled(p)
    BY <2>1, FinishSettled
  <2>3. next <= next'
    BY <2>1 DEF Typed
  <2>4. \A s, t \in refresh' : s.id = t.id => s = t
    BY <2>1 DEF Consistent
  <2>5. \A s \in refresh' : \E r \in refresh :
          s.id = r.id /\ s.code = r.code /\ (r.revoked => s.revoked)
    BY <2>1
  <2>. QED  BY <1>0, <2>1, <2>2, <2>3, <2>4, <2>5, Shrinks DEF Settled
<1>2. CASE Rotatable(p) # {}
  <2>. DEFINE n == IF ReuseInterval > 0 THEN iat[p] + ReuseInterval ELSE 0
              f(r) == IF r \in Rotatable(p) THEN [r EXCEPT !.revoked = TRUE, !.until = n] ELSE r
  <2>1. PICK h \in refresh : h \in Rotatable(p)
    BY <1>2 DEF Rotatable
  <2>2. PICK c \in Codes : c = code[p] /\ h.code = c /\ c \in used /\ ~h.revoked
    BY <2>1 DEF Rotatable, Parent, Ids, Consistent, Typed
  <2>3. Rotatable(p) = {h}
    BY <2>1, <2>2 DEF Rotatable, Parent, Ids, Consistent, OneTurn, Heads
  <2>4. UNCHANGED <<used, next, code, row>> /\ pc' = [pc EXCEPT ![p] = "mintRefresh"]
        /\ pc[p] = "rotate"
    BY <1>2 DEF Rotate, Goto, local
  <2>5. refresh' = {f(r) : r \in refresh}
    BY <1>2 DEF Rotate
  <2>6. /\ \A r \in refresh : f(r).id = r.id /\ f(r).code = r.code /\ (r.revoked => f(r).revoked)
        /\ \A r \in refresh : r # h => f(r) = r
        /\ f(h).revoked
    BY <2>1, <2>3 DEF Typed, Token
  <2>. HIDE DEF f, n
  <2>7. Heads(c) = {h} /\ Turns(c) = {}
    BY <2>1, <2>2 DEF Heads, OneTurn
  <2>8. Heads(c)' = {}
    <3>1. ASSUME NEW s \in Heads(c)' PROVE FALSE
      <4>1. PICK r \in refresh : s = f(r)
        BY <2>5 DEF Heads
      <4>2. s.code = c /\ ~s.revoked
        BY <2>4 DEF Heads
      <4>3. r # h
        BY <2>6, <4>1, <4>2
      <4>4. r \in Heads(c)
        BY <2>6, <4>1, <4>2, <4>3 DEF Heads
      <4>. QED  BY <2>7, <4>3, <4>4
    <3>. QED  BY <3>1
  <2>9. Turns(c)' = {p}
    BY <2>2, <2>4, <2>7 DEF Turns, Typed
  <2>10. \A d \in Codes \ {c} : Heads(d)' = Heads(d) /\ Turns(d)' = Turns(d)
    <3>. SUFFICES ASSUME NEW d \in Codes \ {c} PROVE Heads(d)' = Heads(d) /\ Turns(d)' = Turns(d)
      OBVIOUS
    <3>1. Turns(d)' = Turns(d)
      BY <2>2, <2>4 DEF Turns, Typed
    <3>2. \A s \in Heads(d)' : s \in Heads(d)
      <4>. SUFFICES ASSUME NEW s \in Heads(d)' PROVE s \in Heads(d)
        OBVIOUS
      <4>1. PICK r \in refresh : s = f(r)
        BY <2>5 DEF Heads
      <4>2. s.code = d /\ ~s.revoked
        BY DEF Heads
      <4>3. r # h
        BY <2>2, <2>6, <4>1, <4>2
      <4>. QED  BY <2>6, <4>1, <4>2, <4>3 DEF Heads
    <3>3. \A s \in Heads(d) : s \in Heads(d)'
      <4>. SUFFICES ASSUME NEW s \in Heads(d) PROVE s \in Heads(d)'
        OBVIOUS
      <4>1. s \in refresh /\ s # h /\ s.code = d /\ ~s.revoked
        BY <2>2 DEF Heads
      <4>2. f(s) = s
        BY <2>6, <4>1
      <4>. QED  BY <2>5, <4>1, <4>2 DEF Heads
    <3>. QED  BY <3>1, <3>2, <3>3
  <2>11. OneTurn'
    <3>. SUFFICES ASSUME NEW d \in Codes
                  PROVE  /\ \A r, s \in Heads(d)' : r = s
                         /\ \A q1, q2 \in Turns(d)' : q1 = q2
                         /\ Heads(d)' = {} \/ Turns(d)' = {}
      BY DEF OneTurn
    <3>1. CASE d = c
      BY <2>8, <2>9, <3>1
    <3>2. CASE d # c
      BY <2>10, <3>2 DEF OneTurn
    <3>. QED  BY <3>1, <3>2
  <2>12. Consistent'
    <3>1. \A r, s \in refresh' : r.id = s.id => r = s
      BY <2>5, <2>6 DEF Consistent
    <3>2. \A r \in refresh' : r.id < next' /\ r.code \in used'
      BY <2>4, <2>5, <2>6 DEF Consistent
    <3>3. \A q \in Procs : /\ pc'[q] = "idle" => row'[q] = {}
                           /\ pc'[q] \in Moving => code'[q] \in used'
      BY <2>2, <2>4 DEF Consistent, Typed, Moving
    <3>4. \A q \in Procs : \A s \in row'[q] :
            /\ s.id < next' /\ s.code = code'[q]
            /\ \A r \in refresh' : r.id = s.id => r.code = s.code
      BY <2>4, <2>5, <2>6 DEF Consistent
    <3>. QED  BY <3>1, <3>2, <3>3, <3>4 DEF Consistent
  <2>13. Status(c) = "held" /\ Status(c)' = "turning"
    BY <2>2, <2>4, <2>7, <2>8, <2>9 DEF Status
  <2>14. \A d \in Codes \ {c} : Status(d)' = Status(d)
    BY <2>4, <2>10 DEF Status
  <2>. QED  BY <2>2, <2>11, <2>12, <2>13, <2>14
<1>. QED  BY <1>1, <1>2

\* The exchange creates the one new token of the chain.
LEMMA MintStep ==
  ASSUME ChainInv, Typed', NEW p \in Procs, MintRefresh(p)
  PROVE  /\ ChainInv'
         /\ \/ \A c \in Codes : Status(c)' \in {Status(c), "ended"}
            \/ \E c \in Codes : /\ Status(c) = "turning" /\ Status(c)' = "held"
                                /\ \A d \in Codes \ {c} : Status(d)' = Status(d)
<1>. USE DEF ChainInv
<1>0. \A q \in Procs \ {p} : pc'[q] = pc[q] /\ code'[q] = code[q] /\ row'[q] = row[q]
  BY OthersStay DEF Grant
<1>1. CASE SessionMissing(p)
  <2>1. UNCHANGED <<used, refresh, next>> /\ Finish(p)
    BY <1>1 DEF MintRefresh
  <2>2. Settled(p)
    BY <2>1, FinishSettled
  <2>3. next <= next'
    BY <2>1 DEF Typed
  <2>4. \A s, t \in refresh' : s.id = t.id => s = t
    BY <2>1 DEF Consistent
  <2>5. \A s \in refresh' : \E r \in refresh :
          s.id = r.id /\ s.code = r.code /\ (r.revoked => s.revoked)
    BY <2>1
  <2>. QED  BY <1>0, <2>1, <2>2, <2>3, <2>4, <2>5, Shrinks DEF Settled
<1>2. CASE ~SessionMissing(p)
  <2>1. PICK c \in Codes : c = code[p] /\ c \in used
    BY DEF MintRefresh, Consistent, Moving, Typed
  <2>2. /\ pc[p] = "mintRefresh" /\ UNCHANGED <<used, code, row>> /\ next' = next + 1
        /\ \E l \in {"mintAccess", "storeReply"} : Goto(p, l)
    BY <1>2 DEF MintRefresh, Minted
  <2>3. PICK t : /\ refresh' = refresh \cup {t}
                 /\ t = [id |-> next, code |-> code[p], sess |-> ForSession(p),
                         exp |-> iat[p] + RefreshLifetime, revoked |-> FALSE, until |-> 0,
                         reply |-> 0, offline |-> scope[p]]
    BY <1>2 DEF MintRefresh
  <2>4. t.id = next /\ t.code = c /\ ~t.revoked
    BY <2>1, <2>3
  <2>5. \A r \in refresh : r.id \in Nat /\ r.id < next /\ next \in Nat /\ r # t
    BY <2>4 DEF Typed, Token, Consistent
  <2>6. pc'[p] \in {"mintAccess", "storeReply"}
    BY <2>2 DEF Goto, Typed
  <2>7. Turns(c) = {p} /\ Heads(c) = {}
    <3>1. p \in Turns(c)
      BY <2>1, <2>2 DEF Turns
    <3>. QED  BY <3>1 DEF OneTurn
  <2>8. Turns(c)' = {}
    <3>1. \A q \in Turns(c)' : q # p /\ q \in Turns(c)
      BY <1>0, <2>6 DEF Turns
    <3>. QED  BY <2>7, <3>1
  <2>9. Heads(c)' = {t}
    BY <2>3, <2>4, <2>7 DEF Heads
  <2>10. \A d \in Codes \ {c} : Heads(d)' = Heads(d) /\ Turns(d)' = Turns(d)
    <3>. SUFFICES ASSUME NEW d \in Codes \ {c} PROVE Heads(d)' = Heads(d) /\ Turns(d)' = Turns(d)
      OBVIOUS
    <3>1. p \notin Turns(d) /\ p \notin Turns(d)'
      BY <2>1, <2>2 DEF Turns
    <3>2. Turns(d)' = Turns(d)
      BY <1>0, <3>1 DEF Turns
    <3>3. Heads(d)' = Heads(d)
      BY <2>3, <2>4 DEF Heads
    <3>. QED  BY <3>2, <3>3
  <2>11. OneTurn'
    <3>. SUFFICES ASSUME NEW d \in Codes
                  PROVE  /\ \A r, s \in Heads(d)' : r = s
                         /\ \A q1, q2 \in Turns(d)' : q1 = q2
                         /\ Heads(d)' = {} \/ Turns(d)' = {}
      BY DEF OneTurn
    <3>1. CASE d = c
      BY <2>8, <2>9, <3>1
    <3>2. CASE d # c
      BY <2>10, <3>2 DEF OneTurn
    <3>. QED  BY <3>1, <3>2
  <2>12. Consistent'
    <3>1. \A r, s \in refresh' : r.id = s.id => r = s
      <4>1. \A r \in refresh : r.id # t.id
        BY <2>4, <2>5
      <4>2. \A r \in refresh' : r \in refresh \/ r = t
        BY <2>3
      <4>. QED  BY <4>1, <4>2 DEF Consistent
    <3>2. \A r \in refresh' : r.id < next' /\ r.code \in used'
      BY <2>1, <2>2, <2>3, <2>4, <2>5 DEF Consistent, Typed
    <3>3. \A q \in Procs : /\ pc'[q] = "idle" => row'[q] = {}
                           /\ pc'[q] \in Moving => code'[q] \in used'
      BY <1>0, <2>2, <2>6 DEF Consistent, Moving
    <3>4. ASSUME NEW q \in Procs, NEW s \in row'[q]
          PROVE  /\ s.id < next' /\ s.code = code'[q]
                 /\ \A r \in refresh' : r.id = s.id => r.code = s.code
      <4>1. s \in row[q] /\ s.id \in Nat /\ s.id < next /\ next \in Nat
        BY <2>2, <3>4 DEF Consistent, Typed, Token
      <4>2. s.id < next' /\ s.id # t.id
        BY <2>2, <2>4, <4>1
      <4>. QED  BY <2>2, <2>3, <4>1, <4>2 DEF Consistent
    <3>. QED  BY <3>1, <3>2, <3>3, <3>4 DEF Consistent
  <2>13. Status(c) = "turning" /\ Status(c)' = "held"
    BY <2>1, <2>2, <2>7, <2>8, <2>9 DEF Status
  <2>14. \A d \in Codes \ {c} : Status(d)' = Status(d)
    BY <2>2, <2>10 DEF Status
  <2>. QED  BY <2>11, <2>12, <2>13, <2>14
<1>. QED  BY <1>1, <1>2

\* A code starts its chain when it is redeemed first, and never again.
LEMMA RedeemStep ==
  ASSUME ChainInv, Typed', NEW p \in Procs, Redeem(p)
  PROVE  /\ ChainInv'
         /\ \/ \A c \in Codes : Status(c)' \in {Status(c), "ended"}
            \/ \E c \in Codes : /\ Status(c) = "unused" /\ Status(c)' = "turning"
                                /\ \A d \in Codes \ {c} : Status(d)' = Status(d)
<1>. USE DEF ChainInv
<1>0. \A q \in Procs \ {p} : pc'[q] = pc[q] /\ code'[q] = code[q] /\ row'[q] = row[q]
  BY OthersStay DEF Grant
<1>1. PICK c \in Codes :
        /\ code' = [code EXCEPT ![p] = c] /\ used' = used \cup {c} /\ pc[p] = "idle"
        /\ pc' = [pc EXCEPT ![p] = IF c \notin used THEN "checkSession" ELSE "replayAccess"]
  BY DEF Redeem, Enter, Goto
<1>2. UNCHANGED <<refresh, next, row>> /\ row[p] = {}
  BY <1>1 DEF Redeem, Consistent
<1>3. CASE c \in used
  <2>1. used' = used /\ pc'[p] = "replayAccess"
    BY <1>1, <1>3 DEF Typed
  <2>2. Settled(p)
    BY <1>2, <2>1 DEF Settled, Moving
  <2>3. next <= next'
    BY <1>2 DEF Typed
  <2>4. \A s, t \in refresh' : s.id = t.id => s = t
    BY <1>2 DEF Consistent
  <2>5. \A s \in refresh' : \E r \in refresh :
          s.id = r.id /\ s.code = r.code /\ (r.revoked => s.revoked)
    BY <1>2
  <2>. QED  BY <1>0, <2>1, <2>2, <2>3, <2>4, <2>5, Shrinks DEF Settled
<1>4. CASE c \notin used
  <2>1. pc'[p] = "checkSession" /\ code'[p] = c
    BY <1>1, <1>4 DEF Typed
  <2>2. Heads(c) = {} /\ Turns(c) = {}
    BY <1>4, NoChain
  <2>3. Turns(c)' = {p} /\ Heads(c)' = {}
    <3>1. p \in Turns(c)'
      BY <2>1 DEF Turns
    <3>2. \A q \in Turns(c)' : q = p \/ q \in Turns(c)
      BY <1>0 DEF Turns
    <3>3. Heads(c)' = {}
      BY <1>2, <2>2 DEF Heads
    <3>. QED  BY <2>2, <3>1, <3>2, <3>3
  <2>4. \A d \in Codes \ {c} : Heads(d)' = Heads(d) /\ Turns(d)' = Turns(d)
    <3>. SUFFICES ASSUME NEW d \in Codes \ {c} PROVE Heads(d)' = Heads(d) /\ Turns(d)' = Turns(d)
      OBVIOUS
    <3>1. p \notin Turns(d) /\ p \notin Turns(d)'
      BY <1>1, <2>1 DEF Turns
    <3>2. Turns(d)' = Turns(d)
      BY <1>0, <3>1 DEF Turns
    <3>3. Heads(d)' = Heads(d)
      BY <1>2 DEF Heads
    <3>. QED  BY <3>2, <3>3
  <2>5. OneTurn'
    <3>. SUFFICES ASSUME NEW d \in Codes
                  PROVE  /\ \A r, s \in Heads(d)' : r = s
                         /\ \A q1, q2 \in Turns(d)' : q1 = q2
                         /\ Heads(d)' = {} \/ Turns(d)' = {}
      BY DEF OneTurn
    <3>1. CASE d = c
      BY <2>3, <3>1
    <3>2. CASE d # c
      BY <2>4, <3>2 DEF OneTurn
    <3>. QED  BY <3>1, <3>2
  <2>6. Consistent'
    <3>1. /\ \A r, s \in refresh' : r.id = s.id => r = s
          /\ \A r \in refresh' : r.id < next' /\ r.code \in used'
      BY <1>1, <1>2 DEF Consistent
    <3>2. \A q \in Procs : /\ pc'[q] = "idle" => row'[q] = {}
                           /\ pc'[q] \in Moving => code'[q] \in used'
      BY <1>0, <1>1, <1>2, <2>1 DEF Consistent
    <3>3. \A q \in Procs : \A s \in row'[q] :
            /\ s.id < next' /\ s.code = code'[q]
            /\ \A r \in refresh' : r.id = s.id => r.code = s.code
      BY <1>0, <1>2 DEF Consistent
    <3>. QED  BY <3>1, <3>2, <3>3 DEF Consistent
  <2>7. Status(c) = "unused" /\ Status(c)' = "turning"
    BY <1>1, <1>4, <2>3 DEF Status
  <2>8. \A d \in Codes \ {c} : Status(d)' = Status(d)
    BY <1>1, <2>4 DEF Status
  <2>. QED  BY <2>5, <2>6, <2>7, <2>8
<1>. QED  BY <1>3, <1>4

-----------------------------------------------------------------------------
(* The refinement.                                                         *)

\* The initial states.
LEMMA ChainInit == Init => ChainInv /\ Chain!Init
<1>. SUFFICES ASSUME Init PROVE ChainInv /\ Chain!Init
  OBVIOUS
<1>1. ChainInv
  BY DEF Init, ChainInv, Typed, Labels, Consistent, OneTurn, Heads, Turns, Moving
<1>2. Turn = [c \in Codes |-> Status(c)]
  BY <1>1, TurnIsStatus
<1>3. \A c \in Codes : Status(c) = "unused"
  BY DEF Status, Init
<1>. QED  BY <1>1, <1>2, <1>3 DEF Chain!Init

\* Every step keeps the types.
LEMMA TypedStep == ChainInv /\ [Next]_vars => Typed'
<1>. SUFFICES ASSUME ChainInv, [Next]_vars PROVE Typed'
  OBVIOUS
<1>. USE DEF ChainInv
<1>1. CASE UNCHANGED vars
  BY <1>1 DEF vars, Typed
<1>2. CASE Tick
  BY <1>2 DEF Tick, Typed, store, local
<1>3. ASSUME NEW p \in Procs, Grant(p) PROVE Typed'
  <2>1. pc[p] = "mintRefresh" => code[p] \in Codes
    BY DEF Consistent, Moving, Typed
  <2>. QED  BY <1>3, <2>1, RedeemTyped, RefreshTyped, MintTyped DEF Grant
<1>4. ASSUME NEW p \in Procs, Ending(p) PROVE Typed'
  BY <1>4, EndingTyped
<1>5. ASSUME NEW p \in Procs, ReplayRefreshLost(p) PROVE Typed'
  BY <1>5, RedeemTyped
<1>6. ASSUME NEW p \in Procs, Throw(p) PROVE Typed'
  BY <1>6, FinishTyped DEF Throw, Typed, store
<1>. QED  BY <1>1, <1>2, <1>3, <1>4, <1>5, <1>6 DEF Next

\* Every step keeps the invariant, and moves the turn of one chain, ends some or
\* leaves them all.
LEMMA ChainStep ==
  ASSUME ChainInv, [Next]_vars
  PROVE  /\ ChainInv'
         /\ \/ \A c \in Codes : Status(c)' \in {Status(c), "ended"}
            \/ \E c \in Codes : /\ \/ Status(c) \in {"unused", "held"} /\ Status(c)' = "turning"
                                   \/ Status(c) = "turning" /\ Status(c)' = "held"
                                /\ \A d \in Codes \ {c} : Status(d)' = Status(d)
<1>1. Typed'
  BY TypedStep
<1>2. CASE UNCHANGED vars \/ Tick
  <2>1. UNCHANGED <<used, refresh, next, pc, code, row>>
    BY <1>2 DEF vars, Tick, store, local
  <2>2. \A c \in Codes : Heads(c)' = Heads(c) /\ Turns(c)' = Turns(c)
    BY <2>1 DEF Heads, Turns
  <2>3. Consistent' /\ OneTurn'
    BY <2>1, <2>2 DEF ChainInv, Consistent, OneTurn
  <2>4. \A c \in Codes : Status(c)' = Status(c)
    BY <2>1, <2>2 DEF Status
  <2>. QED  BY <1>1, <2>3, <2>4 DEF ChainInv
<1>3. ASSUME NEW p \in Procs, Grant(p) \/ Ending(p) \/ ReplayRefreshLost(p) \/ Throw(p)
      PROVE  /\ ChainInv'
             /\ \/ \A c \in Codes : Status(c)' \in {Status(c), "ended"}
                \/ \E c \in Codes :
                     /\ \/ Status(c) \in {"unused", "held"} /\ Status(c)' = "turning"
                        \/ Status(c) = "turning" /\ Status(c)' = "held"
                     /\ \A d \in Codes \ {c} : Status(d)' = Status(d)
  <2>1. CASE Redeem(p)
    BY <1>1, <2>1, RedeemStep
  <2>2. CASE Rotate(p)
    BY <1>1, <2>2, RotateStep
  <2>3. CASE MintRefresh(p)
    BY <1>1, <2>3, MintStep
  <2>4. CASE \/ ReplayRefresh(p) \/ StoreReply(p) \/ EndFamily(p) \/ RevokeSwap(p)
             \/ EndSession(p) \/ ApplyRefresh(p)
    BY <1>1, <2>4, RowSteps
  <2>5. CASE \/ CheckSession(p) \/ ReplayAccess(p) \/ ReplayRefreshLost(p) \/ Throw(p)
             \/ MintAccess(p) \/ Refresh(p) \/ JudgeLive(p) \/ JudgeRetry(p) \/ JudgeReplay(p)
             \/ ListFamily(p) \/ EndAccess(p) \/ Revoke(p) \/ RevokeAccess(p) \/ RevokeOpaque(p)
             \/ SignOut(p) \/ PlanAccess(p) \/ PlanRefresh(p) \/ PlanLost(p) \/ ApplyAccess(p)
    BY <1>1, <2>5, QuietSteps
  <2>. QED  BY <1>3, <2>1, <2>2, <2>3, <2>4, <2>5 DEF Grant, Ending
<1>. QED  BY <1>2, <1>3 DEF Next

\* The steps of the turns are steps of TokenChain.
LEMMA ChainRefined ==
  ASSUME ChainInv, [Next]_vars, Turn' = [c \in Codes |-> Status(c)']
  PROVE  [Chain!Next]_Turn
<1>. DEFINE old(c) == Status(c)
            new(c) == Status(c)'
<1>1. Turn = [c \in Codes |-> old(c)] /\ Turn' = [c \in Codes |-> new(c)]
  BY TurnIsStatus
<1>2. \/ \A c \in Codes : new(c) \in {old(c), "ended"}
      \/ \E c \in Codes : /\ \/ old(c) \in {"unused", "held"} /\ new(c) = "turning"
                             \/ old(c) = "turning" /\ new(c) = "held"
                          /\ \A d \in Codes \ {c} : new(d) = old(d)
  BY ChainStep
<1>. HIDE DEF old, new
<1>3. CASE \A c \in Codes : new(c) \in {old(c), "ended"}
  <2>. DEFINE C == {c \in Codes : new(c) = "ended"}
  <2>1. Turn' = [c \in Codes |-> IF c \in C THEN "ended" ELSE Turn[c]]
    BY <1>1, <1>3
  <2>. QED  BY <2>1 DEF Chain!Next, Chain!End
<1>4. ASSUME NEW c \in Codes, new(c) \in {"turning", "held"},
             \/ old(c) \in {"unused", "held"} /\ new(c) = "turning"
             \/ old(c) = "turning" /\ new(c) = "held",
             \A d \in Codes \ {c} : new(d) = old(d)
      PROVE  Chain!Next
  <2>1. Turn' = [Turn EXCEPT ![c] = new(c)] /\ Turn[c] = old(c)
    BY <1>1, <1>4
  <2>2. Chain!Turn(c) \/ Chain!Hold(c)
    BY <1>4, <2>1 DEF Chain!Turn, Chain!Hold
  <2>. QED  BY <2>2 DEF Chain!Next
<1>. QED  BY <1>2, <1>3, <1>4

\* The refresh tokens that descend from one authorization code are a chain with
\* one turn, for any number of codes, tokens, exchanges, retries, revocations,
\* replays and failures that run at the same time: TokenFamilies implements
\* TokenChain (token.ts, createRefreshToken and its compare and swap).
THEOREM RefinesChainCorrect == Spec => RefinesChain
<1>1. ChainInv /\ [Next]_vars => ChainInv'
  BY ChainStep
<1>2. Spec => []ChainInv
  BY <1>1, ChainInit, PTL DEF Spec
<1>3. (Turn = [c \in Codes |-> Status(c)])' <=> Turn' = [c \in Codes |-> Status(c)']
  OBVIOUS
<1>4. Spec => [](Turn = [c \in Codes |-> Status(c)])
  BY <1>2, TurnIsStatus, PTL
<1>5. ChainInv /\ [Next]_vars /\ (Turn = [c \in Codes |-> Status(c)])' => [Chain!Next]_Turn
  BY <1>3, ChainRefined
<1>. QED  BY <1>2, <1>4, <1>5, ChainInit, PTL DEF Spec, RefinesChain, Chain!Spec

-----------------------------------------------------------------------------
(* One answer for each token.                                              *)

\* Calls that have passed the compare and swap, and what they will return.
Exchanging == {"mintRefresh", "mintAccess", "storeReply"}
Exchanges(i) == {p \in Procs : pc[p] \in Exchanging /\ \E s \in row[p] : s.id = i /\ s.offline}
Answers(i) == {x \in told : x.from = i}

\* A response that was stored has been returned.
Returned(r) == r.reply # 0 => [from |-> r.id, code |-> r.code, tok |-> r.reply] \in told

\* What is known of the answers: a token that is exchanged, or was, is revoked, is
\* exchanged by one call, and has no answer until then.
Answered ==
  /\ 0 < next
  /\ \A x \in told : x.from \in Nat /\ x.from < next
  /\ \A p \in Procs :
       /\ pc[p] = "checkSession" => row[p] = {}
       /\ \A s, t \in row[p] : s = t
       /\ \A s \in row[p] : /\ Returned(s)
                            /\ \A r \in refresh : r.id = s.id => r.offline = s.offline
  /\ \A r \in refresh :
       /\ 0 < r.id /\ Returned(r)
       /\ r.offline =>
            /\ ~r.revoked => Exchanges(r.id) = {} /\ Answers(r.id) = {}
            /\ \A p, q \in Exchanges(r.id) : p = q
            /\ \A x, y \in Answers(r.id) : x = y
            /\ Exchanges(r.id) = {} \/ Answers(r.id) = {}

\* The steps that return nothing new and begin no exchange.
LEMMA AnswersKept ==
  ASSUME ChainInv, Answered, Typed', NEW p \in Procs,
         told' = told, next <= next',
         \A s \in refresh' : \E r \in refresh :
           /\ s.id = r.id /\ s.code = r.code /\ s.offline = r.offline /\ s.reply = r.reply
           /\ r.revoked => s.revoked,
         \A q \in Procs \ {p} : pc'[q] = pc[q] /\ code'[q] = code[q] /\ row'[q] = row[q],
         pc'[p] = "checkSession" => row'[p] = {},
         \/ row'[p] = {}
         \/ row'[p] = row[p]
         \/ \E r \in refresh : row'[p] = {r},
         pc'[p] \in Exchanging =>
           \/ pc[p] \in Exchanging /\ row'[p] = row[p]
           \/ \A s \in row'[p] : ~s.offline
  PROVE  Answered'
<1>. USE DEF ChainInv
<1>1. next \in Nat /\ next' \in Nat /\ 0 < next'
  BY DEF Typed, Answered
<1>2. \A x \in told' : x.from \in Nat /\ x.from < next'
  <2>. SUFFICES ASSUME NEW x \in told PROVE x.from \in Nat /\ x.from < next'
    OBVIOUS
  <2>1. x.from \in Nat /\ x.from < next
    BY DEF Answered
  <2>. QED  BY <1>1, <2>1
<1>3. \A i : Exchanges(i)' \subseteq Exchanges(i) /\ Answers(i)' = Answers(i)
  <2>1. ASSUME NEW i, NEW q \in Exchanges(i)' PROVE q \in Exchanges(i)
    <3>1. CASE q = p
      BY <2>1, <3>1 DEF Exchanges
    <3>2. CASE q # p
      BY <2>1, <3>2 DEF Exchanges
    <3>. QED  BY <3>1, <3>2
  <2>. QED  BY <2>1 DEF Answers
<1>4. ASSUME NEW q \in Procs
      PROVE  /\ pc'[q] = "checkSession" => row'[q] = {}
             /\ \A s, t \in row'[q] : s = t
             /\ \A s \in row'[q] :
                  /\ Returned(s)'
                  /\ \A r \in refresh' : r.id = s.id => r.offline = s.offline
  <2>1. pc'[q] = "checkSession" => row'[q] = {}
    BY DEF Answered
  <2>2. CASE row'[q] = row[q]
    BY <2>1, <2>2 DEF Answered, Returned
  <2>3. CASE row'[q] # row[q]
    <3>1. row'[q] = {} \/ \E r \in refresh : row'[q] = {r}
      BY <2>3
    <3>. QED  BY <2>1, <3>1 DEF Answered, Returned, Consistent
  <2>. QED  BY <2>2, <2>3
<1>5. ASSUME NEW s \in refresh'
      PROVE  /\ 0 < s.id /\ Returned(s)'
             /\ s.offline =>
                  /\ ~s.revoked => Exchanges(s.id)' = {} /\ Answers(s.id)' = {}
                  /\ \A q1, q2 \in Exchanges(s.id)' : q1 = q2
                  /\ \A x, y \in Answers(s.id)' : x = y
                  /\ Exchanges(s.id)' = {} \/ Answers(s.id)' = {}
  <2>1. PICK r \in refresh :
          /\ s.id = r.id /\ s.code = r.code /\ s.offline = r.offline /\ s.reply = r.reply
          /\ r.revoked => s.revoked
    BY <1>5
  <2>2. 0 < s.id /\ Returned(s)'
    BY <2>1 DEF Answered, Returned
  <2>3. Exchanges(s.id)' \subseteq Exchanges(r.id) /\ Answers(s.id)' = Answers(r.id)
    BY <1>3, <2>1
  <2>4. r.offline =>
          /\ ~r.revoked => Exchanges(r.id) = {} /\ Answers(r.id) = {}
          /\ \A q1, q2 \in Exchanges(r.id) : q1 = q2
          /\ \A x, y \in Answers(r.id) : x = y
          /\ Exchanges(r.id) = {} \/ Answers(r.id) = {}
    BY DEF Answered
  <2>5. \A q1, q2 \in Exchanges(s.id)' : q1 \in Exchanges(r.id) /\ q2 \in Exchanges(r.id)
    BY <2>3
  <2>. QED  BY <2>1, <2>2, <2>3, <2>4, <2>5
<1>. QED  BY <1>1, <1>2, <1>4, <1>5 DEF Answered

\* Where a call stands that has made a step, if it begins no exchange.
Calm(p) ==
  /\ pc'[p] = "checkSession" => row'[p] = {}
  /\ \/ row'[p] = {}
     \/ row'[p] = row[p]
     \/ \E r \in refresh : row'[p] = {r}
  /\ pc'[p] \in Exchanging =>
       \/ pc[p] \in Exchanging /\ row'[p] = row[p]
       \/ \A s \in row'[p] : ~s.offline

\* A call that ends is calm, and one that goes on elsewhere with what it has.
LEMMA FinishCalm ==
  ASSUME ChainInv, NEW p \in Procs,
         \/ Finish(p)
         \/ /\ \E l \in Labels \ (Exchanging \cup {"checkSession"}) : Goto(p, l)
            /\ UNCHANGED row
  PROVE  Calm(p)
BY DEF Calm, Finish, Goto, Exchanging, ChainInv, Typed

\* A retry returns the response that was stored, and returned before.
LEMMA RetryKept ==
  ASSUME ChainInv, Answered, NEW p \in Procs, JudgeRetry(p)
  PROVE  told' = told
<1>1. PICK r \in row[p] : told' = told \/ (Stored(r) /\ Answer(p, r.reply))
  BY DEF JudgeRetry
<1>2. CASE Stored(r) /\ Answer(p, r.reply)
  <2>1. row[p] = {r} /\ code[p] = r.code /\ Returned(r)
    BY DEF Answered, ChainInv, Consistent
  <2>2. Parent(p) = {r.id}
    BY <2>1 DEF Parent, Ids
  <2>. QED  BY <1>2, <2>1, <2>2 DEF Answer, Stored, Returned
<1>. QED  BY <1>1, <1>2

\* Only an exchange returns anything that was not returned before.
LEMMA ToldKept ==
  ASSUME ChainInv, Answered, NEW p \in Procs, ~StoreReply(p),
         Grant(p) \/ Ending(p) \/ ReplayRefreshLost(p) \/ Throw(p)
  PROVE  told' = told
<1>1. CASE JudgeRetry(p)
  BY <1>1, RetryKept
<1>2. CASE Grant(p) /\ ~JudgeRetry(p)
  BY <1>2 DEF Grant, Redeem, CheckSession, ReplayAccess, ReplayRefresh, Refresh, JudgeLive,
     JudgeReplay, Rotate, MintRefresh, MintAccess, history
<1>3. CASE Ending(p) \/ ReplayRefreshLost(p) \/ Throw(p)
  BY <1>3 DEF Ending, ListFamily, EndAccess, EndFamily, Revoke, RevokeSwap, RevokeAccess,
     RevokeOpaque, SignOut, PlanAccess, PlanRefresh, PlanLost, EndSession, ApplyAccess, ApplyRefresh,
     ReplayRefreshLost, Throw, history
<1>. QED  BY <1>1, <1>2, <1>3

\* The steps that leave the refresh tokens alone.
LEMMA QuietAnswers ==
  ASSUME ChainInv, Answered, Typed', NEW p \in Procs,
         \/ Redeem(p) \/ CheckSession(p) \/ ReplayAccess(p) \/ ReplayRefreshLost(p) \/ Throw(p)
         \/ MintAccess(p) \/ Refresh(p) \/ JudgeLive(p) \/ JudgeRetry(p) \/ JudgeReplay(p)
         \/ ListFamily(p) \/ EndAccess(p) \/ Revoke(p) \/ RevokeAccess(p) \/ RevokeOpaque(p)
         \/ SignOut(p) \/ PlanAccess(p) \/ PlanRefresh(p) \/ PlanLost(p) \/ ApplyAccess(p)
  PROVE  Answered'
<1>0. {"replayAccess", "replayRefresh", "judge", "rotate", "listFamily", "endAccess",
       "endFamily", "revokeSwap", "plan", "planAccess", "planRefresh", "endSession", "applyRefresh"}
        \subseteq Labels \ (Exchanging \cup {"checkSession"})
  BY DEF Labels, Exchanging
<1>1. UNCHANGED refresh /\ next <= next'
  <2>1. next \in Nat
    BY DEF ChainInv, Typed
  <2>2. CASE MintAccess(p)
    BY <2>1, <2>2 DEF MintAccess, Minted
  <2>3. CASE ~MintAccess(p)
    <3>1. UNCHANGED <<refresh, next>>
      BY <2>3 DEF Redeem, CheckSession, ReplayAccess, ReplayRefreshLost, Throw, Refresh, JudgeLive,
         JudgeRetry, JudgeReplay, ListFamily, EndAccess, Revoke, RevokeAccess, RevokeOpaque,
         SignOut, PlanAccess, PlanRefresh, PlanLost, ApplyAccess, store
    <3>. QED  BY <2>1, <3>1
  <2>. QED  BY <2>2, <2>3
<1>2. \A q \in Procs \ {p} : pc'[q] = pc[q] /\ code'[q] = code[q] /\ row'[q] = row[q]
  BY OthersStay DEF Grant, Ending, ChainInv
<1>3. told' = told
  BY RetryKept DEF Redeem, CheckSession, ReplayAccess, ReplayRefreshLost, Throw, MintAccess, Refresh,
     JudgeLive, JudgeReplay, ListFamily, EndAccess, Revoke, RevokeAccess, RevokeOpaque, SignOut,
     PlanAccess, PlanRefresh, PlanLost, ApplyAccess, history
<1>4. Calm(p)
  <2>1. CASE ReplayRefreshLost(p) \/ Throw(p) \/ RevokeAccess(p) \/ JudgeRetry(p)
    BY <2>1, FinishCalm DEF ReplayRefreshLost, Throw, RevokeAccess, Ended, JudgeRetry, Answer
  <2>2. CASE \/ ReplayAccess(p) \/ JudgeReplay(p) \/ ListFamily(p) \/ EndAccess(p)
             \/ SignOut(p) \/ PlanAccess(p) \/ PlanRefresh(p) \/ PlanLost(p) \/ ApplyAccess(p)
    BY <1>0, <2>2, FinishCalm DEF ReplayAccess, JudgeReplay, ListFamily, EndAccess, SignOut,
       PlanAccess, PlanRefresh, PlanLost, ApplyAccess, Enter, local
  <2>3. CASE JudgeLive(p)
    <3>1. PICK r \in row[p] : Goto(p, IF r.offline THEN "rotate" ELSE "mintAccess")
      BY <2>3 DEF JudgeLive
    <3>2. row' = row /\ row[p] = {r} /\ r.offline \in BOOLEAN
      BY <2>3 DEF JudgeLive, Answered, ChainInv, Typed, Token
    <3>3. pc'[p] = IF r.offline THEN "rotate" ELSE "mintAccess"
      BY <3>1 DEF Goto, ChainInv, Typed
    <3>. QED  BY <3>2, <3>3 DEF Calm, Exchanging
  <2>4. CASE MintAccess(p)
    <3>1. CASE Finish(p)
      BY <3>1, FinishCalm
    <3>2. CASE ~Finish(p)
      <4>1. pc[p] \in Exchanging /\ row' = row /\ Goto(p, "storeReply")
        BY <2>4, <3>2 DEF MintAccess, Exchanging
      <4>. QED  BY <4>1 DEF Calm, Goto, ChainInv, Typed
    <3>. QED  BY <3>1, <3>2
  <2>5. CASE CheckSession(p)
    <3>1. CASE session
      <4>1. /\ row[p] = {} /\ row' = row
            /\ \E l \in {"mintRefresh", "mintAccess"} : Goto(p, l)
        BY <2>5, <3>1 DEF CheckSession, Answered
      <4>. QED  BY <4>1 DEF Calm
    <3>2. CASE ~session
      BY <2>5, <3>2, FinishCalm DEF CheckSession
    <3>. QED  BY <3>1, <3>2
  <2>6. CASE Refresh(p) \/ Revoke(p)
    <3>1. PICK r \in refresh :
            /\ row' = [row EXCEPT ![p] = {r}]
            /\ \E l \in {"judge", "listFamily", "revokeSwap"} : Goto(p, l)
      BY <2>6 DEF Refresh, Revoke, Enter
    <3>. QED  BY <3>1 DEF Calm, Exchanging, Goto, ChainInv, Typed
  <2>7. CASE RevokeOpaque(p) \/ Redeem(p)
    <3>1. row' = row /\ row[p] = {}
      BY <2>7 DEF RevokeOpaque, Redeem, Enter, local, ChainInv, Consistent
    <3>. QED  BY <3>1 DEF Calm
  <2>. QED  BY <2>1, <2>2, <2>3, <2>4, <2>5, <2>6, <2>7
<1>5. \A s \in refresh' : \E r \in refresh :
        /\ s.id = r.id /\ s.code = r.code /\ s.offline = r.offline /\ s.reply = r.reply
        /\ r.revoked => s.revoked
  BY <1>1
<1>. QED  BY <1>1, <1>2, <1>3, <1>4, <1>5, AnswersKept DEF Calm

\* The steps that delete refresh tokens and those that revoke them.
LEMMA RowAnswers ==
  ASSUME ChainInv, Answered, Typed', NEW p \in Procs,
         ReplayRefresh(p) \/ EndFamily(p) \/ RevokeSwap(p) \/ EndSession(p) \/ ApplyRefresh(p)
  PROVE  Answered'
<1>0. {"listFamily", "revokeAccess", "applyAccess"}
        \subseteq Labels \ (Exchanging \cup {"checkSession"})
  BY DEF Labels, Exchanging
<1>1. next <= next'
  <2>1. next' = next
    BY DEF ReplayRefresh, EndFamily, RevokeSwap, EndSession, ApplyRefresh
  <2>. QED  BY <2>1 DEF ChainInv, Typed
<1>2. \A q \in Procs \ {p} : pc'[q] = pc[q] /\ code'[q] = code[q] /\ row'[q] = row[q]
  BY OthersStay DEF Grant, Ending, ChainInv
<1>3. told' = told
  BY DEF ReplayRefresh, EndFamily, RevokeSwap, EndSession, ApplyRefresh, history
<1>4. Calm(p)
  <2>1. CASE ReplayRefresh(p) \/ EndFamily(p) \/ ApplyRefresh(p)
    BY <2>1, FinishCalm DEF ReplayRefresh, EndFamily, ApplyRefresh, Ended
  <2>2. CASE RevokeSwap(p)
    <3>1. \E l \in {"listFamily", "revokeAccess"} : Goto(p, l)
      BY <2>2 DEF RevokeSwap
    <3>. QED  BY <1>0, <2>2, <3>1, FinishCalm DEF RevokeSwap, local
  <2>3. CASE EndSession(p)
    BY <1>0, <2>3, FinishCalm DEF EndSession, local
  <2>. QED  BY <2>1, <2>2, <2>3
<1>5. \A s \in refresh' : \E r \in refresh :
        /\ s.id = r.id /\ s.code = r.code /\ s.offline = r.offline /\ s.reply = r.reply
        /\ r.revoked => s.revoked
  <2>0. \A r \in refresh : r \in Token
    BY DEF ChainInv, Typed
  <2>1. CASE refresh' \subseteq refresh
    BY <2>1
  <2>2. ASSUME NEW s \in refresh', NEW r \in refresh,
               s \in {r, [r EXCEPT !.revoked = TRUE], [r EXCEPT !.sess = FALSE]}
        PROVE  /\ s.id = r.id /\ s.code = r.code /\ s.offline = r.offline /\ s.reply = r.reply
               /\ r.revoked => s.revoked
    BY <2>0, <2>2 DEF Token
  <2>3. CASE ReplayRefresh(p) \/ EndFamily(p)
    <3>1. refresh' \subseteq refresh
      BY <2>3 DEF ReplayRefresh, EndFamily, DeleteRefresh
    <3>. QED  BY <2>1, <3>1
  <2>4. CASE RevokeSwap(p) \/ EndSession(p) \/ ApplyRefresh(p)
    <3>1. \A s \in refresh' : \E r \in refresh :
            s \in {r, [r EXCEPT !.revoked = TRUE], [r EXCEPT !.sess = FALSE]}
      BY <2>4 DEF RevokeSwap, EndSession, ApplyRefresh
    <3>. QED  BY <2>2, <3>1
  <2>. QED  BY <2>3, <2>4
<1>. QED  BY <1>1, <1>2, <1>3, <1>4, <1>5, AnswersKept DEF Calm

\* The compare and swap begins the one exchange of a token.
LEMMA RotateAnswers ==
  ASSUME ChainInv, Answered, Typed', NEW p \in Procs, Rotate(p)
  PROVE  Answered'
<1>. USE DEF ChainInv
<1>0. \A q \in Procs \ {p} : pc'[q] = pc[q] /\ code'[q] = code[q] /\ row'[q] = row[q]
  BY OthersStay DEF Grant
<1>1. next' = next /\ told' = told /\ next <= next'
  <2>1. next' = next /\ told' = told
    BY DEF Rotate
  <2>. QED  BY <2>1 DEF Typed
<1>2. CASE Rotatable(p) = {}
  <2>1. refresh' = refresh /\ Calm(p)
    BY <1>2, FinishCalm DEF Rotate
  <2>2. \A s \in refresh' : \E r \in refresh :
          /\ s.id = r.id /\ s.code = r.code /\ s.offline = r.offline /\ s.reply = r.reply
          /\ r.revoked => s.revoked
    BY <2>1
  <2>. QED  BY <1>0, <1>1, <2>1, <2>2, AnswersKept DEF Calm
<1>3. CASE Rotatable(p) # {}
  <2>. DEFINE n == IF ReuseInterval > 0 THEN iat[p] + ReuseInterval ELSE 0
              f(r) == IF r \in Rotatable(p) THEN [r EXCEPT !.revoked = TRUE, !.until = n] ELSE r
  <2>1. PICK h \in refresh : h \in Rotatable(p)
    BY <1>3 DEF Rotatable
  <2>2. ~h.revoked /\ h.id \in Parent(p)
    BY <2>1 DEF Rotatable
  <2>3. PICK t \in row[p] : row[p] = {t} /\ t.id = h.id
    BY <2>2 DEF Parent, Ids, Answered
  <2>4. Rotatable(p) = {h}
    BY <2>1, <2>3 DEF Rotatable, Parent, Ids, Consistent
  <2>5. UNCHANGED <<next, code, row, told>> /\ pc' = [pc EXCEPT ![p] = "mintRefresh"]
        /\ pc[p] = "rotate"
    BY <1>3 DEF Rotate, Goto, local
  <2>6. refresh' = {f(r) : r \in refresh}
    BY <1>3 DEF Rotate
  <2>7. /\ \A r \in refresh :
             /\ f(r).id = r.id /\ f(r).code = r.code /\ f(r).offline = r.offline
             /\ f(r).reply = r.reply
             /\ r # h => f(r).revoked = r.revoked
        /\ f(h).revoked
    BY <2>1, <2>4 DEF Typed, Token
  <2>. HIDE DEF f, n
  <2>8. /\ \A i : Answers(i)' = Answers(i)
        /\ \A i : Exchanges(i)' \subseteq Exchanges(i) \cup {p}
        /\ \A i : i # h.id => Exchanges(i)' = Exchanges(i)
    BY <2>3, <2>5 DEF Answers, Exchanges, Exchanging, Typed
  <2>9. /\ 0 < next'
        /\ \A x \in told' : x.from \in Nat /\ x.from < next'
    BY <2>5 DEF Answered
  <2>10. \A q \in Procs :
           /\ pc'[q] = "checkSession" => row'[q] = {}
           /\ \A s, u \in row'[q] : s = u
           /\ \A s \in row'[q] :
                /\ Returned(s)'
                /\ \A r \in refresh' : r.id = s.id => r.offline = s.offline
    BY <2>5, <2>6, <2>7 DEF Answered, Returned, Typed
  <2>11. ASSUME NEW s \in refresh'
         PROVE  /\ 0 < s.id /\ Returned(s)'
                /\ s.offline =>
                     /\ ~s.revoked => Exchanges(s.id)' = {} /\ Answers(s.id)' = {}
                     /\ \A q1, q2 \in Exchanges(s.id)' : q1 = q2
                     /\ \A x, y \in Answers(s.id)' : x = y
                     /\ Exchanges(s.id)' = {} \/ Answers(s.id)' = {}
    <3>1. PICK r \in refresh : s = f(r)
      BY <2>6
    <3>2. 0 < s.id /\ Returned(s)'
      BY <2>5, <2>7, <3>1 DEF Answered, Returned
    <3>3. CASE r = h
      <4>1. s.id = h.id /\ s.offline = h.offline /\ s.revoked
        BY <2>7, <3>1, <3>3
      <4>2. h.offline => Exchanges(h.id) = {} /\ Answers(h.id) = {}
        BY <2>2 DEF Answered
      <4>3. /\ Answers(s.id)' = Answers(h.id)
            /\ Exchanges(s.id)' \subseteq Exchanges(h.id) \cup {p}
        BY <2>8, <4>1
      <4>4. s.offline => Exchanges(s.id)' \subseteq {p} /\ Answers(s.id)' = {}
        BY <4>1, <4>2, <4>3
      <4>. QED  BY <3>2, <4>1, <4>4
    <3>4. CASE r # h
      <4>1. s.id = r.id /\ s.offline = r.offline /\ s.revoked = r.revoked /\ r.id # h.id
        BY <2>7, <3>1, <3>4 DEF Consistent
      <4>2. Exchanges(r.id)' = Exchanges(r.id) /\ Answers(r.id)' = Answers(r.id)
        BY <2>8, <4>1
      <4>. QED  BY <3>2, <4>1, <4>2 DEF Answered
    <3>. QED  BY <3>3, <3>4
  <2>. QED  BY <2>9, <2>10, <2>11 DEF Answered
<1>. QED  BY <1>2, <1>3

\* A new token has no answer and is not being exchanged.
LEMMA MintAnswers ==
  ASSUME ChainInv, Answered, Typed', NEW p \in Procs, MintRefresh(p)
  PROVE  Answered'
<1>. USE DEF ChainInv
<1>0. \A q \in Procs \ {p} : pc'[q] = pc[q] /\ code'[q] = code[q] /\ row'[q] = row[q]
  BY OthersStay DEF Grant
<1>1. told' = told /\ pc[p] = "mintRefresh" /\ next \in Nat
  BY DEF MintRefresh, Typed
<1>2. CASE SessionMissing(p)
  <2>1. refresh' = refresh /\ next' = next /\ Calm(p)
    BY <1>2, FinishCalm DEF MintRefresh
  <2>2. \A s \in refresh' : \E r \in refresh :
          /\ s.id = r.id /\ s.code = r.code /\ s.offline = r.offline /\ s.reply = r.reply
          /\ r.revoked => s.revoked
    BY <2>1
  <2>3. next <= next'
    BY <1>1, <2>1
  <2>. QED  BY <1>0, <1>1, <2>1, <2>2, <2>3, AnswersKept DEF Calm
<1>3. CASE ~SessionMissing(p)
  <2>1. /\ UNCHANGED <<code, row>> /\ next' = next + 1
        /\ \E l \in {"mintAccess", "storeReply"} : Goto(p, l)
    BY <1>3 DEF MintRefresh, Minted
  <2>2. PICK t : /\ refresh' = refresh \cup {t}
                 /\ t = [id |-> next, code |-> code[p], sess |-> ForSession(p),
                         exp |-> iat[p] + RefreshLifetime, revoked |-> FALSE, until |-> 0,
                         reply |-> 0, offline |-> scope[p]]
    BY <1>3 DEF MintRefresh
  <2>3. t.id = next /\ t.reply = 0
    BY <2>2
  <2>4. pc'[p] \in {"mintAccess", "storeReply"}
    BY <2>1 DEF Goto, Typed
  <2>5. \A i : Answers(i)' = Answers(i) /\ Exchanges(i)' = Exchanges(i)
    <3>1. \A q \in Procs : pc'[q] \in Exchanging <=> pc[q] \in Exchanging
      BY <1>0, <1>1, <2>4 DEF Exchanging
    <3>. QED  BY <1>1, <2>1, <3>1 DEF Answers, Exchanges
  <2>6. Answers(next) = {} /\ Exchanges(next) = {}
    <3>1. \A x \in told : x.from \in Nat /\ x.from < next
      BY DEF Answered
    <3>2. \A q \in Procs : \A s \in row[q] : s.id \in Nat /\ s.id < next
      BY DEF Consistent, Typed, Token
    <3>. QED  BY <1>1, <3>1, <3>2 DEF Answers, Exchanges
  <2>7. /\ 0 < next'
        /\ \A x \in told' : x.from \in Nat /\ x.from < next'
    BY <1>1, <2>1 DEF Answered
  <2>8. ASSUME NEW q \in Procs
        PROVE  /\ pc'[q] = "checkSession" => row'[q] = {}
               /\ \A s, u \in row'[q] : s = u
               /\ \A s \in row'[q] :
                    /\ Returned(s)'
                    /\ \A r \in refresh' : r.id = s.id => r.offline = s.offline
    <3>1. pc'[q] = "checkSession" => row'[q] = {}
      BY <1>0, <2>4 DEF Answered
    <3>2. \A s \in row[q] : s.id \in Nat /\ s.id < next
      BY DEF Consistent, Typed, Token
    <3>3. \A s \in row'[q] : \A r \in refresh' : r.id = s.id => r \in refresh
      BY <1>1, <2>1, <2>2, <2>3, <3>2
    <3>. QED  BY <1>1, <2>1, <3>1, <3>3 DEF Answered, Returned
  <2>9. ASSUME NEW s \in refresh'
        PROVE  /\ 0 < s.id /\ Returned(s)'
               /\ s.offline =>
                    /\ ~s.revoked => Exchanges(s.id)' = {} /\ Answers(s.id)' = {}
                    /\ \A q1, q2 \in Exchanges(s.id)' : q1 = q2
                    /\ \A x, y \in Answers(s.id)' : x = y
                    /\ Exchanges(s.id)' = {} \/ Answers(s.id)' = {}
    <3>1. CASE s = t
      <4>1. 0 < s.id /\ Returned(s)'
        BY <2>3, <3>1 DEF Answered, Returned
      <4>2. Answers(s.id)' = {} /\ Exchanges(s.id)' = {}
        BY <2>3, <2>5, <2>6, <3>1
      <4>. QED  BY <4>1, <4>2
    <3>2. CASE s \in refresh
      <4>1. 0 < s.id /\ Returned(s)'
        BY <1>1, <3>2 DEF Answered, Returned
      <4>2. Answers(s.id)' = Answers(s.id) /\ Exchanges(s.id)' = Exchanges(s.id)
        BY <2>5
      <4>. QED  BY <3>2, <4>1, <4>2 DEF Answered
    <3>. QED  BY <2>2, <3>1, <3>2
  <2>. QED  BY <2>7, <2>8, <2>9 DEF Answered
<1>. QED  BY <1>2, <1>3

\* The answer to an exchange: the only one, and the response that is stored.
LEMMA StoreAnswers ==
  ASSUME ChainInv, Answered, Typed', NEW p \in Procs, StoreReply(p)
  PROVE  Answered'
<1>. USE DEF ChainInv
<1>. DEFINE f(r) == IF Replayable(p) /\ r.id \in Parent(p) THEN [r EXCEPT !.reply = mint[p]] ELSE r
            e(i) == [from |-> i, code |-> code[p], tok |-> mint[p]]
<1>0. \A q \in Procs \ {p} : pc'[q] = pc[q] /\ code'[q] = code[q] /\ row'[q] = row[q]
  BY OthersStay DEF Grant
<1>1. /\ next' = next /\ next \in Nat /\ pc[p] = "storeReply"
      /\ pc'[p] = "idle" /\ row'[p] = {}
  BY DEF StoreReply, Answer, Finish, Goto, Typed
<1>2. refresh' = refresh \/ refresh' = {f(r) : r \in refresh}
  BY DEF StoreReply
<1>3. told' = told \cup {e(i) : i \in IF row[p] = {} THEN {0} ELSE Parent(p)}
  BY DEF StoreReply, Answer
<1>4. /\ told \subseteq told' /\ \A i \in Parent(p) : e(i) \in told'
      /\ \A x \in told' \ told : x.from \in Parent(p) \cup {0}
      /\ \A x, y \in told' \ told : x = y
  <2>1. \A s, t \in row[p] : s = t
    BY DEF Answered
  <2>2. \A i, j \in Parent(p) : i = j
    BY <2>1 DEF Parent, Ids
  <2>3. row[p] = {} => Parent(p) = {}
    BY DEF Parent, Ids
  <2>4. CASE row[p] = {}
    BY <1>3, <2>3, <2>4
  <2>5. CASE row[p] # {}
    <3>1. told' = told \cup {e(i) : i \in Parent(p)}
      BY <1>3, <2>5
    <3>. HIDE DEF e
    <3>2. \A x \in told' \ told : \E i \in Parent(p) : x = e(i)
      BY <3>1
    <3>3. \A i : e(i).from = i
      BY DEF e
    <3>. QED  BY <2>2, <3>1, <3>2, <3>3
  <2>. QED  BY <2>4, <2>5
<1>5. \A i \in Parent(p) : i \in Nat /\ i < next
  BY DEF Parent, Ids, Consistent, Typed, Token
<1>6. \A r \in refresh :
        /\ f(r).id = r.id /\ f(r).code = r.code /\ f(r).offline = r.offline
        /\ f(r).revoked = r.revoked
        /\ f(r) = r \/ (r.id \in Parent(p) /\ f(r).reply = mint[p])
  BY DEF Typed, Token
<1>7. \A s \in refresh' : \E r \in refresh :
        /\ s.id = r.id /\ s.code = r.code /\ s.offline = r.offline /\ s.revoked = r.revoked
        /\ s = r \/ (r.id \in Parent(p) /\ s.reply = mint[p])
  <2>. HIDE DEF f
  <2>. QED  BY <1>2, <1>6
<1>8. \A i : Exchanges(i)' = Exchanges(i) \ {p}
  BY <1>0, <1>1 DEF Exchanges, Exchanging
<1>9. \A i : i \notin Parent(p) /\ i # 0 => Answers(i)' = Answers(i)
  BY <1>4 DEF Answers
<1>. HIDE DEF f
<1>10. /\ 0 < next'
       /\ \A x \in told' : x.from \in Nat /\ x.from < next'
  BY <1>1, <1>4, <1>5 DEF Answered
<1>11. ASSUME NEW q \in Procs
       PROVE  /\ pc'[q] = "checkSession" => row'[q] = {}
              /\ \A s, u \in row'[q] : s = u
              /\ \A s \in row'[q] :
                   /\ Returned(s)'
                   /\ \A r \in refresh' : r.id = s.id => r.offline = s.offline
  <2>1. CASE q = p
    BY <1>1, <2>1
  <2>2. CASE q # p
    <3>1. row'[q] = row[q] /\ pc'[q] = pc[q]
      BY <1>0, <2>2
    <3>2. \A s \in row[q] : Returned(s)'
      BY <1>4 DEF Answered, Returned
    <3>. QED  BY <1>7, <3>1, <3>2 DEF Answered
  <2>. QED  BY <2>1, <2>2
<1>12. ASSUME NEW s \in refresh'
       PROVE  /\ 0 < s.id /\ Returned(s)'
              /\ s.offline =>
                   /\ ~s.revoked => Exchanges(s.id)' = {} /\ Answers(s.id)' = {}
                   /\ \A q1, q2 \in Exchanges(s.id)' : q1 = q2
                   /\ \A x, y \in Answers(s.id)' : x = y
                   /\ Exchanges(s.id)' = {} \/ Answers(s.id)' = {}
  <2>1. PICK r \in refresh :
          /\ s.id = r.id /\ s.code = r.code /\ s.offline = r.offline /\ s.revoked = r.revoked
          /\ s = r \/ (r.id \in Parent(p) /\ s.reply = mint[p])
    BY <1>7
  <2>2. 0 < r.id /\ r.id # 0
    BY DEF Answered, Typed, Token
  <2>3. Returned(s)'
    <3>1. CASE s = r
      BY <1>4, <3>1 DEF Answered, Returned
    <3>2. CASE r.id \in Parent(p) /\ s.reply = mint[p]
      <4>1. r.code = code[p]
        BY <3>2 DEF Parent, Ids, Consistent
      <4>. QED  BY <1>4, <2>1, <3>2, <4>1 DEF Returned
    <3>. QED  BY <2>1, <3>1, <3>2
  <2>4. Exchanges(s.id)' = Exchanges(r.id) \ {p}
    BY <1>8, <2>1
  <2>5. CASE r.id \notin Parent(p)
    <3>1. Answers(s.id)' = Answers(r.id)
      BY <1>9, <2>1, <2>2, <2>5
    <3>2. r.offline =>
            /\ ~r.revoked => Exchanges(r.id) = {} /\ Answers(r.id) = {}
            /\ \A q1, q2 \in Exchanges(r.id) : q1 = q2
            /\ \A x, y \in Answers(r.id) : x = y
            /\ Exchanges(r.id) = {} \/ Answers(r.id) = {}
      BY DEF Answered
    <3>3. \A q1, q2 \in Exchanges(s.id)' : q1 \in Exchanges(r.id) /\ q2 \in Exchanges(r.id)
      BY <2>4
    <3>. QED  BY <2>1, <2>2, <2>3, <2>4, <3>1, <3>2, <3>3
  <2>6. CASE r.id \in Parent(p) /\ r.offline
    <3>1. p \in Exchanges(r.id)
      BY <1>1, <2>6 DEF Exchanges, Exchanging, Parent, Ids, Answered
    <3>2. /\ \A q \in Exchanges(r.id) : q = p
          /\ Answers(r.id) = {} /\ r.revoked
      <4>. DEFINE X == Exchanges(r.id)
      <4>1. /\ \A q1, q2 \in X : q1 = q2
            /\ X = {} \/ Answers(r.id) = {}
            /\ ~r.revoked => X = {}
        BY <2>6 DEF Answered
      <4>2. p \in X
        BY <3>1
      <4>. HIDE DEF X
      <4>3. \A q \in X : q = p
        BY <4>1, <4>2
      <4>. QED  BY <4>1, <4>2, <4>3 DEF X
    <3>3. Exchanges(s.id)' = {}
      BY <2>4, <3>2
    <3>4. \A x, y \in Answers(s.id)' : x = y
      BY <1>4, <2>1, <3>2 DEF Answers
    <3>. QED  BY <2>1, <2>2, <2>3, <3>2, <3>3, <3>4
  <2>. QED  BY <2>1, <2>2, <2>3, <2>5, <2>6
<1>. QED  BY <1>10, <1>11, <1>12 DEF Answered

\* Every step keeps the invariant.
LEMMA AnswersStep == ChainInv /\ Answered /\ [Next]_vars => Answered'
<1>. SUFFICES ASSUME ChainInv, Answered, [Next]_vars PROVE Answered'
  OBVIOUS
<1>1. Typed'
  BY TypedStep
<1>2. CASE UNCHANGED vars \/ Tick
  BY <1>2 DEF vars, Tick, store, local, history, Answered, Returned, Answers, Exchanges
<1>3. ASSUME NEW p \in Procs, Grant(p) \/ Ending(p) \/ ReplayRefreshLost(p) \/ Throw(p)
      PROVE  Answered'
  <2>1. CASE Rotate(p)
    BY <1>1, <2>1, RotateAnswers
  <2>2. CASE MintRefresh(p)
    BY <1>1, <2>2, MintAnswers
  <2>3. CASE StoreReply(p)
    BY <1>1, <2>3, StoreAnswers
  <2>4. CASE ReplayRefresh(p) \/ EndFamily(p) \/ RevokeSwap(p) \/ EndSession(p) \/ ApplyRefresh(p)
    BY <1>1, <2>4, RowAnswers
  <2>5. CASE \/ Redeem(p) \/ CheckSession(p) \/ ReplayAccess(p) \/ ReplayRefreshLost(p)
             \/ Throw(p) \/ MintAccess(p) \/ Refresh(p) \/ JudgeLive(p) \/ JudgeRetry(p)
             \/ JudgeReplay(p) \/ ListFamily(p) \/ EndAccess(p) \/ Revoke(p)
             \/ RevokeAccess(p) \/ RevokeOpaque(p) \/ SignOut(p) \/ PlanAccess(p)
             \/ PlanRefresh(p) \/ PlanLost(p) \/ ApplyAccess(p)
    BY <1>1, <2>5, QuietAnswers
  <2>. QED  BY <1>3, <2>1, <2>2, <2>3, <2>4, <2>5 DEF Grant, Ending
<1>. QED  BY <1>2, <1>3 DEF Next

\* A refresh token is exchanged for one pair of tokens only, for any number of
\* calls that bring it at the same time or again: the compare and swap admits one
\* exchange, and a retry is answered with the response that exchange returned
\* (token.ts, createRefreshToken and handleRefreshTokenGrant).
THEOREM OneAnswerCorrect == Spec => []OneAnswer
<1>1. Init => ChainInv /\ Answered
  <2>1. Init => Answered
    BY DEF Init, Answered
  <2>. QED  BY <2>1, ChainInit
<1>2. ChainInv /\ Answered /\ [Next]_vars => (ChainInv /\ Answered)'
  BY ChainStep, AnswersStep
<1>3. Answered => OneAnswer
  <2>. SUFFICES ASSUME Answered, NEW r \in refresh, r.offline
                PROVE  Cardinality(Answers(r.id)) <= 1
    BY DEF OneAnswer, Answers
  <2>. DEFINE A == Answers(r.id)
  <2>1. \A x, y \in A : x = y
    BY DEF Answered
  <2>. HIDE DEF A
  <2>2. Cardinality(A) \in {0, 1}
    BY <2>1, AtMostOne
  <2>. QED  BY <2>2 DEF A
<1>. QED  BY <1>1, <1>2, <1>3, PTL DEF Spec

-----------------------------------------------------------------------------
(* What was ended stays ended.                                             *)

\* The rest of the types, again without the bounds of the model.
AccessToken ==
  [id : Nat, code : Codes, ref : Nat, sess : BOOLEAN, exp : Nat, revoked : BOOLEAN]

\* Where a call works for one code.
Granting ==
  {"checkSession", "judge", "rotate", "mintRefresh", "mintAccess", "storeReply",
   "replayAccess", "replayRefresh"}
SigningOut ==
  {"plan", "planAccess", "planRefresh", "endSession", "applyAccess", "applyRefresh"}

Recorded ==
  /\ session \in BOOLEAN /\ access \subseteq AccessToken
  /\ ids \in [Procs -> SUBSET Nat] /\ accIds \in [Procs -> SUBSET Nat]
  /\ told \subseteq [from : Nat, code : Codes, tok : Nat]
  /\ aim \in [Procs -> SUBSET (Kinds \X Nat)] /\ dead \subseteq Kinds \X Nat
  /\ \A p \in Procs : /\ pc[p] \in Granting => code[p] \in Codes
                      /\ pc[p] \in SigningOut => "signOut" \in Ops

\* A number that is taken, and that no access token is still to be created with.
Past(t) == 0 < t /\ t < next /\ \A p \in Procs : pc[p] = "mintAccess" => mint[p] # t

\* A number names one access token, which refers to the refresh token of the same
\* number if there is one, and what was returned is of the code it was returned for.
Named ==
  /\ \A a \in access : 0 < a.id /\ a.id < next /\ a.ref \in {0, a.id}
  /\ \A a, b \in access : a.id = b.id => a = b
  /\ \A a \in access, r \in refresh : a.id = r.id => a.ref = a.id
  /\ \A x \in told : /\ Past(x.tok)
                     /\ \A a \in access : a.id = x.tok => a.code = x.code
                     /\ \A r \in refresh : r.id = x.tok => r.code = x.code

\* The tokens that are being created: each by one call.
Minting ==
  /\ \A p \in Procs :
       /\ mint[p] # 0 => pc[p] \in {"mintAccess", "storeReply"} /\ mint[p] < next
       /\ pc[p] = "storeReply" => mint[p] # 0
       /\ pc[p] = "mintAccess" => \A a \in access : a.id # mint[p]
       /\ \A a \in access : a.id = mint[p] => a.code = code[p]
       /\ \A r \in refresh : r.id = mint[p] => r.code = code[p]
  /\ \A p, q \in Procs : mint[p] # 0 /\ mint[p] = mint[q] => p = q

\* The tokens a call is meant to end that are there.
AimedAccess(p) == {a \in access : <<"access", a.id>> \in aim[p]}
AimedRefresh(p) == {r \in refresh : <<"refresh", r.id>> \in aim[p]}

\* An access token that is revoked, or still names the session that is gone.
Ineffective(a) == a.revoked \/ (~ForeignKeys /\ a.sess /\ ~session)

\* How far a call that ends tokens has come: what is still there of its tokens is
\* what it is still to delete or to revoke.
OnTrack(p) ==
  /\ pc[p] = "replayAccess" => \A a \in AimedAccess(p) : a.code = code[p]
  /\ pc[p] \in {"replayAccess", "replayRefresh"} => \A r \in AimedRefresh(p) : r.code = code[p]
  /\ pc[p] \in {"replayRefresh", "endFamily"} => AimedAccess(p) = {}
  /\ pc[p] = "endAccess" => \A a \in AimedAccess(p) : a.ref \in ids[p]
  /\ pc[p] \in {"revokeSwap", "revokeAccess"} => /\ \A a \in AimedAccess(p) : a.ref \in Parent(p)
                                                 /\ \A r \in AimedRefresh(p) : r.id \in Parent(p)
  /\ pc[p] = "revokeAccess" => \A r \in AimedRefresh(p) : r.revoked
  /\ pc[p] \in {"plan", "planAccess"} /\ session => \A a \in AimedAccess(p) : a.sess
  /\ pc[p] \in {"plan", "planRefresh"} /\ session =>
       \A r \in AimedRefresh(p) : r.sess /\ ~r.offline
  /\ (pc[p] \in {"planRefresh", "endSession"} /\ session) \/ pc[p] = "applyAccess" =>
       \A a \in AimedAccess(p) : a.id \in accIds[p] \/ a.revoked \/ (~ForeignKeys /\ a.sess)
  /\ (pc[p] \in {"planAccess", "endSession"} /\ session) \/ pc[p] \in {"applyAccess", "applyRefresh"} =>
       \A r \in AimedRefresh(p) : r.id \in ids[p] \/ r.revoked
  /\ pc[p] = "applyRefresh" => \A a \in AimedAccess(p) : Ineffective(a)

Aimed(p) == \A x \in aim[p] : Past(x[2])

EndedRefresh(t) == \A r \in refresh : r.id = t => r.revoked
EndedAccess(t) == \A a \in access : a.id = t => Ineffective(a)

DeadEnded ==
  \A x \in dead : /\ Past(x[2])
                  /\ x[1] = "refresh" => EndedRefresh(x[2])
                  /\ x[1] = "access" => EndedAccess(x[2])

\* What a call that ends the session can rely on if a failure of its plan is not noticed:
\* tokens keep naming the session unless references are enforced, and refresh tokens end
\* with the session only where clients drop offline_access.
Leaving(p) ==
  /\ pc[p] \in {"applyAccess", "applyRefresh"} => ~session
  /\ ~ForeignKeys /\ pc[p] \in SigningOut \ {"applyRefresh"} => \A a \in AimedAccess(p) : a.sess
  /\ ~Narrowing /\ pc[p] \in SigningOut => AimedRefresh(p) = {}

AllOffline ==
  ~Narrowing => /\ \A r \in refresh : r.offline
                /\ \A p \in Procs :
                     pc[p] \in {"checkSession", "judge", "rotate", "mintRefresh"} => scope[p]

\* What is known of the tokens and of the calls that create them.
Accounted == ChainInv /\ Answered /\ Recorded /\ Named /\ Minting

EndedInv ==
  /\ Accounted
  /\ \A p \in Procs : OnTrack(p) /\ Aimed(p) /\ Leaving(p)
  /\ AllOffline
  /\ DeadEnded

\* Only its own step changes what a call has minted, listed and is meant to end.
LEMMA OthersKeep ==
  ASSUME Typed, Recorded, NEW p \in Procs,
         Grant(p) \/ Ending(p) \/ ReplayRefreshLost(p) \/ Throw(p)
  PROVE  \A q \in Procs \ {p} : mint'[q] = mint[q] /\ ids'[q] = ids[q] /\ accIds'[q] = accIds[q]
                                /\ aim'[q] = aim[q]
<1>1. CASE \/ Redeem(p) \/ CheckSession(p) \/ ReplayAccess(p) \/ ReplayRefresh(p)
           \/ ReplayRefreshLost(p) \/ Throw(p)
  BY <1>1 DEF Redeem, CheckSession, ReplayAccess, ReplayRefresh, ReplayRefreshLost,
     Throw,
     Finish, Ended, local, Typed, Recorded
<1>2. CASE Refresh(p) \/ JudgeLive(p) \/ JudgeRetry(p) \/ JudgeReplay(p)
  BY <1>2 DEF Refresh, JudgeLive, JudgeRetry, JudgeReplay, Finish, Answer, local, history,
     Typed, Recorded
<1>3. CASE Rotate(p) \/ StoreReply(p)
  <2>1. Finish(p) \/ (UNCHANGED local /\ aim' = aim)
    BY <1>3 DEF Rotate, StoreReply, Answer
  <2>. QED  BY <2>1 DEF Finish, local, Typed, Recorded
<1>4. CASE MintRefresh(p) \/ MintAccess(p)
  <2>1. CASE Finish(p)
    BY <2>1 DEF Finish, Typed, Recorded
  <2>2. CASE ~Finish(p)
    <3>1. UNCHANGED <<ids, accIds, aim>> /\ (mint' = mint \/ mint' = [mint EXCEPT ![p] = next])
      BY <1>4, <2>2 DEF MintRefresh, MintAccess, Minted
    <3>. QED  BY <3>1 DEF Typed
  <2>. QED  BY <2>1, <2>2
<1>5. CASE \/ ListFamily(p) \/ EndAccess(p) \/ EndFamily(p)
           \/ Revoke(p) \/ RevokeSwap(p) \/ RevokeAccess(p) \/ RevokeOpaque(p)
  BY <1>5 DEF ListFamily, EndAccess, EndFamily, Revoke, RevokeSwap, RevokeAccess, RevokeOpaque,
     Finish, Ended, local, history, Typed, Recorded
<1>6. CASE \/ SignOut(p) \/ PlanAccess(p) \/ PlanRefresh(p) \/ PlanLost(p) \/ EndSession(p)
           \/ ApplyAccess(p) \/ ApplyRefresh(p)
  BY <1>6 DEF SignOut, PlanAccess, PlanRefresh, PlanLost, EndSession, ApplyAccess, ApplyRefresh,
     Finish, Ended, local, history, Typed, Recorded
<1>. QED  BY <1>1, <1>2, <1>3, <1>4, <1>5, <1>6 DEF Grant, Ending

\* A token of which a column is written is the token it was.
Later(s, r) ==
  /\ s.id = r.id /\ s.code = r.code
  /\ r.revoked => s.revoked
  /\ session' \/ ~ForeignKeys => s.sess = r.sess

LEMMA RefreshWritten ==
  ASSUME NEW r \in Token, NEW n \in Nat, NEW s,
         \/ s \in {r, [r EXCEPT !.revoked = TRUE], [r EXCEPT !.reply = n],
                   [r EXCEPT !.revoked = TRUE, !.until = n]}
         \/ s = [r EXCEPT !.sess = FALSE] /\ session' = FALSE /\ ForeignKeys
  PROVE  Later(s, r) /\ s.offline = r.offline
BY DEF Token, Later

LEMMA AccessWritten ==
  ASSUME NEW a \in AccessToken, NEW b,
         \/ b \in {a, [a EXCEPT !.revoked = TRUE]}
         \/ b = [a EXCEPT !.sess = FALSE] /\ session' = FALSE /\ ForeignKeys
  PROVE  Later(b, a) /\ b.ref = a.ref /\ b \in AccessToken
BY DEF AccessToken, Later

\* No step but one that creates tokens adds any.
LEMMA RefreshKept ==
  ASSUME ChainInv, NEW p \in Procs, ~MintRefresh(p),
         Grant(p) \/ Ending(p) \/ ReplayRefreshLost(p) \/ Throw(p)
  PROVE  \A s \in refresh' : \E r \in refresh : Later(s, r) /\ s.offline = r.offline
<1>0. \A r \in refresh : r \in Token /\ Later(r, r) /\ r.offline = r.offline
  BY RefreshWritten DEF ChainInv, Typed, Later
<1>1. CASE \/ Redeem(p) \/ CheckSession(p) \/ ReplayAccess(p) \/ ReplayRefreshLost(p) \/ Throw(p)
           \/ MintAccess(p) \/ Refresh(p) \/ JudgeLive(p) \/ JudgeRetry(p) \/ JudgeReplay(p)
           \/ ListFamily(p) \/ EndAccess(p) \/ Revoke(p) \/ RevokeAccess(p) \/ RevokeOpaque(p)
           \/ SignOut(p) \/ PlanAccess(p) \/ PlanRefresh(p) \/ PlanLost(p) \/ ApplyAccess(p)
  <2>1. refresh' = refresh /\ session' = session
    BY <1>1 DEF Redeem, CheckSession, ReplayAccess, ReplayRefreshLost, Throw, MintAccess, Refresh,
       JudgeLive, JudgeRetry, JudgeReplay, ListFamily, EndAccess, Revoke, RevokeAccess,
       RevokeOpaque, SignOut, PlanAccess, PlanRefresh, PlanLost, ApplyAccess, store
  <2>. QED  BY <1>0, <2>1
<1>2. CASE ReplayRefresh(p) \/ EndFamily(p)
  <2>1. refresh' \subseteq refresh
    BY <1>2 DEF ReplayRefresh, EndFamily, DeleteRefresh
  <2>. QED  BY <1>0, <2>1
<1>3. CASE Rotate(p)
  <2>. DEFINE n == IF ReuseInterval > 0 THEN iat[p] + ReuseInterval ELSE 0
  <2>1. n \in Nat
    BY TokensAssumption DEF ChainInv, Typed
  <2>2. \/ refresh' = refresh
        \/ refresh' = {IF r \in Rotatable(p) THEN [r EXCEPT !.revoked = TRUE, !.until = n]
                       ELSE r : r \in refresh}
    BY <1>3 DEF Rotate
  <2>. HIDE DEF n
  <2>3. ASSUME NEW s \in refresh'
        PROVE  \E r \in refresh : s \in {r, [r EXCEPT !.revoked = TRUE, !.until = n]}
    BY <2>2
  <2>4. ASSUME NEW s \in refresh', NEW r \in refresh,
               s \in {r, [r EXCEPT !.revoked = TRUE, !.until = n]}
        PROVE  Later(s, r) /\ s.offline = r.offline
    BY <1>0, <2>1, <2>4, RefreshWritten
  <2>. QED  BY <2>3, <2>4
<1>4. CASE StoreReply(p)
  <2>1. mint[p] \in Nat
    BY DEF ChainInv, Typed
  <2>2. \A s \in refresh' : \E r \in refresh : s \in {r, [r EXCEPT !.reply = mint[p]]}
    BY <1>4 DEF StoreReply
  <2>3. ASSUME NEW s \in refresh', NEW r \in refresh, s \in {r, [r EXCEPT !.reply = mint[p]]}
        PROVE  Later(s, r) /\ s.offline = r.offline
    BY <1>0, <2>1, <2>3, RefreshWritten
  <2>. QED  BY <2>2, <2>3
<1>5. CASE RevokeSwap(p) \/ ApplyRefresh(p)
  <2>1. \A s \in refresh' : \E r \in refresh : s \in {r, [r EXCEPT !.revoked = TRUE]}
    BY <1>5 DEF RevokeSwap, ApplyRefresh
  <2>. QED  BY <1>0, <2>1, RefreshWritten
<1>6. CASE EndSession(p)
  <2>1. /\ session' = FALSE
        /\ \A s \in refresh' : \E r \in refresh :
             s = r \/ (s = [r EXCEPT !.sess = FALSE] /\ ForeignKeys)
    BY <1>6 DEF EndSession
  <2>2. ASSUME NEW s \in refresh', NEW r \in refresh,
               s = r \/ (s = [r EXCEPT !.sess = FALSE] /\ ForeignKeys)
        PROVE  Later(s, r) /\ s.offline = r.offline
    BY <1>0, <2>1, <2>2, 0 \in Nat, RefreshWritten
  <2>. QED  BY <2>1, <2>2
<1>. QED  BY <1>1, <1>2, <1>3, <1>4, <1>5, <1>6 DEF Grant, Ending

LEMMA AccessKept ==
  ASSUME Recorded, Named, NEW p \in Procs, ~MintAccess(p),
         Grant(p) \/ Ending(p) \/ ReplayRefreshLost(p) \/ Throw(p)
  PROVE  /\ \A b \in access' : \E a \in access : Later(b, a) /\ b.ref = a.ref /\ b \in AccessToken
         /\ \A a, b \in access' : a.id = b.id => a = b
<1>0. \A a \in access : Later(a, a) /\ a.ref = a.ref /\ a \in AccessToken
  BY AccessWritten DEF Recorded, Later
<1>1. CASE access' \subseteq access
  BY <1>0, <1>1 DEF Named
<1>3. CASE EndSession(p) /\ ForeignKeys
  <2>. DEFINE g(a) == [a EXCEPT !.sess = FALSE]
  <2>1. access' = {g(a) : a \in access} /\ session' = FALSE
    BY <1>3 DEF EndSession
  <2>2. \A a \in access : Later(g(a), a) /\ g(a).ref = a.ref /\ g(a) \in AccessToken
    BY <1>0, <1>3, <2>1, AccessWritten
  <2>. HIDE DEF g
  <2>. QED  BY <2>1, <2>2 DEF Named, Later
<1>4. CASE ApplyAccess(p) /\ access' # access
  <2>. DEFINE g(a) == IF a.id \in Planned(p) THEN [a EXCEPT !.revoked = TRUE] ELSE a
  <2>1. access' = {g(a) : a \in access}
    BY <1>4 DEF ApplyAccess
  <2>2. \A a \in access : Later(g(a), a) /\ g(a).ref = a.ref /\ g(a) \in AccessToken
    BY <1>0, AccessWritten
  <2>. HIDE DEF g
  <2>. QED  BY <2>1, <2>2 DEF Named, Later
<1>5. CASE ~(EndSession(p) /\ ForeignKeys) /\ ~(ApplyAccess(p) /\ access' # access)
  <2>1. CASE \/ Redeem(p) \/ CheckSession(p) \/ ReplayAccess(p) \/ ReplayRefresh(p)
             \/ ReplayRefreshLost(p) \/ Throw(p) \/ Refresh(p) \/ JudgeLive(p) \/ JudgeRetry(p)
             \/ JudgeReplay(p) \/ Rotate(p) \/ MintRefresh(p) \/ StoreReply(p)
    BY <1>1, <2>1 DEF Redeem, CheckSession, ReplayAccess, ReplayRefresh, ReplayRefreshLost,
     Throw,
       Refresh, JudgeLive, JudgeRetry, JudgeReplay, Rotate, MintRefresh, StoreReply, DeleteRefresh,
       store
  <2>2. CASE \/ ListFamily(p) \/ EndAccess(p) \/ EndFamily(p) \/ Revoke(p) \/ RevokeSwap(p)
             \/ RevokeAccess(p) \/ RevokeOpaque(p) \/ SignOut(p) \/ PlanAccess(p)
             \/ PlanRefresh(p) \/ PlanLost(p) \/ EndSession(p) \/ ApplyAccess(p) \/ ApplyRefresh(p)
    BY <1>1, <1>5, <2>2 DEF ListFamily, EndAccess, EndFamily, Revoke, RevokeSwap, RevokeAccess,
       RevokeOpaque, SignOut, PlanAccess, PlanRefresh, PlanLost, EndSession, ApplyAccess, ApplyRefresh,
       DeleteRefresh, store
  <2>. QED  BY <2>1, <2>2 DEF Grant, Ending
<1>. QED  BY <1>3, <1>4, <1>5

\* What a call lists, is meant to end and has ended are tokens of the tables, and
\* tokens that were returned.
LEMMA ListsIn ==
  ASSUME NEW T, ids \in [Procs -> SUBSET T], accIds \in [Procs -> SUBSET T],
         aim \in [Procs -> SUBSET (Kinds \X T)], dead \subseteq Kinds \X T,
         \A r \in refresh : r.id \in T, \A a \in access : a.id \in T, \A x \in told : x.tok \in T,
         NEW p \in Procs, Grant(p) \/ Ending(p) \/ ReplayRefreshLost(p) \/ Throw(p)
  PROVE  /\ ids' \in [Procs -> SUBSET T] /\ accIds' \in [Procs -> SUBSET T]
         /\ aim' \in [Procs -> SUBSET (Kinds \X T)] /\ dead' \subseteq Kinds \X T
<1>1. /\ \A S \in SUBSET T : Kinds \X S \in SUBSET (Kinds \X T)
      /\ \A S \in SUBSET T : {"access"} \X S \in SUBSET (Kinds \X T)
      /\ \A S \in SUBSET T : {"refresh"} \X S \in SUBSET (Kinds \X T)
  BY DEF Kinds
<1>2. /\ \A R \in SUBSET refresh : Ids(R) \in SUBSET T
      /\ \A A \in SUBSET access : Ids(A) \in SUBSET T
      /\ \A X \in SUBSET told : {x.tok : x \in X} \in SUBSET T
  BY DEF Ids
<1>3. aim[p] \in SUBSET (Kinds \X T)
  OBVIOUS
<1>4. CASE Finish(p) /\ dead' \subseteq dead \cup aim[p]
  BY <1>3, <1>4 DEF Finish
<1>5. CASE UNCHANGED <<ids, accIds, aim, dead>>
  BY <1>5
<1>6. ASSUME NEW A \in SUBSET (Kinds \X T), aim' = [aim EXCEPT ![p] = A],
             UNCHANGED <<accIds, dead>>, ids' = ids \/ \E S \in SUBSET T : ids' = [ids EXCEPT ![p] = S]
      PROVE  /\ ids' \in [Procs -> SUBSET T] /\ accIds' \in [Procs -> SUBSET T]
             /\ aim' \in [Procs -> SUBSET (Kinds \X T)] /\ dead' \subseteq Kinds \X T
  BY <1>6
<1>7. CASE \/ Throw(p) \/ ReplayRefresh(p) \/ ReplayRefreshLost(p) \/ JudgeRetry(p)
           \/ StoreReply(p) \/ EndFamily(p) \/ RevokeAccess(p) \/ ApplyRefresh(p)
  BY <1>4, <1>7 DEF Throw, ReplayRefresh, ReplayRefreshLost, JudgeRetry, StoreReply, EndFamily,
     RevokeAccess, ApplyRefresh, Ended, Answer
<1>8. CASE \/ Refresh(p) \/ JudgeLive(p) \/ JudgeReplay(p) \/ EndAccess(p) \/ RevokeSwap(p)
           \/ ApplyAccess(p)
  BY <1>5, <1>8 DEF Refresh, JudgeLive, JudgeReplay, EndAccess, RevokeSwap, ApplyAccess, local,
     history
<1>9. CASE CheckSession(p) \/ Rotate(p) \/ MintRefresh(p) \/ MintAccess(p)
  <2>1. dead' = dead /\ (Finish(p) \/ UNCHANGED <<ids, accIds, aim>>)
    BY <1>9 DEF CheckSession, Rotate, MintRefresh, MintAccess, local
  <2>. QED  BY <1>4, <1>5, <2>1
<1>10. CASE Redeem(p)
  <2>1. PICK c \in Codes :
          aim' = aim \/ aim' = [aim EXCEPT ![p] = Kinds \X {x.tok : x \in {y \in told : y.code = c}}]
    BY <1>10 DEF Redeem
  <2>2. Kinds \X {x.tok : x \in {y \in told : y.code = c}} \in SUBSET (Kinds \X T)
    BY <1>1, <1>2
  <2>3. UNCHANGED <<ids, accIds, dead>>
    BY <1>10 DEF Redeem
  <2>. QED  BY <1>5, <1>6, <2>1, <2>2, <2>3
<1>11. CASE ReplayAccess(p)
  <2>1. aim' = aim \/ aim' = [aim EXCEPT ![p] = {x \in @ : x[1] # "access"}]
    BY <1>11 DEF ReplayAccess
  <2>2. UNCHANGED <<ids, accIds, dead>>
    BY <1>11 DEF ReplayAccess, local
  <2>. QED  BY <2>1, <2>2
<1>12. CASE ListFamily(p)
  <2>1. ids' = [ids EXCEPT ![p] = Ids(refresh)] /\ UNCHANGED <<accIds, dead>>
    BY <1>12 DEF ListFamily
  <2>2. PICK A : /\ aim' = [aim EXCEPT ![p] = A]
                 /\ A = ({"refresh"} \X Known)
                          \cup ({"access"} \X Ids({a \in access : a.ref \in Ids(refresh)}))
    BY <1>12 DEF ListFamily
  <2>3. Known \in SUBSET T /\ Ids({a \in access : a.ref \in Ids(refresh)}) \in SUBSET T
    BY <1>2 DEF Known
  <2>4. A \in SUBSET (Kinds \X T)
    BY <1>1, <2>2, <2>3
  <2>5. Ids(refresh) \in SUBSET T
    BY <1>2
  <2>. QED  BY <1>6, <2>1, <2>2, <2>4, <2>5
<1>13. CASE Revoke(p)
  <2>1. PICK r \in refresh : aim' = [aim EXCEPT ![p] = Kinds \X {r.id}]
    BY <1>13 DEF Revoke
  <2>2. Kinds \X {r.id} \in SUBSET (Kinds \X T)
    BY <1>1
  <2>3. UNCHANGED <<ids, accIds, dead>>
    BY <1>13 DEF Revoke
  <2>. QED  BY <1>6, <2>1, <2>2, <2>3
<1>14. CASE RevokeOpaque(p)
  <2>1. PICK a \in access : dead' = dead \cup {<<"access", a.id>>}
    BY <1>14 DEF RevokeOpaque
  <2>2. <<"access", a.id>> \in Kinds \X T
    BY DEF Kinds
  <2>3. UNCHANGED <<ids, accIds, aim>>
    BY <1>14 DEF RevokeOpaque, local
  <2>. QED  BY <2>1, <2>2, <2>3
<1>15. CASE SignOut(p)
  <2>1. PICK A : /\ aim' = [aim EXCEPT ![p] = A]
                 /\ A = ({"access"} \X Ids({x \in access : x.sess /\ x.id \in Known}))
                          \cup ({"refresh"} \X
                                  Ids({x \in refresh : x.sess /\ x.id \in Known /\ ~x.offline}))
    BY <1>15 DEF SignOut, Ids
  <2>2. A \in SUBSET (Kinds \X T)
    BY <1>1, <1>2, <2>1
  <2>3. UNCHANGED <<ids, accIds, dead>>
    BY <1>15 DEF SignOut, local
  <2>. QED  BY <1>6, <2>1, <2>2, <2>3
<1>16. CASE PlanAccess(p)
  <2>1. accIds' = [accIds EXCEPT ![p] = Ids({a \in access : a.sess /\ ~a.revoked})]
        /\ UNCHANGED <<ids, aim, dead>>
    BY <1>16 DEF PlanAccess, history
  <2>2. Ids({a \in access : a.sess /\ ~a.revoked}) \in SUBSET T
    BY <1>2
  <2>. QED  BY <2>1, <2>2
<1>17. CASE PlanRefresh(p)
  <2>1. ids' = [ids EXCEPT ![p] = Ids({r \in refresh : r.sess /\ ~r.revoked /\ ~r.offline})]
        /\ UNCHANGED <<accIds, aim, dead>>
    BY <1>17 DEF PlanRefresh, PlanLost, history
  <2>2. Ids({r \in refresh : r.sess /\ ~r.revoked /\ ~r.offline}) \in SUBSET T
    BY <1>2
  <2>. QED  BY <2>1, <2>2
<1>18. CASE PlanLost(p)
  <2>1. ids' = [ids EXCEPT ![p] = {}] /\ accIds' = [accIds EXCEPT ![p] = {}]
        /\ UNCHANGED <<aim, dead>>
    BY <1>18 DEF PlanLost, history
  <2>. QED  BY <2>1
<1>19. CASE EndSession(p)
  <2>1. aim' = [aim EXCEPT ![p] = IF session THEN @ ELSE {}] /\ UNCHANGED <<ids, accIds, dead>>
    BY <1>19 DEF EndSession, local
  <2>. QED  BY <2>1
<1>. QED  BY <1>7, <1>8, <1>9, <1>10, <1>11, <1>12, <1>13, <1>14, <1>15, <1>16, <1>17, <1>18, <1>19
          DEF Grant, Ending

LEMMA ListsTyped ==
  ASSUME ChainInv, Recorded, NEW p \in Procs,
         Grant(p) \/ Ending(p) \/ ReplayRefreshLost(p) \/ Throw(p)
  PROVE  /\ ids' \in [Procs -> SUBSET Nat] /\ accIds' \in [Procs -> SUBSET Nat]
         /\ aim' \in [Procs -> SUBSET (Kinds \X Nat)] /\ dead' \subseteq Kinds \X Nat
<1>1. \A r \in refresh : r.id \in Nat
  BY DEF ChainInv, Typed, Token
<1>2. \A a \in access : a.id \in Nat
  BY DEF Recorded, AccessToken
<1>3. \A x \in told : x.tok \in Nat
  BY DEF Recorded
<1>. QED  BY <1>1, <1>2, <1>3, ListsIn DEF Recorded

\* Where a call that has made a step stands.
LEMMA Goes ==
  ASSUME ChainInv, Answered, Recorded, Minting, NEW p \in Procs,
         Grant(p) \/ Ending(p) \/ ReplayRefreshLost(p) \/ Throw(p)
  PROVE  /\ pc'[p] \in Granting => code'[p] \in Codes
         /\ pc'[p] \in SigningOut => "signOut" \in Ops
         /\ mint'[p] # 0 => pc'[p] \in {"mintAccess", "storeReply"} /\ mint'[p] < next'
         /\ pc'[p] = "storeReply" => mint'[p] # 0
         /\ pc'[p] = "mintAccess" => mint'[p] \in {0, next}
<1>. USE DEF ChainInv, Typed
<1>0. next \in Nat /\ 0 < next
  BY DEF Answered
<1>1. CASE Finish(p)
  BY <1>1 DEF Finish, Goto, Granting, SigningOut
<1>2. ASSUME mint' = mint, mint[p] = 0,
             NEW l \in {"replayRefresh", "rotate", "mintAccess", "mintRefresh", "checkSession",
                        "replayAccess", "judge"}, Goto(p, l), code'[p] \in Codes
      PROVE  /\ pc'[p] \in Granting => code'[p] \in Codes
             /\ pc'[p] \in SigningOut => "signOut" \in Ops
             /\ mint'[p] # 0 => pc'[p] \in {"mintAccess", "storeReply"} /\ mint'[p] < next'
             /\ pc'[p] = "storeReply" => mint'[p] # 0
             /\ pc'[p] = "mintAccess" => mint'[p] \in {0, next}
  BY <1>2 DEF Goto, SigningOut
<1>3. ASSUME mint' = mint, mint[p] = 0,
             NEW l \in {"listFamily", "endAccess", "endFamily", "revokeSwap", "revokeAccess"}
                         \cup SigningOut, Goto(p, l), l \in SigningOut => "signOut" \in Ops
      PROVE  /\ pc'[p] \in Granting => code'[p] \in Codes
             /\ pc'[p] \in SigningOut => "signOut" \in Ops
             /\ mint'[p] # 0 => pc'[p] \in {"mintAccess", "storeReply"} /\ mint'[p] < next'
             /\ pc'[p] = "storeReply" => mint'[p] # 0
             /\ pc'[p] = "mintAccess" => mint'[p] \in {0, next}
  BY <1>3 DEF Goto, SigningOut, Granting
<1>4. pc[p] \notin {"mintAccess", "storeReply"} => mint[p] = 0
  BY DEF Minting
<1>5. CASE \/ Throw(p) \/ ReplayRefresh(p) \/ ReplayRefreshLost(p) \/ JudgeRetry(p)
           \/ StoreReply(p) \/ EndFamily(p) \/ RevokeAccess(p) \/ ApplyRefresh(p)
  BY <1>1, <1>5 DEF Throw, ReplayRefresh, ReplayRefreshLost, JudgeRetry, StoreReply, EndFamily,
     RevokeAccess, ApplyRefresh, Ended, Answer
<1>6. CASE Redeem(p)
  <2>1. PICK c \in Codes : code' = [code EXCEPT ![p] = c]
    BY <1>6 DEF Redeem
  <2>2. mint' = mint /\ pc[p] = "idle" /\ \E l \in {"checkSession", "replayAccess"} : Goto(p, l)
    BY <1>6 DEF Redeem, Enter
  <2>. QED  BY <1>2, <1>4, <2>1, <2>2
<1>7. CASE Refresh(p)
  <2>1. PICK r \in refresh : code' = [code EXCEPT ![p] = r.code]
    BY <1>7 DEF Refresh
  <2>2. mint' = mint /\ pc[p] = "idle" /\ Goto(p, "judge")
    BY <1>7 DEF Refresh, Enter
  <2>3. r.code \in Codes
    BY DEF Token
  <2>. QED  BY <1>2, <1>4, <2>1, <2>2, <2>3
<1>8. CASE (CheckSession(p) \/ ReplayAccess(p) \/ JudgeLive(p) \/ Rotate(p)) /\ ~Finish(p)
  <2>1. /\ mint' = mint /\ code' = code /\ pc[p] \in {"checkSession", "replayAccess", "judge", "rotate"}
        /\ \E l \in {"replayRefresh", "rotate", "mintAccess", "mintRefresh"} : Goto(p, l)
    BY <1>8 DEF CheckSession, ReplayAccess, JudgeLive, Rotate, local
  <2>2. code[p] \in Codes
    BY <2>1 DEF Recorded, Granting
  <2>. QED  BY <1>2, <1>4, <2>1, <2>2
<1>9. CASE MintRefresh(p) /\ ~Finish(p)
  <2>1. /\ mint' = [mint EXCEPT ![p] = next] /\ next' = next + 1 /\ code' = code
        /\ pc[p] = "mintRefresh" /\ \E l \in {"mintAccess", "storeReply"} : Goto(p, l)
    BY <1>9 DEF MintRefresh, Minted
  <2>2. code[p] \in Codes
    BY <2>1 DEF Recorded, Granting
  <2>3. pc'[p] \in {"mintAccess", "storeReply"} /\ mint'[p] = next /\ code'[p] \in Codes
    BY <2>1, <2>2 DEF Goto
  <2>. QED  BY <1>0, <2>1, <2>3 DEF SigningOut
<1>10. CASE MintAccess(p) /\ ~Finish(p)
  <2>1. /\ \/ mint[p] = 0 /\ mint' = [mint EXCEPT ![p] = next] /\ next' = next + 1
           \/ mint[p] # 0 /\ mint' = mint /\ next' = next
        /\ code' = code /\ pc[p] = "mintAccess" /\ Goto(p, "storeReply")
    BY <1>10 DEF MintAccess, Minted
  <2>2. code[p] \in Codes /\ mint[p] # 0 => mint[p] < next
    BY <2>1 DEF Recorded, Granting, Minting
  <2>3. pc'[p] = "storeReply" /\ mint'[p] # 0 /\ mint'[p] < next' /\ code'[p] \in Codes
    BY <1>0, <2>1, <2>2 DEF Goto, Recorded, Granting, Minting
  <2>. QED  BY <2>3 DEF SigningOut
<1>11. CASE \/ JudgeReplay(p) \/ ListFamily(p) \/ EndAccess(p) \/ Revoke(p) \/ RevokeSwap(p)
            \/ SignOut(p) \/ PlanAccess(p) \/ PlanRefresh(p) \/ PlanLost(p) \/ EndSession(p) \/ ApplyAccess(p)
  <2>1. mint' = mint
    BY <1>11 DEF JudgeReplay, ListFamily, EndAccess, Revoke, RevokeSwap, SignOut, PlanAccess,
       PlanRefresh, PlanLost, EndSession, ApplyAccess, local
  <2>2. pc[p] \in {"idle", "judge", "listFamily", "endAccess", "revokeSwap"} \cup SigningOut
    BY <1>11 DEF JudgeReplay, ListFamily, EndAccess, Revoke, RevokeSwap, SignOut, PlanAccess,
       PlanRefresh, PlanLost, EndSession, ApplyAccess, Enter, SigningOut
  <2>3. mint[p] = 0
    BY <1>4, <2>2 DEF SigningOut
  <2>4. CASE JudgeReplay(p) \/ ListFamily(p) \/ EndAccess(p) \/ Revoke(p) \/ RevokeSwap(p)
    <3>1. PICK l \in {"listFamily", "endAccess", "endFamily", "revokeSwap", "revokeAccess"} :
            Goto(p, l)
      BY <2>4 DEF JudgeReplay, ListFamily, EndAccess, Revoke, RevokeSwap, Enter
    <3>. QED  BY <1>3, <2>1, <2>3, <3>1 DEF SigningOut
  <2>5. CASE \/ SignOut(p) \/ PlanAccess(p) \/ PlanRefresh(p) \/ PlanLost(p) \/ EndSession(p) \/ ApplyAccess(p)
    <3>1. PICK l \in SigningOut : Goto(p, l)
      BY <2>5 DEF SignOut, PlanAccess, PlanRefresh, PlanLost, EndSession, ApplyAccess, Enter, SigningOut
    <3>2. "signOut" \in Ops
      BY <2>5 DEF SignOut, PlanAccess, PlanRefresh, PlanLost, EndSession, ApplyAccess, Enter, SigningOut,
         Recorded
    <3>. QED  BY <1>3, <2>1, <2>3, <3>1, <3>2
  <2>. QED  BY <1>11, <2>4, <2>5
<1>12. CASE RevokeOpaque(p)
  BY <1>4, <1>12 DEF RevokeOpaque, local, Granting, SigningOut
<1>. QED  BY <1>1, <1>5, <1>6, <1>7, <1>8, <1>9, <1>10, <1>11, <1>12 DEF Grant, Ending

\* Numbers are used once: what is taken stays so.
LEMMA Onward ==
  ASSUME ChainInv, Answered, Recorded, Minting, NEW p \in Procs,
         Grant(p) \/ Ending(p) \/ ReplayRefreshLost(p) \/ Throw(p)
  PROVE  /\ next' \in {next, next + 1} /\ next' \in Nat /\ next <= next'
         /\ \A t \in Nat : Past(t) => Past(t)'
<1>1. next' \in {next, next + 1}
  <2>1. CASE Grant(p)
    BY <2>1 DEF Grant, Redeem, CheckSession, ReplayAccess, ReplayRefresh, Refresh, JudgeLive,
       JudgeRetry, JudgeReplay, Rotate, MintRefresh, MintAccess, Minted, StoreReply
  <2>2. CASE Ending(p) \/ ReplayRefreshLost(p) \/ Throw(p)
    BY <2>2 DEF Ending, ListFamily, EndAccess, EndFamily, Revoke, RevokeSwap, RevokeAccess,
       RevokeOpaque, SignOut, PlanAccess, PlanRefresh, PlanLost, EndSession, ApplyAccess, ApplyRefresh,
       ReplayRefreshLost, Throw
  <2>. QED  BY <2>1, <2>2
<1>2. next \in Nat
  BY DEF ChainInv, Typed
<1>3. next' \in Nat /\ next <= next'
  BY <1>1, <1>2
<1>4. \A q \in Procs \ {p} : pc'[q] = pc[q] /\ mint'[q] = mint[q]
  BY OthersStay, OthersKeep DEF ChainInv
<1>5. pc'[p] = "mintAccess" => mint'[p] \in {0, next}
  BY Goes
<1>6. ASSUME NEW t \in Nat, Past(t)
      PROVE  Past(t)'
  <2>1. 0 < t /\ t < next' /\ t # next /\ t # 0
    BY <1>2, <1>3, <1>6 DEF Past
  <2>. QED  BY <1>4, <1>5, <1>6, <2>1 DEF Past
<1>. QED  BY <1>1, <1>3, <1>6

\* The access token that a call creates, if it creates one.
LEMMA AccessMinted ==
  ASSUME ChainInv, Answered, Recorded, Minting, NEW p \in Procs, MintAccess(p)
  PROVE  \/ UNCHANGED <<access, next>> /\ Finish(p)
         \/ \E b \in AccessToken :
              /\ access' = access \cup {b} /\ b.code = code[p] /\ Goto(p, "storeReply")
              /\ UNCHANGED <<refresh, code, told>>
              /\ \/ mint[p] # 0 /\ b.id = mint[p] /\ b.ref = b.id /\ mint' = mint /\ next' = next
                 \/ /\ mint[p] = 0 /\ b.id = next /\ b.ref = 0
                    /\ mint' = [mint EXCEPT ![p] = next] /\ next' = next + 1
<1>1. CASE SessionMissing(p) \/ ParentMissing(p)
  BY <1>1 DEF MintAccess
<1>2. CASE ~(SessionMissing(p) \/ ParentMissing(p))
  <2>1. PICK b : b = [id |-> IF mint[p] = 0 THEN next ELSE mint[p], code |-> code[p],
                      ref |-> mint[p], sess |-> ForSession(p),
                      exp |-> iat[p] + AccessLifetime, revoked |-> FALSE]
    OBVIOUS
  <2>2. /\ access' = access \cup {b} /\ Goto(p, "storeReply") /\ UNCHANGED <<refresh, code, told>>
        /\ IF mint[p] = 0 THEN Minted(p) ELSE UNCHANGED <<next, mint>>
    BY <1>2, <2>1 DEF MintAccess
  <2>3. /\ ForSession(p) \in BOOLEAN /\ mint[p] \in Nat /\ next \in Nat
        /\ iat[p] + AccessLifetime \in Nat /\ code[p] \in Codes
    BY TokensAssumption
    DEF ForSession, ChainInv, Typed, Token, MintAccess, Recorded, Granting
  <2>4. b \in AccessToken
    BY <2>1, <2>3 DEF AccessToken
  <2>5. /\ b.code = code[p] /\ b.ref = mint[p]
        /\ b.id = IF mint[p] = 0 THEN next ELSE mint[p]
    BY <2>1
  <2>. QED  BY <2>2, <2>4, <2>5 DEF Minted
<1>. QED  BY <1>1, <1>2

\* The refresh token that a call creates, if it creates one.
LEMMA RefreshMinted ==
  ASSUME NEW p \in Procs, MintRefresh(p)
  PROVE  \/ UNCHANGED <<refresh, next>> /\ Finish(p)
         \/ \E t : /\ refresh' = refresh \cup {t} /\ t.id = next /\ t.code = code[p]
                   /\ t.offline = scope[p]
                   /\ \E l \in {"mintAccess", "storeReply"} : Goto(p, l)
                   /\ UNCHANGED <<code, ids, accIds, aim>>
                   /\ mint' = [mint EXCEPT ![p] = next] /\ next' = next + 1
<1>1. CASE SessionMissing(p)
  BY <1>1 DEF MintRefresh
<1>2. CASE ~SessionMissing(p)
  <2>1. PICK t : t = [id |-> next, code |-> code[p], sess |-> ForSession(p),
                      exp |-> iat[p] + RefreshLifetime, revoked |-> FALSE, until |-> 0,
                      reply |-> 0, offline |-> scope[p]]
    OBVIOUS
  <2>2. refresh' = refresh \cup {t} /\ Minted(p) /\ UNCHANGED <<code, ids, accIds, aim>>
        /\ \E l \in {"mintAccess", "storeReply"} : Goto(p, l)
    BY <1>2, <2>1 DEF MintRefresh
  <2>3. t.id = next /\ t.code = code[p] /\ t.offline = scope[p]
    BY <2>1
  <2>. QED  BY <2>2, <2>3 DEF Minted
<1>. QED  BY <1>1, <1>2

LEMMA RecordedStep ==
  ASSUME ChainInv, Answered, Recorded, Named, Minting, NEW p \in Procs,
         Grant(p) \/ Ending(p) \/ ReplayRefreshLost(p) \/ Throw(p)
  PROVE  Recorded'
<1>1. session' \in BOOLEAN
  <2>1. CASE Grant(p)
    BY <2>1 DEF Recorded, Grant, Redeem, CheckSession, ReplayAccess, ReplayRefresh, Refresh, JudgeLive,
       JudgeRetry, JudgeReplay, Rotate, MintRefresh, MintAccess, StoreReply, store
  <2>2. CASE Ending(p) \/ ReplayRefreshLost(p) \/ Throw(p)
    BY <2>2 DEF Recorded, Ending, ListFamily, EndAccess, EndFamily, Revoke, RevokeSwap, RevokeAccess,
       RevokeOpaque, SignOut, PlanAccess, PlanRefresh, PlanLost, EndSession, ApplyAccess, ApplyRefresh,
       ReplayRefreshLost, Throw, store
  <2>. QED  BY <2>1, <2>2
<1>2. access' \subseteq AccessToken
  <2>1. CASE MintAccess(p)
    BY <2>1, AccessMinted DEF Recorded
  <2>2. CASE ~MintAccess(p)
    BY <2>2, AccessKept DEF Recorded
  <2>. QED  BY <2>1, <2>2
<1>3. told' \subseteq [from : Nat, code : Codes, tok : Nat]
  <2>1. CASE StoreReply(p)
    <3>1. \A f \in IF row[p] = {} THEN {0} ELSE Parent(p) : f \in Nat
      BY DEF Parent, Ids, ChainInv, Typed, Token
    <3>2. code[p] \in Codes /\ mint[p] \in Nat
      BY <2>1 DEF StoreReply, Recorded, Granting, ChainInv, Typed
    <3>. QED  BY <2>1, <3>1, <3>2 DEF StoreReply, Answer, Recorded
  <2>2. CASE ~StoreReply(p)
    BY <2>2, ToldKept DEF Recorded
  <2>. QED  BY <2>1, <2>2
<1>4. \A q \in Procs : /\ pc'[q] \in Granting => code'[q] \in Codes
                       /\ pc'[q] \in SigningOut => "signOut" \in Ops
  <2>1. \A q \in Procs \ {p} : pc'[q] = pc[q] /\ code'[q] = code[q]
    BY OthersStay DEF ChainInv
  <2>2. /\ pc'[p] \in Granting => code'[p] \in Codes
        /\ pc'[p] \in SigningOut => "signOut" \in Ops
    BY Goes
  <2>. QED  BY <2>1, <2>2 DEF Recorded
<1>. QED  BY <1>1, <1>2, <1>3, <1>4, ListsTyped DEF Recorded

LEMMA NamedStep ==
  ASSUME ChainInv, Answered, Recorded, Named, Minting, NEW p \in Procs,
         Grant(p) \/ Ending(p) \/ ReplayRefreshLost(p) \/ Throw(p)
  PROVE  Named'
<1>1. /\ next \in Nat /\ next' \in Nat /\ next <= next' /\ mint[p] \in Nat
      /\ \A t \in Nat : Past(t) => Past(t)'
  BY Onward DEF ChainInv, Typed
<1>2. /\ \A a \in access : a.id \in Nat /\ a.ref \in Nat
      /\ \A r \in refresh : r.id \in Nat /\ r.id < next
      /\ \A x \in told : x.tok \in Nat /\ 0 < x.tok /\ x.tok < next
  <2>1. \A r \in refresh : r \in Token
    BY DEF ChainInv, Typed
  <2>2. \A a \in access : a \in AccessToken
    BY DEF Recorded
  <2>3. \A x \in told : x \in [from : Nat, code : Codes, tok : Nat]
    BY DEF Recorded
  <2>4. \A x \in told : 0 < x.tok /\ x.tok < next
    BY DEF Named, Past
  <2>5. \A r \in refresh : r.id < next
    BY DEF ChainInv, Consistent
  <2>. QED  BY <2>1, <2>2, <2>3, <2>4, <2>5 DEF Token, AccessToken
<1>3. CASE MintRefresh(p)
  <2>1. UNCHANGED <<access, told>>
    BY <1>3 DEF MintRefresh
  <2>2. \A r \in refresh' : r \in refresh \/ r.id = next
    BY <1>3, RefreshMinted
  <2>3. \A a \in access' : 0 < a.id /\ a.id < next' /\ a.ref \in {0, a.id}
    BY <1>1, <1>2, <2>1 DEF Named
  <2>4. \A a \in access', r \in refresh' : a.id = r.id => a.ref = a.id
    BY <1>1, <1>2, <2>1, <2>2 DEF Named
  <2>5. \A x \in told', r \in refresh' : r.id = x.tok => r.code = x.code
    BY <1>1, <1>2, <2>1, <2>2 DEF Named
  <2>6. \A x \in told' : Past(x.tok)'
    BY <1>1, <1>2, <2>1 DEF Named
  <2>. QED  BY <2>1, <2>3, <2>4, <2>5, <2>6 DEF Named
<1>4. CASE MintAccess(p)
  <2>1. UNCHANGED <<refresh, told>> /\ pc[p] = "mintAccess"
    BY <1>4, ToldKept DEF MintAccess, StoreReply
  <2>2. CASE UNCHANGED <<access, next>>
    <3>1. \A x \in told' : Past(x.tok)'
      BY <1>1, <1>2, <2>1 DEF Named
    <3>. QED  BY <2>1, <2>2, <3>1 DEF Named
  <2>3. ASSUME NEW b \in AccessToken, access' = access \cup {b},
               \/ mint[p] # 0 /\ b.id = mint[p] /\ b.ref = b.id
               \/ mint[p] = 0 /\ b.id = next /\ b.ref = 0 /\ next' = next + 1
        PROVE  Named'
    <3>1. /\ 0 < b.id /\ b.id < next' /\ b.ref \in {0, b.id} /\ \A a \in access : a.id # b.id
          /\ \A x \in told : x.tok # b.id
          /\ \A r \in refresh : r.id = b.id => b.ref = b.id
      <4>1. CASE mint[p] # 0 /\ b.id = mint[p] /\ b.ref = b.id
        <5>1. mint[p] < next /\ \A a \in access : a.id # mint[p]
          BY <2>1, <4>1 DEF Minting
        <5>2. \A x \in told : x.tok # mint[p]
          BY <2>1 DEF Named, Past
        <5>. QED  BY <1>1, <4>1, <5>1, <5>2
      <4>2. CASE mint[p] = 0 /\ b.id = next /\ b.ref = 0 /\ next' = next + 1
        <5>1. 0 < next /\ \A a \in access : a.id < next
          BY DEF Answered, Named
        <5>. QED  BY <1>1, <1>2, <4>2, <5>1
      <4>. QED  BY <2>3, <4>1, <4>2
    <3>2. \A a \in access' : 0 < a.id /\ a.id < next' /\ a.ref \in {0, a.id}
      BY <1>1, <1>2, <2>3, <3>1 DEF Named
    <3>3. \A a, c \in access' : a.id = c.id => a = c
      BY <2>3, <3>1 DEF Named
    <3>4. \A a \in access', r \in refresh' : a.id = r.id => a.ref = a.id
      BY <2>1, <2>3, <3>1 DEF Named
    <3>5. \A x \in told' : /\ Past(x.tok)'
                           /\ \A a \in access' : a.id = x.tok => a.code = x.code
                           /\ \A r \in refresh' : r.id = x.tok => r.code = x.code
      BY <1>1, <1>2, <2>1, <2>3, <3>1 DEF Named
    <3>. QED  BY <3>2, <3>3, <3>4, <3>5 DEF Named
  <2>. QED  BY <1>4, <2>2, <2>3, AccessMinted
<1>5. CASE ~MintRefresh(p) /\ ~MintAccess(p)
  <2>1. \A s \in refresh' : \E r \in refresh : s.id = r.id /\ s.code = r.code
    BY <1>5, RefreshKept DEF Later
  <2>2. /\ \A b \in access' : \E a \in access : b.id = a.id /\ b.code = a.code /\ b.ref = a.ref
        /\ \A a, b \in access' : a.id = b.id => a = b
    BY <1>5, AccessKept DEF Later
  <2>3. \A x \in told' : /\ Past(x.tok)'
                         /\ \A a \in access : a.id = x.tok => a.code = x.code
                         /\ \A r \in refresh : r.id = x.tok => r.code = x.code
    <3>1. \A x \in told : /\ Past(x.tok)'
                          /\ \A a \in access : a.id = x.tok => a.code = x.code
                          /\ \A r \in refresh : r.id = x.tok => r.code = x.code
      BY <1>1, <1>2 DEF Named
    <3>2. CASE ~StoreReply(p)
      BY <3>1, <3>2, ToldKept
    <3>3. CASE StoreReply(p)
      <4>. PICK m \in Nat : m = mint[p]
        BY <1>1
      <4>. PICK F : F = IF row[p] = {} THEN {0} ELSE Parent(p)
        OBVIOUS
      <4>0. told' = told \cup {[from |-> f, code |-> code[p], tok |-> m] : f \in F}
        BY <3>3 DEF StoreReply, Answer
      <4>1. /\ \A x \in told' : x \in told \/ (x.code = code[p] /\ x.tok = m)
            /\ pc[p] = "storeReply" /\ next' = next /\ Finish(p)
        <5>1. ASSUME NEW x \in told' PROVE x \in told \/ (x.code = code[p] /\ x.tok = m)
          BY <4>0
        <5>. QED  BY <3>3, <5>1 DEF StoreReply, Answer
      <4>2. /\ 0 < m /\ m < next
            /\ \A a \in access : a.id = m => a.code = code[p]
            /\ \A r \in refresh : r.id = m => r.code = code[p]
            /\ \A q \in Procs : mint[q] = m => q = p
        BY <1>1, <4>1 DEF Minting
      <4>3. pc'[p] = "idle" /\ \A q \in Procs \ {p} : pc'[q] = pc[q] /\ mint'[q] = mint[q]
        BY <4>1, OthersStay, OthersKeep DEF ChainInv, Typed, Finish, Goto
      <4>4. Past(m)'
        <5>1. \A q \in Procs : pc'[q] = "mintAccess" => mint'[q] # m
          BY <4>2, <4>3
        <5>. QED  BY <4>1, <4>2, <5>1 DEF Past
      <4>. QED  BY <3>1, <4>1, <4>2, <4>4
    <3>. QED  BY <3>2, <3>3
  <2>4. \A a \in access' : 0 < a.id /\ a.id < next' /\ a.ref \in {0, a.id}
    <3>. SUFFICES ASSUME NEW b \in access' PROVE 0 < b.id /\ b.id < next' /\ b.ref \in {0, b.id}
      OBVIOUS
    <3>1. PICK a \in access : b.id = a.id /\ b.ref = a.ref
      BY <2>2
    <3>. QED  BY <1>1, <1>2, <3>1 DEF Named
  <2>5. \A b \in access', s \in refresh' : b.id = s.id => b.ref = b.id
    BY <2>1, <2>2 DEF Named
  <2>. QED  BY <2>1, <2>2, <2>3, <2>4, <2>5 DEF Named
<1>. QED  BY <1>3, <1>4, <1>5

\* No other step leaves its call with a number.
LEMMA NoneMinted ==
  ASSUME ChainInv, Minting, NEW p \in Procs, ~MintRefresh(p), ~MintAccess(p),
         Grant(p) \/ Ending(p) \/ ReplayRefreshLost(p) \/ Throw(p)
  PROVE  mint'[p] = 0
<1>1. CASE Finish(p)
  BY <1>1 DEF Finish, ChainInv, Typed
<1>2. CASE mint' = mint /\ pc[p] \notin {"mintAccess", "storeReply"}
  BY <1>2 DEF Minting
<1>3. CASE \/ Throw(p) \/ ReplayRefresh(p) \/ ReplayRefreshLost(p) \/ JudgeRetry(p)
           \/ StoreReply(p) \/ EndFamily(p) \/ RevokeAccess(p) \/ ApplyRefresh(p)
  BY <1>1, <1>3 DEF Throw, ReplayRefresh, ReplayRefreshLost, JudgeRetry, StoreReply, EndFamily,
     RevokeAccess, ApplyRefresh, Ended, Answer
<1>4. CASE \/ Redeem(p) \/ ((CheckSession(p) \/ Rotate(p)) /\ ~Finish(p)) \/ ReplayAccess(p)
           \/ Refresh(p) \/ JudgeLive(p) \/ JudgeReplay(p)
  BY <1>2, <1>4 DEF Redeem, CheckSession, Rotate, ReplayAccess, Refresh, JudgeLive, JudgeReplay,
     Enter, local
<1>5. CASE \/ ListFamily(p) \/ EndAccess(p) \/ Revoke(p) \/ RevokeSwap(p) \/ RevokeOpaque(p)
           \/ SignOut(p) \/ PlanAccess(p) \/ PlanRefresh(p) \/ PlanLost(p) \/ EndSession(p) \/ ApplyAccess(p)
  BY <1>2, <1>5 DEF ListFamily, EndAccess, Revoke, RevokeSwap, RevokeOpaque, SignOut, PlanAccess,
     PlanRefresh, PlanLost, EndSession, ApplyAccess, Enter, local
<1>. QED  BY <1>1, <1>3, <1>4, <1>5 DEF Grant, Ending

LEMMA MintingStep ==
  ASSUME ChainInv, Answered, Recorded, Named, Minting, NEW p \in Procs,
         Grant(p) \/ Ending(p) \/ ReplayRefreshLost(p) \/ Throw(p)
  PROVE  Minting'
<1>. DEFINE Own(q) == /\ pc'[q] = "mintAccess" => \A a \in access' : a.id # mint'[q]
                      /\ \A a \in access' : a.id = mint'[q] => a.code = code'[q]
                      /\ \A r \in refresh' : r.id = mint'[q] => r.code = code'[q]
            Alone(q) == \A o \in Procs : mint'[q] # 0 /\ mint'[q] = mint'[o] => q = o
<1>1. /\ next \in Nat /\ next' \in Nat /\ 0 < next /\ next <= next'
      /\ \A q \in Procs : mint[q] \in Nat
  BY Onward DEF ChainInv, Typed, Answered
<1>2. \A q \in Procs \ {p} : pc'[q] = pc[q] /\ code'[q] = code[q] /\ mint'[q] = mint[q]
  BY OthersStay, OthersKeep DEF ChainInv
<1>3. /\ \A a \in access : a.id \in Nat /\ 0 < a.id /\ a.id < next
      /\ \A r \in refresh : r.id \in Nat /\ 0 < r.id /\ r.id < next
  <2>1. \A r \in refresh : r \in Token
    BY DEF ChainInv, Typed
  <2>2. \A a \in access : a \in AccessToken
    BY DEF Recorded
  <2>. QED  BY <2>1, <2>2 DEF Token, AccessToken, ChainInv, Consistent, Answered, Named
<1>4. \A q \in Procs : /\ mint'[q] # 0 => pc'[q] \in {"mintAccess", "storeReply"} /\ mint'[q] < next'
                       /\ pc'[q] = "storeReply" => mint'[q] # 0
  <2>1. ASSUME NEW q \in Procs, q # p
        PROVE  /\ mint'[q] # 0 => pc'[q] \in {"mintAccess", "storeReply"} /\ mint'[q] < next'
               /\ pc'[q] = "storeReply" => mint'[q] # 0
    BY <1>1, <1>2, <2>1 DEF Minting
  <2>. QED  BY <2>1, Goes
<1>5. ASSUME NEW q \in Procs
      PROVE  /\ mint[q] # 0 => mint[q] < next
             /\ pc[q] = "mintAccess" => \A a \in access : a.id # mint[q]
             /\ \A a \in access : a.id = mint[q] => a.code = code[q]
             /\ \A r \in refresh : r.id = mint[q] => r.code = code[q]
             /\ mint[q] # 0 /\ mint[q] = mint[p] => q = p
  BY DEF Minting
<1>6. CASE MintRefresh(p) /\ ~(UNCHANGED <<refresh, next>> /\ Finish(p))
  <2>1. PICK t : /\ refresh' = refresh \cup {t} /\ t.id = next /\ t.code = code[p]
                 /\ code' = code /\ mint' = [mint EXCEPT ![p] = next] /\ next' = next + 1
    BY <1>6, RefreshMinted
  <2>2. access' = access /\ mint'[p] = next /\ code'[p] = code[p]
    BY <1>6, <2>1 DEF MintRefresh, ChainInv, Typed
  <2>3. ASSUME NEW q \in Procs, q # p PROVE Own(q) /\ Alone(q)
    <3>1. /\ mint'[q] = mint[q] /\ pc'[q] = pc[q] /\ code'[q] = code[q]
          /\ mint[q] # next
      BY <1>1, <1>2, <1>5, <2>3
    <3>2. Own(q)
      BY <1>3, <1>5, <2>1, <2>2, <3>1
    <3>. QED  BY <1>2, <2>2, <2>3, <3>1, <3>2 DEF Minting
  <2>4. Own(p)
    BY <1>1, <1>3, <2>1, <2>2
  <2>5. Alone(p)
    BY <1>1, <1>2, <1>5, <2>2
  <2>. QED  BY <1>4, <2>3, <2>4, <2>5 DEF Minting
<1>7. CASE MintAccess(p) /\ ~(UNCHANGED <<access, next>> /\ Finish(p))
  <2>1. PICK b \in AccessToken :
          /\ access' = access \cup {b} /\ b.code = code[p] /\ Goto(p, "storeReply")
          /\ UNCHANGED <<refresh, code>>
          /\ \/ mint[p] # 0 /\ b.id = mint[p] /\ mint' = mint
             \/ mint[p] = 0 /\ b.id = next /\ mint' = [mint EXCEPT ![p] = next]
    BY <1>7, AccessMinted
  <2>2. /\ pc[p] = "mintAccess" /\ pc'[p] = "storeReply" /\ mint'[p] = b.id /\ code'[p] = code[p]
        /\ b.id # 0
    BY <1>1, <1>7, <2>1 DEF MintAccess, Goto, ChainInv, Typed
  <2>3. \A a \in access : a.id # b.id
    BY <1>1, <1>3, <1>5, <2>1, <2>2
  <2>4. \A r \in refresh : r.id = b.id => r.code = code[p]
    BY <1>1, <1>3, <1>5, <2>1
  <2>5. \A q \in Procs \ {p} : mint[q] # b.id
    BY <1>1, <1>5, <2>1
  <2>6. ASSUME NEW q \in Procs, q # p PROVE Own(q) /\ Alone(q)
    <3>1. /\ mint'[q] = mint[q] /\ pc'[q] = pc[q] /\ code'[q] = code[q] /\ mint[q] # b.id
      BY <1>2, <2>5, <2>6
    <3>2. Own(q)
      BY <1>5, <2>1, <3>1
    <3>. QED  BY <1>2, <2>2, <2>6, <3>1, <3>2 DEF Minting
  <2>7. Own(p)
    BY <2>1, <2>2, <2>3, <2>4
  <2>8. Alone(p)
    BY <1>2, <2>2, <2>5
  <2>. QED  BY <1>4, <2>6, <2>7, <2>8 DEF Minting
<1>8. CASE /\ ~(MintRefresh(p) /\ ~(UNCHANGED <<refresh, next>> /\ Finish(p)))
           /\ ~(MintAccess(p) /\ ~(UNCHANGED <<access, next>> /\ Finish(p)))
  <2>1. mint'[p] = 0
    BY <1>8, NoneMinted DEF Finish, ChainInv, Typed
  <2>2. \A s \in refresh' : \E r \in refresh : s.id = r.id /\ s.code = r.code
    BY <1>8, RefreshKept DEF Later
  <2>3. \A b \in access' : \E a \in access : b.id = a.id /\ b.code = a.code
    BY <1>8, AccessKept DEF Later
  <2>4. ASSUME NEW q \in Procs, q # p PROVE Own(q) /\ Alone(q)
    BY <1>2, <1>5, <2>1, <2>2, <2>3, <2>4 DEF Minting
  <2>5. Own(p) /\ Alone(p)
    BY <1>3, <2>1, <2>2, <2>3
  <2>. QED  BY <1>4, <2>4, <2>5 DEF Minting
<1>. QED  BY <1>6, <1>7, <1>8

\* What a step leaves of the tokens that are taken, it has left or written.
LEMMA PastLater ==
  ASSUME ChainInv, Answered, Recorded, Named, Minting, NEW p \in Procs,
         Grant(p) \/ Ending(p) \/ ReplayRefreshLost(p) \/ Throw(p)
  PROVE  /\ session' => session
         /\ \A s \in refresh' : Past(s.id) =>
              \E r \in refresh : Later(s, r) /\ s.offline = r.offline
         /\ \A b \in access' : Past(b.id) => \E a \in access : Later(b, a) /\ b.ref = a.ref
<1>1. session' => session
  <2>1. CASE Grant(p)
    BY <2>1 DEF Grant, Redeem, CheckSession, ReplayAccess, ReplayRefresh, Refresh, JudgeLive,
       JudgeRetry, JudgeReplay, Rotate, MintRefresh, MintAccess, StoreReply, store
  <2>2. CASE Ending(p) \/ ReplayRefreshLost(p) \/ Throw(p)
    BY <2>2 DEF Ending, ListFamily, EndAccess, EndFamily, Revoke, RevokeSwap, RevokeAccess,
       RevokeOpaque, SignOut, PlanAccess, PlanRefresh, PlanLost, EndSession, ApplyAccess, ApplyRefresh,
       ReplayRefreshLost, Throw, store
  <2>. QED  BY <2>1, <2>2
<1>2. \A s \in refresh' : Past(s.id) => \E r \in refresh : Later(s, r) /\ s.offline = r.offline
  <2>1. CASE ~MintRefresh(p)
    BY <2>1, RefreshKept
  <2>2. CASE MintRefresh(p)
    <3>1. \A r \in refresh : Later(r, r) /\ r.offline = r.offline
      BY <2>2 DEF Later, MintRefresh
    <3>2. \A s \in refresh' : s \in refresh \/ s.id = next
      BY <2>2, RefreshMinted
    <3>3. \A s : s.id = next => ~Past(s.id)
      BY DEF Past, ChainInv, Typed
    <3>. QED  BY <3>1, <3>2, <3>3
  <2>. QED  BY <2>1, <2>2
<1>3. \A b \in access' : Past(b.id) => \E a \in access : Later(b, a) /\ b.ref = a.ref
  <2>1. CASE ~MintAccess(p)
    BY <2>1, AccessKept
  <2>2. CASE MintAccess(p)
    <3>1. \A a \in access : Later(a, a) /\ a.ref = a.ref
      BY <2>2 DEF Later, MintAccess
    <3>2. \A b \in access' : b \in access \/ b.id = next \/ b.id = mint[p]
      BY <2>2, AccessMinted
    <3>3. \A b : b.id = next \/ b.id = mint[p] => ~Past(b.id)
      BY <2>2 DEF Past, ChainInv, Typed, MintAccess
    <3>. QED  BY <3>1, <3>2, <3>3
  <2>. QED  BY <2>1, <2>2
<1>. QED  BY <1>1, <1>2, <1>3

\* So what a call is meant to end is no more after a step than it was.
LEMMA AimedLater ==
  ASSUME ChainInv, Answered, Recorded, Named, Minting, NEW p \in Procs,
         Grant(p) \/ Ending(p) \/ ReplayRefreshLost(p) \/ Throw(p),
         NEW q \in Procs, Aimed(q), aim'[q] \subseteq aim[q]
  PROVE  /\ Aimed(q)'
         /\ \A b \in AimedAccess(q)' : \E a \in AimedAccess(q) : Later(b, a) /\ b.ref = a.ref
         /\ \A s \in AimedRefresh(q)' : \E r \in AimedRefresh(q) : Later(s, r) /\ s.offline = r.offline
<1>1. Aimed(q)'
  <2>1. \A x \in aim[q] : x[2] \in Nat /\ Past(x[2])
    BY DEF Recorded, Aimed
  <2>2. \A t \in Nat : Past(t) => Past(t)'
    BY Onward
  <2>3. \A x \in aim'[q] : Past(x[2])'
    BY <2>1, <2>2
  <2>. QED  BY <2>3 DEF Aimed
<1>2. ASSUME NEW b \in AimedAccess(q)'
      PROVE  \E a \in AimedAccess(q) : Later(b, a) /\ b.ref = a.ref
  <2>1. b \in access' /\ <<"access", b.id>> \in aim[q]
    BY <1>2 DEF AimedAccess
  <2>2. Past(b.id)
    BY <2>1 DEF Aimed
  <2>3. PICK a \in access : Later(b, a) /\ b.ref = a.ref
    BY <2>1, <2>2, PastLater
  <2>. QED  BY <2>1, <2>3 DEF AimedAccess, Later
<1>3. ASSUME NEW s \in AimedRefresh(q)'
      PROVE  \E r \in AimedRefresh(q) : Later(s, r) /\ s.offline = r.offline
  <2>1. s \in refresh' /\ <<"refresh", s.id>> \in aim[q]
    BY <1>3 DEF AimedRefresh
  <2>2. Past(s.id)
    BY <2>1 DEF Aimed
  <2>3. PICK r \in refresh : Later(s, r) /\ s.offline = r.offline
    BY <2>1, <2>2, PastLater
  <2>. QED  BY <2>1, <2>3 DEF AimedRefresh, Later
<1>. QED  BY <1>1, <1>2, <1>3

\* A step of one call keeps the others on track.
LEMMA TrackKept ==
  ASSUME ChainInv, Answered, Recorded, Named, Minting, NEW p \in Procs,
         Grant(p) \/ Ending(p) \/ ReplayRefreshLost(p) \/ Throw(p),
         NEW q \in Procs, q # p, OnTrack(q), Aimed(q)
  PROVE  OnTrack(q)' /\ Aimed(q)'
<1>1. /\ pc'[q] = pc[q] /\ code'[q] = code[q] /\ row'[q] = row[q]
      /\ ids'[q] = ids[q] /\ accIds'[q] = accIds[q] /\ aim'[q] = aim[q]
  BY OthersStay, OthersKeep DEF ChainInv
<1>2. Parent(q)' = Parent(q)
  BY <1>1 DEF Parent
<1>3. /\ Aimed(q)'
      /\ \A b \in AimedAccess(q)' : \E a \in AimedAccess(q) : Later(b, a) /\ b.ref = a.ref
      /\ \A s \in AimedRefresh(q)' : \E r \in AimedRefresh(q) : Later(s, r) /\ s.offline = r.offline
  BY <1>1, AimedLater
<1>4. session' => session
  BY PastLater
<1>. DEFINE A == AimedAccess(q)  B == AimedAccess(q)'
            R == AimedRefresh(q) S == AimedRefresh(q)'
<1>. HIDE DEF A, B, R, S
<1>5. /\ \A b \in B : \E a \in A : /\ b.id = a.id /\ b.code = a.code /\ b.ref = a.ref
                                   /\ a.revoked => b.revoked
                                   /\ session' \/ ~ForeignKeys => b.sess = a.sess
      /\ \A s \in S : \E r \in R : /\ s.id = r.id /\ s.code = r.code /\ s.offline = r.offline
                                   /\ r.revoked => s.revoked
                                   /\ session' \/ ~ForeignKeys => s.sess = r.sess
  BY <1>3 DEF A, B, R, S, Later
<1>6. OnTrack(q)'
  <2>1. /\ pc'[q] = "replayAccess" => \A b \in B : b.code = code'[q]
        /\ pc'[q] \in {"replayAccess", "replayRefresh"} => \A s \in S : s.code = code'[q]
        /\ pc'[q] \in {"replayRefresh", "endFamily"} => B = {}
        /\ pc'[q] = "endAccess" => \A b \in B : b.ref \in ids'[q]
    BY <1>1, <1>5 DEF OnTrack, A, R
  <2>2. /\ pc'[q] \in {"revokeSwap", "revokeAccess"} => /\ \A b \in B : b.ref \in Parent(q)'
                                                        /\ \A s \in S : s.id \in Parent(q)'
        /\ pc'[q] = "revokeAccess" => \A s \in S : s.revoked
    BY <1>1, <1>2, <1>5 DEF OnTrack, A, R
  <2>3. /\ pc'[q] \in {"plan", "planAccess"} /\ session' => \A b \in B : b.sess
        /\ pc'[q] \in {"plan", "planRefresh"} /\ session' => \A s \in S : s.sess /\ ~s.offline
    BY <1>1, <1>4, <1>5 DEF OnTrack, A, R
  <2>4. /\ (pc'[q] \in {"planRefresh", "endSession"} /\ session') \/ pc'[q] = "applyAccess" =>
             \A b \in B : b.id \in accIds'[q] \/ b.revoked \/ (~ForeignKeys /\ b.sess)
        /\ (\/ pc'[q] \in {"planAccess", "endSession"} /\ session'
            \/ pc'[q] \in {"applyAccess", "applyRefresh"}) =>
             \A s \in S : s.id \in ids'[q] \/ s.revoked
    BY <1>1, <1>4, <1>5 DEF OnTrack, A, R
  <2>5. pc'[q] = "applyRefresh" => \A b \in B : Ineffective(b)'
    BY <1>1, <1>4, <1>5 DEF OnTrack, Ineffective, A
  <2>. QED  BY <2>1, <2>2, <2>3, <2>4, <2>5 DEF OnTrack, B, S
<1>. QED  BY <1>3, <1>6

\* The steps after which a call has nothing to end, or is done.
LEMMA TrackEnds ==
  ASSUME ChainInv, Answered, Recorded, Named, Minting, NEW p \in Procs, OnTrack(p), Aimed(p),
         \/ CheckSession(p) \/ ReplayRefresh(p) \/ Refresh(p) \/ JudgeLive(p) \/ JudgeRetry(p)
         \/ JudgeReplay(p) \/ Rotate(p) \/ MintRefresh(p) \/ MintAccess(p) \/ StoreReply(p)
         \/ EndFamily(p) \/ RevokeAccess(p) \/ RevokeOpaque(p) \/ ApplyRefresh(p)
         \/ ReplayRefreshLost(p) \/ Throw(p)
  PROVE  OnTrack(p)' /\ Aimed(p)'
<1>. DEFINE Off == {"idle", "checkSession", "judge", "rotate", "mintRefresh", "mintAccess",
                    "storeReply", "listFamily"}
<1>1. CASE Finish(p)
  <2>1. pc'[p] = "idle" /\ aim'[p] = {}
    BY <1>1 DEF Finish, Goto, ChainInv, Typed, Recorded
  <2>. QED  BY <2>1 DEF OnTrack, Aimed
<1>2. ASSUME pc'[p] \in Off, aim' = aim
      PROVE  OnTrack(p)' /\ Aimed(p)'
  <2>1. OnTrack(p)'
    BY <1>2 DEF OnTrack
  <2>2. Aimed(p)'
    BY <1>2, AimedLater DEF Grant, Ending
  <2>. QED  BY <2>1, <2>2
<1>3. ASSUME NEW l \in Off, Goto(p, l)
      PROVE  pc'[p] \in Off
  BY <1>3 DEF Goto, ChainInv, Typed
<1>4. CASE \/ ReplayRefresh(p) \/ JudgeRetry(p) \/ StoreReply(p) \/ EndFamily(p) \/ RevokeAccess(p)
           \/ ApplyRefresh(p) \/ ReplayRefreshLost(p) \/ Throw(p)
  BY <1>1, <1>4 DEF ReplayRefresh, JudgeRetry, StoreReply, EndFamily, RevokeAccess, ApplyRefresh,
     ReplayRefreshLost, Throw, Ended, Answer
<1>5. CASE (CheckSession(p) \/ Rotate(p) \/ MintRefresh(p) \/ MintAccess(p)) /\ ~Finish(p)
  <2>1. aim' = aim /\ \E l \in Off : Goto(p, l)
    BY <1>5 DEF CheckSession, Rotate, MintRefresh, MintAccess
  <2>. QED  BY <1>2, <1>3, <2>1
<1>6. CASE Refresh(p) \/ JudgeLive(p) \/ JudgeReplay(p)
  <2>1. aim' = aim /\ \E l \in Off : Goto(p, l)
    BY <1>6 DEF Refresh, JudgeLive, JudgeReplay, Enter, history
  <2>. QED  BY <1>2, <1>3, <2>1
<1>7. CASE RevokeOpaque(p)
  <2>1. aim' = aim /\ pc'[p] \in Off
    BY <1>7 DEF RevokeOpaque
  <2>. QED  BY <1>2, <2>1
<1>. QED  BY <1>1, <1>4, <1>5, <1>6, <1>7

\* Bringing a code again, and what follows.
LEMMA TrackReplay ==
  ASSUME ChainInv, Answered, Recorded, Named, Minting, NEW p \in Procs, OnTrack(p), Aimed(p),
         Redeem(p) \/ ReplayAccess(p)
  PROVE  OnTrack(p)' /\ Aimed(p)'
<1>1. CASE Redeem(p) /\ aim' = aim /\ Goto(p, "checkSession")
  <2>1. pc'[p] = "checkSession"
    BY <1>1 DEF Goto, ChainInv, Typed
  <2>2. OnTrack(p)'
    BY <2>1 DEF OnTrack
  <2>. QED  BY <1>1, <2>2, AimedLater DEF Grant
<1>2. CASE Redeem(p) /\ ~(aim' = aim /\ Goto(p, "checkSession"))
  <2>1. PICK c \in Codes :
          /\ code' = [code EXCEPT ![p] = c] /\ Goto(p, "replayAccess")
          /\ aim' = [aim EXCEPT ![p] = Kinds \X {x.tok : x \in {y \in told : y.code = c}}]
    BY <1>2 DEF Redeem, Enter
  <2>2. /\ UNCHANGED <<access, refresh>> /\ code'[p] = c /\ pc'[p] = "replayAccess"
        /\ aim'[p] = Kinds \X {x.tok : x \in {y \in told : y.code = c}}
    BY <1>2, <2>1 DEF Redeem, Goto, ChainInv, Typed, Recorded
  <2>3. ASSUME NEW k, NEW t, <<k, t>> \in aim'[p]
        PROVE  \E x \in told : x.tok = t /\ x.code = c
    BY <2>2, <2>3
  <2>4. \A b \in AimedAccess(p)' : b.code = c
    BY <2>2, <2>3 DEF AimedAccess, Named
  <2>5. \A s \in AimedRefresh(p)' : s.code = c
    BY <2>2, <2>3 DEF AimedRefresh, Named
  <2>6. OnTrack(p)'
    BY <2>2, <2>4, <2>5 DEF OnTrack
  <2>7. \A y \in aim'[p] : \E x \in told : x.tok = y[2]
    BY <2>2
  <2>8. \A x \in told : x.tok \in Nat /\ Past(x.tok)
    BY DEF Named, Recorded
  <2>9. \A t \in Nat : Past(t) => Past(t)'
    BY <1>2, Onward DEF Grant
  <2>10. \A y \in aim'[p] : Past(y[2])'
    BY <2>7, <2>8, <2>9
  <2>. QED  BY <2>6, <2>10 DEF Aimed
<1>3. CASE ReplayAccess(p)
  <2>1. /\ refresh' = refresh /\ code' = code /\ pc[p] = "replayAccess" /\ pc'[p] = "replayRefresh"
        /\ \/ access' = {a \in access : a.code # code[p]} /\ aim'[p] = aim[p]
           \/ access' = access /\ aim'[p] = {x \in aim[p] : x[1] # "access"}
    BY <1>3 DEF ReplayAccess, Goto, local, ChainInv, Typed, Recorded
  <2>2. aim'[p] \subseteq aim[p]
    BY <2>1
  <2>3. AimedRefresh(p)' \subseteq AimedRefresh(p)
    BY <2>1, <2>2 DEF AimedRefresh
  <2>4. AimedAccess(p)' = {}
    <3>. SUFFICES ASSUME NEW b \in access', <<"access", b.id>> \in aim'[p] PROVE FALSE
      BY DEF AimedAccess
    <3>1. CASE access' = {a \in access : a.code # code[p]}
      <4>1. b \in AimedAccess(p) /\ b.code # code[p]
        BY <2>2, <3>1 DEF AimedAccess
      <4>. QED  BY <2>1, <4>1 DEF OnTrack
    <3>2. CASE aim'[p] = {x \in aim[p] : x[1] # "access"}
      BY <3>2
    <3>. QED  BY <2>1, <3>1, <3>2
  <2>5. \A s \in AimedRefresh(p)' : s.code = code'[p]
    BY <2>1, <2>3 DEF OnTrack
  <2>6. OnTrack(p)'
    BY <2>1, <2>4, <2>5 DEF OnTrack
  <2>. QED  BY <1>3, <2>2, <2>6, AimedLater DEF Grant
<1>. QED  BY <1>1, <1>2, <1>3

\* The end of a family.
LEMMA TrackFamily ==
  ASSUME ChainInv, Answered, Recorded, Named, Minting, NEW p \in Procs, OnTrack(p), Aimed(p),
         ListFamily(p) \/ EndAccess(p)
  PROVE  OnTrack(p)' /\ Aimed(p)'
<1>1. CASE ListFamily(p)
  <2>. DEFINE F == {a \in access : a.ref \in Ids(refresh)}
  <2>1. /\ UNCHANGED <<access, refresh>> /\ pc'[p] = "endAccess" /\ ids'[p] = Ids(refresh)
        /\ aim'[p] = ({"refresh"} \X Known) \cup ({"access"} \X Ids(F))
    BY <1>1 DEF ListFamily, Goto, store, ChainInv, Typed, Recorded
  <2>2. \A t : <<"access", t>> \in aim'[p] => \E a \in F : a.id = t
    BY <2>1 DEF Ids
  <2>3. \A b \in AimedAccess(p)' : b.ref \in ids'[p]
    BY <2>1, <2>2 DEF AimedAccess, Named
  <2>4. OnTrack(p)'
    BY <2>1, <2>3 DEF OnTrack
  <2>5. \A t \in Known : t \in Nat /\ Past(t)
    BY DEF Known, Named, Recorded
  <2>6. \A a \in access : a.id \in Nat /\ Past(a.id)
    <3>1. \A a \in access : a \in AccessToken
      BY DEF Recorded
    <3>. QED  BY <3>1 DEF AccessToken, Named, Minting, Past
  <2>7. \A t \in Nat : Past(t) => Past(t)'
    BY <1>1, Onward DEF Ending
  <2>8. \A y \in aim'[p] : y[2] \in Known \/ \E a \in access : a.id = y[2]
    BY <2>1 DEF Ids
  <2>9. \A y \in aim'[p] : Past(y[2])'
    BY <2>5, <2>6, <2>7, <2>8
  <2>. QED  BY <2>4, <2>9 DEF Aimed
<1>2. CASE EndAccess(p)
  <2>1. /\ pc[p] = "endAccess" /\ pc'[p] = "endFamily" /\ aim' = aim
        /\ access' = {a \in access : a.ref \notin ids[p]}
    BY <1>2 DEF EndAccess, Goto, history, ChainInv, Typed
  <2>2. AimedAccess(p)' = {}
    BY <2>1 DEF AimedAccess, OnTrack
  <2>3. OnTrack(p)'
    BY <2>1, <2>2 DEF OnTrack
  <2>. QED  BY <1>2, <2>1, <2>3, AimedLater DEF Ending
<1>. QED  BY <1>1, <1>2

\* The revocation of a refresh token.
LEMMA TrackRevoke ==
  ASSUME ChainInv, Answered, Recorded, Named, Minting, NEW p \in Procs, OnTrack(p), Aimed(p),
         Revoke(p) \/ RevokeSwap(p)
  PROVE  OnTrack(p)' /\ Aimed(p)'
<1>1. CASE Revoke(p)
  <2>1. PICK r \in refresh :
          /\ r.id \in Known /\ row' = [row EXCEPT ![p] = {r}]
          /\ aim' = [aim EXCEPT ![p] = Kinds \X {r.id}]
          /\ \E l \in {"listFamily", "revokeSwap"} : Goto(p, l)
    BY <1>1 DEF Revoke, Enter
  <2>2. /\ UNCHANGED <<access, refresh>> /\ row'[p] = {r} /\ pc'[p] \in {"listFamily", "revokeSwap"}
        /\ aim'[p] = Kinds \X {r.id}
    BY <1>1, <2>1 DEF Revoke, Goto, store, ChainInv, Typed, Recorded
  <2>3. Parent(p)' = {r.id}
    BY <2>2 DEF Parent, Ids
  <2>4. \A b \in AimedAccess(p)' : b.ref \in Parent(p)'
    BY <2>2, <2>3 DEF AimedAccess, Named
  <2>5. \A s \in AimedRefresh(p)' : s.id \in Parent(p)'
    BY <2>2, <2>3 DEF AimedRefresh
  <2>6. OnTrack(p)'
    BY <2>2, <2>4, <2>5 DEF OnTrack
  <2>7. r.id \in Nat /\ Past(r.id)
    BY <2>1 DEF Known, Named, Recorded
  <2>8. Past(r.id)'
    BY <1>1, <2>7, Onward DEF Ending
  <2>9. \A y \in aim'[p] : y[2] = r.id
    BY <2>2
  <2>10. \A y \in aim'[p] : Past(y[2])'
    BY <2>8, <2>9
  <2>. QED  BY <2>6, <2>10 DEF Aimed
<1>2. CASE RevokeSwap(p)
  <2>1. /\ pc[p] = "revokeSwap" /\ pc'[p] \in {"listFamily", "revokeAccess"} /\ aim' = aim
        /\ row' = row /\ access' = access
        /\ \A s \in refresh' : \E r \in refresh : s = IF r \in Rotatable(p)
                                                      THEN [r EXCEPT !.revoked = TRUE] ELSE r
    BY <1>2 DEF RevokeSwap, Goto, history, local, ChainInv, Typed
  <2>2. Parent(p)' = Parent(p)
    BY <2>1 DEF Parent
  <2>3. \A b \in AimedAccess(p)' : b.ref \in Parent(p)'
    BY <2>1, <2>2 DEF AimedAccess, OnTrack
  <2>4. ASSUME NEW s \in AimedRefresh(p)'
        PROVE  s.id \in Parent(p)' /\ s.revoked
    <3>1. s \in refresh' /\ <<"refresh", s.id>> \in aim[p]
      BY <2>1, <2>4 DEF AimedRefresh
    <3>2. PICK r \in refresh : s = IF r \in Rotatable(p) THEN [r EXCEPT !.revoked = TRUE] ELSE r
      BY <2>1, <3>1
    <3>3. s.id = r.id /\ (r.revoked \/ r \in Rotatable(p) => s.revoked)
      BY <3>2 DEF ChainInv, Typed, Token
    <3>4. r.id \in Parent(p)
      BY <2>1, <3>1, <3>3 DEF AimedRefresh, OnTrack
    <3>. QED  BY <2>2, <3>3, <3>4 DEF Rotatable
  <2>5. OnTrack(p)'
    BY <2>1, <2>3, <2>4 DEF OnTrack
  <2>. QED  BY <1>2, <2>1, <2>5, AimedLater DEF Ending
<1>. QED  BY <1>1, <1>2

\* A failure while the session's tokens are listed and revoked is noticed, or they need no
\* revocation: they name the session that is gone, and no refresh token is without offline_access.
Heeded == "signOut" \in Ops /\ "swallow" \in Faults => ~ForeignKeys /\ ~Narrowing

\* The end of the session.
LEMMA TrackSignOut ==
  ASSUME ChainInv, Answered, Recorded, Named, Minting, NEW p \in Procs, OnTrack(p), Aimed(p),
         Leaving(p), Heeded,
         \/ SignOut(p) \/ PlanAccess(p) \/ PlanRefresh(p) \/ PlanLost(p) \/ EndSession(p) \/ ApplyAccess(p)
  PROVE  OnTrack(p)' /\ Aimed(p)'
<1>1. CASE SignOut(p)
  <2>. DEFINE A == {x \in access : x.sess /\ x.id \in Known}
              R == {x \in refresh : x.sess /\ x.id \in Known /\ ~x.offline}
  <2>1. /\ UNCHANGED <<session, access, refresh>> /\ pc'[p] = "plan"
        /\ aim'[p] = ({"access"} \X {a.id : a \in A}) \cup ({"refresh"} \X {r.id : r \in R})
    BY <1>1 DEF SignOut, Enter, Goto, store, ChainInv, Typed, Recorded
  <2>2. /\ \A t : <<"access", t>> \in aim'[p] => \E a \in A : a.id = t
        /\ \A t : <<"refresh", t>> \in aim'[p] => \E r \in R : r.id = t
    BY <2>1
  <2>3. \A b \in AimedAccess(p)' : b.sess
    BY <2>1, <2>2 DEF AimedAccess, Named
  <2>4. \A s \in AimedRefresh(p)' : s.sess /\ ~s.offline
    BY <2>1, <2>2 DEF AimedRefresh, ChainInv, Consistent
  <2>5. OnTrack(p)'
    BY <2>1, <2>3, <2>4 DEF OnTrack
  <2>6. \A t \in Known : t \in Nat /\ Past(t)
    BY DEF Known, Named, Recorded
  <2>7. \A t \in Nat : Past(t) => Past(t)'
    BY <1>1, Onward DEF Ending
  <2>8. \A y \in aim'[p] : y[2] \in Known
    BY <2>1
  <2>9. \A y \in aim'[p] : Past(y[2])'
    BY <2>6, <2>7, <2>8
  <2>. QED  BY <2>5, <2>9 DEF Aimed
<1>2. CASE PlanAccess(p)
  <2>1. /\ UNCHANGED <<session, access, refresh, aim, ids>> /\ pc[p] \in {"plan", "planAccess"}
        /\ pc'[p] = (IF pc[p] = "plan" THEN "planRefresh" ELSE "endSession")
        /\ accIds'[p] = Ids({a \in access : a.sess /\ ~a.revoked})
    BY <1>2 DEF PlanAccess, Goto, store, history, ChainInv, Typed, Recorded
  <2>2. AimedAccess(p)' = AimedAccess(p) /\ AimedRefresh(p)' = AimedRefresh(p)
    BY <2>1 DEF AimedAccess, AimedRefresh
  <2>3. session => \A a \in AimedAccess(p) : a \in access /\ a.sess
    BY <2>1 DEF AimedAccess, OnTrack
  <2>4. session => \A a \in AimedAccess(p) : a.id \in accIds'[p] \/ a.revoked
    BY <2>1, <2>3 DEF Ids
  <2>5. OnTrack(p)'
    <3>1. CASE pc[p] = "plan"
      <4>1. session => \A r \in AimedRefresh(p) : r.sess /\ ~r.offline
        BY <3>1 DEF OnTrack
      <4>2. pc'[p] = "planRefresh"
        BY <2>1, <3>1
      <4>. QED  BY <2>1, <2>2, <2>4, <4>1, <4>2 DEF OnTrack
    <3>2. CASE pc[p] = "planAccess"
      <4>1. session => \A r \in AimedRefresh(p) : r.id \in ids'[p] \/ r.revoked
        BY <2>1, <3>2 DEF OnTrack
      <4>2. pc'[p] = "endSession"
        BY <2>1, <3>2
      <4>. QED  BY <2>1, <2>2, <2>4, <4>1, <4>2 DEF OnTrack
    <3>. QED  BY <2>1, <3>1, <3>2
  <2>. QED  BY <1>2, <2>1, <2>5, AimedLater DEF Ending
<1>3. CASE PlanRefresh(p)
  <2>1. /\ UNCHANGED <<session, access, refresh, aim, accIds>> /\ pc[p] \in {"plan", "planRefresh"}
        /\ pc'[p] = (IF pc[p] = "plan" THEN "planAccess" ELSE "endSession")
        /\ ids'[p] = Ids({r \in refresh : r.sess /\ ~r.revoked /\ ~r.offline})
    BY <1>3 DEF PlanRefresh, Goto, store, history, ChainInv, Typed, Recorded
  <2>2. AimedAccess(p)' = AimedAccess(p) /\ AimedRefresh(p)' = AimedRefresh(p)
    BY <2>1 DEF AimedAccess, AimedRefresh
  <2>3. session => \A r \in AimedRefresh(p) : r \in refresh /\ r.sess /\ ~r.offline
    BY <2>1 DEF AimedRefresh, OnTrack
  <2>4. session => \A r \in AimedRefresh(p) : r.id \in ids'[p] \/ r.revoked
    BY <2>1, <2>3 DEF Ids
  <2>5. OnTrack(p)'
    <3>1. CASE pc[p] = "plan"
      <4>1. session => \A a \in AimedAccess(p) : a.sess
        BY <3>1 DEF OnTrack
      <4>2. pc'[p] = "planAccess"
        BY <2>1, <3>1
      <4>. QED  BY <2>1, <2>2, <2>4, <4>1, <4>2 DEF OnTrack
    <3>2. CASE pc[p] = "planRefresh"
      <4>1. session => \A a \in AimedAccess(p) :
                         a.id \in accIds'[p] \/ a.revoked \/ (~ForeignKeys /\ a.sess)
        BY <2>1, <3>2 DEF OnTrack
      <4>2. pc'[p] = "endSession"
        BY <2>1, <3>2
      <4>. QED  BY <2>1, <2>2, <2>4, <4>1, <4>2 DEF OnTrack
    <3>. QED  BY <2>1, <3>1, <3>2
  <2>. QED  BY <1>3, <2>1, <2>5, AimedLater DEF Ending
<1>6. CASE PlanLost(p)
  <2>1. /\ UNCHANGED <<session, access, refresh, aim>> /\ pc'[p] = "endSession"
        /\ pc[p] \in SigningOut \ {"applyRefresh"}
    BY <1>6 DEF PlanLost, Goto, store, history, ChainInv, Typed, SigningOut
  <2>2. AimedAccess(p)' = AimedAccess(p) /\ AimedRefresh(p)' = AimedRefresh(p)
    BY <2>1 DEF AimedAccess, AimedRefresh
  <2>3. ~ForeignKeys /\ ~Narrowing
    BY <1>6, <2>1 DEF PlanLost, Heeded, Recorded
  <2>4. AimedRefresh(p) = {} /\ \A a \in AimedAccess(p) : ~ForeignKeys /\ a.sess
    BY <2>1, <2>3 DEF Leaving
  <2>5. OnTrack(p)'
    BY <2>1, <2>2, <2>4 DEF OnTrack
  <2>. QED  BY <1>6, <2>1, <2>5, AimedLater DEF Ending
<1>4. CASE EndSession(p)
  <2>1. /\ session' = FALSE /\ UNCHANGED <<accIds, ids>> /\ pc[p] = "endSession"
        /\ pc'[p] = "applyAccess" /\ aim'[p] = IF session THEN aim[p] ELSE {}
    BY <1>4 DEF EndSession, Goto, local, ChainInv, Typed, Recorded
  <2>2. CASE session
    <3>1. aim'[p] \subseteq aim[p]
      BY <2>1, <2>2
    <3>2. /\ Aimed(p)'
          /\ \A b \in AimedAccess(p)' : \E a \in AimedAccess(p) : Later(b, a) /\ b.ref = a.ref
          /\ \A s \in AimedRefresh(p)' : \E r \in AimedRefresh(p) : Later(s, r) /\ s.offline = r.offline
      BY <1>4, <3>1, AimedLater DEF Ending
    <3>3. /\ \A b \in AimedAccess(p)' :
               b.id \in accIds'[p] \/ b.revoked \/ (~ForeignKeys /\ b.sess)
          /\ \A s \in AimedRefresh(p)' : s.id \in ids'[p] \/ s.revoked
      BY <2>1, <2>2, <3>2 DEF OnTrack, Later
    <3>4. OnTrack(p)'
      BY <2>1, <3>3 DEF OnTrack
    <3>. QED  BY <3>2, <3>4
  <2>3. CASE ~session
    <3>1. AimedAccess(p)' = {} /\ AimedRefresh(p)' = {} /\ Aimed(p)'
      BY <2>1, <2>3 DEF AimedAccess, AimedRefresh, Aimed
    <3>2. OnTrack(p)'
      BY <2>1, <3>1 DEF OnTrack
    <3>. QED  BY <3>1, <3>2
  <2>. QED  BY <2>2, <2>3
<1>5. CASE ApplyAccess(p)
  <2>1. /\ UNCHANGED <<session, refresh, aim, ids>> /\ pc[p] = "applyAccess"
        /\ pc'[p] = "applyRefresh"
    BY <1>5 DEF ApplyAccess, Goto, local, history, ChainInv, Typed
  <2>2. AimedRefresh(p)' = AimedRefresh(p)
    BY <2>1 DEF AimedRefresh
  <2>3. \A s \in AimedRefresh(p)' : s.id \in ids'[p] \/ s.revoked
    BY <2>1, <2>2 DEF OnTrack
  <2>4. ASSUME NEW b \in AimedAccess(p)'
        PROVE  Ineffective(b)'
    <3>1. b \in access' /\ <<"access", b.id>> \in aim[p]
      BY <2>1, <2>4 DEF AimedAccess
    <3>2. CASE access' = {IF a.id \in accIds[p] THEN [a EXCEPT !.revoked = TRUE] ELSE a : a \in access}
      <4>1. PICK a \in access : b = IF a.id \in accIds[p] THEN [a EXCEPT !.revoked = TRUE] ELSE a
        BY <3>1, <3>2
      <4>2. b.id = a.id /\ b.sess = a.sess /\ (a.revoked \/ a.id \in accIds[p] => b.revoked)
        BY <4>1 DEF Recorded, AccessToken
      <4>3. a.id \in accIds[p] \/ a.revoked \/ (~ForeignKeys /\ a.sess)
        BY <2>1, <3>1, <4>2 DEF AimedAccess, OnTrack
      <4>4. ~session'
        BY <2>1 DEF Leaving
      <4>. QED  BY <4>2, <4>3, <4>4 DEF Ineffective
    <3>3. CASE "swallow" \in Faults /\ access' = access
      <4>1. ~ForeignKeys
        BY <2>1, <3>3 DEF Heeded, Recorded, SigningOut
      <4>2. b.sess
        BY <2>1, <3>1, <3>3, <4>1 DEF AimedAccess, Leaving, SigningOut
      <4>. QED  BY <2>1, <4>1, <4>2 DEF Leaving, Ineffective
    <3>. QED  BY <1>5, <3>2, <3>3 DEF ApplyAccess, Planned
  <2>5. OnTrack(p)'
    BY <2>1, <2>3, <2>4 DEF OnTrack
  <2>. QED  BY <1>5, <2>1, <2>5, AimedLater DEF Ending
<1>. QED  BY <1>1, <1>2, <1>3, <1>4, <1>5, <1>6

\* What a call that is done was meant to end has ended.
LEMMA DeadStep ==
  ASSUME ChainInv, Answered, Recorded, Named, Minting, DeadEnded,
         NEW p \in Procs, OnTrack(p), Aimed(p), Leaving(p), Heeded,
         Grant(p) \/ Ending(p) \/ ReplayRefreshLost(p) \/ Throw(p)
  PROVE  DeadEnded'
<1>. DEFINE Over(x) == /\ Past(x[2])'
                       /\ x[1] = "refresh" => \A s \in refresh' : s.id = x[2] => s.revoked
                       /\ x[1] = "access" => \A b \in access' : b.id = x[2] => Ineffective(b)'
<1>0. \A t \in Nat : Past(t) => Past(t)'
  BY Onward
<1>1. ASSUME NEW x \in dead PROVE Over(x)
  <2>1. /\ x[2] \in Nat /\ Past(x[2])
        /\ x[1] = "refresh" => EndedRefresh(x[2])
        /\ x[1] = "access" => EndedAccess(x[2])
    BY DEF Recorded, DeadEnded
  <2>2. Past(x[2])'
    BY <1>0, <2>1
  <2>3. ASSUME x[1] = "refresh", NEW s \in refresh', s.id = x[2] PROVE s.revoked
    <3>1. PICK r \in refresh : Later(s, r)
      BY <2>1, <2>3, PastLater
    <3>. QED  BY <2>1, <2>3, <3>1 DEF Later, EndedRefresh
  <2>4. ASSUME x[1] = "access", NEW b \in access', b.id = x[2] PROVE Ineffective(b)'
    <3>1. session' => session
      BY PastLater
    <3>2. PICK a \in access : Later(b, a)
      BY <2>1, <2>4, PastLater
    <3>. QED  BY <2>1, <2>4, <3>1, <3>2 DEF Later, EndedAccess, Ineffective
  <2>. QED  BY <2>2, <2>3, <2>4
<1>2. ASSUME NEW X, X \subseteq aim[p], dead' = dead \cup X,
             \A s \in refresh' : <<"refresh", s.id>> \in X => s.revoked,
             \A b \in access' : <<"access", b.id>> \in X => Ineffective(b)'
      PROVE  DeadEnded'
  <2>1. ASSUME NEW x \in X PROVE Over(x)
    <3>1. x \in Kinds \X Nat /\ Past(x[2])
      BY <1>2, <2>1 DEF Recorded, Aimed
    <3>2. Past(x[2])' /\ x = <<x[1], x[2]>>
      BY <1>0, <3>1
    <3>. QED  BY <1>2, <2>1, <3>2
  <2>2. \A x \in dead' : Over(x)
    BY <1>1, <1>2, <2>1
  <2>. QED  BY <2>2 DEF DeadEnded, EndedRefresh, EndedAccess
<1>3. CASE dead' = dead
  BY <1>1, <1>3 DEF DeadEnded, EndedRefresh, EndedAccess
<1>4. CASE ReplayRefresh(p)
  <2>1. /\ pc[p] = "replayRefresh" /\ dead' = dead \cup aim[p] /\ access' \subseteq access
        /\ refresh' = {r \in refresh : r.code # code[p]}
    BY <1>4 DEF ReplayRefresh, DeleteRefresh, Ended
  <2>2. \A s \in refresh' : <<"refresh", s.id>> \notin aim[p]
    BY <2>1 DEF OnTrack, AimedRefresh
  <2>3. \A b \in access' : <<"access", b.id>> \notin aim[p]
    BY <2>1 DEF OnTrack, AimedAccess
  <2>. QED  BY <1>2, <2>1, <2>2, <2>3
<1>5. CASE ReplayRefreshLost(p)
  <2>1. PICK X : X = {x \in aim[p] : x[1] # "refresh"}
    OBVIOUS
  <2>2. pc[p] = "replayRefresh" /\ dead' = dead \cup X /\ access' = access
    BY <1>5, <2>1 DEF ReplayRefreshLost, store
  <2>3. \A s \in refresh' : <<"refresh", s.id>> \notin X
    BY <2>1
  <2>4. \A b \in access' : <<"access", b.id>> \notin X
    BY <2>1, <2>2 DEF OnTrack, AimedAccess
  <2>. QED  BY <1>2, <2>1, <2>2, <2>3, <2>4
<1>6. CASE EndFamily(p)
  <2>1. /\ pc[p] = "endFamily" /\ dead' = dead \cup aim[p] /\ access' \subseteq access
        /\ refresh' = {}
    BY <1>6 DEF EndFamily, DeleteRefresh, Family, Ended
  <2>2. \A b \in access' : <<"access", b.id>> \notin aim[p]
    BY <2>1 DEF OnTrack, AimedAccess
  <2>. QED  BY <1>2, <2>1, <2>2
<1>7. CASE RevokeAccess(p)
  <2>1. /\ pc[p] = "revokeAccess" /\ dead' = dead \cup aim[p] /\ refresh' = refresh
        /\ access' = {a \in access : a.ref \notin Parent(p)}
    BY <1>7 DEF RevokeAccess, Ended
  <2>2. \A s \in refresh' : <<"refresh", s.id>> \in aim[p] => s.revoked
    BY <2>1 DEF OnTrack, AimedRefresh
  <2>3. \A b \in access' : <<"access", b.id>> \notin aim[p]
    BY <2>1 DEF OnTrack, AimedAccess
  <2>. QED  BY <1>2, <2>1, <2>2, <2>3
<1>8. CASE ApplyRefresh(p)
  <2>1. /\ pc[p] = "applyRefresh" /\ dead' = dead \cup aim[p] /\ UNCHANGED <<access, session>>
    BY <1>8 DEF ApplyRefresh, Ended
  <2>2. ASSUME NEW s \in refresh', <<"refresh", s.id>> \in aim[p]
        PROVE  s.revoked
    <3>1. CASE refresh' = {IF r.id \in ids[p] THEN [r EXCEPT !.revoked = TRUE] ELSE r : r \in refresh}
      <4>1. PICK r \in refresh : s = IF r.id \in ids[p] THEN [r EXCEPT !.revoked = TRUE] ELSE r
        BY <2>2, <3>1
      <4>2. s.id = r.id /\ (r.revoked \/ r.id \in ids[p] => s.revoked)
        BY <4>1 DEF ChainInv, Typed, Token
      <4>. QED  BY <2>1, <2>2, <4>2 DEF OnTrack, AimedRefresh
    <3>2. CASE "swallow" \in Faults /\ refresh' = refresh
      <4>1. pc[p] \in SigningOut
        BY <2>1 DEF SigningOut
      <4>2. AimedRefresh(p) = {}
        BY <3>2, <4>1 DEF Heeded, Recorded, Leaving
      <4>. QED  BY <2>2, <3>2, <4>2 DEF AimedRefresh
    <3>. QED  BY <1>8, <3>1, <3>2 DEF ApplyRefresh
  <2>3. \A b \in access' : <<"access", b.id>> \in aim[p] => Ineffective(b)'
    BY <2>1 DEF OnTrack, AimedAccess, Ineffective
  <2>. QED  BY <1>2, <2>1, <2>2, <2>3
<1>9. CASE RevokeOpaque(p)
  <2>1. PICK a \in access : /\ a.id \in Known /\ access' = access \ {a}
                            /\ dead' = dead \cup {<<"access", a.id>>}
    BY <1>9 DEF RevokeOpaque
  <2>2. Past(a.id)'
    BY <1>0, <2>1 DEF Known, Named, Recorded
  <2>3. \A b \in access' : b.id # a.id
    BY <2>1 DEF Named
  <2>4. PICK y : y = <<"access", a.id>>
    OBVIOUS
  <2>5. y[1] = "access" /\ y[2] = a.id
    BY <2>4
  <2>6. Over(y)
    BY <2>2, <2>3, <2>5
  <2>7. \A x \in dead' : Over(x)
    BY <1>1, <2>1, <2>4, <2>6
  <2>. QED  BY <2>7 DEF DeadEnded, EndedRefresh, EndedAccess
<1>10. CASE Grant(p) /\ ~ReplayRefresh(p)
  <2>1. dead' = dead
    BY <1>10 DEF Grant, Redeem, CheckSession, ReplayAccess, Refresh, JudgeLive, JudgeRetry,
       JudgeReplay, Rotate, MintRefresh, MintAccess, StoreReply, history
  <2>. QED  BY <1>3, <2>1
<1>11. CASE \/ ListFamily(p) \/ EndAccess(p) \/ Revoke(p) \/ RevokeSwap(p) \/ SignOut(p)
            \/ PlanAccess(p) \/ PlanRefresh(p) \/ PlanLost(p) \/ EndSession(p) \/ ApplyAccess(p) \/ Throw(p)
  <2>1. dead' = dead
    BY <1>11 DEF ListFamily, EndAccess, Revoke, RevokeSwap, SignOut, PlanAccess, PlanRefresh, PlanLost,
       EndSession, ApplyAccess, Throw, history
  <2>. QED  BY <1>3, <2>1
<1>. QED  BY <1>4, <1>5, <1>6, <1>7, <1>8, <1>9, <1>10, <1>11 DEF Ending

\* What tokens a call asks for is settled by its own steps.
LEMMA ScopeStep ==
  ASSUME ChainInv, NEW p \in Procs, AllOffline, ~Narrowing,
         Grant(p) \/ Ending(p) \/ ReplayRefreshLost(p) \/ Throw(p)
  PROVE  /\ \A q \in Procs \ {p} : scope'[q] = scope[q]
         /\ pc'[p] \in {"checkSession", "judge", "rotate", "mintRefresh"} => scope'[p]
<1>. USE DEF ChainInv, Typed
<1>. DEFINE Asking == {"checkSession", "judge", "rotate", "mintRefresh"}
<1>1. CASE Finish(p)
  BY <1>1 DEF Finish, Goto
<1>2. CASE scope' = scope /\ (pc[p] \in Asking \/ pc'[p] \notin Asking)
  BY <1>2 DEF AllOffline
<1>3. CASE Redeem(p)
  <2>1. scope' = [scope EXCEPT ![p] = TRUE]
    BY <1>3 DEF Redeem
  <2>. QED  BY <2>1
<1>4. CASE Refresh(p)
  <2>1. PICK r \in refresh :
          \E offline \in {r.offline} \cup {r.offline /\ ~Narrowing} :
            scope' = [scope EXCEPT ![p] = offline]
    BY <1>4 DEF Refresh
  <2>2. r.offline = TRUE
    BY DEF AllOffline, Token
  <2>3. scope' = [scope EXCEPT ![p] = TRUE]
    BY <2>1, <2>2
  <2>. QED  BY <2>3
<1>5. CASE (CheckSession(p) \/ Rotate(p) \/ MintRefresh(p) \/ MintAccess(p)) /\ ~Finish(p)
  <2>1. /\ scope' = scope /\ pc[p] \in Asking \cup {"mintAccess"}
        /\ pc[p] = "mintAccess" => Goto(p, "storeReply")
    BY <1>5 DEF CheckSession, Rotate, MintRefresh, MintAccess, local
  <2>. QED  BY <1>2, <2>1 DEF Goto
<1>6. CASE \/ ReplayRefresh(p) \/ JudgeRetry(p) \/ StoreReply(p) \/ EndFamily(p) \/ RevokeAccess(p)
           \/ ApplyRefresh(p) \/ ReplayRefreshLost(p) \/ Throw(p)
  BY <1>1, <1>6 DEF ReplayRefresh, JudgeRetry, StoreReply, EndFamily, RevokeAccess,
     ApplyRefresh, ReplayRefreshLost, Throw, Ended, Answer
<1>7. CASE JudgeLive(p) \/ JudgeReplay(p)
  <2>1. scope' = scope /\ pc[p] = "judge"
    BY <1>7 DEF JudgeLive, JudgeReplay, local
  <2>. QED  BY <1>2, <2>1
<1>8. CASE ReplayAccess(p) \/ ListFamily(p) \/ EndAccess(p) \/ Revoke(p) \/ RevokeSwap(p)
  <2>1. scope' = scope /\ \E l \in Labels \ Asking : Goto(p, l)
    BY <1>8 DEF ReplayAccess, ListFamily, EndAccess, Revoke, RevokeSwap, Enter, local, Labels
  <2>. QED  BY <1>2, <2>1 DEF Goto
<1>9. CASE SignOut(p) \/ PlanAccess(p) \/ PlanRefresh(p) \/ PlanLost(p) \/ EndSession(p) \/ ApplyAccess(p)
  <2>1. scope' = scope /\ \E l \in Labels \ Asking : Goto(p, l)
    BY <1>9 DEF SignOut, PlanAccess, PlanRefresh, PlanLost, EndSession, ApplyAccess, Enter, local, Labels
  <2>. QED  BY <1>2, <2>1 DEF Goto
<1>10. CASE RevokeOpaque(p)
  <2>1. UNCHANGED <<scope, pc>>
    BY <1>10 DEF RevokeOpaque, local
  <2>. QED  BY <2>1 DEF AllOffline
<1>. QED  BY <1>1, <1>3, <1>4, <1>5, <1>6, <1>7, <1>8, <1>9, <1>10 DEF Grant, Ending

\* Where no client drops offline_access, every refresh token has it.
LEMMA OfflineStep ==
  ASSUME ChainInv, NEW p \in Procs, AllOffline,
         Grant(p) \/ Ending(p) \/ ReplayRefreshLost(p) \/ Throw(p)
  PROVE  AllOffline'
<1>. SUFFICES ASSUME ~Narrowing
              PROVE  /\ \A r \in refresh' : r.offline
                     /\ \A q \in Procs :
                          pc'[q] \in {"checkSession", "judge", "rotate", "mintRefresh"} => scope'[q]
  BY DEF AllOffline
<1>1. \A r \in refresh' : r.offline
  <2>1. CASE MintRefresh(p)
    <3>1. scope[p] /\ \A r \in refresh : r.offline
      BY <2>1 DEF MintRefresh, AllOffline
    <3>2. \A s \in refresh' : s \in refresh \/ s.offline = scope[p]
      BY <2>1, RefreshMinted
    <3>. QED  BY <3>1, <3>2
  <2>2. CASE ~MintRefresh(p)
    BY <2>2, RefreshKept DEF AllOffline
  <2>. QED  BY <2>1, <2>2
<1>2. \A q \in Procs \ {p} : pc'[q] = pc[q] /\ scope'[q] = scope[q]
  BY OthersStay, ScopeStep DEF ChainInv
<1>. QED  BY <1>1, <1>2, ScopeStep DEF AllOffline

\* A call on its way out keeps what it can rely on.
LEMMA LeavingStep ==
  ASSUME ChainInv, Answered, Recorded, Named, Minting, AllOffline, NEW p \in Procs,
         Grant(p) \/ Ending(p) \/ ReplayRefreshLost(p) \/ Throw(p),
         NEW q \in Procs, OnTrack(q), Aimed(q), Leaving(q)
  PROVE  Leaving(q)'
<1>0. session' => session
  BY PastLater
<1>1. ASSUME aim'[q] \subseteq aim[q]
      PROVE  /\ ~ForeignKeys /\ (\A a \in AimedAccess(q) : a.sess)
                   => \A b \in AimedAccess(q)' : b.sess
             /\ AimedRefresh(q) = {} => AimedRefresh(q)' = {}
  BY <1>1, AimedLater DEF Later
<1>2. CASE q # p
  <2>1. pc'[q] = pc[q] /\ aim'[q] = aim[q]
    BY <1>2, OthersStay, OthersKeep DEF ChainInv
  <2>. QED  BY <1>0, <1>1, <2>1 DEF Leaving
<1>3. CASE q = p /\ SignOut(p)
  <2>. DEFINE A == {x \in access : x.sess /\ x.id \in Known}
              R == {x \in refresh : x.sess /\ x.id \in Known /\ ~x.offline}
  <2>1. /\ UNCHANGED <<access, refresh>> /\ pc'[p] = "plan"
        /\ aim'[p] = ({"access"} \X {a.id : a \in A}) \cup ({"refresh"} \X {r.id : r \in R})
    BY <1>3 DEF SignOut, Enter, Goto, store, ChainInv, Typed, Recorded
  <2>2. /\ \A t : <<"access", t>> \in aim'[p] => \E a \in A : a.id = t
        /\ \A t : <<"refresh", t>> \in aim'[p] => \E r \in R : r.id = t
    BY <2>1
  <2>3. \A b \in AimedAccess(p)' : b.sess
    BY <2>1, <2>2 DEF AimedAccess, Named
  <2>4. ~Narrowing => AimedRefresh(p)' = {}
    BY <2>1, <2>2 DEF AimedRefresh, AllOffline
  <2>. QED  BY <1>3, <2>1, <2>3, <2>4 DEF Leaving
<1>4. CASE q = p /\ (PlanAccess(p) \/ PlanRefresh(p) \/ PlanLost(p) \/ EndSession(p) \/ ApplyAccess(p))
  <2>1. /\ pc[p] \in {"plan", "planAccess", "planRefresh", "endSession", "applyAccess"}
        /\ \/ pc'[p] \in {"planAccess", "planRefresh", "endSession"}
           \/ pc'[p] = "applyAccess" /\ session' = FALSE
           \/ pc'[p] = "applyRefresh" /\ pc[p] = "applyAccess"
    BY <1>4 DEF PlanAccess, PlanRefresh, PlanLost, EndSession, ApplyAccess, Goto, ChainInv, Typed
  <2>2. aim'[p] \subseteq aim[p]
    BY <1>4 DEF PlanAccess, PlanRefresh, PlanLost, EndSession, ApplyAccess, history, Recorded
  <2>3. pc[p] \in SigningOut
    BY <2>1 DEF SigningOut
  <2>4. pc[p] \in SigningOut \ {"applyRefresh"}
    BY <2>1 DEF SigningOut
  <2>. QED  BY <1>0, <1>1, <1>4, <2>1, <2>2, <2>3, <2>4 DEF Leaving, SigningOut
<1>5. CASE q = p /\ ~SignOut(p)
           /\ ~(PlanAccess(p) \/ PlanRefresh(p) \/ PlanLost(p) \/ EndSession(p) \/ ApplyAccess(p))
  <2>1. pc'[p] \notin SigningOut
    <3>1. CASE Finish(p)
      BY <3>1 DEF Finish, Goto, SigningOut, ChainInv, Typed
    <3>2. ASSUME NEW l \in Labels \ SigningOut, Goto(p, l) PROVE pc'[p] \notin SigningOut
      BY <3>2 DEF Goto, ChainInv, Typed
    <3>3. CASE RevokeOpaque(p)
      BY <3>3 DEF RevokeOpaque, SigningOut
    <3>4. CASE ~Finish(p) /\ Grant(p)
      <4>1. \E l \in Labels \ SigningOut : Goto(p, l)
        BY <3>4 DEF Grant, Redeem, CheckSession, ReplayAccess, ReplayRefresh, Refresh, JudgeLive,
           JudgeRetry, JudgeReplay, Rotate, MintRefresh, MintAccess, StoreReply, Enter, Ended,
           Answer, Labels, SigningOut
      <4>. QED  BY <3>2, <4>1
    <3>5. CASE ~Finish(p) /\ ~Grant(p) /\ ~RevokeOpaque(p)
      <4>1. \E l \in Labels \ SigningOut : Goto(p, l)
        BY <1>5, <3>5 DEF Ending, ReplayRefreshLost, Throw, ListFamily, EndAccess, EndFamily,
           Revoke, RevokeSwap, RevokeAccess, ApplyRefresh, Enter, Ended, Labels, SigningOut
      <4>. QED  BY <3>2, <4>1
    <3>. QED  BY <3>1, <3>3, <3>4, <3>5
  <2>. QED  BY <1>5, <2>1 DEF Leaving, SigningOut
<1>. QED  BY <1>2, <1>3, <1>4, <1>5

\* Every step of a call, and every other, keeps the accounts.
LEMMA AccountedInit == Init => Accounted
<1>. SUFFICES ASSUME Init PROVE Accounted
  OBVIOUS
<1>1. ChainInv
  BY ChainInit
<1>2. Answered /\ Recorded
  BY DEF Init, Answered, Recorded, Granting, SigningOut
<1>3. Named /\ Minting
  BY DEF Init, Named, Minting
<1>. QED  BY <1>1, <1>2, <1>3 DEF Accounted

LEMMA AccountedStep == Accounted /\ [Next]_vars => Accounted'
<1>. SUFFICES ASSUME ChainInv, Answered, Recorded, Named, Minting, [Next]_vars PROVE Accounted'
  BY DEF Accounted
<1>1. ChainInv' /\ Answered'
  BY ChainStep, AnswersStep
<1>2. CASE UNCHANGED vars \/ Tick
  <2>1. UNCHANGED <<next, session, refresh, access, pc, code, mint, ids, accIds, told, aim, dead>>
    BY <1>2 DEF vars, Tick, store, local, history
  <2>2. Recorded'
    BY <2>1 DEF Recorded
  <2>3. Named' /\ Minting'
    BY <2>1 DEF Named, Minting, Past
  <2>. QED  BY <1>1, <2>2, <2>3 DEF Accounted
<1>3. ASSUME NEW p \in Procs, Grant(p) \/ Ending(p) \/ ReplayRefreshLost(p) \/ Throw(p)
      PROVE  Accounted'
  BY <1>1, <1>3, RecordedStep, NamedStep, MintingStep DEF Accounted
<1>. QED  BY <1>2, <1>3 DEF Next

LEMMA EndedStep ==
  ASSUME Heeded
  PROVE  EndedInv /\ [Next]_vars => EndedInv'
<1>. SUFFICES ASSUME EndedInv, [Next]_vars PROVE EndedInv'
  OBVIOUS
<1>. ChainInv /\ Answered /\ Recorded /\ Named /\ Minting /\ AllOffline /\ DeadEnded
  BY DEF EndedInv, Accounted
<1>1. Accounted'
  BY AccountedStep DEF EndedInv
<1>2. CASE UNCHANGED vars \/ Tick
  <2>1. UNCHANGED <<next, session, refresh, access, pc, code, row, scope, mint, ids, accIds, aim,
                    dead>>
    BY <1>2 DEF vars, Tick, store, local, history
  <2>2. \A p \in Procs : OnTrack(p) /\ Aimed(p) /\ Leaving(p)
    BY DEF EndedInv
  <2>3. \A p \in Procs : AimedAccess(p)' = AimedAccess(p) /\ AimedRefresh(p)' = AimedRefresh(p)
                         /\ Parent(p)' = Parent(p)
    BY <2>1 DEF AimedAccess, AimedRefresh, Parent
  <2>4. ASSUME NEW p \in Procs PROVE OnTrack(p)'
    BY <2>1, <2>2, <2>3 DEF OnTrack, Ineffective
  <2>5. ASSUME NEW p \in Procs PROVE Aimed(p)'
    BY <2>1, <2>2 DEF Aimed, Past
  <2>6. DeadEnded'
    BY <2>1 DEF DeadEnded, Past, EndedRefresh, EndedAccess, Ineffective
  <2>7. ASSUME NEW p \in Procs PROVE Leaving(p)'
    BY <2>1, <2>2, <2>3 DEF Leaving
  <2>8. AllOffline'
    BY <2>1 DEF AllOffline
  <2>. QED  BY <1>1, <2>4, <2>5, <2>6, <2>7, <2>8 DEF EndedInv
<1>3. ASSUME NEW p \in Procs, Grant(p) \/ Ending(p) \/ ReplayRefreshLost(p) \/ Throw(p)
      PROVE  EndedInv'
  <2>1. \A q \in Procs : OnTrack(q) /\ Aimed(q) /\ Leaving(q)
    BY DEF EndedInv
  <2>2. DeadEnded'
    BY <1>3, <2>1, DeadStep
  <2>3. OnTrack(p)' /\ Aimed(p)'
    BY <1>3, <2>1, TrackEnds, TrackReplay, TrackFamily, TrackRevoke, TrackSignOut DEF Grant, Ending
  <2>4. ASSUME NEW q \in Procs, q # p
        PROVE  OnTrack(q)' /\ Aimed(q)'
    BY <1>3, <2>1, <2>4, TrackKept
  <2>5. AllOffline'
    BY <1>3, OfflineStep
  <2>6. \A q \in Procs : Leaving(q)'
    BY <1>3, <2>1, LeavingStep
  <2>. QED  BY <1>1, <2>2, <2>3, <2>4, <2>5, <2>6 DEF EndedInv
<1>. QED  BY <1>2, <1>3 DEF Next

\* What a call was meant to end, by a call that has done its work, is not active
\* again, for any number of calls: revocation and replay take the access tokens that
\* descend from what they end, and what is created while they are under way is a
\* token nobody was told of yet.  The handler of the end of a session logs and passes over
\* the failure of an update: the hypothesis allows it only over a database without enforced
\* references, where access tokens still name the session that is gone, and without refresh
\* tokens that end with it; with enforced ones the property does not hold
\* (applyBackchannelLogoutPlan, logout.ts; the run TokenFamiliesLogout).
THEOREM EndedStaysDeadCorrect ==
  ASSUME Heeded
  PROVE  Spec => []EndedStaysDead
<1>1. Init => EndedInv
  <2>. SUFFICES ASSUME Init PROVE EndedInv
    OBVIOUS
  <2>1. \A p \in Procs : OnTrack(p) /\ Aimed(p) /\ Leaving(p)
    BY DEF Init, OnTrack, Aimed, Leaving, SigningOut
  <2>2. DeadEnded
    BY DEF Init, DeadEnded
  <2>3. AllOffline
    BY DEF Init, AllOffline
  <2>. QED  BY <2>1, <2>2, <2>3, AccountedInit DEF EndedInv
<1>2. EndedInv /\ [Next]_vars => EndedInv'
  BY EndedStep
<1>3. EndedInv => EndedStaysDead
  <2>. SUFFICES ASSUME DeadEnded, NEW t \in Tokens
                PROVE  /\ <<"refresh", t>> \in dead => ~LiveRefresh(t)
                       /\ <<"access", t>> \in dead => ~LiveAccess(t)
    BY DEF EndedInv, EndedStaysDead
  <2>1. /\ <<"refresh", t>> \in dead => EndedRefresh(t)
        /\ <<"access", t>> \in dead => EndedAccess(t)
    BY DEF DeadEnded
  <2>. QED  BY <2>1 DEF EndedRefresh, EndedAccess, Ineffective, LiveRefresh, LiveAccess
<1>. QED  BY <1>1, <1>2, <1>3, PTL DEF Spec

-----------------------------------------------------------------------------
(* Type correctness.  The numbers of tokens stay within the bound, as a    *)
(* call begins that may take one only while there is room for it beside    *)
(* those that other calls may still take.                                  *)

\* The calls that may still take a number: a token that was read as revoked is not
\* exchanged.
Minters ==
  {p \in Procs :
     /\ mint[p] = 0
     /\ \/ pc[p] \in {"checkSession", "rotate", "mintRefresh", "mintAccess"}
        \/ pc[p] = "judge" /\ \E r \in row[p] : ~r.revoked}

Reserved == next + Cardinality(Minters) <= MaxTokens + 1

\* What calls have in their hands is within the bound, too.
InBounds ==
  /\ row \in [Procs -> SUBSET RefreshRow]
  /\ ids \in [Procs -> SUBSET Tokens] /\ accIds \in [Procs -> SUBSET Tokens]
  /\ aim \in [Procs -> SUBSET (Kinds \X Tokens)]
  /\ dead \subseteq Kinds \X Tokens

\* One call joins those that may take a number, stays out or leaves them.
LEMMA MintersMove ==
  ASSUME IsFiniteSet(Procs), NEW p \in Procs, NEW S \in SUBSET Procs, NEW T \in SUBSET Procs,
         T \ {p} = S \ {p}
  PROVE  /\ Cardinality(S) \in Nat /\ Cardinality(T) \in Nat
         /\ Cardinality(T) <= Cardinality(S) + 1
         /\ p \in S \/ p \notin T => Cardinality(T) <= Cardinality(S)
         /\ p \in S /\ p \notin T => Cardinality(T) + 1 = Cardinality(S)
<1>. DEFINE R == S \ {p}
<1>1. IsFiniteSet(R) /\ p \notin R
  <2>1. R \subseteq Procs
    OBVIOUS
  <2>. QED  BY <2>1, FS_Subset
<1>2. IsFiniteSet(R \cup {p}) /\ Cardinality(R \cup {p}) = Cardinality(R) + 1 /\ Cardinality(R) \in Nat
  BY <1>1, FS_AddElement, FS_CardinalityType
<1>3. S = (IF p \in S THEN R \cup {p} ELSE R) /\ T = (IF p \in T THEN R \cup {p} ELSE R)
  OBVIOUS
<1>. HIDE DEF R
<1>4. /\ Cardinality(S) = Cardinality(R) + (IF p \in S THEN 1 ELSE 0)
      /\ Cardinality(T) = Cardinality(R) + (IF p \in T THEN 1 ELSE 0)
  BY <1>2, <1>3
<1>. QED  BY <1>2, <1>4

\* A call begins, or takes a number that was kept for it, or needs none.
LEMMA Reserves ==
  ASSUME Accounted, NEW p \in Procs, Grant(p) \/ Ending(p) \/ ReplayRefreshLost(p) \/ Throw(p)
  PROVE  \/ next' = next /\ (p \in Minters \/ p \notin Minters')
         \/ next' = next /\ Room
         \/ next' = next + 1 /\ p \in Minters /\ p \notin Minters'
<1>. USE DEF Accounted, ChainInv, Typed
<1>0. next \in Nat /\ 0 < next
  BY DEF Answered
<1>1. mint[p] # 0 => pc[p] \in {"mintAccess", "storeReply"}
  BY DEF Minting
<1>2. CASE next' = next /\ Finish(p)
  <2>1. pc'[p] = "idle"
    BY <1>2 DEF Finish, Goto
  <2>. QED  BY <1>2, <2>1 DEF Minters
<1>3. CASE Redeem(p)
  <2>1. next' = next /\ (Room \/ Goto(p, "replayAccess"))
    BY <1>3 DEF Redeem, Enter
  <2>2. CASE Goto(p, "replayAccess")
    <3>1. pc'[p] = "replayAccess"
      BY <2>2 DEF Goto
    <3>. QED  BY <2>1, <3>1 DEF Minters
  <2>. QED  BY <2>1, <2>2
<1>4. CASE Refresh(p)
  <2>1. PICK r \in refresh : (r.revoked \/ Room) /\ row' = [row EXCEPT ![p] = {r}]
    BY <1>4 DEF Refresh
  <2>2. next' = next /\ pc'[p] = "judge" /\ row'[p] = {r}
    BY <1>4, <2>1 DEF Refresh, Enter, Goto
  <2>3. CASE r.revoked
    BY <2>2, <2>3 DEF Minters
  <2>. QED  BY <2>1, <2>2, <2>3
<1>5. CASE (CheckSession(p) \/ Rotate(p)) /\ ~Finish(p)
  <2>1. pc[p] \in {"checkSession", "rotate"} /\ next' = next
    BY <1>5 DEF CheckSession, Rotate
  <2>. QED  BY <1>1, <2>1 DEF Minters
<1>6. CASE JudgeLive(p)
  <2>1. pc[p] = "judge" /\ next' = next /\ \E r \in row[p] : ~r.revoked
    BY <1>6 DEF JudgeLive
  <2>. QED  BY <1>1, <2>1 DEF Minters
<1>7. CASE (MintRefresh(p) \/ MintAccess(p)) /\ ~Finish(p)
  <2>1. CASE next' = next
    <3>1. pc[p] = "mintAccess" /\ mint' = mint /\ mint[p] # 0
      BY <1>0, <1>7, <2>1 DEF MintRefresh, MintAccess, Minted
    <3>. QED  BY <2>1, <3>1 DEF Minters
  <2>2. CASE next' # next
    <3>1. /\ mint' = [mint EXCEPT ![p] = next] /\ next' = next + 1
          /\ pc[p] \in {"mintRefresh", "mintAccess"} /\ (pc[p] = "mintAccess" => mint[p] = 0)
      BY <1>7, <2>2 DEF MintRefresh, MintAccess, Minted
    <3>2. mint'[p] # 0 /\ mint[p] = 0
      BY <1>0, <1>1, <3>1
    <3>. QED  BY <3>1, <3>2 DEF Minters
  <2>. QED  BY <2>1, <2>2
<1>8. CASE \/ ReplayAccess(p) \/ JudgeReplay(p) \/ ListFamily(p) \/ EndAccess(p) \/ Revoke(p)
           \/ RevokeSwap(p) \/ SignOut(p) \/ PlanAccess(p) \/ PlanRefresh(p) \/ PlanLost(p) \/ EndSession(p)
           \/ ApplyAccess(p)
  <2>1. next' = next
    BY <1>8 DEF ReplayAccess, JudgeReplay, ListFamily, EndAccess, Revoke, RevokeSwap, SignOut, PlanAccess,
       PlanRefresh, PlanLost, EndSession, ApplyAccess
  <2>2. PICK l \in {"replayRefresh", "listFamily", "endAccess", "endFamily", "revokeSwap", "revokeAccess"}
                     \cup SigningOut : Goto(p, l)
    BY <1>8 DEF ReplayAccess, JudgeReplay, ListFamily, EndAccess, Revoke, RevokeSwap, SignOut, PlanAccess,
       PlanRefresh, PlanLost, EndSession, ApplyAccess, Enter, SigningOut
  <2>3. pc'[p] = l
    BY <2>2 DEF Goto
  <2>. QED  BY <2>1, <2>2, <2>3 DEF Minters, SigningOut
<1>9. CASE RevokeOpaque(p)
  <2>1. next' = next /\ pc' = pc /\ pc[p] = "idle"
    BY <1>9 DEF RevokeOpaque
  <2>. QED  BY <2>1 DEF Minters
<1>10. CASE \/ Throw(p) \/ ReplayRefresh(p) \/ ReplayRefreshLost(p) \/ JudgeRetry(p) \/ StoreReply(p)
            \/ EndFamily(p) \/ RevokeAccess(p) \/ ApplyRefresh(p)
  BY <1>2, <1>10 DEF Throw, ReplayRefresh, ReplayRefreshLost, JudgeRetry, StoreReply, EndFamily,
     RevokeAccess, ApplyRefresh, Ended, Answer
<1>11. CASE (CheckSession(p) \/ Rotate(p) \/ MintRefresh(p) \/ MintAccess(p)) /\ Finish(p)
  <2>1. mint'[p] = 0
    BY <1>11 DEF Finish
  <2>2. next' = next
    <3>1. ~Minted(p)
      BY <1>0, <2>1 DEF Minted
    <3>. QED  BY <1>11, <3>1 DEF CheckSession, Rotate, MintRefresh, MintAccess
  <2>. QED  BY <1>2, <1>11, <2>2
<1>. QED  BY <1>3, <1>4, <1>5, <1>6, <1>7, <1>8, <1>9, <1>10, <1>11 DEF Grant, Ending

\* There is room for the numbers that are taken.
LEMMA ReservedStep ==
  ASSUME IsFiniteSet(Procs), Accounted, Reserved, NEW p \in Procs,
         Grant(p) \/ Ending(p) \/ ReplayRefreshLost(p) \/ Throw(p)
  PROVE  Reserved'
<1>0. next \in Nat /\ MaxTokens \in Nat
  BY TokensAssumption DEF Accounted, ChainInv, Typed
<1>1. Minters' \ {p} = Minters \ {p}
  <2>1. \A q \in Procs \ {p} : pc'[q] = pc[q] /\ row'[q] = row[q] /\ mint'[q] = mint[q]
    BY OthersStay, OthersKeep DEF Accounted, ChainInv
  <2>. QED  BY <2>1 DEF Minters
<1>2. Minters \in SUBSET Procs /\ Minters' \in SUBSET Procs
  BY DEF Minters
<1>3. /\ Cardinality(Minters) \in Nat /\ Cardinality(Minters') \in Nat
      /\ Cardinality(Minters') <= Cardinality(Minters) + 1
      /\ p \in Minters \/ p \notin Minters' => Cardinality(Minters') <= Cardinality(Minters)
      /\ p \in Minters /\ p \notin Minters' => Cardinality(Minters') + 1 = Cardinality(Minters)
  BY <1>1, <1>2, MintersMove
<1>4. Room => next + Cardinality(Minters) <= MaxTokens
  <2>. DEFINE R == {q \in Procs : mint[q] = 0 /\ pc[q] \in
                     {"checkSession", "judge", "rotate", "mintRefresh", "mintAccess"}}
  <2>1. R \subseteq Procs /\ Minters \subseteq R
    BY DEF Minters
  <2>2. IsFiniteSet(R)
    BY <2>1, FS_Subset
  <2>3. Cardinality(R) \in Nat /\ Cardinality(Minters) <= Cardinality(R)
    BY <2>1, <2>2, FS_Subset, FS_CardinalityType
  <2>4. Room => next + Cardinality(R) <= MaxTokens
    BY DEF Room
  <2>. HIDE DEF R
  <2>. QED  BY <1>0, <1>3, <2>3, <2>4
<1>. QED  BY <1>0, <1>3, <1>4, Reserves DEF Reserved

\* Every row that a call has read was one of the table.
LEMMA RowsIn ==
  ASSUME NEW T, row \in [Procs -> SUBSET T], refresh \subseteq T, NEW p \in Procs,
         Grant(p) \/ Ending(p) \/ ReplayRefreshLost(p) \/ Throw(p)
  PROVE  row' \in [Procs -> SUBSET T]
<1>1. CASE row' = row \/ Finish(p)
  BY <1>1 DEF Finish
<1>2. CASE Refresh(p) \/ Revoke(p)
  <2>1. PICK r \in refresh : row' = [row EXCEPT ![p] = {r}]
    BY <1>2 DEF Refresh, Revoke
  <2>2. {r} \in SUBSET T
    OBVIOUS
  <2>. QED  BY <2>1, <2>2
<1>3. CASE ~(Refresh(p) \/ Revoke(p)) /\ Grant(p)
  BY <1>1, <1>3 DEF Grant, Redeem, CheckSession, ReplayAccess, ReplayRefresh, JudgeLive, JudgeRetry,
     JudgeReplay, Rotate, MintRefresh, MintAccess, StoreReply, Ended, Answer, local
<1>4. CASE ~(Refresh(p) \/ Revoke(p)) /\ ~Grant(p)
  BY <1>1, <1>4 DEF Ending, ListFamily, EndAccess, EndFamily, RevokeSwap, RevokeAccess, RevokeOpaque,
     SignOut, PlanAccess, PlanRefresh, PlanLost, EndSession, ApplyAccess, ApplyRefresh, ReplayRefreshLost,
     Throw,
     Ended, local
<1>. QED  BY <1>2, <1>3, <1>4

\* The numbers of what is stored and was returned are taken, and so within the bound.
LEMMA TablesInBounds ==
  ASSUME IsFiniteSet(Procs), Accounted, Reserved
  PROVE  /\ next \in 1 .. MaxTokens + 1
         /\ refresh \subseteq RefreshRow /\ access \subseteq AccessRow
         /\ mint \in [Procs -> {0} \cup Tokens]
         /\ told \subseteq [from : {0} \cup Tokens, code : Codes, tok : Tokens]
<1>. USE DEF Accounted
<1>1. next \in 1 .. MaxTokens + 1
  <2>1. Cardinality(Minters) \in Nat
    <3>1. Minters \subseteq Procs
      BY DEF Minters
    <3>. QED  BY <3>1, FS_Subset, FS_CardinalityType
  <2>. QED  BY <2>1, TokensAssumption DEF Reserved, Answered, ChainInv, Typed
<1>2. \A t \in Nat : t < next => t \in {0} \cup Tokens /\ (0 < t => t \in Tokens)
  BY <1>1, TokensAssumption DEF Tokens
<1>3. \A x \in told : x.from \in Nat /\ x.from < next /\ x.tok \in Nat /\ 0 < x.tok /\ x.tok < next
  <2>1. \A x \in told : x \in [from : Nat, code : Codes, tok : Nat]
    BY DEF Recorded
  <2>. QED  BY <2>1 DEF Answered, Named, Past
<1>4. \A x \in told : x.from \in {0} \cup Tokens /\ x.tok \in Tokens
  BY <1>2, <1>3
<1>5. told \subseteq [from : {0} \cup Tokens, code : Codes, tok : Tokens]
  <2>1. ASSUME NEW x \in told PROVE x \in [from : {0} \cup Tokens, code : Codes, tok : Tokens]
    <3>1. x \in [from : Nat, code : Codes, tok : Nat]
      BY DEF Recorded
    <3>. QED  BY <1>4, <3>1
  <2>. QED  BY <2>1
<1>6. ASSUME NEW r \in refresh PROVE r \in RefreshRow
  <2>1. r \in Token
    BY DEF ChainInv, Typed
  <2>2. r.id \in Tokens
    BY <1>2, <2>1 DEF Answered, ChainInv, Consistent, Token
  <2>3. r.reply \in {0} \cup Tokens
    <3>1. CASE r.reply # 0
      <4>1. [from |-> r.id, code |-> r.code, tok |-> r.reply] \in told
        BY <3>1 DEF Answered, Returned
      <4>. QED  BY <1>4, <4>1
    <3>. QED  BY <3>1
  <2>. QED  BY <2>1, <2>2, <2>3 DEF Token, RefreshRow
<1>7. ASSUME NEW a \in access PROVE a \in AccessRow
  <2>1. a \in AccessToken
    BY DEF Recorded
  <2>2. a.id \in Tokens /\ a.ref \in {0} \cup Tokens
    BY <1>2, <2>1 DEF Named, AccessToken
  <2>. QED  BY <2>1, <2>2 DEF AccessToken, AccessRow
<1>8. \A p \in Procs : mint[p] \in {0} \cup Tokens
  <2>1. \A p \in Procs : mint[p] \in Nat /\ (mint[p] # 0 => mint[p] < next)
    BY DEF ChainInv, Typed, Minting
  <2>. QED  BY <1>2, <2>1
<1>. QED  BY <1>1, <1>5, <1>6, <1>7, <1>8 DEF ChainInv, Typed

\* Every variable of the calls on tokens has its type, and the bound on the tokens is
\* kept by the guards of the calls that create them, for any number of calls.
THEOREM TypeCorrect ==
  ASSUME IsFiniteSet(Procs)
  PROVE  Spec => []TypeOK
<1>. DEFINE TokensInv == Accounted /\ Reserved /\ InBounds
<1>1. Init => TokensInv
  <2>. SUFFICES ASSUME Init PROVE Accounted /\ Reserved /\ InBounds
    OBVIOUS
  <2>1. Minters = {} /\ next = 1
    BY DEF Init, Minters
  <2>2. Reserved
    BY <2>1, FS_EmptySet, TokensAssumption DEF Reserved
  <2>3. InBounds
    BY DEF Init, InBounds
  <2>. QED  BY <2>2, <2>3, AccountedInit
<1>2. TokensInv /\ [Next]_vars => TokensInv'
  <2>. SUFFICES ASSUME Accounted, Reserved, InBounds, [Next]_vars PROVE Reserved' /\ InBounds'
    BY AccountedStep
  <2>1. CASE UNCHANGED vars \/ Tick
    <3>1. UNCHANGED <<next, pc, row, mint, ids, accIds, aim, dead>>
      BY <2>1 DEF vars, Tick, local, history
    <3>. QED  BY <3>1 DEF Reserved, Minters, InBounds
  <2>2. ASSUME NEW p \in Procs, Grant(p) \/ Ending(p) \/ ReplayRefreshLost(p) \/ Throw(p)
        PROVE  Reserved' /\ InBounds'
    <3>1. /\ refresh \subseteq RefreshRow /\ access \subseteq AccessRow
          /\ told \subseteq [from : {0} \cup Tokens, code : Codes, tok : Tokens]
      BY TablesInBounds
    <3>2. /\ \A r \in refresh : r.id \in Tokens
          /\ \A a \in access : a.id \in Tokens
          /\ \A x \in told : x.tok \in Tokens
      BY <3>1 DEF RefreshRow, AccessRow
    <3>3. row' \in [Procs -> SUBSET RefreshRow]
      BY <2>2, <3>1, RowsIn DEF InBounds
    <3>4. /\ ids' \in [Procs -> SUBSET Tokens] /\ accIds' \in [Procs -> SUBSET Tokens]
          /\ aim' \in [Procs -> SUBSET (Kinds \X Tokens)] /\ dead' \subseteq Kinds \X Tokens
      BY <2>2, <3>2, ListsIn DEF InBounds
    <3>. QED  BY <2>2, <3>3, <3>4, ReservedStep DEF InBounds
  <2>. QED  BY <2>1, <2>2 DEF Next
<1>3. TokensInv => TypeOK
  BY TablesInBounds DEF TypeOK, InBounds, Accounted, ChainInv, Typed, Recorded
<1>. QED  BY <1>1, <1>2, <1>3, PTL DEF Spec
=============================================================================
