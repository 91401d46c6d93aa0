---------------------------- MODULE PluginsProofs ----------------------------
(***************************************************************************)
(* Theorems about the plugins and flows that run MCPlugins checks on small *)
(* deployments: organizations (Memberships), device authorization          *)
(* (DeviceCodes), API keys (ApiKeys), account linking (AccountLinking) and *)
(* one-time passwords (OneTimePasswords).  The first is extended, for its  *)
(* finite sets, and the others are instances, for any values of their      *)
(* constants.  No theorem relates two of them: where two have a variable   *)
(* of the same name, each theorem is about the behaviours of one of them   *)
(* only.                                                                   *)
(***************************************************************************)
EXTENDS Memberships, FiniteSetTheorems, TLAPS

CONSTANTS
  Approvers, Interval, Lifetime,                              \* of DeviceCodes
  Cached, Limited, Grant, Refill, Max, Window, Owner, MaxTime,    \* of ApiKeys
  Keys, Emails, Mail, Proven, Trusted, Transactions, Updating, RequireVerified,
  DifferentEmails, UnlinkingAll, MaxUsers, MaxAccounts,    \* of AccountLinking
  Peek, Reuse, Allowed, MaxSends                         \* of OneTimePasswords

VARIABLES
  now,                           \* of DeviceCodes, ApiKeys and OneTimePasswords
  seen,                                            \* of DeviceCodes and ApiKeys
  minted, requested, code, user,                              \* of DeviceCodes
  cache, at, late, used, burst,                                   \* of ApiKeys
  users, accounts, nextUser, nextAccount, key, target, acc, raise, granted,
                                                           \* of AccountLinking
  rows, created, sends, hold, wrong, accepted            \* of OneTimePasswords

Device == INSTANCE DeviceCodes WITH Users <- Approvers
Key == INSTANCE ApiKeys
Link == INSTANCE AccountLinking
Otp == INSTANCE OneTimePasswords

-----------------------------------------------------------------------------
(***************************************************************************)
(* Memberships: a seat of a team, and an invitation, are given once.       *)
(***************************************************************************)

-----------------------------------------------------------------------------
(* Type correctness.                                                       *)

\* A call in flight is about a user, and the users are finitely many.
Named == \A p \in Procs : pc[p] # "idle" => who[p] \in Users

MemberTypes == TypeOK /\ Named

LEMMA UsersFinite ==
  ASSUME MembershipAssumption
  PROVE  IsFiniteSet(Users) /\ "nobody" \notin Users /\ Invitee \in Users
BY FS_AddElement DEF MembershipAssumption, Users

\* The end of a call.
LEMMA MemberFinishType ==
  ASSUME MemberTypes, NEW p \in Procs, Finish(p)
  PROVE  /\ pc' \in [Procs -> Labels] /\ op' \in [Procs -> Ops \cup {"none"}]
         /\ who' \in [Procs -> Users \cup {"nobody"}]
         /\ row' \in [Procs -> [id : Nat, role : Roles]]
         /\ n' \in [Procs -> Nat] /\ ok' \in [Procs -> BOOLEAN]
         /\ Named'
<1>1. NoRow \in [id : Nat, role : Roles]
  BY DEF NoRow, Roles
<1>2. Named'
  BY DEF MemberTypes, TypeOK, Named, Finish, Goto
<1>. QED  BY <1>1, <1>2 DEF MemberTypes, TypeOK, Finish, Goto, Labels

\* A call that goes on at another label.
LEMMA GotoType ==
  ASSUME MemberTypes, NEW p \in Procs, NEW l \in Labels, Goto(p, l), pc[p] # "idle", who' = who
  PROVE  pc' \in [Procs -> Labels] /\ Named'
BY DEF MemberTypes, TypeOK, Named, Goto

\* What a seat or a failure leads to.
LEMMA OutcomeType ==
  ASSUME MemberTypes, NEW p \in Procs, pc[p] # "idle", Seated(p) \/ Failed(p)
  PROVE  /\ pc' \in [Procs -> Labels] /\ op' \in [Procs -> Ops \cup {"none"}]
         /\ who' \in [Procs -> Users \cup {"nobody"}]
         /\ row' \in [Procs -> [id : Nat, role : Roles]]
         /\ n' \in [Procs -> Nat] /\ ok' \in [Procs -> BOOLEAN]
         /\ Named'
<1>1. CASE Finish(p)
  BY <1>1, MemberFinishType
<1>2. CASE ~Finish(p)
  <2>1. \E l \in {"join", "release", "delete"} : Goto(p, l) /\ UNCHANGED local
    BY <1>2 DEF Seated, Failed
  <2>2. {"join", "release", "delete"} \subseteq Labels
    BY DEF Labels
  <2>3. pc' \in [Procs -> Labels] /\ Named'
    BY <2>1, <2>2, GotoType DEF local
  <2>. QED  BY <2>1, <2>3 DEF local, MemberTypes, TypeOK
<1>. QED  BY <1>1, <1>2

\* The start of a call.
LEMMA MemberStartType ==
  ASSUME MembershipAssumption, MemberTypes, NEW p \in Procs, NEW o, NEW u \in Users,
         NEW r \in [id : Nat, role : Roles], NEW l \in Labels, Start(p, o, u, r, l)
  PROVE  MemberTypes'
<1>1. Named'
  BY DEF MemberTypes, TypeOK, Named, Start, Goto
<1>2. TypeOK'
  BY DEF MemberTypes, TypeOK, Start, Goto, history
<1>. QED  BY <1>1, <1>2 DEF MemberTypes

\* A new member.
LEMMA CreateMemberType ==
  ASSUME MemberTypes, NEW u \in Users, CreateMember(u)
  PROVE  /\ made' \in Nat /\ DOMAIN members' \subseteq 1 .. made'
         /\ members' \in [DOMAIN members' -> Member]
<1>1. made' \in Nat /\ made' = made + 1 /\ made \in Nat
  BY DEF CreateMember, MemberTypes, TypeOK
<1>2. [user |-> u, role |-> "member"] \in Member
  BY DEF Member, Roles
<1>3. DOMAIN members' = DOMAIN members \cup {made'}
  BY DEF CreateMember
<1>4. \A i \in DOMAIN members' : members'[i] \in Member
  BY <1>2 DEF CreateMember, MemberTypes, TypeOK
<1>5. members' = [i \in DOMAIN members' |-> members'[i]]
  BY <1>3 DEF CreateMember
<1>. QED  BY <1>1, <1>3, <1>4, <1>5 DEF MemberTypes, TypeOK

\* The calls that begin.
LEMMA MemberBeginType ==
  ASSUME MembershipAssumption, MemberTypes, NEW p \in Procs, Begin(p)
  PROVE  MemberTypes'
<1>1. Invitee \in Users
  BY UsersFinite
<1>2. /\ NoRow \in [id : Nat, role : Roles]
      /\ \A i \in DOMAIN members : members[i].user \in Users
      /\ \A i \in DOMAIN members, r \in Roles : [id |-> i, role |-> r] \in [id : Nat, role : Roles]
      /\ "member" \in Roles
  BY DEF NoRow, Roles, MemberTypes, TypeOK, Member
<1>3. {"claim", "close", "create", "seat", "unseat", "delete", "setRole"} \subseteq Labels
  BY DEF Labels
<1>4. CASE Accept(p) \/ Reject(p) \/ Cancel(p)
  BY <1>1, <1>2, <1>3, <1>4, MemberStartType DEF Accept, Reject, Cancel
<1>5. ASSUME NEW u \in Users, Add(p, u) \/ AddTeam(p, u) \/ RemoveTeam(p, u)
      PROVE  MemberTypes'
  BY <1>2, <1>3, <1>5, MemberStartType DEF Add, AddTeam, RemoveTeam
<1>6. ASSUME NEW i \in DOMAIN members, Remove(p, i) \/ Leave(p, i)
      PROVE  MemberTypes'
  <2>1. \E o : Start(p, o, members[i].user, [id |-> i, role |-> "member"], "delete")
    BY <1>6 DEF Remove, Leave
  <2>. QED  BY <1>2, <1>3, <2>1, MemberStartType
<1>7. ASSUME NEW i \in DOMAIN members, NEW a \in DOMAIN members, NEW r \in Roles, SetRole(p, a, i, r)
      PROVE  MemberTypes'
  <2>1. Start(p, "setRole", members[i].user, [id |-> i, role |-> r], "setRole")
    BY <1>7 DEF SetRole
  <2>. QED  BY <1>2, <1>3, <2>1, MemberStartType
<1>. QED  BY <1>4, <1>5, <1>6, <1>7 DEF Begin

\* The calls that go on.
LEMMA MemberContinueType ==
  ASSUME MembershipAssumption, MemberTypes, NEW p \in Procs, Continue(p) \/ Throw(p) \/ Crash(p)
  PROVE  MemberTypes'
<1>0. /\ pc[p] # "idle" /\ who[p] \in Users
      /\ \A l \in {"seat", "activate", "unseat", "count", "sync", "reserve", "enrol", "unreserve",
                   "free"} : l \in Labels
  <2>1. pc[p] # "idle"
    BY DEF Continue, Claim, Join, Activate, Release, Close, Create, WriteRole, Delete, Seat, Count, Sync,
       Reserve, Enrol, EnrolFails, Unreserve, Unseat, Free, Throw, Crash
  <2>. QED  BY <2>1 DEF MemberTypes, Named, Labels
<1>1. CASE Claim(p)
  <2>1. CASE Pending
    <3>1. Goto(p, "seat") /\ UNCHANGED local /\ invitation' = "accepted"
      BY <1>1, <2>1 DEF Claim
    <3>. QED  BY <1>0, <1>1, <3>1, GotoType DEF Claim, history, MemberTypes, TypeOK, local
  <2>2. CASE ~Pending
    BY <1>1, <2>2, MemberFinishType DEF Claim, history, MemberTypes, TypeOK
  <2>. QED  BY <2>1, <2>2
<1>2. CASE Join(p)
  <2>1. /\ made' \in Nat /\ DOMAIN members' \subseteq 1 .. made'
        /\ members' \in [DOMAIN members' -> Member]
    BY <1>0, <1>2, CreateMemberType DEF Join
  <2>2. row' \in [Procs -> [id : Nat, role : Roles]]
    BY <1>2, <2>1 DEF Join, MemberTypes, TypeOK
  <2>3. joins' \subseteq 1 .. made'
    BY <1>2, <2>1 DEF Join, CreateMember, MemberTypes, TypeOK
  <2>. QED  BY <1>0, <1>2, <2>1, <2>2, <2>3, GotoType DEF Join, MemberTypes, TypeOK
<1>3. CASE Activate(p) \/ Release(p) \/ Close(p) \/ Free(p) \/ Crash(p)
  <2>1. seats' \in Nat
    BY <1>3 DEF Activate, Release, Close, Free, Crash, Less, MemberTypes, TypeOK
  <2>2. invitation' \in {"pending", "accepted", "rejected", "canceled"}
    BY <1>3 DEF Activate, Release, Close, Free, Crash, AfterFailure, MemberTypes, TypeOK
  <2>3. Finish(p) /\ UNCHANGED <<members, made, team, history>>
    BY <1>3 DEF Activate, Release, Close, Free, Crash
  <2>. QED  BY <2>1, <2>2, <2>3, MemberFinishType DEF history, MemberTypes, TypeOK
<1>4. CASE Create(p)
  <2>1. /\ made' \in Nat /\ DOMAIN members' \subseteq 1 .. made'
        /\ members' \in [DOMAIN members' -> Member]
    BY <1>0, <1>4, CreateMemberType DEF Create
  <2>4. joins' \subseteq 1 .. made' /\ unreleased' \in BOOLEAN
    BY <1>4, <2>1 DEF Create, CreateMember, history, MemberTypes, TypeOK
  <2>2. CASE Finish(p)
    BY <1>4, <2>1, <2>2, <2>4, MemberFinishType DEF Create, MemberTypes, TypeOK
  <2>3. CASE Goto(p, "seat") /\ row' = [row EXCEPT ![p].id = made'] /\ UNCHANGED <<op, who, n, ok>>
    <3>1. row' \in [Procs -> [id : Nat, role : Roles]]
      BY <2>1, <2>3 DEF MemberTypes, TypeOK
    <3>. QED  BY <1>0, <1>4, <2>1, <2>3, <2>4, <3>1, GotoType DEF Create, MemberTypes, TypeOK
  <2>. QED  BY <1>4, <2>2, <2>3 DEF Create
<1>5. CASE WriteRole(p)
  <2>1. row[p].role \in Roles
    BY DEF MemberTypes, TypeOK
  <2>2. \A i \in DOMAIN members : [members[i] EXCEPT !.role = row[p].role] \in Member
    BY <2>1 DEF MemberTypes, TypeOK, Member
  <2>3. members' \in [DOMAIN members' -> Member] /\ DOMAIN members' = DOMAIN members
    BY <1>5, <2>2 DEF WriteRole, history, MemberTypes, TypeOK
  <2>. QED  BY <1>5, <2>3, MemberFinishType DEF WriteRole, history, MemberTypes, TypeOK
<1>6. CASE Delete(p)
  <2>1. members' \in [DOMAIN members' -> Member] /\ DOMAIN members' \subseteq DOMAIN members
    BY <1>6 DEF Delete, history, MemberTypes, TypeOK
  <2>. QED  BY <1>0, <1>6, <2>1, GotoType DEF Delete, history, MemberTypes, TypeOK, local
<1>7. CASE Seat(p)
  <2>1. CASE Goto(p, "count") /\ UNCHANGED local
    BY <1>0, <1>7, <2>1, GotoType DEF Seat, history, MemberTypes, TypeOK, local
  <2>2. CASE Seated(p)
    BY <1>0, <1>7, <2>2, OutcomeType DEF Seat, history, MemberTypes, TypeOK
  <2>. QED  BY <1>7, <2>1, <2>2 DEF Seat
<1>8. CASE Count(p)
  <2>1. Cardinality(team) \in Nat
    BY UsersFinite, FS_Subset, FS_CardinalityType DEF MemberTypes, TypeOK
  <2>. QED  BY <1>0, <1>8, <2>1, GotoType DEF Count, history, MemberTypes, TypeOK
<1>9. CASE Sync(p) \/ EnrolFails(p)
  <2>1. seats' \in Nat
    BY <1>9 DEF Sync, EnrolFails, MemberTypes, TypeOK
  <2>. QED  BY <1>0, <1>9, <2>1, GotoType DEF Sync, EnrolFails, history, MemberTypes, TypeOK, local
<1>10. CASE Reserve(p)
  <2>1. seats' \in Nat
    BY <1>10 DEF Reserve, history, MemberTypes, TypeOK
  <2>2. CASE Goto(p, "enrol") /\ UNCHANGED local
    BY <1>0, <1>10, <2>1, <2>2, GotoType DEF Reserve, history, MemberTypes, TypeOK, local
  <2>3. CASE Failed(p)
    BY <1>0, <1>10, <2>1, <2>3, OutcomeType DEF Reserve, history, MemberTypes, TypeOK
  <2>. QED  BY <1>10, <2>2, <2>3 DEF Reserve
<1>11. CASE Enrol(p)
  <2>1. team' \subseteq Users
    BY <1>0, <1>11 DEF Enrol, history, MemberTypes, TypeOK
  <2>2. CASE Goto(p, "unreserve") /\ ok' = [ok EXCEPT ![p] = TRUE] /\ UNCHANGED <<op, who, row, n>>
    BY <1>0, <1>11, <2>1, <2>2, GotoType DEF Enrol, history, MemberTypes, TypeOK
  <2>3. CASE Seated(p)
    BY <1>0, <1>11, <2>1, <2>3, OutcomeType DEF Enrol, history, MemberTypes, TypeOK
  <2>. QED  BY <1>11, <2>2, <2>3 DEF Enrol
<1>12. CASE Unreserve(p)
  <2>1. seats' \in Nat
    BY <1>12 DEF Unreserve, Less, MemberTypes, TypeOK
  <2>2. Seated(p) \/ Failed(p)
    BY <1>12 DEF Unreserve
  <2>. QED  BY <1>0, <1>12, <2>1, <2>2, OutcomeType DEF Unreserve, history, MemberTypes, TypeOK
<1>13. CASE Unseat(p)
  <2>1. team' \subseteq Users
    BY <1>13 DEF Unseat, history, MemberTypes, TypeOK
  <2>2. CASE Finish(p)
    BY <1>13, <2>1, <2>2, MemberFinishType DEF Unseat, history, MemberTypes, TypeOK
  <2>3. CASE /\ n' = [n EXCEPT ![p] = Deleted(who[p])] /\ Goto(p, "free")
             /\ UNCHANGED <<op, who, row, ok>>
    <3>1. Deleted(who[p]) \in Nat
      BY FS_Singleton, FS_Subset, FS_CardinalityType DEF Deleted
    <3>. QED  BY <1>0, <1>13, <2>1, <2>3, <3>1, GotoType DEF Unseat, history, MemberTypes, TypeOK
  <2>. QED  BY <1>13, <2>2, <2>3 DEF Unseat
<1>14. CASE Throw(p)
  <2>1. joins' \subseteq 1 .. made' /\ unreleased' \in BOOLEAN
    BY <1>14 DEF Throw, MemberTypes, TypeOK
  <2>2. CASE Failed(p)
    BY <1>0, <1>14, <2>1, <2>2, OutcomeType DEF Throw, MemberTypes, TypeOK
  <2>3. CASE Finish(p)
    BY <1>14, <2>1, <2>3, MemberFinishType DEF Throw, MemberTypes, TypeOK
  <2>. QED  BY <1>14, <2>2, <2>3 DEF Throw
<1>. QED  BY <1>1, <1>2, <1>3, <1>4, <1>5, <1>6, <1>7, <1>8, <1>9, <1>10, <1>11, <1>12, <1>13, <1>14
          DEF Continue

\* Every variable of the calls on members, invitations and seats has its type.
THEOREM MemberTypeCorrect == ASSUME MembershipAssumption PROVE Spec => []TypeOK
<1>1. Init => MemberTypes
  <2>. SUFFICES ASSUME Init PROVE MemberTypes
    OBVIOUS
  <2>1. Cardinality(Owners) \in Nat
    BY FS_CardinalityType DEF MembershipAssumption
  <2>2. PICK order \in [1 .. Cardinality(Owners) -> Owners] :
          members = [i \in DOMAIN order |-> [user |-> order[i], role |-> "owner"]]
    BY DEF Init
  <2>3. \A i \in DOMAIN order : [user |-> order[i], role |-> "owner"] \in Member
    BY DEF Member, Users, Roles
  <2>4. DOMAIN members = 1 .. made /\ members \in [DOMAIN members -> Member]
    BY <2>2, <2>3 DEF Init
  <2>5. NoRow \in [id : Nat, role : Roles] /\ "idle" \in Labels
    BY DEF NoRow, Roles, Labels
  <2>6. TypeOK
    BY <2>1, <2>4, <2>5 DEF Init, TypeOK, AtIdle
  <2>7. Named
    BY DEF Init, AtIdle, Named
  <2>. QED  BY <2>6, <2>7 DEF MemberTypes
<1>2. MemberTypes /\ [Next]_vars => MemberTypes'
  <2>. SUFFICES ASSUME MemberTypes, [Next]_vars PROVE MemberTypes'
    OBVIOUS
  <2>1. CASE UNCHANGED vars
    BY <2>1 DEF vars, MemberTypes, TypeOK, Named
  <2>2. ASSUME NEW p \in Procs, Begin(p) \/ Continue(p) \/ Throw(p) \/ Crash(p) PROVE MemberTypes'
    BY <2>2, MemberBeginType, MemberContinueType
  <2>. QED  BY <2>1, <2>2 DEF Next
<1>3. MemberTypes => TypeOK
  BY DEF MemberTypes
<1>. QED  BY <1>1, <1>2, <1>3, PTL DEF Spec

-----------------------------------------------------------------------------
(* The seats of the team.                                                  *)

\* The calls that hold a seat without a row in the team.
Holding == {"enrol", "unreserve", "free"}
Holders == {p \in Procs : pc[p] \in Holding}

\* What a call has counted: no more rows than there are seats, and one deleted row.
Counted ==
  \A p \in Procs : /\ pc[p] = "sync" => n[p] <= Seats
                   /\ pc[p] = "free" => n[p] = 1

SeatInv == TypeOK /\ TeamCapacity /\ Counted

\* How a step of p changes the number of those that hold a seat.
LEMMA HoldersChange ==
  ASSUME TypeOK, IsFiniteSet(Procs), NEW p \in Procs, NEW l, Goto(p, l)
  PROVE  /\ Cardinality(Holders) \in Nat /\ Cardinality(Holders') \in Nat
         /\ pc[p] \in Holding <=> p \in Holders
         /\ p \in Holders => Cardinality(Holders) >= 1
         /\ Cardinality(Holders') = IF l \in Holding
              THEN (IF pc[p] \in Holding THEN Cardinality(Holders) ELSE Cardinality(Holders) + 1)
              ELSE (IF pc[p] \in Holding THEN Cardinality(Holders) - 1 ELSE Cardinality(Holders))
<1>1. IsFiniteSet(Holders) /\ Cardinality(Holders) \in Nat
  BY FS_Subset, FS_CardinalityType DEF Holders
<1>2. Holders' = IF l \in Holding THEN Holders \cup {p} ELSE Holders \ {p}
  BY DEF Holders, TypeOK, Goto
<1>3. pc[p] \in Holding <=> p \in Holders
  BY DEF Holders
<1>4. p \in Holders => Cardinality(Holders) >= 1
  BY <1>1, FS_EmptySet
<1>5. IsFiniteSet(Holders') /\ Cardinality(Holders') \in Nat
  BY <1>1, <1>2, FS_AddElement, FS_RemoveElement, FS_CardinalityType
<1>6. Cardinality(Holders \cup {p}) = IF p \in Holders THEN Cardinality(Holders) ELSE Cardinality(Holders) + 1
  BY <1>1, FS_AddElement
<1>7. Cardinality(Holders \ {p}) = IF p \in Holders THEN Cardinality(Holders) - 1 ELSE Cardinality(Holders)
  BY <1>1, FS_RemoveElement
<1>. QED  BY <1>1, <1>2, <1>3, <1>4, <1>5, <1>6, <1>7

\* A step that leaves team and seats alone, and takes no seat.
LEMMA NoSeatTaken ==
  ASSUME MembershipAssumption, SeatInv, IsFiniteSet(Procs), NEW p \in Procs, NEW l, Goto(p, l),
         team' = team, seats' = seats, l \in Holding => pc[p] \in Holding,
         \A q \in Procs \ {p} : n'[q] = n[q],
         l = "sync" => n'[p] <= Seats, l # "free"
  PROVE  TeamCapacity' /\ Counted'
<1>1. Cardinality(team) \in Nat /\ seats \in Nat
  BY UsersFinite, FS_Subset, FS_CardinalityType DEF SeatInv, TypeOK
<1>2. Cardinality(team) + Cardinality(Holders) <= seats /\ seats <= Seats
  BY DEF SeatInv, TeamCapacity, Holders, Holding
<1>3. Cardinality(Holders') <= Cardinality(Holders) /\ Cardinality(Holders') \in Nat /\ Cardinality(Holders) \in Nat
  BY HoldersChange DEF SeatInv
<1>4. Cardinality(team') + Cardinality(Holders') <= seats'
  BY <1>1, <1>2, <1>3
<1>5. TeamCapacity'
  BY <1>2, <1>4 DEF TeamCapacity, Holders, Holding
<1>6. Counted'
  BY DEF Counted, SeatInv, TypeOK, Goto
<1>. QED  BY <1>5, <1>6

\* What a seat or a failure leads to holds no seat.
LEMMA OutcomeHoldsNone ==
  ASSUME TypeOK, NEW p \in Procs, Seated(p) \/ Failed(p) \/ Finish(p)
  PROVE  /\ \E l \in {"idle", "join", "release", "delete"} : Goto(p, l)
         /\ \A q \in Procs \ {p} : n'[q] = n[q]
<1>1. Finish(p) \/ \E l \in {"join", "release", "delete"} : Goto(p, l) /\ UNCHANGED local
  BY DEF Seated, Failed
<1>. QED  BY <1>1 DEF Finish, local, TypeOK

LEMMA SeatStep ==
  ASSUME MembershipAssumption, IsFiniteSet(Procs), SeatInv, TypeOK', NEW p \in Procs,
         Begin(p) \/ Continue(p) \/ Throw(p) \/ Crash(p)
  PROVE  TeamCapacity' /\ Counted'
<1>1. /\ IsFiniteSet(team) /\ Cardinality(team) \in Nat /\ seats \in Nat /\ Seats \in Nat
      /\ Cardinality(Holders) \in Nat
      /\ Cardinality(team) + Cardinality(Holders) <= seats /\ seats <= Seats
  <2>1. IsFiniteSet(Holders) /\ Cardinality(Holders) \in Nat
    BY FS_Subset, FS_CardinalityType DEF Holders
  <2>2. IsFiniteSet(team) /\ Cardinality(team) \in Nat
    BY UsersFinite, FS_Subset, FS_CardinalityType DEF SeatInv, TypeOK
  <2>. QED  BY <2>1, <2>2 DEF SeatInv, TeamCapacity, Holders, Holding, TypeOK, MembershipAssumption
<1>2. CASE Begin(p)
  <2>1. /\ \E l \in {"claim", "close", "create", "delete", "setRole", "seat", "unseat"} : Goto(p, l)
        /\ UNCHANGED <<team, seats, n>>
    BY <1>2 DEF Begin, Accept, Reject, Cancel, Add, AddTeam, RemoveTeam, Remove, Leave, SetRole, Start
  <2>. QED  BY <2>1, NoSeatTaken DEF Holding
<1>3. CASE \/ Claim(p) \/ Join(p) \/ Activate(p) \/ Release(p) \/ Close(p) \/ Create(p)
           \/ WriteRole(p) \/ Delete(p) \/ Seat(p) \/ Throw(p) \/ Crash(p)
  <2>1. /\ UNCHANGED <<team, seats>>
        /\ \/ Seated(p) \/ Failed(p) \/ Finish(p)
           \/ UNCHANGED n /\ \E l \in {"seat", "count", "activate", "unseat"} : Goto(p, l)
    BY <1>3 DEF Claim, Join, Activate, Release, Close, Create, WriteRole, Delete, Seat, Throw, Crash, local
  <2>2. /\ \E l \in {"idle", "join", "release", "delete", "seat", "count", "activate", "unseat"} : Goto(p, l)
        /\ \A q \in Procs \ {p} : n'[q] = n[q]
    BY <2>1, OutcomeHoldsNone DEF SeatInv
  <2>. QED  BY <2>1, <2>2, NoSeatTaken DEF Holding
<1>4. CASE Count(p)
  <2>1. Goto(p, "sync") /\ UNCHANGED <<team, seats>> /\ n'[p] = Cardinality(team)
        /\ \A q \in Procs \ {p} : n'[q] = n[q]
    BY <1>4 DEF Count, SeatInv, TypeOK
  <2>2. n'[p] <= Seats
    BY <1>1, <2>1
  <2>. QED  BY <2>1, <2>2, NoSeatTaken DEF Holding
<1>5. CASE Sync(p)
  <2>1. /\ pc[p] = "sync" /\ Goto(p, "reserve") /\ team' = team /\ n' = n
        /\ seats' = IF seats < n[p] THEN n[p] ELSE seats
    BY <1>5 DEF Sync, local
  <2>2. n[p] <= Seats /\ n[p] \in Nat
    BY <2>1 DEF SeatInv, TypeOK, Counted
  <2>3. seats' <= Seats /\ seats <= seats' /\ seats' \in Nat
    BY <1>1, <2>1, <2>2
  <2>4. Cardinality(Holders') = Cardinality(Holders)
    BY <2>1, HoldersChange DEF SeatInv, Holding
  <2>5. TeamCapacity'
    <3>1. Cardinality(team') + Cardinality(Holders') <= seats'
      BY <1>1, <2>1, <2>3, <2>4
    <3>. QED  BY <2>3, <3>1 DEF TeamCapacity, Holders, Holding
  <2>6. Counted'
    BY <2>1 DEF Counted, SeatInv, TypeOK, Goto
  <2>. QED  BY <2>5, <2>6
<1>6. CASE Reserve(p)
  <2>1. CASE Failed(p) /\ UNCHANGED seats
    <3>1. /\ \E l \in {"idle", "join", "release", "delete"} : Goto(p, l)
          /\ \A q \in Procs \ {p} : n'[q] = n[q]
      BY <2>1, OutcomeHoldsNone DEF SeatInv
    <3>. QED  BY <1>6, <2>1, <3>1, NoSeatTaken DEF Reserve, Holding
  <2>2. CASE seats < Seats /\ seats' = seats + 1 /\ Goto(p, "enrol") /\ UNCHANGED local
    <3>1. pc[p] = "reserve" /\ team' = team /\ n' = n
      BY <1>6, <2>2 DEF Reserve, local
    <3>2. Cardinality(Holders') = Cardinality(Holders) + 1
      BY <2>2, <3>1, HoldersChange DEF SeatInv, Holding
    <3>3. Cardinality(team') + Cardinality(Holders') <= seats' /\ seats' <= Seats
      BY <1>1, <2>2, <3>1, <3>2
    <3>4. TeamCapacity'
      BY <3>3 DEF TeamCapacity, Holders, Holding
    <3>5. Counted'
      BY <2>2, <3>1 DEF Counted, SeatInv, TypeOK, Goto
    <3>. QED  BY <3>4, <3>5
  <2>. QED  BY <1>6, <2>1, <2>2 DEF Reserve
<1>7. CASE Enrol(p)
  <2>1. pc[p] = "enrol" /\ team' = team \cup {who[p]} /\ seats' = seats
    BY <1>7 DEF Enrol
  <2>2. CASE who[p] \in team
    <3>1. Goto(p, "unreserve") /\ n' = n /\ team' = team
      BY <1>7, <2>1, <2>2 DEF Enrol
    <3>. QED  BY <2>1, <3>1, NoSeatTaken DEF Holding
  <2>3. CASE who[p] \notin team
    <3>1. /\ \E l \in {"idle", "join", "release", "delete"} : Goto(p, l)
          /\ \A q \in Procs \ {p} : n'[q] = n[q]
      BY <1>7, <2>3, OutcomeHoldsNone DEF Enrol, SeatInv
    <3>2. Cardinality(Holders') = Cardinality(Holders) - 1
      BY <2>1, <3>1, HoldersChange DEF SeatInv, Holding
    <3>3. Cardinality(team') = Cardinality(team) + 1
      BY <1>1, <2>1, <2>3, FS_AddElement
    <3>4. Cardinality(team') + Cardinality(Holders') <= seats'
      BY <1>1, <2>1, <3>2, <3>3
    <3>5. TeamCapacity'
      BY <1>1, <2>1, <3>4 DEF TeamCapacity, Holders, Holding
    <3>6. Counted'
      BY <3>1 DEF Counted, SeatInv, TypeOK, Goto
    <3>. QED  BY <3>5, <3>6
  <2>. QED  BY <2>2, <2>3
<1>8. CASE EnrolFails(p)
  BY <1>8, NoSeatTaken DEF EnrolFails, local, Holding
<1>9. CASE Unreserve(p) \/ Free(p)
  <2>1. /\ pc[p] \in {"unreserve", "free"} /\ team' = team
        /\ seats' = Less(IF pc[p] = "free" THEN n[p] ELSE 1)
        /\ Seated(p) \/ Failed(p) \/ Finish(p)
    BY <1>9 DEF Unreserve, Free
  <2>2. /\ \E l \in {"idle", "join", "release", "delete"} : Goto(p, l)
        /\ \A q \in Procs \ {p} : n'[q] = n[q]
    BY <2>1, OutcomeHoldsNone DEF SeatInv
  <2>3. Cardinality(Holders') = Cardinality(Holders) - 1 /\ Cardinality(Holders) >= 1
    BY <2>1, <2>2, HoldersChange DEF SeatInv, Holding
  <2>4. seats' = Less(1)
    BY <2>1 DEF SeatInv, Counted
  <2>5. seats' = seats - 1
    BY <1>1, <2>3, <2>4 DEF Less
  <2>6. Cardinality(team') + Cardinality(Holders') <= seats' /\ seats' <= Seats
    BY <1>1, <2>1, <2>3, <2>5
  <2>7. TeamCapacity'
    BY <2>6 DEF TeamCapacity, Holders, Holding
  <2>8. Counted'
    BY <2>2 DEF Counted, SeatInv, TypeOK, Goto
  <2>. QED  BY <2>7, <2>8
<1>10. CASE Unseat(p)
  <2>1. pc[p] = "unseat" /\ team' = team \ {who[p]} /\ seats' = seats
    BY <1>10 DEF Unseat
  <2>2. Deleted(who[p]) = IF who[p] \in team THEN 1 ELSE 0
    <3>1. {who[p]} \cap team = IF who[p] \in team THEN {who[p]} ELSE {}
      OBVIOUS
    <3>. QED  BY <3>1, FS_Singleton, FS_EmptySet DEF Deleted
  <2>3. CASE who[p] \notin team
    <3>1. Finish(p) /\ team' = team
      BY <1>10, <2>1, <2>2, <2>3 DEF Unseat
    <3>2. Goto(p, "idle") /\ \A q \in Procs \ {p} : n'[q] = n[q]
      BY <3>1 DEF Finish, SeatInv, TypeOK
    <3>. QED  BY <2>1, <3>1, <3>2, NoSeatTaken DEF Holding
  <2>4. CASE who[p] \in team
    <3>1. n' = [n EXCEPT ![p] = 1] /\ Goto(p, "free")
      BY <1>10, <2>2, <2>4 DEF Unseat
    <3>2. Cardinality(Holders') = Cardinality(Holders) + 1
      BY <2>1, <3>1, HoldersChange DEF SeatInv, Holding
    <3>3. Cardinality(team') = Cardinality(team) - 1
      BY <1>1, <2>1, <2>4, FS_RemoveElement
    <3>4. Cardinality(team') + Cardinality(Holders') <= seats'
      BY <1>1, <2>1, <3>2, <3>3
    <3>5. TeamCapacity'
      BY <1>1, <2>1, <3>4 DEF TeamCapacity, Holders, Holding
    <3>6. Counted'
      BY <3>1 DEF Counted, SeatInv, TypeOK, Goto
    <3>. QED  BY <3>5, <3>6
  <2>. QED  BY <2>3, <2>4
<1>. QED  BY <1>2, <1>3, <1>4, <1>5, <1>6, <1>7, <1>8, <1>9, <1>10 DEF Continue

\* For any number of calls, users and seats: the rows of the team and the seats that
\* calls hold (addTeamMemberWithLimit and removeTeamMember) are never more than the
\* counter of the team says, and that never more than the limit.
THEOREM TeamCapacityCorrect ==
  ASSUME MembershipAssumption, IsFiniteSet(Procs) PROVE Spec => []TeamCapacity
<1>1. Spec => []TypeOK
  BY MemberTypeCorrect
<1>2. TypeOK /\ Init => SeatInv
  <2>. SUFFICES ASSUME TypeOK, Init PROVE SeatInv
    OBVIOUS
  <2>1. {p \in Procs : pc[p] \in {"enrol", "unreserve", "free"}} = {}
    BY DEF Init, AtIdle
  <2>2. TeamCapacity
    <3>1. team = {} /\ seats = 0 /\ seats <= Seats
      BY DEF Init, MembershipAssumption
    <3>2. Cardinality({}) + Cardinality({}) <= 0
      BY FS_EmptySet
    <3>. QED  BY <2>1, <3>1, <3>2 DEF TeamCapacity
  <2>3. Counted
    BY DEF Init, AtIdle, Counted
  <2>. QED  BY <2>2, <2>3 DEF SeatInv
<1>3. SeatInv /\ TypeOK' /\ [Next]_vars => SeatInv'
  <2>. SUFFICES ASSUME SeatInv, TypeOK', [Next]_vars PROVE SeatInv'
    OBVIOUS
  <2>1. CASE UNCHANGED vars
    BY <2>1 DEF vars, SeatInv, TeamCapacity, Counted
  <2>2. ASSUME NEW p \in Procs, Begin(p) \/ Continue(p) \/ Throw(p) \/ Crash(p) PROVE SeatInv'
    BY <2>2, SeatStep DEF SeatInv
  <2>. QED  BY <2>1, <2>2 DEF Next
<1>4. SeatInv => TeamCapacity
  BY DEF SeatInv
<1>. QED  BY <1>1, <1>2, <1>3, <1>4, PTL DEF Spec

-----------------------------------------------------------------------------
(* The invitation.                                                         *)

\* Where a call is that has claimed the invitation and not given it back.
Claimed == {"seat", "count", "sync", "reserve", "enrol", "unreserve", "join", "activate", "release"}
Claimant(p) == op[p] = "accept" /\ pc[p] \in Claimed

\* Calls that accept are nowhere else, and nobody else is where only they go.
Accepting ==
  \A p \in Procs : /\ op[p] = "accept" => pc[p] \in {"claim"} \cup Claimed
                   /\ pc[p] \in {"claim", "join", "activate", "release"} => op[p] = "accept"

\* While one call has claimed the invitation, and once it has joined, no other can.
OneClaim ==
  /\ \A p, q \in Procs : Claimant(p) /\ Claimant(q) => p = q
  /\ \A p \in Procs : Claimant(p) => invitation # "pending"
  /\ \A p \in Procs : Claimant(p) /\ pc[p] # "activate" => joins = {}
  /\ \A p \in Procs : Claimant(p) /\ pc[p] = "activate" => joins = {row[p].id}
  /\ joins # {} => invitation # "pending"
  /\ JoinedOnce

\* Who accepted the invitation is still at work on it, has joined, or could not give
\* the invitation back.
Answered ==
  invitation = "accepted" => joins # {} \/ unreleased \/ \E p \in Procs : Claimant(p)

ClaimInv == TypeOK /\ Accepting /\ OneClaim

\* What changes when a call that has not claimed the invitation takes a step, or one
\* that has takes a step and still has it.
LEMMA NoClaimChanged ==
  ASSUME ClaimInv, NEW p \in Procs, NEW l, Goto(p, l), \A q \in Procs \ {p} : op'[q] = op[q],
         op'[p] = "accept" => l \in {"claim"} \cup Claimed,
         l \in {"claim", "join", "activate", "release"} => op'[p] = "accept",
         op'[p] = "accept" /\ l \in Claimed => Claimant(p) /\ "activate" \notin {pc[p], l},
         \A q \in Procs \ {p} : row'[q] = row[q],
         UNCHANGED history, invitation' = "pending" => invitation = "pending"
  PROVE  /\ Accepting' /\ OneClaim'
         /\ Answered /\ (Claimant(p) => op'[p] = "accept" /\ l \in Claimed)
              /\ (invitation' = "accepted" => invitation = "accepted") => Answered'
<1>1. pc' = [pc EXCEPT ![p] = l] /\ pc'[p] = l /\ \A q \in Procs \ {p} : pc'[q] = pc[q]
  BY DEF ClaimInv, TypeOK, Goto
<1>2. \A q \in Procs : Claimant(q)' => Claimant(q)
  BY <1>1 DEF Claimant
<1>3. Accepting'
  BY <1>1 DEF ClaimInv, Accepting
<1>4. OneClaim'
  <2>1. joins' = joins
    BY DEF history
  <2>2. \A q \in Procs \ {p} : Claimant(q)' => (pc'[q] = pc[q] /\ row'[q] = row[q])
    BY <1>1
  <2>3. Claimant(p)' => pc[p] # "activate" /\ pc'[p] # "activate"
    BY <1>1 DEF Claimant
  <2>4. \A q \in Procs : Claimant(q)' /\ pc'[q] # "activate" => joins' = {}
    BY <1>2, <2>1, <2>2, <2>3 DEF ClaimInv, OneClaim
  <2>5. \A q \in Procs : Claimant(q)' /\ pc'[q] = "activate" => joins' = {row'[q].id}
    BY <1>2, <2>1, <2>2, <2>3 DEF ClaimInv, OneClaim
  <2>6. /\ \A q \in Procs : Claimant(q)' => invitation' # "pending"
        /\ joins' # {} => invitation' # "pending"
        /\ JoinedOnce'
    BY <1>2, <2>1 DEF ClaimInv, OneClaim, JoinedOnce
  <2>. QED  BY <1>2, <2>4, <2>5, <2>6 DEF ClaimInv, OneClaim
<1>5. ASSUME Claimant(p) => op'[p] = "accept" /\ l \in Claimed, NEW q \in Procs, Claimant(q)
      PROVE  Claimant(q)'
  BY <1>1, <1>5 DEF Claimant
<1>6. Answered /\ (Claimant(p) => op'[p] = "accept" /\ l \in Claimed)
         /\ (invitation' = "accepted" => invitation = "accepted") => Answered'
  BY <1>5 DEF Answered, history
<1>. QED  BY <1>3, <1>4, <1>6

\* Whoever leaves the invitation alone, be it a call that has claimed it or not.
LEMMA BeginClaims ==
  ASSUME ClaimInv, NEW p \in Procs, Begin(p)
  PROVE  Accepting' /\ OneClaim' /\ (Answered => Answered')
<1>1. /\ UNCHANGED <<history, invitation>> /\ pc[p] = "idle"
      /\ \A q \in Procs \ {p} : row'[q] = row[q]
      /\ \E l, o : /\ Goto(p, l) /\ op' = [op EXCEPT ![p] = o]
                   /\ o = "accept" <=> l = "claim"
                   /\ l \notin {"join", "activate", "release"}
  <2>1. \E o, l, u, r : /\ Start(p, o, u, r, l)
                        /\ (o = "accept" /\ l = "claim") \/
                             (o # "accept" /\ l \in {"close", "create", "delete", "setRole", "seat", "unseat"})
    BY DEF Begin, Accept, Reject, Cancel, Add, AddTeam, RemoveTeam, Remove, Leave, SetRole
  <2>. QED  BY <2>1 DEF Start, ClaimInv, TypeOK
<1>2. PICK l, o : /\ Goto(p, l) /\ op' = [op EXCEPT ![p] = o]
                  /\ o = "accept" <=> l = "claim"
                  /\ l \notin {"join", "activate", "release"}
  BY <1>1
<1>3. op'[p] = o /\ ~Claimant(p) /\ \A q \in Procs \ {p} : op'[q] = op[q]
  BY <1>1, <1>2 DEF ClaimInv, TypeOK, Claimant, Claimed
<1>. QED  BY <1>1, <1>2, <1>3, NoClaimChanged DEF Claimed

LEMMA ContinueClaims ==
  ASSUME ClaimInv, NEW p \in Procs, Continue(p) \/ Throw(p) \/ Crash(p)
  PROVE  Accepting' /\ OneClaim' /\ (Answered /\ ~Crash(p) => Answered')
<1>. USE DEF ClaimInv, TypeOK
<1>0. ASSUME Finish(p)
      PROVE  /\ Goto(p, "idle") /\ op'[p] = "none"
             /\ \A q \in Procs \ {p} : op'[q] = op[q] /\ row'[q] = row[q]
  BY <1>0 DEF Finish
<1>1. CASE Claim(p)
  <2>1. pc[p] = "claim" /\ op[p] = "accept" /\ ~Claimant(p) /\ UNCHANGED history
    BY <1>1 DEF Claim, Accepting, Claimant, Claimed
  <2>2. CASE Pending
    <3>1. invitation = "pending" /\ invitation' = "accepted" /\ Goto(p, "seat") /\ op' = op
      BY <1>1, <2>2 DEF Claim, Pending, local
    <3>2. pc' = [pc EXCEPT ![p] = "seat"] /\ pc'[p] = "seat"
      BY <3>1 DEF Goto
    <3>3. joins' = {} /\ \A q \in Procs : ~Claimant(q)
      BY <2>1, <3>1 DEF OneClaim, history
    <3>4. \A q \in Procs : Claimant(q)' <=> q = p
      BY <2>1, <3>1, <3>2, <3>3 DEF Claimant, Claimed
    <3>5. Accepting'
      BY <2>1, <3>1, <3>2 DEF Accepting, Claimed
    <3>6. OneClaim'
      BY <3>1, <3>2, <3>3, <3>4 DEF OneClaim, JoinedOnce
    <3>7. Answered'
      BY <3>4 DEF Answered
    <3>. QED  BY <3>5, <3>6, <3>7
  <2>3. CASE ~Pending
    <3>1. Finish(p) /\ invitation' = invitation
      BY <1>1, <2>3 DEF Claim
    <3>. QED  BY <1>0, <2>1, <3>1, NoClaimChanged DEF Claimed
  <2>. QED  BY <2>2, <2>3
\* Who is done leaves no claim, and the last to claim the invitation was he.
<1>2. ASSUME Claimant(p), Finish(p)
      PROVE  Accepting' /\ \A q \in Procs : ~Claimant(q)'
  <2>1. pc' = [pc EXCEPT ![p] = "idle"] /\ pc'[p] = "idle" /\ op'[p] = "none"
    BY <1>2 DEF Finish, Goto
  <2>2. \A q \in Procs \ {p} : ~Claimant(q)
    BY <1>2 DEF OneClaim
  <2>. QED  BY <1>0, <1>2, <2>1, <2>2 DEF Accepting, Claimant
<1>3. CASE Activate(p)
  <2>1. /\ pc[p] = "activate" /\ Claimant(p) /\ Finish(p)
        /\ joins = {row[p].id} /\ joins' = joins
        /\ invitation' = invitation /\ invitation # "pending"
    BY <1>3 DEF Activate, Accepting, Claimant, Claimed, OneClaim, history
  <2>2. OneClaim' /\ Answered'
    BY <1>2, <2>1 DEF OneClaim, Answered, JoinedOnce
  <2>. QED  BY <1>2, <2>1, <2>2
<1>4. CASE Release(p)
  <2>1. /\ Claimant(p) /\ joins = {} /\ joins' = joins
        /\ invitation' # "accepted" /\ Finish(p)
    BY <1>4 DEF Release, AfterFailure, Accepting, Claimant, Claimed, OneClaim, history
  <2>2. OneClaim' /\ Answered'
    BY <1>2, <2>1 DEF OneClaim, Answered, JoinedOnce
  <2>. QED  BY <1>2, <2>1, <2>2
<1>5. CASE Crash(p)
  <2>1. Finish(p) /\ UNCHANGED <<history, invitation>>
    BY <1>5 DEF Crash
  <2>. QED  BY <1>0, <1>5, <2>1, NoClaimChanged
<1>6. CASE Join(p)
  <2>1. /\ pc[p] = "join" /\ Claimant(p) /\ Goto(p, "activate")
        /\ UNCHANGED <<invitation, op>> /\ row' = [row EXCEPT ![p].id = made']
        /\ joins' = joins \cup {made'}
    BY <1>6 DEF Join, Accepting, Claimant, Claimed
  <2>2. pc' = [pc EXCEPT ![p] = "activate"] /\ pc'[p] = "activate" /\ row'[p].id = made'
    BY <2>1 DEF Goto
  <2>3. joins' = {row'[p].id} /\ invitation # "pending"
    BY <2>1, <2>2 DEF OneClaim
  <2>4. \A q \in Procs : Claimant(q)' <=> q = p
    <3>1. \A q \in Procs \ {p} : ~Claimant(q)
      BY <2>1 DEF OneClaim
    <3>. QED  BY <2>1, <2>2, <3>1 DEF Claimant, Claimed
  <2>5. Accepting'
    BY <2>1, <2>2 DEF Accepting, Claimant, Claimed
  <2>6. OneClaim'
    BY <2>1, <2>2, <2>3, <2>4 DEF OneClaim, JoinedOnce
  <2>7. Answered'
    BY <2>3 DEF Answered
  <2>. QED  BY <2>5, <2>6, <2>7
<1>7. CASE Throw(p) /\ pc[p] = "activate"
  <2>1. /\ Claimant(p) /\ Goto(p, "release") /\ UNCHANGED <<invitation, local>>
        /\ joins' = joins \ {row[p].id}
    BY <1>7 DEF Throw, Work, Failed, Accepting, Claimant, Claimed
  <2>2. pc' = [pc EXCEPT ![p] = "release"] /\ pc'[p] = "release" /\ UNCHANGED <<op, row>>
    BY <2>1 DEF Goto, local
  <2>3. joins' = {} /\ invitation # "pending"
    BY <1>7, <2>1 DEF OneClaim
  <2>4. \A q \in Procs : Claimant(q)' <=> q = p
    <3>1. \A q \in Procs \ {p} : ~Claimant(q)
      BY <2>1 DEF OneClaim
    <3>. QED  BY <2>1, <2>2, <3>1 DEF Claimant, Claimed
  <2>5. Accepting'
    BY <2>1, <2>2 DEF Accepting, Claimant, Claimed
  <2>6. OneClaim'
    BY <2>1, <2>2, <2>3, <2>4 DEF OneClaim, JoinedOnce
  <2>7. Answered'
    BY <2>4 DEF Answered
  <2>. QED  BY <2>5, <2>6, <2>7
<1>8. CASE Throw(p) /\ pc[p] = "release"
  <2>1. /\ Claimant(p) /\ Finish(p) /\ joins = {} /\ joins' = joins /\ invitation' = invitation
        /\ invitation = "accepted" => unreleased'
    BY <1>8 DEF Throw, Work, Accepting, Claimant, Claimed, OneClaim
  <2>2. OneClaim' /\ Answered'
    BY <1>2, <2>1 DEF OneClaim, Answered, JoinedOnce
  <2>. QED  BY <1>2, <2>1, <2>2
<1>9. CASE \/ Close(p) \/ WriteRole(p) \/ Unseat(p) \/ Free(p) \/ Delete(p) \/ Create(p)
           \/ Throw(p) /\ pc[p] \notin Work \cup {"release"}
  <2>1. /\ ~Claimant(p) /\ UNCHANGED history
        /\ invitation' \in {invitation, "rejected", "canceled"}
    BY <1>9 DEF Close, WriteRole, Unseat, Free, Delete, Create, Throw, Work, Accepting, Claimant,
       Claimed, history
  <2>2. \/ Finish(p)
        \/ /\ op[p] # "accept" /\ UNCHANGED op /\ \A q \in Procs \ {p} : row'[q] = row[q]
           /\ \E l \in {"seat", "unseat", "free"} : Goto(p, l)
    BY <1>9 DEF Close, WriteRole, Unseat, Free, Delete, Create, Throw, Accepting, Claimed, local
  <2>3. CASE Finish(p)
    BY <1>0, <2>1, <2>3, NoClaimChanged
  <2>4. CASE ~Finish(p)
    BY <2>1, <2>2, <2>4, NoClaimChanged
  <2>. QED  BY <2>3, <2>4
<1>10. CASE \/ Seat(p) \/ Count(p) \/ Sync(p) \/ Reserve(p) \/ Enrol(p) \/ EnrolFails(p) \/ Unreserve(p)
            \/ Throw(p) /\ pc[p] \in Work \ {"activate"}
  <2>1. /\ UNCHANGED <<history, invitation>> /\ pc[p] \in Claimed \ {"activate", "release"}
        /\ \/ Seated(p) \/ Failed(p)
           \/ /\ UNCHANGED <<op, row>>
              /\ \E l \in {"count", "sync", "reserve", "enrol", "unreserve"} : Goto(p, l)
    BY <1>10 DEF Seat, Count, Sync, Reserve, Enrol, EnrolFails, Unreserve, Throw, Work, local, history,
       Claimed
  <2>2. CASE op[p] = "accept"
    <3>1. Claimant(p)
      BY <2>1, <2>2 DEF Claimant
    <3>2. UNCHANGED <<op, row>> /\ \E l \in Claimed \ {"activate"} : Goto(p, l)
      BY <2>1, <2>2 DEF Seated, Failed, local, Claimed
    <3>. QED  BY <2>1, <2>2, <3>1, <3>2, NoClaimChanged
  <2>3. CASE op[p] # "accept"
    <3>1. /\ ~Claimant(p) /\ pc[p] \notin {"join", "activate", "release"}
      BY <2>1, <2>3 DEF Claimant, Accepting
    <3>2. \/ Finish(p)
          \/ /\ UNCHANGED <<op, row>>
             /\ \E l \in {"count", "sync", "reserve", "enrol", "unreserve", "delete"} : Goto(p, l)
      BY <2>1, <2>3, <3>1 DEF Seated, Failed, local
    <3>3. CASE Finish(p)
      BY <1>0, <2>1, <3>1, <3>3, NoClaimChanged
    <3>4. CASE ~Finish(p)
      BY <2>1, <2>3, <3>1, <3>2, <3>4, NoClaimChanged
    <3>. QED  BY <3>3, <3>4
  <2>. QED  BY <2>2, <2>3
<1>11. Throw(p) => \/ pc[p] \in Work \ {"activate"} \/ pc[p] \in {"activate", "release"}
                   \/ pc[p] \notin Work \cup {"release"}
  OBVIOUS
<1>. QED  BY <1>1, <1>3, <1>4, <1>5, <1>6, <1>7, <1>8, <1>9, <1>10, <1>11 DEF Continue

LEMMA ClaimInvariance == MembershipAssumption => (Spec => []ClaimInv)
<1>. SUFFICES ASSUME MembershipAssumption PROVE Spec => []ClaimInv
  OBVIOUS
<1>1. Spec => []TypeOK
  BY MemberTypeCorrect
<1>2. TypeOK /\ Init => ClaimInv
  BY DEF Init, AtIdle, ClaimInv, Accepting, OneClaim, JoinedOnce, Claimant, Claimed
<1>3. ClaimInv /\ TypeOK' /\ [Next]_vars => ClaimInv'
  <2>. SUFFICES ASSUME ClaimInv, TypeOK', [Next]_vars PROVE ClaimInv'
    OBVIOUS
  <2>1. CASE UNCHANGED vars
    BY <2>1 DEF vars, ClaimInv, Accepting, OneClaim, JoinedOnce, Claimant
  <2>2. ASSUME NEW p \in Procs, Begin(p) \/ Continue(p) \/ Throw(p) \/ Crash(p) PROVE ClaimInv'
    BY <2>2, BeginClaims, ContinueClaims DEF ClaimInv
  <2>. QED  BY <2>1, <2>2 DEF Next
<1>. QED  BY <1>1, <1>2, <1>3, PTL DEF Spec

\* However many calls accept the invitation (acceptInvitation), reject or cancel it, and
\* wherever they fail or die: of the member rows they make one at most is that of a call
\* that has not failed after making it.  (Of a call that did, the row stays, too.)
THEOREM JoinedOnceCorrect == ASSUME MembershipAssumption PROVE Spec => []JoinedOnce
<1>1. ClaimInv => JoinedOnce
  BY DEF ClaimInv, OneClaim
<1>. QED  BY <1>1, ClaimInvariance, PTL

\* Unless the server dies, or the update that gives the claim back fails as well, an
\* invitation that says accepted is one by which the invited user has joined, or by which
\* a call is still about to: a call that fails gives it back.
THEOREM NotStrandedCorrect ==
  ASSUME MembershipAssumption, "crash" \notin Faults PROVE Spec => []NotStranded
<1>1. Spec => []ClaimInv
  BY ClaimInvariance
<1>2. Init => Answered
  BY DEF Init, Answered
<1>3. ClaimInv /\ Answered /\ [Next]_vars => Answered'
  <2>. SUFFICES ASSUME ClaimInv, Answered, [Next]_vars PROVE Answered'
    OBVIOUS
  <2>1. CASE UNCHANGED vars
    BY <2>1 DEF vars, Answered, Claimant
  <2>2. ASSUME NEW p \in Procs, Begin(p) \/ Continue(p) \/ Throw(p) \/ Crash(p) PROVE Answered'
    <3>1. ~Crash(p)
      BY DEF Crash
    <3>. QED  BY <2>2, <3>1, BeginClaims, ContinueClaims
  <2>. QED  BY <2>1, <2>2 DEF Next
<1>4. Answered => NotStranded
  BY DEF Answered, NotStranded, Claimant, Claimed
<1>. QED  BY <1>1, <1>2, <1>3, <1>4, PTL DEF Spec

-----------------------------------------------------------------------------
(* Calls that do not overlap leave an owner.                               *)

OneCall == \A p, q \in Procs : p = q

\* There is an owner besides the member a call is about to delete, to make a plain member,
\* or to delete if its seat fails; once the rows are deleted it does not matter any more.
Spare(i) == \E j \in OwnerRows : j # i

Spared ==
  \A p \in Procs : \/ pc[p] \in {"idle", "unseat", "free"}
                   \/ pc[p] = "setRole" /\ row[p].role = "owner"
                   \/ Spare(row[p].id)

OwnerInv == TypeOK /\ OwnerRemains /\ Spared

\* What MaySpare counts is that there is another owner.
LEMMA MaySpareIsSpare ==
  ASSUME TypeOK, OwnerRemains, NEW i, MaySpare(i) PROVE Spare(i)
<1>1. CASE i \notin OwnerRows
  BY <1>1 DEF OwnerRemains, Spare
<1>2. CASE i \in OwnerRows
  <2>. SUFFICES ASSUME OwnerRows \subseteq {i} PROVE FALSE
    BY DEF Spare
  <2>1. OwnerRows = {i}
    BY <1>2
  <2>2. Cardinality(OwnerRows) = 1
    BY <2>1, FS_Singleton
  <2>. QED  BY <1>2, <2>2 DEF MaySpare
<1>. QED  BY <1>1, <1>2

\* Ids start with one, and NoRow has none.
LEMMA SpareOfNoRow ==
  ASSUME TypeOK, OwnerRemains PROVE Spare(NoRow.id) /\ Spare(made + 1)
<1>1. \A j \in OwnerRows : j \in 1 .. made
  BY DEF TypeOK, OwnerRows
<1>2. made \in Nat /\ NoRow.id = 0
  BY DEF TypeOK, NoRow
<1>. QED  BY <1>1, <1>2 DEF Spare, OwnerRemains

\* A call that begins has looked at the owners.
LEMMA BeginSpares ==
  ASSUME OneCall, OwnerInv, NEW p \in Procs, Begin(p) PROVE OwnerRemains' /\ Spared'
<1>1. \A i : MaySpare(i) => Spare(i)
  BY MaySpareIsSpare DEF OwnerInv
<1>2. Spare(NoRow.id)
  BY SpareOfNoRow DEF OwnerInv
<1>3. members' = members
  BY DEF Begin, Accept, Reject, Cancel, Add, AddTeam, RemoveTeam, Remove, Leave, SetRole, Start
<1>4. \/ pc'[p] = "unseat"
      \/ Spare(row'[p].id)
      \/ pc'[p] = "setRole" /\ row'[p].role = "owner"
  <2>0. \A o, u, r, l : Start(p, o, u, r, l) => pc'[p] = l /\ row'[p] = r
    BY DEF Start, Goto, OwnerInv, TypeOK
  <2>1. CASE Accept(p) \/ Reject(p) \/ Cancel(p)
    BY <1>2, <2>0, <2>1 DEF Accept, Reject, Cancel
  <2>2. ASSUME NEW u \in Users, Add(p, u) \/ AddTeam(p, u) \/ RemoveTeam(p, u)
        PROVE  pc'[p] = "unseat" \/ Spare(row'[p].id)
    BY <1>2, <2>0, <2>2 DEF Add, AddTeam, RemoveTeam
  <2>3. ASSUME NEW i \in DOMAIN members, Remove(p, i) \/ Leave(p, i) PROVE Spare(row'[p].id)
    <3>1. MaySpare(i) /\ row'[p] = [id |-> i, role |-> "member"]
      BY <2>0, <2>3 DEF Remove, Leave
    <3>. QED  BY <1>1, <3>1
  <2>4. ASSUME NEW i \in DOMAIN members, NEW a \in DOMAIN members, NEW r \in Roles, SetRole(p, a, i, r)
        PROVE  Spare(row'[p].id) \/ (pc'[p] = "setRole" /\ row'[p].role = "owner")
    <3>1. row'[p] = [id |-> i, role |-> r] /\ pc'[p] = "setRole" /\ a \in OwnerRows
      BY <2>0, <2>4 DEF SetRole
    <3>2. CASE a # i
      BY <3>1, <3>2 DEF Spare
    <3>3. CASE a = i /\ r # "owner"
      BY <1>1, <2>4, <3>1, <3>3 DEF SetRole
    <3>. QED  BY <3>1, <3>2, <3>3
  <2>. QED  BY <2>1, <2>2, <2>3, <2>4 DEF Begin
<1>5. OwnerRows' = OwnerRows
  BY <1>3 DEF OwnerRows
<1>6. \A i : Spare(i)' <=> Spare(i)
  BY <1>5 DEF Spare
<1>7. \A q \in Procs : q = p
  BY DEF OneCall
<1>8. Spared'
  BY <1>4, <1>5, <1>7 DEF Spared, Spare
<1>. QED  BY <1>5, <1>8 DEF OwnerInv, OwnerRemains

\* A call that goes on with the row it had, or is past deleting, spares an owner if the
\* owners stay.
LEMMA StillSpared ==
  ASSUME OneCall, OwnerInv, NEW p \in Procs, OwnerRows \subseteq OwnerRows',
         \/ pc'[p] \in {"idle", "unseat", "free"}
         \/ pc[p] \notin {"idle", "unseat", "free", "setRole"} /\ row'[p] = row[p]
         \/ row'[p].id = made + 1
  PROVE  OwnerRemains' /\ Spared'
<1>1. OwnerRemains'
  BY DEF OwnerInv, OwnerRemains
<1>2. Spare(made + 1)
  BY SpareOfNoRow DEF OwnerInv
<1>3. \/ pc'[p] \in {"idle", "unseat", "free"}
      \/ \E j \in OwnerRows : j # row'[p].id
  BY <1>2 DEF OwnerInv, Spared, Spare
<1>. QED  BY <1>1, <1>3 DEF OneCall, Spared, Spare

\* The steps that leave the members alone.
LEMMA QuietSpares ==
  ASSUME OneCall, OwnerInv, NEW p \in Procs,
         \/ Claim(p) \/ Activate(p) \/ Release(p) \/ Close(p) \/ Seat(p) \/ Count(p) \/ Sync(p) \/ Reserve(p)
         \/ Enrol(p) \/ EnrolFails(p) \/ Unreserve(p) \/ Unseat(p) \/ Free(p) \/ Throw(p) \/ Crash(p)
  PROVE  OwnerRemains' /\ Spared'
<1>1. Finish(p) => pc'[p] = "idle"
  BY DEF Finish, Goto, OwnerInv, TypeOK
<1>2. Seated(p) \/ Failed(p) => pc'[p] = "idle" \/ row' = row
  BY <1>1 DEF Seated, Failed, local
<1>3. \/ pc'[p] \in {"idle", "unseat", "free"}
      \/ pc[p] \notin {"idle", "unseat", "free", "setRole"} /\ row'[p] = row[p]
  <2>1. CASE Claim(p) \/ Activate(p) \/ Release(p) \/ Close(p) \/ Free(p) \/ Crash(p)
    BY <1>1, <2>1 DEF Claim, Activate, Release, Close, Free, Crash, local
  <2>2. CASE Seat(p) \/ Reserve(p) \/ Enrol(p) \/ Unreserve(p)
    BY <1>2, <2>2 DEF Seat, Reserve, Enrol, Unreserve, local
  <2>5. CASE Throw(p)
    BY <1>1, <1>2, <2>5 DEF Throw, Work
  <2>3. CASE Count(p) \/ Sync(p) \/ EnrolFails(p)
    BY <2>3 DEF Count, Sync, EnrolFails, local
  <2>4. CASE Unseat(p)
    BY <1>1, <2>4 DEF Unseat, Goto, OwnerInv, TypeOK
  <2>. QED  BY <2>1, <2>2, <2>3, <2>4, <2>5
<1>4. members' = members
  BY DEF Claim, Activate, Release, Close, Seat, Count, Sync, Reserve, Enrol, EnrolFails, Unreserve, Unseat,
         Free, Throw, Crash
<1>5. OwnerRows \subseteq OwnerRows'
  BY <1>4 DEF OwnerRows
<1>. QED  BY <1>3, <1>5, StillSpared

\* The steps that write members.
LEMMA WriteSpares ==
  ASSUME OneCall, OwnerInv, NEW p \in Procs, Join(p) \/ Create(p) \/ WriteRole(p) \/ Delete(p)
  PROVE  OwnerRemains' /\ Spared'
<1>0. /\ pc[p] \in Labels
      /\ \A l : Goto(p, l) => pc'[p] = l
      /\ Finish(p) => pc'[p] = "idle"
  BY DEF Finish, Goto, OwnerInv, TypeOK
<1>1. CASE Join(p) \/ Create(p)
  <2>1. CreateMember(who[p])
    BY <1>1 DEF Join, Create
  <2>2. OwnerRows \subseteq OwnerRows'
    <3>1. \A i \in DOMAIN members : i # made'
      BY <2>1 DEF CreateMember, OwnerInv, TypeOK
    <3>. QED  BY <2>1, <3>1 DEF CreateMember, OwnerRows
  <2>3. \/ pc'[p] = "idle"
        \/ pc[p] \notin {"idle", "unseat", "free", "setRole"} /\ row'[p] = row[p]
        \/ row'[p].id = made + 1
    BY <1>0, <1>1, <2>1 DEF Join, Create, CreateMember, local, OwnerInv, TypeOK
  <2>. QED  BY <2>2, <2>3, StillSpared
<1>2. CASE WriteRole(p)
  <2>1. pc[p] = "setRole" /\ pc'[p] = "idle" /\ DOMAIN members' = DOMAIN members
    BY <1>0, <1>2 DEF WriteRole
  <2>2. \A i \in DOMAIN members :
          /\ i # row[p].id => members'[i] = members[i]
          /\ i = row[p].id => members'[i].role = row[p].role
    BY <1>2 DEF WriteRole, OwnerInv, TypeOK, Member
  <2>3. OwnerRemains'
    <3>1. CASE row[p].role = "owner"
      <4>1. OwnerRows \subseteq OwnerRows'
        BY <2>1, <2>2, <3>1 DEF OwnerRows
      <4>. QED  BY <4>1 DEF OwnerInv, OwnerRemains
    <3>2. CASE row[p].role # "owner"
      <4>1. PICK j \in OwnerRows : j # row[p].id
        BY <2>1, <3>2 DEF OwnerInv, Spared, Spare
      <4>2. j \in OwnerRows'
        BY <2>1, <2>2, <4>1 DEF OwnerRows
      <4>. QED  BY <4>2 DEF OwnerRemains
    <3>. QED  BY <3>1, <3>2
  <2>. QED  BY <2>1, <2>3 DEF OneCall, Spared
<1>3. CASE Delete(p)
  <2>1. pc[p] = "delete" /\ pc'[p] = "unseat"
    BY <1>0, <1>3 DEF Delete
  <2>2. PICK j \in OwnerRows : j # row[p].id
    BY <2>1 DEF OwnerInv, Spared, Spare
  <2>3. j \in OwnerRows'
    BY <1>3, <2>2 DEF Delete, OwnerRows
  <2>. QED  BY <2>1, <2>3 DEF OneCall, Spared, OwnerRemains
<1>. QED  BY <1>1, <1>2, <1>3

\* If the calls do not overlap the organization keeps an owner, also if a call dies between
\* two awaits: each looks for a second owner before it deletes a member or changes a role, and
\* deletes what it made itself otherwise.  Calls that overlap can remove the last two owners.
THEOREM OwnerRemainsCorrect ==
  ASSUME MembershipAssumption, OneCall PROVE Spec => []OwnerRemains
<1>1. Spec => []TypeOK
  BY MemberTypeCorrect
<1>2. Init => OwnerRemains /\ Spared
  <2>. SUFFICES ASSUME Init PROVE OwnerRemains /\ Spared
    OBVIOUS
  <2>1. PICK u \in Owners : TRUE
    BY DEF MembershipAssumption
  <2>2. PICK order \in [1 .. Cardinality(Owners) -> Owners] :
          /\ \A v \in Owners : \E i \in DOMAIN order : order[i] = v
          /\ members = [i \in DOMAIN order |-> [user |-> order[i], role |-> "owner"]]
    BY DEF Init
  <2>3. PICK i \in DOMAIN order : order[i] = u
    BY <2>2
  <2>4. i \in OwnerRows
    BY <2>2, <2>3 DEF OwnerRows
  <2>. QED  BY <2>4 DEF Init, AtIdle, OwnerRemains, Spared
<1>3. TypeOK /\ OwnerRemains /\ Spared /\ [Next]_vars => (OwnerRemains /\ Spared)'
  <2>. SUFFICES ASSUME OwnerInv, [Next]_vars PROVE OwnerRemains' /\ Spared'
    BY DEF OwnerInv
  <2>1. CASE UNCHANGED vars
    BY <2>1 DEF vars, OwnerInv, OwnerRemains, Spared, Spare, OwnerRows
  <2>2. ASSUME NEW p \in Procs, Begin(p) \/ Continue(p) \/ Throw(p) \/ Crash(p)
        PROVE  OwnerRemains' /\ Spared'
    BY <2>2, BeginSpares, QuietSpares, WriteSpares DEF Continue
  <2>. QED  BY <2>1, <2>2 DEF Next
<1>. QED  BY <1>1, <1>2, <1>3, PTL DEF Spec

-----------------------------------------------------------------------------
(***************************************************************************)
(* DeviceCodes: a device code is redeemed once, by whom it was approved for.*)
(***************************************************************************)

-----------------------------------------------------------------------------
(* The inductive invariant.                                                *)

\* Who is about to write a verdict has the code, as nobody else can take it.
Verdicts ==
  \A p \in Procs : pc[p] \in {"approve", "deny"} =>
    user[p] # "nobody" /\ \A c \in code : c.owner = user[p]

\* The session is still in the code, in the hands of one call, or created or lost.
OneTurn ==
  /\ ~requested => code = {} /\ \A p \in Procs : pc[p] = "idle"
  /\ \A p \in Procs : pc[p] = "mint" =>
       /\ requested /\ code = {} /\ minted = 0
       /\ \A q \in Procs : pc[q] = "mint" => q = p
  /\ minted # 0 => requested /\ code = {} /\ minted = 1

DeviceInv == Device!TypeOK /\ Verdicts /\ OneTurn

-----------------------------------------------------------------------------
(* Steps.                                                                  *)

LEMMA DeviceFinishType ==
  ASSUME Device!TypeOK, NEW p \in Procs, Device!Finish(p)
  PROVE  /\ pc' = [pc EXCEPT ![p] = "idle"] /\ pc' \in [Procs -> Device!Labels]
         /\ user' = [user EXCEPT ![p] = "nobody"] /\ user' \in [Procs -> Approvers \cup {"nobody"}]
         /\ seen' \in [Procs -> SUBSET Device!Row]
BY DEF Device!TypeOK, Device!Finish, Device!Goto, Device!Labels

\* A call that reads the row before it is going to write to it.
LEMMA DeviceReadStep ==
  ASSUME DeviceInv, NEW p \in Procs, NEW u \in Approvers, NEW l \in {"claim", "approve", "deny"},
         Device!Read(p, u, l), l # "claim" => u # "nobody" /\ \A c \in code : c.owner = u
  PROVE  DeviceInv'
<1> USE DEF DeviceInv
<1>1. PICK c \in code : seen' = [seen EXCEPT ![p] = {c}]
  BY DEF Device!Read
<1>2. {c} \in SUBSET Device!Row
  BY DEF Device!TypeOK
<1>3. seen' \in [Procs -> SUBSET Device!Row]
  BY <1>1, <1>2 DEF Device!TypeOK
<1>4. /\ pc' = [pc EXCEPT ![p] = l] /\ user' = [user EXCEPT ![p] = u] /\ pc[p] = "idle"
      /\ now' = now /\ requested' = requested /\ code' = code /\ minted' = minted
  BY DEF Device!Read, Device!Goto
<1>5. Device!TypeOK'
  BY <1>3, <1>4 DEF Device!TypeOK, Device!Labels, Device!Row
<1>6. Verdicts'
  BY <1>4 DEF Verdicts, Device!TypeOK
<1>7. OneTurn'
  BY <1>4 DEF OneTurn, Device!TypeOK
<1> QED
  BY <1>5, <1>6, <1>7

\* A call that ends, and has changed the row without its owner or deleted it.
LEMMA DeviceEndStep ==
  ASSUME DeviceInv, Device!TypeOK', NEW p \in Procs, Device!Finish(p),
         requested' = requested, minted' = minted,
         \A d \in code' : \E c \in code : d.owner = c.owner \/ (c.owner = "nobody" /\ pc[p] = "claim")
  PROVE  DeviceInv'
<1> USE DEF DeviceInv
<1>1. pc' = [pc EXCEPT ![p] = "idle"] /\ user' = [user EXCEPT ![p] = "nobody"]
  BY DeviceFinishType
<1>2. Verdicts'
  BY <1>1 DEF Verdicts, Device!TypeOK
<1>3. OneTurn'
  BY <1>1 DEF OneTurn, Device!TypeOK
<1> QED
  BY <1>2, <1>3

LEMMA DeviceInit == Device!DeviceAssumption /\ Device!Init => DeviceInv
<1> SUFFICES ASSUME Device!Init
             PROVE  DeviceInv
  OBVIOUS
<1>1. Device!TypeOK
  BY DEF Device!Init, Device!TypeOK, Device!Labels
<1>2. Verdicts /\ OneTurn
  BY DEF Device!Init, Verdicts, OneTurn
<1> QED
  BY <1>1, <1>2 DEF DeviceInv

LEMMA DeviceStep ==
  ASSUME Device!DeviceAssumption, DeviceInv, [Device!Next]_(Device!vars)
  PROVE  DeviceInv'
<1> USE DEF DeviceInv
<1>1. CASE UNCHANGED Device!vars
  BY <1>1 DEF Device!vars, Device!TypeOK, Device!Row, Verdicts, OneTurn
<1>2. CASE Device!Request
  <2>1. PICK u \in Approvers \cup {"nobody"} :
          code' = {[status |-> "pending", owner |-> u, polled |-> 0, exp |-> now + Lifetime]}
    BY <1>2 DEF Device!Request
  <2>2. now + Lifetime \in Nat
    BY DEF Device!TypeOK, Device!DeviceAssumption
  <2>3. Device!TypeOK'
    BY <1>2, <2>1, <2>2 DEF Device!Request, Device!TypeOK, Device!Row
  <2>4. Verdicts'
    <3>1. \A p \in Procs : pc[p] = "idle"
      BY <1>2 DEF Device!Request, OneTurn
    <3> QED
      BY <1>2, <3>1 DEF Device!Request, Verdicts
  <2>5. OneTurn'
    BY <1>2 DEF Device!Request, OneTurn
  <2> QED
    BY <2>3, <2>4, <2>5
<1>3. CASE Device!Tick
  BY <1>3 DEF Device!Tick, Device!TypeOK, Device!Row, Verdicts, OneTurn
<1>4. ASSUME NEW p \in Procs, Device!Step(p)
      PROVE  DeviceInv'
  <2>0. requested = TRUE \/ (pc[p] = "idle" /\ code = {})
    BY DEF OneTurn, Device!TypeOK
  <2>1. CASE \E u \in Approvers : Device!Verify(p, u) \/ Device!Decide(p, u, "approve") \/ Device!Decide(p, u, "deny")
    <3>1. PICK u \in Approvers : Device!Verify(p, u) \/ Device!Decide(p, u, "approve") \/ Device!Decide(p, u, "deny")
      BY <2>1
    <3>2. u # "nobody"
      BY DEF Device!DeviceAssumption
    <3> QED
      BY <3>1, <3>2, DeviceReadStep DEF Device!Verify, Device!Decide
  <2>2. CASE Device!Claim(p)
    <3>1. Device!Finish(p) /\ UNCHANGED <<now, requested, minted>> /\ pc[p] = "claim"
      BY <2>2 DEF Device!Claim
    <3> DEFINE claimed(c) == IF c \in Device!Claimable THEN [c EXCEPT !.owner = user[p]] ELSE c
    <3>2. code' = {claimed(c) : c \in code}
      BY <2>2 DEF Device!Claim
    <3>3. \A c \in code : claimed(c) \in Device!Row /\ (claimed(c).owner = c.owner \/ c.owner = "nobody")
      BY DEF Device!TypeOK, Device!Row, Device!Claimable
    <3> HIDE DEF claimed
    <3>4. code' \subseteq Device!Row /\ \A c, d \in code' : c = d
      BY <3>2, <3>3 DEF Device!TypeOK
    <3>5. Device!TypeOK'
      BY <3>1, <3>4, DeviceFinishType DEF Device!TypeOK, Device!Row
    <3> QED
      BY <3>1, <3>2, <3>3, <3>5, DeviceEndStep
  <2>3. CASE Device!Write(p)
    <3>1. Device!Finish(p) /\ UNCHANGED <<now, requested, minted>> /\ pc[p] \in {"approve", "deny"}
      BY <2>3 DEF Device!Write
    <3> DEFINE decided(c) ==
                 [c EXCEPT !.status = IF pc[p] = "approve" THEN "approved" ELSE "denied",
                           !.owner = user[p]]
    <3>2. code' = {decided(c) : c \in code}
      BY <2>3 DEF Device!Write
    <3>3. \A c \in code : decided(c) \in Device!Row /\ decided(c).owner = c.owner
      BY <3>1 DEF Device!TypeOK, Device!Row, Verdicts
    <3> HIDE DEF decided
    <3>4. code' \subseteq Device!Row /\ \A c, d \in code' : c = d
      BY <3>2, <3>3 DEF Device!TypeOK
    <3>5. Device!TypeOK'
      BY <3>1, <3>4, DeviceFinishType DEF Device!TypeOK, Device!Row
    <3> QED
      BY <3>1, <3>2, <3>3, <3>5, DeviceEndStep
  <2>4. CASE Device!Poll(p)
    <3>1. PICK c \in code : seen' = [seen EXCEPT ![p] = {c}]
      BY <2>4 DEF Device!Poll
    <3>2. {c} \in SUBSET Device!Row
      BY DEF Device!TypeOK
    <3>3. seen' \in [Procs -> SUBSET Device!Row]
      BY <3>1, <3>2 DEF Device!TypeOK
    <3>4. /\ pc' = [pc EXCEPT ![p] = "poll"] /\ pc[p] = "idle"
          /\ UNCHANGED <<now, requested, code, user, minted>>
      BY <2>4 DEF Device!Poll, Device!Goto
    <3>5. Device!TypeOK'
      BY <3>3, <3>4 DEF Device!TypeOK, Device!Labels, Device!Row
    <3>6. Verdicts'
      BY <3>4 DEF Verdicts, Device!TypeOK
    <3>7. OneTurn'
      BY <3>4 DEF OneTurn, Device!TypeOK
    <3> QED
      BY <3>5, <3>6, <3>7
  <2>5. CASE Device!Stamp(p)
    <3> DEFINE stamped(c) == [c EXCEPT !.polled = now + 1]
    <3>1. code' = {stamped(c) : c \in code} /\ UNCHANGED <<now, requested, minted>>
      BY <2>5 DEF Device!Stamp
    <3>2. \A c \in code : stamped(c) \in Device!Row /\ stamped(c).owner = c.owner
      BY DEF Device!TypeOK, Device!Row
    <3> HIDE DEF stamped
    <3>3. code' \subseteq Device!Row /\ \A c, d \in code' : c = d
      BY <3>1, <3>2 DEF Device!TypeOK
    <3>4. \/ Device!Finish(p)
          \/ \E l \in {"delete", "redeem"} : Device!Goto(p, l) /\ UNCHANGED <<user, seen>>
      <4>1. PICK c \in seen[p] :
              CASE c.exp < now \/ c.status = "denied" -> Device!Goto(p, "delete") /\ UNCHANGED <<user, seen>>
                [] c.exp >= now /\ c.status = "pending" -> Device!Finish(p)
                [] c.exp >= now /\ c.status = "approved" -> Device!Goto(p, "redeem") /\ UNCHANGED <<user, seen>>
        BY <2>5 DEF Device!Stamp
      <4>2. c \in Device!Row /\ now \in Nat
        BY DEF Device!TypeOK
      <4>3. c.exp \in Nat /\ c.status \in {"pending", "approved", "denied"}
        BY <4>2 DEF Device!Row
      <4>4. CASE c.exp < now \/ c.status = "denied"
        BY <4>1, <4>3, <4>4
      <4>5. CASE c.exp >= now /\ c.status = "pending"
        BY <4>1, <4>2, <4>3, <4>5
      <4>6. CASE c.exp >= now /\ c.status = "approved"
        BY <4>1, <4>2, <4>3, <4>6
      <4> QED
        BY <4>2, <4>3, <4>4, <4>5, <4>6
    <3>5. CASE Device!Finish(p)
      <4>1. Device!TypeOK'
        BY <3>1, <3>3, <3>5, DeviceFinishType DEF Device!TypeOK, Device!Row
      <4> QED
        BY <3>1, <3>2, <3>5, <4>1, DeviceEndStep
    <3>6. ASSUME NEW l \in {"delete", "redeem"}, Device!Goto(p, l), UNCHANGED <<user, seen>>
          PROVE  DeviceInv'
      <4>1. Device!TypeOK'
        BY <3>1, <3>3, <3>6 DEF Device!TypeOK, Device!Row, Device!Goto, Device!Labels
      <4>2. Verdicts'
        BY <3>1, <3>2, <3>6 DEF Verdicts, Device!TypeOK, Device!Goto
      <4>3. OneTurn'
        BY <2>5, <2>0, <3>1, <3>6 DEF OneTurn, Device!TypeOK, Device!Goto, Device!Stamp
      <4> QED
        BY <4>1, <4>2, <4>3
    <3> QED
      BY <3>4, <3>5, <3>6
  <2>6. CASE Device!Delete(p)
    <3>1. Device!Finish(p) /\ UNCHANGED <<now, requested, minted>> /\ code' = {}
      BY <2>6 DEF Device!Delete
    <3>2. Device!TypeOK'
      BY <3>1, DeviceFinishType DEF Device!TypeOK, Device!Row
    <3> QED
      BY <3>1, <3>2, DeviceEndStep
  <2>7. CASE Device!Redeem(p)
    <3>1. UNCHANGED <<now, requested, minted>> /\ code' \subseteq code
      BY <2>7 DEF Device!Redeem, Device!CodeAfterConsume
    <3>2. CASE \E c \in code : c.status = "approved"
      <4>1. Device!Goto(p, "mint") /\ UNCHANGED <<user, seen>> /\ code # {} /\ code' = {} /\ requested
        BY <2>7, <2>0, <3>2 DEF Device!Redeem, Device!CodeAfterConsume, Device!TypeOK
      <4>2. Device!TypeOK'
        BY <3>1, <4>1 DEF Device!TypeOK, Device!Row, Device!Goto, Device!Labels
      <4>3. Verdicts'
        BY <4>1 DEF Verdicts, Device!TypeOK, Device!Goto
      <4>4. OneTurn'
        BY <3>1, <4>1 DEF OneTurn, Device!TypeOK, Device!Goto
      <4> QED
        BY <4>2, <4>3, <4>4
    <3>3. CASE ~\E c \in code : c.status = "approved"
      <4>1. Device!Finish(p)
        BY <2>7, <3>3 DEF Device!Redeem
      <4>2. Device!TypeOK'
        BY <3>1, <4>1, DeviceFinishType DEF Device!TypeOK, Device!Row
      <4> QED
        BY <3>1, <4>1, <4>2, DeviceEndStep
    <3> QED
      BY <3>2, <3>3
  <2>8. CASE Device!Mint(p)
    <3>1. /\ Device!Finish(p) /\ UNCHANGED <<now, requested, code>> /\ pc[p] = "mint"
          /\ minted' = minted + 1
      BY <2>8 DEF Device!Mint
    <3>2. pc' = [pc EXCEPT ![p] = "idle"] /\ user' = [user EXCEPT ![p] = "nobody"]
      BY <3>1, DeviceFinishType
    <3>3. Device!TypeOK'
      BY <3>1, DeviceFinishType DEF Device!TypeOK, Device!Row
    <3>4. Verdicts'
      BY <3>1, <3>2 DEF Verdicts, Device!TypeOK
    <3>5. OneTurn'
      BY <3>1, <3>2 DEF OneTurn, Device!TypeOK
    <3> QED
      BY <3>3, <3>4, <3>5
  <2>9. CASE Device!Throw(p)
    <3>1. Device!Finish(p) /\ UNCHANGED <<now, requested, code, minted>>
      BY <2>9 DEF Device!Throw
    <3>2. Device!TypeOK'
      BY <3>1, DeviceFinishType DEF Device!TypeOK, Device!Row
    <3> QED
      BY <3>1, <3>2, DeviceEndStep
  <2> QED
    BY <1>4, <2>1, <2>2, <2>3, <2>4, <2>5, <2>6, <2>7, <2>8, <2>9 DEF Device!Step
<1> QED
  BY <1>1, <1>2, <1>3, <1>4 DEF Device!Next

\* The row of a code belongs to whoever a step finds it with.
LEMMA DeviceOwnerStep ==
  ASSUME Device!DeviceAssumption, DeviceInv, [Device!Next]_(Device!vars)
  PROVE  Device!OwnerKept
<1> USE DEF DeviceInv
<1> SUFFICES ASSUME NEW c \in code, NEW d \in code', c.owner # "nobody"
             PROVE  d.owner = c.owner
  BY DEF Device!OwnerKept
<1>1. c \in Device!Row /\ \A e \in code : e = c
  BY DEF Device!TypeOK
<1>2. CASE code' \subseteq code
  BY <1>1, <1>2
<1>3. CASE Device!Request
  BY <1>3 DEF Device!Request, OneTurn
<1>4. ASSUME NEW p \in Procs, Device!Claim(p) \/ Device!Write(p) \/ Device!Stamp(p)
      PROVE  d.owner = c.owner
  <2>1. CASE Device!Claim(p)
    BY <2>1, <1>1 DEF Device!Claim, Device!Claimable
  <2>2. CASE Device!Write(p)
    BY <2>2, <1>1 DEF Device!Write, Verdicts, Device!Row
  <2>3. CASE Device!Stamp(p)
    BY <2>3, <1>1 DEF Device!Stamp, Device!Row
  <2> QED
    BY <1>4, <2>1, <2>2, <2>3
<1>5. \/ code' \subseteq code \/ Device!Request
      \/ \E p \in Procs : Device!Claim(p) \/ Device!Write(p) \/ Device!Stamp(p)
  BY DEF Device!Next, Device!Step, Device!vars, Device!Tick, Device!Verify, Device!Decide, Device!Read, Device!Poll, Device!Delete, Device!Redeem, Device!Mint, Device!Throw,
         Device!CodeAfterConsume
<1> QED
  BY <1>2, <1>3, <1>4, <1>5

-----------------------------------------------------------------------------
(* Theorems.                                                               *)

\* Every variable has its type, and there is one row of the code at most.
THEOREM DeviceTypeCorrect == ASSUME Device!DeviceAssumption PROVE Device!Spec => []Device!TypeOK
<1>1. Device!Init => DeviceInv
  BY DeviceInit
<1>2. DeviceInv /\ [Device!Next]_(Device!vars) => DeviceInv'
  BY DeviceStep
<1>3. DeviceInv => Device!TypeOK
  BY DEF DeviceInv
<1> QED
  BY <1>1, <1>2, <1>3, PTL DEF Device!Spec

\* However many polls overlap, are retried or fail, the device gets one session: the
\* row is consumed by one of them.
THEOREM RedeemedOnceCorrect == ASSUME Device!DeviceAssumption PROVE Device!Spec => []Device!RedeemedOnce
<1>1. Device!Init => DeviceInv
  BY DeviceInit
<1>2. DeviceInv /\ [Device!Next]_(Device!vars) => DeviceInv'
  BY DeviceStep
<1>3. DeviceInv => Device!RedeemedOnce
  BY DEF DeviceInv, OneTurn, Device!TypeOK, Device!RedeemedOnce
<1> QED
  BY <1>1, <1>2, <1>3, PTL DEF Device!Spec

\* Approve and deny write the row by its id and whatever it says by then, and yet no
\* code changes hands.
THEOREM OwnerStaysCorrect == ASSUME Device!DeviceAssumption PROVE Device!Spec => Device!OwnerStays
<1>1. Device!Init => DeviceInv
  BY DeviceInit
<1>2. DeviceInv /\ [Device!Next]_(Device!vars) => DeviceInv'
  BY DeviceStep
<1>3. DeviceInv /\ [Device!Next]_(Device!vars) => [Device!OwnerKept]_(Device!vars)
  BY DeviceOwnerStep
<1> QED
  BY <1>1, <1>2, <1>3, PTL DEF Device!Spec, Device!OwnerStays

-----------------------------------------------------------------------------
(***************************************************************************)
(* ApiKeys: the uses, the requests of a window and the refills of a key.   *)
(***************************************************************************)

-----------------------------------------------------------------------------
(* The inductive invariant.                                                *)

\* A call knows one key at most.
KeyKnown == \A p \in Procs : \A k, l \in seen[p] : k = l

\* What was taken and what is left are no more than what was granted.
Uses == used <= Grant /\ \A r \in row : used + r.left <= Grant

\* The requests of a burst are counted in the row.
Requests == Max # 0 => burst <= Max /\ \A r \in row : burst <= r.count /\ r.count <= Max

\* Who is about to refill has found that due.
RefillDue ==
  \A p \in Procs : pc[p] = "refill" =>
    /\ seen[p] # {}
    /\ \A k \in seen[p] : at[p] - (IF k.refilled = 0 THEN 1 ELSE k.refilled) > Refill

\* A row that is gone does not come back.
KeyGone == \A p \in late : row = {} /\ pc[p] # "publish"

KeyInv == Key!TypeOK /\ KeyKnown /\ Uses /\ Requests /\ RefillDue /\ KeyGone

-----------------------------------------------------------------------------
(* Steps.                                                                  *)

\* A call goes on, and perhaps with another key or none.
LEMMA KeyGoType ==
  ASSUME Key!TypeOK, KeyKnown, NEW p \in Procs, NEW l \in Key!Labels, NEW K \in SUBSET Key!Key,
         \A j, k \in K : j = k, Key!Goto(p, l), Key!Know(p, K)
  PROVE  /\ pc' \in [Procs -> Key!Labels] /\ pc' = [pc EXCEPT ![p] = l]
         /\ seen' \in [Procs -> SUBSET Key!Key] /\ seen' = [seen EXCEPT ![p] = K]
         /\ KeyKnown'
<1>1. pc' \in [Procs -> Key!Labels] /\ seen' \in [Procs -> SUBSET Key!Key]
  BY DEF Key!TypeOK, Key!Goto, Key!Know
<1>2. KeyKnown'
  BY DEF Key!TypeOK, KeyKnown, Key!Know
<1> QED
  BY <1>1, <1>2 DEF Key!Goto, Key!Know

\* Steps that leave the row as it is, or delete it, and do not lead to a refill.
LEMMA KeyQuietStep ==
  ASSUME KeyInv, NEW p \in Procs, NEW l \in Key!Labels, NEW K \in SUBSET Key!Key, \A j, k \in K : j = k,
         Key!Goto(p, l), Key!Know(p, K), l # "refill", l = "publish" => row # {},
         now' = now, row' = row \/ row' = {}, cache' \subseteq Key!Key, \A j, k \in cache' : j = k,
         used' = used, burst' = burst,
         at' = at \/ at' = [at EXCEPT ![p] = now],
         late' = late \/ (row = {} /\ late' = late \cup {p}) \/ late' = late \ {p},
         row' = {} => row = {} \/ l # "publish"
  PROVE  KeyInv'
<1> USE DEF KeyInv
<1>1. /\ pc' \in [Procs -> Key!Labels] /\ pc' = [pc EXCEPT ![p] = l]
      /\ seen' \in [Procs -> SUBSET Key!Key] /\ seen' = [seen EXCEPT ![p] = K] /\ KeyKnown'
  BY KeyGoType
<1>2. at' \in [Procs -> Nat] /\ \A q \in Procs \ {p} : at'[q] = at[q]
  BY DEF Key!TypeOK
<1>3. Key!TypeOK'
  BY <1>1, <1>2 DEF Key!TypeOK, Key!Key
<1>4. Uses' /\ Requests'
  BY DEF Uses, Requests
<1>5. RefillDue'
  BY <1>1, <1>2 DEF RefillDue, Key!TypeOK
<1>6. KeyGone'
  BY <1>1 DEF KeyGone, Key!TypeOK
<1> QED
  BY <1>1, <1>3, <1>4, <1>5, <1>6

\* Steps that write the row.
LEMMA KeyWriteStep ==
  ASSUME KeyInv, NEW p \in Procs, NEW l \in Key!Labels, Key!Goto(p, l), Key!Know(p, row'),
         l # "refill", l = "publish" => row # {},
         row = {} => row' = {}, row' \subseteq Key!Key, \A j, k \in row' : j = k,
         now' = now, cache' = cache, at' = at, late' = late,
         used' \in Nat, burst' \in Nat, Uses', Requests'
  PROVE  KeyInv'
<1> USE DEF KeyInv
<1>1. row' \in SUBSET Key!Key
  OBVIOUS
<1>2. /\ pc' \in [Procs -> Key!Labels] /\ pc' = [pc EXCEPT ![p] = l]
      /\ seen' \in [Procs -> SUBSET Key!Key] /\ seen' = [seen EXCEPT ![p] = row'] /\ KeyKnown'
  BY <1>1, KeyGoType
<1>3. Key!TypeOK'
  BY <1>1, <1>2 DEF Key!TypeOK, Key!Key
<1>4. RefillDue'
  BY <1>2 DEF RefillDue, Key!TypeOK
<1>5. KeyGone'
  BY <1>2 DEF KeyGone, Key!TypeOK
<1> QED
  BY <1>2, <1>3, <1>4, <1>5

LEMMA KeyInit == Key!ApiKeyAssumption /\ Key!Init => KeyInv
<1> SUFFICES ASSUME Key!ApiKeyAssumption, Key!Init
             PROVE  KeyInv
  OBVIOUS
<1>1. Grant \in Nat \ {0} /\ Max \in Nat
  BY DEF Key!ApiKeyAssumption
<1>2. Key!TypeOK
  BY <1>1 DEF Key!Init, Key!TypeOK, Key!Labels, Key!Key
<1>3. KeyKnown /\ Uses /\ Requests /\ RefillDue /\ KeyGone
  BY <1>1 DEF Key!Init, KeyKnown, Uses, Requests, RefillDue, KeyGone
<1> QED
  BY <1>2, <1>3 DEF KeyInv

LEMMA RefillStep ==
  ASSUME Key!ApiKeyAssumption, KeyInv, NEW p \in Procs, Key!RefillKey(p)
  PROVE  KeyInv'
<1> USE DEF KeyInv
<1>1. CASE Key!NotRefilled(p) = {}
  <2>1. /\ Key!Goto(p, "take") /\ UNCHANGED <<now, row, seen, cache, at, late, used, burst>>
    BY <1>1 DEF Key!RefillKey
  <2>2. /\ Key!Know(p, seen[p]) /\ seen[p] \in SUBSET Key!Key /\ \A j, k \in seen[p] : j = k
    BY <2>1 DEF Key!Know, Key!TypeOK, KeyKnown
  <2> QED
    BY <2>1, <2>2, KeyQuietStep DEF Key!TypeOK, Key!Labels
<1>2. CASE Key!NotRefilled(p) # {}
  <2> DEFINE refilled(r) == [r EXCEPT !.left = Grant - 1, !.refilled = at[p]]
  <2>1. /\ row' = {refilled(r) : r \in row} /\ used' = 1 /\ Key!Know(p, row')
        /\ Key!Goto(p, Key!Counting) /\ UNCHANGED <<now, cache, at, late, burst>>
    BY <1>2 DEF Key!RefillKey
  <2>2. \A r \in row : /\ refilled(r) \in Key!Key /\ refilled(r).left = Grant - 1
                       /\ refilled(r).count = r.count
    <3>1. Grant - 1 \in 0 .. Grant /\ at[p] \in Nat
      BY DEF Key!TypeOK, Key!ApiKeyAssumption
    <3>2. \A r \in row : r \in Key!Key
      BY DEF Key!TypeOK
    <3> QED
      BY <3>1, <3>2 DEF Key!Key
  <2> HIDE DEF refilled
  <2>3. row' \subseteq Key!Key /\ \A j, k \in row' : j = k
    BY <2>1, <2>2 DEF Key!TypeOK
  <2>4. Uses'
    BY <2>1, <2>2 DEF Uses, Key!ApiKeyAssumption
  <2>5. Requests'
    BY <2>1, <2>2 DEF Requests
  <2> QED
    BY <2>1, <2>3, <2>4, <2>5, KeyWriteStep DEF Key!Counting, Key!Labels, Key!TypeOK
<1> QED
  BY <1>1, <1>2

LEMMA TakeStep ==
  ASSUME Key!ApiKeyAssumption, KeyInv, NEW p \in Procs, Key!Take(p)
  PROVE  KeyInv'
<1> USE DEF KeyInv
<1>1. CASE ~Key!UsesLeft
  BY <1>1, KeyQuietStep DEF Key!Take, Key!Finish, Key!TypeOK, Key!Labels
<1>2. CASE Key!UsesLeft
  <2> DEFINE taken(r) == [r EXCEPT !.left = @ - 1]
  <2>1. /\ row' = {taken(r) : r \in row} /\ used' = used + 1 /\ Key!Know(p, row')
        /\ Key!Goto(p, Key!Counting) /\ UNCHANGED <<now, cache, at, late, burst>>
    BY <1>2 DEF Key!Take
  <2>2. \A r \in row : /\ taken(r) \in Key!Key /\ taken(r).left = r.left - 1
                       /\ taken(r).count = r.count /\ r.left \in Nat
    <3>1. \A r \in row : r.left > 0
      BY <1>2 DEF Key!UsesLeft, Key!TypeOK
    <3> QED
      BY <3>1 DEF Key!TypeOK, Key!Key, Key!ApiKeyAssumption
  <2> HIDE DEF taken
  <2>3. row' \subseteq Key!Key /\ \A j, k \in row' : j = k
    BY <2>1, <2>2 DEF Key!TypeOK
  <2>4. Uses'
    <3>1. PICK r \in row : r.left > 0
      BY <1>2 DEF Key!UsesLeft
    <3> QED
      BY <2>1, <2>2, <3>1 DEF Uses, Key!TypeOK, Key!ApiKeyAssumption
  <2>5. Requests'
    BY <2>1, <2>2 DEF Requests
  <2> QED
    BY <2>1, <2>3, <2>4, <2>5, KeyWriteStep DEF Key!Counting, Key!Labels, Key!TypeOK
<1> QED
  BY <1>1, <1>2

\* A window is opened, or a request is counted in one.
LEMMA CountStep ==
  ASSUME Key!ApiKeyAssumption, KeyInv, NEW p \in Procs, Key!Open(p) \/ Key!Increment(p)
  PROVE  KeyInv'
<1> USE DEF KeyInv
<1> DEFINE R == IF pc[p] = "increment" THEN Key!MayCount(p) ELSE Key!MayOpen(p)
           counted(r) == [r EXCEPT !.count = IF pc[p] = "increment" THEN @ + 1 ELSE 1,
                                   !.last = at[p]]
<1>1. /\ pc[p] \in {"start", "reset", "increment"} /\ Key!Counted(p, R) /\ R \subseteq row
  BY DEF Key!Open, Key!Increment, Key!MayCount, Key!MayOpen
<1>2. CASE R = {}
  <2>1. Key!Goto(p, "reread") /\ UNCHANGED <<now, row, seen, cache, at, late, used, burst>>
    BY <1>1, <1>2 DEF Key!Counted
  <2>2. /\ Key!Know(p, seen[p]) /\ seen[p] \in SUBSET Key!Key /\ \A j, k \in seen[p] : j = k
    BY <2>1 DEF Key!Know, Key!TypeOK, KeyKnown
  <2> QED
    BY <2>1, <2>2, KeyQuietStep DEF Key!TypeOK, Key!Labels
<1>3. CASE R # {}
  <2>1. PICK r \in row : r \in R /\ row = {r} /\ R = {r}
    BY <1>1, <1>3 DEF Key!TypeOK
  <2>2. r \in Key!Key /\ r.count \in Nat /\ r.last \in Nat /\ r.left \in 0 .. Grant /\ at[p] \in Nat
        /\ Window \in Nat /\ Max \in Nat /\ burst \in Nat
    BY DEF Key!TypeOK, Key!Key, Key!ApiKeyAssumption
  <2>3. /\ row' = {counted(x) : x \in R} /\ Key!Know(p, row') /\ burst' = Key!BurstAfter(p)
        /\ Key!Goto(p, "stamp") /\ UNCHANGED <<now, cache, at, late, used>>
    BY <1>1, <1>3 DEF Key!Counted
  <2>4. row' = {counted(r)}
    BY <2>1, <2>3
  <2>5. /\ counted(r) \in Key!Key /\ counted(r).left = r.left
        /\ counted(r).count = IF pc[p] = "increment" THEN r.count + 1 ELSE 1
    <3> DEFINE c == IF pc[p] = "increment" THEN r.count + 1 ELSE 1
    <3>1. c \in Nat
      BY <2>2
    <3>2. counted(r) = [r EXCEPT !.count = c, !.last = at[p]]
      OBVIOUS
    <3> HIDE DEF c, counted
    <3>3. counted(r) \in Key!Key /\ counted(r).left = r.left /\ counted(r).count = c
      BY <2>2, <3>1, <3>2 DEF Key!Key
    <3> QED
      BY <3>3 DEF c
  <2> HIDE DEF counted
  <2>6. Uses'
    BY <2>1, <2>3, <2>4, <2>5 DEF Uses
  <2>7. burst' \in Nat
    BY <2>2, <2>3 DEF Key!BurstAfter
  <2>8. Requests'
    <3> SUFFICES ASSUME Max # 0
                 PROVE  burst' <= counted(r).count /\ counted(r).count <= Max
      BY <2>2, <2>4, <2>5, <2>7 DEF Requests
    <3>1. CASE pc[p] = "increment"
      <4>1. r.count < Max
        BY <2>1, <3>1 DEF Key!MayCount
      <4>2. burst <= r.count
        BY DEF Requests
      <4>3. burst' \in {burst + 1, 1}
        BY <2>3 DEF Key!BurstAfter
      <4> QED
        BY <2>2, <2>5, <3>1, <4>1, <4>2, <4>3
    <3>2. CASE pc[p] # "increment"
      <4>1. r.last = 0 \/ r.last <= at[p] - Window
        BY <2>1, <3>2 DEF Key!MayOpen
      <4>2. burst' = 1
        BY <2>1, <2>2, <2>3, <4>1 DEF Key!BurstAfter
      <4> QED
        BY <2>2, <2>5, <3>2, <4>2
    <3> QED
      BY <3>1, <3>2
  <2> QED
    BY <2>1, <2>3, <2>4, <2>5, <2>6, <2>7, <2>8, KeyWriteStep DEF Key!Labels, Key!TypeOK
<1> QED
  BY <1>2, <1>3

LEMMA KeyStep ==
  ASSUME Key!ApiKeyAssumption, KeyInv, [Key!Next]_(Key!vars)
  PROVE  KeyInv'
<1> USE DEF KeyInv
<1>1. CASE UNCHANGED Key!vars
  BY <1>1 DEF Key!vars, Key!TypeOK, Key!Key, KeyKnown, Uses, Requests, RefillDue, KeyGone
<1>2. CASE Key!Evicted
  BY <1>2 DEF Key!Evicted, Key!TypeOK, Key!Key, KeyKnown, Uses, Requests, RefillDue, KeyGone
<1>3. CASE Key!Tick
  BY <1>3 DEF Key!Tick, Key!TypeOK, Key!Key, KeyKnown, Uses, Requests, RefillDue, KeyGone
<1>4. ASSUME NEW p \in Procs, Key!Step(p)
      PROVE  KeyInv'
  <2>0. /\ row \in SUBSET Key!Key /\ \A j, k \in row : j = k
        /\ cache \in SUBSET Key!Key /\ \A j, k \in cache : j = k
        /\ seen[p] \in SUBSET Key!Key /\ \A j, k \in seen[p] : j = k
        /\ (UNCHANGED seen => Key!Know(p, seen[p]))
    BY DEF Key!TypeOK, KeyKnown, Key!Know
  <2>1. CASE Key!Verify(p)
    <3>1. PICK l \in {"lookup", "read"} : Key!Goto(p, l)
      BY <2>1 DEF Key!Verify
    <3>2. /\ UNCHANGED <<now, row, cache, seen, at, used, burst>>
          /\ (row = {} /\ late' = late \cup {p}) \/ late' = late \ {p}
      BY <2>1 DEF Key!Verify
    <3> QED
      BY <2>0, <3>1, <3>2, KeyQuietStep DEF Key!Labels
  <2>2. CASE Key!Lookup(p)
    BY <2>2, <2>0, KeyQuietStep DEF Key!Lookup, Key!Labels
  <2>3. CASE Key!Read(p)
    BY <2>3, <2>0, KeyQuietStep DEF Key!Read, Key!Labels
  <2>4. CASE Key!Populate(p)
    BY <2>4, <2>0, KeyQuietStep DEF Key!Populate, Key!Labels
  <2>5. CASE Key!Judge(p)
    <3>1. PICK k \in seen[p] :
            IF ~k.enabled
            THEN Key!Finish(p)
            ELSE /\ Key!Goto(p, IF ~Limited THEN Key!Counting
                            ELSE IF k.left = 0 /\ Refill = 0 THEN (IF Cached THEN "evict" ELSE "remove")
                            ELSE IF Key!RefillDue(k) THEN "refill" ELSE "take")
                 /\ UNCHANGED seen
      BY <2>5 DEF Key!Judge
    <3>2. at' = [at EXCEPT ![p] = now] /\ UNCHANGED <<now, row, cache, late, used, burst>>
      BY <2>5 DEF Key!Judge
    <3>3. CASE Key!Finish(p)
      BY <3>2, <3>3, <2>0, KeyQuietStep DEF Key!Finish, Key!Labels
    <3>4. ASSUME NEW l \in {"stamp", "rate", "evict", "remove", "take"},
                 Key!Goto(p, l), UNCHANGED seen
          PROVE  KeyInv'
      BY <3>2, <3>4, <2>0, KeyQuietStep DEF Key!Labels
    <3>5. CASE Key!Goto(p, "refill") /\ UNCHANGED seen /\ Key!RefillDue(k)
      <4>1. /\ pc' \in [Procs -> Key!Labels] /\ pc' = [pc EXCEPT ![p] = "refill"]
        BY <3>5 DEF Key!Goto, Key!TypeOK, Key!Labels
      <4>2. at' \in [Procs -> Nat]
        BY <3>2 DEF Key!TypeOK
      <4>3. Key!TypeOK'
        BY <3>2, <3>5, <4>1, <4>2 DEF Key!TypeOK, Key!Key
      <4>4. KeyKnown' /\ Uses' /\ Requests' /\ KeyGone'
        BY <3>2, <3>5, <4>1 DEF KeyKnown, Uses, Requests, KeyGone, Key!TypeOK
      <4>5. RefillDue'
        <5>1. at'[p] = now /\ \A j \in seen[p] : j = k
          BY <3>2, <2>0 DEF Key!TypeOK
        <5> QED
          BY <3>2, <3>5, <4>1, <5>1 DEF RefillDue, Key!TypeOK, Key!RefillDue
      <4> QED
        BY <4>3, <4>4, <4>5
    <3> QED
      BY <3>1, <3>3, <3>4, <3>5 DEF Key!Counting
  <2>6. CASE Key!Evict(p)
    BY <2>6, <2>0, KeyQuietStep DEF Key!Evict, Key!Labels
  <2>7. CASE Key!Remove(p)
    BY <2>7, <2>0, KeyQuietStep DEF Key!Remove, Key!Finish, Key!Labels
  <2>8. CASE Key!Rate(p)
    <3>1. \/ Key!Finish(p)
          \/ \E l \in {"start", "reset", "increment"} : Key!Goto(p, l) /\ UNCHANGED seen
      BY <2>8 DEF Key!Rate
    <3>2. at' = [at EXCEPT ![p] = now] /\ UNCHANGED <<now, row, cache, late, used, burst>>
      BY <2>8 DEF Key!Rate
    <3> QED
      BY <3>1, <3>2, <2>0, KeyQuietStep DEF Key!Finish, Key!Labels
  <2>9. CASE Key!Reread(p)
    BY <2>9, <2>0, KeyQuietStep DEF Key!Reread, Key!Labels
  <2>10. CASE Key!Stamp(p)
    BY <2>10, <2>0, KeyQuietStep DEF Key!Stamp, Key!Stamped, Key!Labels
  <2>11. CASE Key!Publish(p)
    BY <2>11, <2>0, KeyQuietStep DEF Key!Publish, Key!Finish, Key!Labels
  <2>12. CASE \E what \in {"topUp", "switch"} : Key!Update(p, what)
    BY <2>12, <2>0, KeyQuietStep DEF Key!Update, Key!Labels
  <2>13. CASE Key!WriteUpdate(p)
    <3> DEFINE updated(r) == IF pc[p] = "topUp" THEN [r EXCEPT !.left = Grant]
                             ELSE [r EXCEPT !.enabled = ~@]
    <3>1. /\ row' = {updated(r) : r \in row} /\ Key!Know(p, row')
          /\ used' = IF pc[p] = "topUp" THEN 0 ELSE used
          /\ Key!Goto(p, IF row = {} THEN "idle" ELSE "publish")
          /\ UNCHANGED <<now, cache, at, late, burst>>
      BY <2>13 DEF Key!WriteUpdate
    <3>2. Grant \in 0 .. Grant /\ Grant \in Nat
      BY DEF Key!ApiKeyAssumption
    <3>3. ASSUME NEW r \in row
          PROVE  /\ updated(r) \in Key!Key /\ updated(r).count = r.count
                 /\ updated(r).left = IF pc[p] = "topUp" THEN Grant ELSE r.left
      <4>1. r \in Key!Key
        BY DEF Key!TypeOK
      <4> QED
        BY <4>1, <3>2 DEF Key!Key
    <3> HIDE DEF updated
    <3>4. row' \subseteq Key!Key /\ (\A j, k \in row' : j = k) /\ (row = {} => row' = {})
      BY <3>1, <3>3 DEF Key!TypeOK
    <3>5. Uses'
      BY <3>1, <3>2, <3>3 DEF Uses
    <3>6. Requests'
      BY <3>1, <3>3 DEF Requests
    <3> QED
      BY <3>1, <3>4, <3>5, <3>6, KeyWriteStep DEF Key!Labels, Key!TypeOK
  <2>14. CASE Key!Delete(p)
    BY <2>14, <2>0, KeyQuietStep DEF Key!Delete, Key!Labels
  <2>15. CASE Key!Throw(p)
    BY <2>15, <2>0, KeyQuietStep DEF Key!Throw, Key!Finish, Key!Labels
  <2>16. CASE Key!RefillKey(p) \/ Key!Take(p) \/ Key!Open(p) \/ Key!Increment(p)
    BY <2>16, RefillStep, TakeStep, CountStep
  <2> QED
    BY <1>4, <2>1, <2>2, <2>3, <2>4, <2>5, <2>6, <2>7, <2>8, <2>9, <2>10, <2>11, <2>12, <2>13,
       <2>14, <2>15, <2>16 DEF Key!Step
<1> QED
  BY <1>1, <1>2, <1>3, <1>4 DEF Key!Next

LEMMA KeyRefillApart ==
  ASSUME Key!ApiKeyAssumption, KeyInv, [Key!Next]_(Key!vars)
  PROVE  Key!RefillApart
<1> USE DEF KeyInv
<1> SUFFICES ASSUME NEW r \in row, NEW s \in row', r.refilled # s.refilled
             PROVE  s.refilled - (IF r.refilled = 0 THEN 1 ELSE r.refilled) > Refill
  BY DEF Key!RefillApart
<1>1. r \in Key!Key /\ \A k \in row : k = r
  BY DEF Key!TypeOK
<1>2. CASE row' \subseteq row
  BY <1>1, <1>2
<1>3. ASSUME NEW p \in Procs, Key!Take(p) \/ Key!Open(p) \/ Key!Increment(p) \/ Key!WriteUpdate(p)
      PROVE  FALSE
  <2>1. s \in row \/ s.refilled = r.refilled
    <3>1. CASE Key!Take(p)
      BY <3>1, <1>1 DEF Key!Take, Key!Key
    <3>2. CASE Key!Open(p) \/ Key!Increment(p)
      <4>1. ASSUME NEW c, NEW t
            PROVE  [r EXCEPT !.count = c, !.last = t].refilled = r.refilled
        BY <1>1 DEF Key!Key
      <4>2. PICK R : Key!Counted(p, R) /\ R \subseteq row
        BY <3>2 DEF Key!Open, Key!Increment, Key!MayOpen, Key!MayCount
      <4>3. CASE R = {}
        BY <4>2, <4>3 DEF Key!Counted
      <4>4. CASE R # {}
        <5>1. R = {r}
          BY <1>1, <4>2, <4>4
        <5>2. row' = {[x EXCEPT !.count = IF pc[p] = "increment" THEN @ + 1 ELSE 1,
                                !.last = at[p]] : x \in R}
          BY <4>2, <4>4 DEF Key!Counted
        <5>3. s = [r EXCEPT !.count = IF pc[p] = "increment" THEN @ + 1 ELSE 1, !.last = at[p]]
          BY <5>1, <5>2
        <5> QED
          BY <4>1, <5>3
      <4> QED
        BY <4>3, <4>4
    <3>3. CASE Key!WriteUpdate(p)
      BY <3>3, <1>1 DEF Key!WriteUpdate, Key!Key
    <3> QED
      BY <1>3, <3>1, <3>2, <3>3
  <2> QED
    BY <1>1, <2>1
<1>4. ASSUME NEW p \in Procs, Key!RefillKey(p)
      PROVE  s.refilled - (IF r.refilled = 0 THEN 1 ELSE r.refilled) > Refill
  <2>1. Key!NotRefilled(p) # {} /\ pc[p] = "refill"
    BY <1>1, <1>4 DEF Key!RefillKey
  <2>2. s.refilled = at[p]
    <3>1. s = [r EXCEPT !.left = Grant - 1, !.refilled = at[p]]
      <4>1. row' = {[x EXCEPT !.left = Grant - 1, !.refilled = at[p]] : x \in row}
        BY <1>4, <2>1 DEF Key!RefillKey
      <4> QED
        BY <1>1, <4>1
    <3> QED
      BY <1>1, <3>1 DEF Key!Key
  <2>3. PICK k \in seen[p] : r.refilled = k.refilled
    BY <1>1, <2>1 DEF Key!NotRefilled, RefillDue
  <2> QED
    BY <2>1, <2>2, <2>3 DEF RefillDue
<1>5. \/ row' \subseteq row
      \/ \E p \in Procs : Key!Take(p) \/ Key!Open(p) \/ Key!Increment(p) \/ Key!WriteUpdate(p) \/ Key!RefillKey(p)
  BY DEF Key!Next, Key!Step, Key!vars, Key!Evicted, Key!Tick, Key!Verify, Key!Lookup, Key!Read, Key!Populate, Key!Judge, Key!Evict, Key!Remove,
         Key!Rate, Key!Reread, Key!Stamp, Key!Publish, Key!Update, Key!Delete, Key!Throw
<1> QED
  BY <1>2, <1>3, <1>4, <1>5

-----------------------------------------------------------------------------
(* Theorems.                                                               *)

LEMMA KeyInvariance == Key!ApiKeyAssumption => (Key!Spec => []KeyInv)
<1> SUFFICES ASSUME Key!ApiKeyAssumption
             PROVE  Key!Spec => []KeyInv
  OBVIOUS
<1>1. Key!Init => KeyInv
  BY KeyInit
<1>2. KeyInv /\ [Key!Next]_(Key!vars) => KeyInv'
  BY KeyStep
<1> QED
  BY <1>1, <1>2, PTL DEF Key!Spec

\* Every variable has its type; there is one row of the key and one copy at most.
THEOREM KeyTypeCorrect == ASSUME Key!ApiKeyAssumption PROVE Key!Spec => []Key!TypeOK
<1>1. KeyInv => Key!TypeOK
  BY DEF KeyInv
<1> QED
  BY <1>1, KeyInvariance, PTL

\* Any number of verifications take no more uses than were granted, and are counted no
\* more often than allowed in a burst, whoever refills, resets, tops up or fails meanwhile.
THEOREM WithinLimitsCorrect == ASSUME Key!ApiKeyAssumption PROVE Key!Spec => []Key!WithinLimits
<1>1. KeyInv => Key!WithinLimits
  BY DEF KeyInv, Uses, Requests, Key!WithinLimits
<1> QED
  BY <1>1, KeyInvariance, PTL

\* Of the calls that find a refill due one refills, and the next one more than an
\* interval later.
THEOREM RefillsApartCorrect == ASSUME Key!ApiKeyAssumption PROVE Key!Spec => Key!RefillsApart
<1>1. KeyInv /\ [Key!Next]_(Key!vars) => [Key!RefillApart]_(Key!vars)
  BY KeyRefillApart
<1> QED
  BY <1>1, KeyInvariance, PTL DEF Key!Spec, Key!RefillsApart

\* A key that was deleted, or has been used up and removed, is accepted from nobody who
\* asks afterwards, although copies of it may come back.
THEOREM GoneIsRefusedCorrect == ASSUME Key!ApiKeyAssumption PROVE Key!Spec => []Key!GoneIsRefused
<1>1. KeyInv => Key!GoneIsRefused
  BY DEF KeyInv, KeyGone, Key!GoneIsRefused
<1> QED
  BY <1>1, KeyInvariance, PTL

-----------------------------------------------------------------------------
(***************************************************************************)
(* AccountLinking: an identity signs in one user.                          *)
(***************************************************************************)

-----------------------------------------------------------------------------
(* Type correctness.                                                       *)

\* A call has one identity at most, and callbacks have one of a provider.
Keyed ==
  \A p \in Procs :
    /\ \A k, l \in key[p] : k = l
    /\ pc[p] \in {"match", "update", "promote", "connect", "attach", "session"} => key[p] \subseteq Keys
    /\ pc[p] \in {"idle", "match"} => target[p] = 0
    /\ pc[p] = "idle" => key[p] = {}

LinkTypes == Link!TypeOK /\ Keyed

\* What a call has in its hands.
LocalTypes ==
  /\ pc \in [Procs -> Link!Labels]
  /\ key \in [Procs -> SUBSET (Keys \cup Emails)]
  /\ target \in [Procs -> 0 .. MaxUsers] /\ acc \in [Procs -> 0 .. MaxAccounts]
  /\ raise \in [Procs -> BOOLEAN]

TableTypes ==
  /\ users \subseteq Link!User /\ accounts \subseteq Link!Account
  /\ nextUser \in 1 .. MaxUsers + 1 /\ nextAccount \in 1 .. MaxAccounts + 1
  /\ granted \subseteq [key : Keys, user : 1 .. MaxUsers]

LEMMA LinkFinishTypes ==
  ASSUME LinkTypes, NEW p \in Procs, Link!Finish(p), MaxUsers \in Nat, MaxAccounts \in Nat
  PROVE  LocalTypes' /\ Keyed'
<1>1. LocalTypes'
  BY DEF LinkTypes, Link!TypeOK, LocalTypes, Link!Finish, Link!Goto, Link!Labels
<1>2. Keyed'
  BY DEF LinkTypes, Link!TypeOK, Keyed, Link!Finish, Link!Goto
<1>. QED  BY <1>1, <1>2

\* A call goes on at l, with the identities K, the user t and the account x.
LEMMA GoTypes ==
  ASSUME LinkTypes, NEW p \in Procs, NEW l \in Link!Labels, NEW K \in SUBSET (Keys \cup Emails),
         NEW t \in 0 .. MaxUsers, NEW x \in 0 .. MaxAccounts, NEW b \in BOOLEAN,
         Link!Goto(p, l), key' = [key EXCEPT ![p] = K], target' = [target EXCEPT ![p] = t],
         acc' = [acc EXCEPT ![p] = x], raise' = [raise EXCEPT ![p] = b],
         \A j, k \in K : j = k,
         l \in {"match", "update", "promote", "connect", "attach", "session"} => K \subseteq Keys,
         l \in {"idle", "match"} => t = 0, l # "idle"
  PROVE  LocalTypes' /\ Keyed'
<1>1. pc' \in [Procs -> Link!Labels] /\ key' \in [Procs -> SUBSET (Keys \cup Emails)]
  BY DEF LinkTypes, Link!TypeOK, Link!Goto
<1>2. target' \in [Procs -> 0 .. MaxUsers] /\ acc' \in [Procs -> 0 .. MaxAccounts]
  BY DEF LinkTypes, Link!TypeOK
<1>3. raise' \in [Procs -> BOOLEAN]
  BY Zenon DEF LinkTypes, Link!TypeOK
<1>4. Keyed'
  BY DEF LinkTypes, Link!TypeOK, Keyed, Link!Goto
<1>. QED  BY <1>1, <1>2, <1>3, <1>4 DEF LocalTypes

\* A call goes on at l, and what it has in its hands stays the same.
LEMMA StayTypes ==
  ASSUME LinkTypes, NEW p \in Procs, NEW l \in Link!Labels, Link!Goto(p, l),
         UNCHANGED <<key, target, acc, raise>>,
         l \in {"match", "update", "promote", "connect", "attach", "session"} => key[p] \subseteq Keys,
         l \notin {"idle", "match"}
  PROVE  LocalTypes' /\ Keyed'
<1>1. LocalTypes'
  BY DEF LinkTypes, Link!TypeOK, LocalTypes, Link!Goto
<1>2. Keyed'
  BY DEF LinkTypes, Link!TypeOK, Keyed, Link!Goto
<1>. QED  BY <1>1, <1>2

LEMMA AddAccountTypes ==
  ASSUME Link!LinkingAssumption, LinkTypes, NEW p \in Procs, NEW u \in 1 .. MaxUsers, Link!AddAccount(p, u)
  PROVE  accounts' \subseteq Link!Account /\ nextAccount' \in 1 .. MaxAccounts + 1
<1>1. nextAccount \in 1 .. MaxAccounts /\ nextAccount' \in 1 .. MaxAccounts + 1
  BY DEF Link!AddAccount, LinkTypes, Link!TypeOK, Link!LinkingAssumption
<1>2. \A k \in key[p] : [id |-> nextAccount, key |-> k, user |-> u] \in Link!Account
  BY <1>1 DEF Link!Account, LinkTypes, Link!TypeOK
<1>3. accounts' \subseteq Link!Account
  BY <1>2 DEF Link!AddAccount, LinkTypes, Link!TypeOK
<1>. QED  BY <1>1, <1>3

\* A provider's callback that found the owner of an identity.
LEMMA OwnedTypes ==
  ASSUME Link!LinkingAssumption, LinkTypes, NEW p \in Procs, NEW k \in Keys, NEW u \in users,
         NEW a \in accounts, Link!Owned(p, k, u, a), key' = [key EXCEPT ![p] = {k}]
  PROVE  LocalTypes' /\ Keyed'
<1>1. u.id \in 0 .. MaxUsers /\ a.id \in 0 .. MaxAccounts
  BY DEF LinkTypes, Link!TypeOK, Link!User, Link!Account, Link!LinkingAssumption
<1>2. (k \in Proven /\ ~u.verified /\ Mail[k] = u.email) \in BOOLEAN
  BY Zenon
<1>3. {k} \in SUBSET (Keys \cup Emails) /\ {k} \subseteq Keys /\ "update" \in Link!Labels
  BY DEF Link!Labels
<1>. QED  BY <1>1, <1>2, <1>3, GoTypes DEF Link!Owned

LEMMA SignInTypes ==
  ASSUME Link!LinkingAssumption, LinkTypes, NEW p \in Procs, Link!SignIn(p) \/ Link!Match(p)
  PROVE  LocalTypes' /\ Keyed'
<1>0. MaxUsers \in Nat /\ MaxAccounts \in Nat
  BY DEF Link!LinkingAssumption
<1>1. CASE Link!SignIn(p)
  <2>1. PICK k \in Keys :
          /\ key' = [key EXCEPT ![p] = {k}]
          /\ \/ \E a \in Link!With(k) : \E u \in users : Link!Owned(p, k, u, a)
             \/ Link!Goto(p, "match") /\ UNCHANGED <<target, acc, raise>>
    BY <1>1 DEF Link!SignIn
  <2>2. CASE \E a \in Link!With(k) : \E u \in users : Link!Owned(p, k, u, a)
    BY <2>1, <2>2, OwnedTypes DEF Link!With
  <2>3. CASE Link!Goto(p, "match") /\ UNCHANGED <<target, acc, raise>>
    <3>1. pc[p] = "idle" /\ target[p] = 0
      BY <1>1 DEF Link!SignIn, LinkTypes, Keyed
    <3>2. LocalTypes'
      BY <2>1, <2>3 DEF LocalTypes, LinkTypes, Link!TypeOK, Link!Goto, Link!Labels
    <3>3. Keyed'
      BY <2>1, <2>3, <3>1 DEF Keyed, LinkTypes, Link!TypeOK, Link!Goto
    <3>. QED  BY <3>2, <3>3
  <2>. QED  BY <2>1, <2>2, <2>3
<1>2. CASE Link!Match(p)
  <2>0. /\ pc[p] = "match" /\ key[p] \subseteq Keys
        /\ \A j, k \in key[p] : j = k
        /\ {"create", "connect", "update"} \subseteq Link!Labels
    BY <1>2 DEF Link!Match, LinkTypes, Keyed, Link!Labels
  <2>1. PICK k \in key[p] :
          \/ Link!Goto(p, "create") /\ UNCHANGED <<key, target, acc, raise>>
          \/ \E u \in users :
               \/ \E a \in Link!With(k) \cap Link!AccountsOf(u.id) : Link!Owned(p, k, u, a) /\ key' = key
               \/ /\ Link!Goto(p, "connect")
                  /\ target' = [target EXCEPT ![p] = u.id]
                  /\ raise' = [raise EXCEPT ![p] = k \in Proven /\ ~u.verified]
                  /\ UNCHANGED <<key, acc>>
               \/ Link!Finish(p)
    BY <1>2 DEF Link!Match
  <2>2. CASE Link!Goto(p, "create") /\ UNCHANGED <<key, target, acc, raise>>
    BY <2>0, <2>2, StayTypes
  <2>3. ASSUME NEW u \in users, NEW a \in Link!With(k) \cap Link!AccountsOf(u.id), Link!Owned(p, k, u, a), key' = key
        PROVE  LocalTypes' /\ Keyed'
    <3>1. k \in Keys /\ key[p] = {k} /\ a \in accounts
      BY <2>0 DEF Link!With
    <3>2. key' = [key EXCEPT ![p] = {k}]
      BY <2>3, <3>1 DEF LinkTypes, Link!TypeOK
    <3>. QED  BY <2>3, <3>1, <3>2, OwnedTypes
  <2>4. ASSUME NEW u \in users, Link!Goto(p, "connect"), target' = [target EXCEPT ![p] = u.id],
               raise' = [raise EXCEPT ![p] = k \in Proven /\ ~u.verified],
               UNCHANGED <<key, acc>>
        PROVE  LocalTypes' /\ Keyed'
    <3>1. u.id \in 0 .. MaxUsers
      BY DEF LinkTypes, Link!TypeOK, Link!User, Link!LinkingAssumption
    <3>2. (k \in Proven /\ ~u.verified) \in BOOLEAN
      BY Zenon
    <3>3. raise' \in [Procs -> BOOLEAN]
      BY <2>4, <3>2, Zenon DEF LinkTypes, Link!TypeOK
    <3>4. LocalTypes'
      BY <2>0, <2>4, <3>1, <3>3 DEF LocalTypes, LinkTypes, Link!TypeOK, Link!Goto
    <3>5. Keyed'
      BY <2>0, <2>4 DEF Keyed, LinkTypes, Link!TypeOK, Link!Goto
    <3>. QED  BY <3>4, <3>5
  <2>5. CASE Link!Finish(p)
    BY <1>0, <2>5, LinkFinishTypes
  <2>. QED  BY <2>1, <2>2, <2>3, <2>4, <2>5
<1>. QED  BY <1>1, <1>2

LEMMA CallbackTypes ==
  ASSUME Link!LinkingAssumption, LinkTypes, NEW p \in Procs,
         Link!Update(p) \/ Link!Promote(p) \/ Link!Connect(p) \/ Link!Session(p)
  PROVE  LocalTypes' /\ Keyed' /\ TableTypes'
<1>0. /\ MaxUsers \in Nat /\ MaxAccounts \in Nat /\ {"promote", "session"} \subseteq Link!Labels
      /\ pc[p] \in {"update", "promote", "connect", "session"} /\ key[p] \subseteq Keys
  BY DEF Link!LinkingAssumption, Link!Labels, Link!Update, Link!Promote, Link!Connect, Link!Session, LinkTypes, Keyed
<1>1. CASE Link!Update(p)
  BY <1>0, <1>1, LinkFinishTypes, StayTypes DEF Link!Update, Link!tables, TableTypes, LinkTypes, Link!TypeOK
<1>2. CASE Link!Promote(p)
  <2>. DEFINE f(u) == IF u.id = target[p] THEN [u EXCEPT !.verified = TRUE] ELSE u
  <2>1. \A u \in users : f(u) \in Link!User
    BY DEF LinkTypes, Link!TypeOK, Link!User
  <2>2. users' = {f(u) : u \in users}
    BY <1>2 DEF Link!Promote
  <2>3. users' \subseteq Link!User
    BY <2>1, <2>2
  <2>. QED  BY <1>0, <1>2, <2>3, StayTypes DEF Link!Promote, TableTypes, LinkTypes, Link!TypeOK
<1>3. CASE Link!Connect(p)
  <2>1. CASE \E u \in users : u.id = target[p]
    <3>1. target[p] \in 1 .. MaxUsers
      BY <2>1 DEF LinkTypes, Link!TypeOK, Link!User
    <3>2. Link!AddAccount(p, target[p]) /\ UNCHANGED <<key, target, acc, raise>>
          /\ Link!Goto(p, IF raise[p] THEN "promote" ELSE "session")
      BY <1>3, <2>1 DEF Link!Connect
    <3>3. LocalTypes' /\ Keyed'
      BY <1>0, <3>2, StayTypes
    <3>. QED  BY <1>3, <3>1, <3>2, <3>3, AddAccountTypes DEF Link!Connect, TableTypes, LinkTypes, Link!TypeOK
  <2>2. CASE ~\E u \in users : u.id = target[p]
    BY <1>0, <1>3, <2>2, LinkFinishTypes DEF Link!Connect, TableTypes, LinkTypes, Link!TypeOK
  <2>. QED  BY <2>1, <2>2
<1>4. CASE Link!Session(p)
  <2>1. \A k \in key[p] : \A u \in users : [key |-> k, user |-> u.id] \in [key : Keys, user : 1 .. MaxUsers]
    BY <1>0 DEF LinkTypes, Link!TypeOK, Link!User
  <2>2. granted' \subseteq [key : Keys, user : 1 .. MaxUsers]
    BY <1>4, <2>1 DEF Link!Session, LinkTypes, Link!TypeOK
  <2>. QED  BY <1>0, <1>4, <2>2, LinkFinishTypes DEF Link!Session, Link!tables, TableTypes, LinkTypes, Link!TypeOK
<1>. QED  BY <1>1, <1>2, <1>3, <1>4

LEMMA RegisteredTypes ==
  ASSUME Link!LinkingAssumption, LinkTypes, NEW p \in Procs, NEW u \in 1 .. MaxUsers, Link!Registered(p, u)
  PROVE  LocalTypes' /\ Keyed'
<1>0. MaxUsers \in Nat /\ MaxAccounts \in Nat
  BY DEF Link!LinkingAssumption
<1>1. CASE key[p] \subseteq Emails
  BY <1>0, <1>1, LinkFinishTypes DEF Link!Registered
<1>2. CASE ~(key[p] \subseteq Emails)
  <2>1. key[p] \subseteq Keys
    BY <1>2 DEF LinkTypes, Link!TypeOK, Keyed
  <2>2. /\ Link!Goto(p, "session") /\ target' = [target EXCEPT ![p] = u]
        /\ UNCHANGED <<key, acc, raise>>
    BY <1>2 DEF Link!Registered
  <2>3. LocalTypes'
    BY <1>0, <2>2 DEF LocalTypes, LinkTypes, Link!TypeOK, Link!Goto, Link!Labels
  <2>4. Keyed'
    BY <2>1, <2>2 DEF Keyed, LinkTypes, Link!TypeOK, Link!Goto
  <2>. QED  BY <2>3, <2>4
<1>. QED  BY <1>1, <1>2

LEMMA CreateTypes ==
  ASSUME Link!LinkingAssumption, LinkTypes, NEW p \in Procs, Link!Create(p) \/ Link!CreateAccount(p)
  PROVE  LocalTypes' /\ Keyed' /\ TableTypes'
<1>0. MaxUsers \in Nat /\ MaxAccounts \in Nat
  BY DEF Link!LinkingAssumption
<1>1. CASE Link!Create(p) /\ Link!Finish(p) /\ UNCHANGED Link!tables
  BY <1>0, <1>1, LinkFinishTypes DEF Link!Create, Link!tables, TableTypes, LinkTypes, Link!TypeOK
<1>2. CASE Link!Create(p) /\ Link!AddUser(p)
  <2>1. nextUser \in 1 .. MaxUsers /\ nextUser' \in 1 .. MaxUsers + 1
    BY <1>0, <1>2 DEF Link!AddUser, LinkTypes, Link!TypeOK
  <2>2. ASSUME NEW k \in key[p]
        PROVE  [id |-> nextUser, email |-> Link!EmailOf(k), verified |-> k \in Proven] \in Link!User
    <3>1. Link!EmailOf(k) \in Emails
      BY DEF Link!EmailOf, LinkTypes, Link!TypeOK, Link!LinkingAssumption
    <3>2. (k \in Proven) \in BOOLEAN
      OBVIOUS
    <3>. QED  BY <2>1, <3>1, <3>2 DEF Link!User
  <2>3. users' \subseteq Link!User
    BY <1>2, <2>2 DEF Link!AddUser, LinkTypes, Link!TypeOK
  <2>4. CASE Link!AddAccount(p, nextUser) /\ Link!Registered(p, nextUser)
    BY <1>2, <2>1, <2>3, <2>4, AddAccountTypes, RegisteredTypes
       DEF Link!Create, TableTypes, LinkTypes, Link!TypeOK
  <2>5. CASE /\ Link!Goto(p, "createAccount") /\ target' = [target EXCEPT ![p] = nextUser]
             /\ UNCHANGED <<accounts, nextAccount, key, acc, raise>>
    <3>1. LocalTypes'
      BY <1>0, <2>1, <2>5 DEF LocalTypes, LinkTypes, Link!TypeOK, Link!Goto, Link!Labels
    <3>2. Keyed'
      BY <2>5 DEF Keyed, LinkTypes, Link!TypeOK, Link!Goto
    <3>. QED  BY <1>2, <2>1, <2>3, <2>5, <3>1, <3>2 DEF Link!Create, TableTypes, LinkTypes, Link!TypeOK
  <2>6. Link!AddUser(p) => ~UNCHANGED Link!tables
    BY <2>1 DEF Link!AddUser, Link!tables
  <2>. QED  BY <1>2, <2>4, <2>5, <2>6 DEF Link!Create
<1>3. CASE Link!CreateAccount(p)
  <2>1. CASE \E u \in users : u.id = target[p]
    <3>1. target[p] \in 1 .. MaxUsers
      BY <2>1 DEF LinkTypes, Link!TypeOK, Link!User
    <3>. QED  BY <1>3, <2>1, <3>1, AddAccountTypes, RegisteredTypes
              DEF Link!CreateAccount, TableTypes, LinkTypes, Link!TypeOK
  <2>2. CASE ~\E u \in users : u.id = target[p]
    BY <1>0, <1>3, <2>2, LinkFinishTypes DEF Link!CreateAccount, TableTypes, LinkTypes, Link!TypeOK
  <2>. QED  BY <2>1, <2>2
<1>. QED  BY <1>1, <1>2, <1>3 DEF Link!Create

LEMMA OtherTypes ==
  ASSUME Link!LinkingAssumption, LinkTypes, NEW p \in Procs,
         \/ Link!SignUp(p) \/ Link!LinkSocial(p) \/ Link!Attach(p) \/ Link!UnlinkAccount(p) \/ Link!Unlink(p)
         \/ Link!DeleteUser(p) \/ Link!DeleteAccounts(p) \/ Link!RemoveUser(p) \/ Link!Throw(p)
  PROVE  LocalTypes' /\ Keyed' /\ TableTypes'
<1>0. /\ MaxUsers \in Nat /\ MaxAccounts \in Nat
      /\ {"create", "attach", "unlink", "deleteAccounts", "deleteUser"} \subseteq Link!Labels
  BY DEF Link!LinkingAssumption, Link!Labels
<1>1. CASE Link!SignUp(p)
  <2>1. PICK e \in Emails : key' = [key EXCEPT ![p] = {e}]
    BY <1>1 DEF Link!SignUp
  <2>2. Link!Goto(p, "create") /\ UNCHANGED <<Link!tables, target, acc, raise, granted>>
    BY <1>1 DEF Link!SignUp, Link!Enter
  <2>3. LocalTypes'
    BY <1>0, <2>1, <2>2 DEF LocalTypes, LinkTypes, Link!TypeOK, Link!Goto
  <2>4. Keyed'
    BY <2>1, <2>2 DEF Keyed, LinkTypes, Link!TypeOK, Link!Goto
  <2>. QED  BY <2>2, <2>3, <2>4 DEF Link!tables, TableTypes, LinkTypes, Link!TypeOK
<1>2. CASE Link!LinkSocial(p)
  <2>1. PICK u \in users, k \in Proven \cup Trusted :
          key' = [key EXCEPT ![p] = {k}] /\ target' = [target EXCEPT ![p] = u.id]
    BY <1>2 DEF Link!LinkSocial
  <2>2. Link!Goto(p, "attach") /\ UNCHANGED <<Link!tables, acc, raise, granted>>
    BY <1>2 DEF Link!LinkSocial, Link!Enter
  <2>3. k \in Keys /\ u.id \in 0 .. MaxUsers
    BY <1>0 DEF Link!LinkingAssumption, LinkTypes, Link!TypeOK, Link!User
  <2>4. LocalTypes'
    BY <1>0, <2>1, <2>2, <2>3 DEF LocalTypes, LinkTypes, Link!TypeOK, Link!Goto
  <2>5. Keyed'
    BY <2>1, <2>2, <2>3 DEF Keyed, LinkTypes, Link!TypeOK, Link!Goto
  <2>. QED  BY <2>2, <2>4, <2>5 DEF Link!tables, TableTypes, LinkTypes, Link!TypeOK
<1>3. CASE Link!Attach(p)
  <2>2. accounts' \subseteq Link!Account /\ nextAccount' \in 1 .. MaxAccounts + 1
    <3>1. CASE \E u \in users : u.id = target[p]
      <4>1. target[p] \in 1 .. MaxUsers
        BY <3>1 DEF LinkTypes, Link!TypeOK, Link!User
      <4>. QED  BY <1>3, <3>1, <4>1, AddAccountTypes DEF Link!Attach
    <3>2. CASE ~\E u \in users : u.id = target[p]
      BY <1>3, <3>2 DEF Link!Attach, LinkTypes, Link!TypeOK
    <3>. QED  BY <3>1, <3>2
  <2>. QED  BY <1>0, <1>3, <2>2, LinkFinishTypes DEF Link!Attach, TableTypes, LinkTypes, Link!TypeOK
<1>4. CASE Link!UnlinkAccount(p)
  <2>1. PICK a \in accounts : acc' = [acc EXCEPT ![p] = a.id]
    BY <1>4 DEF Link!UnlinkAccount
  <2>2. Link!Goto(p, "unlink") /\ UNCHANGED <<Link!tables, key, target, raise, granted>>
    BY <1>4 DEF Link!UnlinkAccount, Link!Enter
  <2>3. a.id \in 0 .. MaxAccounts
    BY <1>0 DEF LinkTypes, Link!TypeOK, Link!Account
  <2>4. LocalTypes'
    BY <1>0, <2>1, <2>2, <2>3 DEF LocalTypes, LinkTypes, Link!TypeOK, Link!Goto
  <2>5. Keyed'
    BY <2>2 DEF Keyed, LinkTypes, Link!TypeOK, Link!Goto
  <2>. QED  BY <2>2, <2>4, <2>5 DEF Link!tables, TableTypes, LinkTypes, Link!TypeOK
<1>5. CASE Link!DeleteUser(p)
  <2>1. PICK u \in users : target' = [target EXCEPT ![p] = u.id]
    BY <1>5 DEF Link!DeleteUser
  <2>2. Link!Goto(p, "deleteAccounts") /\ UNCHANGED <<Link!tables, key, acc, raise, granted>>
    BY <1>5 DEF Link!DeleteUser, Link!Enter
  <2>3. u.id \in 0 .. MaxUsers
    BY <1>0 DEF LinkTypes, Link!TypeOK, Link!User
  <2>4. LocalTypes'
    BY <1>0, <2>1, <2>2, <2>3 DEF LocalTypes, LinkTypes, Link!TypeOK, Link!Goto
  <2>5. Keyed'
    BY <2>1, <2>2 DEF Keyed, LinkTypes, Link!TypeOK, Link!Goto
  <2>. QED  BY <2>2, <2>4, <2>5 DEF Link!tables, TableTypes, LinkTypes, Link!TypeOK
<1>6. CASE Link!DeleteAccounts(p)
  BY <1>0, <1>6, StayTypes DEF Link!DeleteAccounts, TableTypes, LinkTypes, Link!TypeOK
<1>7. CASE Link!Unlink(p) \/ Link!RemoveUser(p) \/ Link!Throw(p)
  <2>1. /\ Link!Finish(p) /\ users' \subseteq users /\ accounts' \subseteq accounts /\ granted' \subseteq granted
        /\ UNCHANGED <<nextUser, nextAccount>>
    BY <1>7 DEF Link!Unlink, Link!RemoveUser, Link!Throw, Link!tables
  <2>. QED  BY <1>0, <2>1, LinkFinishTypes DEF TableTypes, LinkTypes, Link!TypeOK
<1>. QED  BY <1>1, <1>2, <1>3, <1>4, <1>5, <1>6, <1>7

LEMMA LinkStepTypes ==
  ASSUME Link!LinkingAssumption, LinkTypes, [Link!Next]_(Link!vars)
  PROVE  LinkTypes'
<1>1. CASE UNCHANGED Link!vars
  BY <1>1 DEF Link!vars, LinkTypes, Link!TypeOK, Keyed
<1>2. CASE Link!VerifyEmail
  <2>1. PICK u \in users : users' = (users \ {u}) \cup {[u EXCEPT !.verified = TRUE]}
    BY <1>2 DEF Link!VerifyEmail
  <2>2. [u EXCEPT !.verified = TRUE] \in Link!User
    BY DEF LinkTypes, Link!TypeOK, Link!User
  <2>. QED  BY <1>2, <2>1, <2>2 DEF Link!VerifyEmail, LinkTypes, Link!TypeOK, Keyed
<1>3. ASSUME NEW p \in Procs, Link!Step(p) PROVE LinkTypes'
  <2>1. LocalTypes' /\ Keyed' /\ TableTypes'
    <3>1. CASE Link!SignIn(p) \/ Link!Match(p)
      BY <3>1, SignInTypes DEF Link!SignIn, Link!Match, Link!tables, TableTypes, LinkTypes, Link!TypeOK
    <3>2. CASE ~Link!SignIn(p) /\ ~Link!Match(p)
      BY <1>3, <3>2, CallbackTypes, CreateTypes, OtherTypes DEF Link!Step
    <3>. QED  BY <3>1, <3>2
  <2>. QED  BY <2>1 DEF LinkTypes, Link!TypeOK, LocalTypes, TableTypes
<1>. QED  BY <1>1, <1>2, <1>3 DEF Link!Next

LEMMA LinkInitTypes == ASSUME Link!LinkingAssumption, Link!Init PROVE LinkTypes
<1>1. MaxUsers \in Nat /\ MaxAccounts \in Nat
  BY DEF Link!LinkingAssumption
<1>2. Link!TypeOK
  BY <1>1 DEF Link!Init, Link!TypeOK, Link!Labels
<1>3. Keyed
  BY DEF Link!Init, Keyed
<1>. QED  BY <1>2, <1>3 DEF LinkTypes

LEMMA LinkTypesInvariance == ASSUME Link!LinkingAssumption PROVE Link!Spec => []LinkTypes
<1>1. Link!Init => LinkTypes
  BY LinkInitTypes
<1>2. LinkTypes /\ [Link!Next]_(Link!vars) => LinkTypes'
  BY LinkStepTypes
<1>. QED  BY <1>1, <1>2, PTL DEF Link!Spec

\* Every variable of the calls on users and linked accounts has its type.
THEOREM LinkTypeCorrect == ASSUME Link!LinkingAssumption PROVE Link!Spec => []Link!TypeOK
<1>1. LinkTypes => Link!TypeOK
  BY DEF LinkTypes
<1>. QED  BY <1>1, LinkTypesInvariance, PTL

-----------------------------------------------------------------------------
(* One user for an identity.  Where a user may only link identities of its *)
(* own e-mail, an identity leads to the user of its e-mail whichever way   *)
(* it was linked, and there is one user of an e-mail.                      *)

\* Users who are signed in link identities of their own e-mail, or none.
OwnMailOnly == DifferentEmails => "link" \notin Ops

\* The e-mail of the user i is the one of the identity k.
Mailed(k, i) == \E u \in users : u.id = i /\ u.email = Mail[k]

\* There is one user of an e-mail, and one e-mail of a user.
UniqueUsers == \A u, v \in users : u.id = v.id <=> u.email = v.email

\* No call has, and no row is, a user who is yet to be created.
FreshIds ==
  /\ \A u \in users : u.id < nextUser
  /\ \A p \in Procs : target[p] < nextUser

\* An identity is linked to a user of its e-mail.
LinkedByMail == \A a \in accounts : a.key \in Keys => Mailed(a.key, a.user)

\* A call that is about to link an identity, or to sign in with it, has a user
\* of its e-mail, or one who is deleted.
AimedByMail ==
  \A p \in Procs : \A k \in key[p] \cap Keys : \A u \in users : u.id = target[p] => u.email = Mail[k]

\* The sessions are those of users of the e-mail.
GrantedByMail == \A g \in granted : Mailed(g.key, g.user)

LinkInv ==
  LinkTypes /\ UniqueUsers /\ FreshIds /\ LinkedByMail /\ AimedByMail /\ GrantedByMail

\* The tables stay, and what a call has in its hands changes to the identities K
\* and the user t.
LEMMA LocalLink ==
  ASSUME LinkInv, NEW p \in Procs, NEW K \in SUBSET (Keys \cup Emails), NEW t \in Nat, key' = [key EXCEPT ![p] = K],
         target' = [target EXCEPT ![p] = t], t < nextUser, users' = users, nextUser' = nextUser,
         \A k \in K \cap Keys : \A u \in users : u.id = t => u.email = Mail[k]
  PROVE  UniqueUsers' /\ FreshIds' /\ AimedByMail'
<1>1. UniqueUsers'
  BY DEF LinkInv, UniqueUsers
<1>2. FreshIds'
  BY DEF LinkInv, LinkTypes, Link!TypeOK, FreshIds
<1>3. AimedByMail'
  BY DEF LinkInv, LinkTypes, Link!TypeOK, AimedByMail
<1>. QED  BY <1>1, <1>2, <1>3

\* The same when nothing changes in its hands.
LEMMA SameLink ==
  ASSUME LinkInv, UNCHANGED <<key, target, users, nextUser>>
  PROVE  UniqueUsers' /\ FreshIds' /\ AimedByMail'
BY DEF LinkInv, UniqueUsers, FreshIds, AimedByMail

LEMMA FinishLink ==
  ASSUME LinkInv, NEW p \in Procs, Link!Finish(p), users' = users, nextUser' = nextUser
  PROVE  UniqueUsers' /\ FreshIds' /\ AimedByMail'
<1>1. nextUser \in 1 .. MaxUsers + 1 /\ key' = [key EXCEPT ![p] = {}] /\ target' = [target EXCEPT ![p] = 0]
  BY DEF LinkInv, LinkTypes, Link!TypeOK, Link!Finish
<1>2. 0 < nextUser /\ 0 \in Nat /\ {} \in SUBSET (Keys \cup Emails)
  BY <1>1
<1>3. \A k \in {} \cap Keys : \A u \in users : u.id = 0 => u.email = Mail[k]
  OBVIOUS
<1>. QED  BY <1>1, <1>2, <1>3, LocalLink

\* Tables that lose rows of accounts and sessions, with the same users.
LEMMA KeptLink ==
  ASSUME LinkInv, users' = users, accounts' \subseteq accounts, granted' \subseteq granted
  PROVE  LinkedByMail' /\ GrantedByMail'
BY DEF LinkInv, LinkedByMail, GrantedByMail, Mailed

\* An account of the identity of a call is added for the user the call has.
LEMMA AddAccountLink ==
  ASSUME LinkInv, NEW p \in Procs, Link!AddAccount(p, target[p]), \E u \in users : u.id = target[p],
         users' = users, granted' = granted
  PROVE  LinkedByMail' /\ GrantedByMail'
<1>1. ASSUME NEW a \in accounts', a.key \in Keys PROVE Mailed(a.key, a.user)'
  <2>1. CASE a \in accounts
    BY <1>1, <2>1 DEF LinkInv, LinkedByMail, Mailed
  <2>2. CASE a \notin accounts
    <3>1. PICK k \in key[p] : a = [id |-> nextAccount, key |-> k, user |-> target[p]]
      BY <2>2 DEF Link!AddAccount
    <3>2. k \in key[p] \cap Keys /\ a.key = k /\ a.user = target[p]
      BY <1>1, <3>1
    <3>. QED  BY <3>2 DEF LinkInv, AimedByMail, Mailed
  <2>. QED  BY <2>1, <2>2
<1>2. LinkedByMail'
  BY <1>1 DEF LinkedByMail
<1>3. GrantedByMail'
  BY DEF LinkInv, GrantedByMail, Mailed
<1>. QED  BY <1>2, <1>3

\* Signing in finds the owner of an identity.
LEMMA OwnedLink ==
  ASSUME LinkInv, NEW p \in Procs, NEW k \in Keys, NEW u \in users, u.email = Mail[k],
         NEW a, Link!Owned(p, k, u, a), key' = [key EXCEPT ![p] = {k}], users' = users, nextUser' = nextUser
  PROVE  UniqueUsers' /\ FreshIds' /\ AimedByMail'
<1>1. u.id < nextUser /\ u.id \in Nat /\ {k} \in SUBSET (Keys \cup Emails)
  BY DEF LinkInv, FreshIds, LinkTypes, Link!TypeOK, Link!User
<1>2. \A l \in {k} \cap Keys : \A v \in users : v.id = u.id => v.email = Mail[l]
  BY DEF LinkInv, UniqueUsers
<1>3. target' = [target EXCEPT ![p] = u.id]
  BY DEF Link!Owned
<1>. QED  BY <1>1, <1>2, <1>3, LocalLink

LEMMA SignInLink ==
  ASSUME Link!LinkingAssumption, LinkInv, NEW p \in Procs, Link!SignIn(p) \/ Link!Match(p)
  PROVE  UniqueUsers' /\ FreshIds' /\ AimedByMail'
<1>0. users' = users /\ nextUser' = nextUser /\ nextUser \in 1 .. MaxUsers + 1
  BY DEF Link!SignIn, Link!Match, Link!tables, LinkInv, LinkTypes, Link!TypeOK
<1>1. CASE Link!SignIn(p)
  <2>1. PICK k \in Keys :
          /\ key' = [key EXCEPT ![p] = {k}]
          /\ \/ \E a \in Link!With(k) : \E u \in users : u.id = a.user /\ Link!Owned(p, k, u, a)
             \/ UNCHANGED target
    BY <1>1 DEF Link!SignIn
  <2>2. ASSUME NEW a \in Link!With(k), NEW u \in users, u.id = a.user, Link!Owned(p, k, u, a)
        PROVE  UniqueUsers' /\ FreshIds' /\ AimedByMail'
    <3>1. Mailed(k, u.id)
      BY <2>2 DEF Link!With, LinkInv, LinkedByMail
    <3>2. u.email = Mail[k]
      BY <3>1 DEF Mailed, LinkInv, UniqueUsers
    <3>. QED  BY <1>0, <2>1, <2>2, <3>2, OwnedLink
  <2>3. CASE UNCHANGED target
    <3>1. target[p] = 0 /\ target' = [target EXCEPT ![p] = 0]
      BY <1>1, <2>3 DEF Link!SignIn, LinkInv, LinkTypes, Link!TypeOK, Keyed
    <3>2. \A l \in {k} \cap Keys : \A u \in users : u.id = 0 => u.email = Mail[l]
      BY DEF LinkInv, LinkTypes, Link!TypeOK, Link!User
    <3>3. 0 < nextUser /\ 0 \in Nat /\ {k} \in SUBSET (Keys \cup Emails)
      BY <1>0
    <3>4. key' = [key EXCEPT ![p] = {k}]
      BY <2>1
    <3>. QED  BY <1>0, <3>1, <3>2, <3>3, <3>4, LocalLink
  <2>. QED  BY <2>1, <2>2, <2>3
<1>2. CASE Link!Match(p)
  <2>0. pc[p] = "match" /\ key[p] \subseteq Keys /\ \A j, k \in key[p] : j = k
    BY <1>2 DEF Link!Match, LinkInv, LinkTypes, Keyed
  <2>1. PICK k \in key[p] :
          \/ UNCHANGED <<key, target>>
          \/ \E u \in users :
               /\ u.email = Mail[k]
               /\ \/ \E a : Link!Owned(p, k, u, a) /\ key' = key
                  \/ target' = [target EXCEPT ![p] = u.id] /\ UNCHANGED key
          \/ Link!Finish(p)
    BY <1>2 DEF Link!Match
  <2>2. k \in Keys /\ key[p] = {k} /\ (key' = key => key' = [key EXCEPT ![p] = {k}])
    BY <2>0 DEF LinkInv, LinkTypes, Link!TypeOK
  <2>3. CASE UNCHANGED <<key, target>>
    BY <1>0, <2>3, SameLink
  <2>4. ASSUME NEW u \in users, u.email = Mail[k], NEW a, Link!Owned(p, k, u, a), key' = key
        PROVE  UniqueUsers' /\ FreshIds' /\ AimedByMail'
    BY <1>0, <2>2, <2>4, OwnedLink
  <2>5. ASSUME NEW u \in users, u.email = Mail[k], target' = [target EXCEPT ![p] = u.id], UNCHANGED key
        PROVE  UniqueUsers' /\ FreshIds' /\ AimedByMail'
    <3>1. u.id < nextUser /\ u.id \in Nat /\ {k} \in SUBSET (Keys \cup Emails)
      BY <2>2 DEF LinkInv, FreshIds, LinkTypes, Link!TypeOK, Link!User
    <3>2. \A l \in {k} \cap Keys : \A v \in users : v.id = u.id => v.email = Mail[l]
      BY <2>5 DEF LinkInv, UniqueUsers
    <3>3. key' = [key EXCEPT ![p] = {k}]
      BY <2>2, <2>5
    <3>. QED  BY <1>0, <2>5, <3>1, <3>2, <3>3, LocalLink
  <2>6. CASE Link!Finish(p)
    BY <1>0, <2>6, FinishLink
  <2>. QED  BY <2>1, <2>3, <2>4, <2>5, <2>6
<1>. QED  BY <1>1, <1>2

\* Users are verified: ids and e-mails stay.
LEMMA VerifiedLink ==
  ASSUME LinkInv, \A u \in users : \E v \in users' : v.id = u.id /\ v.email = u.email,
         \A v \in users' : \E u \in users : v.id = u.id /\ v.email = u.email,
         UNCHANGED <<accounts, nextUser, key, target, granted>>
  PROVE  UniqueUsers' /\ FreshIds' /\ LinkedByMail' /\ AimedByMail' /\ GrantedByMail'
<1>1. \A k, i : Mailed(k, i) => Mailed(k, i)'
  BY DEF Mailed
<1>2. UniqueUsers'
  BY DEF LinkInv, UniqueUsers
<1>3. FreshIds'
  BY DEF LinkInv, FreshIds
<1>4. LinkedByMail' /\ GrantedByMail'
  BY <1>1 DEF LinkInv, LinkedByMail, GrantedByMail
<1>5. AimedByMail'
  BY DEF LinkInv, AimedByMail
<1>. QED  BY <1>2, <1>3, <1>4, <1>5

LEMMA CallbackLink ==
  ASSUME LinkInv, NEW p \in Procs, Link!Update(p) \/ Link!Promote(p) \/ Link!Connect(p) \/ Link!Session(p)
  PROVE  UniqueUsers' /\ FreshIds' /\ LinkedByMail' /\ AimedByMail' /\ GrantedByMail'
<1>1. CASE Link!Update(p)
  <2>1. UNCHANGED <<Link!tables, granted>> /\ (Link!Finish(p) \/ UNCHANGED <<key, target>>)
    BY <1>1 DEF Link!Update
  <2>. QED  BY <2>1, FinishLink, SameLink, KeptLink DEF Link!tables
<1>2. CASE Link!Promote(p)
  <2>. DEFINE f(u) == IF u.id = target[p] THEN [u EXCEPT !.verified = TRUE] ELSE u
  <2>1. users' = {f(u) : u \in users} /\ UNCHANGED <<accounts, nextUser, key, target, granted>>
    BY <1>2 DEF Link!Promote
  <2>2. \A u \in users : f(u).id = u.id /\ f(u).email = u.email
    BY DEF LinkInv, LinkTypes, Link!TypeOK, Link!User
  <2>3. /\ \A u \in users : \E v \in users' : v.id = u.id /\ v.email = u.email
        /\ \A v \in users' : \E u \in users : v.id = u.id /\ v.email = u.email
    <3>. HIDE DEF f
    <3>. QED  BY <2>1, <2>2
  <2>. QED  BY <2>1, <2>3, VerifiedLink
<1>3. CASE Link!Connect(p)
  <2>1. UNCHANGED <<users, nextUser, granted>>
    BY <1>3 DEF Link!Connect
  <2>2. CASE \E u \in users : u.id = target[p]
    <3>1. Link!AddAccount(p, target[p]) /\ UNCHANGED <<key, target>>
      BY <1>3, <2>2 DEF Link!Connect
    <3>. QED  BY <2>1, <2>2, <3>1, AddAccountLink, SameLink
  <2>3. CASE ~\E u \in users : u.id = target[p]
    <3>1. Link!Finish(p) /\ UNCHANGED accounts
      BY <1>3, <2>3 DEF Link!Connect
    <3>. QED  BY <2>1, <3>1, FinishLink, KeptLink
  <2>. QED  BY <2>2, <2>3
<1>4. CASE Link!Session(p)
  <2>1. Link!Finish(p) /\ UNCHANGED Link!tables /\ pc[p] = "session" /\ key[p] \subseteq Keys
    BY <1>4 DEF Link!Session, LinkInv, LinkTypes, Keyed
  <2>2. ASSUME NEW g \in granted' PROVE Mailed(g.key, g.user)
    <3>1. CASE g \in granted
      BY <3>1 DEF LinkInv, GrantedByMail
    <3>2. CASE g \notin granted
      <4>1. PICK k \in key[p], u \in users : u.id = target[p] /\ g = [key |-> k, user |-> u.id]
        BY <1>4, <3>2 DEF Link!Session
      <4>. QED  BY <2>1, <4>1 DEF LinkInv, AimedByMail, Mailed
    <3>. QED  BY <3>1, <3>2
  <2>3. GrantedByMail'
    BY <2>1, <2>2 DEF GrantedByMail, Mailed, Link!tables
  <2>4. LinkedByMail'
    BY <2>1 DEF LinkInv, LinkedByMail, Mailed, Link!tables
  <2>. QED  BY <2>1, <2>3, <2>4, FinishLink DEF Link!tables
<1>. QED  BY <1>1, <1>2, <1>3, <1>4

\* A user of an e-mail that was free, for the identity of a call, is created,
\* alone or with an account of the identity.
LEMMA AddUserLink ==
  ASSUME Link!LinkingAssumption, LinkInv, NEW p \in Procs, Link!AddUser(p), \A k \in key[p] : Link!Free(Link!EmailOf(k)),
         NEW K \in SUBSET key[p], NEW t \in {0, nextUser},
         key' = [key EXCEPT ![p] = K], target' = [target EXCEPT ![p] = t], granted' = granted,
         \A a \in accounts' \ accounts : a.key \in key[p] /\ a.user = nextUser
  PROVE  UniqueUsers' /\ FreshIds' /\ LinkedByMail' /\ AimedByMail' /\ GrantedByMail'
<1>1. nextUser \in Nat /\ 0 < nextUser /\ nextUser' = nextUser + 1
  BY DEF Link!AddUser, LinkInv, LinkTypes, Link!TypeOK, Link!LinkingAssumption
<1>2. users \subseteq users' /\ \A u \in users : u.id \in Nat /\ u.id < nextUser
  BY DEF Link!AddUser, LinkInv, LinkTypes, Link!TypeOK, Link!User, FreshIds
<1>3. \A v \in users' : v \notin users => v.id = nextUser /\ \E k \in key[p] : v.email = Link!EmailOf(k)
  BY DEF Link!AddUser
<1>4. \A k, l \in key[p] : k = l
  BY DEF LinkInv, LinkTypes, Keyed
<1>5. \A u \in users, v \in users' : v \notin users => u.id # v.id /\ u.email # v.email
  BY <1>1, <1>2, <1>3 DEF Link!Free
<1>6. UniqueUsers'
  <2>1. \A v, w \in users' : v \notin users /\ w \notin users => v.id = w.id /\ v.email = w.email
    BY <1>3, <1>4
  <2>2. \A v, w \in users : v.id = w.id <=> v.email = w.email
    BY DEF LinkInv, UniqueUsers
  <2>. QED  BY <1>5, <2>1, <2>2 DEF UniqueUsers
<1>7. \A q \in Procs : target'[q] \in Nat /\ target'[q] <= nextUser
                        /\ (target'[q] = nextUser => q = p /\ t = nextUser) /\ (q # p => target'[q] = target[q])
  <2>1. \A q \in Procs : target[q] \in Nat /\ target[q] < nextUser
    BY DEF LinkInv, LinkTypes, Link!TypeOK, FreshIds, Link!LinkingAssumption
  <2>2. \A q \in Procs : target'[q] = IF q = p THEN t ELSE target[q]
    BY DEF LinkInv, LinkTypes, Link!TypeOK
  <2>. QED  BY <1>1, <2>1, <2>2
<1>8. FreshIds'
  <2>1. \A v \in users' : v.id < nextUser'
    BY <1>1, <1>2, <1>3
  <2>. QED  BY <1>1, <1>7, <2>1 DEF FreshIds
<1>9. \A k, i : Mailed(k, i) => Mailed(k, i)'
  BY <1>2 DEF Mailed
<1>10. LinkedByMail'
  <2>. SUFFICES ASSUME NEW a \in accounts', a.key \in Keys PROVE Mailed(a.key, a.user)'
    BY DEF LinkedByMail
  <2>1. CASE a \in accounts
    BY <1>9, <2>1 DEF LinkInv, LinkedByMail
  <2>2. CASE a \notin accounts
    <3>1. a.key \in key[p] /\ a.user = nextUser /\ Link!EmailOf(a.key) = Mail[a.key]
      BY <2>2 DEF Link!EmailOf
    <3>2. [id |-> nextUser, email |-> Link!EmailOf(a.key), verified |-> a.key \in Proven] \in users'
      BY <3>1, Zenon DEF Link!AddUser
    <3>3. \E v \in users' : v.id = nextUser /\ v.email = Link!EmailOf(a.key)
      BY <3>2
    <3>. QED  BY <3>1, <3>3 DEF Mailed
  <2>. QED  BY <2>1, <2>2
<1>11. GrantedByMail'
  BY <1>9 DEF LinkInv, GrantedByMail
<1>12. AimedByMail'
  <2>. SUFFICES ASSUME NEW q \in Procs, NEW k \in key'[q], k \in Keys, NEW u \in users', u.id = target'[q]
                PROVE  u.email = Mail[k]
    BY DEF AimedByMail
  <2>1. k \in key[q]
    BY DEF LinkInv, LinkTypes, Link!TypeOK
  <2>2. CASE u \notin users
    <3>1. q = p
      BY <1>3, <1>7, <2>2
    <3>2. u.email = Link!EmailOf(k)
      BY <1>3, <1>4, <2>1, <2>2, <3>1
    <3>. QED  BY <3>2 DEF Link!EmailOf
  <2>3. CASE u \in users /\ q # p
    BY <1>7, <2>1, <2>3 DEF LinkInv, AimedByMail
  <2>4. CASE u \in users /\ q = p
    <3>1. target'[p] = t
      BY DEF LinkInv, LinkTypes, Link!TypeOK
    <3>2. u.id \in 1 .. MaxUsers /\ MaxUsers \in Nat
      BY <2>4 DEF LinkInv, LinkTypes, Link!TypeOK, Link!User, Link!LinkingAssumption
    <3>. QED  BY <1>1, <1>2, <2>4, <3>1, <3>2
  <2>. QED  BY <2>2, <2>3, <2>4
<1>. QED  BY <1>6, <1>8, <1>10, <1>11, <1>12

LEMMA CreateLink ==
  ASSUME Link!LinkingAssumption, LinkInv, NEW p \in Procs, Link!Create(p) \/ Link!CreateAccount(p)
  PROVE  UniqueUsers' /\ FreshIds' /\ LinkedByMail' /\ AimedByMail' /\ GrantedByMail'
<1>1. CASE Link!Create(p) /\ Link!Finish(p) /\ UNCHANGED Link!tables
  BY <1>1, FinishLink, KeptLink DEF Link!Create, Link!tables
<1>2. CASE Link!Create(p) /\ ~(Link!Finish(p) /\ UNCHANGED Link!tables)
  <2>1. /\ Link!AddUser(p) /\ \A k \in key[p] : Link!Free(Link!EmailOf(k))
        /\ granted' = granted
        /\ \/ Link!AddAccount(p, nextUser) /\ Link!Registered(p, nextUser)
           \/ target' = [target EXCEPT ![p] = nextUser] /\ UNCHANGED <<accounts, key>>
    BY <1>2 DEF Link!Create
  <2>2. \A a \in accounts' \ accounts : a.key \in key[p] /\ a.user = nextUser
    BY <2>1 DEF Link!AddAccount
  <2>3. \/ key' = [key EXCEPT ![p] = {}] /\ target' = [target EXCEPT ![p] = 0]
        \/ UNCHANGED key /\ target' = [target EXCEPT ![p] = nextUser]
    BY <2>1 DEF Link!Registered, Link!Finish
  <2>4. \E K \in SUBSET key[p], t \in {0, nextUser} :
          key' = [key EXCEPT ![p] = K] /\ target' = [target EXCEPT ![p] = t]
    <3>1. UNCHANGED key => key' = [key EXCEPT ![p] = key[p]]
      BY DEF LinkInv, LinkTypes, Link!TypeOK
    <3>. QED  BY <2>3, <3>1
  <2>. QED  BY <2>1, <2>2, <2>4, AddUserLink
<1>3. CASE Link!CreateAccount(p)
  <2>1. UNCHANGED <<users, nextUser, granted>>
    BY <1>3 DEF Link!CreateAccount
  <2>2. CASE \E u \in users : u.id = target[p]
    <3>1. /\ Link!AddAccount(p, target[p])
          /\ Link!Finish(p) \/ (target' = [target EXCEPT ![p] = target[p]] /\ UNCHANGED key)
      BY <1>3, <2>2 DEF Link!CreateAccount, Link!Registered
    <3>2. Link!Finish(p) \/ UNCHANGED <<key, target>>
      BY <3>1 DEF LinkInv, LinkTypes, Link!TypeOK
    <3>. QED  BY <2>1, <2>2, <3>1, <3>2, AddAccountLink, SameLink, FinishLink
  <2>3. CASE ~\E u \in users : u.id = target[p]
    BY <1>3, <2>1, <2>3, FinishLink, KeptLink DEF Link!CreateAccount
  <2>. QED  BY <2>2, <2>3
<1>. QED  BY <1>1, <1>2, <1>3

LEMMA BeginLink ==
  ASSUME Link!LinkingAssumption, LinkInv, OwnMailOnly, NEW p \in Procs,
         \/ Link!SignUp(p) \/ Link!LinkSocial(p) \/ Link!Attach(p) \/ Link!UnlinkAccount(p) \/ Link!Unlink(p)
         \/ Link!DeleteUser(p) \/ Link!Throw(p)
  PROVE  UniqueUsers' /\ FreshIds' /\ LinkedByMail' /\ AimedByMail' /\ GrantedByMail'
<1>0. /\ Keys \cap Emails = {} /\ nextUser \in Nat /\ 0 < nextUser
      /\ users' = users /\ nextUser' = nextUser /\ granted' = granted
      /\ pc[p] = "idle" => target[p] = 0 /\ key[p] = {}
  BY DEF Link!SignUp, Link!LinkSocial, Link!Attach, Link!UnlinkAccount, Link!Unlink, Link!DeleteUser, Link!Throw, Link!tables,
         LinkInv, LinkTypes, Link!TypeOK, Keyed, Link!LinkingAssumption
<1>1. CASE Link!SignUp(p)
  <2>1. PICK e \in Emails : key' = [key EXCEPT ![p] = {e}]
    BY <1>1 DEF Link!SignUp
  <2>2. pc[p] = "idle" /\ UNCHANGED <<Link!tables, target, granted>>
    BY <1>1 DEF Link!SignUp, Link!Enter
  <2>3. target' = [target EXCEPT ![p] = 0]
    BY <1>0, <2>2 DEF LinkInv, LinkTypes, Link!TypeOK
  <2>4. {e} \in SUBSET (Keys \cup Emails) /\ \A k \in {e} \cap Keys : FALSE
    BY <1>0
  <2>. QED  BY <1>0, <2>1, <2>2, <2>3, <2>4, LocalLink, KeptLink DEF Link!tables
<1>2. CASE Link!LinkSocial(p)
  <2>1. PICK u \in users, k \in Proven \cup Trusted :
          /\ Mail[k] = u.email
          /\ key' = [key EXCEPT ![p] = {k}] /\ target' = [target EXCEPT ![p] = u.id]
    BY <1>2 DEF Link!LinkSocial, Link!Enter, OwnMailOnly
  <2>2. accounts' = accounts
    BY <1>2 DEF Link!LinkSocial, Link!tables
  <2>3. /\ {k} \in SUBSET (Keys \cup Emails) /\ u.id \in Nat /\ u.id < nextUser
        /\ \A l \in {k} \cap Keys : \A v \in users : v.id = u.id => v.email = Mail[l]
    BY <2>1 DEF LinkInv, LinkTypes, Link!TypeOK, Link!User, FreshIds, UniqueUsers, Link!LinkingAssumption
  <2>. QED  BY <1>0, <2>1, <2>2, <2>3, LocalLink, KeptLink
<1>3. CASE Link!Attach(p)
  <2>1. Link!Finish(p)
    BY <1>3 DEF Link!Attach
  <2>2. CASE \E u \in users : u.id = target[p]
    BY <1>0, <1>3, <2>1, <2>2, AddAccountLink, FinishLink DEF Link!Attach
  <2>3. CASE ~\E u \in users : u.id = target[p]
    BY <1>0, <1>3, <2>1, <2>3, KeptLink, FinishLink DEF Link!Attach
  <2>. QED  BY <2>2, <2>3
<1>4. CASE Link!UnlinkAccount(p)
  BY <1>0, <1>4, SameLink, KeptLink DEF Link!UnlinkAccount, Link!tables
<1>5. CASE Link!DeleteUser(p)
  <2>1. PICK u \in users : target' = [target EXCEPT ![p] = u.id]
    BY <1>5 DEF Link!DeleteUser
  <2>2. pc[p] = "idle" /\ UNCHANGED <<Link!tables, key, granted>>
    BY <1>5 DEF Link!DeleteUser, Link!Enter
  <2>3. key' = [key EXCEPT ![p] = {}]
    BY <1>0, <2>2 DEF LinkInv, LinkTypes, Link!TypeOK
  <2>4. /\ {} \in SUBSET (Keys \cup Emails) /\ u.id \in Nat /\ u.id < nextUser
        /\ \A l \in {} \cap Keys : \A v \in users : v.id = u.id => v.email = Mail[l]
    BY DEF LinkInv, LinkTypes, Link!TypeOK, Link!User, FreshIds
  <2>. QED  BY <1>0, <2>1, <2>2, <2>3, <2>4, LocalLink, KeptLink DEF Link!tables
<1>6. CASE Link!Unlink(p) \/ Link!Throw(p)
  <2>1. Link!Finish(p) /\ accounts' \subseteq accounts
    BY <1>6 DEF Link!Unlink, Link!Throw, Link!tables
  <2>. QED  BY <1>0, <2>1, FinishLink, KeptLink
<1>. QED  BY <1>1, <1>2, <1>3, <1>4, <1>5, <1>6

LEMMA DeleteLink ==
  ASSUME LinkInv, NEW p \in Procs, Link!DeleteAccounts(p) \/ Link!RemoveUser(p)
  PROVE  UniqueUsers' /\ FreshIds' /\ LinkedByMail' /\ AimedByMail' /\ GrantedByMail'
<1>1. CASE Link!DeleteAccounts(p)
  BY <1>1, SameLink, KeptLink DEF Link!DeleteAccounts
<1>2. CASE Link!RemoveUser(p)
  <2>1. /\ users' = {u \in users : u.id # target[p]} /\ nextUser' = nextUser
        /\ accounts' = accounts \ Link!AccountsOf(target[p])
        /\ granted' = {g \in granted : g.user # target[p]}
        /\ key' = [key EXCEPT ![p] = {}] /\ target' = [target EXCEPT ![p] = 0]
    BY <1>2 DEF Link!RemoveUser, Link!Finish
  <2>2. \A k, i : Mailed(k, i) /\ i # target[p] => Mailed(k, i)'
    BY <2>1 DEF Mailed
  <2>3. UniqueUsers'
    BY <2>1 DEF LinkInv, UniqueUsers
  <2>4. FreshIds'
    <3>1. 0 < nextUser
      BY DEF LinkInv, LinkTypes, Link!TypeOK
    <3>. QED  BY <2>1, <3>1 DEF LinkInv, FreshIds, LinkTypes, Link!TypeOK
  <2>5. LinkedByMail' /\ GrantedByMail'
    BY <2>1, <2>2 DEF LinkInv, LinkedByMail, GrantedByMail, Link!AccountsOf
  <2>6. AimedByMail'
    BY <2>1 DEF LinkInv, AimedByMail, LinkTypes, Link!TypeOK
  <2>. QED  BY <2>3, <2>4, <2>5, <2>6
<1>. QED  BY <1>1, <1>2

LEMMA LinkInvariance == ASSUME Link!LinkingAssumption, OwnMailOnly PROVE Link!Spec => []LinkInv
<1>1. Link!Init => LinkInv
  <2>. SUFFICES ASSUME Link!Init PROVE LinkInv
    OBVIOUS
  <2>1. LinkTypes
    BY LinkInitTypes
  <2>2. UniqueUsers /\ LinkedByMail /\ GrantedByMail
    BY DEF Link!Init, UniqueUsers, LinkedByMail, GrantedByMail
  <2>3. FreshIds /\ AimedByMail
    BY DEF Link!Init, FreshIds, AimedByMail
  <2>. QED  BY <2>1, <2>2, <2>3 DEF LinkInv
<1>2. LinkInv /\ [Link!Next]_(Link!vars) => LinkInv'
  <2>. SUFFICES ASSUME LinkInv, [Link!Next]_(Link!vars) PROVE LinkInv'
    OBVIOUS
  <2>0. LinkTypes'
    BY LinkStepTypes DEF LinkInv
  <2>1. CASE UNCHANGED Link!vars
    BY <2>0, <2>1, SameLink, KeptLink DEF Link!vars, LinkInv
  <2>2. CASE Link!VerifyEmail
    <3>1. PICK u \in users : users' = (users \ {u}) \cup {[u EXCEPT !.verified = TRUE]}
      BY <2>2 DEF Link!VerifyEmail
    <3>2. [u EXCEPT !.verified = TRUE].id = u.id /\ [u EXCEPT !.verified = TRUE].email = u.email
      BY DEF LinkInv, LinkTypes, Link!TypeOK, Link!User
    <3>3. UNCHANGED <<accounts, nextUser, key, target, granted>>
      BY <2>2 DEF Link!VerifyEmail
    <3>4. /\ \A w \in users : \E v \in users' : v.id = w.id /\ v.email = w.email
          /\ \A v \in users' : \E w \in users : v.id = w.id /\ v.email = w.email
      BY <3>1, <3>2
    <3>. QED  BY <2>0, <3>3, <3>4, VerifiedLink DEF LinkInv
  <2>3. ASSUME NEW p \in Procs, Link!Step(p) PROVE LinkInv'
    <3>1. CASE Link!SignIn(p) \/ Link!Match(p)
      <4>1. UNCHANGED <<users, accounts, granted>>
        BY <3>1 DEF Link!SignIn, Link!Match, Link!tables
      <4>. QED  BY <2>0, <3>1, <4>1, SignInLink, KeptLink DEF LinkInv
    <3>2. CASE ~Link!SignIn(p) /\ ~Link!Match(p)
      BY <2>0, <2>3, <3>2, CallbackLink, CreateLink, BeginLink, DeleteLink DEF Link!Step, LinkInv
    <3>. QED  BY <3>1, <3>2
  <2>. QED  BY <2>1, <2>2, <2>3 DEF Link!Next
<1>. QED  BY <1>1, <1>2, PTL DEF Link!Spec

\* Where a user who is signed in may link identities of its own e-mail only
\* (allowDifferentEmails is off, as by default), or none, whoever signs in with an
\* identity is always the same user, however many callbacks (handleOAuthUserInfo),
\* sign-ups, links, unlinks and deletions of users are under way, with transactions or
\* without.
THEOREM OneUserCorrect == ASSUME Link!LinkingAssumption, OwnMailOnly PROVE Link!Spec => []Link!OneUser
<1>1. LinkInv => Link!OneUser
  <2>. SUFFICES ASSUME LinkInv, NEW g \in granted, NEW h \in granted, g.key = h.key
                PROVE  g.user = h.user
    BY DEF Link!OneUser
  <2>1. Mailed(g.key, g.user) /\ Mailed(h.key, h.user)
    BY DEF LinkInv, GrantedByMail
  <2>. QED  BY <2>1 DEF Mailed, LinkInv, UniqueUsers
<1>. QED  BY <1>1, LinkInvariance, PTL

-----------------------------------------------------------------------------
(* One call at a time, also with identities of other e-mails.              *)

\* The rows of an identity are of one user.
OneOwner == \A a, b \in accounts : a.key \in Keys /\ a.key = b.key => a.user = b.user

\* Whoever signed in with an identity has it still.
GrantedOwned == \A g \in granted : \E a \in accounts : a.key = g.key /\ a.user = g.user

\* A call is about to give a user an identity that nobody has, or to open a session of the
\* user who has it.
Settled ==
  \A p \in Procs :
    /\ pc[p] # "unlink"
    /\ pc[p] \in {"match", "create", "createAccount", "connect", "attach"} =>
         \A a \in accounts : a.key \in key[p] => a.key \notin Keys
    /\ pc[p] \in {"update", "promote", "session"} =>
         \A k \in key[p] : \E a \in accounts : a.key = k /\ a.user = target[p]

SettledInv == LinkTypes /\ OneOwner /\ GrantedOwned /\ Settled

\* Nobody gives an identity away.
NoUnlink == "unlink" \notin Ops

\* What a single call has to preserve.
LEMMA LinkSettled ==
  ASSUME OneCall, NEW p \in Procs, pc'[p] # "unlink",
         pc'[p] \in {"match", "create", "createAccount", "connect", "attach"} =>
           \A a \in accounts' : a.key \in key'[p] => a.key \notin Keys,
         pc'[p] \in {"update", "promote", "session"} =>
           \A k \in key'[p] : \E a \in accounts' : a.key = k /\ a.user = target'[p]
  PROVE  Settled'
<1>1. \A q \in Procs : q = p
  BY DEF OneCall
<1>. QED  BY <1>1 DEF Settled

\* The steps that read.
LEMMA LinkReads ==
  ASSUME Link!LinkingAssumption, OneCall, SettledInv, NoUnlink, NEW p \in Procs,
         \/ Link!SignIn(p) \/ Link!Match(p) \/ Link!Update(p) \/ Link!Promote(p) \/ Link!SignUp(p)
         \/ Link!LinkSocial(p) \/ Link!UnlinkAccount(p) \/ Link!DeleteUser(p) \/ Link!Throw(p)
  PROVE  OneOwner' /\ GrantedOwned' /\ Settled'
<1>1. accounts' = accounts /\ granted' = granted
  BY DEF Link!SignIn, Link!Match, Link!Update, Link!Promote, Link!SignUp, Link!LinkSocial, Link!UnlinkAccount,
         Link!DeleteUser, Link!Throw, Link!tables
<1>2. CASE Link!SignIn(p)
  <2>1. PICK k \in Keys :
          /\ key' = [key EXCEPT ![p] = {k}]
          /\ \/ \E a \in Link!With(k) : \E u \in users : u.id = a.user /\ Link!Owned(p, k, u, a)
             \/ Link!With(k) = {} /\ Link!Goto(p, "match")
    BY <1>2 DEF Link!SignIn
  <2>2. key'[p] = {k}
    BY <2>1 DEF SettledInv, LinkTypes, Link!TypeOK
  <2>3. CASE Link!With(k) = {} /\ Link!Goto(p, "match")
    <3>1. pc'[p] = "match" /\ \A a \in accounts : a.key # k
      BY <2>3 DEF Link!Goto, Link!With, SettledInv, LinkTypes, Link!TypeOK
    <3>2. Settled'
      BY <1>1, <2>2, <3>1, LinkSettled
    <3>. QED  BY <1>1, <3>2 DEF SettledInv, OneOwner, GrantedOwned
  <2>4. ASSUME NEW a \in Link!With(k), NEW u \in users, u.id = a.user, Link!Owned(p, k, u, a)
        PROVE  Settled'
    <3>1. pc'[p] = "update" /\ target'[p] = a.user /\ a \in accounts /\ a.key = k
      BY <2>4 DEF Link!Owned, Link!Goto, Link!With, SettledInv, LinkTypes, Link!TypeOK
    <3>. QED  BY <1>1, <2>2, <3>1, LinkSettled
  <2>. QED  BY <1>1, <2>1, <2>3, <2>4 DEF SettledInv, OneOwner, GrantedOwned
<1>3. CASE Link!Match(p)
  <2>0. pc[p] = "match" /\ \A k \in key[p] : k \in Keys /\ Link!With(k) = {}
    BY <1>3 DEF Link!Match, Link!With, SettledInv, LinkTypes, Keyed, Settled
  <2>1. pc'[p] \in {"create", "connect", "idle"} /\ (pc'[p] = "idle" \/ key' = key)
    BY <1>3, <2>0 DEF Link!Match, Link!Goto, Link!Finish, SettledInv, LinkTypes, Link!TypeOK
  <2>2. Settled'
    BY <1>1, <2>0, <2>1, LinkSettled DEF Link!With
  <2>. QED  BY <1>1, <2>2 DEF SettledInv, OneOwner, GrantedOwned
<1>4. CASE Link!Update(p) \/ Link!Promote(p) \/ Link!Throw(p)
  <2>1. \/ pc'[p] = "idle"
        \/ /\ pc[p] \in {"update", "promote"} /\ pc'[p] \in {"promote", "session"}
           /\ key' = key /\ target' = target
    BY <1>4 DEF Link!Update, Link!Promote, Link!Throw, Link!Finish, Link!Goto, SettledInv, LinkTypes, Link!TypeOK
  <2>2. Settled'
    BY <1>1, <2>1, LinkSettled DEF SettledInv, Settled
  <2>. QED  BY <1>1, <2>2 DEF SettledInv, OneOwner, GrantedOwned
<1>5. CASE Link!SignUp(p)
  <2>1. pc'[p] = "create" /\ key'[p] \subseteq Emails
    BY <1>5 DEF Link!SignUp, Link!Enter, Link!Goto, SettledInv, LinkTypes, Link!TypeOK
  <2>2. Settled'
    BY <1>1, <2>1, LinkSettled DEF Link!LinkingAssumption
  <2>. QED  BY <1>1, <2>2 DEF SettledInv, OneOwner, GrantedOwned
<1>6. CASE Link!LinkSocial(p)
  <2>1. PICK k \in Keys \cup (Proven \cup Trusted) : Link!With(k) = {} /\ key' = [key EXCEPT ![p] = {k}]
    BY <1>6 DEF Link!LinkSocial
  <2>2. pc'[p] = "attach" /\ key'[p] = {k} /\ \A a \in accounts : a.key # k
    BY <1>6, <2>1 DEF Link!LinkSocial, Link!Enter, Link!Goto, Link!With, SettledInv, LinkTypes, Link!TypeOK
  <2>3. Settled'
    BY <1>1, <2>2, LinkSettled
  <2>. QED  BY <1>1, <2>3 DEF SettledInv, OneOwner, GrantedOwned
<1>7. CASE Link!DeleteUser(p)
  <2>1. pc'[p] = "deleteAccounts"
    BY <1>7 DEF Link!DeleteUser, Link!Enter, Link!Goto, SettledInv, LinkTypes, Link!TypeOK
  <2>2. Settled'
    BY <2>1, LinkSettled
  <2>. QED  BY <1>1, <2>2 DEF SettledInv, OneOwner, GrantedOwned
<1>8. ~Link!UnlinkAccount(p)
  BY DEF Link!UnlinkAccount, Link!Enter, NoUnlink
<1>. QED  BY <1>2, <1>3, <1>4, <1>5, <1>6, <1>7, <1>8

\* A call gives a user the identity that nobody has.
LEMMA LinkGives ==
  ASSUME SettledInv, NEW p \in Procs, NEW u, Link!AddAccount(p, u), granted' = granted,
         pc[p] \in {"create", "createAccount", "connect", "attach"}
  PROVE  /\ OneOwner' /\ GrantedOwned'
         /\ \A k \in key[p] : \E a \in accounts' : a.key = k /\ a.user = u
<1>1. accounts' = accounts \cup {[id |-> nextAccount, key |-> k, user |-> u] : k \in key[p]}
  BY DEF Link!AddAccount
<1>2. \A a \in accounts' : a \in accounts \/ (a.key \in key[p] /\ a.user = u)
  BY <1>1
<1>3. \A k \in key[p] : \E a \in accounts' : a.key = k /\ a.user = u
  <2>. SUFFICES ASSUME NEW k \in key[p] PROVE \E a \in accounts' : a.key = k /\ a.user = u
    OBVIOUS
  <2>. DEFINE new == [id |-> nextAccount, key |-> k, user |-> u]
  <2>1. new \in accounts' /\ new.key = k /\ new.user = u
    BY <1>1
  <2>. QED  BY <2>1
<1>4. \A a \in accounts : a.key \in Keys => a.key \notin key[p]
  BY DEF SettledInv, Settled
<1>5. OneOwner'
  BY <1>2, <1>4 DEF SettledInv, OneOwner
<1>6. GrantedOwned'
  BY <1>1 DEF SettledInv, GrantedOwned
<1>. QED  BY <1>3, <1>5, <1>6

LEMMA LinkWrites ==
  ASSUME OneCall, SettledInv, NEW p \in Procs,
         Link!Connect(p) \/ Link!Create(p) \/ Link!CreateAccount(p) \/ Link!Attach(p)
  PROVE  OneOwner' /\ GrantedOwned' /\ Settled'
<1>0. granted' = granted /\ pc[p] \in {"create", "createAccount", "connect", "attach"}
  BY DEF Link!Connect, Link!Create, Link!CreateAccount, Link!Attach
<1>1. CASE /\ accounts' = accounts
           /\ pc'[p] = "idle" \/ (pc'[p] = "createAccount" /\ key' = key)
  <2>1. Settled'
    BY <1>0, <1>1, LinkSettled DEF SettledInv, Settled
  <2>. QED  BY <1>0, <1>1, <2>1 DEF SettledInv, OneOwner, GrantedOwned
<1>2. ASSUME NEW u, Link!AddAccount(p, u),
             \/ pc'[p] = "idle"
             \/ pc'[p] \in {"promote", "session"} /\ key' = key /\ target'[p] = u
      PROVE  OneOwner' /\ GrantedOwned' /\ Settled'
  <2>1. /\ OneOwner' /\ GrantedOwned'
        /\ \A k \in key[p] : \E a \in accounts' : a.key = k /\ a.user = u
    BY <1>0, <1>2, LinkGives
  <2>2. Settled'
    BY <1>2, <2>1, LinkSettled
  <2>. QED  BY <2>1, <2>2
<1>3. CASE Link!Connect(p)
  <2>1. CASE Link!Finish(p) /\ accounts' = accounts
    BY <1>1, <2>1 DEF Link!Finish, Link!Goto, SettledInv, LinkTypes, Link!TypeOK
  <2>2. CASE /\ Link!AddAccount(p, target[p]) /\ UNCHANGED <<key, target>>
             /\ Link!Goto(p, IF raise[p] THEN "promote" ELSE "session")
    <3>1. pc'[p] \in {"promote", "session"} /\ target'[p] = target[p]
      BY <2>2 DEF Link!Goto, SettledInv, LinkTypes, Link!TypeOK
    <3>. QED  BY <1>2, <2>2, <3>1
  <2>. QED  BY <1>3, <2>1, <2>2 DEF Link!Connect
<1>4. ASSUME NEW u \in 0 .. MaxUsers, Link!AddAccount(p, u), Link!Registered(p, u)
      PROVE  OneOwner' /\ GrantedOwned' /\ Settled'
  <2>1. \/ pc'[p] = "idle"
        \/ pc'[p] = "session" /\ key' = key /\ target'[p] = u
    BY <1>4 DEF Link!Registered, Link!Finish, Link!Goto, SettledInv, LinkTypes, Link!TypeOK
  <2>. QED  BY <1>2, <1>4, <2>1
<1>5. CASE Link!Create(p)
  <2>1. CASE Link!Finish(p) /\ accounts' = accounts
    BY <1>1, <2>1 DEF Link!Finish, Link!Goto, SettledInv, LinkTypes, Link!TypeOK
  <2>2. CASE Link!AddAccount(p, nextUser) /\ Link!Registered(p, nextUser) /\ Link!AddUser(p)
    <3>1. nextUser \in 0 .. MaxUsers
      BY <2>2 DEF Link!AddUser, SettledInv, LinkTypes, Link!TypeOK
    <3>. QED  BY <1>4, <2>2, <3>1
  <2>3. CASE Link!Goto(p, "createAccount") /\ accounts' = accounts /\ key' = key
    <3>1. pc'[p] = "createAccount"
      BY <2>3 DEF Link!Goto, SettledInv, LinkTypes, Link!TypeOK
    <3>. QED  BY <1>1, <2>3, <3>1
  <2>. QED  BY <1>5, <2>1, <2>2, <2>3 DEF Link!Create, Link!tables
<1>6. CASE Link!CreateAccount(p)
  <2>1. target[p] \in 0 .. MaxUsers
    BY DEF SettledInv, LinkTypes, Link!TypeOK
  <2>2. CASE Link!Finish(p) /\ accounts' = accounts
    BY <1>1, <2>2 DEF Link!Finish, Link!Goto, SettledInv, LinkTypes, Link!TypeOK
  <2>. QED  BY <1>4, <1>6, <2>1, <2>2 DEF Link!CreateAccount
<1>7. CASE Link!Attach(p)
  <2>1. pc'[p] = "idle"
    BY <1>7 DEF Link!Attach, Link!Finish, Link!Goto, SettledInv, LinkTypes, Link!TypeOK
  <2>. QED  BY <1>1, <1>2, <1>7, <2>1 DEF Link!Attach
<1>. QED  BY <1>3, <1>5, <1>6, <1>7

\* The end of a callback, and the deletion of a user with its accounts and sessions.
LEMMA LinkEnds ==
  ASSUME OneCall, SettledInv, NEW p \in Procs,
         Link!Session(p) \/ Link!Unlink(p) \/ Link!DeleteAccounts(p) \/ Link!RemoveUser(p)
  PROVE  OneOwner' /\ GrantedOwned' /\ Settled'
<1>1. pc'[p] \in {"idle", "deleteUser"} /\ ~Link!Unlink(p)
  BY DEF Link!Session, Link!Unlink, Link!DeleteAccounts, Link!RemoveUser, Link!Finish, Link!Goto, SettledInv,
         LinkTypes, Link!TypeOK, Settled
<1>2. Settled'
  BY <1>1, LinkSettled
<1>3. CASE Link!Session(p)
  <2>1. accounts' = accounts
    BY <1>3 DEF Link!Session, Link!tables
  <2>2. \A g \in granted' : g \in granted \/ (g.key \in key[p] /\ g.user = target[p])
    BY <1>3 DEF Link!Session
  <2>3. \A k \in key[p] : \E a \in accounts : a.key = k /\ a.user = target[p]
    BY <1>3 DEF Link!Session, SettledInv, Settled
  <2>4. GrantedOwned'
    BY <2>1, <2>2, <2>3 DEF SettledInv, GrantedOwned
  <2>. QED  BY <1>2, <2>1, <2>4 DEF SettledInv, OneOwner
<1>4. CASE Link!DeleteAccounts(p) \/ Link!RemoveUser(p)
  <2>1. /\ accounts' = {a \in accounts : a.user # target[p]}
        /\ granted' = {g \in granted : g.user # target[p]}
    BY <1>4 DEF Link!DeleteAccounts, Link!RemoveUser, Link!AccountsOf
  <2>. QED  BY <1>2, <2>1 DEF SettledInv, OneOwner, GrantedOwned
<1>. QED  BY <1>1, <1>3, <1>4

LEMMA SettledInvariance ==
  ASSUME Link!LinkingAssumption, OneCall, NoUnlink PROVE Link!Spec => []SettledInv
<1>1. Link!Init => SettledInv
  <2>. SUFFICES ASSUME Link!Init PROVE SettledInv
    OBVIOUS
  <2>1. LinkTypes
    BY LinkInitTypes
  <2>. QED  BY <2>1 DEF Link!Init, SettledInv, OneOwner, GrantedOwned, Settled
<1>2. SettledInv /\ [Link!Next]_(Link!vars) => SettledInv'
  <2>. SUFFICES ASSUME SettledInv, [Link!Next]_(Link!vars) PROVE SettledInv'
    OBVIOUS
  <2>0. LinkTypes'
    BY LinkStepTypes DEF SettledInv
  <2>1. CASE UNCHANGED Link!vars \/ Link!VerifyEmail
    <3>1. UNCHANGED <<accounts, pc, key, target, granted>>
      BY <2>1 DEF Link!vars, Link!VerifyEmail
    <3>. QED  BY <2>0, <3>1 DEF SettledInv, OneOwner, GrantedOwned, Settled
  <2>2. ASSUME NEW p \in Procs, Link!Step(p) PROVE SettledInv'
    BY <2>0, <2>2, LinkReads, LinkWrites, LinkEnds DEF Link!Step, SettledInv
  <2>. QED  BY <2>1, <2>2 DEF Link!Next
<1>. QED  BY <1>1, <1>2, PTL DEF Link!Spec

\* Also where users link identities of other e-mails (allowDifferentEmails), whoever signs in
\* with an identity is always the same user, with transactions or without and wherever a call
\* dies, as long as calls do not overlap and no identity is unlinked, which sets it free for
\* somebody else.
THEOREM OneUserAlone ==
  ASSUME Link!LinkingAssumption, OneCall, NoUnlink PROVE Link!Spec => []Link!OneUser
<1>1. SettledInv => Link!OneUser
  <2>. SUFFICES ASSUME SettledInv, NEW g \in granted, NEW h \in granted, g.key = h.key
                PROVE  g.user = h.user
    BY DEF Link!OneUser
  <2>1. g.key \in Keys
    BY DEF SettledInv, LinkTypes, Link!TypeOK
  <2>. QED  BY <2>1 DEF SettledInv, GrantedOwned, OneOwner
<1>. QED  BY <1>1, SettledInvariance, PTL

-----------------------------------------------------------------------------
(***************************************************************************)
(* OneTimePasswords: a code is in one place, and its guesses go with it.   *)
(***************************************************************************)

-----------------------------------------------------------------------------
(* Type correctness.                                                       *)

\* A row with one guess less, and with what else an update or a creation writes.
LEMMA OtpRowTypes ==
  ASSUME NEW x \in Otp!Row, NEW a \in Nat, NEW e \in Nat
  PROVE  /\ [x EXCEPT !.at = a] \in Otp!Row
         /\ [x EXCEPT !.exp = e] \in Otp!Row
         /\ Otp!SpentOne(x) \in Otp!Row
         /\ [Otp!SpentOne(x) EXCEPT !.at = a, !.exp = e] \in Otp!Row
         /\ [x EXCEPT !.at = a].code = x.code /\ [x EXCEPT !.at = a].n = x.n
         /\ [x EXCEPT !.exp = e].code = x.code /\ [x EXCEPT !.exp = e].n = x.n
         /\ Otp!SpentOne(x).code = x.code /\ Otp!SpentOne(x).n = x.n + 1
<1>1. x.n \in Nat /\ x.n + 1 \in Nat
  BY DEF Otp!Row
<1>2. Otp!SpentOne(x) = [at |-> x.at, code |-> x.code, n |-> x.n + 1, exp |-> x.exp]
  BY DEF Otp!Row, Otp!SpentOne
<1>3. /\ Otp!SpentOne(x) \in Otp!Row
      /\ Otp!SpentOne(x).code = x.code /\ Otp!SpentOne(x).n = x.n + 1
  BY <1>1, <1>2 DEF Otp!Row
<1>4. \A y \in Otp!Row : [y EXCEPT !.at = a, !.exp = e] \in Otp!Row
  BY DEF Otp!Row
<1>. QED  BY <1>3, <1>4 DEF Otp!Row

\* The steps of sending a code.
LEMMA OtpSendTypes ==
  ASSUME Otp!OtpAssumption, Otp!TypeOK, NEW p \in Procs,
         \/ Otp!Send(p) \/ Otp!FindReusable(p) \/ Otp!Extend(p) \/ Otp!Create(p)
         \/ Otp!CreateFails(p) \/ Otp!Clear(p) \/ Otp!Delete(p)
  PROVE  Otp!TypeOK'
<1>1. CASE Otp!Send(p) \/ Otp!CreateFails(p) \/ Otp!Clear(p) \/ Otp!Delete(p)
  BY <1>1 DEF Otp!Send, Otp!CreateFails, Otp!Clear, Otp!Delete, Otp!Start, Otp!Goto, Otp!Finish,
              Otp!TypeOK, Otp!Labels
<1>2. CASE Otp!FindReusable(p)
  <2>1. Otp!Reusable \subseteq Otp!Row /\ Otp!CleanedUp \subseteq rows
    BY DEF Otp!Reusable, Otp!Newest, Otp!CleanedUp, Otp!TypeOK
  <2>. QED  BY <1>2, <2>1 DEF Otp!FindReusable, Otp!Goto, Otp!TypeOK, Otp!Labels
<1>3. CASE Otp!Extend(p) \/ Otp!Create(p)
  <2>1. /\ pc' \in [Procs -> Otp!Labels] /\ op' \in [Procs -> Ops \cup {"none"}]
        /\ hold' \in [Procs -> SUBSET Otp!Row]
    BY <1>3 DEF Otp!Extend, Otp!Create, Otp!Delivered, Otp!Finish, Otp!Goto, Otp!TypeOK, Otp!Labels
  <2>2. now + Lifetime \in Nat
    BY DEF Otp!TypeOK, Otp!OtpAssumption
  <2>3. CASE Otp!Extend(p)
    <3>1. \A x \in rows : [x EXCEPT !.exp = now + Lifetime] \in Otp!Row
      BY <2>2, OtpRowTypes, 0 \in Nat DEF Otp!TypeOK
    <3>. QED  BY <2>1, <2>3, <3>1 DEF Otp!Extend, Otp!TypeOK
  <2>4. CASE Otp!Create(p)
    <3>1. sends' \in 1 .. MaxSends /\ created' \in Nat /\ created \in Nat
      BY <2>4 DEF Otp!Create, Otp!Insert, Otp!TypeOK, Otp!OtpAssumption
    <3>2. [at |-> 0, code |-> sends', n |-> 0, exp |-> now + Lifetime] \in Otp!Row
      BY <2>2, <3>1 DEF Otp!Row, Otp!Codes
    <3>3. [[at |-> 0, code |-> sends', n |-> 0, exp |-> now + Lifetime] EXCEPT !.at = created] \in Otp!Row
      BY <3>1, <3>2, OtpRowTypes, 0 \in Nat
    <3>4. rows' \subseteq Otp!Row
      BY <2>4, <3>3 DEF Otp!Create, Otp!Insert, Otp!TypeOK
    <3>. QED  BY <2>1, <2>4, <3>1, <3>4 DEF Otp!Create, Otp!TypeOK
  <2>. QED  BY <1>3, <2>3, <2>4
<1>. QED  BY <1>1, <1>2, <1>3

\* The steps of using and of checking a code.
LEMMA OtpUseTypes ==
  ASSUME Otp!OtpAssumption, Otp!TypeOK, NEW p \in Procs,
         \/ Otp!Use(p) \/ Otp!Consume(p) \/ Otp!Right(p) \/ Otp!Wrong(p) \/ Otp!Rearm(p)
         \/ Otp!Check(p) \/ Otp!Update(p) \/ Otp!Throw(p)
  PROVE  Otp!TypeOK'
<1>0. Otp!Newest \subseteq Otp!Row /\ Otp!CleanedUp \subseteq rows
  BY DEF Otp!Newest, Otp!CleanedUp, Otp!TypeOK
<1>1. CASE Otp!Use(p) \/ Otp!Check(p) \/ Otp!Throw(p)
  BY <1>0, <1>1 DEF Otp!Use, Otp!Check, Otp!Throw, Otp!Start, Otp!Goto, Otp!Finish, Otp!TypeOK, Otp!Labels
<1>2. CASE Otp!Consume(p)
  <2>1. {x \in Otp!Newest : ~Otp!Expired(x) /\ ~Otp!Exhausted(x)} \subseteq Otp!Row /\ Otp!AfterConsume = {}
    BY <1>0 DEF Otp!AfterConsume
  <2>. QED  BY <1>2, <2>1 DEF Otp!Consume, Otp!Goto, Otp!Finish, Otp!TypeOK, Otp!Labels
<1>3. CASE Otp!Right(p)
  BY <1>3 DEF Otp!Right, Otp!Finish, Otp!Goto, Otp!TypeOK, Otp!Labels
<1>4. CASE Otp!Wrong(p)
  BY <1>4 DEF Otp!Wrong, Otp!Goto, Otp!TypeOK, Otp!Labels
<1>5. CASE Otp!Rearm(p) \/ Otp!Update(p)
  <2>1. /\ pc' \in [Procs -> Otp!Labels] /\ op' \in [Procs -> Ops \cup {"none"}]
        /\ hold' \in [Procs -> SUBSET Otp!Row]
    BY <1>5 DEF Otp!Rearm, Otp!Update, Otp!Finish, Otp!Goto, Otp!TypeOK, Otp!Labels
  <2>2. hold[p] \subseteq Otp!Row /\ created \in Nat /\ rows \subseteq Otp!Row
    BY DEF Otp!TypeOK
  <2>3. CASE Otp!Rearm(p)
    <3>1. PICK x \in hold[p] : Otp!Insert(Otp!SpentOne(x))
      BY <2>3 DEF Otp!Rearm
    <3>2. Otp!SpentOne(x) \in Otp!Row
      BY <2>2, OtpRowTypes
    <3>3. [Otp!SpentOne(x) EXCEPT !.at = created] \in Otp!Row
      BY <2>2, <3>2, OtpRowTypes
    <3>. QED  BY <2>1, <2>2, <2>3, <3>1, <3>3 DEF Otp!Rearm, Otp!Insert, Otp!TypeOK
  <2>4. CASE Otp!Update(p)
    <3>1. PICK x \in hold[p] :
            rows' = {[Otp!SpentOne(x) EXCEPT !.at = y.at, !.exp = y.exp] : y \in rows}
      BY <2>4 DEF Otp!Update
    <3>2. \A y \in rows : y.at \in Nat /\ y.exp \in Nat
      BY <2>2 DEF Otp!Row
    <3>3. \A y \in rows : [Otp!SpentOne(x) EXCEPT !.at = y.at, !.exp = y.exp] \in Otp!Row
      BY <2>2, <3>2, OtpRowTypes
    <3>. QED  BY <2>1, <2>4, <3>1, <3>3 DEF Otp!Update, Otp!TypeOK
  <2>. QED  BY <1>5, <2>3, <2>4
<1>. QED  BY <1>1, <1>2, <1>3, <1>4, <1>5

LEMMA OtpStepTypes ==
  ASSUME Otp!OtpAssumption, Otp!TypeOK, [Otp!Next]_(Otp!vars) PROVE Otp!TypeOK'
<1>1. CASE UNCHANGED Otp!vars
  BY <1>1 DEF Otp!vars, Otp!TypeOK
<1>2. CASE Otp!Tick
  BY <1>2 DEF Otp!Tick, Otp!TypeOK
<1>3. ASSUME NEW p \in Procs, Otp!Step(p) PROVE Otp!TypeOK'
  BY <1>3, OtpSendTypes, OtpUseTypes DEF Otp!Step
<1>. QED  BY <1>1, <1>2, <1>3 DEF Otp!Next

LEMMA OtpInitTypes == ASSUME Otp!OtpAssumption, Otp!Init PROVE Otp!TypeOK
BY DEF Otp!OtpAssumption, Otp!Init, Otp!TypeOK, Otp!Labels

\* A row holds a code that was made, and the calls are where a call can be.
THEOREM OtpTypeCorrect == ASSUME Otp!OtpAssumption PROVE Otp!Spec => []Otp!TypeOK
<1>1. Otp!Init => Otp!TypeOK
  BY OtpInitTypes
<1>2. Otp!TypeOK /\ [Otp!Next]_(Otp!vars) => Otp!TypeOK'
  BY OtpStepTypes
<1>. QED  BY <1>1, <1>2, PTL DEF Otp!Spec

-----------------------------------------------------------------------------
(* A code that was consumed is in the hands of one call.                   *)

\* checkVerificationOTP, which writes a code without having consumed it, is not called.
NotChecked == "check" \notin Ops

\* A call has consumed what it holds.
InHand(p) == pc[p] \in {"compare", "rearm"}

\* A call that consumes is one that uses the code, and none updates the value.
Using ==
  \A p \in Procs : /\ pc[p] \in {"consume", "compare", "rearm"} => op[p] = "use"
                   /\ pc[p] # "update"

\* Codes are made one after the other.
Made ==
  /\ \A x \in rows : x.code <= sends
  /\ \A p \in Procs : InHand(p) => \A x \in hold[p] : x.code <= sends
  /\ \A k \in Otp!Codes : k > sends => accepted[k] = 0 /\ wrong[k] = 0

\* A code is in one row, or in one row that one call has consumed.
OnePlace ==
  /\ \A x, y \in rows : x.code = y.code => x = y
  /\ \A p \in Procs : InHand(p) =>
       \A x \in hold[p] :
         /\ \A y \in rows : x.code # y.code
         /\ \A q \in Procs : InHand(q) => \A y \in hold[q] : x.code = y.code => p = q /\ x = y

\* A code that can still be used was not accepted, and its row, or the row that was
\* consumed and the comparison of the call, count every wrong guess.
Unspent(x) == accepted[x.code] = 0 /\ wrong[x.code] <= x.n

Tallied ==
  /\ \A x \in rows : Unspent(x)
  /\ \A p \in Procs : InHand(p) =>
       \A x \in hold[p] :
         /\ accepted[x.code] = 0 /\ x.n < Allowed
         /\ wrong[x.code] <= IF pc[p] = "rearm" THEN x.n + 1 ELSE x.n

OtpInv ==
  /\ Otp!TypeOK /\ Using /\ Made /\ OnePlace /\ Tallied
  /\ Otp!AcceptedOnce /\ Otp!GuessesBounded

\* Calls let go of what they hold, rows are deleted or live longer, and no code is
\* made, compared or accepted.
LEMMA OtpFewer ==
  ASSUME OtpInv, UNCHANGED <<sends, wrong, accepted>>,
         \/ rows' \subseteq rows
         \/ \E e \in Nat : rows' = {[x EXCEPT !.exp = e] : x \in rows},
         \A q \in Procs : InHand(q)' => UNCHANGED <<pc[q], hold[q]>>
  PROVE  Made' /\ OnePlace' /\ Tallied' /\ Otp!AcceptedOnce' /\ Otp!GuessesBounded'
<1>0. \A e \in Nat : \A x \in rows : [x EXCEPT !.exp = e].code = x.code /\ [x EXCEPT !.exp = e].n = x.n
  BY OtpRowTypes, 0 \in Nat DEF OtpInv, Otp!TypeOK
<1>1. \A x \in rows' : \E y \in rows : x.code = y.code /\ x.n = y.n
  <2>1. CASE rows' \subseteq rows
    BY <2>1
  <2>2. ASSUME NEW e \in Nat, rows' = {[x EXCEPT !.exp = e] : x \in rows}
        PROVE  \A x \in rows' : \E y \in rows : x.code = y.code /\ x.n = y.n
    <3>. DEFINE Later(x) == [x EXCEPT !.exp = e]
    <3>1. \A x \in rows : Later(x).code = x.code /\ Later(x).n = x.n
      BY <1>0
    <3>2. rows' = {Later(x) : x \in rows}
      BY <2>2
    <3>. HIDE DEF Later
    <3>. QED  BY <3>1, <3>2
  <2>. QED  BY <2>1, <2>2
<1>2. \A x, y \in rows' : x.code = y.code => x = y
  <2>1. CASE rows' \subseteq rows
    BY <2>1 DEF OtpInv, OnePlace
  <2>2. ASSUME NEW e \in Nat, rows' = {[x EXCEPT !.exp = e] : x \in rows}
        PROVE  \A x, y \in rows' : x.code = y.code => x = y
    <3>. DEFINE Later(x) == [x EXCEPT !.exp = e]
    <3>1. \A x \in rows : Later(x).code = x.code
      BY <1>0
    <3>2. rows' = {Later(x) : x \in rows}
      BY <2>2
    <3>. HIDE DEF Later
    <3>. QED  BY <3>1, <3>2 DEF OtpInv, OnePlace
  <2>. QED  BY <2>1, <2>2
<1>3. \A q \in Procs : InHand(q)' => InHand(q) /\ hold'[q] = hold[q] /\ pc'[q] = pc[q]
  BY DEF InHand
<1>4. Made'
  BY <1>1, <1>3 DEF OtpInv, Made
<1>5. OnePlace'
  BY <1>1, <1>2, <1>3 DEF OtpInv, OnePlace
<1>6. Tallied'
  BY <1>1, <1>3 DEF OtpInv, Tallied, Unspent
<1>7. Otp!AcceptedOnce' /\ Otp!GuessesBounded'
  BY DEF OtpInv, Otp!AcceptedOnce, Otp!GuessesBounded
<1>. QED  BY <1>4, <1>5, <1>6, <1>7

\* The calls that use a code are the ones that consume it.
LEMMA OtpUsing ==
  ASSUME NotChecked, OtpInv, NEW p \in Procs, Otp!Step(p)
  PROVE  Using' /\ ~Otp!Check(p) /\ ~Otp!Update(p)
<1>1. ~Otp!Check(p) /\ ~Otp!Update(p)
  BY DEF NotChecked, Otp!Check, Otp!Start, Otp!Update, OtpInv, Using
<1>2. pc[p] = "compare" => op[p] = "use"
  BY DEF OtpInv, Using
<1>3. \A q \in Procs : q # p => pc'[q] = pc[q] /\ op'[q] = op[q]
  BY <1>1 DEF Otp!Step, Otp!Send, Otp!FindReusable, Otp!Extend, Otp!Create, Otp!CreateFails, Otp!Clear,
              Otp!Delete, Otp!Use, Otp!Consume, Otp!Right, Otp!Wrong, Otp!Rearm, Otp!Throw, Otp!Delivered,
              Otp!Start, Otp!Goto, Otp!Finish, OtpInv, Otp!TypeOK
<1>4. pc'[p] \in {"consume", "compare", "rearm"} => op'[p] = "use"
  BY <1>1, <1>2 DEF Otp!Step, Otp!Send, Otp!FindReusable, Otp!Extend, Otp!Create, Otp!CreateFails, Otp!Clear,
              Otp!Delete, Otp!Use, Otp!Consume, Otp!Right, Otp!Wrong, Otp!Rearm, Otp!Throw, Otp!Delivered,
              Otp!Start, Otp!Goto, Otp!Finish, OtpInv, Otp!TypeOK, Using
<1>5. pc'[p] # "update"
  BY <1>1, <1>2 DEF Otp!Step, Otp!Send, Otp!FindReusable, Otp!Extend, Otp!Create, Otp!CreateFails, Otp!Clear,
              Otp!Delete, Otp!Use, Otp!Consume, Otp!Right, Otp!Wrong, Otp!Rearm, Otp!Throw, Otp!Delivered,
              Otp!Start, Otp!Goto, Otp!Finish, OtpInv, Otp!TypeOK
<1>. QED  BY <1>1, <1>3, <1>4, <1>5 DEF OtpInv, Using

\* The steps that neither make, consume nor compare a code.
LEMMA OtpOther ==
  ASSUME Otp!OtpAssumption, OtpInv, NEW p \in Procs,
         \/ Otp!Send(p) \/ Otp!FindReusable(p) \/ Otp!Extend(p) \/ Otp!CreateFails(p) \/ Otp!Clear(p)
         \/ Otp!Delete(p) \/ Otp!Use(p) \/ Otp!Throw(p)
  PROVE  Made' /\ OnePlace' /\ Tallied' /\ Otp!AcceptedOnce' /\ Otp!GuessesBounded'
<1>1. UNCHANGED <<sends, wrong, accepted>>
  BY DEF Otp!Send, Otp!FindReusable, Otp!Extend, Otp!CreateFails, Otp!Clear, Otp!Delete, Otp!Use, Otp!Throw
<1>2. \/ rows' \subseteq rows
      \/ \E e \in Nat : rows' = {[x EXCEPT !.exp = e] : x \in rows}
  <2>1. now + Lifetime \in Nat
    BY DEF OtpInv, Otp!TypeOK, Otp!OtpAssumption
  <2>. QED  BY <2>1 DEF Otp!Send, Otp!FindReusable, Otp!Extend, Otp!CreateFails, Otp!Clear, Otp!Delete, Otp!Use,
                        Otp!Throw, Otp!CleanedUp
<1>3. \A q \in Procs : InHand(q)' => UNCHANGED <<pc[q], hold[q]>>
  <2>1. ~InHand(p)'
    BY DEF Otp!Send, Otp!FindReusable, Otp!Extend, Otp!CreateFails, Otp!Clear, Otp!Delete, Otp!Use, Otp!Throw,
           Otp!Delivered, Otp!Start, Otp!Goto, Otp!Finish, InHand, OtpInv, Otp!TypeOK
  <2>2. \A q \in Procs : q # p => UNCHANGED <<pc[q], hold[q]>>
    BY DEF Otp!Send, Otp!FindReusable, Otp!Extend, Otp!CreateFails, Otp!Clear, Otp!Delete, Otp!Use, Otp!Throw,
           Otp!Delivered, Otp!Start, Otp!Goto, Otp!Finish, OtpInv, Otp!TypeOK
  <2>. QED  BY <2>1, <2>2
<1>. QED  BY <1>1, <1>2, <1>3, OtpFewer

\* A new code.
LEMMA OtpCreate ==
  ASSUME Otp!OtpAssumption, OtpInv, NEW p \in Procs, Otp!Create(p)
  PROVE  Made' /\ OnePlace' /\ Tallied' /\ Otp!AcceptedOnce' /\ Otp!GuessesBounded'
<1>1. /\ sends \in Nat /\ sends' = sends + 1 /\ sends' \in Otp!Codes
      /\ wrong' = wrong /\ accepted' = accepted
      /\ \A y \in rows : y.code \in Nat
      /\ \A q \in Procs : \A y \in hold[q] : y.code \in Nat
  BY DEF Otp!Row, Otp!Create, OtpInv, Otp!TypeOK, Otp!Codes, Otp!OtpAssumption
<1>2. PICK x \in Otp!Row : x.code = sends' /\ x.n = 0 /\ rows' = rows \cup {x}
  <2>1. now + Lifetime \in Nat /\ created \in Nat
    BY DEF OtpInv, Otp!TypeOK, Otp!OtpAssumption
  <2>2. [at |-> 0, code |-> sends', n |-> 0, exp |-> now + Lifetime] \in Otp!Row
    BY <1>1, <2>1 DEF Otp!Row
  <2>. QED  BY <2>1, <2>2, OtpRowTypes, 0 \in Nat DEF Otp!Create, Otp!Insert
<1>3. \A q \in Procs : InHand(q)' => InHand(q) /\ hold'[q] = hold[q] /\ pc'[q] = pc[q]
  BY DEF Otp!Create, Otp!Delivered, Otp!Goto, Otp!Finish, InHand, OtpInv, Otp!TypeOK
<1>4. \A y \in rows : y.code \in Nat /\ y.code <= sends /\ y.code # x.code
  BY <1>1, <1>2 DEF OtpInv, Made
<1>5. \A q \in Procs : InHand(q) => \A y \in hold[q] : y.code \in Nat /\ y.code <= sends /\ y.code # x.code
  BY <1>1, <1>2 DEF OtpInv, Made
<1>6. Made'
  <2>1. /\ \A y \in rows' : y.code <= sends'
        /\ \A q \in Procs : InHand(q)' => \A y \in hold'[q] : y.code <= sends'
    BY <1>1, <1>2, <1>3, <1>4, <1>5
  <2>2. \A k \in Otp!Codes : k > sends' => k > sends
    BY <1>1 DEF Otp!Codes
  <2>. QED  BY <1>1, <2>1, <2>2 DEF OtpInv, Made
<1>7. OnePlace'
  BY <1>2, <1>3, <1>4, <1>5 DEF OtpInv, OnePlace
<1>8. accepted[x.code] = 0 /\ wrong[x.code] = 0
  BY <1>1, <1>2 DEF OtpInv, Made
<1>9. Tallied'
  BY <1>1, <1>2, <1>3, <1>8 DEF OtpInv, Tallied, Unspent
<1>. QED  BY <1>1, <1>6, <1>7, <1>9 DEF OtpInv, Otp!AcceptedOnce, Otp!GuessesBounded

\* Whatever rows there are go, and the newest is in the hands of the call.
LEMMA OtpConsume ==
  ASSUME Otp!OtpAssumption, OtpInv, NEW p \in Procs, Otp!Consume(p)
  PROVE  Made' /\ OnePlace' /\ Tallied' /\ Otp!AcceptedOnce' /\ Otp!GuessesBounded'
<1>1. rows' = {} /\ UNCHANGED <<sends, wrong, accepted>>
  BY DEF Otp!Consume, Otp!AfterConsume
<1>2. CASE Otp!Finish(p)
  <2>1. \A q \in Procs : InHand(q)' => UNCHANGED <<pc[q], hold[q]>>
    BY <1>2 DEF Otp!Finish, Otp!Goto, InHand, OtpInv, Otp!TypeOK
  <2>. QED  BY <1>1, <2>1, OtpFewer
<1>3. CASE ~Otp!Finish(p)
  <2>1. /\ pc'[p] = "compare" /\ hold'[p] \subseteq rows
        /\ \A x \in hold'[p] : ~Otp!Exhausted(x)
    BY <1>3 DEF Otp!Consume, Otp!Goto, Otp!Newest, OtpInv, Otp!TypeOK
  <2>2. \A q \in Procs : q # p => hold'[q] = hold[q] /\ pc'[q] = pc[q] /\ (InHand(q)' <=> InHand(q))
    BY <1>3 DEF Otp!Consume, Otp!Goto, InHand, OtpInv, Otp!TypeOK
  <2>3. \A x \in hold'[p] : x.n < Allowed
    <3>1. Allowed \in Nat /\ \A x \in hold'[p] : x.n \in Nat
      BY <2>1 DEF OtpInv, Otp!TypeOK, Otp!Row, Otp!OtpAssumption
    <3>. QED  BY <2>1, <3>1 DEF Otp!Exhausted
  <2>4. Made'
    BY <1>1, <2>1, <2>2 DEF OtpInv, Made
  <2>5. OnePlace'
    BY <1>1, <2>1, <2>2 DEF OtpInv, OnePlace
  <2>6. Tallied'
    BY <1>1, <2>1, <2>2, <2>3 DEF OtpInv, Tallied, Unspent
  <2>. QED  BY <1>1, <2>4, <2>5, <2>6 DEF OtpInv, Otp!AcceptedOnce, Otp!GuessesBounded
<1>. QED  BY <1>2, <1>3

\* A right code is accepted, and the call lets go of it.
LEMMA OtpRight ==
  ASSUME OtpInv, NEW p \in Procs, Otp!Right(p)
  PROVE  Made' /\ OnePlace' /\ Tallied' /\ Otp!AcceptedOnce' /\ Otp!GuessesBounded'
<1>1. InHand(p) /\ ~InHand(p)' /\ UNCHANGED <<rows, sends, wrong>>
  BY DEF Otp!Right, Otp!Finish, Otp!Goto, InHand, OtpInv, Otp!TypeOK
<1>2. \A q \in Procs : q # p => hold'[q] = hold[q] /\ pc'[q] = pc[q] /\ (InHand(q)' <=> InHand(q))
  BY DEF Otp!Right, Otp!Finish, Otp!Goto, InHand, OtpInv, Otp!TypeOK
<1>3. \A k \in Otp!Codes : /\ (\E x \in hold[p] : x.code = k) => accepted[k] = 0 /\ accepted'[k] <= 1
                           /\ (\A x \in hold[p] : x.code # k) => accepted'[k] = accepted[k]
  BY <1>1 DEF OtpInv, Tallied, Otp!Right
<1>4. /\ \A x \in rows : x.code \in Otp!Codes
      /\ \A q \in Procs : \A x \in hold[q] : x.code \in Otp!Codes
  BY DEF OtpInv, Otp!TypeOK, Otp!Row
<1>5. Made'
  <2>1. \A k \in Otp!Codes : k > sends => \A x \in hold[p] : x.code # k
    BY <1>1 DEF OtpInv, Made, Otp!TypeOK, Otp!Codes
  <2>. QED  BY <1>1, <1>2, <1>3, <2>1 DEF OtpInv, Made
<1>6. OnePlace'
  BY <1>1, <1>2 DEF OtpInv, OnePlace
<1>7. Tallied'
  <2>1. \A x \in rows : accepted'[x.code] = accepted[x.code]
    BY <1>1, <1>3, <1>4 DEF OtpInv, OnePlace
  <2>2. \A q \in Procs : InHand(q) /\ q # p => \A x \in hold[q] : accepted'[x.code] = accepted[x.code]
    BY <1>1, <1>3, <1>4 DEF OtpInv, OnePlace
  <2>. QED  BY <1>1, <1>2, <2>1, <2>2 DEF OtpInv, Tallied, Unspent
<1>8. Otp!AcceptedOnce' /\ Otp!GuessesBounded'
  BY <1>1, <1>3 DEF OtpInv, Otp!AcceptedOnce, Otp!GuessesBounded
<1>. QED  BY <1>5, <1>6, <1>7, <1>8

\* A wrong code is compared with the row that the call consumed.
LEMMA OtpWrong ==
  ASSUME Otp!OtpAssumption, OtpInv, NEW p \in Procs, Otp!Wrong(p)
  PROVE  Made' /\ OnePlace' /\ Tallied' /\ Otp!AcceptedOnce' /\ Otp!GuessesBounded'
<1>1. /\ pc[p] = "compare" /\ pc'[p] = "rearm" /\ InHand(p) /\ InHand(p)'
      /\ UNCHANGED <<rows, sends, hold, accepted>>
  BY DEF Otp!Wrong, Otp!Goto, InHand, OtpInv, Otp!TypeOK, Using
<1>2. \A q \in Procs : (q # p => pc'[q] = pc[q]) /\ (InHand(q)' <=> InHand(q))
  BY <1>1 DEF Otp!Wrong, Otp!Goto, InHand, OtpInv, Otp!TypeOK
<1>3. \A k \in Otp!Codes : /\ (\E x \in hold[p] : x.code = k) => wrong'[k] = wrong[k] + 1
                           /\ (\A x \in hold[p] : x.code # k) => wrong'[k] = wrong[k]
  BY DEF Otp!Wrong
<1>4. /\ \A x \in rows : x.code \in Otp!Codes
      /\ \A q \in Procs : \A x \in hold[q] : x.code \in Otp!Codes /\ x.n \in Nat
      /\ \A k \in Otp!Codes : wrong[k] \in Nat
      /\ Allowed \in Nat
  BY DEF OtpInv, Otp!TypeOK, Otp!Row, Otp!OtpAssumption
<1>5. Made'
  <2>1. \A k \in Otp!Codes : k > sends => \A x \in hold[p] : x.code # k
    BY <1>1 DEF OtpInv, Made, Otp!TypeOK, Otp!Codes
  <2>. QED  BY <1>1, <1>2, <1>3, <2>1 DEF OtpInv, Made
<1>6. OnePlace'
  BY <1>1, <1>2 DEF OtpInv, OnePlace
<1>7. Tallied'
  <2>1. \A x \in rows : wrong'[x.code] = wrong[x.code]
    BY <1>1, <1>3, <1>4 DEF OtpInv, OnePlace
  <2>2. \A q \in Procs : InHand(q) /\ q # p => \A x \in hold[q] : wrong'[x.code] = wrong[x.code]
    BY <1>1, <1>3, <1>4 DEF OtpInv, OnePlace
  <2>3. \A x \in hold[p] : wrong'[x.code] <= x.n + 1
    BY <1>1, <1>3, <1>4 DEF OtpInv, Tallied
  <2>. QED  BY <1>1, <1>2, <2>1, <2>2, <2>3 DEF OtpInv, Tallied, Unspent
<1>8. Otp!GuessesBounded'
  <2>. SUFFICES ASSUME NEW k \in Otp!Codes PROVE wrong'[k] <= Allowed
    BY DEF Otp!GuessesBounded
  <2>1. CASE \A x \in hold[p] : x.code # k
    BY <1>3, <2>1 DEF OtpInv, Otp!GuessesBounded
  <2>2. ASSUME NEW x \in hold[p], x.code = k PROVE wrong'[k] <= Allowed
    BY <1>1, <1>3, <1>4, <2>2 DEF OtpInv, Tallied
  <2>. QED  BY <2>1, <2>2
<1>. QED  BY <1>1, <1>5, <1>6, <1>7, <1>8 DEF OtpInv, Otp!AcceptedOnce

\* The row that was consumed is made again, with one guess less.
LEMMA OtpRearm ==
  ASSUME OtpInv, NEW p \in Procs, Otp!Rearm(p)
  PROVE  Made' /\ OnePlace' /\ Tallied' /\ Otp!AcceptedOnce' /\ Otp!GuessesBounded'
<1>1. pc[p] = "rearm" /\ InHand(p) /\ ~InHand(p)' /\ UNCHANGED <<sends, wrong, accepted>>
  BY DEF Otp!Rearm, Otp!Finish, Otp!Goto, InHand, OtpInv, Otp!TypeOK
<1>2. \A q \in Procs : q # p => hold'[q] = hold[q] /\ pc'[q] = pc[q] /\ (InHand(q)' <=> InHand(q))
  BY DEF Otp!Rearm, Otp!Finish, Otp!Goto, InHand, OtpInv, Otp!TypeOK
<1>3. PICK x \in hold[p], z \in Otp!Row : z.code = x.code /\ z.n = x.n + 1 /\ rows' = rows \cup {z}
  <2>1. PICK x \in hold[p] : rows' = rows \cup {[Otp!SpentOne(x) EXCEPT !.at = created]}
    BY DEF Otp!Rearm, Otp!Insert
  <2>2. x \in Otp!Row /\ created \in Nat
    BY DEF OtpInv, Otp!TypeOK
  <2>3. Otp!SpentOne(x) \in Otp!Row /\ Otp!SpentOne(x).code = x.code /\ Otp!SpentOne(x).n = x.n + 1
    BY <2>2, OtpRowTypes
  <2>4. /\ [Otp!SpentOne(x) EXCEPT !.at = created].code = Otp!SpentOne(x).code
        /\ [Otp!SpentOne(x) EXCEPT !.at = created].n = Otp!SpentOne(x).n
    BY <2>2, <2>3, OtpRowTypes
  <2>. QED  BY <2>1, <2>2, <2>3, <2>4, OtpRowTypes
<1>4. Made'
  BY <1>1, <1>2, <1>3 DEF OtpInv, Made
<1>5. OnePlace'
  BY <1>1, <1>2, <1>3 DEF OtpInv, OnePlace
<1>6. Tallied'
  BY <1>1, <1>2, <1>3 DEF OtpInv, Tallied, Unspent
<1>. QED  BY <1>1, <1>4, <1>5, <1>6 DEF OtpInv, Otp!AcceptedOnce, Otp!GuessesBounded

LEMMA OtpInvariance == ASSUME Otp!OtpAssumption, NotChecked PROVE Otp!Spec => []OtpInv
<1>1. Otp!Init => OtpInv
  <2>. SUFFICES ASSUME Otp!Init PROVE OtpInv
    OBVIOUS
  <2>1. Otp!TypeOK
    BY OtpInitTypes
  <2>2. Using /\ Made /\ OnePlace /\ Tallied
    BY DEF Otp!Init, Using, Made, OnePlace, Tallied, InHand
  <2>3. Otp!AcceptedOnce /\ Otp!GuessesBounded
    BY DEF Otp!Init, Otp!AcceptedOnce, Otp!GuessesBounded, Otp!OtpAssumption
  <2>. QED  BY <2>1, <2>2, <2>3 DEF OtpInv
<1>2. OtpInv /\ [Otp!Next]_(Otp!vars) => OtpInv'
  <2>. SUFFICES ASSUME OtpInv, [Otp!Next]_(Otp!vars) PROVE OtpInv'
    OBVIOUS
  <2>0. Otp!TypeOK'
    BY OtpStepTypes DEF OtpInv
  <2>1. CASE UNCHANGED Otp!vars \/ Otp!Tick
    <3>1. UNCHANGED <<rows, sends, pc, op, hold, wrong, accepted>>
      BY <2>1 DEF Otp!vars, Otp!Tick
    <3>2. Using'
      BY <3>1 DEF OtpInv, Using
    <3>. QED  BY <2>0, <3>1, <3>2, OtpFewer DEF OtpInv
  <2>2. ASSUME NEW p \in Procs, Otp!Step(p) PROVE OtpInv'
    <3>1. Using' /\ ~Otp!Check(p) /\ ~Otp!Update(p)
      BY <2>2, OtpUsing
    <3>2. Made' /\ OnePlace' /\ Tallied' /\ Otp!AcceptedOnce' /\ Otp!GuessesBounded'
      BY <2>2, <3>1, OtpOther, OtpCreate, OtpConsume, OtpRight, OtpWrong, OtpRearm DEF Otp!Step
    <3>. QED  BY <2>0, <3>1, <3>2 DEF OtpInv
  <2>. QED  BY <2>1, <2>2 DEF Otp!Next
<1>. QED  BY <1>1, <1>2, PTL DEF Otp!Spec

\* However many calls use a code at the same time (atomicVerifyOTP and
\* verifyPhoneNumberOTP), however often it is sent again, and wherever a call dies, one of
\* them accepts it: consuming takes it out of the table, and only a wrong guess puts it back.
\* checkVerificationOTP, which never consumes, is not among the calls.
THEOREM AcceptedOnceCorrect ==
  ASSUME Otp!OtpAssumption, NotChecked PROVE Otp!Spec => []Otp!AcceptedOnce
<1>1. OtpInv => Otp!AcceptedOnce
  BY DEF OtpInv
<1>. QED  BY <1>1, OtpInvariance, PTL

\* No more than allowedAttempts wrong codes are compared with one that was sent, whatever the
\* number of calls in flight: a row that is made again counts every guess before it.
THEOREM GuessesBoundedCorrect ==
  ASSUME Otp!OtpAssumption, NotChecked PROVE Otp!Spec => []Otp!GuessesBounded
<1>1. OtpInv => Otp!GuessesBounded
  BY DEF OtpInv
<1>. QED  BY <1>1, OtpInvariance, PTL

-----------------------------------------------------------------------------
(* One call at a time, which may also check a code without using it.       *)

\* A call has a row in hands, which it has consumed or has only read.
Handling(p) == pc[p] \in {"compare", "rearm", "update"}

\* A code is stored or in the hands of a call.
InUse(k) ==
  \/ \E x \in rows : x.code = k
  \/ \E p \in Procs : Handling(p) /\ \E x \in hold[p] : x.code = k

\* What is in use was made and not accepted yet.
StillGood ==
  /\ \A k \in Otp!Codes : InUse(k) => k <= sends /\ accepted[k] = 0
  /\ \A k \in Otp!Codes : k > sends => accepted[k] = 0 /\ wrong[k] = 0

\* What a call is about to accept for good is stored nowhere, and a check ends elsewhere.
Consumed ==
  \A p \in Procs : /\ pc[p] = "compare" /\ op[p] = "use" => rows = {}
                   /\ pc[p] = "rearm" => rows = {}

SpentInv == Otp!TypeOK /\ StillGood /\ Consumed /\ Otp!AcceptedOnce

\* What a single call has in hands.
LEMMA OtpHeld ==
  ASSUME OneCall, NEW p \in Procs, NEW k
  PROVE  /\ InUse(k) <=> (\E x \in rows : x.code = k) \/ (Handling(p) /\ \E x \in hold[p] : x.code = k)
         /\ InUse(k)' <=> (\E x \in rows' : x.code = k) \/ (Handling(p)' /\ \E x \in hold'[p] : x.code = k)
<1>1. \A q \in Procs : q = p
  BY DEF OneCall
<1>2. (Handling(p) /\ \E x \in hold[p] : x.code = k) <=> (\E q \in Procs : Handling(q) /\ \E x \in hold[q] : x.code = k)
  BY <1>1
<1>3. (Handling(p)' /\ \E x \in hold'[p] : x.code = k)
        <=> (\E q \in Procs : Handling(q)' /\ \E x \in hold'[q] : x.code = k)
  BY <1>1
<1>. QED  BY <1>2, <1>3 DEF InUse

\* A row in hands, or that stays, has the code of one that was there.
LEMMA OtpNoNewCode ==
  ASSUME Otp!OtpAssumption, OneCall, Otp!TypeOK, NEW p \in Procs, Otp!Step(p), ~Otp!Create(p), NEW k, InUse(k)'
  PROVE  InUse(k)
<1>1. CASE Otp!Send(p) \/ Otp!FindReusable(p) \/ Otp!CreateFails(p) \/ Otp!Clear(p) \/ Otp!Delete(p)
           \/ Otp!Use(p) \/ Otp!Right(p) \/ Otp!Throw(p)
  <2>1. rows' \subseteq rows /\ ~Handling(p)'
    BY <1>1 DEF Otp!Send, Otp!FindReusable, Otp!CreateFails, Otp!Clear, Otp!Delete, Otp!Use, Otp!Right, Otp!Throw,
                Otp!Start, Otp!Goto, Otp!Finish, Otp!CleanedUp, Handling, Otp!TypeOK
  <2>. QED  BY <2>1, OtpHeld
<1>2. CASE Otp!Extend(p)
  <2>1. ~Handling(p)'
    BY <1>2 DEF Otp!Extend, Otp!Delivered, Otp!Goto, Otp!Finish, Handling, Otp!TypeOK
  <2>2. \A x \in rows : [x EXCEPT !.exp = now + Lifetime].code = x.code
    BY DEF Otp!TypeOK, Otp!Row
  <2>3. \A x \in rows' : \E y \in rows : x.code = y.code
    BY <1>2, <2>2 DEF Otp!Extend
  <2>. QED  BY <2>1, <2>3, OtpHeld
<1>3. CASE Otp!Consume(p) \/ Otp!Check(p)
  <2>1. rows' \subseteq rows /\ (Handling(p)' => hold'[p] \subseteq rows)
    BY <1>3 DEF Otp!Consume, Otp!AfterConsume, Otp!Check, Otp!Start, Otp!Goto, Otp!Finish, Otp!CleanedUp,
                Otp!Newest, Handling, Otp!TypeOK
  <2>. QED  BY <2>1, OtpHeld
<1>4. CASE Otp!Wrong(p)
  <2>1. rows' = rows /\ hold' = hold /\ Handling(p)
    BY <1>4 DEF Otp!Wrong, Handling
  <2>. QED  BY <2>1, OtpHeld
<1>5. CASE Otp!Rearm(p)
  <2>1. Handling(p) /\ ~Handling(p)'
    BY <1>5 DEF Otp!Rearm, Otp!Goto, Otp!Finish, Handling, Otp!TypeOK
  <2>2. PICK x \in hold[p] : rows' = rows \cup {[Otp!SpentOne(x) EXCEPT !.at = created]}
    BY <1>5 DEF Otp!Rearm, Otp!Insert
  <2>3. [Otp!SpentOne(x) EXCEPT !.at = created].code = x.code
    <3>1. x \in Otp!Row /\ created \in Nat
      BY DEF Otp!TypeOK
    <3>. QED  BY <3>1, OtpRowTypes
  <2>. QED  BY <2>1, <2>2, <2>3, OtpHeld
<1>6. CASE Otp!Update(p)
  <2>1. Handling(p) /\ ~Handling(p)'
    BY <1>6 DEF Otp!Update, Otp!Goto, Otp!Finish, Handling, Otp!TypeOK
  <2>2. PICK x \in hold[p] : rows' = {[Otp!SpentOne(x) EXCEPT !.at = y.at, !.exp = y.exp] : y \in rows}
    BY <1>6 DEF Otp!Update
  <2>3. \A y \in rows : [Otp!SpentOne(x) EXCEPT !.at = y.at, !.exp = y.exp].code = x.code
    BY DEF Otp!TypeOK, Otp!Row, Otp!SpentOne
  <2>4. \A y \in rows' : y.code = x.code
    BY <2>2, <2>3
  <2>. QED  BY <2>1, <2>4, OtpHeld
<1>. QED  BY <1>1, <1>2, <1>3, <1>4, <1>5, <1>6 DEF Otp!Step

\* What is in use after a creation is the new code, or was in use.
LEMMA OtpNewCode ==
  ASSUME Otp!OtpAssumption, OneCall, Otp!TypeOK, NEW p \in Procs, Otp!Create(p), NEW k, InUse(k)'
  PROVE  InUse(k) \/ k = sends'
<1>1. ~Handling(p)'
  BY DEF Otp!Create, Otp!Delivered, Otp!Goto, Otp!Finish, Handling, Otp!TypeOK
<1>2. rows' = rows \cup {[[at |-> 0, code |-> sends', n |-> 0, exp |-> now + Lifetime] EXCEPT !.at = created]}
  BY DEF Otp!Create, Otp!Insert
<1>3. [[at |-> 0, code |-> sends', n |-> 0, exp |-> now + Lifetime] EXCEPT !.at = created].code = sends'
  OBVIOUS
<1>. QED  BY <1>1, <1>2, <1>3, OtpHeld

LEMMA OtpConsumedStep ==
  ASSUME OneCall, Otp!TypeOK, Consumed, NEW p \in Procs, Otp!Step(p)
  PROVE  Consumed'
<1>1. \A q \in Procs : q = p
  BY DEF OneCall
<1>2. /\ pc'[p] = "compare" /\ op'[p] = "use" => rows' = {}
      /\ pc'[p] = "rearm" => rows' = {}
  BY DEF Otp!Step, Otp!Send, Otp!FindReusable, Otp!Extend, Otp!Create, Otp!CreateFails, Otp!Clear, Otp!Delete,
         Otp!Use, Otp!Consume, Otp!AfterConsume, Otp!Right, Otp!Wrong, Otp!Rearm, Otp!Check, Otp!Update, Otp!Throw,
         Otp!Delivered, Otp!Start, Otp!Goto, Otp!Finish, Otp!TypeOK, Consumed
<1>. QED  BY <1>1, <1>2 DEF Consumed

\* Accepting a code for good leaves it nowhere.
LEMMA OtpAccept ==
  ASSUME Otp!OtpAssumption, OneCall, SpentInv, NEW p \in Procs, Otp!Right(p), NEW k \in Otp!Codes
  PROVE  /\ accepted'[k] <= 1
         /\ InUse(k)' => accepted'[k] = accepted[k]
         /\ k > sends => accepted'[k] = accepted[k]
<1>1. Handling(p) /\ ~Handling(p)' /\ rows' = rows /\ pc[p] = "compare"
  BY DEF Otp!Right, Otp!Goto, Otp!Finish, Handling, SpentInv, Otp!TypeOK
<1>2. accepted'[k] = IF op[p] = "use" /\ (\E x \in hold[p] : x.code = k) THEN accepted[k] + 1 ELSE accepted[k]
  BY DEF Otp!Right
<1>3. CASE op[p] = "use" /\ \E x \in hold[p] : x.code = k
  <2>1. InUse(k) /\ ~InUse(k)'
    BY <1>1, <1>3, OtpHeld DEF SpentInv, Consumed
  <2>2. k <= sends /\ accepted[k] = 0 /\ sends \in Nat /\ k \in Nat
    BY <2>1 DEF SpentInv, StillGood, Otp!TypeOK, Otp!Codes
  <2>. QED  BY <1>2, <1>3, <2>1, <2>2
<1>. QED  BY <1>2, <1>3 DEF SpentInv, Otp!AcceptedOnce

LEMMA OtpSpentStep ==
  ASSUME Otp!OtpAssumption, OneCall, SpentInv, NEW p \in Procs, Otp!Step(p)
  PROVE  StillGood' /\ Consumed' /\ Otp!AcceptedOnce'
<1>0. Otp!TypeOK /\ Consumed'
  BY OtpConsumedStep DEF SpentInv
<1>1. /\ sends \in Nat /\ \A k \in Otp!Codes : k \in Nat
  BY <1>0 DEF Otp!TypeOK, Otp!Codes
<1>2. CASE Otp!Create(p)
  <2>1. sends' = sends + 1 /\ sends' \in Otp!Codes /\ wrong' = wrong /\ accepted' = accepted
    BY <1>0, <1>2 DEF Otp!Create, Otp!TypeOK, Otp!Codes, Otp!OtpAssumption
  <2>2. \A k \in Otp!Codes : InUse(k)' => InUse(k) \/ k = sends'
    BY <1>0, <1>2, OtpNewCode
  <2>. QED  BY <1>0, <1>1, <2>1, <2>2 DEF SpentInv, StillGood, Otp!AcceptedOnce
<1>3. CASE Otp!Right(p)
  <2>1. sends' = sends /\ wrong' = wrong
    BY <1>3 DEF Otp!Right
  <2>2. \A k \in Otp!Codes : InUse(k)' => InUse(k)
    BY <1>0, <1>3, OtpNoNewCode DEF Otp!Right, Otp!Create, Otp!Step
  <2>. QED  BY <1>0, <1>3, <2>1, <2>2, OtpAccept DEF SpentInv, StillGood, Otp!AcceptedOnce
<1>4. CASE Otp!Wrong(p)
  <2>1. sends' = sends /\ accepted' = accepted /\ Handling(p)
    BY <1>4 DEF Otp!Wrong, Handling
  <2>2. \A k \in Otp!Codes : InUse(k)' => InUse(k)
    BY <1>0, <1>4, OtpNoNewCode DEF Otp!Wrong, Otp!Create, Otp!Step
  <2>3. \A k \in Otp!Codes : k > sends => wrong'[k] = wrong[k]
    <3>1. \A k \in Otp!Codes : (\E x \in hold[p] : x.code = k) => k <= sends
      BY <2>1, OtpHeld DEF SpentInv, StillGood
    <3>. QED  BY <1>1, <1>4, <3>1 DEF Otp!Wrong
  <2>. QED  BY <1>0, <2>1, <2>2, <2>3 DEF SpentInv, StillGood, Otp!AcceptedOnce
<1>5. CASE ~(Otp!Create(p) \/ Otp!Right(p) \/ Otp!Wrong(p))
  <2>1. sends' = sends /\ accepted' = accepted /\ wrong' = wrong
    BY <1>5 DEF Otp!Step, Otp!Send, Otp!FindReusable, Otp!Extend, Otp!CreateFails, Otp!Clear, Otp!Delete,
                Otp!Use, Otp!Consume, Otp!Rearm, Otp!Check, Otp!Update, Otp!Throw
  <2>2. \A k \in Otp!Codes : InUse(k)' => InUse(k)
    BY <1>0, <1>5, OtpNoNewCode
  <2>. QED  BY <1>0, <2>1, <2>2 DEF SpentInv, StillGood, Otp!AcceptedOnce
<1>. QED  BY <1>2, <1>3, <1>4, <1>5

LEMMA OtpSpentStutter ==
  ASSUME SpentInv, UNCHANGED <<rows, sends, pc, op, hold, wrong, accepted>>
  PROVE  StillGood' /\ Consumed' /\ Otp!AcceptedOnce'
BY DEF SpentInv, StillGood, Consumed, InUse, Handling, Otp!AcceptedOnce

LEMMA OtpSpentInvariance == ASSUME Otp!OtpAssumption, OneCall PROVE Otp!Spec => []SpentInv
<1>1. Otp!Init => SpentInv
  <2>. SUFFICES ASSUME Otp!Init PROVE SpentInv
    OBVIOUS
  <2>1. Otp!TypeOK
    BY OtpInitTypes
  <2>. QED  BY <2>1 DEF Otp!Init, SpentInv, StillGood, InUse, Handling, Consumed, Otp!AcceptedOnce
<1>2. SpentInv /\ [Otp!Next]_(Otp!vars) => SpentInv'
  <2>. SUFFICES ASSUME SpentInv, [Otp!Next]_(Otp!vars) PROVE SpentInv'
    OBVIOUS
  <2>0. Otp!TypeOK'
    BY OtpStepTypes DEF SpentInv
  <2>1. CASE UNCHANGED Otp!vars \/ Otp!Tick
    <3>1. UNCHANGED <<rows, sends, pc, op, hold, wrong, accepted>>
      BY <2>1 DEF Otp!vars, Otp!Tick
    <3>. QED  BY <2>0, <3>1, OtpSpentStutter DEF SpentInv
  <2>2. ASSUME NEW p \in Procs, Otp!Step(p) PROVE SpentInv'
    BY <2>0, <2>2, OtpSpentStep DEF SpentInv
  <2>. QED  BY <2>1, <2>2 DEF Otp!Next
<1>. QED  BY <1>1, <1>2, PTL DEF Otp!Spec

\* Also where a code can be checked without using it (checkVerificationOTP), which reads a
\* row and later writes it into whatever rows there are, a code is accepted once by the calls
\* that consume it, as long as calls do not overlap, and wherever one dies.
THEOREM AcceptedOnceAlone ==
  ASSUME Otp!OtpAssumption, OneCall PROVE Otp!Spec => []Otp!AcceptedOnce
<1>1. SpentInv => Otp!AcceptedOnce
  BY DEF SpentInv
<1>. QED  BY <1>1, OtpSpentInvariance, PTL

\* A call that compares a code lives to write the guess down.
NoThrow == "throw" \notin Faults

\* Every wrong guess is counted in each row of the code, or is about to be: what a call has
\* in hands counts those before it, and an update replaces every row by what it holds.
GuessesCounted ==
  /\ (\A p \in Procs : pc[p] # "update") => \A x \in rows : wrong[x.code] <= x.n
  /\ \A p \in Procs : Handling(p) => \A x \in hold[p] :
       /\ x.n < Allowed
       /\ wrong[x.code] <= IF pc[p] = "compare" THEN x.n ELSE x.n + 1

GuessInv == SpentInv /\ GuessesCounted /\ Otp!GuessesBounded

\* What a single call has to preserve.
LEMMA OtpCounted ==
  ASSUME OneCall, NEW p \in Procs,
         pc'[p] # "update" => \A x \in rows' : wrong'[x.code] <= x.n,
         Handling(p)' => \A x \in hold'[p] : /\ x.n < Allowed
                                             /\ wrong'[x.code] <= IF pc'[p] = "compare" THEN x.n ELSE x.n + 1
  PROVE  GuessesCounted'
<1>1. \A q \in Procs : q = p
  BY DEF OneCall
<1>. QED  BY <1>1 DEF GuessesCounted, Handling

LEMMA OtpGuessStep ==
  ASSUME Otp!OtpAssumption, OneCall, NoThrow, GuessInv, NEW p \in Procs, Otp!Step(p)
  PROVE  GuessesCounted' /\ Otp!GuessesBounded'
<1>0. Otp!TypeOK
  BY DEF GuessInv, SpentInv
<1>1. /\ \A x \in rows : x \in Otp!Row /\ x.code \in Otp!Codes /\ x.n \in Nat
      /\ \A x \in hold[p] : x \in Otp!Row /\ x.code \in Otp!Codes /\ x.n \in Nat
      /\ \A k \in Otp!Codes : wrong[k] \in Nat
      /\ Allowed \in Nat /\ created \in Nat /\ now \in Nat /\ now + Lifetime \in Nat
  BY <1>0 DEF Otp!TypeOK, Otp!Row, Otp!OtpAssumption
<1>2. \A q \in Procs : q = p
  BY DEF OneCall
<1>3. /\ pc[p] # "update" => \A x \in rows : wrong[x.code] <= x.n
      /\ Handling(p) => \A x \in hold[p] : /\ x.n < Allowed
                                           /\ wrong[x.code] <= IF pc[p] = "compare" THEN x.n ELSE x.n + 1
  BY <1>2 DEF GuessInv, GuessesCounted
<1>4. CASE Otp!Send(p) \/ Otp!FindReusable(p) \/ Otp!CreateFails(p) \/ Otp!Clear(p) \/ Otp!Delete(p)
           \/ Otp!Use(p) \/ Otp!Right(p)
  <2>1. rows' \subseteq rows /\ wrong' = wrong /\ pc[p] # "update" /\ ~Handling(p)'
    BY <1>0, <1>4 DEF Otp!Send, Otp!FindReusable, Otp!CreateFails, Otp!Clear, Otp!Delete, Otp!Use, Otp!Right,
                Otp!Start, Otp!Goto, Otp!Finish, Otp!CleanedUp, Handling, Otp!TypeOK
  <2>2. GuessesCounted'
    BY <1>3, <2>1, OtpCounted
  <2>. QED  BY <2>1, <2>2 DEF GuessInv, Otp!GuessesBounded
<1>5. CASE Otp!Extend(p)
  <2>1. wrong' = wrong /\ pc[p] # "update" /\ ~Handling(p)'
    BY <1>0, <1>5 DEF Otp!Extend, Otp!Delivered, Otp!Goto, Otp!Finish, Handling, Otp!TypeOK
  <2>2. \A x \in rows : [x EXCEPT !.exp = now + Lifetime].code = x.code /\ [x EXCEPT !.exp = now + Lifetime].n = x.n
    BY <1>1, OtpRowTypes, 0 \in Nat
  <2>3. \A x \in rows' : wrong'[x.code] <= x.n
    BY <1>3, <1>5, <2>1, <2>2 DEF Otp!Extend
  <2>4. GuessesCounted'
    BY <2>1, <2>3, OtpCounted
  <2>. QED  BY <2>1, <2>4 DEF GuessInv, Otp!GuessesBounded
<1>6. CASE Otp!Create(p)
  <2>1. wrong' = wrong /\ pc[p] # "update" /\ ~Handling(p)' /\ sends' = sends + 1 /\ sends' \in Otp!Codes /\ sends \in Nat
    BY <1>0, <1>6 DEF Otp!Create, Otp!Delivered, Otp!Goto, Otp!Finish, Handling, Otp!TypeOK, Otp!Codes,
                      Otp!OtpAssumption
  <2>2. wrong[sends'] = 0
    BY <2>1 DEF GuessInv, SpentInv, StillGood
  <2>3. PICK x : x.code = sends' /\ x.n = 0 /\ rows' = rows \cup {x}
    <3>1. rows' = rows \cup {[[at |-> 0, code |-> sends', n |-> 0, exp |-> now + Lifetime] EXCEPT !.at = created]}
      BY <1>6 DEF Otp!Create, Otp!Insert
    <3>. QED  BY <3>1
  <2>4. \A y \in rows' : wrong'[y.code] <= y.n
    BY <1>3, <2>1, <2>2, <2>3
  <2>5. GuessesCounted'
    BY <2>1, <2>4, OtpCounted
  <2>. QED  BY <2>1, <2>5 DEF GuessInv, Otp!GuessesBounded
<1>7. CASE Otp!Consume(p) \/ Otp!Check(p)
  <2>1. wrong' = wrong /\ pc[p] # "update" /\ pc'[p] # "update" /\ rows' \subseteq rows
    BY <1>0, <1>7 DEF Otp!Consume, Otp!AfterConsume, Otp!Check, Otp!Start, Otp!Goto, Otp!Finish, Otp!CleanedUp,
                      Otp!TypeOK
  <2>2. Handling(p)' => pc'[p] = "compare" /\ \A x \in hold'[p] : x \in rows /\ ~Otp!Exhausted(x)
    BY <1>0, <1>7 DEF Otp!Consume, Otp!Check, Otp!Start, Otp!Goto, Otp!Finish, Otp!Newest, Handling, Otp!TypeOK
  <2>3. \A x \in rows : ~Otp!Exhausted(x) => x.n < Allowed
    BY <1>1 DEF Otp!Exhausted
  <2>4. GuessesCounted'
    BY <1>3, <2>1, <2>2, <2>3, OtpCounted
  <2>. QED  BY <2>1, <2>4 DEF GuessInv, Otp!GuessesBounded
<1>8. CASE Otp!Wrong(p)
  <2>1. /\ pc[p] = "compare" /\ Handling(p) /\ rows' = rows /\ hold' = hold
        /\ pc'[p] = IF op[p] = "use" THEN "rearm" ELSE "update"
    BY <1>0, <1>8 DEF Otp!Wrong, Otp!Goto, Handling, Otp!TypeOK
  <2>2. \A k \in Otp!Codes : wrong'[k] = IF \E x \in hold[p] : x.code = k THEN wrong[k] + 1 ELSE wrong[k]
    BY <1>8 DEF Otp!Wrong
  <2>3. \A x \in hold[p] : wrong'[x.code] <= x.n + 1 /\ x.n < Allowed
    BY <1>1, <1>3, <2>1, <2>2
  <2>4. pc'[p] # "update" => rows' = {}
    BY <2>1 DEF GuessInv, SpentInv, Consumed
  <2>5. GuessesCounted'
    BY <2>1, <2>3, <2>4, OtpCounted
  <2>6. Otp!GuessesBounded'
    <3>. SUFFICES ASSUME NEW k \in Otp!Codes PROVE wrong'[k] <= Allowed
      BY DEF Otp!GuessesBounded
    <3>1. ASSUME NEW x \in hold[p], x.code = k PROVE wrong'[k] <= Allowed
      <4>1. wrong'[k] <= x.n + 1 /\ x.n < Allowed /\ wrong'[k] = wrong[k] + 1
        BY <2>2, <2>3, <3>1
      <4>. QED  BY <1>1, <4>1
    <3>2. CASE \A x \in hold[p] : x.code # k
      BY <2>2, <3>2 DEF GuessInv, Otp!GuessesBounded
    <3>. QED  BY <3>1, <3>2
  <2>. QED  BY <2>5, <2>6
<1>9. CASE Otp!Rearm(p)
  <2>1. wrong' = wrong /\ pc[p] = "rearm" /\ Handling(p) /\ ~Handling(p)' /\ rows = {}
    BY <1>0, <1>9 DEF Otp!Rearm, Otp!Goto, Otp!Finish, Handling, Otp!TypeOK, GuessInv, SpentInv, Consumed
  <2>2. PICK x \in hold[p] : rows' = rows \cup {[Otp!SpentOne(x) EXCEPT !.at = created]}
    BY <1>9 DEF Otp!Rearm, Otp!Insert
  <2>3. /\ [Otp!SpentOne(x) EXCEPT !.at = created].code = x.code
        /\ [Otp!SpentOne(x) EXCEPT !.at = created].n = x.n + 1
    BY <1>1, OtpRowTypes
  <2>4. \A y \in rows' : wrong'[y.code] <= y.n
    BY <1>3, <2>1, <2>2, <2>3
  <2>5. GuessesCounted'
    BY <2>1, <2>4, OtpCounted
  <2>. QED  BY <2>1, <2>5 DEF GuessInv, Otp!GuessesBounded
<1>10. CASE Otp!Update(p)
  <2>1. wrong' = wrong /\ pc[p] = "update" /\ Handling(p) /\ ~Handling(p)'
    BY <1>0, <1>10 DEF Otp!Update, Otp!Goto, Otp!Finish, Handling, Otp!TypeOK
  <2>2. PICK x \in hold[p] : rows' = {[Otp!SpentOne(x) EXCEPT !.at = y.at, !.exp = y.exp] : y \in rows}
    BY <1>10 DEF Otp!Update
  <2>3. \A y \in rows : /\ [Otp!SpentOne(x) EXCEPT !.at = y.at, !.exp = y.exp].code = x.code
                        /\ [Otp!SpentOne(x) EXCEPT !.at = y.at, !.exp = y.exp].n = x.n + 1
    BY <1>1 DEF Otp!Row, Otp!SpentOne
  <2>4. \A y \in rows' : wrong'[y.code] <= y.n
    BY <1>3, <2>1, <2>2, <2>3
  <2>5. GuessesCounted'
    BY <2>1, <2>4, OtpCounted
  <2>. QED  BY <2>1, <2>5 DEF GuessInv, Otp!GuessesBounded
<1>11. ~Otp!Throw(p)
  BY DEF Otp!Throw, NoThrow
<1>. QED  BY <1>4, <1>5, <1>6, <1>7, <1>8, <1>9, <1>10, <1>11 DEF Otp!Step

LEMMA OtpGuessInvariance == ASSUME Otp!OtpAssumption, OneCall, NoThrow PROVE Otp!Spec => [](GuessesCounted /\ Otp!GuessesBounded)
<1>1. Otp!Init => GuessesCounted /\ Otp!GuessesBounded
  BY DEF Otp!Init, GuessesCounted, Handling, Otp!GuessesBounded, Otp!OtpAssumption
<1>2. SpentInv /\ GuessesCounted /\ Otp!GuessesBounded /\ [Otp!Next]_(Otp!vars)
        => GuessesCounted' /\ Otp!GuessesBounded'
  <2>. SUFFICES ASSUME GuessInv, [Otp!Next]_(Otp!vars) PROVE GuessesCounted' /\ Otp!GuessesBounded'
    BY DEF GuessInv
  <2>1. CASE UNCHANGED Otp!vars \/ Otp!Tick
    <3>1. UNCHANGED <<rows, pc, hold, wrong>>
      BY <2>1 DEF Otp!vars, Otp!Tick
    <3>. QED  BY <3>1 DEF GuessInv, GuessesCounted, Handling, Otp!GuessesBounded
  <2>2. ASSUME NEW p \in Procs, Otp!Step(p) PROVE GuessesCounted' /\ Otp!GuessesBounded'
    BY <2>2, OtpGuessStep
  <2>. QED  BY <2>1, <2>2 DEF Otp!Next
<1>. QED  BY <1>1, <1>2, OtpSpentInvariance, PTL DEF Otp!Spec

\* Also where codes are checked without being used no more wrong ones are compared than
\* allowedAttempts, as long as calls do not overlap and none dies between a comparison and the
\* write that counts it.
THEOREM GuessesBoundedAlone ==
  ASSUME Otp!OtpAssumption, OneCall, NoThrow PROVE Otp!Spec => []Otp!GuessesBounded
<1>. QED  BY OtpGuessInvariance, PTL
=============================================================================
