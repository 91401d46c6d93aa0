---------------------------- MODULE Memberships ----------------------------
(***************************************************************************)
(* Organizations (packages/better-auth/src/plugins/organization): an       *)
(* invitation is accepted, rejected or canceled, members come, go and      *)
(* change their role, and the seats of a team are counted on its row.      *)
(*                                                                         *)
(* One organization with one team and one invitation is modelled, without  *)
(* transactions, so that every write is seen as soon as it is made.        *)
(***************************************************************************)
EXTENDS Naturals, FiniteSets

CONSTANTS
  Procs,    \* calls in flight
  Owners,   \* the users that own the organization at first
  Invitee,  \* the user who is invited
  Ops,      \* the calls that are made, a subset of OpNames
  Faults,   \* "throw": membership work rejects; "crash": the server dies
  Seats,    \* maximumMembersPerTeam
  Limit,    \* membershipLimit
  MaxRows   \* bound: members ever created

OpNames ==
  {"accept", "reject", "cancel", "add", "remove", "leave", "setRole", "addTeam", "removeTeam"}

\* What the constants are assumed to be.
MembershipAssumption ==
  /\ IsFiniteSet(Owners) /\ Owners # {} /\ Invitee \notin Owners
  /\ "nobody" \notin Owners \cup {Invitee}
  /\ Ops \subseteq OpNames
  /\ Seats \in Nat \ {0} /\ {Limit, MaxRows} \subseteq Nat

Users == Owners \cup {Invitee}
Roles == {"owner", "member"}
Member == [user : Users, role : Roles]

VARIABLES
  members,    \* the member rows, by id
  made,       \* members ever created
  team,       \* the users with a row in the team
  seats,      \* memberCount of the team
  invitation, \* its status
  pc,         \* where each call is suspended
  op,         \* what each call does
  who,        \* the user it is about
  row,        \* the id of the member row it is about, and the role it writes
  n,          \* team rows it has counted or deleted
  ok,         \* whether a seat is given back because the user has one
  joins,      \* history: member rows made by acceptances that did not fail after it
  unreleased  \* history: whether a failed acceptance could not give its claim back

vars == <<members, made, team, seats, invitation, pc, op, who, row, n, ok, joins, unreleased>>
local == <<op, who, row, n, ok>>
history == <<joins, unreleased>>

Labels ==
  {"idle", "claim", "close", "create", "seat", "count", "sync", "reserve", "enrol",
   "unreserve", "join", "activate", "release", "delete", "unseat", "free", "setRole"}

TypeOK ==
  /\ made \in Nat /\ DOMAIN members \subseteq 1 .. made
  /\ members \in [DOMAIN members -> Member]
  /\ team \subseteq Users /\ seats \in Nat
  /\ invitation \in {"pending", "accepted", "rejected", "canceled"}
  /\ pc \in [Procs -> Labels]
  /\ op \in [Procs -> Ops \cup {"none"}]
  /\ who \in [Procs -> Users \cup {"nobody"}]
  /\ row \in [Procs -> [id : Nat, role : Roles]]
  /\ n \in [Procs -> Nat] /\ ok \in [Procs -> BOOLEAN]
  /\ joins \subseteq 1 .. made /\ unreleased \in BOOLEAN

-----------------------------------------------------------------------------
(* Helpers.                                                                *)

OwnerRows == {i \in DOMAIN members : members[i].role = "owner"}
IsMember(u) == \E i \in DOMAIN members : members[i].user = u
NoRow == [id |-> 0, role |-> "member"]

Goto(p, l) == pc' = [pc EXCEPT ![p] = l]

Finish(p) ==
  /\ Goto(p, "idle")
  /\ op' = [op EXCEPT ![p] = "none"]
  /\ who' = [who EXCEPT ![p] = "nobody"]
  /\ row' = [row EXCEPT ![p] = NoRow]
  /\ n' = [n EXCEPT ![p] = 0]
  /\ ok' = [ok EXCEPT ![p] = FALSE]

\* A call about u, and the row r, has passed its checks and goes on at l.
Start(p, o, u, r, l) ==
  /\ o \in Ops /\ pc[p] = "idle"
  /\ Goto(p, l)
  /\ op' = [op EXCEPT ![p] = o]
  /\ who' = [who EXCEPT ![p] = u]
  /\ row' = [row EXCEPT ![p] = r]
  /\ UNCHANGED <<members, made, team, seats, invitation, n, ok, history>>

AtIdle(f) == [p \in Procs |-> f]

Init ==
  /\ \E order \in [1 .. Cardinality(Owners) -> Owners] :
       /\ \A u \in Owners : \E i \in DOMAIN order : order[i] = u
       /\ members = [i \in DOMAIN order |-> [user |-> order[i], role |-> "owner"]]
  /\ made = Cardinality(Owners)
  /\ team = {} /\ seats = 0 /\ invitation = "pending"
  /\ pc = AtIdle("idle") /\ op = AtIdle("none") /\ who = AtIdle("nobody")
  /\ row = AtIdle(NoRow) /\ n = AtIdle(0) /\ ok = AtIdle(FALSE)
  /\ joins = {} /\ unreleased = FALSE

\* createMember
CreateMember(u) ==
  /\ made < MaxRows
  /\ made' = made + 1
  /\ members' = [i \in DOMAIN members \cup {made'} |->
       IF i = made' THEN [user |-> u, role |-> "member"] ELSE members[i]]

-----------------------------------------------------------------------------
(* The invitation.                                                         *)

Accept(p) ==
  /\ invitation = "pending" /\ Cardinality(DOMAIN members) < Limit
  /\ Start(p, "accept", Invitee, NoRow, "claim")

\* Mutant: the status is written whatever it is by now.
PendingAnyway == TRUE

\* The guard of the update.
Pending == invitation = "pending"

Claim(p) ==
  /\ pc[p] = "claim"
  /\ IF Pending
     THEN invitation' = "accepted" /\ Goto(p, "seat") /\ UNCHANGED local
     ELSE Finish(p) /\ UNCHANGED invitation
  /\ UNCHANGED <<members, made, team, seats, history>>

Join(p) ==
  /\ pc[p] = "join"
  /\ CreateMember(who[p])
  /\ row' = [row EXCEPT ![p].id = made']
  /\ joins' = joins \cup {made'}
  /\ Goto(p, "activate")
  /\ UNCHANGED <<team, seats, invitation, op, who, n, ok, unreleased>>

\* setActiveOrganization, after which the call answers.
Activate(p) ==
  /\ pc[p] = "activate"
  /\ Finish(p)
  /\ UNCHANGED <<members, made, team, seats, invitation, history>>

\* Mutant: the claim is kept although the membership work failed.
AfterFailureKept == invitation

\* The claim is released if the invitation is still accepted.
AfterFailure == IF invitation = "accepted" THEN "pending" ELSE invitation

Release(p) ==
  /\ pc[p] = "release"
  /\ invitation' = AfterFailure
  /\ Finish(p)
  /\ UNCHANGED <<members, made, team, seats, history>>

\* Rejecting looks at the status first, canceling does not, and both write it
\* whatever it is by then.
Reject(p) == invitation = "pending" /\ Start(p, "reject", Invitee, NoRow, "close")
Cancel(p) == Start(p, "cancel", Invitee, NoRow, "close")

Close(p) ==
  /\ pc[p] = "close"
  /\ invitation' = IF op[p] = "reject" THEN "rejected" ELSE "canceled"
  /\ Finish(p)
  /\ UNCHANGED <<members, made, team, seats, history>>

-----------------------------------------------------------------------------
(* Members.                                                                *)

Add(p, u) ==
  /\ ~IsMember(u) /\ Cardinality(DOMAIN members) < Limit
  /\ Start(p, "add", u, NoRow, "create")

\* With a team or without one.
Create(p) ==
  /\ pc[p] = "create"
  /\ CreateMember(who[p])
  /\ \/ Goto(p, "seat") /\ row' = [row EXCEPT ![p].id = made'] /\ UNCHANGED <<op, who, n, ok>>
     \/ Finish(p)
  /\ UNCHANGED <<team, seats, invitation, history>>

\* Mutant: that there is an owner is enough.
MaySpareAny(i) == OwnerRows # {}

\* An owner may go if there is another one.
MaySpare(i) == i \in OwnerRows => Cardinality(OwnerRows) > 1

Remove(p, i) ==
  /\ OwnerRows # {} /\ MaySpare(i)
  /\ Start(p, "remove", members[i].user, [id |-> i, role |-> "member"], "delete")

Leave(p, i) ==
  /\ MaySpare(i)
  /\ Start(p, "leave", members[i].user, [id |-> i, role |-> "member"], "delete")

\* An owner writes a role; only who gives up the own one must leave another owner.
SetRole(p, a, i, r) ==
  /\ a \in OwnerRows
  /\ a = i /\ r # "owner" => MaySpare(a)
  /\ Start(p, "setRole", members[i].user, [id |-> i, role |-> r], "setRole")

WriteRole(p) ==
  /\ pc[p] = "setRole"
  /\ members' = [i \in DOMAIN members |->
       IF i = row[p].id THEN [members[i] EXCEPT !.role = row[p].role] ELSE members[i]]
  /\ Finish(p)
  /\ UNCHANGED <<made, team, seats, invitation, history>>

\* deleteMember: the row, then those in the team, then the seat.
Delete(p) ==
  /\ pc[p] = "delete"
  /\ members' = [i \in DOMAIN members \ {row[p].id} |-> members[i]]
  /\ Goto(p, "unseat")
  /\ UNCHANGED <<made, team, seats, invitation, local, history>>

-----------------------------------------------------------------------------
(* The team: addTeamMemberWithLimit and removeTeamMember.                  *)

AddTeam(p, u) == IsMember(u) /\ Start(p, "addTeam", u, NoRow, "seat")
RemoveTeam(p, u) == u \in team /\ Start(p, "removeTeam", u, NoRow, "unseat")

\* Who has a seat joins, and otherwise that was all.
Seated(p) ==
  IF op[p] = "accept" THEN Goto(p, "join") /\ UNCHANGED local ELSE Finish(p)

\* What is done about a call that failed.
Failed(p) ==
  CASE op[p] = "accept" -> Goto(p, "release") /\ UNCHANGED local
    [] op[p] = "add" -> Goto(p, "delete") /\ UNCHANGED local
    [] OTHER -> Finish(p)

Seat(p) ==
  /\ pc[p] = "seat"
  /\ IF who[p] \in team THEN Seated(p) ELSE Goto(p, "count") /\ UNCHANGED local
  /\ UNCHANGED <<members, made, team, seats, invitation, history>>

\* syncTeamMemberCount: the rows are counted, and the counter is raised to that.
Count(p) ==
  /\ pc[p] = "count"
  /\ n' = [n EXCEPT ![p] = Cardinality(team)]
  /\ Goto(p, "sync")
  /\ UNCHANGED <<members, made, team, seats, invitation, op, who, row, ok, history>>

Sync(p) ==
  /\ pc[p] = "sync"
  /\ seats' = IF seats < n[p] THEN n[p] ELSE seats
  /\ Goto(p, "reserve")
  /\ UNCHANGED <<members, made, team, invitation, local, history>>

Reserve(p) ==
  /\ pc[p] = "reserve"
  /\ IF seats < Seats
     THEN seats' = seats + 1 /\ Goto(p, "enrol") /\ UNCHANGED local
     ELSE Failed(p) /\ UNCHANGED seats
  /\ UNCHANGED <<members, made, team, invitation, history>>

\* createTeamMemberWithKey: a second row of a user is refused by its key.
Enrol(p) ==
  /\ pc[p] = "enrol"
  /\ team' = team \cup {who[p]}
  /\ IF who[p] \in team
     THEN /\ ok' = [ok EXCEPT ![p] = TRUE]
          /\ Goto(p, "unreserve")
          /\ UNCHANGED <<op, who, row, n>>
     ELSE Seated(p)
  /\ UNCHANGED <<members, made, seats, invitation, history>>

\* Neither is the row created nor one found.
EnrolFails(p) ==
  /\ "throw" \in Faults /\ pc[p] = "enrol"
  /\ Goto(p, "unreserve")
  /\ UNCHANGED <<members, made, team, seats, invitation, local, history>>

\* releaseTeamSeats
Less(k) == IF seats >= k THEN seats - k ELSE seats

Unreserve(p) ==
  /\ pc[p] = "unreserve"
  /\ seats' = Less(1)
  /\ IF ok[p] THEN Seated(p) ELSE Failed(p)
  /\ UNCHANGED <<members, made, team, invitation, history>>

\* Mutant: a row is taken to be deleted, though another call has done so.
DeletedOne(u) == 1

\* What deleteMany answers.
Deleted(u) == Cardinality({u} \cap team)

Unseat(p) ==
  /\ pc[p] = "unseat"
  /\ team' = team \ {who[p]}
  /\ IF Deleted(who[p]) = 0
     THEN Finish(p)
     ELSE /\ n' = [n EXCEPT ![p] = Deleted(who[p])]
          /\ Goto(p, "free")
          /\ UNCHANGED <<op, who, row, ok>>
  /\ UNCHANGED <<members, made, seats, invitation, history>>

Free(p) ==
  /\ pc[p] = "free"
  /\ seats' = Less(n[p])
  /\ Finish(p)
  /\ UNCHANGED <<members, made, team, invitation, history>>

-----------------------------------------------------------------------------

\* Where a failure is followed by what is done about it.
Work == {"seat", "count", "sync", "reserve", "unreserve", "join", "activate"}

\* An await rejects before it has done anything, that of Release included: the
\* row that such a call has made stays, and so does a claim it cannot give back.
Throw(p) ==
  /\ "throw" \in Faults /\ pc[p] \notin {"idle", "enrol"}
  /\ IF pc[p] \in Work THEN Failed(p) ELSE Finish(p)
  /\ joins' = IF pc[p] = "activate" THEN joins \ {row[p].id} ELSE joins
  /\ unreleased' = (unreleased \/ (pc[p] = "release" /\ invitation = "accepted"))
  /\ UNCHANGED <<members, made, team, seats, invitation>>

Crash(p) ==
  /\ "crash" \in Faults /\ pc[p] # "idle"
  /\ Finish(p)
  /\ UNCHANGED <<members, made, team, seats, invitation, history>>

Begin(p) ==
  \/ Accept(p) \/ Reject(p) \/ Cancel(p)
  \/ \E u \in Users : Add(p, u) \/ AddTeam(p, u) \/ RemoveTeam(p, u)
  \/ \E i \in DOMAIN members :
       \/ Remove(p, i) \/ Leave(p, i)
       \/ \E a \in DOMAIN members, r \in Roles : SetRole(p, a, i, r)

Continue(p) ==
  \/ Claim(p) \/ Join(p) \/ Activate(p) \/ Release(p) \/ Close(p)
  \/ Create(p) \/ WriteRole(p) \/ Delete(p)
  \/ Seat(p) \/ Count(p) \/ Sync(p) \/ Reserve(p) \/ Enrol(p) \/ EnrolFails(p)
  \/ Unreserve(p) \/ Unseat(p) \/ Free(p)

Next == \E p \in Procs : Begin(p) \/ Continue(p) \/ Throw(p) \/ Crash(p)

Spec == Init /\ [][Next]_vars

-----------------------------------------------------------------------------
(* Properties.                                                             *)

\* A team has never more members than seats, counting the seats that calls have
\* reserved or not given back yet, though the counter is raised from a count
\* that may be stale and lowered by guarded updates only.
TeamCapacity ==
  /\ seats <= Seats
  /\ Cardinality(team) + Cardinality({p \in Procs : pc[p] \in {"enrol", "unreserve", "free"}})
       <= seats

\* Of the member rows that accepting the invitation made, one at most is that of
\* a call that did not fail after making it, however many calls arrive and fail,
\* and whoever rejects or cancels the invitation meanwhile.
JoinedOnce == \A i, j \in joins : i = j

\* An invitation is not left accepted by a call that failed, unless giving it back
\* failed as well.
NotStranded ==
  invitation = "accepted" /\ (\A p \in Procs : op[p] # "accept" \/ pc[p] = "claim")
    => joins # {} \/ unreleased

\* The organization keeps an owner, if calls do not overlap.
OwnerRemains == OwnerRows # {}
=============================================================================
