---------------------------- MODULE DeviceCodes ----------------------------
(***************************************************************************)
(* Device authorization (packages/better-auth/src/plugins/                 *)
(* device-authorization): a device asks for a code and polls for its       *)
(* session, while users look the code up, which makes it theirs, and       *)
(* approve or deny it.  One code is modelled.                              *)
(***************************************************************************)
EXTENDS Naturals

CONSTANTS
  Procs,    \* calls in flight
  Users,    \* users who are signed in
  Interval, \* the least time between two polls, in ticks
  Lifetime, \* expiresIn, in ticks
  MaxTime   \* bound: the clock

\* What the constants are assumed to be.
DeviceAssumption ==
  /\ {Interval, Lifetime, MaxTime} \subseteq Nat
  /\ "nobody" \notin Users

VARIABLES
  now,       \* the clock
  requested, \* whether the device has asked for its code
  code,      \* the row of the code, in a set that is empty when there is none
  pc,        \* where each call is suspended
  user,      \* the user of a call, or "nobody"
  seen,      \* the row a call has read, in a set
  minted     \* history: how many sessions were created

vars == <<now, requested, code, pc, user, seen, minted>>

\* polled is one more than the time of the last poll, 0 before the first.
Row == [status : {"pending", "approved", "denied"}, owner : Users \cup {"nobody"},
        polled : Nat, exp : Nat]

Labels == {"idle", "claim", "approve", "deny", "poll", "delete", "redeem", "mint"}

TypeOK ==
  /\ now \in Nat /\ requested \in BOOLEAN
  /\ code \subseteq Row /\ \A c, d \in code : c = d
  /\ pc \in [Procs -> Labels]
  /\ user \in [Procs -> Users \cup {"nobody"}]
  /\ seen \in [Procs -> SUBSET Row]
  /\ minted \in Nat

Goto(p, l) == pc' = [pc EXCEPT ![p] = l]

Finish(p) ==
  /\ Goto(p, "idle")
  /\ user' = [user EXCEPT ![p] = "nobody"]
  /\ seen' = [seen EXCEPT ![p] = {}]

Init ==
  /\ now = 0 /\ requested = FALSE /\ code = {}
  /\ pc = [p \in Procs |-> "idle"]
  /\ user = [p \in Procs |-> "nobody"]
  /\ seen = [p \in Procs |-> {}]
  /\ minted = 0

-----------------------------------------------------------------------------
(* The device asks, for a certain user or for whoever takes the code.      *)

Request ==
  /\ ~requested /\ requested' = TRUE
  /\ \E u \in Users \cup {"nobody"} :
       code' = {[status |-> "pending", owner |-> u, polled |-> 0, exp |-> now + Lifetime]}
  /\ UNCHANGED <<now, pc, user, seen, minted>>

\* A user reads the row by its user code.
Read(p, u, l) ==
  /\ pc[p] = "idle"
  /\ \E c \in code : c.exp >= now /\ seen' = [seen EXCEPT ![p] = {c}]
  /\ user' = [user EXCEPT ![p] = u]
  /\ Goto(p, l)
  /\ UNCHANGED <<now, requested, code, minted>>

\* deviceVerify: a code that is nobody's becomes that of the user who looks it up.
Verify(p, u) ==
  /\ Read(p, u, "claim")
  /\ \A c \in code : c.status = "pending" /\ c.owner = "nobody"

\* Mutant: the owner is written whoever it is by now.
ClaimableAnyway == {c \in code : c.status = "pending"}

\* The guard of the update.
Claimable == {c \in code : c.status = "pending" /\ c.owner = "nobody"}

Claim(p) ==
  /\ pc[p] = "claim"
  /\ code' = {IF c \in Claimable THEN [c EXCEPT !.owner = user[p]] ELSE c : c \in code}
  /\ Finish(p)
  /\ UNCHANGED <<now, requested, minted>>

\* deviceApprove and deviceDeny: the user must have the code, and it must be pending.
Decide(p, u, l) ==
  /\ Read(p, u, l)
  /\ \A c \in code : c.status = "pending" /\ c.owner = u

\* The verdict is written to the row whatever it says by now.
Write(p) ==
  /\ pc[p] \in {"approve", "deny"}
  /\ code' = {[c EXCEPT !.status = IF pc[p] = "approve" THEN "approved" ELSE "denied",
                        !.owner = user[p]] : c \in code}
  /\ Finish(p)
  /\ UNCHANGED <<now, requested, minted>>

-----------------------------------------------------------------------------
(* redeemDeviceCode: the device polls.                                     *)

Poll(p) ==
  /\ pc[p] = "idle"
  /\ \E c \in code :
       /\ c.polled # 0 => now >= c.polled - 1 + Interval
       /\ seen' = [seen EXCEPT ![p] = {c}]
  /\ Goto(p, "poll")
  /\ UNCHANGED <<now, requested, code, user, minted>>

\* The time of the poll is kept, and what was read decides.
Stamp(p) ==
  /\ pc[p] = "poll"
  /\ code' = {[c EXCEPT !.polled = now + 1] : c \in code}
  /\ \E c \in seen[p] :
       CASE c.exp < now \/ c.status = "denied" -> Goto(p, "delete") /\ UNCHANGED <<user, seen>>
         [] c.exp >= now /\ c.status = "pending" -> Finish(p)
         [] c.exp >= now /\ c.status = "approved" -> Goto(p, "redeem") /\ UNCHANGED <<user, seen>>
  /\ UNCHANGED <<now, requested, minted>>

Delete(p) ==
  /\ pc[p] = "delete"
  /\ code' = {}
  /\ Finish(p)
  /\ UNCHANGED <<now, requested, minted>>

\* Mutant: the row is found and stays there for others.
CodeAfterFind == code

CodeAfterConsume == {c \in code : c.status # "approved"}

\* The row is consumed if it is still approved, and who gets it gets the session.
Redeem(p) ==
  /\ pc[p] = "redeem"
  /\ code' = CodeAfterConsume
  /\ IF \E c \in code : c.status = "approved"
     THEN Goto(p, "mint") /\ UNCHANGED <<user, seen>>
     ELSE Finish(p)
  /\ UNCHANGED <<now, requested, minted>>

Mint(p) ==
  /\ pc[p] = "mint"
  /\ minted' = minted + 1
  /\ Finish(p)
  /\ UNCHANGED <<now, requested, code>>

\* An await rejects or the server dies.
Throw(p) ==
  /\ pc[p] # "idle"
  /\ Finish(p)
  /\ UNCHANGED <<now, requested, code, minted>>

Tick ==
  /\ now < MaxTime
  /\ now' = now + 1
  /\ UNCHANGED <<requested, code, pc, user, seen, minted>>

Step(p) ==
  \/ \E u \in Users : Verify(p, u) \/ Decide(p, u, "approve") \/ Decide(p, u, "deny")
  \/ Claim(p) \/ Write(p) \/ Poll(p) \/ Stamp(p) \/ Delete(p) \/ Redeem(p) \/ Mint(p)
  \/ Throw(p)

Next == Request \/ Tick \/ \E p \in Procs : Step(p)

Spec == Init /\ [][Next]_vars

-----------------------------------------------------------------------------
(* Properties.                                                             *)

\* However often the device polls at the same time, it gets one session.
RedeemedOnce == minted <= 1

\* A code that has been taken by one user is nobody else's afterwards, so that
\* it is approved and redeemed for that user alone, although the verdict is
\* written with the user of the call and without looking at the row again.
OwnerKept == \A c \in code, d \in code' : c.owner # "nobody" => d.owner = c.owner

OwnerStays == [][OwnerKept]_vars
=============================================================================
