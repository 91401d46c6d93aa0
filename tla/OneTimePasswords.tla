-------------------------- MODULE OneTimePasswords --------------------------
(***************************************************************************)
(* Codes sent by e-mail or to a telephone                                  *)
(* (packages/better-auth/src/plugins/email-otp, plugins/phone-number): a   *)
(* code and the number of wrong guesses are one verification value, which  *)
(* resending, checking and using it read and write.                        *)
(*                                                                         *)
(* One identifier is modelled: an address and what the code is for.  Its   *)
(* rows are numbered in the order of their creation, and consuming takes   *)
(* the newest and voids the others, which Verification shows of the        *)
(* internal adapter.                                                       *)
(***************************************************************************)
EXTENDS Naturals

CONSTANTS
  Procs,    \* calls in flight
  Ops,      \* which endpoints are called, a subset of {"send", "check", "use"}
  Peek,     \* TRUE: the telephone plugin, which looks at the value before consuming it
  Reuse,    \* resendStrategy = "reuse", with codes that can be recovered
  Faults,   \* "throw": an await may reject; "duplicate": a creation fails and is tried
            \* again; "unknown": nobody has the address, and nothing is sent
  Allowed,  \* allowedAttempts
  Lifetime, \* expiresIn, in ticks
  MaxSends, \* bound: codes ever made
  MaxTime   \* bound: the clock

\* What the constants are assumed to be.
OtpAssumption ==
  /\ Ops \subseteq {"send", "check", "use"}
  /\ {Peek, Reuse} \subseteq BOOLEAN
  /\ Allowed \in Nat \ {0}
  /\ {Lifetime, MaxSends, MaxTime} \subseteq Nat

Codes == 1 .. MaxSends

VARIABLES
  now,      \* the clock
  rows,     \* the rows of the identifier
  created,  \* rows ever created
  sends,    \* codes ever made
  pc,       \* where each call is suspended
  op,       \* what each call does
  hold,     \* the row a call has read or consumed, in a set
  wrong,    \* history: wrong guesses compared with each code
  accepted  \* history: how often each code was accepted by a call that consumes it

vars == <<now, rows, created, sends, pc, op, hold, wrong, accepted>>

\* at is createdAt.
Row == [at : Nat, code : Codes, n : Nat, exp : Nat]

Labels ==
  {"idle", "reuse", "extend", "create", "clear", "again", "withdraw", "drop", "consume",
   "compare", "rearm", "update"}

TypeOK ==
  /\ now \in Nat /\ rows \subseteq Row /\ created \in Nat /\ sends \in 0 .. MaxSends
  /\ pc \in [Procs -> Labels]
  /\ op \in [Procs -> Ops \cup {"none"}]
  /\ hold \in [Procs -> SUBSET Row]
  /\ wrong \in [Codes -> Nat] /\ accepted \in [Codes -> Nat]

-----------------------------------------------------------------------------
(* Helpers.                                                                *)

\* The newest row, in a set that is empty if there is none.
Newest == {x \in rows : \A y \in rows : y.at <= x.at}

Expired(x) == x.exp < now

\* findVerificationValue deletes the expired rows after it has read.
CleanedUp == {x \in rows : ~Expired(x)}

\* A row is created.
Insert(x) ==
  /\ rows' = rows \cup {[x EXCEPT !.at = created]}
  /\ created' = created + 1

Goto(p, l) == pc' = [pc EXCEPT ![p] = l]

Finish(p) ==
  /\ Goto(p, "idle")
  /\ op' = [op EXCEPT ![p] = "none"]
  /\ hold' = [hold EXCEPT ![p] = {}]

Start(p, o) ==
  /\ o \in Ops /\ pc[p] = "idle"
  /\ op' = [op EXCEPT ![p] = o]

Init ==
  /\ now = 0 /\ rows = {} /\ created = 0 /\ sends = 0
  /\ pc = [p \in Procs |-> "idle"] /\ op = [p \in Procs |-> "none"]
  /\ hold = [p \in Procs |-> {}]
  /\ wrong = [k \in Codes |-> 0] /\ accepted = [k \in Codes |-> 0]

-----------------------------------------------------------------------------
(* Sending: resolveOTP and tryReuseOTP.                                    *)

Send(p) ==
  /\ Start(p, "send")
  /\ Goto(p, IF Reuse THEN "reuse" ELSE "create")
  /\ UNCHANGED <<now, rows, created, sends, hold, wrong, accepted>>

\* A code that still has guesses left is sent again.
Reusable == {x \in Newest : ~Expired(x) /\ x.n < Allowed}

FindReusable(p) ==
  /\ pc[p] = "reuse"
  /\ hold' = [hold EXCEPT ![p] = Reusable]
  /\ Goto(p, IF Reusable = {} THEN "create" ELSE "extend")
  /\ rows' = CleanedUp
  /\ UNCHANGED <<now, created, sends, op, wrong, accepted>>

\* The code is stored, and goes out unless nobody has the address.
Delivered(p) ==
  \/ Finish(p)
  \/ "unknown" \in Faults /\ Goto(p, "withdraw") /\ UNCHANGED <<op, hold>>

Extend(p) ==
  /\ pc[p] = "extend"
  /\ rows' = {[x EXCEPT !.exp = now + Lifetime] : x \in rows}
  /\ Delivered(p)
  /\ UNCHANGED <<now, created, sends, wrong, accepted>>

Create(p) ==
  /\ pc[p] \in {"create", "again"} /\ sends < MaxSends
  /\ sends' = sends + 1
  /\ Insert([at |-> 0, code |-> sends', n |-> 0, exp |-> now + Lifetime])
  /\ Delivered(p)
  /\ UNCHANGED <<now, wrong, accepted>>

\* The creation fails: what is there is deleted, and it is tried once more.
CreateFails(p) ==
  /\ "duplicate" \in Faults /\ pc[p] = "create"
  /\ Goto(p, "clear")
  /\ UNCHANGED <<now, rows, created, sends, op, hold, wrong, accepted>>

Clear(p) ==
  /\ pc[p] = "clear"
  /\ rows' = {}
  /\ Goto(p, "again")
  /\ UNCHANGED <<now, created, sends, op, hold, wrong, accepted>>

\* An expired or exhausted value, or one for nobody, is deleted.
Delete(p) ==
  /\ pc[p] \in {"drop", "withdraw"}
  /\ rows' = {}
  /\ Finish(p)
  /\ UNCHANGED <<now, created, sends, wrong, accepted>>

-----------------------------------------------------------------------------
(* Using a code: atomicVerifyOTP and verifyPhoneNumberOTP.                 *)

Exhausted(x) == x.n >= Allowed

\* An expired value is deleted, and one without guesses left where it is looked
\* at before it is consumed.
Dropped(x) == Expired(x) \/ (Peek /\ Exhausted(x))

Use(p) ==
  /\ Start(p, "use")
  /\ Peek => Newest # {}
  /\ Goto(p, IF \E x \in Newest : Dropped(x) THEN "drop" ELSE "consume")
  /\ rows' = CleanedUp
  /\ UNCHANGED <<now, created, sends, hold, wrong, accepted>>

\* Mutant: the value is read and stays there for others.
AfterRead == rows

AfterConsume == {}

Consume(p) ==
  /\ pc[p] = "consume"
  /\ rows' = AfterConsume
  /\ LET won == {x \in Newest : ~Expired(x) /\ ~Exhausted(x)} IN
       IF won = {}
       THEN Finish(p)
       ELSE hold' = [hold EXCEPT ![p] = won] /\ Goto(p, "compare") /\ UNCHANGED op
  /\ UNCHANGED <<now, created, sends, wrong, accepted>>

Right(p) ==
  /\ pc[p] = "compare"
  /\ accepted' = [k \in Codes |->
       IF op[p] = "use" /\ (\E x \in hold[p] : x.code = k) THEN accepted[k] + 1 ELSE accepted[k]]
  /\ Finish(p)
  /\ UNCHANGED <<now, rows, created, sends, wrong>>

Wrong(p) ==
  /\ pc[p] = "compare"
  /\ wrong' = [k \in Codes |->
       IF \E x \in hold[p] : x.code = k THEN wrong[k] + 1 ELSE wrong[k]]
  /\ Goto(p, IF op[p] = "use" THEN "rearm" ELSE "update")
  /\ UNCHANGED <<now, rows, created, sends, op, hold, accepted>>

SpentOne(x) == [x EXCEPT !.n = @ + 1]

\* After a wrong code the value is made again, with one guess less.
Rearm(p) ==
  /\ pc[p] = "rearm"
  /\ \E x \in hold[p] : Insert(SpentOne(x))
  /\ Finish(p)
  /\ UNCHANGED <<now, sends, wrong, accepted>>

-----------------------------------------------------------------------------
(* Checking a code without using it: checkVerificationOTP.                 *)

Check(p) ==
  /\ Start(p, "check")
  /\ Newest # {}
  /\ hold' = [hold EXCEPT ![p] = Newest]
  /\ Goto(p, IF \E x \in Newest : Expired(x) \/ Exhausted(x) THEN "drop" ELSE "compare")
  /\ rows' = CleanedUp
  /\ UNCHANGED <<now, created, sends, wrong, accepted>>

\* The value that was read, with one guess less, goes into whatever is there.
Update(p) ==
  /\ pc[p] = "update"
  /\ \E x \in hold[p] :
       rows' = {[SpentOne(x) EXCEPT !.at = y.at, !.exp = y.exp] : y \in rows}
  /\ Finish(p)
  /\ UNCHANGED <<now, created, sends, wrong, accepted>>

Throw(p) ==
  /\ "throw" \in Faults /\ pc[p] # "idle"
  /\ Finish(p)
  /\ UNCHANGED <<now, rows, created, sends, wrong, accepted>>

Tick ==
  /\ now < MaxTime
  /\ now' = now + 1
  /\ UNCHANGED <<rows, created, sends, pc, op, hold, wrong, accepted>>

Step(p) ==
  \/ Send(p) \/ FindReusable(p) \/ Extend(p) \/ Create(p) \/ CreateFails(p) \/ Clear(p)
  \/ Delete(p) \/ Use(p) \/ Consume(p) \/ Right(p) \/ Wrong(p) \/ Rearm(p)
  \/ Check(p) \/ Update(p) \/ Throw(p)

Next == (\E p \in Procs : Step(p)) \/ Tick

Spec == Init /\ [][Next]_vars

-----------------------------------------------------------------------------
(* Properties.                                                             *)

\* No more wrong codes than allowed are compared with one that was sent,
\* however many arrive at the same time and however often it is sent again.
GuessesBounded == \A k \in Codes : wrong[k] <= Allowed

\* A code is accepted once by the calls that consume it.
AcceptedOnce == \A k \in Codes : accepted[k] <= 1
=============================================================================
