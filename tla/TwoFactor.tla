----------------------------- MODULE TwoFactor -----------------------------
(***************************************************************************)
(* The second factor of a sign-in                                          *)
(* (packages/better-auth/src/plugins/two-factor): a challenge, its counter *)
(* of attempts, the codes that are sent for it, the backup codes of the    *)
(* account, and the lock of the account after too many failures.           *)
(*                                                                         *)
(* The account is that of one user.  Challenges, counters and sent codes   *)
(* are verification values; that consuming one is atomic and answers once  *)
(* is what Verification shows of the internal adapter.                     *)
(***************************************************************************)
EXTENDS Naturals, Sequences, FiniteSets

CONSTANTS
  Procs,          \* calls in flight
  Methods,        \* the factors in use, a subset of {"totp", "backup", "otp"}
  Faults,         \* what an await may meet: "throw", "error" (before the code is
                  \* checked), "swallow" (the counter cannot be written again)
  Allowed,        \* attempts of a challenge, and of a code that was sent
  MaxFailed,      \* accountLockout.maxFailedAttempts
  LockDuration,   \* accountLockout.durationSeconds, in ticks
  ChallengeLife,  \* twoFactorCookieMaxAge, in ticks
  Period,         \* lifetime of a code that is sent, in ticks
  Batch,          \* how many backup codes are generated at a time
  MaxBatches,     \* bound: batches of backup codes
  MaxChallenges,  \* bound: challenges
  MaxSends,       \* bound: codes sent
  MaxTime         \* bound: the clock

\* What the constants are assumed to be.
TwoFactorAssumption ==
  /\ Methods \subseteq {"totp", "backup", "otp"}
  /\ {Allowed, MaxFailed, LockDuration, Batch, MaxBatches} \subseteq Nat \ {0}
  /\ {ChallengeLife, Period} \subseteq Nat
  /\ {MaxChallenges, MaxSends, MaxTime} \subseteq Nat

Challenges == 1 .. MaxChallenges
Codes == 1 .. MaxSends
BackupCodes == 1 .. Batch * MaxBatches

\* The row of the account, of which a call holds a copy.
Row == [count : Nat, locked : Nat, codes : SUBSET BackupCodes]

VARIABLES
  now,      \* the clock
  opened,   \* challenges ever opened
  open,     \* the challenges, with their expiry
  armed,    \* the counter of each challenge: attempts made so far, and expiry
  sent,     \* the codes sent for each challenge, the newest last
  sends,    \* codes ever sent
  batches,  \* batches of backup codes ever generated
  row,      \* the twoFactor row; its lock is 0 when it is not locked
  pc,       \* where each call is suspended
  ch,       \* the challenge of a call
  how,      \* the factor of a call
  seen,     \* the row a call has read, in a set
  hold,     \* the counter or the sent code a call has consumed, in a set
  guess,    \* the backup code a call was given, or 0
  tries,    \* history: how often a code was checked against a counter
  otpTries, \* history: how often a code was checked against a sent one
  minted,   \* history: sessions created for each challenge
  fails,    \* history: wrong codes since the last right one or the end of a lock
  spent     \* history: backup codes that were accepted or replaced

vars == <<now, opened, open, armed, sent, sends, batches, row, pc, ch, how, seen, hold,
          guess, tries, otpTries, minted, fails, spent>>
values == <<opened, open, armed, sent, sends>>
account == <<batches, row>>
local == <<ch, how, seen, hold, guess>>
history == <<tries, otpTries, minted, fails, spent>>

Labels ==
  {"idle", "send", "load", "clear", "gate", "check", "restore", "burn", "rearm", "count",
   "lock", "swap", "reset", "valid"}

Sent == [code : Codes, n : Nat, exp : Nat]

TypeOK ==
  /\ now \in Nat /\ opened \in 0 .. MaxChallenges
  /\ open \subseteq [id : Challenges, exp : Nat]
  /\ armed \subseteq [id : Challenges, n : 0 .. Allowed, exp : Nat]
  /\ sent \in [Challenges -> Seq(Sent)] /\ sends \in 0 .. MaxSends
  /\ batches \in 1 .. MaxBatches /\ row \in Row
  /\ pc \in [Procs -> Labels]
  /\ ch \in [Procs -> {0} \cup Challenges]
  /\ how \in [Procs -> Methods \cup {"none"}]
  /\ seen \in [Procs -> SUBSET Row]
  /\ hold \in [Procs -> SUBSET [code : {0} \cup Codes, n : Nat, exp : Nat]]
  /\ guess \in [Procs -> {0} \cup BackupCodes]
  /\ tries \in [Challenges -> Nat] /\ otpTries \in [Codes -> Nat]
  /\ minted \in [Challenges -> Nat]
  /\ fails \in Nat /\ spent \subseteq BackupCodes

-----------------------------------------------------------------------------
(* Helpers.                                                                *)

BatchOf(b) == (b - 1) * Batch + 1 .. b * Batch

Last(s) == s[Len(s)]

\* The challenge and the counter with an id: at most one of each is there.
Challenge(c) == {x \in open : x.id = c}
Counter(c) == {x \in armed : x.id = c}

\* What consuming yields: a value past its expiry is as good as none.
Live(S) == {x \in S : x.exp >= now}

Goto(p, l) == pc' = [pc EXCEPT ![p] = l]

Finish(p) ==
  /\ Goto(p, "idle")
  /\ ch' = [ch EXCEPT ![p] = 0]
  /\ how' = [how EXCEPT ![p] = "none"]
  /\ seen' = [seen EXCEPT ![p] = {}]
  /\ hold' = [hold EXCEPT ![p] = {}]
  /\ guess' = [guess EXCEPT ![p] = 0]

Init ==
  /\ now = 0 /\ opened = 0 /\ open = {} /\ armed = {}
  /\ sent = [c \in Challenges |-> <<>>] /\ sends = 0
  /\ batches = 1 /\ row = [count |-> 0, locked |-> 0, codes |-> BatchOf(1)]
  /\ pc = [p \in Procs |-> "idle"] /\ ch = [p \in Procs |-> 0]
  /\ how = [p \in Procs |-> "none"] /\ seen = [p \in Procs |-> {}]
  /\ hold = [p \in Procs |-> {}] /\ guess = [p \in Procs |-> 0]
  /\ tries = [c \in Challenges |-> 0] /\ otpTries = [k \in Codes |-> 0]
  /\ minted = [c \in Challenges |-> 0]
  /\ fails = 0 /\ spent = {}

-----------------------------------------------------------------------------
(* A password was right: the challenge and its counter are created, and    *)
(* the client gets a cookie.  A code is sent on demand, as often as asked. *)

SignIn ==
  /\ opened < MaxChallenges
  /\ opened' = opened + 1
  /\ open' = open \cup {[id |-> opened', exp |-> now + ChallengeLife]}
  /\ armed' = armed \cup {[id |-> opened', n |-> 0, exp |-> now + ChallengeLife]}
  /\ UNCHANGED <<now, sent, sends, account, pc, local, history>>

\* verifyTwoFactor finds the challenge of the cookie, expired or not.
Find(p, l) ==
  /\ pc[p] = "idle"
  /\ \E x \in open :
       /\ ch' = [ch EXCEPT ![p] = x.id]
       /\ hold' = [hold EXCEPT ![p] = {[code |-> 0, n |-> 0, exp |-> x.exp]}]
  /\ Goto(p, l)

Send(p) ==
  /\ "otp" \in Methods /\ Find(p, "send")
  /\ UNCHANGED <<now, values, account, how, seen, guess, history>>

CreateOtp(p) ==
  /\ pc[p] = "send"
  /\ IF sends < MaxSends
     THEN /\ sends' = sends + 1
          /\ sent' = [sent EXCEPT ![ch[p]] =
               Append(@, [code |-> sends', n |-> 0, exp |-> now + Period])]
     ELSE UNCHANGED <<sends, sent>>
  /\ Finish(p)
  /\ UNCHANGED <<now, opened, open, armed, account, history>>

-----------------------------------------------------------------------------
(* Verification: the account must not be locked, and a counter is consumed *)
(* before the code is looked at and written again after a wrong one.       *)

Verify(p) ==
  /\ Find(p, "load")
  /\ \E m \in Methods :
       /\ how' = [how EXCEPT ![p] = m]
       /\ \E b \in IF m = "backup" THEN BackupCodes ELSE {0} : guess' = [guess EXCEPT ![p] = b]
  /\ UNCHANGED <<now, values, account, seen, history>>

\* assertTwoFactorNotLocked
Load(p) ==
  /\ pc[p] = "load"
  /\ IF row.locked > now
     THEN Finish(p)
     ELSE /\ seen' = [seen EXCEPT ![p] = {row}]
          /\ Goto(p, IF row.locked # 0 THEN "clear" ELSE "gate")
          /\ UNCHANGED <<ch, how, hold, guess>>
  /\ UNCHANGED <<now, values, account, history>>

\* Mutant: the lock that was read is cleared, whatever it is by now.
ExpiredLockUnguarded == row.locked # 0

\* The guard of the write that clears a lock.
ExpiredLock == row.locked # 0 /\ row.locked <= now

ClearLock(p) ==
  /\ pc[p] = "clear"
  /\ row' = IF ExpiredLock THEN [row EXCEPT !.count = 0, !.locked = 0] ELSE row
  /\ Goto(p, "gate")
  /\ UNCHANGED <<now, values, batches, local, history>>

\* Mutant: the counter is read and stays there for others.
ArmedAfterRead(c) == armed

ArmedAfterConsume(c) == armed \ Counter(c)

\* beginAttempt, for a code of the authenticator app and for a backup code.
Begin(p) ==
  /\ pc[p] = "gate" /\ how[p] # "otp"
  /\ armed' = ArmedAfterConsume(ch[p])
  /\ IF Live(Counter(ch[p])) = {}
     THEN Finish(p)
     ELSE /\ \E x \in Counter(ch[p]) :
               /\ hold' = [hold EXCEPT ![p] = {[y EXCEPT !.n = x.n] : y \in @}]
               /\ Goto(p, IF x.n >= Allowed THEN "burn" ELSE "check")
          /\ UNCHANGED <<ch, how, seen, guess>>
  /\ UNCHANGED <<now, opened, open, sent, sends, account, history>>

\* The budget is spent: the whole challenge goes.
Burn(p) ==
  /\ pc[p] = "burn"
  /\ open' = open \ Challenge(ch[p])
  /\ Finish(p)
  /\ UNCHANGED <<now, opened, armed, sent, sends, account, history>>

\* The code that was sent is consumed: the newest, and with it all others.
BeginOtp(p) ==
  /\ pc[p] = "gate" /\ how[p] = "otp"
  /\ LET s == sent[ch[p]] IN
       IF s = <<>> \/ Last(s).exp < now \/ Last(s).n >= Allowed
       THEN Finish(p)
       ELSE /\ hold' = [hold EXCEPT ![p] = {Last(s)}]
            /\ Goto(p, "check")
            /\ UNCHANGED <<ch, how, seen, guess>>
  /\ sent' = [sent EXCEPT ![ch[p]] = <<>>]
  /\ UNCHANGED <<now, opened, open, armed, sends, account, history>>

\* Whether the code of p may be right: backup codes are those that were read.
MayBeRight(p) == how[p] = "backup" => \E r \in seen[p] : guess[p] \in r.codes
MayBeWrong(p) == how[p] = "backup" => \E r \in seen[p] : guess[p] \notin r.codes

Checked(p) ==
  IF how[p] = "otp"
  THEN /\ otpTries' = [k \in Codes |->
            IF \E h \in hold[p] : h.code = k THEN otpTries[k] + 1 ELSE otpTries[k]]
       /\ tries' = tries
  ELSE /\ tries' = [tries EXCEPT ![ch[p]] = @ + 1]
       /\ otpTries' = otpTries

CheckRight(p) ==
  /\ pc[p] = "check" /\ MayBeRight(p)
  /\ Checked(p)
  /\ Goto(p, IF how[p] = "backup" THEN "swap" ELSE "reset")
  /\ UNCHANGED <<now, values, account, local, minted, fails, spent>>

CheckWrong(p) ==
  /\ pc[p] = "check" /\ MayBeWrong(p)
  /\ Checked(p)
  /\ fails' = fails + 1
  /\ Goto(p, "rearm")
  /\ UNCHANGED <<now, values, account, local, minted, spent>>

\* The code cannot be checked: the attempt is given back.
CheckFails(p) ==
  /\ "error" \in Faults /\ pc[p] = "check" /\ how[p] # "otp"
  /\ Goto(p, "restore")
  /\ UNCHANGED <<now, values, account, local, history>>

\* The counter with d more attempts, or none if it cannot be written.
WriteCounter(p, d) ==
  \/ armed' = armed \cup {[id |-> ch[p], n |-> h.n + d, exp |-> h.exp] : h \in hold[p]}
  \/ "swallow" \in Faults /\ armed' = armed

Restore(p) ==
  /\ pc[p] = "restore"
  /\ WriteCounter(p, 0)
  /\ Finish(p)
  /\ UNCHANGED <<now, opened, open, sent, sends, account, history>>

Rearm(p) ==
  /\ pc[p] = "rearm"
  /\ IF how[p] = "otp"
     THEN /\ \E h \in hold[p] : sent' = [sent EXCEPT ![ch[p]] = Append(@, [h EXCEPT !.n = @ + 1])]
          /\ armed' = armed
     ELSE WriteCounter(p, 1) /\ sent' = sent
  /\ Goto(p, "count")
  /\ UNCHANGED <<now, opened, open, sends, account, local, history>>

-----------------------------------------------------------------------------
(* The lock of the account.                                                *)

\* Mutant: the count is written from the copy that was read.
RaisedCopy(p) == (CHOOSE r \in seen[p] : TRUE).count + 1

Raised(p) == row.count + 1

\* recordTwoFactorFailure: the count is raised, and then the lock is set.
CountFailure(p) ==
  /\ pc[p] = "count"
  /\ row' = [row EXCEPT !.count = Raised(p)]
  /\ IF Raised(p) >= MaxFailed THEN Goto(p, "lock") /\ UNCHANGED local ELSE Finish(p)
  /\ UNCHANGED <<now, values, batches, history>>

SetLock(p) ==
  /\ pc[p] = "lock"
  /\ row' = IF row.count >= MaxFailed THEN [row EXCEPT !.locked = now + LockDuration] ELSE row
  /\ Finish(p)
  /\ UNCHANGED <<now, values, batches, history>>

\* Mutant: the codes are written whatever they are by now.
CodesAsAnything(p) == TRUE

CodesAsRead(p) == \E r \in seen[p] : r.codes = row.codes

\* A backup code is taken out of the codes if they are still those that were read.
Swap(p) ==
  /\ pc[p] = "swap"
  /\ IF CodesAsRead(p)
     THEN /\ \E r \in seen[p] : row' = [row EXCEPT !.codes = r.codes \ {guess[p]}]
          /\ spent' = spent \cup {guess[p]}
          /\ Goto(p, "reset")
          /\ UNCHANGED local
     ELSE Finish(p) /\ UNCHANGED <<row, spent>>
  /\ UNCHANGED <<now, values, batches, tries, otpTries, minted, fails>>

\* resetTwoFactorFailures
Reset(p) ==
  /\ pc[p] = "reset"
  /\ row' = [row EXCEPT !.count = 0, !.locked = 0]
  /\ fails' = 0
  /\ \/ Goto(p, "valid") /\ UNCHANGED local
     \/ how[p] = "backup" /\ Finish(p)   \* disableSession
  /\ UNCHANGED <<now, values, batches, tries, otpTries, minted, spent>>

OpenAfterConsume(c) == open \ Challenge(c)

\* The challenge is consumed, and whoever gets it gets the session.
Valid(p) ==
  /\ pc[p] = "valid"
  /\ open' = OpenAfterConsume(ch[p])
  /\ minted' = IF Live(Challenge(ch[p])) = {} THEN minted ELSE [minted EXCEPT ![ch[p]] = @ + 1]
  /\ Finish(p)
  /\ UNCHANGED <<now, opened, armed, sent, sends, account, tries, otpTries, fails, spent>>

\* The user, signed in, has new backup codes generated.
Regenerate ==
  /\ "backup" \in Methods /\ batches < MaxBatches
  /\ batches' = batches + 1
  /\ row' = [row EXCEPT !.codes = BatchOf(batches')]
  /\ spent' = spent \cup row.codes
  /\ UNCHANGED <<now, values, pc, local, tries, otpTries, minted, fails>>

\* An await rejects or the server dies.
Throw(p) ==
  /\ "throw" \in Faults /\ pc[p] # "idle"
  /\ Finish(p)
  /\ UNCHANGED <<now, values, account, history>>

Tick ==
  /\ now < MaxTime
  /\ now' = now + 1
  /\ fails' = IF row.locked = now' THEN 0 ELSE fails
  /\ UNCHANGED <<values, account, pc, local, tries, otpTries, minted, spent>>

Step(p) ==
  \/ Send(p) \/ CreateOtp(p) \/ Verify(p) \/ Load(p) \/ ClearLock(p)
  \/ Begin(p) \/ Burn(p) \/ BeginOtp(p) \/ CheckRight(p) \/ CheckWrong(p) \/ CheckFails(p)
  \/ Restore(p) \/ Rearm(p) \/ CountFailure(p) \/ SetLock(p) \/ Swap(p) \/ Reset(p)
  \/ Valid(p) \/ Throw(p)

Next == SignIn \/ (\E p \in Procs : Step(p)) \/ Regenerate \/ Tick

Spec == Init /\ [][Next]_vars

-----------------------------------------------------------------------------
(* Properties.                                                             *)

\* However many guesses arrive at the same time, and whatever fails, no more
\* than the allowed number are checked, of a challenge and of a code sent.
GuessBudget ==
  /\ \A c \in Challenges : tries[c] <= Allowed
  /\ \A k \in Codes : otpTries[k] <= Allowed

\* A challenge gives one session, whichever factors are tried for it at once.
OneSession == \A c \in Challenges : minted[c] <= 1

\* A backup code that was accepted or replaced is not among the codes again.
SpentStaysSpent == spent \cap row.codes = {}

\* Unless failures go unrecorded, an account takes no more wrong codes in a row
\* than its limit and two for each other call in flight, over all challenges
\* and factors: those that are checked when the lock is set, and those whose
\* record is cleared with a lock that expired meanwhile.
FailureBudget == fails <= MaxFailed + 2 * (Cardinality(Procs) - 1)

\* A lock that has not expired is not cleared by those that found an expired
\* one: only a right code ends it early.
LockKept == row.locked > now /\ row'.locked < row.locked => \E p \in Procs : pc[p] = "reset"

LockHolds == [][LockKept]_vars
=============================================================================
