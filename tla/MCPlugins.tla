----------------------------- MODULE MCPlugins -----------------------------
(***************************************************************************)
(* Small instances of what counts on one row, second factors, one-time     *)
(* passwords, device codes, API keys and memberships, of linked accounts   *)
(* and of database hooks.  A behaviour is one of one deployment of one of  *)
(* them; variables that two of the modules both have are shared, and those *)
(* that are not of the deployment stay 0.                                  *)
(***************************************************************************)
EXTENDS Naturals, FiniteSets, TLC

CONSTANTS p1, p2, u1, u2, u3, Procs, Deployments

VARIABLES
  deployment,
  now, pc, seen, hold, row, op, sends, minted,                        \* shared
  opened, open, armed, sent, batches, ch, how, guess, tries, otpTries, fails, spent,
  rows, created, wrong, accepted,
  requested, code, user,
  cache, at, late, used, burst,
  members, made, team, seats, invitation, who, n, ok, joins,
  unreleased,
  users, accounts, nextUser, nextAccount, key, target, acc, raise, granted,
  table, nextRow, fresh, gone, depth, pending, serial, writes, attempted

ofTwoFactor == <<opened, open, armed, sent, batches, ch, how, guess, tries, otpTries, fails, spent>>
ofPasswords == <<rows, created, wrong, accepted>>
ofDevice == <<requested, code, user>>
ofKeys == <<cache, at, late, used, burst>>
ofMemberships == <<members, made, team, seats, invitation, who, n, ok, joins,
                   unreleased>>
ofLinking == <<users, accounts, nextUser, nextAccount, key, target, acc, raise, granted>>
ofHooks == <<table, nextRow, fresh, gone, depth, pending, serial, writes, attempted>>

allVars ==
  <<deployment, now, pc, seen, hold, row, op, sends, minted, ofTwoFactor, ofPasswords, ofDevice,
    ofKeys, ofMemberships, ofLinking, ofHooks>>

Alone == {p1}
AllLinking == {"signIn", "signUp", "verify", "link", "unlink", "delete"}

-----------------------------------------------------------------------------
(* The deployments.                                                        *)

\* Authenticator codes, which may fail to be checked.
Totp == INSTANCE TwoFactor WITH
  Methods <- {"totp"}, Faults <- {"error", "swallow"}, Allowed <- 2, MaxFailed <- 2,
  LockDuration <- 1, ChallengeLife <- 2, Period <- 1, Batch <- 1, MaxBatches <- 1,
  MaxChallenges <- 2, MaxSends <- 0, MaxTime <- 3

\* A challenge with more attempts than it takes to lock the account over again.
Counted == INSTANCE TwoFactor WITH
  Methods <- {"totp"}, Faults <- {"error"}, Allowed <- 6, MaxFailed <- 2,
  LockDuration <- 1, ChallengeLife <- 2, Period <- 1, Batch <- 1, MaxBatches <- 1,
  MaxChallenges <- 1, MaxSends <- 0, MaxTime <- 2

\* Backup codes, which are generated anew, beside a code that is sent.
Backup == INSTANCE TwoFactor WITH
  Methods <- {"backup", "otp"}, Faults <- {}, Allowed <- 2, MaxFailed <- 2,
  LockDuration <- 1, ChallengeLife <- 2, Period <- 1, Batch <- 2, MaxBatches <- 2,
  MaxChallenges <- 1, MaxSends <- 1, MaxTime <- 1

\* Codes that are sent, and calls that die.
Sent == INSTANCE TwoFactor WITH
  Methods <- {"otp"}, Faults <- {"throw"}, Allowed <- 2, MaxFailed <- 3,
  LockDuration <- 1, ChallengeLife <- 2, Period <- 1, Batch <- 1, MaxBatches <- 1,
  MaxChallenges <- 1, MaxSends <- 2, MaxTime <- 2

\* Codes by e-mail, sent again while they have guesses left.
Mailed == INSTANCE OneTimePasswords WITH
  Ops <- {"send", "use"}, Peek <- FALSE, Reuse <- TRUE,
  Faults <- {"throw", "duplicate", "unknown"}, Allowed <- 2, Lifetime <- 1,
  MaxSends <- 2, MaxTime <- 3

\* Codes to a telephone.
Phoned == INSTANCE OneTimePasswords WITH
  Ops <- {"send", "use"}, Peek <- TRUE, Reuse <- FALSE, Faults <- {"throw"}, Allowed <- 2,
  Lifetime <- 1, MaxSends <- 2, MaxTime <- 3

\* Codes by e-mail that are also checked without being used, one call at a time.
Checked == INSTANCE OneTimePasswords WITH
  Procs <- Alone, Ops <- {"send", "check", "use"}, Peek <- FALSE, Reuse <- TRUE,
  Faults <- {"duplicate", "unknown"}, Allowed <- 2, Lifetime <- 1, MaxSends <- 3, MaxTime <- 3

Device == INSTANCE DeviceCodes WITH
  Users <- {u1, u2}, Interval <- 1, Lifetime <- 1, MaxTime <- 3

\* Keys in the database, with uses that are refilled and a rate limit.
Metered == INSTANCE ApiKeys WITH
  Cached <- FALSE, Limited <- TRUE, Grant <- 2, Refill <- 1, Max <- 2, Window <- 1,
  Owner <- {}, MaxTime <- 5

\* Keys in the database, with an owner.
Owned == INSTANCE ApiKeys WITH
  Cached <- FALSE, Limited <- TRUE, Grant <- 1, Refill <- 1, Max <- 1, Window <- 1,
  Owner <- {"topUp", "switch", "delete"}, MaxTime <- 3

\* Keys with a copy in secondary storage: with uses, and without.
Copied == INSTANCE ApiKeys WITH
  Cached <- TRUE, Limited <- TRUE, Grant <- 2, Refill <- 0, Max <- 1, Window <- 1,
  Owner <- {"topUp", "switch", "delete"}, MaxTime <- 1
Unlimited == INSTANCE ApiKeys WITH
  Cached <- TRUE, Limited <- FALSE, Grant <- 1, Refill <- 0, Max <- 0, Window <- 1,
  Owner <- {"switch", "delete"}, MaxTime <- 1

\* Calls for the seats of a team and for the invitation at the same time.
Team == INSTANCE Memberships WITH
  Owners <- {u1}, Invitee <- u3, Ops <- {"accept", "cancel", "remove", "addTeam", "removeTeam"},
  Faults <- {"throw"}, Seats <- 2, Limit <- 4, MaxRows <- 3

\* Every call, one after the other, on a server that may die.
Organization == INSTANCE Memberships WITH
  Procs <- Alone, Owners <- {u1, u2}, Invitee <- u3, Ops <- Team!OpNames,
  Faults <- {"throw", "crash"}, Seats <- 1, Limit <- 4, MaxRows <- 4

\* Two identities with one e-mail, of which one is verified and one of a trusted
\* provider; without transactions.
Linking == INSTANCE AccountLinking WITH
  Keys <- {"google", "github"}, Emails <- {"mail"}, Proven <- {"google"}, Trusted <- {"github"},
  Mail <- [k \in {"google", "github"} |-> "mail"], Ops <- AllLinking,
  Transactions <- FALSE, Updating <- FALSE, RequireVerified <- TRUE, DifferentEmails <- FALSE,
  UnlinkingAll <- TRUE, MaxUsers <- 3, MaxAccounts <- 3

\* Users who link identities with other e-mails, one call at a time.
Relinking == INSTANCE AccountLinking WITH
  Procs <- Alone, Keys <- {"google", "github"}, Emails <- {"ann", "bob"},
  Proven <- {"google"}, Trusted <- {"google", "github"},
  Mail <- [k \in {"google", "github"} |-> IF k = "google" THEN "ann" ELSE "bob"],
  Ops <- AllLinking \ {"unlink"},
  Transactions <- TRUE, Updating <- TRUE, RequireVerified <- FALSE, DifferentEmails <- TRUE,
  UnlinkingAll <- FALSE, MaxUsers <- 3, MaxAccounts <- 4

\* Hooks after the writes of transactions: of all writes, with failures that are
\* reported; of those that consume rows, without; and over an adapter that has none.
Hooked == INSTANCE DatabaseHooks WITH
  Entries <- 2, Ops <- {"create", "update", "delete", "consume"}, Transactions <- TRUE,
  Reporting <- TRUE, Stored <- 1, MaxRows <- 2, MaxWrites <- 2, MaxDepth <- 2
Consumed == INSTANCE DatabaseHooks WITH
  Entries <- 2, Ops <- {"create", "consume"}, Transactions <- TRUE,
  Reporting <- FALSE, Stored <- 1, MaxRows <- 2, MaxWrites <- 3, MaxDepth <- 2
Unisolated == INSTANCE DatabaseHooks WITH
  Entries <- 2, Ops <- {"create", "delete", "consume"}, Transactions <- FALSE,
  Reporting <- FALSE, Stored <- 1, MaxRows <- 2, MaxWrites <- 2, MaxDepth <- 2

\* What the modules assume of their constants holds in every deployment.
ASSUME DeploymentsAssumption ==
  /\ Totp!TwoFactorAssumption /\ Counted!TwoFactorAssumption
  /\ Backup!TwoFactorAssumption /\ Sent!TwoFactorAssumption
  /\ Mailed!OtpAssumption /\ Phoned!OtpAssumption /\ Checked!OtpAssumption
  /\ Device!DeviceAssumption
  /\ Metered!ApiKeyAssumption /\ Owned!ApiKeyAssumption
  /\ Copied!ApiKeyAssumption /\ Unlimited!ApiKeyAssumption
  /\ Team!MembershipAssumption /\ Organization!MembershipAssumption
  /\ Linking!LinkingAssumption /\ Relinking!LinkingAssumption
  /\ Hooked!HooksAssumption /\ Consumed!HooksAssumption /\ Unisolated!HooksAssumption

-----------------------------------------------------------------------------
NoTwoFactor ==
  /\ opened = 0 /\ open = 0 /\ armed = 0 /\ sent = 0 /\ batches = 0 /\ ch = 0 /\ how = 0
  /\ guess = 0 /\ tries = 0 /\ otpTries = 0 /\ fails = 0 /\ spent = 0
NoPasswords == rows = 0 /\ created = 0 /\ wrong = 0 /\ accepted = 0
NoDevice == requested = 0 /\ code = 0 /\ user = 0
NoKeys == cache = 0 /\ at = 0 /\ late = 0 /\ used = 0 /\ burst = 0
NoMemberships ==
  /\ members = 0 /\ made = 0 /\ team = 0 /\ seats = 0 /\ invitation = 0 /\ who = 0 /\ n = 0
  /\ ok = 0 /\ joins = 0 /\ unreleased = 0
NoLinking ==
  /\ users = 0 /\ accounts = 0 /\ nextUser = 0 /\ nextAccount = 0 /\ key = 0 /\ target = 0
  /\ acc = 0 /\ raise = 0 /\ granted = 0
NoHooks ==
  /\ table = 0 /\ nextRow = 0 /\ fresh = 0 /\ gone = 0 /\ depth = 0 /\ pending = 0
  /\ serial = 0 /\ writes = 0 /\ attempted = 0

MCInit ==
  /\ deployment \in Deployments
  /\ \/ /\ NoPasswords /\ NoDevice /\ NoKeys /\ NoMemberships /\ NoLinking /\ NoHooks /\ op = 0
        /\ \/ deployment = "totp" /\ Totp!Init
           \/ deployment = "counted" /\ Counted!Init
           \/ deployment = "backup" /\ Backup!Init
           \/ deployment = "sent" /\ Sent!Init
     \/ /\ NoTwoFactor /\ NoDevice /\ NoKeys /\ NoMemberships /\ NoLinking /\ NoHooks
        /\ seen = 0 /\ row = 0 /\ minted = 0
        /\ \/ deployment = "mailed" /\ Mailed!Init
           \/ deployment = "phoned" /\ Phoned!Init
           \/ deployment = "checked" /\ Checked!Init
     \/ /\ NoTwoFactor /\ NoPasswords /\ NoKeys /\ NoMemberships /\ NoLinking /\ NoHooks
        /\ sends = 0 /\ hold = 0 /\ row = 0 /\ op = 0
        /\ deployment = "device" /\ Device!Init
     \/ /\ NoTwoFactor /\ NoPasswords /\ NoDevice /\ NoMemberships /\ NoLinking /\ NoHooks
        /\ sends = 0 /\ hold = 0 /\ minted = 0 /\ op = 0
        /\ \/ deployment = "metered" /\ Metered!Init
           \/ deployment = "owned" /\ Owned!Init
           \/ deployment = "copied" /\ Copied!Init
           \/ deployment = "unlimited" /\ Unlimited!Init
     \/ /\ NoTwoFactor /\ NoPasswords /\ NoDevice /\ NoKeys /\ NoLinking /\ NoHooks
        /\ now = 0 /\ seen = 0 /\ hold = 0 /\ sends = 0 /\ minted = 0
        /\ \/ deployment = "team" /\ Team!Init
           \/ deployment = "organization" /\ Organization!Init
     \/ /\ NoTwoFactor /\ NoPasswords /\ NoDevice /\ NoKeys /\ NoMemberships /\ NoHooks
        /\ now = 0 /\ seen = 0 /\ hold = 0 /\ row = 0 /\ op = 0 /\ sends = 0 /\ minted = 0
        /\ \/ deployment = "linking" /\ Linking!Init
           \/ deployment = "relinking" /\ Relinking!Init
     \/ /\ NoTwoFactor /\ NoPasswords /\ NoDevice /\ NoKeys /\ NoMemberships /\ NoLinking
        /\ now = 0 /\ seen = 0 /\ hold = 0 /\ sends = 0 /\ minted = 0
        /\ \/ deployment = "hooked" /\ Hooked!Init
           \/ deployment = "consumed" /\ Consumed!Init
           \/ deployment = "unisolated" /\ Unisolated!Init

MCNext ==
  /\ UNCHANGED deployment
  /\ \/ /\ UNCHANGED <<ofPasswords, ofDevice, ofKeys, ofMemberships, ofLinking, ofHooks, op>>
        /\ \/ deployment = "totp" /\ Totp!Next
           \/ deployment = "counted" /\ Counted!Next
           \/ deployment = "backup" /\ Backup!Next
           \/ deployment = "sent" /\ Sent!Next
     \/ /\ UNCHANGED <<ofTwoFactor, ofDevice, ofKeys, ofMemberships, ofLinking, ofHooks, seen,
                        row, minted>>
        /\ \/ deployment = "mailed" /\ Mailed!Next
           \/ deployment = "phoned" /\ Phoned!Next
           \/ deployment = "checked" /\ Checked!Next
     \/ /\ UNCHANGED <<ofTwoFactor, ofPasswords, ofKeys, ofMemberships, ofLinking, ofHooks, sends,
                        hold, row, op>>
        /\ deployment = "device" /\ Device!Next
     \/ /\ UNCHANGED <<ofTwoFactor, ofPasswords, ofDevice, ofMemberships, ofLinking, ofHooks, sends,
                        hold, minted, op>>
        /\ \/ deployment = "metered" /\ Metered!Next
           \/ deployment = "owned" /\ Owned!Next
           \/ deployment = "copied" /\ Copied!Next
           \/ deployment = "unlimited" /\ Unlimited!Next
     \/ /\ UNCHANGED <<ofTwoFactor, ofPasswords, ofDevice, ofKeys, ofLinking, ofHooks, now, seen,
                        hold, sends, minted>>
        /\ \/ deployment = "team" /\ Team!Next
           \/ deployment = "organization" /\ Organization!Next
     \/ /\ UNCHANGED <<ofTwoFactor, ofPasswords, ofDevice, ofKeys, ofMemberships, ofHooks, now, seen,
                        hold, row, op, sends, minted>>
        /\ \/ deployment = "linking" /\ Linking!Next
           \/ deployment = "relinking" /\ Relinking!Next
     \/ /\ UNCHANGED <<ofTwoFactor, ofPasswords, ofDevice, ofKeys, ofMemberships, ofLinking, now,
                        seen, hold, sends, minted>>
        /\ \/ deployment = "hooked" /\ Hooked!Next
           \/ deployment = "consumed" /\ Consumed!Next
           \/ deployment = "unisolated" /\ Unisolated!Next

MCSpec == MCInit /\ [][MCNext]_allVars

Interchangeable == Permutations(Procs)

-----------------------------------------------------------------------------
(* The properties of the modules, for each deployment.                     *)

\* Every variable has its type, in every deployment.
TypesOK ==
  CASE deployment = "totp" -> Totp!TypeOK
    [] deployment = "counted" -> Counted!TypeOK
    [] deployment = "backup" -> Backup!TypeOK
    [] deployment = "sent" -> Sent!TypeOK
    [] deployment = "mailed" -> Mailed!TypeOK
    [] deployment = "phoned" -> Phoned!TypeOK
    [] deployment = "checked" -> Checked!TypeOK
    [] deployment = "device" -> Device!TypeOK
    [] deployment = "metered" -> Metered!TypeOK
    [] deployment = "owned" -> Owned!TypeOK
    [] deployment = "copied" -> Copied!TypeOK
    [] deployment = "unlimited" -> Unlimited!TypeOK
    [] deployment = "team" -> Team!TypeOK
    [] deployment = "organization" -> Organization!TypeOK
    [] deployment = "linking" -> Linking!TypeOK
    [] deployment = "relinking" -> Relinking!TypeOK
    [] deployment = "hooked" -> Hooked!TypeOK
    [] deployment = "consumed" -> Consumed!TypeOK
    [] deployment = "unisolated" -> Unisolated!TypeOK

\* However many guesses of a second factor, or of a code that was sent, arrive at
\* the same time, and whatever fails, no more wrong ones than allowed are checked.
GuessBudget ==
  /\ deployment = "totp" => Totp!GuessBudget
  /\ deployment = "counted" => Counted!GuessBudget
  /\ deployment = "backup" => Backup!GuessBudget
  /\ deployment = "sent" => Sent!GuessBudget
  /\ deployment = "mailed" => Mailed!GuessesBounded
  /\ deployment = "phoned" => Phoned!GuessesBounded
  /\ deployment = "checked" => Checked!GuessesBounded

\* A challenge gives one session, whichever factors are tried for it at once,
\* and so does a device code, however often the device polls at once.
OneSession ==
  /\ deployment = "totp" => Totp!OneSession
  /\ deployment = "counted" => Counted!OneSession
  /\ deployment = "backup" => Backup!OneSession
  /\ deployment = "sent" => Sent!OneSession
  /\ deployment = "device" => Device!RedeemedOnce

\* A backup code that was accepted or replaced does not come back.
SpentStaysSpent == deployment = "backup" => Backup!SpentStaysSpent

\* An account takes no more wrong codes in a row than its limit and two for
\* each other call in flight, unless calls die before they record a failure.
FailureBudget ==
  /\ deployment = "totp" => Totp!FailureBudget
  /\ deployment = "counted" => Counted!FailureBudget
  /\ deployment = "backup" => Backup!FailureBudget

\* A lock that has not expired is only ended by a right code.
LockHolds == [][(deployment \in {"totp", "counted", "backup", "sent"}) => Totp!LockKept]_allVars

\* A code that was sent is accepted once by the calls that consume it.
AcceptedOnce ==
  /\ deployment = "mailed" => Mailed!AcceptedOnce
  /\ deployment = "phoned" => Phoned!AcceptedOnce
  /\ deployment = "checked" => Checked!AcceptedOnce

\* A device code that one user has taken is nobody else's afterwards.
OwnerStays == [][deployment = "device" => Device!OwnerKept]_allVars

\* No more uses of a key are taken than granted, and no more requests counted
\* in a window than allowed, however many verifications run at the same time.
WithinLimits ==
  /\ deployment = "metered" => Metered!WithinLimits
  /\ deployment = "owned" => Owned!WithinLimits
  /\ deployment = "copied" => Copied!WithinLimits
  /\ deployment = "unlimited" => Unlimited!WithinLimits

\* Two refills of a key are more than an interval apart.
RefillsApart == [][(deployment \in {"metered", "owned"}) => Metered!RefillApart]_allVars

\* A key whose row is gone is refused, even if a copy of it has come back.
GoneIsRefused ==
  deployment \in {"owned", "copied", "unlimited"} => Unlimited!GoneIsRefused

\* A team has never more members than seats, reserved ones included.
TeamCapacity ==
  /\ deployment = "team" => Team!TeamCapacity
  /\ deployment = "organization" => Organization!TeamCapacity

\* One member row at most is that of an acceptance that did not fail, whoever else
\* answers the invitation meanwhile.
JoinedOnce == deployment \in {"team", "organization"} => Team!JoinedOnce

\* An invitation is not left accepted by a call that failed, unless giving it back
\* failed as well.
NotStranded == deployment = "team" => Team!NotStranded

\* The organization keeps an owner, if calls do not overlap.
OwnerRemains == deployment = "organization" => Organization!OwnerRemains

\* An identity at a provider signs in one user, however many callbacks find, link
\* or create that user at the same time.
OneUser == deployment \in {"linking", "relinking"} => Linking!OneUser

\* Hooks after a write are run once it is committed, in order, once for a row that is
\* consumed, and never for what was rolled back.
HooksFollowCommit ==
  /\ deployment = "hooked" => Hooked!HooksFollowCommit
  /\ deployment = "consumed" => Consumed!HooksFollowCommit
  /\ deployment = "unisolated" => Unisolated!HooksFollowCommit
=============================================================================
