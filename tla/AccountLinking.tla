--------------------------- MODULE AccountLinking ---------------------------
(***************************************************************************)
(* Users and the accounts that are linked to them (packages/better-auth/   *)
(* src/oauth2, api/routes): signing in with a provider, which finds the    *)
(* user of an identity, links the identity to the user of its e-mail or    *)
(* creates a user; linking by a user who is signed in; unlinking; signing  *)
(* up with a password; and deleting a user.                                *)
(*                                                                         *)
(* An identity is what a provider knows a person by, or, for accounts with *)
(* a password, an e-mail.  The database enforces the references of the     *)
(* schema: rows of a missing user are refused, and go with the user.       *)
(***************************************************************************)
EXTENDS Naturals, FiniteSets

CONSTANTS
  Procs,            \* calls in flight
  Keys,             \* identities at providers: a provider and an account id
  Emails,           \* e-mail addresses
  Mail,             \* the e-mail a provider gives for an identity
  Proven,           \* the identities whose e-mail the provider has verified
  Trusted,          \* the identities of trusted providers
  Ops,              \* the operations callers issue, a subset of OpNames
  Transactions,     \* whether the adapter has transactions
  Updating,         \* updateAccountOnSignIn
  RequireVerified,  \* requireLocalEmailVerified
  DifferentEmails,  \* allowDifferentEmails
  UnlinkingAll,     \* allowUnlinkingAll
  MaxUsers,         \* bound: users ever created
  MaxAccounts       \* bound: accounts ever created

OpNames == {"signIn", "signUp", "verify", "link", "unlink", "delete"}

\* What the constants are assumed to be.
LinkingAssumption ==
  /\ Keys \cap Emails = {} /\ Mail \in [Keys -> Emails]
  /\ Proven \subseteq Keys /\ Trusted \subseteq Keys /\ Ops \subseteq OpNames
  /\ {Transactions, Updating, RequireVerified, DifferentEmails, UnlinkingAll} \subseteq BOOLEAN
  /\ MaxUsers \in Nat /\ MaxAccounts \in Nat

VARIABLES
  users,       \* table user
  accounts,    \* table account
  nextUser,    \* the next unused user id
  nextAccount, \* the next unused account id
  pc,          \* where each call is suspended
  key,         \* the identity of a call, in a set
  target,      \* the user a call has read or created, or 0
  acc,         \* the account a call has read, or 0
  raise,       \* whether a call has found a user who is yet to be verified
  granted      \* history: the identities sessions were opened with, and the
               \* users they were for, unless a call has begun to delete
               \* the user since

vars == <<users, accounts, nextUser, nextAccount, pc, key, target, acc, raise, granted>>
tables == <<users, accounts, nextUser, nextAccount>>

User == [id : 1 .. MaxUsers, email : Emails, verified : BOOLEAN]
Account == [id : 1 .. MaxAccounts, key : Keys \cup Emails, user : 1 .. MaxUsers]

Labels == {"idle", "match", "update", "promote", "connect", "attach", "create", "createAccount",
           "session", "unlink", "deleteAccounts", "deleteUser"}

TypeOK ==
  /\ users \subseteq User /\ accounts \subseteq Account
  /\ nextUser \in 1 .. MaxUsers + 1 /\ nextAccount \in 1 .. MaxAccounts + 1
  /\ pc \in [Procs -> Labels]
  /\ key \in [Procs -> SUBSET (Keys \cup Emails)]
  /\ target \in [Procs -> 0 .. MaxUsers] /\ acc \in [Procs -> 0 .. MaxAccounts]
  /\ raise \in [Procs -> BOOLEAN]
  /\ granted \subseteq [key : Keys, user : 1 .. MaxUsers]

-----------------------------------------------------------------------------
(* Helpers.                                                                *)

EmailOf(k) == IF k \in Keys THEN Mail[k] ELSE k

AccountsOf(u) == {a \in accounts : a.user = u}

\* findAccountOwnerByKey and findAccountByKey throw if there are several.
With(k) == {a \in accounts : a.key = k}

Goto(p, l) == pc' = [pc EXCEPT ![p] = l]

Enter(p, o, l) == o \in Ops /\ pc[p] = "idle" /\ Goto(p, l)

Finish(p) ==
  /\ Goto(p, "idle")
  /\ key' = [key EXCEPT ![p] = {}]
  /\ target' = [target EXCEPT ![p] = 0] /\ acc' = [acc EXCEPT ![p] = 0]
  /\ raise' = [raise EXCEPT ![p] = FALSE]

Init ==
  /\ users = {} /\ accounts = {} /\ nextUser = 1 /\ nextAccount = 1
  /\ pc = [p \in Procs |-> "idle"]
  /\ key = [p \in Procs |-> {}]
  /\ target = [p \in Procs |-> 0] /\ acc = [p \in Procs |-> 0]
  /\ raise = [p \in Procs |-> FALSE]
  /\ granted = {}

-----------------------------------------------------------------------------
(* handleOAuthUserInfo.                                                    *)

\* The account a is that of u: its tokens are to be updated.
Owned(p, k, u, a) ==
  /\ Goto(p, "update")
  /\ target' = [target EXCEPT ![p] = u.id]
  /\ acc' = [acc EXCEPT ![p] = a.id]
  /\ raise' = [raise EXCEPT ![p] = k \in Proven /\ ~u.verified /\ Mail[k] = u.email]

SignIn(p) ==
  /\ "signIn" \in Ops /\ pc[p] = "idle"
  /\ \E k \in Keys :
       /\ key' = [key EXCEPT ![p] = {k}]
       /\ \/ /\ Cardinality(With(k)) = 1
             /\ \E a \in With(k) : \E u \in users : u.id = a.user /\ Owned(p, k, u, a)
          \/ /\ With(k) = {}
             /\ Goto(p, "match") /\ UNCHANGED <<target, acc, raise>>
  /\ UNCHANGED <<tables, granted>>

\* The e-mail of the identity was verified, or the provider is trusted, and the
\* user has verified it too.
MayLink(k, u) == k \in Proven \cup Trusted /\ (u.verified \/ ~RequireVerified)

\* Nobody has the identity: findUserByEmail, with the accounts of the user.
Match(p) ==
  /\ pc[p] = "match"
  /\ \E k \in key[p] :
       \/ /\ \A u \in users : u.email # Mail[k]
          /\ Goto(p, "create") /\ UNCHANGED <<key, target, acc, raise>>
       \/ \E u \in users :
            /\ u.email = Mail[k]
            /\ \/ \E a \in With(k) \cap AccountsOf(u.id) : Owned(p, k, u, a) /\ key' = key
               \/ /\ With(k) \cap AccountsOf(u.id) = {} /\ MayLink(k, u)
                  /\ Goto(p, "connect")
                  /\ target' = [target EXCEPT ![p] = u.id]
                  /\ raise' = [raise EXCEPT ![p] = k \in Proven /\ ~u.verified]
                  /\ UNCHANGED <<key, acc>>
               \/ With(k) \cap AccountsOf(u.id) = {} /\ ~MayLink(k, u) /\ Finish(p)
  /\ UNCHANGED <<tables, granted>>

\* updateAccount by the id of the account: one that was unlinked is not found.
Update(p) ==
  /\ pc[p] = "update"
  /\ IF Updating /\ \A a \in accounts : a.id # acc[p]
     THEN Finish(p)
     ELSE /\ Goto(p, IF raise[p] THEN "promote" ELSE "session")
          /\ UNCHANGED <<key, target, acc, raise>>
  /\ UNCHANGED <<tables, granted>>

\* The e-mail the provider has verified is verified for the user too.
Promote(p) ==
  /\ pc[p] = "promote"
  /\ users' = {IF u.id = target[p] THEN [u EXCEPT !.verified = TRUE] ELSE u : u \in users}
  /\ Goto(p, "session")
  /\ UNCHANGED <<accounts, nextUser, nextAccount, key, target, acc, raise, granted>>

\* A row of the identity of a call, for the user u.
AddAccount(p, u) ==
  /\ nextAccount <= MaxAccounts
  /\ accounts' = accounts \cup {[id |-> nextAccount, key |-> k, user |-> u] : k \in key[p]}
  /\ nextAccount' = nextAccount + 1

\* linkAccount, of a callback that signs in.
Connect(p) ==
  /\ pc[p] = "connect"
  /\ IF \E u \in users : u.id = target[p]
     THEN /\ AddAccount(p, target[p])
          /\ Goto(p, IF raise[p] THEN "promote" ELSE "session")
          /\ UNCHANGED <<key, target, acc, raise>>
     ELSE Finish(p) /\ UNCHANGED <<accounts, nextAccount>>
  /\ UNCHANGED <<users, nextUser, granted>>

\* Mutant: two users may have one e-mail.
Anyone(e) == TRUE

\* The e-mail of a user is unique.
Free(e) == \A u \in users : u.email # e

AddUser(p) ==
  /\ nextUser <= MaxUsers
  /\ users' = users \cup
       {[id |-> nextUser, email |-> EmailOf(k), verified |-> k \in Proven] : k \in key[p]}
  /\ nextUser' = nextUser + 1

\* Whoever signs up with a password is done; a callback goes on to open a session.
Registered(p, u) ==
  IF key[p] \subseteq Emails
  THEN Finish(p)
  ELSE /\ Goto(p, "session")
       /\ target' = [target EXCEPT ![p] = u]
       /\ UNCHANGED <<key, acc, raise>>

\* In a transaction the user and the account are created together or not at all.
Create(p) ==
  /\ pc[p] = "create"
  /\ IF \E k \in key[p] : ~Free(EmailOf(k))
     THEN Finish(p) /\ UNCHANGED tables
     ELSE /\ AddUser(p)
          /\ IF Transactions
             THEN AddAccount(p, nextUser) /\ Registered(p, nextUser)
             ELSE /\ Goto(p, "createAccount")
                  /\ target' = [target EXCEPT ![p] = nextUser]
                  /\ UNCHANGED <<accounts, nextAccount, key, acc, raise>>
  /\ UNCHANGED granted

CreateAccount(p) ==
  /\ pc[p] = "createAccount"
  /\ IF \E u \in users : u.id = target[p]
     THEN AddAccount(p, target[p]) /\ Registered(p, target[p])
     ELSE Finish(p) /\ UNCHANGED <<accounts, nextAccount>>
  /\ UNCHANGED <<users, nextUser, granted>>

\* createSession, for a user who is still there.
Session(p) ==
  /\ pc[p] = "session"
  /\ granted' = granted \cup
       {[key |-> k, user |-> u.id] : k \in key[p], u \in {v \in users : v.id = target[p]}}
  /\ Finish(p)
  /\ UNCHANGED tables

-----------------------------------------------------------------------------
(* Other calls.                                                            *)

\* signUpEmail, for an e-mail nobody has.
SignUp(p) ==
  /\ Enter(p, "signUp", "create")
  /\ \E e \in Emails : Free(e) /\ key' = [key EXCEPT ![p] = {e}]
  /\ UNCHANGED <<tables, target, acc, raise, granted>>

\* verifyEmail
VerifyEmail ==
  /\ "verify" \in Ops
  /\ \E u \in users : ~u.verified /\ users' = (users \ {u}) \cup {[u EXCEPT !.verified = TRUE]}
  /\ UNCHANGED <<accounts, nextUser, nextAccount, pc, key, target, acc, raise, granted>>

\* The callback of a user who links an identity that nobody has.
LinkSocial(p) ==
  /\ Enter(p, "link", "attach")
  /\ \E u \in users, k \in Proven \cup Trusted :
       /\ Mail[k] = u.email \/ DifferentEmails
       /\ With(k) = {}
       /\ key' = [key EXCEPT ![p] = {k}]
       /\ target' = [target EXCEPT ![p] = u.id]
  /\ UNCHANGED <<tables, acc, raise, granted>>

Attach(p) ==
  /\ pc[p] = "attach"
  /\ IF \E u \in users : u.id = target[p]
     THEN AddAccount(p, target[p])
     ELSE UNCHANGED <<accounts, nextAccount>>
  /\ Finish(p)
  /\ UNCHANGED <<users, nextUser, granted>>

\* unlinkAccount: the last account of a user stays.
UnlinkAccount(p) ==
  /\ Enter(p, "unlink", "unlink")
  /\ \E a \in accounts :
       /\ Cardinality(AccountsOf(a.user)) # 1 \/ UnlinkingAll
       /\ acc' = [acc EXCEPT ![p] = a.id]
  /\ UNCHANGED <<tables, key, target, raise, granted>>

Unlink(p) ==
  /\ pc[p] = "unlink"
  /\ accounts' = {a \in accounts : a.id # acc[p]}
  /\ Finish(p)
  /\ UNCHANGED <<users, nextUser, nextAccount, granted>>

\* deleteUser: first the accounts, then the user, and what refers to it by now.
DeleteUser(p) ==
  /\ Enter(p, "delete", "deleteAccounts")
  /\ \E u \in users : target' = [target EXCEPT ![p] = u.id]
  /\ UNCHANGED <<tables, key, acc, raise, granted>>

DeleteAccounts(p) ==
  /\ pc[p] = "deleteAccounts"
  /\ accounts' = accounts \ AccountsOf(target[p])
  /\ granted' = {g \in granted : g.user # target[p]}
  /\ Goto(p, "deleteUser")
  /\ UNCHANGED <<users, nextUser, nextAccount, key, target, acc, raise>>

RemoveUser(p) ==
  /\ pc[p] = "deleteUser"
  /\ users' = {u \in users : u.id # target[p]}
  /\ accounts' = accounts \ AccountsOf(target[p])
  /\ granted' = {g \in granted : g.user # target[p]}
  /\ Finish(p)
  /\ UNCHANGED <<nextUser, nextAccount>>

\* An await rejects, a hook refuses or the server dies.
Throw(p) ==
  /\ pc[p] # "idle"
  /\ Finish(p)
  /\ UNCHANGED <<tables, granted>>

Step(p) ==
  \/ SignIn(p) \/ Match(p) \/ Update(p) \/ Promote(p) \/ Connect(p)
  \/ Create(p) \/ CreateAccount(p) \/ Session(p)
  \/ SignUp(p) \/ LinkSocial(p) \/ Attach(p) \/ UnlinkAccount(p) \/ Unlink(p)
  \/ DeleteUser(p) \/ DeleteAccounts(p) \/ RemoveUser(p) \/ Throw(p)

Next == VerifyEmail \/ \E p \in Procs : Step(p)

Spec == Init /\ [][Next]_vars

-----------------------------------------------------------------------------
(* Properties.                                                             *)

\* Whoever signs in with an identity is always the same user, however many
\* callbacks find, link or create that user at the same time, until the user
\* is deleted.
OneUser == \A g, h \in granted : g.key = h.key => g.user = h.user
=============================================================================
