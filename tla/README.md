# Verification of better-auth

better-auth is an authentication framework in TypeScript. It runs inside the
servers of its users, usually several of them, over one database and optionally
a shared key-value store ("secondary storage"). Every request is handled by
asynchronous code that suspends at each `await`, so that calls of one process
interleave at awaits, calls of different processes interleave anywhere, and any
`await` may reject. The state that matters, sessions, one-time values, counters
and memberships, lives in stores that often have no transactions.

This directory has TLA+ models of that code, TLC configurations that check them
on small instances, and proofs checked by TLAPS for every instance.

Paths below are relative to `src/packages/`; `IA` is
`better-auth/src/db/internal-adapter.ts`, `RL` is
`better-auth/src/api/rate-limiter/index.ts`.

| Files | What they are |
| --- | --- |
| `Verification.tla` | single-use verification values of the internal adapter |
| `OneTimeValues.tla` | what that store promises, as an abstract specification |
| `Sessions.tla` | session rows, cached sessions, the list of active sessions |
| `RateLimit.tla` | the request rate limiter over its three storages, with the compare-and-swap fallback of the adapters |
| `TokenFamilies.tla` | the tokens of the OAuth provider: codes, rotation, replay, revocation, sign-out |
| `TokenChain.tla` | what it promises of the refresh tokens of a code |
| `BulkJobs.tla` | the durable jobs of the SCIM plugin: queue, leases, operations, purge |
| `BulkProgress.tla` | what a client of such a job is promised |
| `TwoFactor.tla` | challenges, attempts, sent codes, backup codes and the lock of an account |
| `OneTimePasswords.tla` | codes by e-mail and to a telephone, with their wrong guesses |
| `DeviceCodes.tla` | device authorization |
| `ApiKeys.tla` | verification of API keys: uses, refills, rate limit, cached copy |
| `Memberships.tla` | invitations, members, roles and the seats of a team |
| `AccountLinking.tla` | users, and the accounts at providers that sign them in |
| `DatabaseHooks.tla` | hooks before and after writes, and the queue of a transaction |
| `MC*.tla`, `*.cfg` | instances for TLC; one run covers several deployments |
| `*Proofs.tla` | theorems and proofs |
| `PROJECT.json` | components, runs, mutants, the map from definitions to source lines, hazards, findings, theorems |

## 1. Inventory

### Modelled

**Verification values** (IA 1245-1650, `db/with-hooks.ts`
`consumeOneWithHooks`). State: rows of the `verification` table (identifier,
value, createdAt, expiresAt), the entry `verification:<identifier>` in secondary
storage, and for each process the promise chain `verificationConsumeLocks`.
Operations: create, find (with the clean-up of expired rows), consume, update,
delete, and `reserveVerificationValue`, whose row has an id derived from the
identifier. Used by password reset, OTPs, two-factor
challenges, magic links, OAuth state and authorization codes. Hard: two consumes
of one identifier, in one process or in two; stale rows of an identifier that
must not be replayed; identifiers hashed since some release, so that two keys
are tried; a delete hook that vetoes; a failure while others queue on the
promise chain; two stores. Correct when: a value is returned to one caller only;
consuming one row voids the whole identifier; nobody waits for ever; a
reservation is not lost while it is valid.

**Session store** (IA 33-205 and 440-1000, `db/with-hooks.ts`,
`api/routes/session.ts` 289-376). State: rows of the `session` table, a cached
session for each token and the list `active-sessions-<user>` in secondary
storage. Operations: createSession, findSession, updateSession, deleteSession,
deleteSessions, deleteUserSessions, refreshUserSessions, and the refresh and
clean-up in getSession. Four deployments: database only, secondary storage
only, both, and both with rows preserved after their session has ended. Hard:
every operation reads and writes several records across awaits; the list is read,
changed and written back by six of them; hooks may veto; after a commit, errors
of secondary storage are logged and swallowed. Correct when: what was revoked
stays dead; nobody loses a session to the calls of others; the hooks of a
session end run once.

**Rate limiter** (RL, `core/src/db/adapter/atomic-fallback.ts`). State: a row
(key, count, lastRequest) in the database, a Map entry in memory, or a counter
with a time to live in secondary storage. Operation: `consume`, once for each
request; over a database it creates, resets or increments the row by guarded
writes, re-reads it when a guard missed, and sweeps expired rows after a reset.
Hard: bursts at the limit, at the start and at the end of a window; a clock read
before an await and written after it; an increment made of a read and a write;
rows of rules with different windows in one table. Correct when: no burst passes
the limit; no sweep takes away a counter that still counts.

**OAuth provider tokens** (`oauth-provider/src/token.ts`, `revoke.ts`,
`introspect.ts`, `schema.ts`, and the session hooks of `oauth.ts`). State: rows
of `oauthRefreshToken` and `oauthAccessToken`, which refer to a session, and the
code that was consumed. Operations: redemption of a code, exchange of a refresh
token with its reuse interval, replay of a code or of a token, which ends the
family of the client and the user, revocation, and the end of the session.
Hard: two exchanges of one token, of which one is a retry and answered with the
stored response; a revocation or a sign-out that overlaps an exchange; ten awaits
of one exchange of which any may fail; a schema with and without enforced
references. Correct when: a token has one successor; what was ended stays so; a
retry never gets a second pair.

**SCIM bulk jobs** (`scim/src/bulk-jobs.ts`, `bulk-job-storage.ts`,
`bulk-job-worker.ts`, `bulk-job-runner.ts`). State: the row of a job with its
lease, revision and progress, its outcome rows, its payload rows, the cursor of
the queue. Operations: submission, the runner's search and dispatch, the claim,
each operation with its outcome in a transaction, release, retry, purge. Hard: a
lease that runs out under a live worker; a commit the worker does not hear of; a
crash between any two steps; a job that cannot be read or fails for ever in front
of others. Correct when: each operation takes effect once and after what it
refers to; the outcomes have no gap; every readable job is completed.

**Two-factor challenges and lockout** (`better-auth/src/plugins/two-factor`).
State: a challenge, its attempts counter and a sent code (verification values),
the backup codes, the failures and the lock of the account (columns of a row).
Hard: many guesses at once, over several challenges and factors; the counter is
consumed as a race gate and written again after a wrong code; an expired lock is
reset while failures are counted. Correct when: no more guesses than allowed are
checked; a challenge gives one session; a spent backup code stays spent; the lock
holds.

**One-time passwords** (`plugins/email-otp`, `plugins/phone-number`). State: a
verification value with a code and its wrong guesses. Hard: resending reuses or
replaces a code that is being guessed; checking without using reads and writes.
Correct when: a code is accepted once, and compared with no more wrong ones than
allowed.

**Device authorization** (`plugins/device-authorization`). State: the row of a
device code. Hard: polls overlap; users look up, approve and deny at once.
Correct when: one session per code; the code stays with the user who took it.

**API keys** (`api-key/src`). State: the row of a key (uses, refill, window,
enabled) and a cached copy. Hard: refills, windows and uses are guarded updates
that each miss in their own way; the copy is written from what was read.
Correct when: no more uses than granted, no more requests than allowed, no refill
twice, and a deleted key is refused.

**Organizations** (`plugins/organization`). State: members, the invitation, the
members of a team and the counter of its seats. Hard: acceptance releases its
claim after a failure while others accept or cancel; seats are reserved, given
back and raised to a count that may be stale. Correct when: a team has no more
members than seats; an invitation is accepted once and never left accepted in
vain; an owner remains.

**Account linking** (`better-auth/src/oauth2/link-account.ts`, `api/routes/callback.ts`,
`account.ts`, `sign-up.ts`). State: user rows with their e-mail and whether it is
verified, account rows with the identity at a provider. Operations: signing in with
an identity (of a user who has it, of a user with its e-mail, of a new user), linking
by a signed-in user, unlinking, sign-up, verification, deletion. Hard: callbacks of
one identity find, link and create at the same time; only the e-mail is unique, the
identity is not; a user disappears between two awaits. Correct when: an identity
signs in one user.

**Transactions and queued hooks** (`core/src/context/transaction.ts`,
`better-auth/src/db/with-hooks.ts`). State: for each call whether it is inside
`runWithTransaction`, and the queue of hooks that wait for its commit. Operations:
opening a transaction or joining one, committing, failing; creating, updating,
deleting and consuming a row with the hooks before and after it. Hard: a joined
transaction fails and its caller goes on; the adapter has transactions or only says
so; a hook after the commit throws while others wait behind it, and the caller asked
for reports of that or not; two calls consume one row. Correct when: hooks run for
what was committed and for nothing else, in order, and before the call goes on; a row
that several consume runs the hooks of one.

### Known to the models through assumptions

**What a transaction isolates** (`core/src/db/adapter/factory.ts`,
`memory-adapter/src/memory-adapter.ts`). What
`adapter.transaction` gives differs by adapter: nothing at all, row locks, or a copy
that is merged back (the in-memory adapter). `Verification` takes it as the
constant `Isolation`; `BulkJobs` needs transactions, as the plugin does;
`Memberships` runs without; `DatabaseHooks` has row locks or nothing. The
`onError` of a queued hook is in `Sessions` as the fault "swallow".

**Redis and other stores** (`redis-storage/src/redis-storage.ts`, the database
adapters). get, set with a time to live, getAndDelete and increment are each one
step; an expired entry disappears when the clock ticks. consumeOne and
incrementOne are one step each, except in `RateLimit`, which has the fallback.

### Not modelled

| Component | State and operations | Why not |
| --- | --- | --- |
| Users and accounts, beyond account linking | changes of passwords and e-mails | sequences over the stores above; planned |
| Session cookie cache (`cookies/index.ts`) | a signed copy of a session | outlives a revocation until its maxAge by design |
| Client refresh (`client/session-refresh.ts`) | timers, focus and broadcast events | one thread, many timers; later |
| Stripe (`stripe/src`) | subscriptions, webhooks out of order | the order is decided by a service outside; later |
| OAuth provider authorization, consent, logout; SCIM provisioning; admin; magic link, one-time token, SIWE, anonymous | request validation and data mapping around the state above | little state of their own |
| SSO, database adapters, Redis client, command line, telemetry, integrations | signatures and XML, query translation, code generation, glue | nothing a finite model would tell |

`PROJECT.json` lists the source files of each, and the hazards at their lines.

### How the parts interact

Every request passes the rate limiter before its endpoint. Endpoints and plugins
work through the internal adapter: they create and consume verification values
(a password reset creates one, sends it and consumes it when it comes back) and
then create, refresh or revoke sessions. The internal adapter calls the database
through `with-hooks.ts` (hooks may veto a write) and the adapter factory (which
supplies atomic fallbacks), inside `runWithTransaction`; writes to secondary
storage that depend on a commit are queued until after it. The components share
stores and no memory other than the promise chain of a process, the memory
store of the rate limiter, and the closures of calls in flight. So the modules
are separate, and what one relies on in another is a parameter or a single step:
`TwoFactor`, `OneTimePasswords` and `TokenFamilies` consume verification values in
one step and once, which is what `Verification` is shown to promise, and
`TokenFamilies` has the one bit of the session store it depends on.

## 2. The models

In all modules a process is one call in flight. A step of a process is the code
from one `await` to the next, so that `pc` names the await at which a call is
suspended, and its other local variables are what its closure holds over that
await. Time is a bounded clock. Strings, hashes and payloads are not modelled: a
value is its number, and what the properties need to know about it.

### Verification and OneTimeValues

One identifier is modelled, since calls on different ones share only the clean-up of
expired rows. `rows` is the table, `cache` secondary storage, `tail` and `prev` the
promise chain: `tail[s][k]` is the newest promise of a server for a key, `prev[p]`
the one a call waits for. A row has a number, by which the history knows it, and the
primary key the code gives it: all reservations of an identifier have the same. A
database refuses a second row with it; the in-memory adapter does not, and keeps
both (`Isolation = "snapshot"`).

| Code | Actions |
| --- | --- |
| createVerificationValue | `CreateRow`, `CreateCached`, `Mirror` |
| reserveVerificationValue | `Reserve`, `Mirror` |
| findVerificationValue | `FindAndCleanUp` |
| consumeVerificationValue over a database | `Acquire`, `ReadLatest`, `ConsumeOne`, `SweepStale`, `Release` for each of the stored and the plain identifier, then `Uncache`, `Decide`; with the in-memory adapter `ConsumeSnapshot` commits all at once, and takes the first row with the id of the newest (`FirstWithKeyOf`) |
| consumeVerificationValue in secondary storage | `GetAndDelete` for each identifier, then `Uncache`, `Decide` |
| updateVerificationByIdentifier | `UpdateRead`, `UpdateWrite`, `UpdateRows` |
| deleteVerificationByIdentifier | `Delete`, `DeleteRows` |
| a delete hook returns false, an await rejects, a server dies, time passes | `Veto`, `Fail`, `Crash`, `Tick` |

`OneTimeValues` is the promise to the callers: values are issued in order, a live
one is returned to one caller and is gone, any may become void, none comes back.
`Verification` implements it under the mapping `Live` (in a store that consumes
look at, or in the hands of a consume that took it and has not answered yet).

### Sessions

The sessions are those of one user: `rows`, `cache` and `list` are the three
records, and a session is its token and its expiry. `sel` is what a call selects
(the where clause), `got` the list it read, `hold` the sessions in its hands.
`aim`, `dead`, `due` and `fired` are history: what a call in flight is meant to
end, what successful calls were meant to end, the expiry owners were told, how
often delete hooks ran.

| Code | Actions |
| --- | --- |
| createSession and its mirror | `Create`, `ListForCreate`, `AddToList`, `AddToken`; `MirrorLost` when the mirror fails |
| updateSession, and the refresh of getSession | `Update`, `GetToken`, `SetToken`, `Relist`, `SetRelist`, `UpdateRow` |
| refreshUserSessions | `Refresh`, `Scan`, `WriteBack`, `Refreshed` |
| deleteSession; clean-up of getSession | `Delete` or `CleanUp`, `Unlist`, `ReadList`, `SetList`, `DropToken`, `FindRows`, `EndRows` |
| deleteSessions | `DeleteMany`, `DropSome`, `DroppedSome`, `FindRows`, `EndRows` |
| deleteUserSessions | `RevokeAll`, `FindRows`, `EndRows`, `DropOne`, `RereadList`, `TrimList` |
| deleteWithHooks and deleteManyWithHooks | `FindRows` (`FindRowsLost` when the read is swallowed), `EndRows`, `Vetoed` |
| a rejected await; a queued deletion that fails; time | `Throw`, `RevokeLost`, `Tick` |

### RateLimit

A key stands for a client and a path and has one rule. `row` is what the storage
has for a key in each of the three backends (count 0: nothing), `clock[p]` the
`now` of a request, `seen` the row it read, `snap` and `tries` the state of the
compare-and-swap loop. `run[k]` and `last[k]` are history: how many requests were
let through since a window without any, and when the last one was.

| Code | Actions |
| --- | --- |
| onRequestRateLimit, readRow | `Request`, `Read`, `Decide` |
| no row | `Create`, `CreateFails`, `Recheck` |
| reset and increment by incrementOne | `Increment` (native), or `Snapshot` and `Swap` (fallback) |
| guard missed | `Again` for a reset, `Reread` for an increment |
| deleteExpiredRows | `Sweep` |
| memory, secondary storage | `ConsumeInMemory`, `ConsumeInSecondary`, one step each |
| a rejected await, time | `Fail`, `Tick` |

`Lag` bounds the ticks between a request's reading the clock and its last write.
The code does not bound it, but its promise depends on it: with a `now` that is
older than a window, a write moves the window into the past. `LimitHolds` is
therefore stated for windows shorter by `Lag`, and TLC refutes it for whole
windows.

### TokenFamilies and TokenChain

The tokens are those of one client, one user and one session. An access token and
the refresh token issued with it have one number. `session`, `used`, `refresh` and
`access` are the stores; `row`, `scope`, `iat`, `mint`, `ids` and `accIds` are what
a closure holds; `told`, `aim` and `dead` are history: the answers given, what a
call is meant to end, what successful calls were meant to end.

| Code | Actions |
| --- | --- |
| authorization code grant | `Redeem`, `CheckSession`, then as below; `ReplayAccess`, `ReplayRefresh` (`ReplayRefreshLost`) for a code brought again |
| refresh token grant | `Refresh`, then `JudgeLive`, `JudgeRetry` or `JudgeReplay` |
| createUserTokens | `Rotate` (compare and swap), `MintRefresh`, `MintAccess`, `StoreReply` |
| invalidateRefreshFamily | `ListFamily`, `EndAccess`, `EndFamily` |
| revocation endpoint | `Revoke`, `RevokeSwap`, `RevokeAccess`; `RevokeOpaque` |
| end of a session | `SignOut`, `PlanAccess`, `PlanRefresh` in either order, `PlanLost`, `EndSession`, `ApplyAccess`, `ApplyRefresh` |
| a rejected await, time | `Throw`, `Tick` |

`TokenChain` is the promise: the chain of a code is unused, held by one token that
can be exchanged, in the one exchange under way, or ended for good. The mapping
`Turn` counts heads and exchanges, so that a fork would be no state of it.

### BulkJobs and BulkProgress

`row`, `outcomes`, `blobs` and `cursor` are the tables; the holder and the rest of a
lease are in the row. The code compares revisions for equality alone, so instead of
a number the model keeps who knows the latest one: `latest`. Whoever writes a row
drops the others from it. `known` and `doing` are the closure of a worker; `log` is
history, what took effect.

| Code | Actions |
| --- | --- |
| enqueueBulkJob | `Enqueue` |
| runner: nextSCIMBulkJob, dispatch | `Find`, `Checkpoint`, `Dispatch`, `NoToken` |
| processSCIMBulkJob | `Process`, `Claim`, `Acquire`, `Load`, `Renew`, `Begin`, `MeetRetryable`, `Commit`, `CommitLost`, `Stop`, `Release` |
| purgeBulkJob | `Purge`, `PurgeCommit` |
| a rejected await, a killed invocation, time | `Throw`, `Crash`, `Tick` |

An operation and its outcome are one transaction; its effect is at the guarded
update that ends it. The unique index on outcomes is a second barrier that the
model does without. Polling and listing are reads. `BulkProgress` says what log
of operations a client may see.

### Plugins, and accounts

In `TwoFactor` the account is that of one user, with several challenges; `tries`,
`otpTries`, `fails`, `spent` and `minted` are history. In `OneTimePasswords` one
identifier is modelled, whose rows carry the order of their creation. `DeviceCodes` has
one device code, `ApiKeys` one key with its row and its copy, `Memberships` one
organization with one team and one invitation. In `AccountLinking` an account is the
identity it stands for and the user it belongs to, and `granted` is history: which
user an identity opened sessions for. In `DatabaseHooks` `table` has the rows
with the writes of open transactions, `fresh` and `gone` are what a rollback takes
back, `pending` is the queue; `writes` and `attempted` are history: every write and
how its transaction ended, and every hook that was run.

| Code | Actions |
| --- | --- |
| two-factor: sign-in hook, sending a code | `SignIn`, `Find`, `Send`, `CreateOtp` |
| verifyTOTP, verifyTwoFactorOTP, verifyBackupCode | `Verify`, `Load`, `ClearLock`, `Begin`, `Burn`, `BeginOtp`, `CheckRight`, `CheckWrong`, `CheckFails`, `Restore`, `Rearm`, `CountFailure`, `SetLock`, `Swap`, `Reset`, `Valid` |
| generateBackupCodes | `Regenerate` |
| resolveOTP, tryReuseOTP | `Send`, `FindReusable`, `Extend`, `Create`, `CreateFails`, `Clear` |
| atomicVerifyOTP; checkVerificationOTP | `Use`, `Consume`, `Right`, `Wrong`, `Rearm`; `Check`, `Update`, `Delete` |
| deviceCode, deviceVerify, deviceApprove, deviceDeny | `Request`, `Verify`, `Claim`, `Decide`, `Write` |
| redeemDeviceCode | `Poll`, `Stamp`, `Delete`, `Redeem`, `Mint` |
| getApiKey, validateApiKey | `Verify`, `Lookup`, `Read`, `Populate`, `Judge`, `Evict`, `Remove` |
| consumeRemaining, consumeRateLimit | `RefillKey`, `Take`, `Rate`, `Open`, `Increment`, `Reread`, `Stamp`, `Publish` |
| updateApiKey, deleteApiKey | `Update`, `WriteUpdate`, `Delete`, `Remove` |
| acceptInvitation | `Accept`, `Claim`, `Join`, `Seat` and what follows, `Activate`, `Release` |
| rejectInvitation, cancelInvitation | `Reject`, `Cancel`, `Close` |
| addMember, removeMember, leaveOrganization, updateMemberRole | `Add`, `Create`, `Remove`, `Leave`, `Delete`, `Unseat`, `Free`, `SetRole`, `WriteRole` |
| addTeamMemberWithLimit, removeTeamMember | `AddTeam`, `Seat`, `Count`, `Sync`, `Reserve`, `Enrol`, `EnrolFails`, `Unreserve`, `RemoveTeam` |
| handleOAuthUserInfo | `SignIn`, then `Update` for an owned identity, `Match` for another, `Connect`, `Promote`, `Create`, `CreateAccount`, `Session` |
| callback of a user who links; unlinkAccount | `LinkSocial`, `Attach`; `UnlinkAccount`, `Unlink` |
| signUpEmail, verifyEmail, deleteUser | `SignUp`, `VerifyEmail`, `DeleteUser`, `DeleteAccounts`, `RemoveUser` |
| runWithTransaction | `Begin`, `Leave`, `Commit`, `Rollback` |
| createWithHooks, updateWithHooks, deleteWithHooks, consumeOneWithHooks | `Before`, `Vetoed`, `CreateRow`, `UpdateRow`, `DeleteRow`, `ConsumeRow` |
| queueAfterTransactionHook; the hooks after the commit | `HookRuns`, `HookThrows`, `HooksEnd` |
| a rejected await, a crash, time | `Throw`, `Crash`, `Tick` |

## 3. What is checked

An MC module extends its specification and adds instances of it with other
constants: `deployment` is chosen initially and never changes, so one run
explores the deployment its .cfg gives and, beside it, those in `Beside`.
`MCPlugins` has nineteen deployments of seven modules; the variables of the others
stay 0. Deadlock is checked in every run but `plugins`: in the others a new call, a
refused one, a failure or a tick is always possible, while there all challenges,
codes and uses may be spent and the bounded clock at its end.

| Run | Deployments | Properties | Distinct states |
| --- | --- | --- | --- |
| `verification_replay` | 3 calls on 2 servers, transactions that lock the rows read; 3 calls on 1 server, no transactions; 3 values | `StaleNeverReplayed`, `LockExclusion` | 506,370 |
| `verification_snapshot` | 3 calls on 1 server that create, reserve and consume, in-memory adapter, hashed identifiers; secondary storage alone; 2 values | `SingleUse`, `CallsEnd` | 96,456 |
| `verification_cached` | 2 calls on 2 servers, both stores, hashed identifiers with a legacy row, no transactions, all six operations; 2 values | `TypeOK`, `RefinesOneTime`, `ReservationHolds` | 1,518,420 |
| `verification_legacy_replay` | 3 calls, locking, hashed identifiers | `StaleNeverReplayed` violated | |
| `sessions_revocation` | database: 2 concurrent calls, throw and veto; both stores: 2 concurrent sign-ins and sign-outs; preserved rows, and both stores with every fault: every operation, one call at a time | `TypeOK`, `EndedStaysDead`, `FoundUntilRevoked`, `HooksRunOncePreserved` | 2,016,076 |
| `sessions_refresh_race` | secondary storage: refresh against sign-out | `RevokedStaysDead` violated | |
| `rate_limit` | 2 requests, database by fallback and by native increment; memory with room for one entry; secondary storage | `TypeOK`, `LimitHolds`, `OnlyExpiredSwept` | 2,274,496 |
| `rate_limit_sweep` | a rule longer than every static one | `OnlyExpiredSwept` violated | |
| `token_families` | 2 calls: two codes; one code with revocation; any await fails; strict replay detection with JWTs; sign-out of clients that drop offline_access; no enforced references | `TypeOK`, `EndedStaysDead`, `OneAnswer`, `RefinesChain` | 1,539,399 |
| `token_logout` | sign-out, enforced references, a failing read of the plan or update | `EndedStaysDead` violated | |
| `bulk_jobs` | 2 workers that outlive their lease on a job of 3 operations, with purge; 2 runners on a queue of 2 jobs of which one is unreadable | `TypeOK`, `OutcomesNumbered`, `RefinesProgress`, `LeaseRespected`, `QueueServed` | 104,828 |
| `plugins` | nineteen, in `MCPlugins`, of two concurrent calls, or of one call at a time with every operation (`checked`, `organization`, `relinking`) | `TypesOK`, `GuessBudget`, `OneSession`, `SpentStaysSpent`, `FailureBudget`, `LockHolds`, `AcceptedOnce`, `OwnerStays`, `WithinLimits`, `RefillsApart`, `GoneIsRefused`, `TeamCapacity`, `JoinedOnce`, `NotStranded`, `OwnerRemains`, `OneUser`, `HooksFollowCommit` | 2,812,296 |

**Bounds, and why they are enough.** Verification: three calls are the shortest
queue on a promise chain with a head, a waiter and a newcomer that finds the
entry dropped; three values are one to consume, one stale beside it and one
created meanwhile. The clock reaches 2 with lifetimes of 0 and 1, so that values
are met before, at and after their expiry. Sessions: two sessions are one to end
and one to keep, lifetimes 1 and 2 with `ExpiresIn` 2 let a refresh extend one;
the clock goes to 3 where calls overlap and to 4 where they do not. Rate limit:
two requests and two keys, windows of 1 and 3 ticks and limits of 1 and 2, so that
a request of the short rule sweeps over rows of the long one; two attempts of the
fallback instead of five reach both the retry and the failure; the clock reaches 5,
past a long window after its first reset. Tokens: two calls are an exchange and its
retry, or an exchange and what ends it; three pairs of tokens are a code, its
successor and a second chain, and the clock passes the reuse interval and the
lifetimes. Bulk jobs: three operations of which the first refers to the second and
two errors allowed, so that order, failure and early completion differ; a lease of
two ticks that a worker may sit out; two jobs and two queues, so that the cursor
passes a job and comes around. Plugins: two guesses allowed for two callers who
guess at once, two challenges so that failures add up over them, windows and refills
of one tick under a clock of three to five, one or two seats for two who want the
last, two identities with one e-mail, and two with different ones; two hooks for each
write, two or three writes, and transactions inside transactions, so that a hook
that throws has others of its own write and of the next behind it. The database is
assumed to enforce the unique e-mail and the references of the schema, and a provider
to give one e-mail for an identity. The theorems of section 4 lift the
bounds for what they cover.

**Fairness.** Two runs check a liveness property. In `verification_snapshot`
`FairSpec` has weak fairness of `Continue(p)` for each call: a suspended call
whose await has settled is resumed by its event loop, and the stores answer.
Nobody has to call, fail, crash, or let time pass. A call that waits behind
another on the promise chain is not itself continuable until it is woken, so
`CallsEnd` says that whoever holds the chain wakes it, also when it throws or is
vetoed. In `bulk_jobs` `QueueServed` says that readable jobs are completed. Its
fairness is that runners are started again and again (the plugin has to be
called by a scheduler: bulk-jobs.mdx:50 of its documentation), that awaits settle,
that time passes, that a worker whose budget may stop it before an operation does
not always stop before the first (strong fairness of `Renew`, as `Stop` is always
possible too), and that faults end. Leases that outlive calls are assumed only here
(bulk-job-worker.ts:27 and bulk-jobs.mdx:81): all safety properties are checked with
workers that are paused for longer. The MC modules state the same fairness for each
deployment. Nothing else claims liveness.

### What the code does differently from what it says

* **`verification_legacy_replay`** (IA 1486). With hashed identifiers, consume
  stops at the first identifier that yields a row, and a plain row from before
  hashing stays in the database to be consumed next. The comment of consume says
  that consuming one row invalidates the whole identifier; the secondary-only
  branch does delete both.
* **`sessions_refresh_race`** (IA 771). updateSession reads the cached entry and
  sets it in a later await. A refresh that overlaps a sign-out writes the revoked
  session back, in secondary-only mode for its whole lifetime.
* **`rate_limit_sweep`** (RL 120). `longestObservedWindow` is meant to remember
  windows that functions resolved, but lives in a closure that is made anew for
  each request. A reset under a short rule sweeps rows of a longer dynamic rule
  away while their window runs. The one test of it resolves the long window in
  the same request that sweeps.
* **`token_logout`** (introspect.ts 329). Deleting a session sets the session id of
  its tokens to null where references are enforced, and introspection asks for the
  session only if there is an id. So a list of tokens that cannot be read, or a
  revocation update that is rejected, both only logged, leaves the access token
  active, though logout.ts:110 says that a missed write cannot keep a session-bound
  token alive.

### Known limits of the code that no run lists

These came up as counterexamples while the models were written. They are outside
the deployments above, or behaviour that nothing in the repository promises to
exclude.

* Verification, two servers and no transactions: between the two deletes of a
  consume another server can read and consume the stale row.
  (`StaleNeverReplayed` with `Isolation = "none"` and two servers.)
* Verification, secondary storage only: an update writes back a value that a
  consume took meanwhile. (`SingleUse` with "update" in `Ops`.)
* Verification, in-memory adapter: it enforces no unique ids, so that two calls of
  reserveVerificationValue for one identifier may both be told that it is theirs.
* Sessions, preserved rows and concurrent calls: an update in flight revives a
  row that a delete ended; two deletes at the same time both run the hooks.
* Sessions, secondary storage only: a session created during "revoke all" may
  not be in the list that was read and survives; errors while the entries are
  deleted are swallowed and the call reports success.
* Sessions, database: when the read before the delete hooks fails the error is
  swallowed and the delete does not happen, though the comment at
  `with-hooks.ts` 275 says that it proceeds (`RevokedStaysDead` with "swallow").
* Sessions: clean-up by getSession of a session that another call is extending
  deletes it, so the concurrent deployment has no "cleanUp"; refreshUserSessions
  writes back an expiry it read before; an interrupted refresh leaves the cached
  entry and the list with different expiries; with preserved rows a refresh
  across the expiry reports success though the cached entry is gone.
* Rate limit: after a missed increment the row is read again but the count is
  not looked at, so a request can be refused below the limit; with a limit of 0
  the database and the memory let the first request through; the memory store
  forgets live counters at its cap, and may hold one entry more than the cap;
  secondary storage has a fixed window, so twice the limit fits around its end;
  `X-Retry-After` may be zero or negative.
* Sessions, both stores: an update that throws between the entry and the list
  leaves a cached session that is not listed, and "revoke all" misses it.
* Tokens: a token minted between the listing and the deletion of the session
  survives a sign-out; so does a rotation in flight when a family is invalidated,
  and two invalidations at once can miss rows without enforced references (the
  code has a TODO); a crash between the compare and swap and the new row loses the
  chain; an access token without a refresh token is not found by a revocation of the
  token it was narrowed from; bringing a refresh token that sign-out revoked ends
  the family of the client and the user.
* One-time passwords: concurrent calls of checkVerificationOTP count as one guess,
  and one in flight while the code is used brings it back (`GuessesBounded` of
  `OneTimePasswords`, which `GuessBudget` includes, and `AcceptedOnce` with concurrent
  "check"); a wrong guess makes an older code the newest again after a resend, also for
  two-factor codes; removing an expired value may remove one that was just sent.
* Two-factor: resending a code gives it a new budget, and the lock of the account is
  the cap; errors after the gate leave an attempt consumed; a success wipes a lock
  that was set meanwhile.
* Device codes: approve and deny do not look at the row again, so both may report
  success and the last one wins; when creating the session fails the code is lost.
* API keys: with secondary storage alone nothing is atomic (FIXME at
  verify-api-key.ts 380); a stale copy lets a disabled key be accepted once, and a
  stale read deletes a key that was just topped up; exactly at the end of a window
  neither increment nor reset applies. (Not modelled: where rate limiting is switched
  off, and not only without a limit, a verification also stamps lastRequest, which
  nothing reads then.)
* Organizations, without transactions: reject and cancel may overwrite an
  acceptance; a call that fails after the row of the team was written leaves the
  user in the team and not in the organization; a call that fails after it made the
  member leaves it there, so that a retry makes a second one (`JoinedOnce` counts
  only members whose call did not fail), and so may accept beside add; when the
  update that gives a claim back after a failure is rejected too, the invitation says
  accepted for good (crud-invites.ts:740 says that a claim is released "instead of
  being stranded"); two owners may leave at once, and the limit of members is counted
  before the write; the seat counter stays too high after a crash.
* Account linking: there is no unique index on the provider and the account id. Two
  callbacks that link one identity at once leave two rows, after which
  findAccountOwnerByKey throws and nobody signs in with it until one is removed; with
  allowDifferentEmails a linking callback beside a sign-in lets one identity open
  sessions of two users (`OneUser` in `relinking` with two calls). Two unlinks at once
  remove the last account of a user, which users-accounts.mdx:635 of the
  documentation says is prevented. Without transactions a failure leaves a user
  without an account.
* Hooks: those after an update run even if no row was found, and those after a
  delete run for both of two calls that read the row; without transactions a call
  that fails keeps its writes and drops their hooks; a hook after the commit
  may see rows that later calls of the transaction, or others, have changed.

## 4. What is proved

| Theorem | Assumes | Says |
| --- | --- | --- |
| `VerificationProofs!TypeCorrect` | `ConfigAssumption` | `Spec => []TypeOK` |
| `VerificationProofs!SingleUseCorrect` | `Sound` | `Spec => []SingleUse` |
| `VerificationProofs!SingleUseOneServer` | `OneLock` | `Spec => []SingleUse` |
| `VerificationProofs!RefinesOneTimeCorrect` | `Sound` | `Spec => RefinesOneTime` |
| `VerificationProofs!RefinesOneTimeInMemory` | `NothingDeleted` | `Spec => RefinesOneTime` |
| `VerificationProofs!LockExclusionCorrect` | `ConfigAssumption` | `Spec => []LockExclusion` |
| `VerificationProofs!StaleNeverReplayedCorrect` | `Locked` | `Spec => []StaleNeverReplayed` |
| `VerificationProofs!StaleNeverReplayedOneServer` | `OneLock`, one key for the identifier | `Spec => []StaleNeverReplayed` |
| `VerificationProofs!ReservationHoldsCorrect` | `ConfigAssumption` | `Spec => ReservationHolds` |
| `SessionsProofs!TypeCorrect` | `SessionsAssumption` | `Spec => []TypeOK` |
| `SessionsProofs!RevokedStaysDeadCorrect` | `DatabaseOnly` | `Spec => []RevokedStaysDead` |
| `SessionsProofs!LiveUntilRevokedCorrect` | `NothingCleanedUp` | `Spec => []LiveUntilRevoked` |
| `SessionsProofs!SignOutIsFinal` | `SignInsAndOuts` | `Spec => []RevokedStaysDead` |
| `SessionsProofs!FoundInBothStores` | `BothStores` | `Spec => []LiveUntilRevoked` |
| `SessionsProofs!HooksRunOnceCorrect` | `SerialPreserved` | `Spec => []HooksRunOnce` |
| `SessionsProofs!PreservedStayDead` | `SerialPreserved` | `Spec => []RevokedStaysDead` |
| `RateLimitProofs!TypeCorrect` | `RateLimitAssumption` | `Spec => []TypeOK` |
| `RateLimitProofs!LimitHoldsCorrect` | `Static` | `Spec => []LimitHolds` |
| `RateLimitProofs!LimitHoldsInSecondary` | `Counters` | `Spec => []LimitHolds` |
| `RateLimitProofs!OnlyExpiredSweptCorrect` | `Static` | `Spec => OnlyExpiredSwept` |
| `BulkJobsProofs!TypeCorrect` | `BulkAssumption` | `Spec => []TypeOK` |
| `BulkJobsProofs!OutcomesNumberedCorrect` | `BulkAssumption` | `Spec => []OutcomesNumbered` |
| `BulkJobsProofs!RefinesProgressCorrect` | `BulkAssumption` | `Spec => RefinesProgress` |
| `BulkJobsProofs!LeaseRespectedCorrect` | `BulkAssumption` | `Spec => LeaseRespected` |
| `TokenFamiliesProofs!TypeCorrect` | finitely many calls | `Spec => []TypeOK` |
| `TokenFamiliesProofs!RefinesChainCorrect` | `TokensAssumption` | `Spec => RefinesChain` |
| `TokenFamiliesProofs!OneAnswerCorrect` | `TokensAssumption` | `Spec => []OneAnswer` |
| `TokenFamiliesProofs!EndedStaysDeadCorrect` | `Heeded` | `Spec => []EndedStaysDead` |
| `DatabaseHooksProofs!TypeCorrect` | `HooksAssumption` | `Spec => []TypeOK` |
| `DatabaseHooksProofs!HooksFollowCommitCorrect` | `HooksAssumption` | `Spec => []HooksFollowCommit` |
| `TwoFactorProofs!TypeCorrect` | `TwoFactorAssumption` | `Spec => []TypeOK` |
| `TwoFactorProofs!GuessBudgetCorrect` | `TwoFactorAssumption` | `Spec => []GuessBudget` |
| `TwoFactorProofs!OneSessionCorrect` | `TwoFactorAssumption` | `Spec => []OneSession` |
| `TwoFactorProofs!SpentStaysSpentCorrect` | `TwoFactorAssumption` | `Spec => []SpentStaysSpent` |
| `TwoFactorProofs!LockHoldsCorrect` | `TwoFactorAssumption` | `Spec => LockHolds` |
| `TwoFactorProofs!FailureBudgetCorrect` | finitely many calls, no "throw" | `Spec => []FailureBudget` |
| `PluginsProofs!DeviceTypeCorrect` | `DeviceAssumption` | `Device!Spec => []Device!TypeOK` |
| `PluginsProofs!RedeemedOnceCorrect` | `DeviceAssumption` | `Device!Spec => []Device!RedeemedOnce` |
| `PluginsProofs!OwnerStaysCorrect` | `DeviceAssumption` | `Device!Spec => Device!OwnerStays` |
| `PluginsProofs!KeyTypeCorrect` | `ApiKeyAssumption` | `Key!Spec => []Key!TypeOK` |
| `PluginsProofs!WithinLimitsCorrect` | `ApiKeyAssumption` | `Key!Spec => []Key!WithinLimits` |
| `PluginsProofs!RefillsApartCorrect` | `ApiKeyAssumption` | `Key!Spec => Key!RefillsApart` |
| `PluginsProofs!GoneIsRefusedCorrect` | `ApiKeyAssumption` | `Key!Spec => []Key!GoneIsRefused` |
| `PluginsProofs!MemberTypeCorrect` | `MembershipAssumption` | `Spec => []TypeOK` of `Memberships` |
| `PluginsProofs!TeamCapacityCorrect` | finitely many calls | `Spec => []TeamCapacity` |
| `PluginsProofs!JoinedOnceCorrect` | `MembershipAssumption` | `Spec => []JoinedOnce` |
| `PluginsProofs!NotStrandedCorrect` | no "crash" | `Spec => []NotStranded` |
| `PluginsProofs!OwnerRemainsCorrect` | calls do not overlap (`OneCall`) | `Spec => []OwnerRemains` |
| `PluginsProofs!OtpTypeCorrect` | `OtpAssumption` | `Otp!Spec => []Otp!TypeOK` |
| `PluginsProofs!AcceptedOnceCorrect` | `NotChecked` | `Otp!Spec => []Otp!AcceptedOnce` |
| `PluginsProofs!AcceptedOnceAlone` | `OneCall` | `Otp!Spec => []Otp!AcceptedOnce` |
| `PluginsProofs!GuessesBoundedCorrect` | `NotChecked` | `Otp!Spec => []Otp!GuessesBounded` |
| `PluginsProofs!GuessesBoundedAlone` | `OneCall`, no "throw" | `Otp!Spec => []Otp!GuessesBounded` |
| `PluginsProofs!LinkTypeCorrect` | `LinkingAssumption` | `Link!Spec => []Link!TypeOK` |
| `PluginsProofs!OneUserCorrect` | `OwnMailOnly` | `Link!Spec => []Link!OneUser` |
| `PluginsProofs!OneUserAlone` | `OneCall`, no "unlink" | `Link!Spec => []Link!OneUser` |

They hold for any number of calls, servers, values, sessions, keys, tokens, jobs,
workers, hooks, users, uses, codes and ticks. `PluginsProofs` is about five
components: it extends `Memberships` and has instances `Device`, `Key`, `Otp` and
`Link` of `DeviceCodes`, `ApiKeys`, `OneTimePasswords` and `AccountLinking`, each
with constants of its own.

**Verification.** `Sound` excludes two deployments: transactions on a copy (there
single use rests on the promise chain, and is another theorem, below) and updates
without a database (there it is false). `SingleUse` is not inductive: that a value
in the table was not returned before must be known. The invariant `IInv` says: rows
and entries are unique (`RowsUnique`: their numbers, and their primary keys but in
the in-memory adapter; `CacheUnique`); only issued numbers are in use
(`IssuedOnly`); a value is in a store, in one call's hands, or gone, and never in
two hands (`TakenOnce`); what was returned is gone from the stores (`ReturnedGone`);
what a suspended call holds or has read fits its `pc` (`Closures`); without a
database there is no table (`NoTable`). The refinement follows from it: a step that
changes `uses` is a `Use`, a creation is an `Issue`, all others are `Void` or
stutter.

That the lock excludes is a fact about a list of promises kept by its members.
`LineInv` says that the map entry of a key is the last call in a line (`Tails`); that
each call there waits for one in the same line or for nobody, no two for the same, and
none for the last (`Links`), so that one call at most is not waiting; that only calls
in a line wait (`Waiters`); and that they do not wait in a circle (`NoCircle`). The
last part is needed when the only head is also the last one: it must be alone, or
the entry that it drops would be that of a line which goes on.

`Locked` is a database whose transactions lock the rows and an identifier under one
key; under two keys `StaleNeverReplayed` is false, as `verification_legacy_replay`
shows. `StaleInv` adds to `IInv` that what stood beside a value when it was taken out
is neither stored nor in any hands nor returned (`StaleGone`).

`OneLock` is a database whose calls all run on one server: they share the lock map,
and `LockExclusion` does what locked rows do elsewhere (`LockedInv`). Most steps take
no row out of the table, and all that is needed of them is stated once (`Calm`,
`CalmStep`). What is left is the call that consumes. On a copy of the table (the
in-memory adapter), the rows of the copy that were stored when it was made may be
deleted meanwhile but not taken by another consume, since the one call that could is
the one that holds the lock (`CopiesUntaken`). So a value taken from the copy was not
returned before, although the merge may find its row gone. Without a transaction a
consume takes out the newest row of a key and deletes those beside it in a later step.
Once a value is returned or taken out (`Chosen`), what was beside it is unused, in
nobody's hands and in no copy, and stored only while the call that chose has yet to
delete it (`StaleDoomed`); until then that call holds the lock. The refinement over
the copy needs more: a value that a clean-up or a delete takes out of the table, while
a copy of it goes on to be returned, is one that `OneTimeValues` has voided and then
sees used, and TLC finds such a behaviour for either. `NothingDeleted` leaves them
out, and then what is in a copy is stored (`CopiesStored`).

**Sessions.** `DatabaseOnly` is `Mode = "database"` without the fault
"swallow"; with secondary storage the property is false, as the run above shows.
`RevocationInv` adds to the property: nothing is cached (`NothingCached`),
tokens are handed out in order (`Created`), what a delete did not find is not
there (`UnfoundAbsent`), and dead sessions have no row (`DeadHaveNoRow`). The
last one is what makes it inductive: no later step may write a row for an
old token, and an update changes only rows that are still there.

`LiveUntilRevoked` is proved over a database alone: `PromiseInv` says that the rows
are what the callers were told (`Promised`), and that of a token a call is about to
end nobody is told any more (`Withdrawn`). `NothingCleanedUp` leaves out the clean-up
of expired sessions, for a reason: a clean-up that began before a refresh came through
deletes the row that was refreshed, and then the property is false.

`SignOutIsFinal` is about any stores, where the difficulty is a mirror under way: a
sign-in that has written the row may still write the cached session. `SignInsAndOuts`
allows creations, both kinds of deletion and clean-ups, with calls that throw and hooks
that veto, and excludes the operations that write a session again (a refresh may bring
back one that was ended, as `sessions_refresh_race` shows) and failures that are
only logged. The invariant orders the two writers: a token that can be meant to be
ended is one whose creation is over, and what a call has done of its part is nowhere
left in the stores.

Over both stores `LiveUntilRevoked` holds with every fault: a cached session is live, so
that what is found there will do, and where nothing is found there the row has what the
caller was told (`Stored` of `FoundInv`). What has to be known is that a row is not
touched while its session is mirrored, that a call which ends sessions has had its
callers told so, and that a clean-up ends what is over (`Minds`). `BothStores` excludes
what breaks the first and the last, unless calls do not overlap: "revoke all sessions"
beside a sign-in, which ends the row of a session its caller is told of afterwards, and
a clean-up beside a refresh, as above. TLC finds a behaviour for each.

`SerialPreserved` is the deployment where rows outlive their session
(preserveSessionInDatabase): both stores are used, calls do not overlap, and a call
ends or is vetoed by a hook, but does not die halfway. All operations are in it,
refreshes and clean-ups too. What has to be known is that the list of active
sessions names every cached session, with an expiry no earlier (`Covers`): then a
call that ends sessions leaves none of them cached that a later one could refresh.
Between its steps a call breaks this and restores it; `ListCovers` says at each
label what covers the cache meanwhile, `Writes` that what is about to be written was
not ended, and `Ends` that the cache is cleared before rows are ended, or will be. A
call that dies between the cached entry and the list leaves an entry that no list
names, and calls that overlap lose entries of the list, so that without the
hypotheses the invariant is false. A row whose hooks have run is expired
(`ClosedOver`), which is why later deletes that match it do not run them again.

**Rate limit.** `Static` is memory, or a database with no window longer than the
configured ones; with a longer one the theorem is false, as `rate_limit_sweep` shows.
`LimitInv` relates the row to the history: unless a quiet window has passed, the
row counts at least what was let through (`Counted`), its `lastRequest` is at most
`Lag` older than the last grant, and a key without a row has been quiet
(`Forgotten`); and a request that resumes is at most `Lag` late, holds a
reset only if the window it saw was over, and a snapshot only if it matched
(`Closure`). The compare-and-swap then reduces to the atomic case: when
`Unchanged` holds, the current row is the snapshot, and so matches. Over secondary
storage the window opens with the first request, and the counter is gone when it is
over: `CounterInv` says that a counter was made for the first request that was let
through since a window without any, and counts those let through from then on, and the
refused ones once the limit is reached (`CountedFromFirst`). `Counters` is a storage
that increments a counter and sets its expiry at once, so that no request resumes late.

**Bulk jobs.** No deployment is excluded: workers race, throw, crash, outlive
their leases and miss commits. `ProgressInv` says why the revision suffices.
What a working worker knows is the outcomes of its job if it holds the lease and
knows the latest revision (`KnownLatest`), and what it carries out is then pending
and has what it refers to (`Chosen`); a job without a row has no outcomes and one
that is complete is not ready (`Unstarted`, `Unfinished`). A commit is guarded by the
same two conditions, so at that moment the knowledge is right and the step is a
`Decide` of `BulkProgress`; all others stutter. Without `KnownLatest` the property is
not inductive: a paused worker does know less than what is stored. `LeaseRespected`
rests on `ClaimedFree`: a worker about to claim with the latest revision read a row
without a lease, and time only shortens leases.

**Tokens.** `ChainInv` says that a number names one row and that what a call has
read agrees with it (`Consistent`), and that of each code there is at most one row
that can be exchanged or one call with the turn (`OneTurn`). Rows that may have been
deleted, revoked or read long ago are why the first part is needed: the compare and
swap finds a row by the number of a row that was read before. The steps fall into
those after which chains go on or end (`Shrinks`), `Rotate` and `Redeem`, which take a
turn, and `MintRefresh`, which gives it back. `OneAnswer` needs `Answered` beside it:
a token that was exchanged or answered is revoked, by one call, and has no answer
until that call gives one (`Exchanges`, `Answers`); and a stored response is one that
was returned (`Returned`), so that a retry inside the interval repeats the first
answer. The rows a call read earlier are again the difficulty: they agree with the
table on what does not change, and only the table decides who exchanges.

`EndedStaysDead` needs to know how far each call that ends tokens has come. What it
is meant to end is fixed when it begins, or when it lists a family, and is at every
step either gone, or revoked, or among what it is still to delete or revoke
(`OnTrack`); what is meant to be ended are numbers that are taken, so no token of
theirs is created later (`Aimed`, `Past`); and what successful calls have ended is
revoked or gone (`DeadEnded`). For that, the numbers are accounted for: each names
one access token and one refresh token, of one code, and is created by one call
(`Named`, `Minting`). `Heeded` is about the failures that
`prepareBackchannelLogoutPlan` and `applyBackchannelLogoutPlan` only log. With
enforced references, or where clients drop offline_access, they are left out, as
with them the property is false (`token_logout`). Otherwise they do no harm, for a
reason that the code does not give: an access token that was not revoked still names
the session, which is gone (`Ineffective`), and there are no refresh tokens that end
with it (`Leaving`, `AllOffline`). `TypeCorrect` has a bound of the model to prove,
the one on the numbers of tokens: a call begins only while there is room for its
tokens beside those of others (`Room`), so that the next number and the calls that
may take one are together within the bound (`Reserved`).

**Database hooks.** `QueueInv` says of each queue that its hooks belong to writes of
its call which are open, or committed once the transaction is (`Waits`), that they
are in the order of writes and hooks (`Sorted`), that they come after those that
were run (`AfterAttempted`), that none of a write is skipped (`Whole`), and that a hook
of a write that is not rolled back was run or waits unless its call failed
(`NoneLost`). The order of what was run then follows at each step that takes the head
of a queue. `RowInv` is about rows that were consumed: they are not in the table, and
only the open transaction that consumed one can bring it back, after which its write
is void. Without the locks of other transactions (`Unlocked`) a rollback could bring
back a row that another call consumed.

**Device codes.** `Verdicts` says that a call about to write a verdict has read the
code as that of its user, and that the code, if it is still there, is that user's: a
user who takes a code finds it nobody's, and a taken one is never free again. So the
unguarded write by id restores the owner it found. `OneTurn` counts the session once:
it is in the row, or with the one call that consumed it, or made or lost.

**API keys.** `KeyInv` says that the uses taken and those left
are no more than the grant (`Uses`); that a burst is no longer than the count of the
row, which is at most the limit (`Requests`); that a call about to refill found that
due on the key it knows, which the guarded update compares with the row (`RefillDue`);
and that once a call began without a row there is none, and it is not accepted
(`KeyGone`). What calls know of the key, and the copies in secondary storage, may be
stale in every other respect: only the guards of the updates are relied on.

**Two-factor.** The budget of guesses is kept by a token: the row that counts the
attempts of a challenge is consumed before a guess is checked and written back with
one attempt more. `CounterInv` says that it is in the table or in the hands of one
call, with no fewer attempts on it than were checked, and the same is said of a code
that was sent (`OtpInv`). The challenge itself is consumed before a session is
created (`Unminted`), and a backup code is taken out by compare and swap, so that
only codes that were generated and not accepted are in the row (`Generated`). The
lock is never further ahead than a new one would be (`LockNear`), so that setting it
cannot shorten it. The failures of an account are bounded by what the row and the
calls make up together (`FailInv`): while it is open, by the count of the row, the
failures yet to be recorded, and one for each other call; while it is locked, by the
limit and two for each other call, less those that are past the lock. This corrected
the model: `FailureBudget` first allowed one failure for each other call, and the
induction failed at `ClearLock`, as a failure can be counted between the expiry of a
lock and its clearing, which wipes it out. TLC then found a behaviour that reaches
the bound as it is now (`counted` of `MCPlugins`, with attempts enough to lock the
account over again). A call that dies before it records its failure is not counted,
so the theorem excludes "throw".

**One-time passwords.** A code is in one row, or in the hands of one call that has
consumed it (`OnePlace`); what makes this inductive is that codes are made one after
the other (`Made`), and that a call which has consumed a row leaves none behind. A
code in one of these places was not accepted, and its row counts every wrong code
compared with it, but for the one whose call is about to make the row again
(`Tallied`). `NotChecked` excludes checkVerificationOTP, which writes without having
consumed and brings back what another call has used: with it both properties are
false for calls that overlap. For one call at a time they hold with it
(`AcceptedOnceAlone`, `GuessesBoundedAlone`): between calls a code that was accepted
is in no row (`SpentInv`): what is stored, or in the hands of the call, was not
accepted (`StillGood`), and a call that is about to accept a code for good has left
no row (`Consumed`). That rows count every guess (`GuessesCounted`) needs a call
that does not die between a comparison and the write that counts it.

**Memberships.** The rows of a team and the calls that hold a seat, reserved for
somebody or not given back yet, are together at most the counter (`TeamCapacity`,
with `Counted`: the counter is raised at most to the limit, and a call that gives a
seat back has deleted one row). It is preserved because a step that adds a row takes
the caller out of the holders, and only guarded updates lower the counter. The
acceptance of an invitation is claimed by a guarded update: `OneClaim` says that one
call at most is past it, and that until a call has joined or given it back nobody
else can claim; `joins` has the member rows of calls that did not fail after making
them. `Answered` says that an accepted invitation has such a call or a join, or one
that failed to give it back (`unreleased`). A crash loses the call, which is why
`NotStranded` excludes it. `OwnerRemains` holds where calls do not overlap; two that
do can remove the last two owners. It is preserved because from its check on a call
knows of an owner besides the member whose row it is to delete or to make a plain
member (`Spared`): also the call that deletes the member it has just made, if no
seat can be had for it, and also if a call dies between two awaits.

**Account linking.** Without a unique index on identities, two rows may name one; what
keeps them with one user is the e-mail. `LinkInv` says that users have ids and
e-mails of their own (`UniqueUsers`), that the e-mail a provider gives for an
identity is that of the user it is linked to (`LinkedByMail`), of the user a call in
flight is about to link it to (`AimedByMail`), and of the users it has opened sessions
of (`GrantedByMail`). `OwnMailOnly` is what this needs: a user who is signed in links
no identity of another e-mail, because allowDifferentEmails is off, as by default, or
such links are not made. Otherwise the property is false when a link and a sign-in
overlap. For calls that do not (`OneUserAlone`), it is not the e-mail but the row that
binds an identity: `SettledInv` says that the rows of an identity have one owner
(`OneOwner`), that whoever signed in with an identity and was not deleted since has it
still (`GrantedOwned`), and that a call is about to link an identity that nobody has, or
to open a session of the user who has it (`Settled`). Unlinking sets an identity free
for somebody else, and is left out.

**Only model-checked**: `CallsEnd` and `QueueServed`, as liveness is out of the
prover's reach. Every safety property that a passing run checks is a theorem for each
deployment of that run, under the hypotheses above, which those deployments meet; "one
call at a time" of a run is `OneCall`, or one process, of a theorem. `MCSessions` and
`MCPlugins` state their properties for each deployment; the theorems are about the
formulas of the component modules that these are made of. What the plugin modules
assume of their constants is evaluated for every deployment in `MCPlugins`
(`DeploymentsAssumption`).

Each property has a mutant, a plausible mistake in one mapped definition, that
makes its run fail; the mutants stand beside the definitions they change.

## 5. Plan

What would add most next:

1. `AccountLinking` with profile overrides, which change e-mails, and the user that
   single sign-on selects; changes of passwords and e-mails beside it.
2. `DatabaseHooks` with hooks that write, and with the copy that the in-memory adapter
   merges back.
3. `Memberships` over transactions that lock the rows read; creation and deletion of
   organizations.
4. Proofs: an abstract session store that `Sessions` over a database implements; the
   refinement of `OneTimeValues` over the in-memory adapter with clean-ups, for an
   abstract store whose values may be voided while they are being returned.
