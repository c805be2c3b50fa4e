# OneKey API: TLA+ models, checks and proofs

OneKey is a TypeScript server (`src/src`) that verifies identities through KYC
providers, attests the result on a blockchain (EAS), encrypts data under Lit
Protocol conditions, stores it on Arweave, and offers accounts, projects and API
keys around that; `src/sdk` is the client library. This directory models the
parts of it where the order of events decides whether the program is right:
calls of one Node.js process that interleave at every `await`, a chain and a
Redis that answer late or not at all, retries of what may have been done
already, and restarts that forget whatever was only in memory.

Paths below are relative to the repository root: `services/...` is short for
`src/src/services/...`.

Contents: [inventory](#inventory), [reading guide](#the-modules-and-the-code),
[runs](#what-the-runs-check), [fairness](#fairness), [proofs](#what-is-proved),
[findings](#where-the-code-and-its-documentation-disagree),
[limits](#what-is-not-modelled), [plan](#plan).

## Inventory

### How the parts interact

```
   SDK HttpClient ──HTTP──▶ middleware (security, rate limiter, JWT / Privy / API key, access control)
                                │
      ┌──────────┬──────────────┼───────────────┬───────────────┬──────────────┐
      ▼          ▼              ▼               ▼               ▼              ▼
   auth       KYC ──result──▶ attestation    encryption      Arweave        projects,
  (users,     (provider       (EasService,   (Lit keys,      (upload,       organizations,
   tokens)     sessions)       cache)         rotation)       gateways)      API keys
      │                          │               │               │              │
  PostgreSQL                 EAS contract     Lit nodes      Arweave        PostgreSQL
                                 └──storeAttestation────────────▶│
   access control ──▶ Redis (policy cache, request counters)
   audit log queue ──▶ Redis list ──timer──▶ PostgreSQL
```

All server code runs on one event loop. A stretch of code without an `await` is
atomic; at every `await` of something outside the process (database, Redis,
chain, HTTP) any other call may run. So an action of a model is the code between
two such awaits, and in-memory maps are shared state without locks. Several
server processes may share PostgreSQL and Redis but not their memory.

### Components

| Component | State | Operations | What makes it hard | What makes it right |
|---|---|---|---|---|
| **Attestations** (`services/attestation/{attestation,eas,baseAttestation}Service.ts`) | cache of attestations, hourly and daily counts per wallet; on the chain: transactions, attestations, revocations | create (with retries), get, revoke, batch, list | a retry sends a second transaction while the first may still be mined; the check and the update of the rate limit are apart by the whole creation; reads fill the cache after an await, under the spelling of their request; restarts | success names an attestation that exists; a second one is made only in doubt; a revoked one is served only after a race or under another spelling; the limit is exceeded by a bounded amount; callers get an answer |
| **Attestation schemas** (`schemaManager.ts`, start of `attestationService.ts`) | schema cache with a time to live; on the chain: registrations | register, get, validate, compare, initialize | a schema from the cache is compared with one that is read; registrations that fail or arrive late; the server does not start without a valid default schema | an answer is what the registry says, whatever the age of the cache |
| **Batches** (`easService.ts`, `baseAttestationService.ts`) | a call's batch, its attempts and what it has made | create a batch of attestations | one transaction for each ten requests, retried like a single one; uids come back by position | an initial run of batches is on the chain; what is reported was made, once, with its own data |
| **Accounts** (`services/auth/authService.ts`, `routes/auth.ts`, migration 001) | `users` table | register, wallet login | look-up, await, insert; look-ups that swallow database errors; inserts whose reply is lost | the wallet logins of a wallet agree |
| **Tokens** (`services/auth/jwtService.ts`, `authService.ts`) | map of refresh tokens, in memory | login, refresh, logout, logout everywhere | the row of the user is awaited between check and issue; two tokens of one second are one string | logout everywhere and deactivation end a chain of refreshes |
| **Access control** (`services/auth/accessControlService.ts`, `services/access/rateLimitService.ts`, `services/cache/redisService.ts`, `middleware/accessControl.ts`) | policy cache and request counter in Redis, policy rows | check, block, reset | read-await-write of the counter; every Redis error becomes `null` | a block holds; a deleted policy grants nothing once forgotten; failures do not grant |
| **Audit log queue** (`services/analytics/auditLogQueue.ts`) | Redis list, `isProcessing`, batch in hand | enqueue, timer callback, stop | push whose reply is lost; timer that fires during a callback; crash between pop and insert | nothing disappears unaccounted; order; duplicates only when unavoidable; the list drains |
| **SDK HTTP client** (`src/sdk/src/core/http-client.ts`) | access token, configuration; per request: attempt, signal | request, authenticate, set/clear token, update configuration | one time-out for all attempts, repeated POSTs, a 401 for an old token clearing a new one | no needless repetition, nothing sent after the time-out, every request ends, the token in use is known and not refused |
| **KYC sessions** (`services/kyc/*`, `routes/kyc.ts`) | session map per provider | create, verify, list providers | the session is stored before its provider accepts it; three providers with thresholds of their own; callers without an internal user | a session is its creator's; a refused one is inert; what is called completed has nothing that failed |
| **HTTP gateway** (`routes/{kyc,attestation}.ts`, `middleware/{privyAuth,auth,rateLimiter}.ts`) | counters of two limiters, for each address or address and user | the middleware of a request in its order | which handler refuses first decides what is counted and what is reached | the properties of the sessions behind it |
| **Encryption** (`services/encryption/encryptionService.ts`, `routes/encryption.ts`) | keys, in memory | generate, rotate, encrypt, decrypt | rotation while an encryption holds the old key; ids that are taken; restarts | what was sealed opens while its key lives |
| **Arweave storage** (`services/storage/arweaveService.ts`, `routes/arweave.ts`) | wallet, bounded cache; the network | upload with documents, retrieve | uploads side by side that fail apart; gateways that lie or fall silent; a cache shared by verifying and other reads | stored is stored whole; verified is intact |
| **Organizations, projects, API keys** (`services/project/*`, `middleware/{projectAuth,multiTenant}.ts`, `routes/project.ts`) | PostgreSQL rows, limiter counters | create, update, delete, invite, accept, validate a key | cascades; a key validated in two statements | no member without consent; revoked is for good |
| **Server lifecycle** (`index.ts`, `config/database.ts`) | HTTP server, pool, calls of shutdown | start, health checks, shutdown | shutdowns that overlap and reject into each other; clients of the pool in flight, or never released | success means nothing is in use; one shutdown always ends the process |
| **Migrations** (`database/migrator.ts`) | applied versions | migrate | SQL and its record apart | one step of the start; see [limits](#what-is-not-modelled) |
| **Role, attribute and view services** (`services/access/{policyEngine,rbac,abac,litIntegration,viewManager}*`) | policy tables, views | evaluate, refresh | combination of effects | see [limits](#what-is-not-modelled) |
| **Privy routes, analytics, third-party middleware, Lit client, SDK facade** | none that lasts, or a placeholder | | | see [limits](#what-is-not-modelled) |

`PROJECT.json` lists the same components with their status, and under `hazards`
what is hard to test in each, line by line, with the properties that would catch
it going wrong.

## The modules and the code

Each component is one module that declares its state and one action per
operation, handler or step. A module `MC...` instantiates it for TLC, a module
`...Proofs` extends it with theorems. Definitions whose name has an underscore
(`RateLimited_OffByOne`) are not part of a specification: each stands next to
the definition it varies and says what a plausible bug there would be. Variables
marked *history* in the declarations are not in the code; they record what a
property needs to remember and no guard reads them.

### Attestation, AttestationRegistry

`Attestation` models `createAttestationFromKyc` down to
`EasService.executeWithRetry`, `getAttestation`, `revokeAttestation` and the
contract they talk to.

| TLA+ | Code |
|---|---|
| `tx`, `expired`, `revoking`, `hour` | the chain and the clock |
| `cache` | `attestationCache` |
| `hourCount`, `dayCount` | the two keys per wallet in `attestationCount` |
| `cpc`, `attempt`, `recipient` | a creation call between its awaits |
| `rpc`, `rname`, `answer` | a `getAttestation` call and the uid as it spells it |
| `vpc`, `vname` | a `revokeAttestation` call and the uid as it spells it |
| `CreateRefused`, `CreateStart` | the KYC status check and `checkRateLimit`, up to the first transaction |
| `Submit`, `SubmitFails` | `eas.attest` resolves, or throws before or after the node took the transaction |
| `Receipt`, `WaitFails` | `tx.wait()` resolves or throws |
| `RetryOrFail` | the catch branch of `executeWithRetry` |
| `StoreFails`, `CreateDone` | what follows the receipt: UID, block, Arweave, counting, caching |
| `GetHit`, `GetMiss`, `GetVerified`, `GetFails`, `GetFill` | `getAttestation` around its verification |
| `RevokeSubmit` ... `RevokeDone` | `revokeAttestation` around its two awaits |
| `Mine`, `Drop`, `LateRevocation`, `Expire` | what the network does |
| `Restart` | a new process: memory gone, chain unchanged |

Attempt `k` of creation `c` makes, if mined, the attestation `<<c, k>>`: two
mined attempts are two attestations, as on the real chain. The code reads the
result of `tx.wait()` as a receipt; the model follows how the code uses it.

The routes let a uid through with hex digits of either case and nothing lowers them
(`routes/attestation.ts:47`, `:95`). The contract reads every spelling as the same bytes; the
cache is a map from strings. So a request names `<<u, spelling>>`: the chain looks at `u`, the
cache at the pair, a creation caches under `Canonical`, and `Evict` deletes the pair the
revocation came with. (Wallets are spelled by requests too, and the counters are kept for
each spelling: `Recipients` are wallets as they are written.) `unsure` is *history*: attempts
whose reply was lost or whose wait failed.

`AttestationRegistry` is what clients may rely on: an attestation is issued once,
revoked for good, and served from memory only after it was issued.
`Attestation!Registry` is the refinement mapping (chain status, uids cached in some spelling), and
`ImplementsRegistry` the claim that the service implements it.

### AuthTokens, TokenService

A refresh token is a signature over the user and the second of issue, so a token
is modelled as `<<user, second>>`, and two issues in one second give the same
token, as in the code. `LoginRead` stands for login and wallet login up to the
read of the user's row, `RefreshVerify`/`RefreshRead` for `refreshToken` up to
and after its look-up, `Issue` for `generateTokens` with `storeRefreshToken`.
`Restart` empties the map: every refresh token of the old process is then unknown.
Registration, which also issues tokens, adds a user; the set of users is fixed here
and its issue step is that of a login.

`TokenService` is the contract: a token becomes usable only by a grant to a user who is
logged in and not barred, logging out leaves no usable token, and a token that is over
stays over. `AuthTokens!Service` is the refinement mapping: a token is usable when
`verifyRefreshToken` accepts it, over when it is not accepted and its second is past, and
grantable otherwise. It says what the contract costs: a logout everywhere counts as such
only when no call of the user was past its check, a deactivation only when none was past
its read, and a token revoked in its own second may be granted again, which is what
`auth_revoked` shows.

### Accounts

Concurrent `register` and `walletLogin` calls against a `users` table that has
UNIQUE constraints on `email` and `wallet_address`. Each look-up may answer "no
such user" for a database error, as the code does. A wallet is written in lower or
in mixed case, because the register route does not lower it while every look-up
does. `Insert(c, FALSE)` is an insert that took place while its reply was lost: the call answers
an error for an account that exists. `is_active` and passwords are left out. Checked as a
part of `Server`.

### AuditLogQueue, Outbox

`enqueue` (push, direct write, fallback), the timer callback (pop a batch with
one MULTI/EXEC, insert it) and `stop`. `cb[w]` is a timer callback under way: the
model has several so that `isProcessing` is what keeps them apart, not the shape of
the model. `PushSkipped` is the optional call on a missing client, which the code
counts as a success. `RedisService` in this repository has no `isEnabled` or
`getClient`; they are modelled as the queue uses them.

`auditLogQueue.ts:2` imports `knex`, which `config/database.ts` exports as the unconfigured
factory and not the instance made from `dbConfig`, so in this commit no insert succeeds and
every entry is given up at its insert. `InsertOutcomes` says so: `{FALSE}` is the factory,
`{TRUE, FALSE}` a configured instance whose inserts may fail. The run uses the second, which
has every behaviour of the first, so that what it shows holds of both; the theorems are for
either. What the queue is for can only be seen with the second.

`Outbox` is what a caller of `enqueue` is promised: an entry whose enqueue returned is
kept until it is delivered or given up, and either is for good. Before that it may be
kept, delivered or given up in secret, by a push whose reply was lost. `AuditLogQueue!Box` is the refinement mapping: `Fate(e)` is the best
that can be said of an entry that may be in several places (table, list or batch in
hand, given up), and `ImplementsOutbox` the claim. It contains `Accounted`, the
invariant that nobody loses an entry unnamed, and says in addition what no invariant
can: that no step takes an entry back.

### AccessControl

`checkAccess` as the sequence of its Redis and database commands for one user and
one project (`Check`, `ReadCount`, `Bump`, `ReadCache`, `ReadRow`, `Fill`), each of
which may fail and then reads as empty; `BlockUser`, `ResetCount`; and the table,
whose rows an administrator changes without telling the cache. Levels are compared
as the code compares them, as strings; the middleware asks for
`AccessLevel.ADMIN` or for `AccessLevel.USER`, which the enum does not have.
The row is taken as a policy as it is, and nothing in the repository makes its table, whose
other columns are in snake case: `spelled` says whether the level's column is called
`accessLevel`. If it is not, every policy reads as `undefined`, which grants nothing.
`Errors` and `Blockable` say whether commands may fail and whether `blockUser`, which no
route calls, is called.

### SdkClient

`request` and `authenticate` with the retry loop. A phase `flight` covers `fetch`
and the reading of the body. The network is free to deliver an attempt after the
client gave up on it (`Serve` of an older attempt), to lose the answer
(`Unanswered`), or to answer late. `fired` is the one `AbortSignal.timeout` of the
request; an attempt begun after it has fired sends nothing. Statuses are grouped by
what the client does with them: `ok`; `unauthorized` (401, which also clears the
token); `denied` (other statuses that are not retried); `busy` (429, 5xx and 200 without
success, which are, whether the server performed the request or not).

A 401 says little about the token: `authenticateJWT` answers it also when `findUserById`
swallowed a database error, `authenticatePrivy` whenever the verification throws, the refresh route
for any authentication error. So `Serve` may answer anything to anybody, and no property
rests on what a token is worth to the server. The login route of the server takes an e-mail
address and a password and answers without `data.token`; `Grant` is what `authenticate` was
written for, an API that grants a token for an API key.

### Server and its parts

`Server` extends the parts below and is the process: its start (`ServerStarts`), and
what it answers while it listens.

| Module | Code | Notes |
|---|---|---|
| `KycSessions` | `KycService` and the providers | `session`, `told` (ids that were answered; *history*, and what a client can name); `SmileIdentity`, `Onfido`, `Trulioo` are what each mock derives from the confidence it draws |
| `Limiter` | `express-rate-limit` (external) | a counter for each key; it counts the refused requests too, until the window of its key ends. `MaxCounted` bounds the exploration, not the counter |
| `Gateway` | the KYC and attestation routers, `rateLimiter.ts` | one action per route; `Chain` is the middleware in its order, and the code of the first handler that refuses is the answer. `caller` is *history* |
| `Tenancy` | `services/project`, project router, tenant middleware | one action per statement or transaction; `validateApiKey` is two (`ValidateLookup`, then `ValidateExpire` or `ValidateUse`). `consent` is *history* |
| `Accounts` | see above | |
| `Schemas` | `SchemaManager`, `AttestationService.initialize` | a schema is its fields and whether it has a name; `GetSchema` reads, parses and caches |
| `Batches` | `createBatchAttestations`, `processBatchReceipt`, `storeAttestation` | `<<n, k, i>>` is the attestation of request `i` of batch `n` by attempt `k` |
| `Lifecycle` | `index.ts`, `config/database.ts` | `call[d]` is where one delivery of a signal, exception or rejection is in `shutdown`; `Queued` and `Quiet` give callbacks their precedence over timers and I/O. A health query that throws skips `client.release()`, so its client is taken for good (`leaked`) and `pool.end` never resolves: the timer then ends the process |

The parts share the process but little else: a request is answered only by a
server that listens, and the start waits for the default schema (`StartupOf`). To
check them together without the product of their state graphs, `about` picks at
the start of a behaviour which part is active; the others stay as they were. The
proofs need no such split: `Parts` shows that every step of `Server` is a step or a
stutter of each part.

### Vault and its parts

`Vault` composes `Encryption` (keys and boxes) and `Arweave` (wallet, uploads,
network, cache) behind their routers: a client has data sealed, stores it as KYC
data and fetches it. `<<c, n>>` is the transaction of the `n`-th upload of call `c`,
0 being the metadata. `truthful` holds the transactions whose hash tag is the hash
of their data, for `uploadData` takes the hash its caller names. `lost` is
*history*: keys whose id was given to another key, or whose process has ended.
`about` is used as in `Server`: a behaviour seals and stores, or stores and
retrieves.

What the code does here that is easily missed, and the models keep:

- The KYC router and the attestation router each make a `KycService`, and session
  ids are no UUIDs, which the attestation routes demand. So `POST /attestations` and
  `POST /attestations/estimate-cost` can only answer 400 or 404 to a caller that was
  let in (`PostAttestation`, `EstimateCost`). `GET /attestations/health` and `/stats`
  are registered after `/:uid` and are taken for a uid.
- A request whose Privy account has no row reaches the handlers, which read
  `req.user.id`: the service has been asked by then, and the answer is a 500.
- `requireApiKey` takes the boolean of `validateApiKey` for a row; every request with
  a key ends as not found (`Refused`). The last owner of an organization may be
  removed. A PUT of project settings empties the origins and custom settings it does
  not name. A rate limit of 0 means the default.
- `generateKey` with an id that is taken replaces the key; `encrypt` and `decrypt` do
  not look at `expiresAt`; `POST /encrypt` takes only UUIDs for key ids while generated
  ids are none.
- A cached answer is given to a reader that asked for verification although the one
  that cached it had not: it says `verified: false`, which is honest, and
  `VerifiedIsIntact` is about answers that say true.
- `pool.end` for a pool that is ending rejects; the rejection is itself a reason to shut
  down. So when shutdowns overlap the process may end by its timer with an error
  although all was well, and only a sole shutdown is claimed to end.
- A port that is taken (`Listen(FALSE)`) is an uncaught exception, which shuts down with
  success. A start that hangs is not covered by the timer.
- `compareSchemas` compares fields by name. It calls two schemas whose fields differ in
  order compatible, although their encodings differ.
- `registerSchema` accepts texts that `validateSchema` will refuse: any type name,
  a name twice.
- `processBatchReceipt` reports fewer attestations than were made when it cannot parse
  the logs (`readable`). What `tx.wait()` returns is modelled as the code uses it, a
  receipt with logs.

## What the runs check

State counts are TLC's distinct states. Every property below is also checked
against a variant of the code that breaks it (`mutants` in `PROJECT.json`).

| Run | States | Instance | What it shows |
|---|---|---|---|
| `attestation_races` | 2,742,298 | 1 creation with 2 attempts, 1 reader, 1 revoker, 2 spellings, one expiry | `TypeOK`, `DoubledOnlyIfUnsure`, `SuccessIsOnChain`, `NoStaleFill`, `StaleOnlyIfRaced`, `ImplementsRegistry` |
| `attestation_rate` | 15,590 | 4 creations for one wallet, 3 hours, 2 days, limits 1 and 2, at most 2 in flight | `RateOvershootBounded` |
| `attestation_answers` | 113,569 | 2 creations with 3 attempts, fair | `CreateAnswered` |
| `auth_sessions` | 676,088 | 2 users, 2 calls, 3 seconds, tokens living 2 | `TypeOK`, `QuietMeansDead`, `ImplementsService` |
| `audit_moves` | 621,528 | 3 entries, 2 callbacks, batches of 2, 1 restart, fair | `TypeOK`, `ImplementsOutbox`, `DuplicateOnlyIfUnsure`, `InsertedInOrder`, `Drained` |
| `access_checks` | 117,134 | 2 checks, limit 2, count up to 3, 1 reset, either name of the column | `TypeOK`, `BlockStays`, `DeletedGrantsNothing` |
| `sdk_requests` | 553,184 | a login and a request, 2 tokens, 2 attempts, fair | `TypeOK`, `RepeatedOnlyIfUnsure`, `NothingSentAfterTimeout`, `TokenInUse`, `Settles` |
| `server` | 228,312 | see `Server.cfg`: 2 users, 1 address, 1 session, 8 confidences, 3 sets of providers; 2 shutdowns, 2 health checks; 2 organizations, 2 members, 1 key, 2 validations; 3 registrations; 2 schema ids, 7 texts; lists of up to 5 requests in batches of 2 with 2 attempts | `TypeOK`, `OwnerIsCaller`, `CompletedIffClean`, `RefusedStaysPending`, `ActiveByConsent`, `WalletLoginStable`, `CleanExit`, `SchemaAnswers`, `WholeBatches`, `SoleShutdownExits`, `RevokedForGood` |
| `storage` | 363,219 | 1 call with 2 documents, 2 retrievals, 2 gateways and a preferred one, a cache of 1, 2 key ids, 1 box, 3 keys | `TypeOK`, `StoredWhole`, `VerifiedIsIntact`, `Recoverable` |

Why the bounds are enough:

- *attestation_races*: two attempts suffice for an abandoned transaction that is
  mined after its successor; the races on the cache are between a creation or a
  reader and a revocation, and the reader may read again after its own fill. Two
  spellings are the one the service writes and another. The code's three attempts add a
  repetition of the same step.
- *attestation_rate*: two creations in flight against limits of 1 and 2, with two
  hours in a day, make both limits bind, and the hour can change between check and
  count; a third hour opens a new day.
- *auth_sessions*: a token issued in second 0 expires within the run, two calls
  give each race between a refresh and a logout, two users show that neither
  touches the other.
- *audit_moves*: three entries make a full batch and a partial one; two
  callbacks make the overlap `isProcessing` prevents.
- *access_checks*: with a limit of 2 one lost update already matters. *access_limit* has
  the same instance without failing commands and without `BlockUser`, so that only checks
  can bring the counter down.
- *server*: the confidences are those on both sides of every threshold of every
  provider and inside what it draws; the deployments have no provider, one missing
  and all. Limits of 1 and counters followed to 2 give requests that are counted, refused,
  and counted when refused, in windows of their own. Two shutdowns overlap in every way, with a query held by either health
  check. Two validations of one key give the one that saw it expired and the one
  that saw it active against a revocation. Three registrations give two that pass
  both look-ups and a third that finds what they left. The texts are two valid
  schemas in different order, a shorter one, and one for each reason to refuse. Five
  requests make two full batches and a partial one, two attempts an abandoned
  transaction that is mined later.
- *storage*: two documents make side-by-side uploads that end differently, a cache
  of one entry is always at its limit when a second transaction is retrieved, and
  three keys allow a generation, a rotation and a replacement.
- *sdk_requests*: one repetition, one login racing one request, a second token to
  overtake the first, one of them kept by the application from before.

Bounds in the models: `LastHour`, `MaxExpired`, `MaxInFlight` (Attestation; the last
is also the parameter of the rate property), `LastSecond` (AuthTokens),
`MaxRestarts` (AuditLogQueue), `MaxCount`, `MaxResets` (AccessControl), `MaxAttempts`
(SdkClient), `MaxCounted` (Limiter), `MaxBatches` (Batches), `KeysMax` (Encryption).
`MaxRetries`, `MaxPerHour`, `BatchSize`,
`RefreshLife`, `Limit`, `KycMax`, `OpMax`, `MaxSize` and `DefaultLimit` are constants of the code with smaller values. Symmetry
is used only in runs without liveness. Deadlock is not checked in
`server` and `sdk_requests`, where the process may have exited and all calls be finished.

The properties in words:

- `DoubledOnlyIfUnsure`: a creation leaves an attestation besides that of its last
  attempt only if the reply to the earlier transaction was lost or the wait for it failed.
  Two attestations of one creation are then possible, and the code accepts that; what goes
  wrong after the receipt must not lead to another transaction.
- `StaleOnlyIfRaced`: once a revocation was reported, the cache holds the
  attestation under the spelling of the revocation only if another call held it at that
  very moment. Under other spellings it may be held without any race, which is
  `attestation_get_revoked`. `NoStaleFill`: a reader caches nothing that was revoked or
  expired before it began.
- `ImplementsRegistry` is a contract of reporting: it permits an attestation nobody was told
  of, as an abandoned attempt or a restart leaves it.
- `RateOvershootBounded`: the check and the update of the rate limit are apart by
  the whole creation, so the limit is not kept; it is passed by fewer than the
  creations in flight together.
- `QuietMeansDead`: a user logged out everywhere with no call of theirs under way
  has no usable refresh token until the next login. The condition matters: a refresh
  that passed its check first issues a token afterwards.
- `ImplementsService`: in between too, no step makes a token usable but a grant to an
  active user who logged in, and a deactivated user (`DisabledGetsNothing`) or a token
  whose second is past gets none back.
- `WalletLoginStable`: all wallet logins of one wallet end in one account, although
  a look-up that fails sends some of them to registration, and one of these may insert its
  row without learning of it.
- `ImplementsOutbox`: every entry whose `enqueue` returned is in the list, in a batch,
  in the table, or among those a failure gave up; nothing else loses one, and no step
  goes back on a delivery or on giving up.
- `BlockStays`: a block set while no check was about to write a lower count lasts
  until a reset, its expiry, or a failed read of the counter. `DeletedGrantsNothing` begins
  likewise where no cache entry and no check holds the deleted policy. Both leave the races
  themselves to the code, which has them, and say that there is no other way.
- `RepeatedOnlyIfUnsure`: the client repeats a request only if it did not read a good or
  final answer to it. A request that the server performed may be repeated for all that,
  POSTs included; that is what the code does.
- `TokenInUse`: new requests carry no token that was answered 401 since it was set, and
  none of a login that timed out or was reported as failed. The other side, that a 401 for
  an old token clears a new one, is what the code does; no property denies it.
- `CompletedIffClean`: an attestation is made from the status of a report alone, so
  the status has to say what the checks and the risk say, for three providers that
  compute them apart.
- `RefusedStaysPending`: the session a disabled provider refused exists, but its id was
  never told, so nobody can have it verified.
- `ActiveByConsent`: whatever is added, removed, deleted and invited again, an active
  member founded the organization or accepted since the last removal.
- `RevokedForGood`: a validation never makes a revoked key active again. It may make it
  expired, and only when it saw the key expired before.
- `CleanExit`, `SoleShutdownExits`: exit with success means the pool ended, no client
  taken and no connection open; one shutdown ends the process though nothing answers.
- `SchemaAnswers`: an answer is the registry's. `WholeBatches`: no gap in what a failed
  call leaves on the chain, and no request reported twice or with another's data.
- `StoredWhole`, `VerifiedIsIntact`: as in their modules. `Recoverable`: stored KYC data
  opens until its key is overwritten or gone with its process, and never after.

Six more are stated in the modules and proved, and were checked by TLC on the same
instances before; they have no run of their own: `Accounted`; `DisabledGetsNothing`; `OpensIffKept`, which
says of every sealed box what `Recoverable` says of stored ones; `GoneAfterItsSecond`, the
bound of what `auth_revoked` shows: a token that was revoked or forgotten comes back within
its second of issue or never; `AllowedByPolicy`, that every way to `allowed` passes a
level that was read and suffices; `ShutdownIsTimed`, the part of `SoleShutdownExits` that
holds for overlapping shutdowns as well: at no turn of the event loop is a started process
that was told to stop without the timer that ends it.

## Fairness

- `Attestation!Fairness`: weak fairness of a creation's own steps (the event loop
  runs a call whose promise has settled) and of mining. Nothing obliges `tx.wait()`
  to return for a dropped transaction, and `CreateAnswered` says so: a caller is
  answered unless its transaction was dropped or the process restarted.
- `AuditLogQueue!Fairness`: weak fairness of the timer and of the end of a batch;
  strong fairness of `Pop`, because a failing Redis command can disable it again
  and again and the claim is only about a Redis that answers at last.
- `SdkClient!FairSpec`: timers fire (`Timeout`, `Wake`) and an aborted `fetch`
  rejects (`Abort`). There is no fairness of the network or of the server: requests
  settle without their help.

- `Lifecycle!LifeFairness`, which `Server!Spec` has: weak fairness of callbacks that are
  queued (`Close`, `CloseDatabase`, `PoolEnded`, `Rejection`), for Node runs its
  microtasks and ready callbacks; strong fairness of `ForceClose`, because a timer that
  is due fires in the next turn of the loop, and turns are put off by callbacks again
  and again but never for ever. There is none of queries, of `knex.destroy`, of clients
  or of startup: `SoleShutdownExits` holds because of the timer.

## What is proved

The theorems hold for every number of calls, users, wallets, tokens, entries, schemas,
documents and attempts and for every limit. The only assumptions are the named ASSUMEs of
the modules, each about constants: limits are numbers, and positive where the code
divides or counts down by them; creations are finitely many; the enabled providers are
providers, generated key ids key ids, logins requests, the texts sequences of fields and the
default schema one of the schemas; the lists given to a batch call have at most
`MaxBatches` batches, the bound of the model's transactions.

| Module | Theorem | Claim |
|---|---|---|
| `AttestationProofs` | `TypeCorrect` | `TypeOK` |
| | `DoublesAreUnsure`, `SuccessOnChain` | `DoubledOnlyIfUnsure`, `SuccessIsOnChain`, from `CreateInv` |
| | `FreshFills`, `StaleOnlyByRace` | `NoStaleFill`, `StaleOnlyIfRaced`, from `CacheInv` |
| | `RegistryImplemented` | `ImplementsRegistry`, from `CreateInv` and `ReadInv` |
| | `OvershootBounded` | `RateOvershootBounded`, from `RateInv` |
| `AuthTokensProofs` | `TypeCorrect`, `LoggedOutStaysOut`, `DisabledStarve` | `TypeOK`, `QuietMeansDead`, `DisabledGetsNothing` |
| | `GoneStaysGone` | `GoneAfterItsSecond`, from `PastOnly` |
| | `ServiceImplemented` | `ImplementsService`, from `QuietInv` and `FrozenInv` |
| `AccessControlProofs` | `TypeCorrect`, `BlocksLast`, `DeletedDenies`, `OnlyPoliciesGrant` | `TypeOK`, `BlockStays`, `DeletedGrantsNothing`, `AllowedByPolicy` |
| `AuditLogQueueProofs` | `TypeCorrect`, `EntriesAreAccounted`, `DuplicatesAreUnsure`, `InsertionIsInOrder` | `TypeOK`, `Accounted`, `DuplicateOnlyIfUnsure`, `InsertedInOrder`, from `QueueInv` |
| | `OutboxImplemented` | `ImplementsOutbox`, from `QueueInv` and `GivenUpLate` |
| `SdkClientProofs` | `TypeCorrect`, `RepeatsAreUnsure`, `TimeoutEndsSending`, `TokensAreInUse` | `TypeOK`, `RepeatedOnlyIfUnsure` from `LoopInv`, `NothingSentAfterTimeout`, `TokenInUse` from `TokenInv` |
| `ServerPartsProofs` | `AccountsTypeCorrect` | `AccountsTypeOK`; the module holds the inductive steps of Accounts, Schemas and Batches that `ServerProofs` uses |
| `ServerProofs` | `ServerTypeCorrect` | `TypeOK`, from the invariants of the parts, `TenancyTyped` and `ReferencesThere` |
| | `WalletLoginsAgree` | `WalletLoginStable`, from `AccountsInv` |
| | `AnswersAreTheRegistrys` | `SchemaAnswers`, from `SchemasInv` |
| | `BatchesAreInitialRuns` | `WholeBatches`, from `BatchesInv` |
| | `MembersConsented`, `RevocationLasts` | `ActiveByConsent`, `RevokedForGood` |
| | `ExitsAreClean`, `ShutdownsAreTimed` | `CleanExit`, from `LifeInv`; `ShutdownIsTimed`, from `TimedInv` |
| | `SessionsHaveOwners`, `RefusedAreInert`, `CompletionsAreClean` | `OwnerIsCaller`, `RefusedStaysPending`, `CompletedIffClean`, from `SessionInv` |
| `VaultProofs` | `VaultTypeCorrect` | `TypeOK`, from `CacheInv` and `ShapeInv` |
| | `StoresAreWhole`, `VerifiedAnswersAreIntact` | `StoredWhole`, `VerifiedIsIntact`, from `StoreInv` and `ReadInv` |
| | `BoxesOpenIffKept`, `KycDataIsRecoverable` | `OpensIffKept`, `Recoverable`, from `KeyInv` and `KeysApart` |

The inductive invariants, and why they are needed:

- `CreateInv`. That a reported success is on the chain is not inductive: one must
  know that a call holding a receipt holds that of a mined transaction, that a call
  yet to submit has sent nothing under its current attempt, that later attempts
  are untouched, and that an earlier one sent nothing or is among the unsure. `TxStep` then shows that a transaction only moves forward.
- `CacheInv`. `StaleOnlyIfRaced` needs to know what every holder of an attestation
  carries: a reader about to fill, or a creation waiting or with a receipt, holds a
  name whose revocation was reported only if it held it when that was reported, and whatever was reported is
  revoked on the chain, so that no later verification accepts it.
- `ReadInv`. What a reader is about to cache is on the chain, which makes its fill a
  `Show` of the registry.
- `RateInv`. Counted plus still countable stays under the bound in the current hour
  and day, later windows are empty, and so is the part of the clock that
  `NextHour` enters; `DayGrows` shows that the day of an hour never goes back.
- `QuietInv`, `FrozenInv`. No call of a user logged out (deactivated) is past the
  point after which it issues a token.
- `PastOnly`. A token of a second to come is not in the map, so that an issue can only
  bring back a token of the current second.
- `BlockInv`, `GoneInv`. No check is about to write a lower count; no cache entry
  and no check still carries a deleted policy.
- `QueueInv`. The way of an entry is one sequence, `Line`: the table, then the batch in
  hand, then the list. Taking a batch and writing it leave it as it is, a push appends to
  it, a failed write or a restart leaves something out (`Embeds`), and order and number of
  copies need only be followed along it. It is one sequence because `isProcessing` lets a
  single callback hold a batch (`OneCallback`), and a second copy needs a call that did not
  know of the first (`Entered`).
- `GivenUpLate`. What was given up was tried by its call, so a first push is of an entry
  nothing was decided about: without it the mapping would let an entry be given up first
  and kept afterwards.
- `LoopInv`, `TokenInv`. The retry loop has sent nothing beyond its attempt and left
  behind only answers that were not read or may be retried. A login that succeeded has
  read its answer, so no later grant replaces its token (`DoneInv`), and what an
  application knows it does not forget (`KnownStays`).
- `AccountsInv`. Wallet logins agree because a finished one owns a row that is in the
  table under its wallet in lower case, of which the UNIQUE constraint leaves one.
- `SchemasInv`. The registry never changes what is there (`RegistryKeeps`), so what is
  cached, of any age, and what a call has read agree with it when the call answers, though
  it read its two schemas at different times and from different places.
- `BatchesInv`. A batch is sent when all before it are mined (`SentInOrder`); a uid that is
  reported names an attempt that was mined and the request its data came from
  (`EntryRight`), and a batch is processed once (`ReportedOnce`). The lemmas `Rounds` and
  those on slices carry the arithmetic: positions of batch `n` are `(n - 1) * BatchSize`
  and on.
- `TenancyTyped`, `ReferencesThere`. A type alone does not keep the rows of a deleted
  organization from being named: cascades are what makes the statements after them find
  rows of the right shape.
- `LifeInv`. What a call of shutdown waits for fixes the server: one that is ending the
  pool has it closed and no connection open, and no step opens either again. `TimedInv`:
  whoever is past `Close` set the timer, also when its own rejection calls it again.
- `SessionInv`. Only sessions of enabled providers were told, and every session is of a
  known provider; `ChainPasses` shows that a request that is let through was refused by
  none of its handlers. `ReportsAreClean` is the case analysis over the thresholds.
- `StoreInv`. A document's upload has begun only when the metadata is on the network,
  also across restarts that let uploads in flight arrive.
- `ReadInv` of the vault. Soundness of every cached answer; `CacheSetSound` carries it
  through the eviction. `CacheInv`, `ShapeInv`: that the cache stays within its size is only
  inductive together with "no two answers to one transaction", for replacing an answer
  evicts nothing.
- `KeyInv`, `KeysApart`. The key of a box is still under its id or among the lost, no two ids
  lead to one key and no id leads to a lost one: the first gives "opens until lost", the
  second "and never after".

Only model-checked: liveness (`CreateAnswered`, `Drained`, `Settles`,
`SoleShutdownExits`), which the prover does not handle. Every
other property of a passing run has its theorem.

## Where the code and its documentation disagree

Three runs expect a violation; each quotes the sentence it contradicts in
`findings` of `PROJECT.json`.

- `attestation_get_revoked`: `docs/resources/errors.mdx:196` says a revoked
  attestation is answered with `ATTESTATION_REVOKED`. The trace needs no overlap of calls:
  a creation caches its attestation under the lower-case uid, a revocation that spells the
  uid in mixed case is mined, evicts only that spelling and is reported, and a read of the
  lower-case uid that begins afterwards is answered from the cache
  (`attestationService.ts:194`, `:209`, `:371`). The races of `StaleOnlyIfRaced` are left
  aside by the property.
- `auth_revoked`: `services/auth/jwtService.ts:167` revokes a token; a login in the same
  second as the first issue stores the same string again, not revoked.
- `access_limit`: `src/README.md:269` promises blocking after the limit. Two concurrent
  checks both read 0; one writes 1, is repeated and writes 2, the limit; the other writes its
  1 over it, and the next check is let in.

Others met while modelling are stated in the modules but have no run of their own:
a creation whose wait failed reports failure (`docs/resources/errors.mdx:195`) while its
transaction is mined (`FailureLeavesNothing`);
an expired attestation is served from the cache (`GetHonoursExpiry`); a wallet
registered in mixed case can be registered again by wallet login
(`OneAccountPerWallet`); an entry whose fallback write failed is dropped
(`FailedWriteIsNotLost`).

Without a property, for nothing in the documentation contradicts them: batch creation checks
neither the KYC status nor the rate limit that single creation checks
(`easService.ts:277`), and the attested risk level comes from the confidence alone, not
from the provider's level (`baseAttestationService.ts:218`).

## What is not modelled

- *Role, attribute and policy engine*: they import `Role`, `Permission`, `Effect` and
  `ConditionOperator` from a types module that does not declare them, and the server
  creates none of them.
- *Lit Protocol client*: `PerformanceMonitor` lacks the `measureOperation` that its
  operations call, so each of them throws.
- *Privy routes and synchronisation*: the gateway models what authentication lets
  through; the rows it writes are data no property looks at. Whether Privy is configured
  is a choice of the deployment (`privy`). `privyService.verifyAccessToken` is a
  placeholder in this commit that accepts no token (`services/auth/privyService.ts:75`), and
  `Unauthenticated` is then the only answer of a configured gateway. The routes are modelled
  for a Privy that verifies; the behaviours of the placeholder are among theirs.
- *Analytics, view refresh, third-party middleware*: database inserts and configuration
  without state of their own. *SDK facade and clients*: next in the plan.
- *Migrations*: one step of the start that may fail. `migrator.ts` calls the knex factory
  where it means the configured instance, so its SQL files (`src/src/database/migrations`)
  are never applied by it; `initializeDatabase` has the configured instance run the knex
  migrations of `src/src/migrations`. The tables either makes lack columns the services use;
  `Tenancy` follows the services.
- *Attestation routes*: `Attestation` starts behind them, with what they let through. The
  status check of `createAttestationFromKyc` is its guard `Attestable`; the batch path has
  no such check.
- *Configuration*: `config/environment.ts` lacks the sections that the storage, Privy and
  KYC modules read, which the built files have; the models follow those modules, for any
  configuration. The tags of Arweave transactions are taken to read as they were
  written.
- In modelled components: listing over the subgraph, gas estimates and health of the
  attestation service; Arweave searches and status queries; password hashing, profile
  updates and `refreshAccessToken`, which has no caller; the Web3 branch of
  `evaluatePolicy`, which adds nothing. A schema description that would end the comment it
  is written into is not among the texts. Batch creation and the schema manager are called
  by no route and are modelled as public interfaces.

## Plan

Done: Attestation with its registry; AuthTokens with its token service; Accounts;
AuditLogQueue with its outbox; AccessControl; SdkClient; Lifecycle, KYC sessions and their
gateway, Tenancy, Schemas and Batches, composed in Server; Encryption and Arweave, composed
in Vault; proofs of every safety property of their runs, and of three abstract
specifications.

To come, in this order:

1. A contract of stored documents ("stored whole, answered intact, opened while its key
   lives") that Vault implements, proved like the other three.
2. A contract of one request that SdkClient implements: sent, answered or given up once.
3. The SDK's clients over `SdkClient`: the polling loop of the KYC client, and what the
   facade does when a step of a verification fails.
4. Policy evaluation as pure operators against a reference definition, once its imports
   exist.

Liveness stays with TLC.
