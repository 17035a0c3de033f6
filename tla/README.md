# Verification of the identity and access management service

TLA+ models of the Python service under `src/app`, model-checked with TLC and, for
the safety properties of every module, proved with TLAPS. The first part is the inventory of
the system, the second what is modelled and shown, the third the plan.

## 1. The system

The service is a FastAPI application run as several worker processes that share one
PostgreSQL database, one Redis server and one directory with the signing keyset. A worker
serves many requests concurrently in one asyncio loop. Nearly every handler is a sequence
of SQL statements without a surrounding transaction, so any two handlers interleave at each
`await`, within one worker and between workers, and a worker may die between any two
statements.

| Component | State | Operations | Interacts with |
|---|---|---|---|
| Token revocation manager, `core/token_revocation.py` | Bloom filter per worker; Redis stream with consumer group `bloom-sync`; Pub/Sub channel | start-up replay, Pub/Sub listener, group consumer, `revoke_token`, shutdown | session registry (calls it), request gate (asks the filter) |
| Session registry, `services/session_service.py`, `core/auth.py`, `api/v1/auth.py` | rows of `user_sessions` | login, refresh, logout, logout all / others, admin revoke, bulk revoke | revocation manager; policies and OIDC logout call it |
| Signing keys, `core/signing_keys.py` | keyset file, temporary file, lock file; keyset in each worker's memory | create, load, rotate, prune, sign, verify | everything that issues or verifies tokens |
| OIDC grants, `sso/oidc/endpoints.py`, `services.py`, `clients.py` | `authorization_codes`, `refresh_tokens`, `oidc_clients`, session cookie | sign-in, consent, token endpoint, logout, client administration | federation, session registry, signing keys |
| Request gate, `main.py`, `core/jwt_utils.py` | `lru_cache` of verified tokens per worker | verify, check revocation, let in | Bloom filter, signing keys |
| Tenant isolation, `database/__init__.py` | `app.tenant_id` setting of pooled connections | acquire, set, release | every handler |
| Audit pipeline, `audit_logs/` | buffer per worker, Redis stream, `audit_logs` table | publish, flush, consume | every handler |
| Tenant settings, `services/tenant_service.py` | `tenants.settings`, Redis cache of 60 s | get, update | login (MFA, lifetimes) |
| Policies, `services/policy_service.py`, `core/authz.py` | `user_policies`, `tenant_policies`, copies inside tokens | create, update, delete, assign, decide | session registry (revokes on narrowing) |
| Invitations and sign-up, `sso/oidc/signup.py` | `user_invitations`, `users` | invite, accept, verify email | OIDC |
| Federation, `services/federation_service.py` | `identity_providers`, `federated_identities`, `federation_auth_transactions`, caches | begin, callback, link or provision, token exchange | OIDC |
| Onboarding, `services/onboarding.py` | `tenants`, first user | onboard | policies |
| One-time passwords, `services/otp_service.py` | `totp_secrets` | enrol, verify | login |

**Not modelled.** The admin portal (a client of the API), e-mail, templates, response and
exception formatting, data models, migrations and the seed script are I/O, formatting or
declarations; user administration is listings and single-statement updates. One-time passwords:
the queries of `otp_service.py` insert into, read and update a table `otp_secrets`, which no migration
creates (0017 creates `totp_secrets`), so that no call of it can change anything.

**What is hard here.** A revocation is two writes in two stores (the row, and the
stream plus Pub/Sub); a worker learns of other workers' revocations by an unreliable channel
and by a consumer group that tells one worker only; the keyset file is shared through a lock
file that may be broken; single-use credentials are checked and spent in separate statements.
`PROJECT.json` lists every hazard at its line, with the properties that would catch it.

**What makes each part correct.**

- Revocation: what is retained in the log is refused by every worker that (re)starts;
  nothing is learnt ahead of the log; published revocations are read.
- Sessions: a row that says "revoked" means a token that is refused; a request that ended
  well was effective.
- Signing keys: one process rewrites the file at a time; a key that signed a live token
  stays published; a due key is replaced; a stale copy heals.
- Grants: a traded credential is spent; a successor has the same owner; a consent has one
  live credential.
- Gate: a token that a worker has refused for good is not let in again; a live token has its key.
- Isolation: no statement runs with another tenant's setting; connections come back.
- Audit: a logged event is stored once, or lost in one of the ways the code accepts.
- Settings, templates, providers, clients: an update keeps what it does not provide; a cached
  list is current.
- Policies: a right that was taken away is taken out of the tokens in use.
- Accounts: one invitation makes one account; a subject enters the account it is linked to, in
  the tenant of its provider; a sign-in that died can be repeated.

## 2. The modules

`X.tla` is a component, `MCX.tla` its instance for TLC (symmetry sets and constant
functions), `XProofs.tla` its theorems (`RequestPathProofs`: those of
`TokenGate` and `TenantPool`, what a request passes on its way to a handler; `PlatformProofs`: those of
`AuditPipeline`, `ConfigStore` and their composition `MCPlatform`). One `.cfg` per run. Definitions marked "Mutant of"
in a comment are deliberately wrong variants, unused by the specifications, that show a
property can fail.

### RevocationService and TokenRevocation (`core/token_revocation.py`)

`TokenRevocation` has the Redis side (`stream`, `trimmed`, the group's `delivered` and
`pending`, the Pub/Sub `inbox` of each connection) and, for each worker, its `phase`,
`listener` task, `bloom` filter, replay `cursor` and `batch`. `call[r]` is a running
`revoke_token()`. An action is one Redis command and the local code that follows it.

| Code | Actions |
|---|---|
| `initialize`, `_load_existing_revocations` | `Start`, `ReplayBatch`, `ReplayDone` |
| `_pubsub_loop` | `Subscribe`, `SubscribeFails`, `PubSubMessage`, `PubSubDrop` |
| `_consume_loop` | `ReadGroup`, `ReadGroupLost`, `Consume`, `ConsumeAckFails` |
| `revoke_token` | `RevokeToken`, `XAdd`, `XAddFails`, `Publish`, `PublishFails` |
| process end, `shutdown` | `Crash`, `Shutdown` |

A stream id is its position; trimming is approximate, so it may remove any prefix that
leaves `MaxLen` entries. The Bloom filter is a set: a false positive refuses a token that was not
revoked and endangers none of the properties. The Pub/Sub inbox is a set, which allows
messages to be read in any order.

`RevocationService` is what the manager promises to its callers: a worker that was asked to
revoke refuses at once, only requested tokens become durable or known, and a worker opens only
when it refuses everything durable. `ImplementsService` is the refinement
(`open` = serving workers, `known` = filters, `durable` = what the stream retains).

| Run | Instance | Shows |
|---|---|---|
| `Revocation` | 2 workers, 1 token, 1 call, batch 1, `MaxLen` 1, 2 entries, faults, 1 stop, `FairSpec` | `FanoutIsDurable`, `MessageFollowsLog`, `ReplayComplete` (several pages, trimmed in between), `ImplementsService`, `RestartRecovers`, `BacklogDrains`, `FanoutCompletes` |
| `RevocationEveryWorker` | 1 token, no faults, no stop, `FairSpec` | violated: `ReachesEveryWorker` |

Fairness (`Fairness`): an asyncio task that can run is run, a Redis command is answered or
raises, and a stopped process is started again by its supervisor. Which outcome a command has
is left open, except that nothing is assumed about crashes.

`RevocationEveryWorker` shows that the docstring's "each adds token to their local bloom
filter" holds only for workers subscribed when the revocation is published: a worker between
the end of its replay and its SUBSCRIBE misses it when another worker consumes the entry.

### SessionService (`services/session_service.py` and its routes)

Built on `RevocationService`: the manager is used through its promise. `row[j]` is the row of
the session whose token is `j` (or "untracked": a token without a row, as `refresh()` and the
OIDC token endpoint issue). `task[r]` is a revoking request: what its WHERE clauses match, what
its SELECT returned, what it still has to broadcast.

| Code | Actions |
|---|---|
| `authenticate` + `create_session`; `refresh`, OIDC token endpoint | `CreateSession`; `IssueUntracked` |
| `logout`, `DELETE /sessions/{jti}`, `admin_revoke_session` | `Logout`, `RevokeSession`, `AdminRevokeSession`, then `UpdateOne` |
| `logout_all`, `logout_others`, admin revoke of a user, `end_session` | `LogoutAll`, `LogoutOthers`, `AdminRevokeUser`, `EndSession`, then `Select`, broadcasts, `UpdateAll` |
| `admin_bulk_revoke` | `AdminBulkRevoke`, then `Select`, `UpdateBulk`, broadcasts |
| `revoke_user_tokens`, `revoke_token` | `Revoke`, `RevokeReturns`, `ListDone` |
| a statement raises; a worker ends | `StatementFails`; `StopWorker` |
| the manager's background work | `WorkerLearns`, `WorkerOpens` |

`dropped` and `swept` are history: the tokens whose revocation failed or died with its worker,
and those that the UPDATE of `revoke_all_sessions` marked although its SELECT had not returned
them. `RevokedRowIsBroadcast` and `RevocationLands` name these two as the only ways in which a
revoked row and an accepted token may come together. The first includes the crash between the
commit of a row and its broadcast: the row says "revoked", so no later logout-all selects it, and
the token is accepted until it expires. `Ops` selects the kinds of request of a run.

| Run | Instance | Shows |
|---|---|---|
| `SessionRevocation` | 2 sessions of one (administrator) user, 2 workers, 2 requests at once of every kind, untracked tokens, faults, 1 stop, `FairSessionSpec` | `RevokedRowIsBroadcast`, `EndedRequestIsEffective`, `RevocationLands` |
| `SessionSweepRace` | 3 sessions, 2 users, one `all` request | violated: `SweepIsBroadcast` |
| `SessionLogoutUntracked` | one logout with a refreshed token | violated: `LogoutInvalidates` |

Two sessions of one user are what the races are about: one that a sweep has selected and one that
it has not. The theorems of section 3 cover any users, tenants and sessions.

The fairness of `FairSessionSpec` is that a request which can go on goes on: its coroutine is
scheduled and each await returns or raises.

Left out: trimming of the stream (a durable revocation stays durable here; `TokenRevocation`
has it), the branch of `refresh()` that revokes a token whose profile has changed, password and
MFA checks (they change no state), and the listing queries.

### SigningKeys (`core/signing_keys.py`)

Each process runs one call of its `SigningKeyManager` at a time (an `RLock`), so `pc[p]` is the
file-system call it makes next. `disk`, `tmp` and `lock` are the three files; `mem[p]` is
`_state` with `_state_mtime`; a key is its generation number, and `age` is what the comparisons
with `created_at` tell apart: fresh, due (past the rotation interval), old (past retention).

| Code | Actions |
|---|---|
| `ensure_ready` and its callers | `CallManager`, `Answer` |
| `_ensure_state_loaded_locked`, `_load_state_from_disk_locked` | `Stat`, `Read`, `Load`; under the lock `ReadLocked`, `LoadLocked`, `BuildInitial` |
| `_maybe_rotate_locked`, `_prune_keys` | `NoRotation`, `RotationDue`, `AlreadyRotated`, `Rotate` |
| `_write_state_locked` | `WriteTemp`, `Replace`, `ReplaceFails`, `Restat` |
| `_file_lock` | `Acquire`, `LockTaken`, `FindStale`, `TryAgain`, `BreakLock`, `GiveUp`, `Unlock` |
| time and failures | `LockAges`, `KeyDue`, `KeyOld`, `Crash` |

A lock file ages past 30 seconds only when nobody is inside: the code under the lock takes
milliseconds. A key becomes old only when no process has it as its active key any more, which is
the assumption that retention exceeds rotation interval, check interval and token lifetime
together: `TokenGate` has the clock and checks it.
Reading and writing the text of a file is one step; every file written has an mtime of its own.

| Run | Instance | Shows |
|---|---|---|
| `Keyset` | 2 processes, 4 keys, 1 crash, `FairKeysetSpec` | `LockExcludes`, `TokensStayValid`, `ActiveKeyPresent`, `DueKeyIsReplaced`, `StaleMemoryHeals` |
| `KeysetLockBroken` | 2 processes with one key in use (`InUseInit`), 4 keys, 1 crash | violated: `RotationKeepsTokens` |

`robbed` is history: a waiter has unlinked a lock whose creator was inside, because it had looked
at the abandoned lock before that one. `LockExcludes` and `TokensStayValid` say what holds until
then; `KeysetLockBroken` shows what may happen after it. It starts from a keyset in use, a state
`KeysetInit` leads to, so that what the two processes do under the lock is a rotation: one is killed
while it rotates; started again, it and the other find its lock abandoned, break it one after the other and rotate
from the same file through the same temporary file; what the file holds in the end is the key of one, while
the other signs with its own, under the mtime of that file. (The test of rotation, `test_signing_keys.py:30`,
has one process; `RotationKeepsTokens` asks the same of several.)

Four keys let the processes rotate after each other, with keys becoming old and pruned in between.
Fairness: the rotation loop of each process calls the manager again and again, a started call is
carried on, an abandoned lock grows old. Strong fairness of `RotationDue` stands for the
rate limit `rotation_check_interval_seconds`: not every call looks at the age of the key, but calls
without end do look again. `KeyDue` keeps enough keys in reserve (`MaxKeys`) that the bound never
stops a rotation that has begun.

Left out: HS256 (no keyset), the error for a file with another algorithm, `write_text` torn by a
crash (the temporary file is never read).

### OidcGrants (`sso/oidc/endpoints.py`, `services.py`, `clients.py`)

A credential is an authorization code or a refresh token: `row[g]` its row, with two history
fields, `parent` (what it was traded for) and `family` (the first of its line). `spent`,
`expired` and `gone` are its flags; `task[r]` is a token request between two statements.

| Code | Actions |
|---|---|
| `login_submit`, `end_session` (cookie) | `SignIn`, `SignOut` |
| `consent_submit` | `Consent` |
| `token_endpoint` | `TokenRequest`, `Select`, `Spend`, `Issue`; `TokenExchange` |
| `delete_client`, time | `DeleteClient`, `Expire` |
| a statement raises, before or after it took effect; the worker dies | `Fail`, `FailAfterSpend`, `FailAfterIssue` |

The two grants have the same shape: SELECT the credential, UPDATE it, INSERT the refresh
token. The UPDATE of an authorization code is the end of `validate_authorization_code`; of a
refresh token, `revoke_refresh_token`. The SELECT of the user in between reads a row that is never
deleted. `client_credentials`, `userinfo` and `introspect` change no state here.

| Run | Instance | Shows |
|---|---|---|
| `Identity`, slice "grants" | 2 users, 2 clients, 2 credentials, 2 requests at once, faults | `TradedIsSpent`, `LineKeepsOwner`, `OneAlivePerLine` |
| `GrantsReuse` | 3 credentials, 2 requests at once, no faults | violated: `TradedOnce` |

In the slice the users sign in, and out, before anything else happens: a user who is signed out only
consents to less. `raced` is history: the lines in which two requests held one credential between SELECT and
UPDATE, where `OneAlivePerLine` promises nothing. Three credentials in `GrantsReuse` are a refresh
token and its two successors.

### TokenGate (`main.py`, `core/jwt_utils.py`, the intervals of `core/signing_keys.py`)

The gate in time. `now` is the clock, a key is the time of its creation, `disk` the keyset file (with the
time of its active key for its mtime), `mem[w]` and `mtime[w]` the `_state` and `_state_mtime` of a process,
`jwts[j]` the key and the expiry of a token, `memo[w]` the `lru_cache` of `cached_verify_token()` in the order
of use, `call[c]` a verification that has succeeded in its thread and has not been stored yet.

| Code | Actions |
|---|---|
| `_ensure_state_loaded_locked`, `_load_state_from_disk_locked` | `ReadKeyset`, `KeepKeyset` (and `Loaded`, the guard of the calls) |
| `sign_token`, `_maybe_rotate_locked`, `_prune_keys`, `_rotation_loop`, `jwks` | `Sign`, `UseKeys`, through `Ready` and `Rotate` |
| `_file_lock`: TimeoutError | `LockTimesOut` |
| `middle_ware`, `cached_verify_token`, `VerifyToken` | `RefuseRevoked`, `ServeCached`, `Verify`, `Remember` |
| a revocation arrives; time; a process starts | `Learn`; `Tick`; `RestartProcess` |

Every process verifies with its own memory. It reads the file when the mtime is not the one it knows, the text
first and the mtime after it, so that a rotation in between leaves it with an old keyset that looks current until
its own active key is due. A process with such a memory refuses (401) a token of a newer key and accepts
it after its next load; a call that times out on the lock fails (500 at the gate, where nothing is cached), and the
next call, which does not look again for an interval, may succeed; and of two threads that verify one token one may
fail where the other stores its success. None of these refusals is final, and `refused` does not count
them: `RefusalIsFinal` is about the others, of tokens revoked, expired or whose key is pruned from a keyset
that is not behind. A hit of the cache asks neither the clock nor the keys, so that "an expired token is not
let in" does not hold of this code, and nobody wrote that it does.

`KeyOutlivesToken` is the arithmetic that `SigningKeys` assumes: with retention at least rotation, check interval
and lifetime together (the ASSUME) the key of a live token is in the file and in every memory that is not behind it.
Its exception, `early`, are tokens signed by a process that is `blind`: its `_last_rotation_check` starts at 0
of a clock that counts from the boot of the host, so right after a boot the first look waits; and a look that
found the key due and timed out on the lock counts as one. A rotation is one step on the file here;
`SigningKeys` has its file-system calls.

### Accounts (`services/onboarding.py`, `sso/oidc/signup.py`, `services/federation_service.py`, the callback and the token exchange of `endpoints.py`)

An account is a tenant and an address, as the unique key of `users` has it. `work[r]` is a request
between two statements: outside onboarding each statement commits on its own, and `Die` may end a
request after any of them.

| Code | Actions |
|---|---|
| `onboard_tenant` | `Onboard` |
| `create_invitation`, `revoke_invitation`, time | `StartInvite`, `SelectUser`, `InsertInvitation`; `RevokeInvitation`; `InvitationExpires` |
| `signup_submit`, `signup_api` | `StartSignup`, `StartInvited`, `SelectUser`, `InsertUser`, `MarkAccepted` |
| provider administration; the provider itself | `UpdateProvider`, `DeleteProvider`; `ChangeClaim` |
| `authorize`, `federation_callback`; time | `BeginFederation`, `Callback`, `Consume`, `Enter`; `TxnExpires` |
| `validate_broker_subject_token` | `TokenExchanged` |
| `_find_or_create_local_user` | `SelectLink`, `SelectEmail`, `Provision`, `InsertLink` |

`shared` and `lost` are history: things two requests held at a time, and things left half
way by a request that died, or by a provider deleted between the INSERT of a user and that of its link. The properties name them as the only exceptions. `SignInCanBeRepeated` lists the ways in which a
subject can be left with a sign-in that fails every time: the one to know is a subject without an e-mail
address whose first request died between the INSERT of the user and that of the link.

### TenantPool (`database/__init__.py`)

`setting[c]` is `app.tenant_id` of a pooled connection, `serves[c]` the request that has it. The
statement that clears the setting follows the `yield` outside a `finally`, so `Raise` skips it;
what resets the connection is the pool (asyncpg sends RESET ALL before it takes a connection back),
which is modelled in `GiveBack` from how the code uses it. `OwnTenantOnly` is the promise;
`WaitersAreServed` says that requests which need a connection twice (first to look their client up)
cannot wait for each other.

| Run | Instance | Shows |
|---|---|---|
| `Identity` | `Accounts`: 2 tenants, 3 addresses, 1 invitation, provider and transaction, 2 subjects, 2 requests. `OidcGrants`: see there. `TokenGate`: 2 processes, 2 tokens, 2 threads, rotation 2, check 1, lifetime 2, retention 5, cache of 1, 6 ticks. `TenantPool`: 2 connections, 3 requests, 2 tenants | `AccountsTypeOK`, `OneAccountPerInvitation`, `OneSessionPerTransaction`, `EntersLinkedAccount`, `LinksStayInTenant`, `SignInCanBeRepeated`; `TradedIsSpent`, `LineKeepsOwner`, `OneAlivePerLine`; `KeyOutlivesToken`, `RefusalIsFinal`; `OwnTenantOnly`, `WaitersAreServed` |

The four share no state, and `MCIdentity` explores them in slices: which part of the system moves in a
behaviour is chosen at its start, so that the state space is the sum of the slices. A cache of one
is enough for an eviction by another token; retention 5 is the least the assumption allows; six ticks
cover two rotations and a pruning. One slice of the gate has one token, one request at a time and a second process that
rotates the keys, for six ticks; the other has two tokens, two threads and revocations while the keys stay, for three.
Two requests for one subject, or for two subjects with one
address, are the races of `_find_or_create_local_user`; the "one" slice also changes the address
once and the provider before that.

### AuditPipeline (`audit_logs/redis_logger.py`, `consumer.py`)

`buffer[w]` and `flight` are what a worker holds in memory; `stream`, `trimmed`, `cursor` and `pending`
the Redis stream with its group; `hand[w]` the batch of a consumer; `rows` the table.

| Code | Actions |
|---|---|
| `info`, `audit`, ...; `force_*` | `Publish`; `PublishImmediate`, `PublishImmediateFails` |
| `_flush_loop`, `_flush` | `FlushTick`, `FlushDone`, `FlushFails`, `FlushReplyLost` |
| `AuditLogConsumer.run`, `process_batch` | `ReadGroupNew`, `ReadReplyLost`, `InsertBatch`, `InsertFails`, `Acknowledge`, `AcknowledgeFails` |
| `lifespan` after its yield, `stop` | `StopConsumer`, `CancelFlushLoop`, `FinalFlush`, `ExitWorker` |
| crash, start | `CrashWorker`, `StartWorker` |

`NothingVanishes` is an account of every logged entry; the losses it admits are named: the part of a
failed batch over the limit, a flush of the loop that `stop()` cancels, memory that dies with its process,
entries evicted by MAXLEN before delivery, and entries stranded in the pending list of a consumer that
failed (consumers read ">" only, under a name with their process id).

### ConfigStore (`tenant_service.py`, templates in `policy_service.py`, providers in `federation_service.py`, `clients.py`, and their routes)

The four kinds of document administrators edit differ in their cache and in one field that has a
route of its own (`Own`). `req[r]` is a request with the document it has read; a value is
the request that wrote it, so that a row tells whose value each field holds.

| Code | Actions |
|---|---|
| `get_tenant_settings`, `get_tenant_policy_templates`, `list_identity_providers` | `ListCached`, `SelectList`, `FillCache`; `Lapse` (TTL) |
| partial updates | `StartUpdate`, `ReadFirst`, `ReadAgain`, `WriteBack`, `DropCache` |
| create, delete | `Create`, `Delete`, `DropCache` |
| failures | `Abandon`, `Restart` |

Updates read the database and not the cache: the routes pass no Redis connection to them. `raced`
is history, documents written from an outdated read, where the later write takes the earlier one
back. `leaked` is the other exception: `update_token_settings()` assigns into
`DEFAULT_SETTINGS["tokens"]` when a tenant has no settings, and what one tenant asked for becomes a
default of that process. `NoForeignValues` says that this is the only way for a value to travel.

Settings come in sections, and the conversion on the way is part of `StartUpdate`: the routes take Pydantic models
(`models/tenants.py`), whose `model_dump()` holds a default for every field the caller has left out, and pass
whole sections on. A request thus has `fields`, which the caller provided, and `resets`, the rest of the
sections. `padded` is history: the fields such a default was passed on for since they were last provided.
`FieldsKept` says that a field no update overlapped on holds what it was last given, or that default, or what `leaked`
admits; `SettingsPartialUpdate` that the second of these does happen with two requests one after the other, where the
docstring of the route promises that only provided fields are updated.

| Run | Instance | Shows |
|---|---|---|
| `Platform` | `AuditPipeline`: 2 workers, 2 entries, buffer 2, put-back 1, read 2, cap 1, 2 faults. `ConfigStore`: 1 process, 3 requests, 2 tenants' settings, one document of each other kind, 3 fields in 2 sections | `PlatformTypeOK` (the type invariants of both), `NothingVanishes`, `OneRowPerEntry`, `EntriesArrive`; `FieldsKept`, `NoForeignValues`, `ListsCurrent` |
| `SettingsPartialUpdate` | 1 tenant, 2 requests, a section of two fields and one of one | violated: `OnlyProvidedFieldsChange` |

`MCPlatform` explores one component, and one kind of document, per behaviour; requests and entries are
interchangeable and used in one order, and a request provides one section (or a field of the section tokens), or the parts
of another document. With a put-back of one and a buffer of two both halves of
`batch[:100] + buffer[:100]` drop something; a cap of one trims before delivery. Two faults make a
crash with a restart, or a lost reply with a failed insert. Three requests are two overlapping updates and
a reader.

Fairness: the event loop runs the flush loop, the consumer and what it has in flight, a shutdown that
has begun goes on (`AuditFairness`). `EntriesArrive` is conditional on a worker staying up.

### AccessControl (`policy_service.py`, `core/auth.py`, `core/authz.py`, `api/v1/authz.py`)

A token carries its user's rights as they were when the policies were read. `pol` is the table, each row with the
moment up to which it is valid (`conditions.validity_time`, by which the SELECTs behind the claims filter:
`Rows`), `over` the moments that have passed, `tok[j]`
a token with its claim and with what the policies named; `task[t]` a request that changes policies and
then sweeps the user's sessions; `revoked` and `known` stand for the revocation manager: every step of the
module changes them as `RevocationService` allows (`RevokesByService`, proved as `SweepsFollowService`).

| Code | Actions |
|---|---|
| `authenticate`; `refresh`, OIDC token endpoint | `SignIn`, `CreateSession`; `IssueUntracked` |
| `create_policy`, `assign_*`; `bulk_assign_policy` | `CreatePolicy`; `BulkAssign` |
| `update_policy`; `delete_policy`, `revoke_policy_from_user` | `UpdateRead`, `UpdateWrite`; `DeletePolicy` |
| `revoke_all_sessions`; failures | `SweepSelect`, `RevokeNext`, `SweepUpdate`; `AbandonTask` |
| `middle_ware` | `Learn` (and `Usable`, the guard) |
| time | `Lapse` |

`why[j]` names the first gap a token fell into, one of eight: it has no session row, was being issued while the
policy changed, the change was a bulk assignment, overlapped another, was one of the conditions alone (for which
`update_policy()` does not sweep), the validity of a policy ended (which nobody notices), the UPDATE of a sweep marked
its row unseen, or a sweep died. The other conditions are read from the table when a decision is made and
are in no token. `NarrowingIsSwept` says that there are no other gaps. The claim is computed with the
code's arithmetic (a sum of flags, tested with `&`), and `RightsAreNamed` says when that is the union.

| Run | Instance | Shows |
|---|---|---|
| `AccessControl` | 2 workers, 1 user, 1 policy, 1 resource, 2 flags in 4 lists (one with a repeated action), 2 tokens, 1 moment, 1 request, 3 changes, `InTurnSpec` | `AccessTypeOK`, `NarrowingIsSwept`, `RightsAreNamed`, `NarrowingLands` |

Three changes grant, widen and narrow; two tokens are one that a sweep finds and one that is being
issued. `MCAccessControl` restricts what does not matter to them: tokens are issued in one order, administrators
reach the first worker and the second only learns, and rows other than [write] and [read, write] come early and
without a validity. Each of the eight gaps is met in the instance by a token with a right its user has lost. Fairness: a request that has begun to sweep goes on, revocations spread (which
`TokenRevocation` is about).

All runs say `CHECK_DEADLOCK FALSE`: the counters that bound the instances let the models stop, and
a system without requests may rest.
The type invariants of `TokenRevocation`, `SessionService`, `SigningKeys`, `OidcGrants`, `TokenGate` and
`TenantPool`, and `OneConsumerPerEntry` and `ServesFullyReplayed`, are in no `.cfg`: section 3 proves them
for every value of the constants, and the runs are kept for what is harder to see. With a batch of one
a failing XACK cannot cut a batch short; the theorems of `TokenRevocation` cover every batch size.

## 3. What is proved

For every value of the constants that satisfies the ASSUMEs (any number of workers,
processes, tokens, requests; any bounds):

| Theorem | Statement | Needs |
|---|---|---|
| `TypeCorrect`, `ReplayIsComplete`, `FanoutStaysDurable`, `MessagesFollowLog`, `EntriesHaveOneConsumer`, `ServingIsReplayed` | the safety properties of `TokenRevocation` | `IInv` |
| `ServiceImplemented` | `Spec` implements `RevocationService` | `IInv`, step by step |
| `SessionTypeCorrect`, `EndedRequestsAreEffective` | the properties of `SessionService` | a per-request invariant |
| `RevokedRowsAreBroadcast` | `RevokedRowIsBroadcast` | `BroadcastInv` |
| `KeysetTypeCorrect`, `ActiveKeyIsPresent` | with any crashes | `BaseInv` |
| `LockExcludesOthers`, `TokensRemainValid` | with any crashes, until a lock is robbed | `LockInv`, `KeepAll` |
| `GrantTypeCorrect`, `TradedStaysSpent`, `LinesKeepOwner` | any requests in parallel | `GrantInv` |
| `OneAliveUnlessRaced` | `OneAlivePerLine`, any requests in parallel | `AliveInv` |
| `GateTypeCorrect`, `KeysOutliveTokens`, `RefusalsAreFinal` | any processes and threads, tokens, cache size, and intervals that fit `GateAssumption` | `GateInv` |
| `PoolTypeCorrect`, `TenantsStayApart`, `NobodyWaitsForWaiters` | any connections, requests, tenants | `Flat` |
| `AccountsTypeCorrect`, `SubjectsEnterTheirAccount`, `SubjectsStayInTenant` | any tenants, providers, subjects and requests | `BaseInv` |
| `InvitationsMakeOneAccount`, `TransactionsOpenOneSession` | any requests in parallel, but for what two of them held or one left half way | `OnceInv` |
| `SignInsCanBeRepeated` | any failures | `MadeUpInv` |
| `AuditTypeCorrect`, `EntriesAreAccountedFor`, `EntriesGetOneRow` | any workers, entries, limits, failures and crashes | `PlaceInv`, `DeliveryInv` |
| `ConfigTypeCorrect`, `UpdatesKeepFields`, `ValuesStayHome`, `CachedListsCurrent` | any tenants, documents, sections of fields, processes and requests in parallel | `ConfigInv` |
| `PlatformTypeCorrect` | the type invariants of both, of their composition | `AuditInv`, `ConfigInv` |
| `AccessTypeCorrect`, `LostRightsAreSwept`, `ClaimsNameTheirRights` | any workers, users, policies, validity times, tokens and requests in parallel | `AccessInv` |
| `SweepsFollowService` | every step of `AccessControl` is one of `RevocationService`, or leaves revocations alone | `AccessInv` |

The exceptions inside the properties of the core (`swept`, `robbed`, `raced`) are those the violated
runs show to be needed.

*TokenRevocation.* None of the properties is inductive alone. `IInv` (theorem `InvariantHolds`)
adds that a worker's cursor and filter agree, that what is in a filter was requested, that a batch
is pending and disjoint from the others', and that a call that is past XADD has its token in the
stream or among the lost. The refinement follows from it action by action: replay, Pub/Sub and
consumer steps are `Learn`, `XAdd` is `Record` (trimming drops durable tokens), `ReplayDone`
is `Open` because the cursor has reached the end of the stream.

*SessionService.* `EffectInv` says what each request has achieved: what it selected and took off
its list is refused by its worker, which is open. `BroadcastInv` adds that the UPDATE of a bulk
revocation hits only rows that were selected, since it names rows that exist and no row leaves
"revoked"; for `revoke_all_sessions` the rows that were selected are refused by then, and the others
are `swept`.

*SigningKeys.* `BaseInv` holds without any condition: a keyset being written has its active key, and
a process that is about to use its memory has loaded it. `LockInv` says that, until a lock is robbed,
whoever is inside the lock owns the lock file; then the file does not change under a process inside
the lock, and `KeepAll` (what is written contains every live key of the file and of all memories) is
preserved.

*OidcGrants.* `GrantInv` ties a request to its credential (same client, user and family once
selected; spent once issuing) and a row to its parent. `AliveInv` adds that in a line that was not
raced one request at most holds a credential, and that while it is issuing nothing of the line is
alive.

*TokenGate.* A keyset in memory, or read and not yet kept, `Fits` the file: it was in the file once, so it lacks the
keys made since and has every older one that could still have a live token. `MemInv` adds that a process that is
not blind, and need not look again, has an active key at most rotation plus check interval old; a token's
expiry is then at most retention after its key (`TokenInv`), and pruning spares it. A refused token is
in the filter, or `Gone`: it is not cached, no thread is about to cache it, and it is expired or its key is in no
keyset the process has or can still get (`RefusedInv`). None of this returns, since every step on the keys moves the
file on and takes keysets from it (`KeysMove`).

*TenantPool.* `Flat` states, per connection and per request, who has what; the three properties follow
from it.

*Accounts.* `BaseInv` says what a request knows between two statements: the account it has found or made
is in the provider's tenant, and as long as the subject's address does not change it is `Target`, the one
account the subject can be led to; a link says the same. `OnceInv` gives an invitation or a transaction
that is neither spent nor shared one holder at most. `MadeUpInv` adds that an account under a made-up
address belongs to the subject it is made up of, so that a subject without an address and without a link
meets such an account only after a request died, or lost its provider, between the two INSERTs.

*AuditPipeline.* `PlaceInv` follows an entry: it is in one place of one buffer or of one batch in flight, at
one position of the stream and then not in memory, unless a batch was put back after its XADD; it is
nowhere only if it is among the forgotten. `DeliveryInv` follows a position: what is before the group's
cursor is pending, evicted or has its row, what is after it has no row, and no two consumers have it in hand.
That a batch leaves no entry behind is a fact about the cardinality of prefixes (`BatchIsPrefix`).

*ConfigStore.* `FieldsKept` speaks of rows only, and what breaks it is what a request has in its hands. `ConfigInv`
adds, per request: what it has read is still what the database holds, or the request is marked `stale`, in
which case its write puts the document into `raced` (`Fresh`), so that a write of a document that was not raced
changes what it provides, resets what its sections pass on and leaves the rest (`Kept`); a value it carries was provided for its document
and field, or came with changed defaults (`Traced`); and what each stage of it knows (`Sound`). `Fresh` of a
reader that is about to fill a key gives `ListsCurrent` as well: a fill with a fresh list makes the list
current, a fill with a stale one makes it `dirty`. Values are followed by the request that wrote them, and a
request keeps its document, its fields and its resets for good (`Remembers`), so that "provided" never becomes false.

*AccessControl.* The properties ask for a sweep only once a right is gone, so that the invariant has to say why the
sweep will find the token. `Standing`: a live token that is neither revoked nor in a gap has an *open* session row,
and one with excess rights is in a sweep that has yet to select or has it on its list; one still being signed
with excess is in a gap already. `Working`: a pending UPDATE that will not sweep covers the row it replaces,
unless that row changed after it was read; and what a sweep has selected and taken off its list is revoked.
Rights are compared as sets of named actions (`NamedGrows`): only an UPDATE or DELETE that sweeps, or is
named in a gap, and the end of a validity, which is a gap of its own, make `Named` smaller.

The assumptions are those of the modules. Two of `AccessControl` deserve a word: `None`, the value of a column or
slot without a value, is no user, resource, moment, list of actions, row or gap; and `MaskAssumption` says that a sum of distinct flags is
their union. The latter is about the code's flags (powers of two) and its proof would be an induction over sets
of them, which the prover cannot do; TLC evaluates it for the flags of the instance.

The safety properties of all passing runs are proved. Only model-checked: the liveness properties (`RestartRecovers`, `BacklogDrains`, `FanoutCompletes`,
`RevocationLands`, `DueKeyIsReplaced`, `StaleMemoryHeals`, `EntriesArrive`, `NarrowingLands`), since fairness and ENABLED are beyond the prover; and the violated properties.

## 4. Plan

What is left, in this order:

1. Action properties from the invariants at hand, such as the steps that may take a token out of use, and the
   safety part of each liveness argument: what holds until the awaited step.
2. The branch of `refresh()` that revokes a token whose profile changed, in `SessionService`.
3. `AccessControl` with a network of its own between revocation and gates, as `SessionService` has, once the
   instance allows more than one user: `SweepsFollowService` shows that its steps fit the service.
