# Verification of the NestJS user service

TLA+ models of the parts of this repository that keep state and that run
concurrently: session tokens, the pool of tenant database clients, the creation
of a tenant and its users, the user accounts of the root database, trusted
devices and token rotation, and the chat gateway. Three components also have an
abstract specification that they are shown to implement. TLC
checks them on small instances; all safety properties that hold, and the three
refinements, are proved with TLAPS for every value of the constants.

File names below are relative to `src/` of the repository.

## 1. The system

A NestJS service. Each client (a customer, named by a *client code*) has a MySQL
database of its own, a root database holds the clients and the root users, and
Redis holds token and url caches. Node runs one step of a request from one
`await` to the next; between two awaits of a request anything else may run. That
is where the hard behaviour is, and every model interleaves exactly there.

| Component | State | Operations | Talks to |
|---|---|---|---|
| Session tokens: `auth/application/auth.service.ts`, `login-user.handler.ts` | `RefreshToken` rows, `ipDenylist` | login, tenantLogin, generateTokens, handleTokenTheft; beyond the routes: login with a device token, refreshTokens, revokeRefreshToken | cache service, both databases, mail |
| Cache service: `shared/cache/cache.service.ts` | Redis keys: access, refresh, blacklist, dbUrl | get, set, blacklist by SCAN, delete by SCAN | Redis |
| Refresh: `update-refreshAccessToken.handler.ts` | none of its own | execute, newAccessToken | cache service, root database, AuthService |
| Trusted devices: `auth.service.ts` (validateOrRegisterDevice), `auth.controller.ts` (updateTrustedDevice) | `TrustedDevice` rows | validate, register | root database |
| Validation: `jwt.strategy.ts`, `jwt-auth.guard.ts`, `tenant.middleware.ts` | none of its own | validate | cache service, root database |
| Client pool: `tenant/tenant-client.manager.ts` | `clientMap`, `lastUsedMap`, open connections | getPrismaClientByCode, eviction, idle sweep | Redis, root database |
| Provisioning: `create-clientadmin.handler.ts`, `migrate.js`, `generate-schema.js`, `register-env-key.js` | databases, `.env`, the shared schema file, generated clients, root client rows | createClientAdmin | child processes, event bus, tenant repositories |
| Signup and mail verification: `create-clientUser.handler.ts`, `verify-userEmail.handler.ts`, `users-event.handler.ts` | tenant `User` rows, mails | createClientUser, verifyEmail | event bus, tenantLogin |
| Social login: `google_socialCreateOrLogin.handler.ts` | root `User` rows | googleLoginCallback | AuthService |
| Password reset: `update-resetPassword{Request,Confirm}.handler.ts` | reset token and expiry of a row, mails | resetPasswordRequest, resetPassword | event bus |
| Two-factor: `verify_generateTwoFactorQr`, `verify_twoFactorOtp`, `login_2faTrustedDeviceReg` handlers | secret and flag of a row, `TrustedDevice` rows | generateTwoFactorQR, verifyTwoFactorAuth, loginWithTwoFactor | AuthService |
| Chat gateway: `noti/chat.gateway.ts` | chat sessions in memory, rooms | handleConnection, handleChat, markAsRead | sockets |
| Guards, notification gateway, Slack, health, logging | see section 8 | | |

What is hard: revocation spread over several Redis calls while other requests
fill the same caches; keys with their own times to live; connection pool races;
a file shared by child processes of several requests; events published before
the row they are about exists; flags read before an await and used after it;
calls that fail half way, where nothing is undone.

## 2. The modules

| Module | Models | Proofs | TLC instances |
|---|---|---|---|
| `Sessions` | session tokens, cache service, refresh, validation | `SessionsProofs`, `SessionsServiceProofs`, `SessionsTurnProofs` | `MCSessions` |
| `TokenService` | abstract: what the session core promises | `SessionsServiceProofs` | `MCSessions` |
| `TenantClients` | the client pool and the repository call that uses it | `TenantClientsProofs` | `MCTenantClients` |
| `ClientPool` | abstract: what the pool promises the repositories | `TenantClientsProofs` | `MCTenantClients` |
| `Provisioning` | provisioning, signup, mail verification | `ProvisioningProofs` | `MCProvisioning` |
| `TenantUsers` | abstract: what provisioning, signup and verification promise together | `ProvisioningProofs` | `MCProvisioning` |
| `Accounts` | social login, password login, password reset, two-factor, the payloads cached with tokens | `AccountsProofs` | `MCAccounts` |
| `Devices` | AuthService with device tokens, enabling two-factor, rotation, revocation, theft alarms | `DevicesProofs` | `MCDevices` |
| `Chat` | the chat gateway and its sockets | `ChatProofs` | `MCChat` |

Except in `Chat`, a request (or repository call) is a member of a constant set and a
record of locals with a `pc` that names the await it is suspended at: `new`
before it arrives, `done` after it is answered. One action is one stretch of code
between two awaits. `Fail` lets the awaited call reject; what was done stays
done. The arrivals are guarded by how many requests are in flight (`MaxInFlight`). The components
meet at named points: `Provisioning` ends a verification where `Sessions` starts
`tenantLogin`; `Accounts` ends in `AuthLogin` and `AuthIssue`, which stand for the steps of
`AuthService.login` that `Sessions` has one by one, and `Reload` for a refresh or a
validation of `Sessions`, of which it keeps what they leave in the cache; `RefreshAlarm`
in `Devices` is the theft branch of that refresh; `TenantClients` models the
call behind each operation of a tenant repository, and `Provisioning` uses its
precondition (`Connectable`).

### Sessions

`rows` are the `RefreshToken` rows of all databases (`Home` says in which one a
user lives), `accessCache`, `refreshCache` and `blacklist` the Redis keys with
namespace and expiry. An access token is its payload: a login signs the bare user
with an `iat` in whole seconds, so two logins in one second sign the same token; a
refresh adds address and millisecond. `given`, `handed` and `revoked` record what
clients hold and what was ever blacklisted; `was` records what was true of a
request's token on arrival. `LoginUser`, `LoginKnown`, `VerifyUserEmail`,
`RefreshAccess` and `Validate` are the ways in, and `UpdateTrustedDevice`, which sends
a validated request on to the refresh handler with its device id as the refresh token;
the namespace of the last three is the `X-Tenant-ID` header, which the client chooses. Nothing
validates the body of a refresh, so a token may be missing; `FoundRows` is what Prisma's
`findFirst` may return then, any valid row of the table. Assumed: one SCAN returns all keys
of a user (`COUNT 100` on a small keyspace), and `createKeyv` stores keys under
the names the code gives them, so that SCAN patterns match.

`TokenService` says the same without rows, caches and awaits: refresh tokens have an
owner for ever, a refresh redeems the token it names or, if it names none, one of the
user's, access tokens are signed, revoked for good and expire, and a request
is granted or refused in one step. `Service` in `Sessions` is its instance: the owner is
the user of the row, `revoked` is carried over, a request is `asked` until it passes
its last lookup and `granted` from there, and is stale if its token was revoked
when it arrived. `ImplementsService` is the abstract specification under this mapping.

### TenantClients

`clientMap` and `lastUsedMap` are the two maps, `db` and `connected` say for which
database each `PrismaClient` was built and which have open connections. A client
that was disconnected connects again by itself when it is queried, as Prisma
documents. A disconnect succeeds: the code does not await it, and if it rejected nobody
would handle the rejection, which ends the process and every connection with it. Eviction and insertion are one action: there is no await
between them. `usedAt` is history for the LRU property. `ClientPool` keeps only the
tenants that have a pooled connection, what each caller wants and what it got; `Pool`
is its instance, with the keys of `clientMap` and the database of the client a call
holds, and `ImplementsPool` the abstract specification under this mapping.

### Provisioning

`schemaFile` is the one `prisma/schema.tenant.prisma` that every run of
`migrate.js` writes and then reads twice. The handler runs `migrate.js` twice in
a row: its test for an existing directory looks under `dist/`, where the scripts
never write. `isDbCreated` is tested by the handler and set by nothing, so the
model has no such state. A verification carries the client code of some link and
the token of any, or no token, since nothing validates the query; `FoundUsers` is what
`findFirst` may return then. Client codes are taken to be in lower case, as the
generated names assume.

`TenantUsers` knows tenants that are served, their users and the links mailed, and
nothing of files, migrations and requests: a tenant stays served, a user joins a served
tenant with an address and a link of its own, a confirmation with the token of a link
confirms the user made with it, and one without a token some user of its tenant.
`Signup` in `Provisioning` is its instance: served are the clients whose database has
its client row and can be connected to, and `ImplementsSignup` is the abstract
specification under this mapping.

### Accounts

`account` is the user table of the root database, one row per address at most.
The identity of a request stands for the uuid or secret it generates. `signedIn` are the
payloads cached with access and refresh tokens, under `root` or under another
`X-Tenant-ID`; this is what `req.user` is made of, flag included. A login drops those
under `root` only and leaves a new one; `Reload` is a validation without a cached payload,
which reads the row, or a refresh, which copies the payload of the refresh token or reads
the row. Which tokens pass blacklist, expiry and refresh table is in `Sessions`; here any
may, for every user in `issued`. A reset confirmation carries the token of a mail or none;
`OpenResets` is what `findFirst` may return. A mail that is lost is one that never leaves
`outbox`. `spent` records tokens used or
replaced. `good` (is the code of a verification right?), `gate` (was the flag set?) and `stale` (was
the link used, replaced or expired?) are facts of the moment a request arrived;
no action but the arrival reads or writes them. `IsCodeValid` is `TRUE` because its
callers test a promise. The clock stays within the hour for which a session's
payload is cached.

### Devices

`AuthService` as its test uses it (`auth.service.spec.ts:101` logs in with a device
token) and as its public methods allow; no route passes a device token today. `rows`
and `devices` are the `RefreshToken` and `TrustedDevice` tables, `denied` is
`ipDenylist`, `twoFactor` the users with the flag, which `VerifyTwoFactorOtp` sets at any
time, for users of the root database, whatever refresh tokens they hold. `RefreshAlarm` is
the only live caller of `handleTokenTheft`, the refresh handler, for a user whose record
has another address than the request's. A call keeps the clock it read (`at`) and compares
a device with it after the await, as the code does. What login does to Redis is one step
here; `Sessions` has it await by await. `spent` records whether the token of a rotation was
invalid on arrival, and the `two` of a row whether it goes back to a login with two-factor:
both are history. Three refusals come straight from the code: an unknown device token
rejects (`auth.service.ts:233` reads a field of `null`), the two-factor login does not
pass on the device it registered, and the alarm always ends in an exception. A token of
another user, or an expired one, from the caller's own address registers a new device
(`:246`).

### Chat

The handlers have no await, so each is one action; what interleaves is the
network. `up` and `down` are the requests and events on the way, in order per
socket; `Disconnect` loses them, `Restart` closes every socket and empties
`sessions`, which live in memory. `query` is the handshake, from which the handlers
take user and role; an administrator may carry any user id. `seen`, `since` and
`asked` are history. A socket connects once; a page that comes back is another one.
No user is called `Admin`.

## 3. Runs

`tlc -config <run>.cfg MC<Module>` in this directory. Times are for two workers.

| Run | Checks | Size | Result |
|---|---|---|---|
| `sessions_concurrent` | TypeOK, RevokedTokenRefused, TenantIsolation, RefreshGrantOwner, SessionsBounded, ImplementsService | 3 requests, 2 in flight, a root and a tenant user, 3 refresh tokens, keys that live one tick; 733k states, 2.7 min | holds |
| `sessions_sequential` | LoginRevokesEarlier, LoginLeavesOneSession | 3 requests one after another, 3 ticks, 2 addresses, one user with two-factor; 404k states | holds |
| `sessions_theft_alert` | TheftAlertSent | 2 requests | violated |
| `pool_concurrent` | TypeOK, SizeBound, PoolSound, TenantRouting, EveryCallEnds, IdleSwept, ImplementsPool, OrphanedByOverlap | 2 calls at once, 2 tenants, pool of 1, fair; 48k states | holds |
| `pool_sequential` | NoOrphan, EvictsLRU | 4 calls one after another, failing connections and queries; 24k states | holds |
| `provisioning_concurrent` | TypeOK, AtMostOneAdmin, MigrationsConfined, VerifiedByMail, ImplementsSignup | 3 requests, 2 in flight, 2 paid clients; 110k states | holds |
| `provisioning_race` | MigrationTargetsOwn | 2 requests at once, 2 clients | violated |
| `accounts_concurrent` | TypeOK, StaleLinkRefused, PasswordByMail, TokenOfOwnClient, DeviceNeedsTwoFactor, TwoFactorGate, SealHolds | 5 requests, 2 in flight, 2 addresses, 2 clients; 277k states, 2 min | holds |
| `accounts_code` | EnabledByValidCode | 4 requests one after another | violated |
| `accounts_secret` | SecretKeptOnceEnabled | 4 requests one after another | violated |
| `devices` | TypeOK, TwoFactorHasDevice, SpentRefused, DeniedForCause | 3 calls, 2 in flight, a root and a tenant user, 2 addresses, 3 refresh tokens, 2 devices; 558k states, 1.3 min | holds |
| `chat_delivery` | TypeOK, SessionOfOpen, ClientSeesSession, AdminSeesSessions, ReadWasAsked, HistoryKept | 3 sockets, 2 user ids, 3 requests, 1 restart; 2.2M states, 1.5 min | holds |

What the passing runs show:

* **RevokedTokenRefused**: a token that was blacklisted in the request's namespace before
  the request arrived is refused there as long as it lives. It rests on the order of the
  two lookups in `validate`, and on the blacklist living at least as long as a token
  (`BlacklistAssumption`: both default to one hour, from two variables). It does not
  reach across namespaces (section 5).
* **TenantIsolation**, **RefreshGrantOwner**: whatever header, user id and refresh token
  a request combines, a tenant's user is served under its own code only and a refresh
  goes to the owner of the token; one without a token goes only to a user who was issued
  one.
* **SessionsBounded**: a user never has more valid refresh tokens than requests can
  be in flight, so logins one after another leave a single session.
* **LoginRevokesEarlier**: a login leaves no live access token that the user was handed in
  its namespace off that namespace's blacklist. It needs logins that do not overlap: with two in flight the second clears the access
  key the first has just cached without having blacklisted it.
* **LoginLeavesOneSession**: when a login answers, its refresh token is the only one of the
  user that the refresh handler would take in that namespace, out of Redis or out of the
  table, although failed logins, refills by validations and expired keys came before.
  It needs logins that do not overlap too.
* **ImplementsService**: seen from outside, awaits, caches and failures do not show.
  A request is decided in one step, in the user's own namespace; a refresh token never
  changes hands; a token revoked in a namespace before the request asked there is refused
  while it lives.
* **SizeBound**, **PoolSound**, **TenantRouting**: the pool keeps its size, its two maps stay
  in step, and a query reaches the database of its own code, however calls, evictions
  and sweeps interleave. **NoOrphan** and **EvictsLRU** hold for calls that do not overlap.
* **ImplementsPool**: to the repositories it is a pool of at most `MaxSize` connections
  that answers a call with a connection of its tenant and gives one up for a
  caller only when it is full, one at a time.
* **OrphanedByOverlap**: where `NoOrphan` fails, this says why. With calls that overlap a
  connection is left without an owner in two ways only: a second miss for its code
  overwrites its entry, or a caller still queries it after an eviction or a sweep (Prisma
  connects it again) and then ends.
* **EveryCallEnds**, **IdleSwept**: every call ends and every idle client is swept.
* **AtMostOneAdmin**, **MigrationsConfined**, **VerifiedByMail**: racing and failing
  signups never give a tenant two administrators, never migrate a database
  that does not exist, and never verify a user on the token of another user's mail or on
  a link of another tenant. (A link without its token verifies some user of its tenant.)
* **ImplementsSignup**: the signup as a whole is what `TenantUsers` says. A mail may
  arrive before its user exists, or for a user that is never made, but its link stands for
  one address of one tenant from then on; a lost race or a failure half way makes
  no user and confirms nobody.
* **StaleLinkRefused**, **PasswordByMail**: reset links that were used, replaced or
  expired on arrival set no password, and a token sets the password of the row it was
  mailed to and of no other, with overlapping requests and confirmations. (A confirmation
  without a token is not a link and sets the password of some open reset.)
* **TokenOfOwnClient**: overlapping first social logins of one address, and the refreshes and
  validations that copy payloads on, leave only payloads of the client the row was
  created with.
* **DeviceNeedsTwoFactor**, **TwoFactorGate**: devices come after flag and secret, and no
  login that arrives after the flag is set gets to `generateTokens`, on any way in. A
  login under way when the flag is set still does.
* **SealHolds**: the counterpart of `accounts_secret`. Once every payload cached for the user,
  under `root` and elsewhere, and every request under way has the flag, none without it
  comes back, the flag stays and the secret is not replaced, for good. Until then a
  payload from before may be copied on by refreshes under its own header (section 5).
* **TwoFactorHasDevice**: every refresh token that goes back to a login with two-factor was
  issued to an address at which the user has a trusted device, through logins, alarms and
  rotations that overlap. (The device may have expired since: rotation never asks. A token
  from before two-factor was enabled is rotated without a device.)
* **SpentRefused**: a refresh token that was spent, revoked or invalidated when
  `refreshTokens` was called yields nothing. Two calls that overlap with one token
  do both succeed: it is read in one await and spent in the next.
* **DeniedForCause**: an address gets onto `ipDenylist` only for a call from it, and from
  `login` and `refreshTokens` only with a token that belongs to another address; an expired
  token does not deny anybody. The refresh handler compares with its Redis record, whose
  address may be that of a later request (section 5).
* **SessionOfOpen**: `handleChat` never meets a missing session.
* **ClientSeesSession**, **AdminSeesSessions**: while a socket is open its page gets what
  is filed in the sessions from its connection on, without gap, repetition or change
  of order. What was filed while a page was away is not sent again.
* **ReadWasAsked**, **HistoryKept**: read marks are set only on request of the session's
  user and never taken back, and no reconnection loses a session.

Each of these has a mutated form of one mapped definition, next to it in its
module (`\* Mutant: ...`), under which it fails.

What the violated ones show, as differences between the code and what its own
comments and tests say:

* `sessions_theft_alert`: `handleTokenTheft` calls `notifySecurityTeam` with its
  arguments shifted by one; the address is taken for a user id, the update
  rejects after the Slack message has gone out, and no mail reaches the owner.
* `provisioning_race`: two clients created at once: the second overwrites the
  schema file before the first deploys; the first reports success without tables.
* `accounts_code`: `isCodeValid` is not awaited; any code switches two-factor on.
* `accounts_secret`: the refusal of a second QR code reads the flag from the cached
  payload of the session; a session from before still replaces the secret.

### Bounds

`Reqs`/`Calls` and `MaxInFlight` bound the requests of a behaviour and how many run
at once; `MaxTime` the clock; `RefreshTokens`, `Clients` the identifiers ever
created; lifetimes are one or two ticks so that tokens and keys expire within a
behaviour (in `sessions_concurrent` the Redis copies live shorter than the tokens, so that
both paths of a refresh and a validation are taken). In `accounts_concurrent` a social
login may name either client or a code that is none. Two in flight reach every pairwise interleaving; a third request before
them sets the scene (a session to revoke, a mail to confirm), and five are needed
in `Accounts` for: create a row, request a link, deliver it, and two overlapping
requests on it. In `Chat` three sockets are a writer, a reader and one that comes and
goes. In `Devices` one login or registration precedes two overlapping calls, and lives of one tick
let tokens and devices expire before the last of them. `ResetLife = 0` makes one tick expire a link. Every action of the
modules fires in the passing runs. The proofs remove the bounds for the
properties of section 4. Symmetry is used for sets of interchangeable model values
and never together with liveness.

Deadlock is not checked: requests are one-shot, so a behaviour ends when all have
been answered.

### Fairness

Only `pool_concurrent` uses it: weak fairness of `Settle(p)` for each call (an awaited
promise resolves or rejects, and the event loop runs its continuation) and of
`CleanupIdle` (`setInterval`). Nothing else is fair: no request has to arrive,
time need not pass.

## 4. Proofs

`tlapm <Module>Proofs.tla`. Each proof module shows `Init => IInv`,
`IInv /\ [Next]_vars => IInv'` and reads the results off `IInv`. The invariants are defined
at the top of the proof modules, with what each part says; the models hold only
what the runs check.

* **SessionsProofs**: `SessionTypes`, `RevocationHolds`, `TenantsIsolated`,
  `RefreshOwned`; a refresh without a token is in all of them. `IInv` adds to the types what each await of login, refresh and
  validate has established (`FramesOK`), that cached tokens have a row of
  their owner and the right namespace (`KeysOK`), that a revoked live token has a
  blacklist key that outlives it (`BlacklistHolds`), and that past the blacklist lookup
  a token revoked earlier is dead (`RefusalHolds`). `RevokedTokenRefused` alone
  says nothing about requests before their last step. Uses
  `BlacklistAssumption`.
* **SessionsServiceProofs**: `ServiceImplemented`, the refinement of `TokenService`: the
  initial states map to initial states, and every await to one abstract step or to
  a stutter, from the `IInv` of `SessionsProofs` (a grant is local because `FramesOK` says so at
  the await before it, and fresh because of `RefusalHolds`). `SessionsAreBounded`:
  the bound is not inductive alone, since a login creates its row awaits after it
  has invalidated the others; `RoomHolds` counts the logins in between (`Pending`)
  with the valid rows.
* **SessionsTurnProofs**: both for requests that come one after another
  (`OneAtATime`, from `MaxInFlight = 1`). `LoginsRevokeEarlier`, for one request in flight and access
  keys that live as long as the tokens (`AccessTTL >= AccessLife`; the code takes them
  from two variables). `InTurn`: a live token in a client's hands is revoked
  or has a key the SCAN finds, a login past its SCAN has the live earlier ones revoked or
  on its list, and a reply carries no token without a key. A failed login may leave keys
  deleted, but only of tokens it has revoked. `LoginsLeaveOneSession` needs no assumption on
  lifetimes. `Closed` follows a login through its awaits: no valid row from the `updateMany` on
  and none but its own after `create`, no refresh key beyond its list while it deletes, none
  at all after that and none but its own after the last `set`. Only the end is the property;
  every await before it is needed.
* **TenantClientsProofs**: `PoolTypes`, `PoolSizeBounded`, `PoolConsistent`,
  `QueriesRouted`. `SizeBound` needs that both maps have the same keys (the victim is
  taken from one, the size from the other) and that the pool is finite, so that
  a least recorded time exists. `PoolImplemented` is the refinement of `ClientPool`.
  `OrphansExplained` is an action property; it needs that no client is in two entries
  and that a client being connected is in none (`Unshared`). `NoneOrphaned` and
  `EvictionIsLRU` assume one call in flight that ends within a tick (`MaxInFlight = 1`,
  `Prompt`). They rest on `Alone`: the only call misses while its code has no entry or
  works with the entry of its code, so the two ways of `OrphanedByOverlap` are closed, and
  the time recorded for a client is that of its last use.
* **ProvisioningProofs**: `ProvisioningTypes`, `OneAdmin`, `MigrationsStayConfined`,
  `VerifiedOnlyByMail`. One administrator: the primary key of the tenant's client row
  lets one request past `CreateMeta`, and only that request creates the administrator
  (`ClaimsOK`, `AdminsOK`). Confinement: the schema file always names a code whose
  database and key exist (`SchemaOK`). Mails: tokens are unique per request
  (`TokensOK`) and addresses per database (`EmailsUnique`), so that the update by address
  marks the row the lookup found (an action property).
  `SignupImplemented` is the refinement of `TenantUsers`. It needs that a database with its client
  row can be connected to (`MetasOK`: the update of the root row and both commands came
  before), and that the request a user was made by has ended (`RowsDone`), so that no
  link is used for a second user. `MigrationsOwnWhenSerial`: `MigrationTargetsOwn`, which
  `provisioning_race` violates, holds in every behaviour in which no two requests are between
  the write of the schema file and the end of the commands that read it
  (`OneMigration`), whatever else overlaps or fails. A lock around `migrate.js` is
  enough; requests need not be served one after another.
* **AccountsProofs**: `AccountTypes`, `StaleLinksRefused`, `PasswordsByMail`,
  `TokensOfOwnClient`, `DevicesNeedTwoFactor`, `TwoFactorGates`. What a lookup has found stays true because rows only grow (`Grow`,
  `FrameKeeps`): no live handler deletes a row, moves it to another client or takes the
  flag or the secret back. A reset token is in one row, that of the address it was
  mailed to, and in none once spent (`RowsOK`); a request that has not stored its
  token is in no mail (`FreshOK`). A reload needs that the row of a
  user with a token is there (`IssuedOK`). `SealsHold` (an action property) shows for each
  arrival and each await that it cannot break a seal: a request that reads the row finds the
  flag, one that copies a payload copies the flag, and no payload lets a new secret through.
* **DevicesProofs**: `DeviceTypes`, `TwoFactorNeedsDevice`, `SpentTokensRefused`,
  `DenialsHaveCause` (an action property). `IInv` adds what a call has established at
  each await (`FrameOK`): a rotation past its lookup works for the owner of a row
  of its own address, a login with two-factor about to create its row has a device, a call in the
  alarm presented a token of another address or comes from the refresh handler. It stays true because rows are never deleted
  and keep user and address (`RowsKept`, `DevicesKept`).
* **ChatProofs**: `ChatTypes`, `SessionsOfOpen`, `ReadsWereAsked`, `ClientsSeeSession`,
  `AdminsSeeSessions`, `HistoriesKept` (an action property). `SessionSteps` shows the four ways
  in which a step may change a session. `ReadWasAsked` is not inductive alone: a mark is
  set when the request is handled, so `IInv` adds that every request on its way is on
  record (`AskedUp`). What a page sees is compared with its sessions by a matching of
  events and messages that keeps their order (`Mirrors`), not by filtered sequences, for
  which the provers would need induction: a message filed and emitted extends the
  matching by one pair, and every other step leaves it. `IInv` adds that sessions do not
  shrink under an open socket (`SinceOK`) and that nothing was sent to a socket before it
  connected (`UnusedOK`).

Assumptions on constants are the named `ASSUME`s of each module; the TLC runs
evaluate them. Only model-checked: the liveness properties `EveryCallEnds` and
`IdleSwept`, since fairness is outside the prover's reach.

## 5. Known differences that no run states

* `README.md:94` announces refresh token rotation; the endpoint's handler leaves
  the refresh token valid (`update-refreshAccessToken.handler.ts:83`). The rotating
  `AuthService.refreshTokens` (in `Devices`) has no caller.
* `README.md:103` announces that addresses in `ipDenyList` are blocked; the table is
  written by `handleTokenTheft` and read by nothing.
* Two overlapping misses for one tenant connect two clients; the first is overwritten in
  the map and stays connected, out of reach of the sweep that
  `tenant-client.manager.ts:22` announces for old clients (`NoOrphan` fails with two
  calls in flight; `OrphanedByOverlap` holds).
* `POST /users/auth/device` redeems the device id as a refresh token
  (`auth.controller.ts:184`).
* Prisma's `findFirst` ignores a filter that is `undefined`, no DTO has validators, and the
  `ValidationPipe` only transforms (`main.ts:32`). So a refresh without a token is granted
  when the first valid row is the user's and from the same address
  (`refreshtoken.repository.ts:35`), a verification link without its token verifies and
  logs in the first user of its tenant unless that one is verified already
  (`tenant-user.repository.ts:53`), and a reset confirmation without a token sets the
  password of the first user with an open reset (`user.repository.impl.ts:184`).
* The namespace of the cache is the `X-Tenant-ID` a client sends. An access token of a root
  user that was revoked under `root` is accepted under another header, where no blacklist
  entry covers it (`jwt.strategy.ts:40`, `:49`); the validation then caches it and a valid
  refresh token there, and no login clears that namespace (`auth.service.ts:51`, `:52`).
* For the same reason a payload cached under another header before two-factor was enabled
  keeps the flag off, and refreshes under that header copy it on
  (`update-refreshAccessToken.handler.ts:51`): such a session may still replace the secret.
* A refresh token issued before two-factor was enabled goes on being redeemed, and
  `refreshTokens` would rotate it with no device at its address (`auth.service.ts:314`): enabling
  invalidates nothing (`verify_twoFactorOtp.handler.ts:42`).
* A failure between the flag and the device leaves a user with two-factor and no device
  (`verify_twoFactorOtp.handler.ts:46`).
* A cached refresh token is redeemed without a look at `isValid` or `expiresAt`
  (`update-refreshAccessToken.handler.ts:29`): after `handleTokenTheft`, and after its
  14 days when a validation has put it back into Redis (`jwt.strategy.ts:88`).
* A validation that finds no access key caches the refresh token again with the address
  of the validating request (`jwt.strategy.ts:85`, `:90`), not that of the row. From then on
  a refresh from that address passes, and one from the login's own address counts
  as theft and gets that address denied (`update-refreshAccessToken.handler.ts:47`).
* The pool files the time read before its awaits (`tenant-client.manager.ts:27`,
  `:77`), so with overlapping calls eviction is not by last use (`EvictsLRU` fails
  with two calls in flight).
* `markAsRead` names a sender and no message, so it also marks messages that are
  still on their way to the page (`chat.gateway.ts:65`).
* A failure after `CREATE DATABASE` leaves a database that makes every retry end at
  `create-clientadmin.handler.ts:138`: the client stays without an administrator.
* No caller of `AuthService.login` passes a device token, so a user with
  two-factor enabled can no longer log in at all
  (`login_2faTrustedDeviceReg.handler.ts:57`).
* Two confirmations of one link that overlap both succeed, and `updatePassword`
  clears a newer token with the old one.

## 6. Map

`PROJECT.json` maps every definition that models code to its lines. Definitions
marked `external` stand for Redis, MySQL, the clock, the mail transport and the
sockets with the pages behind them.

## 7. Plan

Done: `Sessions`, `TenantClients`, `Provisioning`, `Accounts`, `Chat`, `Devices`, in this order
(tokens first, since every request depends on them; then the pool under every tenant
query), with the abstract specifications `TokenService`, `ClientPool` and `TenantUsers`, their
refinements, and a theorem for every safety property of a passing run.

Next: the conditions under which the other violated properties would hold, as
`MigrationsOwnWhenSerial` does for `provisioning_race`; and a module that composes
`Provisioning` with the pool, so that `Connectable` is the pool's own lookup.

## 8. Not modelled

* Guards on roles and permissions: stateless tests, applied to no live route. The
  payment guard reads one column.
* Notification gateway and event stream: they forward what they are given.
* Slack, mail wording, health, Swagger, logging, the exception filter: input and
  output without state of their own.
* bcrypt, the encryption of client codes, TOTP and OAuth: external; the models
  use only whether a check succeeds.
* Code that cannot be reached: `AuthService.verify` (no caller; it repeats the cache
  reads of `JwtStrategy.validate`), the tenant's device check and
  `tenantHandleTokenTheft` behind it (no handler sets the two-factor flag in a tenant's
  database; `tenantLogin` would call the check with shifted arguments, `auth.service.ts:81`), `verifyAndLogin.usecase.ts`.
* Module wiring, DTOs and repositories' queries without a caller.
* `migrate-root.js`, `migrate-all.js`: tools run by hand.
