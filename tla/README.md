# A TLA+ verification of Rauthy

Rauthy is an OpenID Connect provider: actix-web handlers (`rauthy-handlers`) over services
(`rauthy-service`), entities with their SQL and caches (`rauthy-models`), background schedulers and
the process itself (`rauthy-main`). Its state lives in a SQL database, in timed in-memory caches
(the `redhac` library, optionally replicated) and in the copies that handlers carry across `.await`.
Almost nothing is locked: a handler reads a row or a cache entry, works on its copy, and writes the
whole copy back. What can go wrong is therefore a question of interleavings, expiry and partial
failure, which unit tests of single handlers hardly reach. That is what these modules are about.

Everything here is translated from the Rust source; `PROJECT.json` maps each definition to its lines.

## 1. The system: components, state, interactions

| component | state | operations | hard because | module |
|---|---|---|---|---|
| device authorization grant (`oidc.rs`, `auth.rs`, `devices.rs`) | `DeviceAuthCode` in a sized, timed cache keyed by the user code; table `devices` | request, verify (accept/decline), poll | every poll saves its copy of the code; the key is a prefix, the cache is small, each save renews the lifespan, `warnings` is a `u8` | DeviceGrant |
| browser sessions (`sessions.rs`, middleware `principal.rs`) | table `sessions`, a cache in front of it | create, find, save, authenticate, `set_mfa`, logout, invalidate, cleanup | table and cache are written in two steps; the middleware saves the whole copy for a new `last_seen`; cache inserts can fail | Sessions |
| refresh tokens (`auth.rs`, `refresh_tokens*.rs`, `token_set.rs`) | two tables | issue, rotate with grace time, detect misuse, invalidate, cleanup | rotation writes back the user and the token it read some awaits earlier | RefreshTokens |
| authorization code login (`auth.rs`, `auth_codes.rs`, `clients.rs`, `webauthn.rs`) | caches of codes and WebAuthn ceremonies; sessions; users | `authorize`, `authorize_refresh`, `auth_start`, `auth_finish`, `grant_type_code` | factors are decided on a copy at the start and used at the end; codes live in memory only | LoginFlow |
| login delay, IP blacklist, events (`ip_blacklist_handler.rs`, `listener.rs`, middleware) | maps of one task per process, fed by channels and Postgres NOTIFY | failed/successful login, blacklist, expiry check | an aborted checker task, thresholds met by equality, several processes, lost notifications | IpBlacklist |
| accounts: users, passwords, magic links, passkeys (`users.rs`, `magic_links.rs`, `password_reset.rs`, `password.rs`, `webauthn.rs`) | rows, two user caches, a cache of passkey lists | registration, reset, e-mail change, passkey registration and deletion, conversion, updates, password grant, expiry | whole rows are written back from copies; caches are written inside transactions; one cache index for two lists | Accounts |
| roles, groups, scopes, attributes (`roles.rs`, `groups.rs`, `scopes.rs`, `user_attr.rs`) | four tables, their cached lists, and strings of names in users, clients and scopes | create, rename, delete, assign | nothing but the code keeps the strings in step; lists are derived from cached lists | Directory |
| secrets: clients, dynamic clients, API keys, providers, encryption (`clients.rs`, `clients_dyn.rs`, `api_keys.rs`, `encryption.rs`) | encrypted values with a key id, cached copies, decrypted ones for API keys | create, rotate, show, delete, validate, re-encrypt | row, cache and key id are written by different code; rotation without an answer | Secrets |
| upstream login (`auth_providers.rs`) | callback cache, cookies, users, providers | start, finish, link, unlink | a browser, a provider and other requests take turns | Upstream |
| signing keys (`jwk.rs`, `auth.rs`, `schedulers.rs`) and the relying party (`rauthy-client/src/jwks.rs`) | table `jwks`, three caches, the client's keys | rotate, clean up, sign, verify, publish, look up | tokens outlive keys, lists are cached by in-flight requests | Jwks, SigningKeys |
| start of a node (`migration/*.rs`, `app_state.rs`, `db_version.rs`, `schedulers.rs`) | database, backup files | restore, version check, initialisation, copy from another database, backup | killed at any statement, repeated, on several nodes | Startup |
| presentation, e-mail, i18n, DPoP checks, proof of work, notification clients | none or static | | I/O and pure checks, section 5 | - |

How they interact. A browser gets a session in state `Init`; `authorize`, or an upstream login, checks
the user and puts a code bound to the session into the code cache (possibly withheld until the second
factor is done); `grant_type_code` finds the code, builds tokens (storing a refresh token, signed with a
key of `jwks`), sets the session to `Auth` and deletes the code. Disabling or deleting a user
invalidates its sessions and refresh tokens; what a user may do follows from the directory. Schedulers
delete expired rows, rotate and delete keys. The caches sit between every one of these steps and the
tables.

## 2. Modules

Each component module has the state as VARIABLES, one action per step between two awaits, `Next` and
`Spec`; history variables (marked as such) record what the properties speak about. Guards read them
only to keep random values fresh (an id that was used before is not drawn again: `created`, `issued`,
`origin`, `bad`), for what a client has been handed and may present (`created`, `issued`, `delivered`,
`told`), and for bounds (`acceptCount`, `lostDeletes`, `failures`). `MC*` modules name the model values. Proofs are in `*Proofs`; three of those modules hold the
proofs of two components each, so Startup, Secrets and Directory name their specifications `StartupSpec`,
`SecretsSpec` and `DirectorySpec`.

**DeviceGrant** (`post_device_auth`, `post_device_verify`, `grant_type_device_code`, `DeviceAuthCode`,
`DeviceEntity`). `cache` is `CACHE_NAME_DEVICE_CODES` with its size and lifespan (`CachePut` evicts an
arbitrary entry when full, `Lookup` ignores entries that outlived their lifespan). A poll is `PollFind`
(find, credentials, the interval check and the `warnings` counter), then according to the copy one of
`drop`, `save` (pending), or `user`, `delete`, `tokens`; a verify request is `VerifyFind` and
`VerifyAccept` or `VerifyDelete`. `PollUserFails`, `PollDeleteFails`, `PollTokensFail`, `PollCacheFails`
and `VerifyFails` are their error paths: a delete that fails is only logged, and the tokens are issued
all the same. `UserChanges` expires or deletes the account, with the cascade on
`devices`. A device code is drawn once (`get_rand`), but two may share a user code. The user cache may
still answer for a deleted user, so `PollUser` then has both outcomes. Time is in units of 500 ms, the
tolerance of the interval check.

**Sessions** (`Session::*`, the principal middleware, `validate_session_*`, `grant_type_code`'s session
part, `logout`, `DELETE /sessions`, `sessions_cleanup`). A request is `find` (cache), `select` (table),
`fill` (cache), `save_db`, `save_cache`, and its handler on the same copy; invalidations save one
session after another and then remove cache entries. `CacheMayFail` makes cache inserts fail after
the row is written, and removals; `CacheExpires` drops entries at any time, so no lifespan of a cache is
relied on. `User::update` may change `user_expires` at any time: every redemption reads one of `Expiries`.

**RefreshTokens** (`validate_refresh_token`, `grant_type_refresh`, `TokenSet::build_refresh_token`,
`RefreshToken*`, the parts of `User::save`, `User::delete`, `user_expiry_checker` that touch tokens and
`enabled`). A refresh finds the token row (or detects misuse), finds the user through the cache, saves
the user, shortens the old token to the grace time, and issues a new one. An admin request disables,
enables or deletes in its own steps and may fail half-way.

**LoginFlow** (`authorize`, `authorize_refresh`, `AuthCode::*`, `auth_start`, `auth_finish`,
`grant_type_code`, PKCE, `force_mfa`). `codes`, `loginReq`, `ceremony` are the three caches with their
put times; `ServerRestarts` empties them. The passkey requests take the user from their path, as the
handlers do; nothing compares it with the user of the login. `Earlier` are sessions authenticated before. Table and cache of a user are one value here; `Sessions` and
`RefreshTokens` take such a pair apart. `RedeemPanics` is the `unwrap` on a challenge without method.

**IpBlacklist** (`ip_blacklist_handler::run`, `handle_login_delay`, the blacklist middleware, `POST` and
`DELETE /blacklist`, `EventListener`). `blacklist` and `failed` are the two maps of each node's handler
task, `checker` its expiry checker: `running`, `aborting` (asked to stop by `abort()`, which
`is_finished()` does not report yet) or `finished`. A failed login is two steps, `LoginFails` (the
LoginCheck that counts it) and `Answer` (its events); `Publish` is the task of one event, `Route` the
router together with what the handler does with the forwarded message. Reductions: the handler's channel
is FIFO and the only way to its maps, so a message is taken to be handled when it is sent; equal events
that are pending at the same time are one: a second equal event is only seen if it is sent after the
first one was published. Left out: the running average of the login time, the sleep itself, requests without an IP,
requests dropped while they wait for the handler, and the router's SSE clients.

**Accounts** (`User::*`, `MagicLink::*`, `password_reset.rs`, `RecentPasswordsEntity`, `PasskeyEntity`,
`reg_start`/`reg_finish`, `delete_webauthn`, `convert_to_passkey`, the password grant,
`user_expiry_checker`, `magic_link_cleanup`). One user: the row, its copies by id and by e-mail, the
links, keys and recent passwords. Other users are the reason why any new address may be refused, after
the new password was put among the recent ones. The language of a user is left out. A request is a queue of steps on the copy it has read (`Row`, `Cache`,
`CachedByEmail`, `Recent`, `Commit`, ...), in the order of the code; `Fail` may end it between any two.
Transactions hold their changes until `Commit`, the caches do not wait for it, as in the code.

**Directory** (`Role`, `Group`, `Scope`, `UserAttrConfigEntity`, `User::save` and `Client::save` as far
as they carry names). Names are sequences of parts and a list of names is one sequence with commas, so
that `contains` and `replace` do what they do to strings. A cached list is a set, and `twice` the
attributes it has a second time. `CreateRole` ... `UpdateAttr` are the requests,
`Insert`, `Save`, `Commit`, `CacheList`, `After` their steps.

**Secrets** (`Client`, `ClientDyn`, `ApiKeyEntity`, `AuthProvider` secrets, `encryption.rs`,
`grant_type_credentials`). A secret is a value with the key it is encrypted with; `migrate_encryption_alg`
goes through the three kinds of rows while requests run; a restart may change the active key. A PUT of a
provider that is gone updates no row and caches the copy (`ghost`). API keys do not expire here
(`api_keys.rs:310-319` is left out: it is a comparison with the clock on the copy that is used).

**Upstream** (`login_start`, `login_finish`, `AuthProviderIdClaims::validate_update_user`,
`post_provider_link`, `provider_unlink`). The provider answers with any claims or an error; browsers
bring any state, CSRF token and verifier they know. `User::save` is the row and three awaits on the
caches, each of which may fail. An administrator's `update` sets address and role. Whether the client asks
for MFA is decided when the login finishes, as in the code.

**Jwks** (`JwkKeyPair`, `JWKS`, `rotate_jwks`, `jwks_cleanup`, the `jwks_handler` of rauthy-client) and
**SigningKeys**, the abstract specification: tokens are signed with keys there are, and a key goes only
when no valid token is left that it has signed. `Jwks` implements it with `keys <- jwks, live <- signed`
(`KeepsPromise`, checked and proved). The client's task ends when the answer to a dropped asker is
unwrapped (`RpPanic`).

**Startup** (`migration/mod.rs`, `db_migrate.rs`, `app_state.rs`, `db_version.rs`, `db_backup`). The two
orders in which tables are copied are data; which rows go with which (`Owned`) comes from the foreign
keys. A `kill` may come before any step; the same deployment starts again. Assumed: `MIGRATE_DB_FROM`
names an initialised production database (`Filled`), whose development accounts are gone; the code copies
whatever is there. A database with its `-shm` and `-wal` is one file, and all schema migrations are one
step (each is a transaction of its own, and repeated after a kill). Rows are copied or not; that
`refresh_tokens.is_mfa` and `sessions.remote_ip` are left out of the copies is not told apart.

What is abstracted everywhere: cryptography (a secret, verifier or signature matches or not), claims,
scopes, redirect URIs, headers, wording, logging and metrics.

The constants' assumptions are named ASSUMEs in the component modules. `MaxInFlight` bounds handlers
running at the same time, `MaxTime` the clock, `MaxAccepts` the accepting requests of one device code and `MaxLost` its failing deletions,
`MaxFails` the failed logins of an IP, `MaxPending` the events pending when an admin adds one, `StopTime`
the time until which new requests arrive (so that every blacklisting can expire before `MaxTime`); `MaxOps` the requests
of a behaviour, `MaxKeys` the keys ever created, `MaxStarts` and `MaxBackups` starts and backups. They
appear in guards only and cut behaviours short, they never enable anything.

## 3. Runs

Passing:

| run | question | bounds and why they are enough |
|---|---|---|
| `device` | Are tokens only ever for the accepted code, its client and secret, in time, and how often can one Accept be answered? | two codes sharing one user code, a cache of one entry, two polls (the smallest overlap) and a verify request, one deletion that fails; time passes the lifetime. One client, since a second one only adds polls that are rejected; the proof covers any number |
| `sessions` | Who is authenticated, how long does a session live, does invalidation hold, does the cache agree? | two requests and one invalidation, at most two at once; a user whose expiry is changed between two values; one time step separates valid from expired. The proofs cover several users in one session |
| `refresh` | Do used tokens expire, do invalidated ones stay dead, does disabling hold? | one rotation needs two tokens; two requests and an admin, at most two at once; failures between steps |
| `login` | Are sessions and tokens only for a proven login and its verifier, how often is a code answered, does the cache keep codes long enough? | two handlers, one code, a session that is authenticated already (a refresh login) and can be used for a login; a user with password and a passkey-only user, each of whom any passkey request may name; accounts that end, a clock beyond the longest lifespan of a code. The proofs cover chains of codes |
| `blacklist` | Is no threshold skipped, does a threshold block, does an entry go? (fair) | one node that restarts and loses its connection, two concurrent logins, one threshold that acts on equality and one from which every failure acts, one expiry that an administrator sets (`BlockUntil`), time beyond every expiry. Several nodes are covered by the proof of `ThresholdsAnnounced` |
| `accounts` | Do the copies agree, is a second factor there, do passwords expire and not repeat, is a link used once? | seven kinds of accounts to start with; three requests, two at once: enough to start, interfere and finish; two browsers, keys and passwords |
| `directory` | Do cached lists agree, do names dangle, does the user hold what was assigned? | three requests, two at once, from the roles the migrations insert: the user has `rauthy_admin,admin`, of which one name is a part of the other |
| `secrets` | Does the secret that was told last work, do the caches agree, is the migration complete? | three requests, two at once, a migration and a restart with another key; an empty store and one of each kind of client; registration tokens with and without automatic rotation |
| `upstream` | Is a link asked for, is the role what was decided last, is a code only for who is linked, is a failed callback dead? | two browsers, one logged in; two providers (one maps the role, one MFA); two accounts, three addresses, three claims: one more address than accounts, so that one is free; four requests, two at once |
| `jwks` | Is there a key for every algorithm, is it published, is a valid token accepted, is the promise of SigningKeys kept, does the relying party learn a key? (fair) | two rotators and a cleanup, three keys of one algorithm: one more than the oldest and one to be deleted. Algorithms do not interact except through the lists; the proofs cover any number of them and of requests |
| `startup` | Do no default credentials survive a start, is every table that is copied whole, is the original database kept? | two nodes, three starts (killed, repeated, and one more), six deployments |

`InvalidatedStaysDead`, `CacheCoherent`, `RevokedStaysRevoked`, `DisabledStaysDisabled`, and the
properties of Accounts, Directory and Secrets that mention `Quiet` or `spoilt` are claims about requests
that do not overlap on the same rows and whose steps do not fail: history variables remember that either
happened. With overlap the code does not keep them (observations below). The others hold whatever
overlaps. In Directory `confused` excuses kinds of which a name was removed or replaced in a string with a
longer name that contains it (replacing in strings does go wrong then), or two rows of which have the same
name. Renaming `admin` for a user who also has
`rauthy_admin` is such a case in every installation; other renames and deletions there are not excused.
`RedeemedBounded` and `IssuesBoundedByAccepts` state the exact price of the missing
atomicity: one answer per overlapping handler, one if there is no overlap, and for device codes one more
for each deletion that failed. `TokensProven` and `SessionsProven` say which factors a login has shown, not
that a passkey is the one of its user: the code does not compare them (observations). Types are part of an
invariant of each module (`NoDangling`, `CopiesAgree`, `EncKeyIdTruthful`, `AdminFollowsClaim`,
`MigratedWhole`) or proved.

Deadlock is not checked in runs where all codes, tokens, requests or time can be used up.

Violation:

| run | the repository says | the code does |
|---|---|---|
| `jwks_latest` | "Returns the latest JWK (especially important after a [JWK Rotation]" (`jwk.rs:507`) | `find_latest` sorts ascending and takes the first: the oldest key of an algorithm signs for ever, and `jwks_cleanup` deletes the newer ones. The proofs below rest on exactly this: with the newest key signing, a list of public keys that an in-flight `find_pk` caches would lack it for up to its lifespan. The run excludes what could excuse an old key: rotations complete (`UndisturbedRotations`), no request is under way while one does, and the trace is a whole rotation, a read of the keys and a signature |

Fairness. In IpBlacklist: weak fairness of the end of a handler (every branch ends or times out), of
`Answer`, of the publishing tasks, of the router, of a *running* checker's `CheckExp`, of the end of an
aborted checker, and of the clock. All of them are tasks that tokio polls whenever they are ready, or
loops that retry until they succeed. New requests, admin requests, restarts and reconnects are not fair.
In Jwks: weak fairness of the client's configuration, its timer and of waiting requests, and strong
fairness of a request to `/oidc/certs` being served: it is sent again and again, and
`ClientLearnsKey` assumes that failures end and that the client's task lives (no asker goes away). The other modules promise safety only: their caches may drop
anything and users may never come back.

### Observations

Met while modelling; each follows from the lines named. They are why the properties have the form above.

* Sessions: logout removes the entry from `CACHE_NAME_12HR` instead of `CACHE_NAME_SESSIONS`
  (`sessions.rs:608`); the session stays valid in its cache. A request in flight writes its valid copy
  back over `Session::invalidate_all`. `User::update` may set an earlier `user_expires` (`users.rs:686`)
  and leaves sessions that were authenticated before with their longer expiry.
* RefreshTokens: a refresh in flight writes token and user back over a disabling (`auth.rs:2047`,
  `2055`), although the comment at `users.rs:571` says that all are invalidated. Refresh tokens of a
  device grant are written to one table and looked up in the other (`auth.rs:2022`).
* LoginFlow: `authorize_refresh` accepts a challenge without a method, `grant_type_code` unwraps it
  (`auth.rs:977`; the build aborts on panics). A ceremony is bounded by `WEBAUTHN_DATA_EXP` only
  (`webauthn.rs:451`). `auth_start` and `auth_finish` take the user from the path (`handlers/users.rs:711`,
  `779`) and do not compare it with `WebauthnLoginReq.user_id`. The tokens are stored before the session is looked up (`auth.rs:1024`).
* DeviceGrant: a poll in flight saves the copy it read before the user accepted, so that the acceptance
  is lost (`auth.rs:1284`). A deletion that fails is logged and the tokens are issued (`auth.rs:1230`), so
  that the code can be polled again until it expires.
* IpBlacklist: a Blacklist handled between `abort()` and the end of the checker starts no checker, and
  the entry stays in the map (`ip_blacklist_handler.rs:70`; CHANGELOG: "will get removed ...
  automatically"). A successful login resets the counter of its own node only (`auth.rs:1503`).
* Directory: renaming `admin` changes `rauthy_admin` too (`roles.rs:173-176`), the anti-lockout rule of
  `roles.rs:69` notwithstanding: a user with both has `rauthy_<new name>` afterwards. Deleting `a` from
  `c,ab` leaves `cb`. A scope in `default_scopes` only is not cleaned up (`clients.rs:422-425`; `scopes.rs:98`
  says "cleanup every client"). A new attribute is listed twice if the list was not cached: `create` inserts
  the row, reads all rows and adds the new one (`user_attr.rs:52-67`). A renamed attribute leaves its old cache entry; `users.rs:199` (handlers) says that a
  name "cannot be updated", and it is.
* Accounts: `find_for_user` and `find_for_user_with_uv` share a cache index (`webauthn.rs:266`). A GET
  in flight resurrects an invalidated link; the reset does not check the usage of the link; a new reset
  invalidates one older link only. Two concurrent deletions leave the flag without keys; deleting an
  unknown key name when one key is left clears the flag. The policy's n recent passwords (`users.rs:987`:
  "one of the last {} used passwords") are n-1 (all for 1). A password whose save is refused for its address
  is among the recent ones although it never was the user's (`users.rs:1005`, `533`). `update_language`
  writes the row and neither cache (`users.rs:728`), and the next save of a cached copy undoes it. `magic_link_cleanup` compares with the fixed time 1683003398. Whole-row saves lose updates, also
  those of a failed password grant.
* Secrets: registration tokens are never re-encrypted, clients with a stale `secret_kid` are skipped, and
  `update_client` and `generate_new_secret` do not renew it. A fill of the API-key cache can put a
  rotated secret back. `dynamic_client_cleanup` selects `last_used = null`, which no row satisfies
  (`schedulers.rs:123`). After a provider is deleted, cached users still name it, and saving them fails. A PUT of a provider that
  is gone answers 200 and leaves a cached provider without a row (`auth_providers.rs:325-376`).
* Upstream: "In case of any error, the callback code will be fully deleted" (`auth_providers.rs:715`)
  holds for wrong states, tokens and verifiers only. A wrong state deletes the callback of the cookie. A
  link cookie with an unknown address creates a new user. `set_mfa(true)` marks the session before the
  passkey of the user is asked for and before the client's checks (`auth_providers.rs:904-908`). A cache that
  fails after the row was written leaves the old copy, which a later unlink writes back.
* Jwks: `validate_jwt!` of rauthy-client passes undecoded `n` and `e`; a failed lookup is remembered
  for 300 s; an asker that is dropped while it waits makes `tx_ack.send(..).unwrap()` panic and ends
  the task that keeps the keys, for good (`rauthy-client/src/jwks.rs:186, 199, 210, 218`);
  `DPoPNonce::is_valid` tests `.is_ok()` of a `Result<Option>` (`dpop_proof.rs:55-65`).
* Startup: a kill after the bootstrap API key was created and before the keys are saved makes every later
  start fail; one between two saved keys leaves algorithms without a key; two nodes that start together
  both initialise. A database is served half migrated if `MIGRATE_DB_FROM` is removed after a kill. A
  restore killed after the switch overwrites the kept original at the next start. The schema is migrated
  before the version check. `INSERT OR REPLACE` (`db_migrate.rs:996, 1366`) fails on Postgres. `devices` and
  `refresh_tokens_devices` are not copied, nor are the columns `refresh_tokens.is_mfa` (`db_migrate.rs:695`)
  and `sessions.remote_ip` (`843`), while `db_migration.md:16` speaks of the data of the old database without
  exception.

## 4. Proofs

All for arbitrary constants under the named assumptions (the ASSUMEs of the component modules, which TLC
evaluates on every run). Beyond types they say that "no value" is not a value, that the handlers which can
run at once are finitely many (a worker pool; needed to count them), and for Accounts that the accounts to
start with are consistent (`InitAccountsOK`: their expiry follows the policy, a second factor has a
passkey, recent passwords do not repeat). For Secrets the rows at the start name the keys they are
encrypted with (`StoresOK`), for Directory the tables at the start are well-formed and the user has values
for known attributes only (`InitialOK`), for Startup a missing or torn file is no database (`FileKinds`)
and there is at least one kind of signing key to create (`Bounds`). Each inductive invariant was checked with TLC before it was
proved.

* **DeviceSecretsProofs**, DeviceGrant - `TypeCorrect`, `DeviceTokensGranted` (`TokensOnlyIfGranted`),
  `AcceptsBoundIssues` (`IssuesBoundedByAccepts`).
  The first invariant is not inductive since copies are written back at any time. The strengthening says of
  *every* copy, in the cache (`CacheInv`), in a verify request (`VerifierInv`) and in a poll
  (`PollerInv`), that it agrees with a recorded request and was accepted by whoever `verified_by`
  names (`Granted`). Saves then move granted copies around. `StepInv` adds that only verified copies
  get past the check. For the bound, `Budget` is an account: an Accept pays for one answer by every poll;
  answers given, polls past the delete, and either the polls that hold a verified copy or, while the code
  can still be found, all polls, never cost more than was paid; a deletion that fails pays for the poll
  that goes on. It needs that what a pending poll puts
  back was not verified (`SaveInv`).
* **SessionsProofs** - `TypeCorrect`, `SessionsAuthGranted` (`AuthOnlyIfGranted`), `SessionsLifetime`
  (`LifetimeBounded`), `SessionsStayDead` (`InvalidatedStaysDead`), `SessionsCoherent` (`CacheCoherent`).
  The first properties quantify over all `Copies` of a session, held by requests
  and invalidations as well; that form is what makes them inductive together with the types. The expiry of
  the user is the one recorded with the redemption (`granted`), whatever it became later. The last two
  are about undisturbed executions: as long as `disturbed = "no"` one request or invalidation is at work
  (`AloneInv`), what it is about to cache is what the table holds (`CalmReq`, `CalmAdmin`), and every
  session but the one between its two writes agrees with its row and does not outlive its invalidation
  (`CalmSessions`).
* **RefreshTokensProofs** - `TypeCorrect` (with: a token row belongs to an existing user),
  `RefreshTokensRotate` (`RotatedExpires`), `RefreshTokensStayRevoked` (`RevokedStaysRevoked`),
  `UsersStayDisabled` (`DisabledStaysDisabled`). For the first, the strengthening bounds the copies that
  refreshes carry by the last rotation, so that a late save cannot extend a used token. The other two rest
  on a `Calm` invariant as in Sessions: a single request at work, whose copy of the user is the row's.
* **LoginFlowProofs** - `TypeCorrect`, `LoginTokensProven` (`TokensProven`), `LoginSessionsProven`
  (`SessionsProven`), `LoginCodesCached` (`UnexpiredCodeFound`), `LoginRedeemedBounded`
  (`RedeemedBounded`). The invariant ties every cached code,
  every handler's copy and every authenticated session to the recorded `origin` of a login and to what
  was `delivered` and `keyed` (with the user whose key signed); a session refresh rests on the session being proven (`Based`). For the
  bound: a code is in the cache only before its first answer, so answers and handlers that still hold the
  code all ran at the same time (`BudgetInv`).
* **DirectoryBlacklistProofs**, IpBlacklist - `TypeCorrect`, `CountersBounded` (`CounterBounded`), `ThresholdsNotSkipped`
  (`ThresholdsAnnounced`). A counter can be overwritten by an event sent long ago, so the invariant says
  of *every* number of failed logins, in a map, a login, a pending event or a router's channel, that it
  is `Supported`: that many logins failed, and each threshold up to it was announced or is about to be.
  `SupportedStep` shows that a supported number stays supported; each action only moves such numbers, or
  makes a new one (`CountedSupported`).
* **JwksStartupProofs**, Jwks - `TypeCorrect`, `KeyForEveryAlg` (`SigningKeyThere`), `NoValidTokenRefused`
  (`ValidTokensAccepted`), `Published` (`SignersPublished`), `Implements` (`KeepsPromise`). None of these
  is inductive: a cached key or list must still be right when it is used. The strengthening rests on the
  set `Oldest`, which no step changes (`OldestStep`): new keys are younger than any of their algorithm,
  which always has one (`TableInv`), and a key to be deleted has an older one (`CleanInv`). All that
  signs is in `Oldest` (`SignInv`), all lists contain it (`ListInv`), and the relying party has asked for
  nothing else (`ClientInv`). The refinement follows: a deleted key is not in `Oldest`, hence has no
  valid token.
* **UpstreamProofs** - `Typing`, `Consent` (`LinkedByConsent`), `CodesConsented` (`CodesByConsent`),
  `CallbackSpent` (`BadCallbackDead`, an action property), `RoleFollowsClaim` (`AdminFollowsClaim`). All but
  the last hold whatever overlaps or fails: a row, a cached copy, a request's copy and a link cookie are
  linked only with consent, which is never taken back (`LinkInv`), so that a login that gets as far as its
  code has a copy with consent for its provider; a callback a check failed for is gone (`DeadInv`). The role needs more, `SoleInv`: of a user no two requests worked on at a time, at most one
  request has a copy; until it saves, row and caches agree; between its save and its caches the copy agrees
  with the row, and each stale copy is under an id or address that one of the steps left will overwrite or
  delete. A cache that fails ends that, and the user is excused from then on.
* **AccountsProofs** - `AccountTyping`, `AccountExpiry` (`ExpiryFollowsPolicy`), `AccountLinkOneShot`
  (`LinkOneShot`), `AccountCopiesAgree` (`CopiesAgree`), `AccountMfaHasKey` (`MfaHasKey`),
  `AccountNotReused` (`NotReused`). A request is a list of steps; `Programs` are all lists that can be
  left, and the three invariants speak of them by what comes next. `ShapeInv`: a request holds what its
  steps need, and every copy of the user, wherever it is, follows the expiry policy - so
  `ExpiryFollowsPolicy` holds however requests overlap. `OneShotInv`: before the change a link stands for,
  a request's link is unused and no other request is on it; after it, the link is dead or the request
  still has to spend it. `CalmInv`: while nothing was spoilt, at most one request is at work, and `Phase`
  says by the steps left whether the caches are the row, are ahead of it (passkeys are cached before the
  commit) or behind it, and under which addresses; `KeysKept` that a cached list of passkeys has only
  passkeys there are, which is what makes the decision of `delete_webauthn` right although two functions
  fill that list; `Kept` that the recent passwords are the newest of all ever set, at least `RecentReq`
  of them or all. The request that changes address and password shows why `Phase` has its clause on `old`:
  a refused address must not leave a password among the recent ones that never was in the row.
* **JwksStartupProofs**, Startup - `NoDefaultCredentialsAlways`, `OriginalKeptAlways`,
  `MigratedWholeAlways`. The properties speak of a node that serves; the invariant has to speak of every
  copy of the database a later start could restore, and of every step before serving. `AloneInv`: a node
  without `HA_MODE` is the only one, and only such a node restores. `CredInv`: in the database, the kept
  original, the restore file and all backups, a saved signing key stands for everything that
  `migrate_init_prod` does before it saves one (`Safe`). `OrigInv` follows the original from its place to
  `.bkp` and back by the step of the restore. `CopyInv` counts the tables copied so far; that emptying a
  table takes no row of one already copied is a fact about the order of the tables, each of which has a
  `Rank` in both orders. Emptying `users` empties the two tables that are not copied, and nothing fills them
  before the node serves (`NoDevices`).
* **DeviceSecretsProofs**, Secrets - `SecretsInvariant`, `ToldSecretWorksAlways` (`ToldSecretWorks`),
  `CachesAgreeAlways` (`CachesAgree`), `EncKeyIdTruthfulAlways` (`EncKeyIdTruthful`),
  `MigrationCompleteAlways` (`MigrationComplete`). Part of it holds whatever overlaps: the row of an API
  key names the key it is encrypted with, and so does the row of a client unless an update left it stale
  (`LabelInv`); a copy of a client is as dynamic as the client (`DynInv`). The rest is about owners (client, API key, provider) nothing
  was spoilt for: such an owner is at rest or in the hands of exactly one request (`BusyInv`), and the
  steps this request has left say whether row, cache and told secret agree (`OwnerInv`). A migration that
  nothing spoilt is the only request, and its remaining steps say which rows are under the new key
  (`Progress`, `MigInv`).
* **DirectoryBlacklistProofs**, Directory - `DirectoryInvariant`, `DirectoryTypeCorrect`
  (`DirectoryTypeOK`), `DirectoryCachesAgree` (`CachesAgree`). A list is written to the cache before or
  after the transaction that it belongs to commits, and is derived from the cached one. A table not
  spoilt is at rest or in the hands of one request (`BusyInv`); the step it is at says which caches are
  ahead of their table and, once the row is written, that the list still to be cached is what the table
  holds (`Ready`, `TableInv`). It needs that applying a change to a list that already has it changes nothing
  (`NewRowsTwice`), and that a scope keeps its id and name when its mappings are cleaned up. The strings
  play no part in it.

Only model-checked: the liveness properties (`ThresholdBlocks`, `CheckedEntriesGo`, `ClientLearnsKey`),
and two invariants of Directory, `NoDangling` and `GrantsFollowIds`. Liveness and ENABLED are out of the
prover's reach. So are the two invariants: they rest on what splitting and replacing in a comma separated
string does, recursive definitions over strings of any length, whose facts need induction over data.

## 5. Not modelled, and what is left

* Templates, i18n, e-mail, logos and colours, OpenAPI, request validation, the HTTP layer, notification
  clients, the frontend: presentation and I/O without state that the properties could tell apart.
* DPoP and token validation, hashing, ciphers, WebAuthn's cryptography: pure checks, modelled where they
  are used as a match or a mismatch.
* Proof of work, rate limits, health watch, version check, WebIDs: one check and one write each.
* redhac (the HA cache) and the databases are outside of the repository; the modules model what the code
  relies on: lifespans, eviction, failing inserts, loss, foreign keys, transactions.
* Of modelled components: the event stream's SSE clients, `users_values`, device names, ephemeral
  clients, the lookup of a provider's configuration.
