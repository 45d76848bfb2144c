# Verification of nestjs-fsd-template

TLA+ models of the stateful parts of this NestJS service (authentication, role
based access control, their caches, administration, audit, migrations, seed, the
guards of a route, and the connections all requests share),
the TLC runs that check them on small instances, and TLAPS proofs for instances
of any size. `PROJECT.json` lists every run, the source lines each definition
models, the hazards the properties are about, and the theorems.

    tlc -config Sessions.cfg MCSessions     # one run
    tlapm SessionsProofs.tla                       # one module of proofs

## 1. Inventory

One Node process (or several, behind a load balancer) serves HTTP; a handler
runs without interruption up to an `await` and interleaves with every other
handler there. What it keeps is in MySQL (through TypeORM), in Redis or two
in-memory maps, and in the tokens that clients hold. The repository takes no
locks; it opens one explicit transaction (`replacePermissions`).

| Part | State | Operations | What makes it correct |
|---|---|---|---|
| Sessions (`application/auth`, `refresh-token.typeorm-repository`) | `refresh_tokens`; JWTs at clients | login, refresh with rotation and reuse detection, logout | a spent or revoked token never comes back; reuse is detected and ends the family; one user's revocation leaves others alone |
| Authorization context (`jwt.strategy`, `load-user-auth-context`, `permissions.guard`, cache adapters) | RBAC tables, per-user cache with a lifetime | guarded request, warming by login and refresh, assign and remove role with invalidation, administration without | a lost permission stops being granted in bounded time; only known races leave an entry stale |
| Access tokens (`jwt-auth.guard`, blacklist adapters, `logout.use-case`) | blacklist in Redis or memory, `refresh_tokens` | issue, verify, check, logout | a token logged out is not accepted while it is valid; a refresh token outlives it only for causes that can be named |
| User administration | `users` | create, update, soft delete | unique e-mail, exact updates, deletes that stay |
| Role and permission administration | `roles`, `permissions`, `role_permissions` | create, update, delete of each | grants that exist, replacements that do not mix, deletes that stay |
| Audit | `audit_logs` | interceptor, fire-and-forget insert | the trail is true, and misses little |
| Migrations, container start | schema, table `migrations` | three migrations, entrypoint, restart | nothing serves an old schema; start-up succeeds in the end |
| Seed | all RBAC tables | one script, looked-for-then-added | may die and be run again |
| Guards on routes (`jwt-auth.guard`, `jwt.strategy`, `permissions.guard`) | what one request has read, await by await | blacklist, user, permissions, then the handler | whoever is let in met each condition while it was there; whoever did all along is not refused; a loss takes effect in the end |
| Connections (`typeorm.config`, `redis.client`, health controller) | pool of `DB_CONNECTION_LIMIT`, one Redis client, its queue | query, transaction, command, first connect, lost link, shutdown | no request keeps a connection while it waits; Redis fails a request only when it was away; every request ends |
| Throttling, configuration, error filter, response and logging interceptors, request id, tracing, controllers, DTOs, Swagger, bootstrap | none, or a library's | - | not modelled, see section 7 |

How they interact:

- login and refresh write `refresh_tokens` **and** the permission cache; logout
  writes the blacklist **and** `refresh_tokens`;
- a guarded request reads the blacklist, then `users`, then the cache, and on a
  miss the RBAC tables, which it copies to the cache;
- assigning and removing roles write `user_roles` and then drop the cache entry;
  nothing else that changes a permission touches the cache;
- the audit interceptor sees the value of a handler, not its exception;
- migrations run before the application in the same container; the seed is run
  by hand, whatever the application is doing;
- each query takes a connection of the pool and each cache or blacklist call goes
  through the one Redis client, which the readiness probe uses as well;
- with the memory adapters each process has a blacklist and a cache of its own: a
  logout or an invalidation reaches the process that served it.

Behaviours that are hard here, and that the properties aim at: check-then-act
over separate queries; caches written with what was read before an
invalidation; TypeORM's `save`, which compares a stale entity with a fresh row;
soft-deleted rows that `find` leaves out and unique keys count; two writes
without a transaction with a crash between; time compared in seconds here and
milliseconds there; containers that migrate side by side; conditions of one
admission read in four awaits; first callers that race for one connect; a client
that closes before the server does. `PROJECT.json`,
"hazards", has each at its line.

## 2. Modules

| Module | Models | Runs | Proofs |
|---|---|---|---|
| `TokenLedger` | abstract: what `refresh_tokens` promises | in `sessions`, as `KeepsLedger` | `SessionsProofs` |
| `Sessions` (+ `MCSessions`) | login, refresh, logout | `sessions`, `sessions_rotation`, `sessions_reuse` | `SessionsProofs` |
| `PermissionCache` (+ `MC`) | RBAC tables, cache, guard, writers | `cache` | `PermissionCacheProofs` |
| `AccessTokens` (+ `MC`) | JWT expiry, blacklist of each process, both adapters, a logout's two stores | `tokens` | `AccessTokensProofs` |
| `Admission` | abstract: what the guards of a route promise | in `guard`, as `KeepsAdmission` | `AccessGuardProofs` |
| `AccessGuard` | a guarded request from token to handler, several processes | `guard` | `AccessGuardProofs` |
| `Connections` | database pool, Redis client, shutdown, readiness probe | `connections` | `ConnectionsProofs` |
| `UserAdmin` (+ `MC`) | users | `users` | `UserAdminProofs` |
| `RoleAdmin` (+ `MC`) | roles, permissions, grants; measured against `Seed` and `PermissionCache` | `roles`, `audit` | `RoleAdminProofs` |
| `AuditTrail` (+ `MC`) | the interceptor composed with `RoleAdmin` | `audit` | `RoleAdminProofs` |
| `Migrations` | containers and migrations | `migrations` | `DeploymentProofs` |
| `Seed` (+ `MC`) | the seed script | `seed` | `DeploymentProofs` |

Conventions. A request (worker, process, container) is a small process: `pc[r]`
names its next step and an action runs from one `await` to the next. A failure
of a query and the death of the process are one action (`RequestFails`,
`WorkerFails`, `SeedDies`, `Crash`; `Connections` and the guards tell a failed
statement from a `Restart`), enabled at every await. A query that fails has done
nothing: a commit whose reply is lost is left out. *History* variables
are marked as such: no action's guard reads them. Operators named `Mutant...`
are plausible bugs of the definition that follows them: put in its place, each
must break a property (section "mutants" of `PROJECT.json`), which shows that
the property can be broken by code of this shape.

**Sessions.** A refresh token carries no id: it is the pair of its user and the
second it was signed in, so tokens of the same second are equal and a lookup by
hash may return any of several rows. `row[r]` is the row that request `r`
inserts. `LoginFind`; `IssuePair`, `SaveRow` (login and refresh);
`RefreshVerify` (signature and `exp`), `RefreshFind` (lookup, `revokedAt`,
`expiresAt`), `RevokeAllForUser`, `RefreshCheckUser`, `RefreshRevoke`;
`LogoutFind`, `LogoutRevoke`; `SetEnabled` for the administration that these
handlers read; `Tick`. An answer may be lost after the commit (`"lost"`): its
token is then held by nobody.

**PermissionCache.** `ContextOf` is the join that `UserMapper` reads,
`Allows` the domain service with its `SUPER_ADMIN` exception. A guarded request
is `FindActive`, `CacheGet`, `LoadContext`, `CacheSet`; login and refresh are
`WarmRead`, `WarmSet`; assignment is `AssignFind`, `AssignWrite`, `Invalidate`,
removal `RemoveFind`, `RemoveWrite`, `Invalidate`; the administration that
leaves the cache alone is `UpdateRole`, `DeleteRole`, `DeletePermission`,
`SetActive`, and `ReviveRole` for the late save that `RoleAdmin` shows. Time is
relative: entries have a time left, contexts an age. `Delay` bounds the time
between reading a context and writing it; the code has no such bound, a
property that names `Delay` says how an outdated grant depends on it.

**AccessTokens.** Second and part of a second are kept apart, because
`jsonwebtoken` and the memory adapter look at the second and Redis at the
instant. `Issue` and `Refresh` sign an access token and, in the same second or the
next, the refresh token whose row is inserted; `RevokeAllForUser` is what a refresh
does that meets a revoked row; a request is `Verify` (passport), `CheckBlacklist` (an await
later) and `Finish`, or the logout `LogoutRevoke`, `LogoutRow`, which
`LogoutFails` between its stores. The body of a logout is any refresh token, a pair
of user and second: none, one or two rows are `Hashed` so, any of them is found,
and nothing compares it with the bearer's. `until[p]` is the blacklist that process `p`
sees: `Reached(p)` is all processes with Redis, and `p` with the memory adapter,
which `Restart(p)` empties.

**AccessGuard.** `AskBlacklist`, `FindActive`, `CacheGet`, `LoadContext`,
`CacheSet` are the awaits of `JwtStrategy.validate`; `PermissionsGuard` judges
without one (`Judged`). Around them are what may change an answer: `Logout`,
`SetActive`, `Assign` with `Invalidate` or its failure, `ChangeRole`, the warming
of the cache by a login (`WarmRead`, `WarmSet`), the end of an entry and a
restart. There is one user and one permission, since the keys of others are not
read. `Admission` says what guards promise, with the conditions each request met
and missed during its stay as history; `AccessGuard` instantiates it with
`holding` and `lacking`, in which a permission counts as met, or as unmet, if the
tables or the entry that this process sees say so. That the entry cannot stay
out of date for ever is `LossTakesEffect`, how long it can is `PermissionCache`.

**Connections.** A request is the list of what it waits for (`Plan`): a query, a
transaction's begin, statement and commit, a Redis command. Four plans stand for
the routes: the longest of each shape, and the probe. `Ask`, `Lease`, `Ran`,
`StatementFails` are the pool, first come first served; `Call` is
`RedisClient.connect` with the command after it, `Connected`, `Lost`, `Redial`,
`Answered` are ioredis with the options of the source, of which `Flushes` is
`maxRetriesPerRequest: 3` (at the fourth failure in a row what is queued fails);
`OnModuleDestroy` and `Quit` are the shutdown, during which requests still come.
The pool and ioredis are marked external; who calls them, when, and what a
failure does to the request is the source's.

**UserAdmin, RoleAdmin.** TypeORM's `save` of an entity is two queries: it reads
the row again, deleted or not, and writes the columns in which the entity
differs (`SaveLoad`, `SaveWrite`); when the row is gone it inserts it
(`PermReinsert`). This is library code, modelled from its documented behaviour
and marked external in the map. Unique and foreign keys are guards, their
refusal an action of its own. A role is read back for the answer; the read changes
nothing, so it is part of the write before it, which ends in "ok" or in "error"
(`Answer`).

`RoleAdmin` is also the measure of two other modules, which let the administration
change their tables in one step each: `ToSeed(n)` is `Seed` with the role `n` for
`SUPER_ADMIN`, `ToCache` is `PermissionCache` with the tables of `RoleAdmin`, and
`SeedReckonsWith` and `CacheReckonsWith` say that every step of a request is one of
theirs, or none.

**AuditTrail** extends `RoleAdmin`: `Handle(r)` is any step of a request with
what the interceptor does when it ends.

**Migrations.** A statement adds a set of tables, indexes or columns. MySQL
commits before each DDL statement, so a migration's record is held back only
until the first of them (`held`, `open`, `Committed`). `AfterFailure` is
`set -e` in the entrypoint with `restart: unless-stopped`.

**Seed.** One action per query of the script; `Administration` is what the API
may do to the same tables meanwhile, the late save that inserts a deleted
permission again included (`CreatePermission` takes any id without a row).

## 3. What the runs check

Passing runs:

| Run | Instance | Properties |
|---|---|---|
| `sessions` | 2 users, 4 requests, lifetime 2 of 3 seconds | `TypeOK`, `SpentIsRevoked`, `ReuseKillsFamily`, `NoSpendAfterSpend`, `KeepsLedger` (implements `TokenLedger`) |
| `cache` | 1 user, 2 roles, 1 permission, 2 workers, Ttl 1, Delay 1 | `TypeOK`, `StaleHasCause`, `GrantIsRecent` |
| `tokens` | either adapter, 2 processes, 1 user, 2 tokens, 2 requests, lifetime 2 of 3 seconds | `TypeOK`, `PartedHasCause`, `RevokedUntilExpiry` |
| `guard` | either adapter, 2 processes, 1 token, 1 request on a closed and 1 on an open route | `TypeOK`, `KeepsAdmission` (implements `Admission`), `LossTakesEffect` |
| `connections` | 2 requests of any of 4 plans, again and again, 1 connection | `TypeOK`, `WaitsEmptyHanded`, `FailsOnlyWithCause`, `EveryRequestEnds` |
| `users` | 1 e-mail, 4 requests | `TypeOK`, `CreatedOnce`, `OnlyAskedColumns`, `OnlyOvertakenRevive` |
| `roles` | 1 name, 2 codes, 2 permissions, 4 requests | `TypeOK`, `GrantsExist`, `OneReplacement`, `OnlySaveRevives` |
| `audit` | 2 names, 2 codes, 2 permissions, 3 requests | `TrailIsTrue`, `UntracedHasCause`, `SeedReckonsWith`, `CacheReckonsWith` |
| `migrations` | 2 containers, up to 2 crashes | `TypeOK`, `RecordedIsDone`, `ServesMigrated`, `OneInside`, `CutOffForGood`, `RestartHeals`, `RacersServe` |
| `seed` | 2 processes, 2 codes, 3 ids | `SeedTypeOK`, `SeededWhenDone`, `RefusedOnlyByDeleted` |

Why the bounds are enough to be of use. The races are between two or three
handlers: four requests allow one to set the scene, two to race and one to
observe. Lifetimes of one to three ticks let an entry be written, read, outlive
the permission and end; the clock must pass an expiry and does. Two users show
in `sessions` that revocation does not cross them; in `tokens`, one user's two
tokens are signed in one second, with equal refresh tokens, or in different ones; with more than one e-mail or role name the
handlers touch disjoint rows. Two crashes can hit two containers or one twice,
before and after the half-done migration, or not come at all. Two ids more than
the permissions that are seeded let one be deleted and another created. In
`guard` a logout on the open route revokes the token that the closed one carries,
and two processes are enough for one to change what the other has cached. In
`connections` one connection makes any request that waits with it in hand a
deadlock, two requests race for the first connect, and a request that has ended
comes again, so that outages, flushes, shutdown and restart hit it at every step.
`SeedReckonsWith` and `CacheReckonsWith` are checked in `audit`, of the audited
requests: each is about single steps, needs fewer requests than `roles` has, and
a second name, which a write to the first must leave alone. The theorems of section 5 remove the bounds for every safety property.

Symmetry is used for requests, workers, processes, tokens, ids and users where
the specification does not tell them apart; never in a run that checks liveness.
`Code` is not symmetric in `Seed`, where `NextCode` chooses.

Deadlock. `Sessions`, `UserAdmin`, `RoleAdmin` and `AuditTrail` run each request
once, so a state in which all have ended has no next step; in `Migrations`
containers that serve do nothing more. Their runs say `CHECK_DEADLOCK FALSE`.
`PermissionCache`, `AccessTokens`, `AccessGuard`, `Connections` and `Seed` are
checked for deadlock.

Fairness. Three modules state it, all of it weak, and only of steps that the
program or a service owes.

- `Migrations`: each container's next step. A Node process runs a continuation
  that is ready, a statement is answered or fails, and Docker starts a container
  that has ended (`docker-compose.yml:8`).
- `AccessGuard`: a query in flight is answered or fails (`GuardStep`, `WarmSet`,
  `RequestFails`), and the lifetime of an entry ends (`EntryEnds`). Nobody is
  bound to call, to answer within a time, or to invalidate.
- `Connections`: the steps of a request, `Lease` by a pool with a free
  connection, and the client's attempts to connect, which end and are repeated.
  Redis is not bound to come back: `EveryRequestEnds` assumes that it stays up or
  stays down from some time on, and holds in both cases.

Crashes, restarts, outages and what users do are never fair.

## 4. Where the code and its documents part

Each of these is a run that expects a violation of one property; the quoted
line is in `PROJECT.json`, "findings".

| Run | What happens |
|---|---|
| `sessions_rotation` | a refresh within the second of its token's signing returns the same token |
| `sessions_reuse` | a rotation in flight saves a live row after "All sessions revoked." |

Other weaknesses are stated positively, as the exceptions of properties that
hold, so that the exception is as much a part of what is checked as the rule:

- two refreshes that look one token up before either revokes it both get a
  session, and a refresh past its lookup outlives the logout of its token:
  `NoSpendAfterSpend` promises detection only when uses do not overlap;
- a context read before a role is removed may be cached after the invalidation,
  and a failed invalidation is not made up for by a retry (`excused` in
  `StaleHasCause`); the lifetime of the entry then ends it (`GrantIsRecent`);
- an update under way writes back `deleted_at = NULL` after a delete
  (`OnlyOvertakenRevive`, `OnlySaveRevives`), and inserts a deleted permission
  again (`PermReinsert`, with `GrantsExist` for what that can do);
- a duplicate that loses the race for a unique key is an internal error and not
  a conflict, and so is, always, the name of a deleted role (`CreateDuplicate`,
  `RoleDuplicate`, `CodeDuplicate`);
- "Mutating API calls and login/logout are recorded in `audit_logs`"
  (`SECURITY.md:36`), but for two cases, which `UntracedHasCause` names: the
  insert of a row fails or its process dies before it, whatever the request was
  (`lost`; "Audit failures do not block requests", `SECURITY.md:38`, and ADR 003
  has the use case swallow errors), and a role's creation or update that is answered
  with an error after its first write, when its second write or the read back for
  the answer fails, which no document mentions;
- a seed that meets a soft-deleted `SUPER_ADMIN` or administrator is refused at
  the unique key, and only such a seed is (`RefusedOnlyByDeleted`);
- "Logout: Access token JTI blacklisted; refresh token revoked" (`SECURITY.md:7`)
  is true of a logout that succeeds with its own refresh token in the body, if no
  other row has its hash. Else the refresh token lives, which `PartedHasCause`
  spells out: a logout that failed after its first store cannot be repeated, as its
  token is refused from then on (`halfway`); one whose body has no token of the
  table, or another login's, is answered 204 (`astray`); and of two equal tokens
  `findByHash` may find the row that is revoked (`Twins`);
- with the memory adapters a logout and an invalidation reach one process
  (`revoked` in `RevokedUntilExpiry` is by process; `LossTakesEffect` needs the
  lifetime of the entry and not the invalidation);
- a shutdown closes the Redis client while requests still come, and they fail
  (`closing` in `FailsOnlyWithCause`);
- a crash between two statements of a migration without `IF NOT EXISTS` leaves
  it half done for good (`CutOffForGood`).

## 5. What is proved

For every value of the constants under the named assumption of each module
(lifetimes, limits and clock bounds at least 1, `SuperAdmin \in Role`,
`Delay \in Nat`, `Open \subseteq Request`, `None \notin Perm`,
`PermissionCodes \subseteq Code`); the sets of users,
requests, processes, roles, containers and so on are arbitrary, and need not be
finite unless something is counted. Each proof is by an inductive invariant that
has been found to be needed: the property alone is not preserved by every step.

- **SessionsProofs**: `TypeCorrect`, `SpentRowsStayRevoked`,
  `ReuseLeavesOnlyOvertaken`, `ReuseIsDetectedAfterRevoke`, `ImplementsLedger`.
  The goals are not inductive alone. `WrittenBySave` ties a row's existence to
  its request having saved, so that a write cannot bring a revoked row back;
  `FoundIsRow` says that what a request found exists and is its user's, so that
  revoking "all of the user" reaches it; `FamilyIsDead` adds to
  `ReuseKillsFamily` that no rotation that was not overtaken is on its way to
  a live row. The action property and the refinement follow from `IInv` step by
  step.
- **PermissionCacheProofs**: `TypeCorrect`, `RevocationTakesEffect`,
  `StaleEntriesExplained`. `RecentInv`: what an entry or a context in a
  handler's hands allows was held at most its age ago, and an entry's age and
  time left never exceed `Ttl + Delay`. `StaleInv`: a context that no
  assignment has outrun has the current roles, so that writing it cannot make
  an entry stale without a cause.
- **AccessTokensProofs**: `TypeCorrect`, `RevokedStaysRevoked`,
  `LogoutPartsWithCause`. `EntryCovers`: the entry of a token that was logged
  out reaches its `exp` in each process it was put in, for both adapters;
  `BearerIssued`: a token in use is not issued again with another; `RowIssued`: nor
  is one that has a row, so that two rows with equal hashes keep them (`TwinsStay`).
- **AccessGuardProofs**: `TypeCorrect`, `ImplementsAdmission`: the guards keep
  `Admission`. `Shown` says at each await what has been witnessed by then: past
  the blacklist the token was unlisted, past the user's row the user was active,
  and a context in hand was read from the tables during the stay. `LossIsLasting`
  is the half of `LossTakesEffect` that needs no fairness: what is gone stays gone.
- **ConnectionsProofs**: `TypeCorrect`, `NobodyHoldsAndWaits`,
  `FailuresExplained`, `WaitersAreOwed`. A connection in use belongs to a request
  that is at a step which uses it, for what the step uses it for; who is queued is asking, once;
  a client that has ended was closed, and a failed attempt, a Redis that was down
  while each of the waiting was there. As a connection in use is in the hands of a
  request that runs or goes on (`Used`), a pool without a free one is never stuck:
  `WaitersAreOwed` is what `EveryRequestEnds` needs besides fairness.
- **UserAdminProofs**: `TypeCorrect`, `EmailCreatedOnce`, `UpdateIsExact`,
  `RevivalNeedsOvertaking`. `EntityIsCurrent`: until another write overtakes an
  update, the row is the one it read and the difference it took still is the
  difference; `CreatedIsStored`: no row goes away.
- **RoleAdminProofs**, about `RoleAdmin`: `TypeCorrect`, `NoDanglingGrants`,
  `ReplacementsDoNotMix`, `RevivalIsASave`; about `AuditTrail`:
  `TrailIsAlwaysTrue`, `UntracedExplained`, `AuditOnlyWatches`; about the two
  together with others: `SeedMeetsAdministration`, `CacheMeetsAdministration`.
  `GrantsToRow`: who grants, grants to
  a role that has a row; `OneCreator` and `NothingLinkedYet`: the unique name lets
  one request create a role, and until it has linked its permissions the role has
  only those of one update. For the trail, `OneChange` sums up the steps of all
  handlers (where a step that changes the tables leads), and `ChangedIsTraced`
  follows a change to its row, to the insert that was lost, or to the error after a
  write that keeps it from having one.
  `AuditOnlyWatches` is a refinement: the audited requests do what `RoleAdmin` lets
  them do, so its theorems hold of them. The two about other modules make their
  assumptions theorems: `WhoWrites` names the eight actions that write a table,
  `RoleWrite`, `GrantsWrite` and `PermWrite` say what such a write is, and `Known`
  (whatever a request is at work on has been there) is what they need of the
  reachable states. That is how the late reinsertion of a permission got into
  `Seed`, which had let deleted ids be gone for good.
- **DeploymentProofs**, about `Migrations`: `TypeCorrect`, `RecordsAreDone`,
  `ServedSchemaIsComplete`, `FirstTableLocks`, `OnlyCrashesCutOff`, for
  any number of containers and crashes. `PrefixIsDone`: the statements before a
  container's own have been done by someone, which a refused check shows as well
  since such a statement adds one thing (`OneEach`);
  `Accounted`: each migration is recorded, held, in hand or still to do.
  `EntersByLocking` and `InsideHasLocked` make the first table a lock.
  `OnlyCrashesCutOff` is what `RacersServe` and `RestartHeals` rest on. It needs what
  the scripts have in common (`Shared`): `AddUpdatedAtDeletedAt` could add two
  columns of InitRbac's tables, but runs after it (`InOrder`), so that none of a migration's
  statements is there before its first (`FirstIsFirst`) and a container inside it is
  never refused (`Ahead`); that is why only a crash ends it halfway.
- **DeploymentProofs**, about `Seed`: `SeedTypeCorrect`, `SeedIsComplete`,
  `SeedCanBeRerun`, for any number of seeds, codes and ids. Neither property says
  anything of a seed under way, so neither is inductive. `Seen` says at each await
  what an undisturbed seed has found or added by then, and holds among other seeds
  because seeds only add (`SeedsOnlyAdd`); a permission that another seed adds
  after the list was read would break it, but by then every code has its row, so
  there is none to add (`Picks`, `SeedsKeepApart`). `Lacks` is the converse, what
  a seed has found missing still is, and needs that it is alone (`IsAlone`): then
  no insert of its own meets a unique key but that of a deleted row.

Only model-checked: liveness (`RestartHeals`, `RacersServe`, `LossTakesEffect`,
`EveryRequestEnds`), which is out of the prover's reach as fairness and `ENABLED`
are; what they need of safety is proved (`OnlyCrashesCutOff`, and `LossIsLasting`
and `WaitersAreOwed`, whose formulas stand in the modules of their proofs and no
run checks). Model-checked and proved: every other property of the passing runs.
The refinements `KeepsLedger` and `KeepsAdmission` are of safety.

## 6. Plan

In the order of their weight for the system: `Sessions`, `PermissionCache`,
`AccessTokens`, `UserAdmin`, `RoleAdmin`, `AuditTrail`, `Migrations`, `Seed`, then
`AccessGuard` with its abstract `Admission`, and `Connections`, are done as listed
above, with their proofs. Left: `AuditTrail` over user administration, login and
logout (the interceptor is the same).

## 7. Not modelled

- Throttling counts in `@nestjs/throttler`, in the memory of each process; the
  repository passes it two numbers. `LOGIN_THROTTLE_TTL` and `LOGIN_THROTTLE_LIMIT`
  are validated and read by nothing.
- Of mysql2 and ioredis only what their callers rely on: a pool that hands
  connections out in order, a client that queues, dials again and gives up. TLS,
  connect timeouts and the protocol are not in `Connections`; the memory adapters
  need no client.
- The error filter, response wrapper, logging, request ids and tracing map or
  print what others decide. Of the controllers only the routes that change state
  appear, as the disjuncts of `RequestStep`, `RoleStep`, `PermStep` and `Writer`;
  DTOs and modules declare and hand on.
- `list` and `get` handlers read one snapshot and change nothing.
- `down` of the migrations: a developer's command, not run in production.
- Cryptography (signatures, hashes, bcrypt) is assumed to work: equal inputs
  have equal refresh-token hashes, salted password hashes are all different.
- A lifetime of zero for the permission cache, which the configuration allows:
  Redis refuses it and the memory adapter writes entries that are over. The
  modules assume at least a second.
- What deactivation leaves behind: `SetEnabled` is in `Sessions`, but that a
  reactivated user has its old refresh tokens is what the code means to do, and
  no document says otherwise.
