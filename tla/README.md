# A TLA+ model of zenflow-devices-api

`zenflow-devices-api` is a Go HTTP service that stores device profiles per
user in Postgres. A profile has a name (unique per user), a device type, a
window size, a user agent, a country, custom headers and a free-form `extra`;
it may be created from a predefined template. The service is stateless:
replicas of it share one database. Everything hard about it happens between
two SQL statements, between two middleware, or between the listener, the
pool and the process that owns them.

## 1. Inventory

| Component | State | Operations | Talks to |
|---|---|---|---|
| deviceprofiles service (`internal/domains/deviceprofiles`) | none between calls; inside a PATCH the profile it read, inside a create the profile it built | Create, Get, List, Patch, Delete, Validate, applyPatch, applyTemplate, Page.Normalize | repository port, templates service |
| Postgres repository (`internal/storage/postgresql/device_profiles_repo.go`) | table `device_profiles` | Insert, GetByID, ListByUser, Update, Delete: one autocommitted statement each | pool, database |
| schema (`migrations/0001_init`) | keys and references | UNIQUE (user_id, name); template_slug references templates, ON DELETE SET NULL | - |
| templates domain and repository | table `templates` | Get, List (read only) | database |
| template seeder (`internal/seed`, `cmd/seed`, `SEED_ON_BOOT`) | one open transaction and the locks of the rows it has written | Seed: an INSERT per row of the embedded catalog that skips, updates or fails on conflict, then COMMIT | database |
| memory repositories (`internal/storage/memory`) | maps `byID` and `byUserNm` under a mutex | the same port as the Postgres repositories; used by tests | - |
| HTTP handlers and error mapping (`transport/httprest`) | - | decode, call the service, write JSON or the mapped error | services |
| HTTP middleware and router | in-flight gauge, counters, the status recorders of a request | request id, metrics, logger, recoverer, access log, Basic Auth | auth resolver, handlers |
| auth resolver (`internal/auth`) | user to hash map, fixed at boot | Verify | - |
| application (`internal/app`, `cmd/api`) | cleanup stack, pool, two HTTP servers | Init phases, Run, Shutdown in LIFO order within 10 s | everything |
| migrator (`migrator.go`, `cmd/migrate`) | schema version and dirty flag in the database | up, down N, force, version, HasPending at boot | database |
| configuration (`internal/config`) | read once | Load: environment gates for migrations and seeding | environment |
| metrics, tracing, logging, `pkg/httpx`, `gen`, deploy files | counters; generated code | - | - |

**How they interact.** A request runs on one goroutine through the middleware,
a handler, the service and a repository, and shares with other requests only
the database (and the metrics registry). No operation opens a transaction
except the seeder's. The application builds the pool first and the servers
after it, and tears them down in the opposite order.

**What is hard.**

- *Interleaving.* A PATCH is a SELECT and an UPDATE of every column; a create
  from a template is a SELECT and an INSERT that refers to what the SELECT
  found. Other requests, of this replica or another one, run in between. So
  do seeding and the removal of templates.
- *Paging.* The pages of a listing are statements of their own, cut by LIMIT
  and OFFSET from an order made of time stamps that were taken before the
  statement that stores them, on the clock of one replica or another.
- *Locks.* A seeder keeps what it has written locked until its COMMIT; two of
  them can wait for each other, and the database ends one.
- *Partial failure.* A statement may fail before it has an effect, or commit
  while its acknowledgement is lost; the client hears 500 in both cases.
- *Ordering.* An error can wrap two sentinels; middleware see a context that
  later middleware extend; cleanups depend on one another.
- *Timeouts and limits.* One 10 s budget for all cleanups; closing the pool
  waits for every connection without looking at the budget; no statement has
  a deadline.
- *Numeric edges.* Page limits and offsets, ranges of the window size, names
  measured in bytes.

**What makes each component correct.** Profiles: names unique per user, nobody
sees or changes what is not theirs, deleted stays deleted, what is stored is
valid, references resolve, every accepted request takes effect once and every
refusal is true. Memory repositories: the two maps agree and the port behaves
as the Postgres one. Middleware: one response per request, metrics and logs tell
how it went, nothing unauthenticated reaches a handler. Application: what
was acquired is released in the reverse order, shutdown ends. Listings: what is
there all the time is shown. Seeding: all of a catalog or nothing. Migrations: no
service starts on a schema it does not know, destructive commands are gated.

## 2. What the modules model

| Module | What it is |
|---|---|
| `ProfileData` | a profile as data, and the pure functions of the service: `Validate`, `applyPatch`, `FromInput`, `applyTemplate` |
| `ProfileStore` | the abstract promise of the API: every accepted request takes effect in one step between arrival and reply; a refused one changes nothing and is justified at that step |
| `DeviceProfiles` | handlers, service, repository, schema, seeder, statement by statement; refines `ProfileStore` |
| `MCDeviceProfiles` | its instances for TLC |
| `DeviceProfilesProofs` | the inductive invariant and the safety theorems |
| `DeviceProfilesRefinement` | the action properties and the refinement of `ProfileStore` |
| `ProfilesPort` | the repository port: one set of rows that decides every answer |
| `MemoryRepo`, `MCMemoryRepo` | the in-memory adapter with its two maps; refines `ProfilesPort` |
| `MemoryRepoProofs` | its invariant and refinement |
| `Lifecycle` | one process from `main` to exit: phases of Init, two servers, the cleanup stack, the deadline, requests on the pool |
| `LifecycleProofs` | what is acquired is released, and in which order; the books of the pool balance |
| `Migrations`, `MCMigrations` | booting replicas and runs of `cmd/migrate` on one database |
| `MigrationsProofs` | the schema invariant and what follows from it |
| `HttpPipeline` | requests in the middleware chain: answers, refusals, panics, what is logged and counted |
| `HttpPipelineProofs` | metrics, logs and authentication for any set of requests |
| `Listing`, `MCListing` | a client's walk through the pages of a listing, the time stamps its order is made of, and the writers around it |
| `ListingProofs` | what a walk can miss or repeat, and where time stamps go back |
| `TemplateCatalog` | the abstract promise of seeding: each seeder takes effect on a whole catalog at once or not at all |
| `Seeding`, `MCSeeding` | seeders, statement by statement, with the database's row locks; refines `TemplateCatalog` |
| `SeedingProofs` | its invariant, the absence of deadlocks within a release, the refinement |

No module EXTENDS another component's. They meet where the code does: the
`Faults` of `DeviceProfiles` cover what a killed process (`Lifecycle`) or a
cancelled request does to statements; its calls carry a user because
`HttpPipeline` lets only verified callers reach a handler (`OnlyVerified`);
`Lifecycle` takes migrations and seeding as one step each that succeeds or
fails, and `Migrations` and `Seeding` open these steps; `SeedTemplates` in
`DeviceProfiles` is the step of `TemplateCatalog` that `Seeding` implements.

### DeviceProfiles

`pc[r]` is the statement request `r` sends next. An action is the statement
(atomic under autocommit) with all Go code up to the next statement or the
reply: `Create` is the template lookup of `Service.Create` with
`applyTemplate`, the conversion and `Validate`; `Insert` the INSERT with the
unique key and the foreign key checked in Postgres' order; `GetByID` the
SELECT of a GET, or of a PATCH with `applyPatch` and `Validate`; `Update` the
UPDATE with its rows-affected check; `ListByUser` and `Delete` the other two.
`CreateDeviceProfile` and the other handler actions are the arrival of a
decoded request. `SeedTemplates` is one committed seeder transaction,
`RemoveTemplate` an operator's DELETE, which the schema provides for with
ON DELETE SET NULL (no code of the repository sends it).

`Fault` fails a statement without effect; `ReplyToWrite` also lets a write
take effect and be reported as failed. A cancelled client, a dropped
connection and a killed replica are faults of the requests they concern: the
database cannot tell them apart, and a client that receives nothing learns
no more than one that receives 500.

Data is abstracted to what the properties tell apart. The client-supplied
columns are a function from `Field` to `Value`; `Accepted[f]` is the set of
values validation accepts for `f`; `Nil` is an omitted field, and `Zero` what Go
puts there. A created profile takes the id of the request that creates it, which
stands for the fresh UUID; a client may name it before it exists, and ids in
`MalformedId` are not UUIDs. `created_at` and `updated_at` are in `Listing`;
metrics and logs are in `HttpPipeline`. The reply is a status and the profiles it shows. Bodies that
`DecodeBody` refuses, and requests refused by authentication, change
nothing and are left out here; so the check for an empty user id in `Create`
never fires (configuration accepts no empty user name). A listing shows any
subset of the caller's rows, which covers every LIMIT and OFFSET; which subset
is the subject of `Listing`.

`window[r]` is a history variable: the versions of the profile a PATCH names
that were current since it arrived. No action reads it; the abstract store
uses it to state the weakest promise that the code keeps about PATCH.

### ProfileStore

The promise has no statements and no drafts. What it does say: an accepted
create keeps every field the client sent; a PATCH applies the client's fields
to a version that was current while it was served (not always the version it
replaces); the reply shows what was stored; a refusal names a reason that is
true at that step (`Justified`). `Faults` belongs to the promise: where the
database does not fail, `template_error` never occurs, and `internal_error` only
for a path id that is no UUID (which is never `not_found`) or for a create that
names a template (the foreign key, when the template goes before the INSERT).

### MemoryRepo and ProfilesPort

Every method locks the mutex for its whole body, so it is one action. `byID`
and `byUserNm` are the two maps; `reply` is what the last call returned. A map's
iteration order is any order of the user's profiles (`SetToSeqs`), from which
`ListByUser` cuts a slice. `Normalize` is `Page.Normalize`, which `Service.List`
applies before every listing. Constants stand for the numbers of the code
(`MaxLimit` 200, `DefaultLimit` 50). Keys are pairs instead of strings joined
with a NUL byte, which configured user names do not contain. `Insert` is called
with an id that is not in use: the service draws a fresh UUID.

`ProfilesPort` is what callers rely on: names are unique per user, foreign and
missing profiles are one refusal, a listing shows as many of the caller's
profiles as the page asks for and there are, in no promised order. It knows one
set of rows only, so an adapter with an index refines it only while the index
says what the rows say (`MapsAgree`).

### Lifecycle

`main` is the phase of the main goroutine: the phases of `App.Init`, `run`,
`shutdown`, `exited`. `Register` is `addCleanup`; `Current` is the cleanup that
`App.Shutdown` runs next, last registered first. `CloseListener` /
`ShutdownReturns` are the two ends of `Server.Shutdown`, `ClosePool` /
`PoolCloseReturns` those of `Pool.Close`, which ignores the context: it returns
only when every connection is back. `Expire` is the 10 s timer of `main`. A
request is `handling` between statements, `waiting` for or `querying` on a
connection. The two servers can fail to listen or fail later, and a signal may
come in any phase; a signal during Init is noticed by nothing before Run.
A request that is `handling` may query as often as it wants, so no bound on the
number of statements is assumed.

### Migrations

The shared state is golang-migrate's row (`version`, `dirty`), what the tables
have been through (`schema`) and the advisory lock (`holder`). `Known[p]` is the
last migration in p's binary, so an old and a new release can run together.
`Boot` is `config.Load` and the three modes of `runMigrations`; `Command` is
`cmd/migrate`; `Open` is `NewMigrator`, which makes sure that the version table
exists under the lock; `CheckPending` is the gate of mode `manual` (it takes no
lock); `Lock`, `Plan`, `MarkDirty`, `Apply`, `MarkClean` are the steps of `Up`
and `Down` in golang-migrate, read from how `migrator.go` calls it and marked external in the
map; `ForceVersion` is `Force`. Between any two steps the process may fail or be killed
(`Abort`), and each statement may take effect with its reply lost (`Continue`).
The lock goes with the session, the dirty flag stays.

Environments are `dev` (which also stands for `staging`), `prod`, its upper-case
spelling and a name that `parseEnv` rejects. `trusted` is a history variable: no
operator has forced a version other than that of the tables. Without it nothing
could be promised, since `force` exists to overrule what the database says.

### HttpPipeline

`Chain` is the sequence of `r.Use` in `NewRouter`, then the routing; every
middleware finds its place in it, so that a reordered chain is a changed
definition. A request goes `down`, is answered by a handler or a refusing
middleware, and comes `up`, or unwinds in a `panic` until the recoverer. A
status goes through the status recorders above the writer, each of which keeps
the first it sees; the client's status is `sent`. `log[r]` holds what was
logged and with which attributes; `inFlight` and `counted` are the metrics.
The generated wrapper of an operation refuses parameters that do not parse
(`RefuseParameters`) before the handler runs; a handler answers with any class,
refusing a body without a record or through `DomainErrorCtx` with one
(`DomainError`), and may panic before or after its answer.
Header names, durations and the otelhttp wrapper are left out.

### Listing

The profiles of one user, reduced to what the order of a listing depends on:
the two stamps and the id (a number, since the order of UUIDs is a tie breaker).
`clock` is the latest of the replicas' clocks; `s.now()` is any time that is at
most `Skew` behind it (`Now`), and `Tick` moves it. It counts in the
microseconds that the column keeps: finer digits occur only in the reply of a
create. `Create` takes both stamps and ends before the INSERT, `Patch` is the
SELECT and the stamp taken after it, so that other statements come between a
stamp and the statement that stores it. `Before` is ORDER BY created_at DESC,
id; `ListByUser` shows the rows at positions from OFFSET on, LIMIT of them.

The client (`BeginWalk`, `ListDeviceProfiles`) is not part of the repository:
it sends a limit that `api/openapi.yaml` allows, or none, with every page,
advances by what it asked for, and stops at the first page that is shorter.
`stable`, `repeats`, `added` and `removed` are history variables. A limit
beyond the maximum would become the default of 50 and not the maximum, and a
client that advances by such a limit would skip profiles; the model's client
keeps to the contract, and the mutant `LimitExclusive` shows how exact the
boundary has to be.

### Seeding and TemplateCatalog

`pc[s]` is where the Go code of a seeder is, `tx[s]` what its transaction is
for the database; the two part when a client is gone. `Row` is one INSERT with
its ON CONFLICT clause: it waits while another open transaction holds the slug
(`Free`), DO NOTHING included, since the database must know whether the row
will be there; what it finds committed it skips without a lock, updates, or
fails on. `CommitTakesEffect` and `CommitReturns` are the two ends of COMMIT;
`Cancelled` is everything that makes `Seed` return early (the 60 s of
`cmd/seed`, a signal, a lost connection), after which the database ends the
transaction on its own, by `RolledBack` or, if COMMIT had been sent, also by
`CommitTakesEffect`. `DeadlockDetected` aborts one transaction of a cycle.
`RunSeed` is `cmd/seed` with any flags, `Boot` a replica with any environment:
configuration refuses SEED_ON_BOOT in prod, and `initDB` ignores it in staging,
where the replica serves unseeded. No code removes a template, so no action
does (`RemoveTemplate` of `DeviceProfiles` is an operator's).

`TemplateCatalog` has no statements and no locks: a seeder applies its catalog
in one of the modes (`Apply`) and reports (`Report`), success only after it
has been applied. A report of failure promises nothing: the catalog may have
been applied, or be applied later.

## 3. The runs

| Run | Instance | What it shows |
|---|---|---|
| `race` | 3 requests, 2 users, 3 bodies, a template, a malformed id, no faults | the races between creates, renames, patches and deletes: `NamesUnique`, `DisclosesOnlyOwn`, `UpdateBasis`, `NoResurrection`, `OwnerOnlyWrites`, and the refinement, with every status as it must be where nothing fails |
| `faults` | 2 requests, 2 users, a template with changing catalogs, a malformed id, faults | `TypeOK`, `RowsValid`, `SlugResolves`, and the refinement where statements fail and templates go |
| `memory` | 3 ids, 2 users, 3 names, pages below, at and above both limits | `MapsAgree` and the refinement of the port |
| `shutdown` | 3 requests and a scrape, one connection | `GracefulOrExpired`, `ExitCleansUp`; `StopsWhenTold`, `FailureStopsAll`, `WaitersServed` |
| `releases` | an old binary (1 migration) and two new ones (2), numbers -1, 1, 2 | `CleanIsTrue`, `GateHolds`, `RefusalJustified`, `WritesAllowed`; `RunsEnd` |
| `pipeline` | 2 requests, 4 paths, 3 kinds of credentials, parameters that parse or not | `MetricsAreTrue`, `OnlyVerified`, `LogsTellOutcome`, `FailuresAttributed`; `AllAnswered` |
| `listing` | 3 profiles, 2 patches at once, 2 instants, limits 1 and 2 or none, one walk | `NothingSkipped`, `RepeatsExplained`; `RegressOnlyOnOverlap` |
| `seeding` | 2 seeders of one release, 1 of another | `OkMeansSeeded`, `DeadlockNeedsTwoReleases`; the refinement of `TemplateCatalog`; `SeedersEnd` |
| `lostupdate` | 3 requests of one user | violated: `PatchIsPartial` |
| `createstatus` | 2 requests, one template | violated: `CreateStatusDocumented` |
| `migrate_down` | as `releases` | violated: `DownBlockedInProd` |
| `logger` | as `pipeline` | violated: `LogsCarryUser` |

**Bounds.**

- *Profiles.* A profile exists only if a create made it, so three requests
  allow a create with two racing operations on its profile, or two creates and
  a rename: every pairwise race of statements of a PATCH with another write. Of
  the bodies in `race` one is complete, one renames or, with the template, creates
  a second name, and one resizes; the template comes and goes and has one body
  there, two in `faults`.
  Two users tell the owner from everybody else. Three values suffice for a
  field: an invalid one and two valid ones; three fields for a column that is
  validated and unique (`name`), one that is validated (`window_width`) and one
  that is neither (`extra`). Requests and users are interchangeable, so both
  are symmetry sets (all properties there are safety properties).
- *Memory repository.* The calls are unbounded; three ids let one user hold
  two profiles while a third collides, and with a longest page of two there is
  a listing that does not fit. Offsets reach before, into and past the list.
- *Lifecycle.* One connection and three requests give a holder and a queue of
  two, so that order and hand-over matter; the scrape keeps the admin server
  busy while the public one is closed.
- *Migrations.* Three processes are one more than can race for the lock: the
  third observes. Two releases, because a version beyond the embedded ones is
  possible only then. Each process runs once, as the programs do.
- *Pipeline.* Requests share only the metrics, so two are enough to see one
  count for another.

- *Listing.* Three profiles and pages of one or two: a walk has a first, a
  middle and a last page, and a create or a delete can come before, inside or
  behind the part that was shown. Two instants make stamps that differ and
  stamps that tie, and let a create store an old stamp late. Two patches can
  overlap on one profile. `Skew` is 0 in the run, where stamps are most
  constrained by the clock; instances with `Skew` 1 and three instants pass
  as well, and the proofs hold for every value.
- *Seeding.* Two seeders of one release show that they never wait in a cycle;
  the third, with the shared slugs in another order, makes a cycle of two and
  one of three possible, so that the detector fires. It also has a slug of its
  own, without which "all or nothing" could not be told from "nothing".

**Fairness.** The profile modules, the memory repository and `Listing` have
safety properties only and assume none: a request whose connection stalls may wait
forever, as no statement has a deadline. `Lifecycle`: the main goroutine runs
and the timer fires; nothing is assumed of clients, which may stay connected
forever, and nothing of servers. That the phases of Init come to an end belongs to
the first (`RunsEnd` and `SeedersEnd` look into two of them); of the statements
of requests nothing is assumed either: `StopsWhenTold` and `FailureStopsAll` say
in their first half that a process told to stop ends or is held up (`HeldUp`) by
a statement the database has not answered, since `Pool.Close` waits without a
deadline, and by nothing else. That it does end is the second half, under
`DatabaseAnswers`, the fairness of every statement of a request; so is
`WaitersServed`. `Migrations`: the steps of a process
that has begun are taken while they can be; whether a step fails is open.
That includes a wait for the lock: processes are finitely many, and each one
that holds it goes on. `HttpPipeline`: handlers return. `Seeding`: a seeder that has begun
sends its next statement, and the database answers COMMIT, breaks cycles and
ends transactions whose client is gone; a process is not obliged to start one,
and nothing is assumed about cancellation. Without the detector `SeedersEnd`
fails, without fairness of cancellation it does not.

**Deadlock** is checked in the profile runs (the seeder may always run) and in
`memory`. It is not in `shutdown` (the process exits), `releases`
and `migrate_down` (every process ends or has booted), `pipeline` and `logger`
(every request is done), `seeding` (every seeder has ended): there
`StopsWhenTold`, `RunsEnd`, `AllAnswered` and `SeedersEnd` say that only the
intended ends are reached. In `listing` the clock and the ids are bounded, so it
stops when the walk is over and they are used up.

## 4. Where the code and its documentation differ

1. *Lost update* (`lostupdate`). `model.go:60` says of a patch "nil fields are
   left unchanged". Two patches that overlap: the second UPDATE writes the
   values its SELECT saw, so it reverts the first one's field.
2. *404 for an unknown template* (`createstatus`). The error wraps
   `ErrTemplate` and `templates.ErrNotFound`, and `DomainErrorCtx` looks for the latter
   first. `api/openapi.yaml` lists no 404 for POST /device-profiles.
3. *`migrate down` where the service is in prod* (`migrate_down`).
   `README.md:241` says `down` is "hard-blocked when `APP_ENV=prod`";
   `config.Load` lowers the variable before it compares, `cmd/migrate` does not,
   so `APP_ENV=PROD` is prod for one and not for the other.
4. *Log records without user* (`logger`). `README.md:301-305` lists `user_id`
   among what every request's logger carries; the logger is built before Basic
   Auth has run.

Other places where the words and the code part, seen on the way and without a
run of their own:

- `README.md:179-181` promises `ErrNotFound` for rows that do not exist; an id
  that is not a UUID fails in the database and is answered 500
  (`MalformedId` in `DeviceProfiles`).
- `app.go:118-119` says a hook is registered "so batched spans are flushed on
  exit"; when a later phase of Init fails, `main` calls `os.Exit(1)` and no hook
  runs (`Fail` in `Lifecycle`). `ExitCleansUp` states what there is then: the
  exit code is 1 and nobody has been served.
- `middleware.go:127` speaks of one access log per request; a request that panics
  has the recoverer's record instead (`LogsTellOutcome` states what there is:
  one of the two, once).
- Not a divergence but a surprise: a template lookup that fails in the database is
  answered 400 `template_error`, as if the client were at fault (`service.go:58`);
  a template that goes between the lookup and the INSERT is answered 500. The
  refinement of `ProfileStore` checks that neither is taken for the other nor for
  an unknown template; which status is right it leaves to the code.
- Not a divergence but a surprise: `Normalize` makes a limit beyond 200 a limit of
  50, not of 200 (`model.go:78`).

## 5. What is proved

**Profiles** (`DeviceProfilesProofs`, `DeviceProfilesRefinement`). For every set
of requests, users, slugs and bodies, every choice of fields, values and
accepted values that satisfies `DataAssumption` and `ApiAssumption`, with and
without faults:

- `Invariance`: `Ind` is invariant. `Ind` is the conjunction of
  `TypeOK`, `CallsWellFormed` (arguments fit their operation and statement),
  `RowsTraceable` (profile `i` belongs to the user who sent create request `i`,
  and that request is answered), `InsertBasis` (a pending INSERT carries a valid
  draft that keeps what the client sent), `UpdateBasis`, `WindowsCurrent` (the
  current version of a pending request's profile is in its window), and
  `NamesUnique`, `RowsValid`, `SlugResolves`, `DisclosesOnlyOwn`. The
  strengthening is needed because what an UPDATE writes was validated two steps
  earlier (`UpdateBasis`, `InsertBasis`), and because ownership of a reply
  refers to the create that made the row (`RowsTraceable`).
- `TypeCorrect`, `NamesStayUnique`, `RowsStayValid`, `SlugsResolve`,
  `OwnershipIsPrivate`, `UpdatesHaveBasis` follow from it.
- `DeletedStaysDeleted` and `OnlyOwnersWrite`: the two action properties,
  from `Ind` and a lemma per statement about the rows it changes.
- `Refinement`: `Spec => ImplementsStore`. Initial states map to initial
  states; `Create` up to the INSERT and the SELECT of a PATCH map to
  stuttering steps that only extend the window (`SendRefines`), every replying step maps to the step of the store that
  takes effect, or to a justified refusal. It holds for both values of `Faults`,
  so a failure is reported only where something failed.
- `RepliesAreDocumented`, `RefusalsAreClean`, `UndisturbedPatchesArePartial`:
  what a reply tells its client. Every reply is one that `openapi.yaml` lists
  for the operation (lines 23-103), but for the 404 of a create that names a
  template (section 4); whoever is told of an error has changed nothing, except
  when the error stands for an acknowledgement that was lost; and a PATCH whose
  profile had no other version while the request was served is the partial
  update that its comment promises. The last one is the complement of the lost
  update of section 4: a write in between is its only cause. It rests on
  `UpdateBasis`: what the UPDATE writes is the client's change of some version
  in the window of the request.

**Memory repository** (`MemoryRepoProofs`). For any finite set of ids, any users,
names, bodies, pages and limits (`MemoryAssumption`): `MapsAlwaysAgree`,
`MemoryTyped` and `MemoryImplementsPort`. The two maps' agreement is what makes
a lookup in the index decide the port's `NameTaken` (`TakenMeansIndexed`,
`SameNameNotTaken`); a listing's length needs the cardinality of a slice of a
sequence without repetition. Two consequences that the callers rely on:
`NamesUniqueInMemory`, what the table's unique index says of the other adapter, and
`IndexStaysTight`: the index is exactly as large as the store, so that no rename
or delete leaves an entry behind that would refuse a name for ever.

**Lifecycle** (`LifecycleProofs`). For any requests and any pool size:
`TeardownInvariance`, and from it `NothingCutOff` (`GracefulOrExpired`) and
`ExitsClean` (`ExitCleansUp`, which for a failed Init also needs `Unserved`:
whoever is served came to a server that was built). The invariant `IInv` says for every phase what
has been registered, what is built, and which cleanups have run; because the
servers are registered after the pool, they are drained before it closes.
`BooksBalance` is the module's `TypeOK`, which includes `PoolBalanced`: `Books`
adds that no request queues twice and that there is no pool to wait for before
it is opened. A connection that changes hands (`AnswerBooks`) and a client that
leaves from the middle of the queue (`GiveUpBooks`) are the cases that need it;
the length of the queue is then the number of those who wait
(`LengthOfDistinct`).
`QueueIsFair` says of a request that waits that nobody new gets ahead of it and
that every statement that ends brings it nearer to the head; `WaitersHaveWork`
that somebody waits only while every connection is at work, `ClosingEmptiesQueue`
and `PoolNeverRefills` that `Pool.Close` waits for statements that are never
joined by others. `ProcessRunsDown` gives the main goroutine a measure in Nat,
from its boot to its exit and through every failure on the way, that each of its
steps lowers and no step of a server, a client or a signal raises;
`StopGetsThrough` says that once told to stop it can always go on, or waits for
the deadline or for statements the database has to answer. The measure counts
the cleanups left, so it is the registered order (`IInv`) that makes it one.

**Migrations** (`MigrationsProofs`). For any processes, releases and numbers
(`MigrationsAssumption`): `SchemaInvariance`, from which `SchemaTyped`,
`CleanVersionsAreTrue`, `GateIsSafe`, `RefusalsAreJustified` and
`WritesAreAllowed`. `Ind` adds to the properties that whoever works on the
schema holds the lock (`LockHeld`), that each process is where its job can take
it (`JobsFit`), and that a migration under way is marked dirty, with the target
as the schema before the flag is cleared (`UnderWay`). `CleanIsTrue` alone is not inductive:
clearing the flag preserves it only because nobody else came in between.
`LockIsNeverOrphaned`: whoever holds the lock is at work under it, also when runs
fail or are killed; hence `MigratorsNeverStall`: a run that has begun can go on or
waits for one that can. `RunsRunDown`: each step brings its run nearer to its end,
by a measure made of its job and its release, and no other run further from it,
although the version may go up and down while it waits.

**HTTP pipeline** (`HttpPipelineProofs`). For any set of requests, finite or
not (each request is counted only once it has arrived):
`PipelineInvariance`, and from it `PipelineTyped`, `MetricsTrue`
(`MetricsAreTrue`), `StrangersStayOut` (`OnlyVerified`), `OutcomesLogged`
(`LogsTellOutcome`) and `FailuresLogged` (`FailuresAttributed`). The invariant
speaks of one request at a time (`One`: where in the chain it can be, that the
recorders it has passed saw what the client got, that the record of its outcome
is there or still to come) and of all together only in `Account`, which says
that the gauge and the counters are the sizes of finite sets. The counter is
right because the recorder of the metrics middleware has heard, below it, of
every answer (`Heard`).
`RequestsAreBounded` and `NobodyForgotten`: a request is over after at most sixteen
steps of its own, it can take the next one wherever a panic has left it, and when
it is over it has been answered.

**Listing** (`ListingProofs`). For any finite set of ids, any number of
patches under way, any limits and any skew (`ListingAssumption`):
`ListingInvariance`, and from it `ListingTyped`, `WalksMissNothing`
(`NothingSkipped`), `RepeatsAreExplained` (`RepeatsExplained`) and
`StampsRegressOnOverlap` (`RegressOnlyOnOverlap`). `NothingSkipped` says nothing
before the walk is over, so the invariant keeps an account during it
(`WalkSoFar`): profiles that were there from the start, have not been shown and
now have places below the offset are at most as many as were deleted; profiles that
were shown and are at the offset or beyond again are, with the repeats so far, at most as many
as were created. A page adds to neither, because the places of the rows are
the numbers from 0 without repetition or gap (`PlacesDistinct`, `NoGap`), so a
page that ends before a row is full (`FullPage`). `NoGap` takes the lowest row
beyond a supposed gap, by well-foundedness, and counts the rows below it.
`NothingSkipped` leaves out the profiles that were deleted; `WalksTellTheTruth`
counts them too and says the same of profiles that came: a finished walk and the
table it began with differ by at most one profile per insertion and one per
deletion. That is stronger because a deletion pays either for the deleted profile
or for the one that moves to the place before the offset, never for both
(`NotBefore`). So a walk beside no create and no delete is exact
(`UndisturbedWalks`), and since a full page fits into the table (`PagesFit`), its
offset never exceeds what the walk began with and what was inserted since
(`WalksAreBounded`): a client that stops at the first short page stops if the
creates do.

**Seeding** (`SeedingProofs`). For any set of seeders, any catalogs without
repetition and any contents (`SeedingAssumption`): `SeedingInvariance`, and from
it `SeedingTyped`, `OkIsSeeded` (`OkMeansSeeded`), `OneReleaseNoDeadlock`
(`DeadlockNeedsTwoReleases`) and `SeedersImplementCatalog` (`ImplementsCatalog`).
Of an open transaction the invariant says that what it holds is what it has to
write, and that every row it has sent is held or, in mode `skip`, was there
already (`WorkDone`); a commit of it is then the abstract `Apply`. Seeders of one
release send their rows in one order, so whoever is waited for has fewer rows
left than whoever waits (`FewerLeft`), which no circle allows.
For seeders of any releases, modes and orders, `SeedersNeverStall`: of seeders
that wait only for one another one can go on, if only because the database finds
a cycle among them; and `SeedersAreBounded`: every step brings one seeder nearer to its
end and no other further from it.

**Only model-checked.** Every safety property that a passing run checks is also
proved. What is left to TLC are the statements that are violated, and liveness
itself (`StopsWhenTold`, `FailureStopsAll`, `WaitersServed`, `RunsEnd`,
`AllAnswered`, `SeedersEnd`), which needs ENABLED and so is beyond the prover, as
is induction over data. The safety facts under liveness are proved, though, for
every value of the constants: that nobody who has begun is stuck, and that what
is left to do is a natural number that steps lower. What remains is the fairness
of section 3. The proofs say "can go on" with guards of their own (`Ready`,
`MainReady`, `InHand`) instead of ENABLED; on the instances of the runs TLC finds
them equal to ENABLED of the actions for which the specifications ask fairness.
`WaitersServed` has no measure of its own: its safety half is `QueueIsFair`.

TLC also shows that each property is sensitive to plausible bugs: the definitions with
names like `NoUniqueKey`, `RenameKeepsOld`, `ForceUnlocked`, `RecovererOutside`
or `Oldest` stand before the definition they are a faulty version of.

## 6. What is not modelled

- The memory repository of templates is a map that is filled once and read.
- Metrics other than the request gauge and counter, spans, `pgxtags`, `httpx`:
  no behaviour depends on them.
- Generated code beyond its routes and the refusals of its wrappers (which
  answer in plain text, unlike every other refusal); deploy files.
- The individual rules of `validateFields` (a name's length counts bytes) and
  of `parseUsers`: see the plan.
- `migrate version`, which only reads, and wrong command lines.
- The digits of `created_at` below a microsecond: the reply of a create shows
  them, the column does not keep them, so a later GET shows an earlier time.

## 7. Plan

The order was: the profile core with its abstract store and proofs, then the
lifecycle, migrations, the memory adapter and the middleware; paging, time
stamps and seeding followed. What comes next:

1. *Validation* as pure functions checked against a reference definition:
   `validateFields` (bytes against characters), `parseUsers`.
2. *The Postgres adapter behind `ProfilesPort`*, so that both adapters refine
   one specification and the differences are stated where they do not.
3. *Composition* of the lifecycle with the pipeline: a server that drains is
   waited for until the last request has left the chain.
4. *Proofs* of what these modules add; every safety property so far has its own.
