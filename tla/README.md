# A TLA+ verification of memcore-rs

memcore-rs is a memory service for language-model applications: an Axum HTTP
API over an engine that extracts facts from messages, resolves them against what
is stored, and assembles contexts from them. This directory holds TLA+ models of
its parts, the TLC configurations that check them on small instances, and TLAPS
proofs of their central properties for every value of the constants.
`PROJECT.json` lists the runs, the theorems, the source lines each definition
models, the hazards the properties are aimed at, and the disagreement found
between the code and what it says of itself.

Run a configuration with `tlc -config MCJobLock.cfg MCJobLock`, and check proofs
with `tlapm JobRunnerProofs.tla`.

## Inventory

| Part | State | Operations | Hard because |
|---|---|---|---|
| Job runner (`memcore-core/src/jobs`) | running flags, last runs, shutdown token, calls in flight | `run_due_once`, `run_job` (with and without locks), retries, admin trigger | several instances and callers; leases shorter than jobs; timeouts, shutdown and crash at any await |
| Job lock stores (`memcore-storage/src/jobs/locks`) | one row per kind: owner, `locked_until` | acquire, release, renew | skewed clocks, lost answers, dead owners |
| Jobs, registry and history | run rows, snapshot rows | snapshot and retention jobs over several organisations | one organisation of several fails; a retry must not serve one twice |
| Circuit breaker (`memcore-providers/src/circuit_breaker`) | state, failures, probes in flight | `check_allow`, `record_success`, `record_failure` | answers that arrive in a later state; probes that never report |
| Provider router and guardrails (`routing`, `guardrails`, `policy`) | call budget, providers used, call-source slot | select, admit, reserve, attempt, retry, fall back | everything is process-wide and shared by concurrent requests |
| Provider usage (`ports/provider_usage.rs`, `usage`) | attribution slot, token slots, records, spawned tasks | bind, store tokens, record, persist, purge | the slots are process-wide; the row is written by a task of its own |
| Context cache coordinator (`context/cache_coordinator.rs`) | per-key locks, refreshes in flight | get or compute, stale-while-revalidate, refresh | stampedes, lock timeouts, dropped requests |
| Context cache backends (`context/cache.rs`, `context_cache/redis.rs`) | entries; in Redis also an index set per user | get, set, invalidate, expire, evict | several Redis commands per operation, none of them atomic together |
| Memory engine, writing (`engine/mod.rs`, `lifecycle`) | none of its own: it writes the fact store, the vector store, the event store and the cache | add, delete, retain, forget, import | no transaction spans two stores; requests interleave at each statement |
| Memory engine, reading | - | search, context, export, import round trip, dashboards, snapshots | several reads of tables that change in between |
| Ranking, context assembly | pure | fusion, tie-breaks, greedy packing, compression, merged summaries | arithmetic, boundaries |
| Stores (`memcore-storage`) | facts, events, usage, runs, snapshots, keys, plans, vectors, each in two or three backends | CRUD, lists, searches, counts, totals, retention | several implementations of one port; keyset pages over tables that change |
| API gate (`memcore-api/src/middleware`, `routes`) | rate windows, key rows, plans, counts | authenticate, admit, check the quota, serve | order of checks, window edges, rights copied into a request, check and write apart |
| Settings, startup and shutdown (`memcore-config`, `state.rs`, `app.rs`, `migrations`) | settings, schema, `schema_migrations`, wiring | load, validate, migrate, wire, serve, stop | several processes and releases over shared databases; crashes between statements |
| Backup (`memcore-core/src/backup`, `memcore-storage/src/backup`) | files of a directory | name, copy, validate, rotate | several runs over one directory, killed runs |
| Redaction, metrics, OpenAPI, DTOs, provider clients, error types | - | - | strings or I/O: not modelled |

How they interact. A request passes the gate, checks its quota and calls the
engine. The engine calls the LLM and embedding providers through the router
(which consults guardrails, budget and circuit for every candidate provider),
each call leaves its usage with the recorder, and the engine reads and writes the
two stores and invalidates the user's contexts at the end. Context requests go
through the coordinator, which calls the engine's search to compute. The job
runner of every instance shares one lock table with the others and calls the
engine's retention and snapshot operations. Which database each store lies in is
decided at startup, after the migrations have run.

## Modules

| Module | Models | State and actions |
|---|---|---|
| `JobLockStore` | the lock stores | `locks`; operators for the acquire, release and renew statements, with times relative to now |
| `JobLock` | any disciplined user of the lock port: the abstract specification | adds `view`, the leases its users believe in; acquire, renew, release, lost answers, restarts, ticks |
| `JobRunner` | `BackgroundJobRunner`, in-memory job state, retry loop, shutdown token | one record per call of `run_job`; an action per await: enter, begin, lock, attempt, body, backoff, grace, release, record, persist; crash, disconnect, tick |
| `CircuitBreaker` | `ProviderCircuitBreaker` | operators from circuit to circuit |
| `ProviderRouter` | `execute_with_fallback` with guardrails, budget and policy | one record per request; select, enter, load and compare-exchange of the budget, circuit, attempt, retry, fall back, drop |
| `ContextCache` | coordinator, both backends, the writes that invalidate | one record per task; an action per await or per Redis command; expiry, eviction, failures, drops |
| `MemoryEngine` | the writing operations of the engine over the SQLite fact store and the Qdrant vector store | one record per request; an action per statement; failures and drops |
| `Retrieval` | `reciprocal_rank_fusion` and the final order of `search_memory` | operators; ranks are exact fractions over a common denominator |
| `ContextAssembly` | token estimate, formatter, budgeted selection, compression, provider summary | operators over texts that are lengths and the memories they show |
| `UsageLog` | attribution and token slots, the two recorders, the spawned tasks, retention | one action per use of the log |
| `Reading` | `search_memory`, `build_context_uncached`, export, replacing import, summaries, dashboards, snapshots, the two jobs over organisations | one record per request; an action per await; the writers a reader can meet; composes the three modules above |
| `Sorting` | `ORDER BY`, `sort_by` and `SUM` | operators that count places and units, so that what they return can be proved |
| `StoreCommon` | answers, tenants, keyword filters, cursors and keyset pages | operators |
| `FactStores`, `RecordStores`, `VectorStores` | each operation of each implementation of the storage ports | operators from table and arguments to answer and table |
| `Stores` | the ports | all backends of one port take the same calls side by side while a client pages |
| `ApiGate` | `require_api_key`, `require_organization`, `enforce_rate_limit`, body limits, scopes, quota check and report, API-key and plan handlers | one record per request in flight; an action per await; ticks, restarts in other settings |
| `Settings` | `Settings::from_env` and `validate` | operators from an environment to settings or an error |
| `Startup` | startup checks, both migrators, wiring of state, serving, readiness, redeployment, graceful shutdown | one record per process; an action per statement or await; crashes |
| `Backup` | `SqliteBackupProvider`, file names, validation and rotation | one record per run; an action per file-system call; writes to the database, kills |
| `MC...` | small instances of the above | constants and symmetries only |
| `...Proofs` | theorems about the module of that name: `JobRunner` with `JobLock`, `ProviderRouter`, `ContextCache`, `MemoryEngine`, `ApiGate`, `Startup`, `Reading` with `UsageLog` | `StorageProofs` is about `Backup` and `Stores` |

`JobRunner` extends `JobLockStore` and is shown to implement `JobLock` (property
`LockDiscipline`: `INSTANCE JobLock` with `view` mapped to the leases of the
instance's calls). `ContextCache` takes a write of the engine as one version step
followed by its invalidation; `MemoryEngine` shows which requests reach that
invalidation. `Reading` takes of a write what a reader can see of it; `ApiGate`
takes of it its effect on the counts.

Conventions. Times are kept relative (ticks left or ticks since), so that no clock
grows. A request whose future is dropped (a client that disconnects; Axum drops the
handler) disappears at its await and leaves behind what it had written. History
variables are commented as such and guard no action. A definition preceded by a
comment that begins with `Mutant:` is a broken variant of the one after it; it is
in no specification. Properties that belong together are named parts of one
conjunction, which is what a run checks.

Abstractions. A job body, a provider answer or a store statement is a choice among
its outcomes. Contents, contexts and messages are values that are only compared:
a content in `MemoryEngine` is the class of texts of one memory type that deduplication
takes for one, the age of a fact whether it is older than the retention cutoff,
a context in `ContextCache` is the version of the memories it was computed from, a
text in `ContextAssembly` its length and the memories in it, a number in `Settings`
what the parsers and comparisons tell apart. `MemoryEngine` has one user, because
every statement is restricted to an organisation and a user, which `Stores` checks.
Audit events, metrics and log lines decide nothing and are left out; the statements
that delete or restore events can fail and are steps. Where one statement of a
store consists of a check and a write that a unique key protects (`insert_fact`),
it is one step, because either order ends in the same error. `ApiGate` keeps of a
response whether it is served or at which check it was refused, not its status code.

## Runs

| Run | Properties | Shows |
|---|---|---|
| `job_lock` | `LeaseExclusive` | valid leases exclude each other, for three instances with clocks 0, 1 and 2 ticks ahead and a TTL of 3 |
| `job_runner_scheduled` | `LeasedRunsExclusive`, `FlagsTruthful`, `LockDiscipline` | two schedulers, a lease shorter than the job (as with the defaults), crashes, store errors, retries; the runner refines `JobLock` |
| `job_runner_live` | `RunnerSettles` (`RunTerminates`, `ShutdownStopsScheduler`) | every call of `run_job` ends, also when the body hangs, with and without the distributed lock, and a shutdown stops the scheduler |
| `provider_router` | `BudgetRespected`, `SingleRealRespected`, `RouterSound` (`TypeOK`, `CircuitsOK`, `AttemptsBounded`), `RefusalJustified`, `RouterSettles` (`HalfOpenSettles`, `CallsReturn`) | two requests race through two operations in single-real mode, with retries, fallbacks, fatal errors and drops; a half-open circuit is decided unless one of its probes never reported |
| `context_cache` | `InvalidationHolds`, `ComputedOnce`, `CoordinatorSound` (`TypeOK`, `OneRefresh`, `InflightDrained`, `CapacityRespected`), `RequestsSettle` (`TasksEnd`, `RefreshSettles`) | two tasks in four configurations of backend, stampede protection and stale-while-revalidate |
| `memory_engine` | `VectorsFollowFacts`, `CacheTold`, `NoDuplicates`, `DeletedStaysDeleted` | two requests with three items between them, interleaved at every statement, one failure |
| `api_gate` | `KeysRespected` (`TypeOK`, `NoAnonymousRequest`, `RevokedKeysStayOut`), `SlidingBound`, `OvershootBounded`, `ReportTrue`, `LockoutFinal` | tenants stay apart, revoked keys and locked-out organisations stay out, at most twice the limit passes in any window's length, concurrent writes exceed the quota by no more than each adds after its own check, undisturbed reports are true |
| `stores` | `AnswersAgree` (`RowsAgree`, `SearchesMatch`), `PagesComplete`, `SummariesMatch` (`TotalsMatch`, `CountsMatch`, `DryRunHonest`), `TablesSound` (`StoresTypeOK`, `TenantsIsolated`, `OneVectorPerFact`) | the backends of a port answer alike; a row that did not change is listed exactly once; totals, counts and dry runs speak of the rows that are there; no call reads or changes a foreign tenant's rows |
| `stores_users_page` | `UsersPagesContinue` (violated) | on Postgres the second page of an organisation's users is refused |
| `startup` | `SchemaSound` (`TypeOK`, `RecordedMeansMade`, `MigrationsInOrder`), `ReadyMeansMigrated`, `WiringSound` (`StoresHaveTables`, `JobsShareLocks`, `SettingsBounded`), `ProcessesSettle` (`EventuallyServes`, `ShutdownEnds`) | processes of several releases and modes migrate shared databases at the same time, with a crash; a process that is ready has its schema, processes over the same facts share their job locks, validated settings keep delays bounded |
| `reading` | `SearchSound` (`ResultsLive`, `ResultsTrue`, `Recall`, `RankedWell`), `ContextSound` (`ContextWhole`, `ContextFits`, `ContextFull`), `UsageSound` (`UsageConserved`, `BilledToCaller`), `TokensTrue` (`TypeOK`, `TokensNotInvented`, `TokensReported`), `RoundTrip`, `AdminHonest` (`CountsTruthful`, `JobHonest`) | readers and writers of two users, the spawned usage tasks, one failure |
| `backup` | `SnapshotTrue`, `DirectorySound` (`TypeOK`, `FilesBounded`, `GoodBackupSurvives`), `KeptUntilReplaced` | two runs into one directory; a run without a rival reports a true snapshot, reported files stay until rotation replaces them, the directory stays small and keeps a good backup |

The violated property states what the repository's API description says; the entry
under `findings` quotes it.

### Bounds

* Two processes or requests suffice for each race in the hazards list, because each
  is between a step of one and a step of another; three instances are used for the
  lock table, where a third can take over while the first still believes in its lease.
* Ticks are bounded by construction: all times are relative and saturate. `TTL`,
  `Interval`, `Backoff` and `Grace` are the smallest values that keep the order of
  the defaults (an interval longer than the lease, a backoff shorter than both).
* `provider_router`: `MaxCallsPerRun = 3` with two requests of two attempts makes the
  budget run out in the middle of a request; `FailureThreshold = 1` opens a circuit
  at once, so that every pair of a late answer and a state is reached.
* `context_cache`: `MaxEntries = 1` with two keys forces evictions, `MaxVersion = 1`
  gives one write and its invalidation against two tasks; `Ttl = StaleTtl = 1` reaches
  fresh, stale and expired. `Lock` has as many values as tasks: no more are ever alive.
* `memory_engine`: `MaxWork = 3` items allow an `add_memory` with two candidates
  beside a single operation, and three operations one after the other, such as a
  failed one, its retry and a rival; `MaxFaults = 1` because a second failure ends a
  second request in the same way. `Id` holds a fresh id for every item.
  `DEDUP_SEARCH_LIMIT` is 50 in the code and 1 here, and all contents have one memory
  type: two active facts already make a lookup of deduplication miss one of them, the
  old one always, one of two recent ones by choice. One of the first tables has a content twice.
* `api_gate`: two requests at a time, of four kinds of traffic with three to six
  arrivals: keys and tenants (with restarts between auth modes), quotas and plans,
  reports, and the limiter with more organisations than it keeps. `Window = 2` and
  `MaxNow = 4` reach both sides of a window's edge; `MaxFacts = 2` is one more than the
  quota of the settings.
* `stores`: one port per behaviour; tables of up to three or four rows, of which two
  belong to one user with equal or different times; pages of 1 and 2 rows, and the
  limits 0 and 101 that are refused or clamped.
* `api_gate` has `MaxNow` as its only clock bound: `admitted` keeps every request that
  passed, not a window of them, so that `SlidingBound` speaks of any interval.
* `startup`: about 500 environments of one process, each a combination of the
  variables that some validation or wiring rule reads together; two processes, one
  crash and one redeployment for the migrations, from a fresh database, one migrated
  by the previous release, and one that sqlx had migrated.
* `reading`: two users in two organisations, four memories (one deleted whose point is
  still there, one with two points that overlapping updates left), three contents, two
  requests begun (`MaxWork`) and one fault; budgets that hold everything, a part, one
  short memory and nothing; an export limit of two. The process has one provider
  candidate per capability, hence one usage event per call; with fallbacks the router
  records one for every candidate it tries or finds refused (`router.rs:212`, `:232`, `:290`, `:337`).
* `backup`: two processes, two seconds, three runs, one write, two kills; two of the
  three labels sanitize alike; `MaxFiles = 1` makes every run rotate.
* Deadlock is not checked where a behaviour ends because its work is used up
  (`ContextCache`, `MemoryEngine`, `ApiGate`, `Stores`, `Reading`, `Backup`), nor for
  `Startup`, where a refused process stays down.

### Fairness

Only the liveness properties assume any. `job_runner_live`: weak fairness of the
clock, of every call's next step and of the scheduler task, which tokio gives a task
that is ready; the body may hang, since its own step is not in the fair action.
`provider_router`: weak fairness of each request's steps; an attempt ends because the
policy puts a timeout around it. `context_cache`: weak fairness of each task's steps;
a search or Redis command answers or fails. `startup`: weak fairness of each process's
steps; a stopped process is started again by its supervisor, statements return, and
the shutdown timeout fires. Dropping, failing, crashing, redeploying and writing are
never fair.

## Proofs

All theorems hold for any sets of instances, kinds, requests, tasks, keys, providers,
operations, tenants, processes and deployments that satisfy the named assumptions of the
modules. `LockConstants`, `RunnerConstants`, `BreakerConstants`, `RouterConstants` and
`CacheConstants` are what `Settings::validate`, `validate_circuit_breaker_config`,
`ProviderGuardrailConfig::validate` and `ContextCacheConfig::validate` enforce.
`EngineConstants` and `StoredTables` say that a table's ids are finite, that fresh ids are
not in use, and that deduplication looks at one fact at least. `TrafficOK` and `NoneApart` give the
clients' requests and the tables of `ApiGate` their types. `Deployments` says that a
release numbers its migrations from 1, and that what a database records at first, in
`schema_migrations` or in sqlx's table, was made in the order of versions.
`BackupConstants` asks for at least one file to keep, as `rotate_memcore_sqlite_backups` does.
`StoreConstants` gives the rows that are written their columns and ids and times an order,
asks a query for at least one row, which the callers of the ports check, and has two API
keys with different ids differ in their digest; keys are inserted unrevoked.
`ReadingConstants` gives the requests and the first tables of `Reading` their types and has
finitely many ids, tenants and points, of which a fact may have several; an organisation may be configured twice for a job.
TLC evaluates each assumption in the run of its module.

* `JobRunnerProofs`, of the lock port first. `LeaseExclusion`: two instances never hold
  valid leases of one kind. A lease is valid while it would be unexpired on every clock.
  The inductive invariant is `PortTypeOK /\ ValidLeaseBacked`: a valid lease is backed by
  a row of its owner that lasts at least as long; exclusion follows because a kind has
  one row. Then of the runner. `RunnerTypeCorrect`: types, and the bound on attempts.
  `LeasedRuns`: when only schedulers call `run_job`, every run under a valid lease is
  backed by its instance's row, so that leased runs exclude each other. `FlagsTrue`:
  then the running flags also tell the truth; `RunJobMoves` says once where each step
  of `run_job` leads and what it does to flags and lease, and the flags of an instance
  are compared with its one call (`FlagsOf`). `RunnerRefinesLock`: then every step of
  the runner is a step of `JobLock` under the mapping `RunnerView`, or a stutter, one
  lemma per kind of step. With admin requests these statements are false (locks are
  re-entrant for an owner, and the first release takes the row away; a dropped request
  leaves its flag), which is why the theorems have that hypothesis.
* `ProviderRouterProofs`. `RouterTypeCorrect`: types, and that each circuit is one
  its operations can leave behind. `SingleReal`: in single-real mode one real
  provider is contacted; the inductive invariant `Claims` adds that every request past
  admission goes to the provider in the used set. `CallBudget`: no more than
  `max_calls_per_run` real calls are made; the inductive invariant `Budget` counts
  the calls made and the requests that have paid and not yet called (`Pending`)
  against `used_calls`. `RefusalsAreJustified`: the invariant `Decided` says that a
  half-open circuit that is not marked as leaked has a call in flight, which is exactly
  what a refusal needs. `RouterIsSound` adds the bound on attempts: `Attempts` counts,
  beside what was sent, the numbered attempts that calls in flight may still make
  (`Slots`, a set of pairs), so that a step that sends moves one pair to the count and
  a call that is begun brings `total_attempts()` of them.
* `ContextCacheProofs`. `BooksInv` are the books of the coordinator: a task that owns a
  lock is at the head of its queue, queues are those of the tasks that wait, a lock in
  the map belongs to tasks of that key, and, unless a future was dropped with one or an
  error returned early, a lock in the map has a task that will clean it up.
  `CoordinatorIsSound` follows. `InvalidationIsEffective` adds `FreshInv`: what a task is
  about to store, and what is stored in full, is no older than the last completed
  invalidation unless the two overlapped; in Redis the index lists every such entry for
  as long as it lives, so that an invalidation under way has it on its list.
  `ComputedOnceHolds` adds `CalmInv`: as long as nothing upsets the cache, a key nobody
  has stored has its one lock in the map and the head of that queue computes it.
* `MemoryEngineProofs`. `EngineTypeCorrect`: types. `EngineTellsCache`: `CacheTold`
  for any number of requests, facts and failures. `StaysDeleted`: no step makes a
  soft-deleted fact active. The inductive invariant `EngineInv` adds to the types
  what an operation's record holds at each statement (`OpOK`: items of its kind, one
  at hand where the statement needs it, and a fact id), so that no statement reads an
  absent item. `CacheTold` rests on `Remembers`: a request that wrote goes on as one
  that wrote and still runs, until it invalidates or ends with an error.
  `StoresAgree`: `SyncInv` says how far apart a fact's row and its points are: `InSync`
  when nobody is at work on the fact, and what `Phase` says of the statement reached when
  one request is (row written and point missing, row deleted and points still there).
  A fact that two requests worked on at once, or that a request left midway, is tainted.
  Each action has a lemma that its step is `Good` for every fact: it changes only what
  its request holds and leaves the fact in the phase it moves to. `NothingStoredTwice`:
  `DupInv` adds that a content which one request alone has found new is in no active fact,
  unless it was `Hidden`: a lookup that misses an active fact with the content is full, and
  all it lists may come before that fact (`MissedHidden`). `NothingHidden` shows that this
  needs more than `DEDUP_SEARCH_LIMIT` active facts of the type.
* `ApiGateProofs`. `KeysAreRespected` from `GInv` (types, and what a request carries at
  each check) and `KInv` (whoever is past authentication has a key of the named
  organisation that was not revoked when the request arrived, because no step takes a
  revocation back). `LockoutIsFinal`: from `KInv`, because no handler grants more than
  its caller has. `SlidingIsBound`: `WInv` gives every admitted request a place in its
  window, different requests different places, and windows that do not overlap; an
  interval as long as a window meets two of them, which an injection into two sets of
  places counts. `OvershootIsBounded`: `OInv` bounds the facts of an organisation
  together with those that requests past their check may still add (`Pending`).
  `ReportsAreTrue`: `RInv` says what a report that nothing has torn has read so far.
* `StartupProofs`. `StartInv` consists of what a process is (`ProcOK`), what it may rely
  on in the databases (`Covered`), and that each database is in order (`DatabaseOK`).
  Databases only grow (`Grows`), which keeps `Covered` true of everyone else. What is
  left to seed or to apply has no gap before it that is not recorded, so its first
  version can be recorded: `SchemaIsSound`. A database that a process has checked passed
  its report: `ReadyIsMigrated`, and `StoresHaveTables` in `WiringIsSound`. The rest of
  `WiringIsSound` is about the settings of a running process, which were validated:
  `BackoffBounded` for every jitter and multiplier and the three retries of a guarded call.
* `ReadingProofs`, of the usage log first. `UsageIsConserved`: `UsageConserved` for any tenants, requests,
  jobs and failures. `ReadingStep` shows that every step of `Reading` is a step of the
  log (`UsageStep`) or leaves it alone, so that the rest of the proof is about the log
  only. `UsageInv` adds that both sets of events are finite and hold events of earlier
  calls only: the event of the next call is new, and each move of an event changes two
  of the counted places by one.
* `ReadingProofs`, of the requests then, from `ReadingInv`. `Requests` says at which
  statements a request of each operation can be and what its record holds there, and
  `Alone` that of two requests under way neither counts as alone.
  `ImportsRoundTrip`: `Imports` says what an import that ran alone has done so far. After
  `delete_user_data` the user has no row, after `delete_by_user` no point, then exactly the
  rows and points of the items before the one at hand, which has a row and no point yet;
  the items of a valid dump have different ids. `CallersAreBilled`: `Bills` says that the
  slot names the caller of a search or an update that runs alone, and that its events
  do, on their way and in the store. An import binds nobody and is left out of the property. Both halves make `UsageIsSound`. `AdminIsHonest`: `Counts` keeps every number that a report
  has read among those that were true while it ran, and the calls it read from the store
  below those counted, which only grow; `JobsOK` says that what a job has served is the
  front of its configured organisations, and less than that if one failed; its status
  follows from that. Each action has one lemma about the request that takes
  it; what it does to all others is shown once (`MovedKeeps`), because nobody else
  counts as alone and what was true stays recorded.
* `ReadingProofs`, of searches last. `SearchIsSound` from `SearchInv`: `Sees` says that
  what the tables hold now is among what the search has seen of them, `Holds` that a
  memory whose row and only point agreed at the start and that nobody has touched
  (`Steady`) still has both. Other memories may have no point, a stale one or several, as
  overlapping updates leave them: `search_vectors` may list them twice, fusion counts the
  first rank, the result shows the last hit. `HitsOK` and `RowsOK` say what the two
  stores have returned and which rows are left to fetch. A write by anybody else touches the fact it writes, which keeps all four
  true of the others (`SearchStep`). `RankedWell` needs the order of the results:
  `ContributionFalls` shows that the share of a rank falls strictly up to the cap of 50, and
  `Sorting` that a sorted list puts no row before a better one.
* `StorageProofs`, of backups first, from `BackupInv`. `SnapshotsAreTrue`: a run that shares its name with
  nobody finds under it nothing, the part it has written itself, or a whole file of its
  own (`OwnedOK`), whoever else runs, is killed or rotates; what it reports is read from
  there. `DirectoryIsSound` and `BackupsAreKept` are about runs that do not overlap:
  `AloneOK` says that the run under way has the last place of the listing once its file
  is whole, that the listing is no longer than the files to keep, those that faults left
  behind and its own, and that what rotation still has to remove is exactly the front of
  the listing (`Victims`). Hence the file of the run is never among the victims, and a
  reported file has `MaxFiles` newer ones when it goes. The listing is a sequence without
  duplicates of exactly the existing files (`ListingOK`).
* `StorageProofs`, of the stores then, from `StoresInv`. `RowsOK`: a table is finite and
  has one row for a primary key (`Good`), Postgres has SQLite's rows, and the mock has the
  same with its deleted facts in a set of their own (`MockTable`). One lemma per operation
  shows that the three implementations keep it, answer alike and change the caller's
  rows only. `VectorsOK`: Qdrant and LanceDB have one point for a fact, and every point of
  theirs is in the mock. `TablesAreSound` and `BackendsAgree` follow; the answers of a query
  are compared as sorted and cut sequences, whose members, order and length `SortedIs`,
  `NewestIs` and `PageIs` give for any rows. `PagesAreComplete` adds `WalkingOK`: of the
  rows that stayed in the list exactly those are listed that do not come after the
  cursor, and none of them was listed twice. Without the cursor in it the invariant
  would not be inductive: a new row may come into the list on either side. A change that
  moves a row across the cursor takes it out of the rows that stayed. `NumbersAreTrue`
  counts: a sum is the cardinality of a set of units, so that daily buckets, users and
  statuses are disjoint parts of one set (`PartsAddUp`), and what a retention run deletes
  is a subset of the rows it has counted.

Only model-checked:

* liveness and `ENABLED` (`RunnerSettles`, `RouterSettles`, `RequestsSettle`,
  `ProcessesSettle`), which are outside this prover's reach;
* what is computed by folding over a sequence or a set (`ContextSound` and the
  sums of tokens in `TokensTrue`), where a proof for every input needs induction over data;
* powers, which the prover does not interpret: `Settings` gives the backoff factor of each
  of the three retries that are checked as a product (`Powers`);
* the runner with admin requests, about which `LeasedRuns`, `FlagsTrue` and
  `RunnerRefinesLock` say nothing.

## Seen while modelling, without a run

These are what the code does; the properties are stated so that they hold beside them.

Jobs.

* A run that is skipped because its kind is running (or cancelled before it starts,
  `runner.rs:268`) is recorded through `record_run`, which removes the running flag of
  the run really going on (`runner.rs:281` and `:105`); the next trigger starts a
  second one beside it. The test `overlapping_same_job_is_skipped` stops one step short
  of it. `FlagsTruthful` is about schedulers only.
* Two overlapping `run_job` calls of one instance share its lock row, and the first
  one to end releases it. A dropped admin request leaves its kind flagged as running.
* `sanitize_background_job_error_message` cuts at byte 512, which panics inside a
  character of several bytes.

Providers.

* A half-open probe that ends with an error outside the health classification
  (`router.rs:366`), or is dropped, gives no slot back: the circuit stays half-open and
  later calls are refused as "provider circuit is open". `HalfOpenSettles` and
  `RefusalJustified` exempt exactly the circuits with such a probe.
* The call source is one slot per process, cleared at the end of any request
  (`provider_guardrails.rs:65`): a load test's call can reach a real provider although
  `README.md:145` says such calls are "automatically blocked".
* A success that arrives after its circuit has opened closes it. The call budget is
  consumed before the circuit is asked; calls the circuit refuses stay counted.
* `import_user_data` does not name its tenant: its embeddings are booked on whoever
  came before, or on nobody. `BilledToCaller` leaves it out.

Cache and engine.

* In Redis a `set` whose `SADD` falls between the `SMEMBERS` and the `DEL` of
  `invalidate_user` (`redis.rs:121`) loses its index entry, and later invalidations do
  not find the context. The index can also expire between `SADD` and `EXPIRE`.
* A context computed before an invalidation and stored after it is served for its
  whole TTL (`InvalidationHolds` exempts exactly these).
* An append import of a fact that was soft-deleted since keeps its id, because
  `get_fact` hides it, and `insert_fact` answers Conflict (`engine/mod.rs:1269`); the
  facts before it stay imported and the cache is not invalidated.
* `find_existing_facts_for_dedup` loads the 50 facts of the candidate's memory type that
  were updated last (`dedup/types.rs:13`). A user with more of them can store an older
  content again by a single `add_memory`, unless its vector is found near enough.
  `NoDuplicates` exempts exactly the contents found new while they were so hidden.
* An update and a deletion of one fact, two updates of it, and a `forget_user` beside
  an `add_memory` can leave a vector without a fact or with an old content. Embedding
  deduplication then takes it for a known fact. `VectorsFollowFacts` shows that only
  the facts of such pairs, or of requests that failed midway, are affected.
* Retention lists ids and updates rows in two statements. A fact updated in between
  stays active and loses its vector, and when no row is left to delete the cache is
  not invalidated either.
* `delete_memory` that fails at the vector cannot be repeated: the fact is gone for
  `get_fact`.
* A replacing import that fails midway has deleted everything and inserted a part.

API.

* The limiter is a fixed window, not a token bucket (`README.md:111`): twice the limit
  can pass around an edge.
* `get_provider_usage` from memory, the cache metrics, the guardrails and the job
  reports are of the process, not of the caller's organisation.
* The daily provider quota is reported and never enforced: `check_provider_call_allowed`
  has no caller, and the check before a write reads the usage and ignores it.
* `get_org_plan` and the dashboard read the plan twice; plan and limits may come from
  two different moments (`ReportTrue` is about undisturbed reports).

Stores.

* The Postgres `query_summary` of provider usage lacks the casts of its neighbours, so
  that decoding its sums fails and `query_usage` is always a storage error there;
  `AnswersAgree` compares the mock and SQLite in this call.
* `LanceDbVectorStore` deletes a fact's vector before it looks at the length of the new
  one. It ranks by L2 distance, Qdrant by cosine, and neither reads `metadata_filter`.
  `MockVectorStore` keeps the old point beside the new one.
* A text search folds case by `LOWER(...) LIKE` against an ASCII-lowered text on SQLite,
  by `to_ascii_lowercase` in the mock, and by `ILIKE` on Postgres (`keyword_search/sqlite.rs:9`,
  `postgres.rs:9`): letters outside ASCII fold on Postgres only. The texts of the run are ASCII.
* The mock lets a deleted fact be deleted and updated again where SQL answers NotFound;
  an empty list of types and the characters `%` and `_` mean different things to mock
  and SQL; the mock turns the limit 0 of events into a default. `RowsAgree`
  and `Live` name these exceptions.

Startup.

* `MEMCORE_MIN_IMPORTANCE` is parsed, refused outside 0.0 to 1.0, and never used: `create_memory_engine` does not
  call `with_min_importance`.
* `connect_sqlite_pool` does not create the database file: a first start on a path where
  no file exists is refused, every time. The databases of the run exist; the fresh one is
  an empty file.
* A crash between sqlx's own table and `schema_migrations`, with version 9 already made,
  leaves SQLite at an `ALTER` that fails each time. The run starts SQLite from legacy
  versions up to 7, where every statement can be repeated.
* The job locks follow the fact backend and the snapshot store prefers Postgres:
  processes with private SQLite facts and shared Postgres events write snapshots under
  separate locks. `JobsShareLocks` is about processes that share their facts.
* Database authentication with mocked facts and events opens a SQLite file that no
  migration covers. LanceDB and Qdrant open an existing table without a look at its
  dimensions. The job runner is spawned before the socket is bound.
* `Settings::validate` accepts combinations that wiring then refuses (Redis with
  `max_entries = 0`, providers that have no client); the process does not start either way.

Backup.

* The provider is a library that no route or binary calls. Overlapping runs can leave
  the directory without a whole backup, and a rotation that fails leaves one file more.

## Not modelled

* Provider HTTP clients: I/O. A call's outcome is a choice in `ProviderRouter`,
  `MemoryEngine` and `Reading`. The Postgres backup provider always refuses.
* Redaction and the `Debug` output of the settings: substitution of text.
* Metrics, log lines and audit entries: no decision reads them.
* OpenAPI descriptions, DTOs and row conversions: they map fields one to one.
* Error and hash value types; the error classes that decide something are in the
  modules that read them.
* Similarity, token overlap, importance scores and costs: floating-point numbers. What
  is decided by them is a choice or, for ranks, exact.
* The validation of single fields of an import, and `MemoryRetentionJob`, which always
  skips. The in-memory source of a backup.

## Plan

What is left to prove needs induction over data: that the estimates of tokens reach their
own event (`TokensTrue`, whose sums are folds) and that a context is whole and in its
budget (`ContextSound`, selection being a fold). What is left to model is listed above.
