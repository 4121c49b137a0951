------------------------------ MODULE Startup ------------------------------
(***************************************************************************)
(* The life of server processes that share databases: load the settings,   *)
(* check and migrate the databases (memcore-storage/src/startup_checks and *)
(* migrations), wire the stores, the providers and the cache               *)
(* (memcore-api/src/state.rs), start the background jobs, bind, serve, and *)
(* stop (app.rs).  Several processes start at the same time, on one or on  *)
(* different releases, and may crash between any two statements.           *)
(*                                                                         *)
(* A release is the sequence of its migrations' checksums; version v makes *)
(* the v-th of Tables, or alters it when v is in Alters.  A database is    *)
(* [made, rows, legacy, tracked]: the migrations whose statements it has   *)
(* seen, the rows of schema_migrations (version -> checksum), the versions *)
(* in sqlx's own table from before schema_migrations existed, and whether  *)
(* schema_migrations exists.  "postgres" and "file" are shared databases;  *)
(* an in-memory SQLite database is private to the pool that opened it.     *)
(***************************************************************************)
EXTENDS Settings, FiniteSets

CONSTANTS Processes,   \* the server processes
          Fleets,      \* the deployments to start from: process -> [env, release]
          Databases0,  \* the databases to start from: {"postgres", "file"} -> database;
                       \* both exist: connect_sqlite_pool does not create the file
          Upgrades,    \* the deployments a redeployment may bring
          Features,    \* cargo features of the build
          MaxFaults,   \* bound on crashes, lost connections and failed statements
          MaxRedeploys \* bound on redeployments

VARIABLES deploy,   \* process -> [settings, release]
          proc,     \* process -> what it has done so far
          db,       \* shared database -> its schema
          faults, redeploys

vars == <<deploy, proc, db, faults, redeploys>>

Process == DOMAIN deploy

Tables == <<"facts", "memory_events", "api_keys", "provider_usage_events",
            "org_plan_configs", "memory_usage_snapshots", "background_job_runs",
            "background_job_locks">>
Version == 1 .. 9
Alters == {9}   \* adds columns to background_job_runs
Shared == {"postgres", "file"}

\* A release numbers its migrations from 1, and the variables that hold numbers
\* hold numbers (Text and NaN stand for the texts that do not parse as such).
DeploymentOK(d) ==
  /\ \E n \in {0} \cup Version : DOMAIN d.release = 1 .. n
  /\ \A f \in DOMAIN d.env \cap (DOMAIN NumberDefaults \cup DOMAIN FloatDefaults) :
       d.env[f] \in Int

\* What is recorded, here or in sqlx's table, was made, in the order of versions.
InOrder(S) == \A v \in S : 1 .. v \subseteq S
DatabaseOK(d) ==
  /\ DOMAIN d = {"made", "rows", "legacy", "tracked"}
  /\ d.made \subseteq Version /\ DOMAIN d.rows \cup d.legacy \subseteq d.made
  /\ InOrder(DOMAIN d.rows) /\ InOrder(d.legacy)

ASSUME Deployments ==
  /\ \A fleet \in Fleets : \A i \in DOMAIN fleet : DeploymentOK(fleet[i])
  /\ \A d \in Upgrades : DeploymentOK(d)
  /\ \A dbs \in Databases0 : DOMAIN dbs = Shared /\ \A d \in Shared : DatabaseOK(dbs[d])
  /\ MaxFaults \in Nat /\ MaxRedeploys \in Nat

---------------------------------------------------------------------------
\* What the settings ask for.

\* A deployment's environment does not change while it lasts, so every start
\* loads the same settings, or is refused.
Deployed(d) == [settings |-> load_settings(d.env), release |-> d.release]
settings(i) == deploy[i].settings
release(i) == deploy[i].release

storage_migration_mode(s) ==
  IF s.database_migrations_enabled THEN s.database_migration_mode ELSE "disabled"

is_sqlite_memory_database(s) == s.database_url = "memory"
Sqlite(s) == IF is_sqlite_memory_database(s) THEN "private" ELSE "file"

\* Where a store of this backend keeps its rows.
DatabaseOf(s, backend) ==
  CASE backend = "mock" -> "none" [] backend = "sqlite" -> Sqlite(s) [] OTHER -> "postgres"

UsesBackend(s, backend) == backend \in {s.fact_backend, s.event_backend}

\* The stores on Postgres when facts or events are, else on SQLite when one is.
SharedStore(s) ==
  CASE ~UsesBackend(s, "sqlite") /\ ~UsesBackend(s, "postgres") -> "none"
    [] UsesBackend(s, "postgres") -> "postgres"
    [] OTHER -> Sqlite(s)
create_org_plan_store(s) == SharedStore(s)
create_memory_usage_snapshot_store(s) == SharedStore(s)

\* create_api_key_store: a process with mock facts still keeps its keys in SQLite.
create_api_key_store(s) ==
  CASE s.auth_mode = "dev" -> "none"
    [] s.auth_mode # "dev" /\ UsesBackend(s, "postgres") -> "postgres"
    [] OTHER -> Sqlite(s)

\* The stores that follow the facts, each behind a switch of its own.
create_provider_usage_store(s) == DatabaseOf(s, s.fact_backend)
PersistentUsage(s) ==
  IF s.provider_usage_persistence_enabled THEN create_provider_usage_store(s) ELSE "none"
create_background_job_run_store(s) ==
  IF s.background_job_history_enabled THEN DatabaseOf(s, s.fact_backend) ELSE "none"
\* Mutant: the locks are kept with the events.
LocksFollowEvents(s) ==
  IF s.background_job_lock_enabled THEN DatabaseOf(s, s.event_backend) ELSE "none"
create_background_job_lock_store(s) ==
  IF s.background_job_lock_enabled THEN DatabaseOf(s, s.fact_backend) ELSE "none"

\* The database behind each store: its table is the one of the same name.
StoreDatabase(s) ==
  [facts |-> DatabaseOf(s, s.fact_backend),
   memory_events |-> DatabaseOf(s, s.event_backend),
   api_keys |-> create_api_key_store(s),
   provider_usage_events |-> PersistentUsage(s),
   org_plan_configs |-> create_org_plan_store(s),
   memory_usage_snapshots |-> create_memory_usage_snapshot_store(s),
   background_job_runs |-> create_background_job_run_store(s),
   background_job_locks |-> create_background_job_lock_store(s)]

\* run_storage_startup_checks: Postgres first, then SQLite.
ToCheck(s) ==
     (IF UsesBackend(s, "postgres") THEN <<"postgres">> ELSE << >>)
  \o (IF UsesBackend(s, "sqlite") THEN <<Sqlite(s)>> ELSE << >>)

\* create_background_job_runner: the jobs that run_forever finds due.
Jobs(s) == {k \in {"memory_usage_snapshot", "provider_usage_retention", "memory_retention"} :
              \/ k = "memory_usage_snapshot" /\ s.memory_usage_snapshot_job_enabled
              \/ k = "provider_usage_retention" /\ s.provider_usage_retention_job_enabled
              \/ k = "memory_retention" /\ s.memory_retention_job_enabled}

LlmNames(s) == IF s.provider_fallback_enabled
               THEN Elements(s.llm_fallback_order) \cup Elements(s.summarizer_fallback_order)
               ELSE {s.llm_provider}
EmbeddingNames(s) == IF s.provider_fallback_enabled THEN Elements(s.embedding_fallback_order)
                                                    ELSE {s.embedding_provider}

\* Only mock and openai are wired, and openai needs its key wherever it is named.
validate_provider_name(name) == name \in {"mock", "openai"}
require_openai_api_key(s, name) == name = "openai" => s.openai_api_key # Unset
build_llm_provider_by_name(s, name) ==
  validate_provider_name(name) /\ require_openai_api_key(s, name)
build_embedding_provider_by_name(s, name) ==
  validate_provider_name(name) /\ require_openai_api_key(s, name)

EmbeddingDimensions(name) == IF name = "mock" THEN 8 ELSE 1536
\* ResilientEmbeddingProvider refuses providers of different dimensions.
SameDimensions(names) == \A m, n \in names : EmbeddingDimensions(m) = EmbeddingDimensions(n)

provider_runtime(s) ==
  /\ validate_circuit_breaker_config(s)
  /\ validate_provider_execution_config(provider_execution_policy(s))
llm_candidates_from_names(s, names) ==
  \A n \in names : build_llm_provider_by_name(s, n)
embedding_candidates_from_names(s, names) ==
  \A n \in names : build_embedding_provider_by_name(s, n)
create_llm_provider(s) ==
  provider_runtime(s) /\ llm_candidates_from_names(s, LlmNames(s))
create_embedding_provider(s) ==
  /\ provider_runtime(s)
  /\ embedding_candidates_from_names(s, EmbeddingNames(s))
  /\ SameDimensions(EmbeddingNames(s))

create_vector_store(s) == s.vector_backend = "mock" \/ s.vector_backend \in Features

\* apply_context_cache_async.
CacheWires(s) ==
  /\ context_cache_config_valid(s)
  /\ s.context_cache_backend = "redis" => "redis-cache" \in Features /\ s.redis_url # Unset

create_provider_guardrails(s) ==
  guardrail_config_valid(guardrail_config_from_settings(s))

require_postgres_url(s) == "postgres" \in Features /\ s.postgres_url # Unset

\* AppState::initialize_with_shutdown gets through with these settings.
Wires(s) ==
  /\ UsesBackend(s, "postgres") => require_postgres_url(s)
  /\ create_provider_guardrails(s)
  /\ create_llm_provider(s) /\ create_embedding_provider(s)
  /\ create_vector_store(s) /\ CacheWires(s)

---------------------------------------------------------------------------
\* Migrations.

NoRows == [v \in {} |-> ""]
Pending(rel, rows) == DOMAIN rel \ DOMAIN rows
ChecksumMismatch(rel, rows) == {v \in DOMAIN rel \cap DOMAIN rows : rel[v] # rows[v]}
MissingFromCode(rel, rows) == DOMAIN rows \ DOMAIN rel

\* Mutant: pending migrations are no reason to wait.
CleanDespitePending(rel, rows) == ChecksumMismatch(rel, rows) \cup MissingFromCode(rel, rows) = {}
\* validate_applied_migrations and MigrationValidationReport.
Clean(rel, rows) == Pending(rel, rows) \cup ChecksumMismatch(rel, rows)
                      \cup MissingFromCode(rel, rows) = {}
HasBlockingIssues(rel, rows) == ChecksumMismatch(rel, rows) \cup MissingFromCode(rel, rows) # {}

\* Mutant: every migration of the code counts as made.
SeedsEverything(rel, d) == IF DOMAIN d.rows # {} THEN {} ELSE DOMAIN rel
\* seed_from_sqlx_migrations: nothing once a row is there.
Seeds(rel, d) == IF DOMAIN d.rows # {} THEN {} ELSE DOMAIN rel \cap d.legacy
\* The rows with one for v, which an earlier row of that version stays.
Recorded(rows, v, checksum) ==
  [u \in DOMAIN rows \cup {v} |-> IF u \in DOMAIN rows THEN rows[u] ELSE checksum]
Seeded(d, v, checksum) ==   \* INSERT OR IGNORE
  [d EXCEPT !.rows = Recorded(@, v, checksum)]

\* Mutant: the statements of a version that was made fail for good.
SqliteAppliesOnce(d, v) == v \notin DOMAIN d.rows /\ v \notin d.made
\* One migration in one transaction: CREATE TABLE IF NOT EXISTS repeats
\* without harm, ALTER TABLE ADD COLUMN only on Postgres (IF NOT EXISTS), and the
\* row's version is the primary key.
SqliteApplies(d, v) == v \notin DOMAIN d.rows /\ ~(v \in Alters /\ v \in d.made)
PostgresApplies(d, v) == v \notin DOMAIN d.rows
Applies(name, d, v) == IF name = "file" THEN SqliteApplies(d, v) ELSE PostgresApplies(d, v)
Applied(d, v, checksum) ==
  [d EXCEPT !.made = @ \cup {v}, !.rows = Recorded(@, v, checksum)]

required_tables == DOMAIN Tables
MissingTables(d) == required_tables \ d.made

First(S) == CHOOSE v \in S : \A w \in S : v <= w

---------------------------------------------------------------------------
\* A process.  `todo` is the databases still to check, `work` the versions
\* still to seed or to apply, `clean` migrations_clean of the reports so far,
\* `jobs` the jobs of a spawned run_forever, `busy` whether requests were open
\* when the server was told to stop.

Down == [pc |-> "down", todo |-> << >>, work |-> {}, clean |-> TRUE, jobs |-> {},
         busy |-> FALSE]

Init ==
  /\ \E f \in Fleets : deploy = [i \in DOMAIN f |-> Deployed(f[i])]
  /\ proc = [i \in Process |-> Down]
  /\ db \in Databases0
  /\ faults = 0 /\ redeploys = 0

Ends(i) == proc' = [proc EXCEPT ![i] = Down]
Becomes(i, p) == proc' = [proc EXCEPT ![i] = p]
Goto(i, pc) == Becomes(i, [proc[i] EXCEPT !.pc = pc])
Current(i) == Head(proc[i].todo)
NextDatabase(p, clean) ==
  [p EXCEPT !.todo = Tail(@), !.clean = @ /\ clean, !.work = {},
            !.pc = IF Len(p.todo) = 1 THEN "wire" ELSE "connect"]
Quiet == UNCHANGED <<deploy, faults, redeploys>>

\* run: load_settings, then the storage checks; a refusal ends the process.
Start(i) ==
  /\ proc[i].pc = "down" /\ settings(i) # Refused
  /\ LET todo == ToCheck(settings(i))
     IN  Becomes(i, [Down EXCEPT !.todo = todo, !.pc = IF todo = << >> THEN "wire" ELSE "connect"])
  /\ UNCHANGED db /\ Quiet

\* check_*_startup connects and branches on the mode.  An in-memory database is
\* new and nobody else sees it: its whole check is one step.
Connect(i) ==
  /\ proc[i].pc = "connect"
  /\ LET s == settings(i)
         mode == storage_migration_mode(s)
     IN  IF Current(i) = "postgres" /\ ~require_postgres_url(s) THEN Ends(i)
         ELSE IF mode = "disabled" THEN Becomes(i, NextDatabase(proc[i], TRUE))
         ELSE IF Current(i) # "private" THEN Goto(i, "ensure")
         ELSE IF mode = "validate_only" /\ s.database_require_clean_migrations THEN Ends(i)
         ELSE Becomes(i, NextDatabase(proc[i], mode = "auto"))
  /\ UNCHANGED db /\ Quiet

\* ensure_migration_table, then the reads of seed_from_sqlx_migrations.  The
\* later calls of both find the table, and rows or nothing to seed.
EnsureTable(i) ==
  /\ proc[i].pc = "ensure"
  /\ db' = [db EXCEPT ![Current(i)].tracked = TRUE]
  /\ Goto(i, "seed")
  /\ Quiet

ReadSeeds(i) ==
  /\ proc[i].pc = "seed"
  /\ Becomes(i, [proc[i] EXCEPT !.work = Seeds(release(i), db[Current(i)]), !.pc = "seeding"])
  /\ UNCHANGED db /\ Quiet

SeedOne(i) ==
  /\ proc[i].pc = "seeding" /\ proc[i].work # {}
  /\ LET v == First(proc[i].work)
     IN  /\ db' = [db EXCEPT ![Current(i)] = Seeded(@, v, release(i)[v])]
         /\ Becomes(i, [proc[i] EXCEPT !.work = @ \ {v}])
  /\ Quiet

\* validate_migrations: the report of validate_only mode, or the check before
\* apply_pending_migrations reads what is pending.
Validate(i) ==
  /\ proc[i].pc = "seeding" /\ proc[i].work = {}
  /\ LET rows == db[Current(i)].rows
         s == settings(i)
         clean == Clean(release(i), rows)
     IN  IF storage_migration_mode(s) = "auto"
         THEN IF HasBlockingIssues(release(i), rows) THEN Ends(i) ELSE Goto(i, "plan")
         ELSE IF s.database_require_clean_migrations /\ ~clean THEN Ends(i)
         ELSE Becomes(i, [proc[i] EXCEPT !.pc = "tables", !.clean = @ /\ clean])
  /\ UNCHANGED db /\ Quiet

ReadPending(i) ==
  /\ proc[i].pc = "plan"
  /\ Becomes(i, [proc[i] EXCEPT !.work = Pending(release(i), db[Current(i)].rows),
                                !.pc = "apply"])
  /\ UNCHANGED db /\ Quiet

\* One pending migration: committed with its row, or an error that ends the start.
ApplyOne(i) ==
  /\ proc[i].pc = "apply" /\ proc[i].work # {}
  /\ LET v == First(proc[i].work)
         d == Current(i)
     IN  IF Applies(d, db[d], v)
         THEN /\ db' = [db EXCEPT ![d] = Applied(@, v, release(i)[v])]
              /\ Becomes(i, [proc[i] EXCEPT !.work = @ \ {v}])
         ELSE Ends(i) /\ UNCHANGED db
  /\ Quiet

\* The report after applying.
Revalidate(i) ==
  /\ proc[i].pc = "apply" /\ proc[i].work = {}
  /\ LET clean == Clean(release(i), db[Current(i)].rows)
     IN  IF settings(i).database_require_clean_migrations /\ ~clean THEN Ends(i)
         ELSE Becomes(i, [proc[i] EXCEPT !.pc = "tables", !.clean = @ /\ clean])
  /\ UNCHANGED db /\ Quiet

RequiredTables(i) ==
  /\ proc[i].pc = "tables"
  /\ LET complete == MissingTables(db[Current(i)]) = {}
     IN  IF settings(i).database_require_clean_migrations /\ ~complete THEN Ends(i)
         ELSE Becomes(i, NextDatabase(proc[i], complete))
  /\ UNCHANGED db /\ Quiet

\* Stores, providers, vector store and cache; then the job runner is spawned.
Wire(i) ==
  /\ proc[i].pc = "wire"
  /\ IF Wires(settings(i))
     THEN Becomes(i, [proc[i] EXCEPT !.pc = "keys",
                        !.jobs = IF settings(i).background_jobs_enabled THEN Jobs(settings(i)) ELSE {}])
     ELSE Ends(i)
  /\ UNCHANGED db /\ Quiet

\* create_api_key_store, after the jobs are already running.
OpenKeys(i) ==
  /\ proc[i].pc = "keys"
  /\ Goto(i, "bind")
  /\ UNCHANGED db /\ Quiet

Bind(i) ==
  /\ proc[i].pc = "bind"
  /\ Goto(i, "serving")
  /\ UNCHANGED db /\ Quiet

\* SIGTERM or Ctrl-C; the shutdown token stops the job runner too.
ShutdownSignal(i) ==
  /\ proc[i].pc = "serving"
  /\ \E busy \in BOOLEAN :
       Becomes(i, [proc[i] EXCEPT !.pc = "draining", !.jobs = {}, !.busy = busy])
  /\ UNCHANGED db /\ Quiet

\* The open requests end: they may take for ever.
RequestsEnd(i) ==
  /\ proc[i].pc = "draining" /\ proc[i].busy
  /\ Becomes(i, [proc[i] EXCEPT !.busy = FALSE])
  /\ UNCHANGED db /\ Quiet

\* axum returns once no request is open, or graceful_shutdown_timeout_seconds pass.
ServerStops(i) ==
  /\ proc[i].pc = "draining" /\ ~proc[i].busy
  /\ Ends(i)
  /\ UNCHANGED db /\ Quiet

ShutdownTimeout(i) ==
  /\ proc[i].pc = "draining" /\ proc[i].busy
  /\ Ends(i)
  /\ UNCHANGED db /\ Quiet

\* A crash, or an error of a connection, a statement or the socket: the process
\* ends, and what it committed stays.
Fault(i) ==
  /\ proc[i].pc # "down" /\ faults < MaxFaults
  /\ faults' = faults + 1
  /\ Ends(i)
  /\ UNCHANGED <<deploy, db, redeploys>>

\* The operator replaces a stopped process by another release or environment.
Redeploy(i) ==
  /\ proc[i].pc = "down" /\ redeploys < MaxRedeploys
  /\ redeploys' = redeploys + 1
  /\ \E d \in Upgrades : deploy' = [deploy EXCEPT ![i] = Deployed(d)]
  /\ UNCHANGED <<proc, db, faults>>

Step(i) ==
  \/ Start(i) \/ Connect(i) \/ EnsureTable(i) \/ ReadSeeds(i) \/ SeedOne(i)
  \/ Validate(i) \/ ReadPending(i) \/ ApplyOne(i) \/ Revalidate(i) \/ RequiredTables(i)
  \/ Wire(i) \/ OpenKeys(i) \/ Bind(i) \/ ServerStops(i) \/ ShutdownTimeout(i)

Next == \E i \in Process : Step(i) \/ ShutdownSignal(i) \/ RequestsEnd(i) \/ Fault(i) \/ Redeploy(i)

\* Every start goes on by itself, a stopped process is started again, and a
\* shutdown ends by its timeout.  Faults, signals and redeployments just happen.
Spec == Init /\ [][Next]_vars /\ \A i \in Processes : WF_vars(i \in Process /\ Step(i))

---------------------------------------------------------------------------
\* Properties.

Running == {"connect", "ensure", "seed", "seeding", "plan", "apply", "tables", "wire",
            "keys", "bind", "serving", "draining"}

\* The state is well formed: settings that load have every field, a process works
\* on versions of its own release, and looks at a database exactly while it
\* checks one.
TypeOK ==
  /\ \A i \in Process :
       /\ proc[i].pc \in Running \cup {"down"}
       /\ settings(i) = Refused \/ DOMAIN settings(i) = Fields
       /\ proc[i].work \subseteq DOMAIN release(i)
       /\ proc[i].todo # << >> <=>
            proc[i].pc \in {"connect", "ensure", "seed", "seeding", "plan", "apply", "tables"}
       /\ (proc[i].jobs = {} \/ proc[i].jobs \subseteq Jobs(settings(i))) /\ proc[i].clean \in BOOLEAN
  /\ \A d \in Shared : db[d].made \subseteq Version /\ DOMAIN db[d].rows \subseteq Version
  /\ faults \in 0 .. MaxFaults /\ redeploys \in 0 .. MaxRedeploys

\* A row of schema_migrations means that the migration's statements ran, whoever
\* crashed, seeded from sqlx's table or applied at the same time
\* (apply_pending_migrations, seed_from_sqlx_migrations).
RecordedMeansMade ==
  \A d \in Shared : DOMAIN db[d].rows \subseteq db[d].made

\* The recorded versions have no gap: processes that migrate at the same time,
\* or take over from a crashed one, never apply a version before an earlier one.
MigrationsInOrder ==
  \A d \in Shared : InOrder(DOMAIN db[d].rows)

\* A process that answers ready on /ready, and whose mode looks at migrations at
\* all, has every migration of its own code in every shared database it
\* checked, with its own checksum, whatever the other processes did since.
ReadyMeansMigrated ==
  \A i \in Process :
    /\ proc[i].pc = "serving" /\ proc[i].clean
    /\ storage_migration_mode(settings(i)) # "disabled"
    => \A d \in Elements(ToCheck(settings(i))) \cap Shared :
         \A v \in DOMAIN release(i) :
           /\ v \in DOMAIN db[d].rows /\ db[d].rows[v] = release(i)[v]
           /\ v \in db[d].made

\* Once the background jobs may run, and as long as the process runs, every
\* store on a database that the startup checks covered finds its table, when
\* clean migrations are required (create_*_store, run_storage_startup_checks).
StoresHaveTables ==
  \A i \in Process :
    /\ proc[i].pc \in {"keys", "bind", "serving", "draining"}
    /\ storage_migration_mode(settings(i)) # "disabled"
    /\ settings(i).database_require_clean_migrations
    => \A v \in DOMAIN Tables :
         LET d == StoreDatabase(settings(i))[Tables[v]]
         IN  d \in Elements(ToCheck(settings(i))) \cap Shared => v \in db[d].made

\* Two processes that run the same job over the same facts, both with locks
\* enabled, take their leases in the same database (create_background_job_lock_store),
\* whatever else the two are configured with.
JobsShareLocks ==
  \A i, j \in Process :
    LET s == settings(i)
        t == settings(j)
        shared == DatabaseOf(s, s.fact_backend)
    IN  /\ proc[i].jobs \cap proc[j].jobs # {}
        /\ shared \in Shared /\ shared = DatabaseOf(t, t.fact_backend)
        /\ s.background_job_lock_enabled /\ t.background_job_lock_enabled
        => StoreDatabase(s).background_job_locks = StoreDatabase(t).background_job_locks

\* What the settings let through is what the components rely on: retry delays
\* stay between a millisecond and their maximum even for a multiplier that is
\* not a number, a guarded provider call is tried at most four times, and a
\* cache that is on has room, a lifetime and a lock timeout.
SettingsBounded ==
  \A i \in Process : proc[i].pc \in Running =>
    LET s == settings(i)
        calls == provider_execution_policy(s)
        jobs == background_job_retry_policy(s)
    IN  /\ \A n \in Retries, percent \in {0, 25} :
             /\ backoff_duration(calls, percent, n) \in 1 .. calls.max_backoff
             /\ calculate_background_job_backoff(jobs, percent, n) \in 1 .. jobs.max_backoff
        /\ s.provider_guardrails_enabled => provider_total_attempts(calls) <= 4
        /\ ~s.background_job_retries_enabled => job_total_attempts(jobs) = 1
        /\ proc[i].pc = "serving" /\ s.context_cache_enabled =>
             /\ s.context_cache_ttl_seconds > 0 /\ s.context_cache_max_entries > 0
             /\ s.context_cache_stampede_protection_enabled =>
                  s.context_cache_lock_timeout_seconds > 0

\* A process with settings that load and wire, in auto mode, on databases that
\* hold nothing its release does not know, serves in the end: after a crash in
\* the middle, and after losing a race for a migration.
At(i, pc) == i \in Process /\ proc[i].pc = pc
Deployable(i) ==
  /\ i \in Process
  /\ settings(i) # Refused
  /\ Wires(settings(i))
  /\ storage_migration_mode(settings(i)) = "auto"
  /\ DOMAIN release(i) = Version
  /\ \A d \in Elements(ToCheck(settings(i))) \cap Shared :
       ~HasBlockingIssues(release(i), db[d].rows)
EventuallyServes ==
  \A i \in Processes : Deployable(i) ~> (At(i, "serving") \/ ~Deployable(i))

\* A shutdown that began ends: the process comes down, by its timeout at the latest.
ShutdownEnds == \A i \in Processes : At(i, "draining") ~> At(i, "down")

\* The schema and its records, at every moment of any number of starts.
SchemaSound == TypeOK /\ RecordedMeansMade /\ MigrationsInOrder

\* What a process has wired from its settings: stores on migrated databases,
\* locks where the other processes look for them, and values within the ranges
\* that the components rely on.
WiringSound == StoresHaveTables /\ JobsShareLocks /\ SettingsBounded

\* Deployable processes come up and stopped ones come down.
ProcessesSettle == EventuallyServes /\ ShutdownEnds
===========================================================================
