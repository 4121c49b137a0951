----------------------------- MODULE MCStartup -----------------------------
(* Instances of Startup.  A survey of environments, one process each, goes
   through the settings; pairs of processes go through the migrations of the
   shared databases. *)
EXTENDS Startup, TLC

With(envs, f, values) == envs \cup {e @@ (f :> v) : e \in envs, v \in values}

\* Everything mocked: nothing but the surveyed variables decides.
Mocked == [vector_backend |-> "mock", fact_backend |-> "mock"]

AuthSurvey ==
  With(With(With(With({Mocked}, "auth_enabled", {"yes", "0", "maybe"}),
    "auth_mode", {"dev", "database", "none"}), "dev_api_key", {Blank}),
    "api_key_pepper", {Blank, "pepper"})

StorageSurvey ==
  With(With(With(With({[vector_backend |-> "mock"]}, "fact_backend", {"mock", "postgres", "oracle"}),
    "event_backend", {Blank, "mock", "sqlite"}), "postgres_url", {"url"}),
    "database_url", {"memory", Blank})

CacheSurvey ==
  With(With(With(With(With(With({Mocked}, "context_cache_backend", {Blank, "disabled", "memory", "redis"}),
    "context_cache_enabled", {"true", "maybe"}), "context_cache_ttl_seconds", {0}),
    "context_cache_max_entries", {0}), "redis_url", {"url"}),
    "context_cache_lock_timeout_seconds", {0})

BackoffSurvey ==
  With(With(With({Mocked}, "provider_initial_backoff_ms", {0, Text, 10}),
    "provider_max_backoff_ms", {5, 15}),
    "provider_backoff_multiplier", {NaN, Text, 50, 100, 250})
  \cup
  With(With(With({Mocked}, "background_job_initial_backoff_ms", {0, 10}),
    "background_job_max_backoff_ms", {5, 15}),
    "background_job_backoff_multiplier", {NaN, 50, 250})

ProviderSurvey ==
  With(With(With(With(With({Mocked}, "provider_fallback_enabled", {"true"}),
    "llm_provider", {"openai", "groq"}), "openai_api_key", {"key"}),
    "llm_fallback_order", {<<"mock", "openai">>, << >>}),
    "embedding_fallback_order", {<<"mock">>, <<"mock", "openai">>})
  \cup
  With(With(With(With({Mocked}, "provider_guardrails_enabled", {"false"}),
    "provider_max_retries", {9}), "provider_max_retries_per_call", {3, 4}),
    "provider_test_mode", {"production"})
  \cup
  With(With(With({Mocked}, "provider_test_mode", {"multi_real"}),
    "multi_provider_validation_enabled", {"true"}),
    "multi_provider_validation_confirmation", {"yes", Confirmation})

Positive == UNION {ServerLimits, GatewayLimits, JobIntervals, JobTimes, ProviderTimes,
                   BreakerLimits, GuardrailLimits}
NonBlank == UNION {ServerTexts, LanceDbTexts, GatewayTexts, {"context_cache_key_prefix"}}
OneWrong ==
  {Mocked @@ (f :> 0) : f \in Positive} \cup {Mocked @@ (f :> Blank) : f \in NonBlank}
  \cup {Mocked @@ (f :> 365001) : f \in RetentionDays}
  \cup {Mocked @@ ("port" :> p) : p \in {0, 65535, 65536}}
  \cup {Mocked @@ ("min_importance" :> v) : v \in {0, 100, 101, NaN, Text}}
  \cup {Mocked @@ ("metrics_path" :> p) : p \in {Blank, "relative", "/ready", "/stats"}}
  \cup With(With({Mocked}, "cors_allowed_origins", {<<"*">>, <<"example">>}),
            "cors_allow_credentials", {"true"})
  \cup {[vector_backend |-> b, fact_backend |-> "mock", qdrant_url |-> u] :
          b \in {"qdrant", "lancedb"}, u \in {Blank, "url"}}

Survey == AuthSurvey \cup StorageSurvey \cup CacheSurvey \cup BackoffSurvey
            \cup ProviderSurvey \cup OneWrong

\* Releases: the current one, the one before it, and one whose seventh migration
\* was edited after it had been applied.
Current9 == [v \in 1 .. 9 |-> "original"]
Previous8 == [v \in 1 .. 8 |-> "original"]
Edited9 == [Current9 EXCEPT ![7] = "edited"]

OnFile == [vector_backend |-> "mock", background_jobs_enabled |-> "true",
           background_job_lock_enabled |-> "true", memory_usage_snapshot_job_enabled |-> "true"]
OnBoth == OnFile @@ [event_backend |-> "postgres", postgres_url |-> "url"]
ValidateOnly == OnFile @@ [database_migration_mode |-> "validate-only", environment |-> "prod"]
Lenient == ValidateOnly @@ [database_require_clean_migrations |-> "false"]
NoChecks == OnFile @@ [database_migrations_enabled |-> "false"]

Deployment(env, rel) == [env |-> env, release |-> rel]

Pair(d, e) == ("a" :> d) @@ ("b" :> e)
Newest == Deployment(OnFile, Current9)

MCFleets ==
  {[i \in {"a"} |-> Deployment(e, Current9)] : e \in Survey}
  \cup {Pair(Newest, d) : d \in {Newest, Deployment(OnFile, Previous8), Deployment(OnBoth, Current9),
                                Deployment(OnFile, Edited9), Deployment(ValidateOnly, Current9),
                                Deployment(Lenient, Current9), Deployment(NoChecks, Current9)}}
MCUpgrades == {Newest}

\* Databases: an empty file that exists (connect_sqlite_pool creates none),
\* migrated by the previous release, or left by sqlx.
Fresh == [made |-> {}, rows |-> NoRows, legacy |-> {}, tracked |-> FALSE]
Migrated8 == [made |-> 1 .. 8, rows |-> Previous8, legacy |-> {}, tracked |-> TRUE]
Legacy(n) == [made |-> 1 .. n, rows |-> NoRows, legacy |-> 1 .. n, tracked |-> FALSE]
MCDatabases0 == {[file |-> f, postgres |-> p] : f \in {Fresh, Migrated8, Legacy(7)}, p \in {Legacy(9)}}

MCProcesses == {"a", "b"}
=============================================================================
