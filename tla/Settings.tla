------------------------------ MODULE Settings ------------------------------
(***************************************************************************)
(* memcore-config/src/settings.rs: how the process environment becomes the *)
(* settings of the server.  An environment is a partial function: a        *)
(* variable that is not set is not in its domain.  A variable is named by  *)
(* the field it fills.  What a variable holds is abstracted to what the    *)
(* parsers tell apart: a number (Text when it is none, NaN for the float), *)
(* a word, or a list of words; Blank is any text that trims to nothing.    *)
(* Floats are given in hundredths.                                         *)
(***************************************************************************)
EXTENDS Integers, Sequences

Blank == ""
Unset == ""          \* Option::None
Text == -1           \* not a number: refused by every numeric parser
NaN == -2            \* f32::NAN: parses, and compares less than nothing

---------------------------------------------------------------------------
\* What the fields are, by the parser that reads them, with their defaults.

NumberDefaults ==
  [port |-> 8080, backup_max_files |-> 10, max_request_body_bytes |-> 1048576,
   rate_limit_requests_per_minute |-> 60, fact_retention_days |-> 0,
   event_retention_days |-> 0, context_cache_ttl_seconds |-> 300,
   context_cache_max_entries |-> 1000, context_cache_lock_timeout_seconds |-> 30,
   context_cache_stale_ttl_seconds |-> 120, provider_timeout_seconds |-> 30,
   provider_max_retries |-> 2, provider_initial_backoff_ms |-> 250,
   provider_max_backoff_ms |-> 2000, provider_circuit_breaker_failure_threshold |-> 5,
   provider_circuit_breaker_reset_timeout_seconds |-> 60,
   provider_circuit_breaker_half_open_max_calls |-> 1,
   provider_usage_retention_days |-> 180, max_users_per_org |-> 0,
   max_memories_per_user |-> 0, max_memories_per_org |-> 0,
   daily_provider_request_limit |-> 0, daily_provider_token_limit |-> 0,
   provider_max_calls_per_run |-> 10, provider_max_input_chars |-> 4000,
   provider_max_output_tokens |-> 300, provider_max_retries_per_call |-> 1,
   background_job_runner_interval_seconds |-> 60,
   memory_usage_snapshot_job_interval_seconds |-> 86400,
   provider_usage_retention_job_interval_seconds |-> 86400,
   memory_retention_job_interval_seconds |-> 86400,
   background_job_history_retention_days |-> 30, background_job_lock_ttl_seconds |-> 300,
   background_job_max_retries |-> 2, background_job_initial_backoff_ms |-> 500,
   background_job_max_backoff_ms |-> 5000, graceful_shutdown_timeout_seconds |-> 30,
   background_job_shutdown_timeout_seconds |-> 30]

FloatDefaults ==
  [min_importance |-> 55, provider_backoff_multiplier |-> 200,
   background_job_backoff_multiplier |-> 200]

On == {"database_migrations_enabled", "database_require_clean_migrations",
       "security_headers_enabled", "enable_pii_redaction", "auth_enabled",
       "rate_limit_enabled", "metrics_require_auth",
       "context_cache_stampede_protection_enabled", "context_cache_metrics_enabled",
       "provider_retry_jitter_enabled", "provider_circuit_breaker_enabled",
       "provider_usage_metrics_enabled", "provider_guardrails_enabled",
       "background_job_history_enabled", "background_job_retries_enabled",
       "background_job_retry_jitter_enabled"}
Off == {"backup_enabled", "restore_enabled", "cors_enabled", "cors_allow_credentials",
        "metrics_enabled", "metrics_include_process", "retention_enabled",
        "context_cache_stale_while_revalidate_enabled", "provider_fallback_enabled",
        "provider_cost_tracking_enabled", "provider_usage_persistence_enabled",
        "quotas_enabled", "real_provider_calls_enabled",
        "allow_real_providers_during_load_tests", "background_jobs_allow_real_providers",
        "multi_provider_validation_enabled", "background_jobs_enabled",
        "memory_usage_snapshot_job_enabled", "provider_usage_retention_job_enabled",
        "memory_retention_job_enabled", "background_job_lock_enabled"}
FlagDefaults == [f \in On \cup Off |-> f \in On]

\* The default of an enumeration is the one from_env passes to read_env_or: a
\* process starts on SQLite and LanceDB where Settings::default() says mock.
EnumDefaults ==
  [environment |-> "development", storage_mode |-> "embedded",
   vector_backend |-> "lancedb", fact_backend |-> "sqlite",
   database_migration_mode |-> "auto", llm_provider |-> "mock",
   embedding_provider |-> "mock", auth_mode |-> "dev", log_format |-> "json",
   log_level |-> "info", provider_test_mode |-> "mock_only",
   background_job_lock_backend |-> "database"]

Variants ==
  [environment |-> {"development", "production"}, storage_mode |-> {"embedded", "production"},
   vector_backend |-> {"mock", "lancedb", "qdrant"},
   fact_backend |-> {"mock", "sqlite", "postgres"},
   event_backend |-> {"mock", "sqlite", "postgres"},
   database_migration_mode |-> {"auto", "validate_only", "disabled"},
   llm_provider |-> {"mock", "openai", "openrouter", "anthropic", "groq"},
   embedding_provider |-> {"mock", "openai"}, auth_mode |-> {"dev", "database"},
   log_format |-> {"json", "pretty"}, log_level |-> {"trace", "debug", "info", "warn", "error"},
   provider_test_mode |-> {"mock_only", "single_real", "multi_real", "production"},
   background_job_lock_backend |-> {"database"},
   context_cache_backend |-> {"disabled", "memory", "redis"}]

TextDefaults ==
  [host |-> "0.0.0.0", database_url |-> "file", backup_dir |-> "./backups",
   qdrant_url |-> "http://localhost:6334", qdrant_collection |-> "memcore_vectors",
   lancedb_path |-> "./data/lancedb", lancedb_table |-> "memcore_vectors",
   llm_model |-> "mock-llm", embedding_model |-> "mock-embedding",
   dev_api_key |-> "memcore_dev_key", openai_base_url |-> "https://api.openai.com/v1",
   request_id_header |-> "X-Request-ID", metrics_path |-> "/metrics",
   context_cache_key_prefix |-> "memcore"]

Optional == {"postgres_url", "api_key_pepper", "openai_api_key", "redis_url",
             "multi_provider_validation_confirmation", "background_job_lock_owner_id"}

ListDefaults ==
  [cors_allowed_origins |-> << >>, cors_exposed_headers |-> << >>,
   cors_allowed_methods |-> <<"GET", "POST", "PUT", "DELETE", "OPTIONS">>,
   cors_allowed_headers |-> <<"Authorization", "Content-Type", "X-Organization-ID", "X-Memcore-Test-Source">>,
   background_job_org_ids |-> << >>, llm_fallback_order |-> <<"openai">>,
   embedding_fallback_order |-> <<"openai">>, summarizer_fallback_order |-> <<"openai">>]

\* The variables of the environment, by the field each one fills.
Variables == UNION {DOMAIN NumberDefaults, DOMAIN FloatDefaults, DOMAIN FlagDefaults,
                    DOMAIN EnumDefaults, DOMAIN TextDefaults, DOMAIN ListDefaults, Optional,
                    {"event_backend", "context_cache_backend", "context_cache_enabled"}}
Fields == Variables
FallbackOrders == {"llm_fallback_order", "embedding_fallback_order",
                   "summarizer_fallback_order"}

---------------------------------------------------------------------------
\* The readers.

Set(env, f) == f \in DOMAIN env
read_env_or(env, f, default) == IF Set(env, f) THEN env[f] ELSE default
\* read_env_optional takes a blank value for an absent one; read_env_or keeps it.
read_env_optional(env, f) == read_env_or(env, f, Unset)

parse_u16_ok(env, f) == Set(env, f) => env[f] \in 0 .. 2^16 - 1
parse_unsigned_ok(env, f) == Set(env, f) => env[f] >= 0
parse_f32_ok(env, f) == Set(env, f) => env[f] # Text
Yes == {"true", "1", "yes"}
No == {"false", "0", "no"}
parse_bool_ok(env, f) == Set(env, f) => env[f] \in Yes \cup No
parse_bool(env, f, default) == IF Set(env, f) THEN env[f] \in Yes ELSE default

\* from_str: a few variants have a second spelling.
from_str(f, word) ==
  CASE f = "environment" /\ word = "dev" -> "development"
    [] f = "environment" /\ word = "prod" -> "production"
    [] f = "database_migration_mode" /\ word = "validate-only" -> "validate_only"
    [] OTHER -> word
from_str_ok(env, f) == Set(env, f) => from_str(f, env[f]) \in Variants[f]
parse_provider_fallback_order_ok(env, f) == Set(env, f) => env[f] # << >>

\* Every variable parses.  A blank event or cache backend counts as unset, and
\* MEMCORE_CONTEXT_CACHE_ENABLED is read only when no cache backend is named.
Parses(env) ==
  /\ parse_u16_ok(env, "port")
  /\ \A f \in DOMAIN NumberDefaults \ {"port"} : parse_unsigned_ok(env, f)
  /\ \A f \in DOMAIN FloatDefaults : parse_f32_ok(env, f)
  /\ \A f \in On \cup Off : parse_bool_ok(env, f)
  /\ \A f \in DOMAIN EnumDefaults : from_str_ok(env, f)
  /\ \A f \in FallbackOrders : parse_provider_fallback_order_ok(env, f)
  /\ read_env_optional(env, "event_backend") \in Variants.event_backend \cup {Unset}
  /\ LET backend == read_env_optional(env, "context_cache_backend")
     IN  IF backend = Unset THEN parse_bool_ok(env, "context_cache_enabled")
                            ELSE backend \in Variants.context_cache_backend

EventBackend(env) ==
  LET named == read_env_optional(env, "event_backend")
  IN  IF named # Unset THEN named
      ELSE read_env_or(env, "fact_backend", EnumDefaults.fact_backend)

CacheBackend(env) ==
  LET named == read_env_optional(env, "context_cache_backend")
  IN  IF named # Unset THEN named
      ELSE IF parse_bool(env, "context_cache_enabled", FALSE) THEN "memory" ELSE "disabled"

\* What from_env puts into a field, for an environment that Parses.
ReadValue(env, f) ==
  CASE f = "event_backend" -> EventBackend(env)
    [] f = "context_cache_backend" -> CacheBackend(env)
    [] f = "context_cache_enabled" -> CacheBackend(env) # "disabled"
    [] f \in DOMAIN NumberDefaults -> read_env_or(env, f, NumberDefaults[f])
    [] f \in DOMAIN FloatDefaults -> read_env_or(env, f, FloatDefaults[f])
    [] f \in On \cup Off -> parse_bool(env, f, FlagDefaults[f])
    [] f \in DOMAIN EnumDefaults -> from_str(f, read_env_or(env, f, EnumDefaults[f]))
    [] f \in DOMAIN TextDefaults -> read_env_or(env, f, TextDefaults[f])
    [] f \in DOMAIN ListDefaults -> read_env_or(env, f, ListDefaults[f])
    [] f \in Optional -> read_env_optional(env, f)

\* Settings::from_env.
FromEnv(env) == [f \in Fields |-> ReadValue(env, f)]

\* What from_env itself checks of the values: (0.0..=1.0).contains(NaN) is false.
MinImportanceValid(s) == s.min_importance \in 0 .. 100

---------------------------------------------------------------------------
\* Settings::validate.

MaxRetentionDays == 365000
MaxSafeProviderRetries == 3
Confirmation == "I_UNDERSTAND_THIS_WILL_USE_PROVIDER_CREDITS"

AllPositive(s, fields) == \A f \in fields : s[f] > 0
NoneBlank(s, fields) == \A f \in fields : s[f] # Blank

ServerTexts == {"host", "database_url", "backup_dir"}
ServerLimits == {"backup_max_files", "max_request_body_bytes"}
LanceDbTexts == {"lancedb_path", "lancedb_table"}
GatewayTexts == {"openai_base_url", "request_id_header"}
GatewayLimits == {"rate_limit_requests_per_minute"}
JobIntervals == {"background_job_runner_interval_seconds",
                 "memory_usage_snapshot_job_interval_seconds",
                 "provider_usage_retention_job_interval_seconds",
                 "memory_retention_job_interval_seconds"}
JobTimes == {"background_job_lock_ttl_seconds", "background_job_initial_backoff_ms",
             "graceful_shutdown_timeout_seconds", "background_job_shutdown_timeout_seconds"}
ProviderTimes == {"provider_timeout_seconds", "provider_initial_backoff_ms"}
BreakerLimits == {"provider_circuit_breaker_failure_threshold",
                  "provider_circuit_breaker_reset_timeout_seconds",
                  "provider_circuit_breaker_half_open_max_calls"}
GuardrailLimits == {"provider_max_calls_per_run", "provider_max_input_chars",
                    "provider_max_output_tokens"}
RetentionDays == {"fact_retention_days", "event_retention_days",
                  "provider_usage_retention_days", "background_job_history_retention_days"}

\* `x < y` on floats: false whenever one of them is NaN.
Less(x, y) == x # NaN /\ y # NaN /\ x < y

AuthValid(s) ==
  /\ ~(s.auth_enabled /\ s.auth_mode = "dev" /\ s.dev_api_key = Blank)
  /\ ~(s.auth_mode = "database" /\ s.api_key_pepper = Unset)

PostgresUrlValid(s) ==
  ~("postgres" \in {s.fact_backend, s.event_backend} /\ s.postgres_url = Unset)

OpenAiKeyValid(s) ==
  ~("openai" \in {s.llm_provider, s.embedding_provider} /\ s.openai_api_key = Unset)

ServerValid(s) == NoneBlank(s, ServerTexts) /\ AllPositive(s, ServerLimits)
LanceDbValid(s) == NoneBlank(s, LanceDbTexts)
GatewayValid(s) == NoneBlank(s, GatewayTexts) /\ AllPositive(s, GatewayLimits)

JobsValid(s) == AllPositive(s, JobIntervals)
JobTimesValid(s) ==
  /\ AllPositive(s, JobTimes)
  /\ s.background_job_max_backoff_ms >= s.background_job_initial_backoff_ms
  /\ ~Less(s.background_job_backoff_multiplier, 100)

ProviderPolicyValid(s) ==
  /\ AllPositive(s, ProviderTimes)
  /\ s.provider_max_backoff_ms >= s.provider_initial_backoff_ms
  /\ ~Less(s.provider_backoff_multiplier, 100)
BreakerValid(s) == AllPositive(s, BreakerLimits)
GuardrailsValid(s) ==
  /\ AllPositive(s, GuardrailLimits)
  /\ s.provider_max_retries_per_call <= MaxSafeProviderRetries

RetentionValid(s) == \A f \in RetentionDays : s[f] <= MaxRetentionDays

CacheValid(s) ==
  /\ s.context_cache_backend # "disabled" => s.context_cache_ttl_seconds > 0
  /\ s.context_cache_backend = "memory" => s.context_cache_max_entries > 0
  /\ s.context_cache_backend = "redis" => s.redis_url # Unset
  /\ NoneBlank(s, {"context_cache_key_prefix"})
  /\ s.context_cache_enabled =>
       /\ s.context_cache_stampede_protection_enabled =>
            s.context_cache_lock_timeout_seconds > 0
       /\ s.context_cache_stale_while_revalidate_enabled =>
            s.context_cache_stale_ttl_seconds > 0

QdrantValid(s) ==
  s.vector_backend = "qdrant" => Blank \notin {s.qdrant_url, s.qdrant_collection}

MultiRealValid(s) ==
  s.provider_test_mode = "multi_real" =>
    /\ s.multi_provider_validation_enabled
    /\ s.multi_provider_validation_confirmation = Confirmation

validate_metrics_settings(s) ==
  s.metrics_path \notin {Blank, "relative", "/health", "/ready", "/api/v1/version"}

is_valid_cors_origin(origin) == origin \in {"*", "http://localhost:3000", "https://app.example"}
is_valid_http_method(method) ==
  method \in {"GET", "POST", "PUT", "DELETE", "OPTIONS", "PATCH", "HEAD"}
Elements(list) == {list[i] : i \in DOMAIN list}

validate_cors_settings(s) ==
  /\ \A origin \in Elements(s.cors_allowed_origins) : is_valid_cors_origin(origin)
  /\ ~(s.cors_allow_credentials /\ "*" \in Elements(s.cors_allowed_origins))
  /\ \A method \in Elements(s.cors_allowed_methods) : is_valid_http_method(method)
  /\ \A header \in Elements(s.cors_allowed_headers) \cup Elements(s.cors_exposed_headers) :
       header # "two words"

validate(s) ==
  /\ ServerValid(s) /\ validate_cors_settings(s) /\ LanceDbValid(s) /\ AuthValid(s)
  /\ GatewayValid(s) /\ validate_metrics_settings(s) /\ OpenAiKeyValid(s)
  /\ PostgresUrlValid(s) /\ RetentionValid(s) /\ JobsValid(s) /\ JobTimesValid(s)
  /\ CacheValid(s) /\ QdrantValid(s) /\ ProviderPolicyValid(s) /\ BreakerValid(s)
  /\ GuardrailsValid(s) /\ MultiRealValid(s)

\* load_settings: the process goes on with these settings, or it ends.
Refused == [f \in {} |-> Unset]
load_settings(env) ==
  IF ~Parses(env) THEN Refused
  ELSE LET s == FromEnv(env)
       IN  IF MinImportanceValid(s) /\ validate(s) THEN s ELSE Refused

---------------------------------------------------------------------------
\* The policies made of the settings, and the retry delays that they promise, in
\* milliseconds: backoff_duration and calculate_background_job_backoff compute
\* alike.  f32::max(NaN, 1.0) is 1.0, so a multiplier that is not a number counts
\* as one.

Lower(x, y) == IF x < y THEN x ELSE y
Higher(x, y) == IF x > y THEN x ELSE y

\* powi(n - 1) for the retries n that a guarded call can have.
Retries == 1 .. 3
Powers(x) == <<1, x, x * x>>

Backoff(p, percent, n) ==
  LET factor == IF Less(p.multiplier, 100) \/ p.multiplier = NaN THEN 100 ELSE p.multiplier
      grown == (p.initial_backoff * Powers(factor)[n]) \div Powers(100)[n]
      delay == Higher(Lower(grown, p.max_backoff), 1)
      jitter == IF p.jitter_enabled THEN (delay * percent) \div 100 ELSE 0
  IN  Higher(Lower(delay + jitter, p.max_backoff), 1)
backoff_duration(p, percent, n) == Backoff(p, percent, n)
calculate_background_job_backoff(p, percent, n) == Backoff(p, percent, n)

\* provider_execution_policy: the guardrails lower the retries.
provider_execution_policy(s) ==
  [max_retries |-> IF s.provider_guardrails_enabled
                   THEN Lower(s.provider_max_retries, s.provider_max_retries_per_call)
                   ELSE s.provider_max_retries,
   timeout |-> s.provider_timeout_seconds,
   initial_backoff |-> s.provider_initial_backoff_ms,
   max_backoff |-> s.provider_max_backoff_ms,
   multiplier |-> s.provider_backoff_multiplier,
   jitter_enabled |-> s.provider_retry_jitter_enabled]
validate_provider_execution_config(p) ==
  /\ p.timeout > 0 /\ p.initial_backoff > 0
  /\ p.max_backoff >= p.initial_backoff
  /\ ~Less(p.multiplier, 100)

background_job_retry_policy(s) ==
  [enabled |-> s.background_job_retries_enabled,
   max_retries |-> s.background_job_max_retries,
   initial_backoff |-> s.background_job_initial_backoff_ms,
   max_backoff |-> s.background_job_max_backoff_ms,
   multiplier |-> s.background_job_backoff_multiplier,
   jitter_enabled |-> s.background_job_retry_jitter_enabled]

provider_total_attempts(p) == p.max_retries + 1
job_total_attempts(p) == IF p.enabled THEN p.max_retries + 1 ELSE 1

validate_circuit_breaker_config(s) == AllPositive(s, BreakerLimits)

guardrail_config_from_settings(s) ==
  [test_mode |-> s.provider_test_mode,
   limits |-> {s[f] : f \in GuardrailLimits},
   max_retries_per_call |-> s.provider_max_retries_per_call,
   timeout |-> s.provider_timeout_seconds,
   multi_provider_validation_enabled |-> s.multi_provider_validation_enabled,
   confirmation |-> s.multi_provider_validation_confirmation]

\* ProviderGuardrailConfig::validate.
guardrail_config_valid(c) ==
  /\ 0 \notin c.limits /\ c.timeout > 0
  /\ c.max_retries_per_call <= MaxSafeProviderRetries
  /\ c.test_mode = "multi_real" =>
       c.multi_provider_validation_enabled /\ c.confirmation = Confirmation

\* apply_context_cache: ContextCacheConfig::validate, which is stricter than
\* Settings::validate for Redis (max_entries).
context_cache_config_valid(s) ==
  s.context_cache_enabled =>
    /\ s.context_cache_ttl_seconds > 0
    /\ s.context_cache_max_entries > 0
    /\ s.context_cache_stampede_protection_enabled => s.context_cache_lock_timeout_seconds > 0
    /\ s.context_cache_stale_while_revalidate_enabled => s.context_cache_stale_ttl_seconds > 0

===========================================================================
