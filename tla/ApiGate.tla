------------------------------ MODULE ApiGate ------------------------------
(***************************************************************************)
(* The way of an HTTP request through memcore-api: require_api_key,        *)
(* require_organization, enforce_rate_limit, then the handler, whose       *)
(* awaits are separate steps.  The state is what requests share: the API   *)
(* keys, the organisations' plans, the number of active memories of every  *)
(* user, and the windows of the in-memory rate limiter.                    *)
(*                                                                         *)
(* A handler that changes none of this answers in its one step; what the   *)
(* engine does inside add_memory and the other writing operations is       *)
(* modelled in MemoryEngine, here only its effect on the counts matters.   *)
(* Traffic says which requests clients send in a behaviour: it bounds a    *)
(* run and is no part of the program.                                      *)
(***************************************************************************)
EXTENDS Integers, FiniteSets, Sequences

CONSTANTS
  Org, User, Key,      \* organisations, users of each, API keys (raw key = identity)
  Request,             \* requests in flight at a time
  Traffic,             \* set of records, see TrafficOK
  Window,              \* WINDOW of the rate limiter, in ticks
  RequestsPerWindow,   \* requests_per_minute
  MaxWindows,          \* 1024 in the code: more entries than this are pruned
  MaxFacts,            \* facts one request can add (bound)
  CallTokens,          \* tokens that the provider call of add_memory uses
  MaxNow,              \* bound on the clock
  None

Scope == {"memory_read", "memory_write", "memory_delete", "user_delete",
          "audit_read", "admin_read", "admin_write"}

\* Limits of a plan or of the settings; 0 is "no limit" (non_zero_limit).
Limits == [org : Nat, user : Nat, users : Nat, requests : Nat, tokens : Nat]

\* UpsertOrgPlanRequest, up to what decides whether it is accepted.
PlanBody == [tier : STRING, meta : SUBSET STRING,
             limits : [org : Int, user : Int, users : Int, requests : Int, tokens : Int]]

Plan == [active : BOOLEAN, limits : Limits]

\* ApiKeyRecord: unused ids are not in the table yet.
Unused == [status |-> "unused", org |-> None, hash |-> None, scopes |-> {}]
KeyRow(o, h, s) == [status |-> "active", org |-> o, hash |-> h, scopes |-> s]
Pepper == UNION {{s.pepper : s \in t.settings} : t \in Traffic}
KeyRows == [status : {"active", "revoked"}, org : Org,
            hash : (Pepper \cup {"dev-mode-pepper"}) \X Key, scopes : SUBSET Scope]

\* The routes below /api/v1, by their handlers.
Route == {"add_memory", "search_memory", "list_user_memories", "delete_user_memory",
  "build_context", "list_user_memory_events", "forget_user", "export_user_data",
  "import_user_data", "apply_retention", "create_api_key", "list_api_keys",
  "revoke_api_key", "get_org_plan", "upsert_org_plan", "delete_org_plan",
  "get_org_quotas", "get_org_summary", "list_org_users", "search_org_memory_events",
  "get_context_cache_metrics", "get_provider_guardrails", "get_provider_usage",
  "get_provider_usage_daily", "get_org_usage_dashboard", "query_memory_usage_snapshots",
  "get_background_jobs", "query_background_job_runs", "run_background_job",
  "apply_background_job_run_retention", "apply_provider_usage_retention",
  "create_memory_usage_snapshot"}

\* QuotaLimitKind.
QuotaKind == {"MemoriesPerOrg", "MemoriesPerUser", "UsersPerOrg",
              "DailyProviderRequests", "DailyProviderTokens"}

\* AuthContext: what authentication puts into the request.
Context == [key : Key, org : Org, scopes : SUBSET Scope]

ASSUME TrafficOK ==
  /\ RequestsPerWindow \in Nat /\ Window \in Nat \ {0} /\ MaxFacts \in Nat
  /\ CallTokens \in Nat /\ MaxNow \in Nat /\ MaxWindows \in Nat
  /\ IsFiniteSet(Request) /\ IsFiniteSet(User)
  /\ \A t \in Traffic :
       /\ t.settings \subseteq
            [auth : {"off", "dev", "database"}, pepper : STRING \cup {None},
             limiter : BOOLEAN, enabled : BOOLEAN, usage_store : BOOLEAN,
             limits : Limits]
       /\ t.keys \in [Key -> KeyRows \cup {Unused}]
       /\ t.grants \subseteq SUBSET Scope /\ t.routes \subseteq Route
       /\ t.plans \subseteq PlanBody
       /\ t.users \subseteq User /\ t.orgs \subseteq Org /\ t.arrivals \in Nat

\* None is the absent value of everything optional.
ASSUME NoneApart ==
  /\ None \notin Org /\ None \notin Key /\ None \notin User /\ None \notin Nat
  /\ None \notin Route /\ None \notin Context /\ None \notin Plan

VARIABLES
  traffic,    \* the kind of traffic, fixed at the start
  settings,   \* of the running process
  now,        \* clock
  windows,    \* RateLimiter.windows: org -> [start, count]
  keys,       \* the api_keys table: [Key -> row]
  plans,      \* the org_plans table: [Org -> row or None]
  memories,   \* active facts: [Org -> [User -> Nat]]
  used,       \* provider calls on record for this UTC day: [Org -> Nat]
  req,        \* requests in flight
  arrivals,   \* requests so far (bound)
  admitted,   \* history: the requests that the limiter let pass since the start,
              \* [Org -> Seq of when, in which window, and its place there]
  imported    \* history: facts that imports added, [Org -> Nat]

vars == <<traffic, settings, now, windows, keys, plans, memories,
          used, req, arrivals, admitted, imported>>
tables == <<keys, plans, memories, used>>
ghosts == <<admitted, imported>>
world == <<traffic, settings, now>>

\* A slot without a request.
NoLimits == [org |-> 0, user |-> 0, users |-> 0, requests |-> 0, tokens |-> 0]
NoUse == [users |-> 0, total |-> 0, mine |-> None, requests |-> 0, tokens |-> 0]
Idle == [pc |-> "idle", org |-> None, token |-> None, auth |-> None, dead |-> {},
         name |-> None, user |-> None, limits |-> NoLimits, source |-> None,
         plan |-> None, use |-> NoUse, says |-> {}, torn |-> FALSE, left |-> 0]

\* Where a request can be, and what is known of it there.
Pc == {"idle", "auth", "tenant", "limit", "handler", "get_org_plan", "count_users",
       "count_org", "count_user", "daily_usage", "answer", "extract", "read_own_plan",
       "import", "insert", "remove", "insert_key", "revoke_key", "read_plan",
       "upsert_plan", "reread_plan", "delete_plan"}
Token == (UNION {t.tokens : t \in Traffic}) \cup {None}
Use == [users : Nat, total : Nat, mine : Nat \cup {None}, requests : Nat, tokens : Nat]
Slot == [pc : Pc, org : Org \cup {None}, token : Token, auth : Context \cup {None},
         dead : SUBSET Key, name : Route \cup {None}, user : User \cup {None},
         limits : Limits, source : {"org_plan", "global_config", None},
         plan : Plan \cup {None}, use : Use, says : SUBSET QuotaKind, torn : BOOLEAN,
         left : Nat]

\* hash_api_key_with_pepper: another pepper gives another hash.
Hash(pepper, k) == <<pepper, k>>

\* resolve_api_key_pepper: dev mode falls back on a built-in pepper.
ResolvePepper ==
  IF settings.pepper # None THEN settings.pepper
  ELSE IF settings.auth = "dev" THEN "dev-mode-pepper" ELSE None

\* count_facts_by_org and count_users_by_org: of the active facts.
Facts(o) == UNION {{u} \X (1 .. memories[o][u]) : u \in User}
Total(o) == Cardinality(Facts(o))
Users(o) == Cardinality({u \in User : memories[o][u] > 0})

-----------------------------------------------------------------------------
Reply(q) == req' = [req EXCEPT ![q] = Idle]

\* A step of a request that changes what the quotas of organisation o are
\* about: `torn' is history, the reports that were being put together then.
Reports == {"get_org_quotas", "get_org_plan"}
Change(o, next) ==
  req' = [q \in Request |->
            IF next[q].org = o /\ next[q].name \in Reports
            THEN [next[q] EXCEPT !.torn = TRUE] ELSE next[q]]
Goto(q, pc) == req' = [req EXCEPT ![q].pc = pc]

\* A client sends a request: its headers name an organisation and carry a
\* token.  `dead` is history: the keys revoked by then.
Arrive(q) ==
  /\ req[q].pc = "idle" /\ arrivals < traffic.arrivals
  /\ \E o \in traffic.orgs, k \in traffic.tokens :
       req' = [req EXCEPT ![q] =
         [Idle EXCEPT !.pc = "auth", !.org = o, !.token = k,
                      !.dead = {d \in Key : keys[d].status = "revoked"}]]
  /\ arrivals' = arrivals + 1
  /\ UNCHANGED <<world, windows, tables, ghosts>>

\* Mutant: the query does not look at revoked_at.
FindRevokedToo(h) ==
  {k \in Key : keys[k].status # "unused" /\ keys[k].hash = h}

\* find_by_hash: the row of this hash unless it is revoked.
FindByHash(h) ==
  {k \in Key : keys[k].status = "active" /\ keys[k].hash = h}

\* validate_database_authorization: the context of the row found, or 401.
ValidateDatabase(q) ==
  LET found == FindByHash(Hash(settings.pepper, req[q].token)) IN
  \/ \E k \in found :
       req' = [req EXCEPT ![q].pc = "tenant",
                 ![q].auth = [key |-> k, org |-> keys[k].org, scopes |-> keys[k].scopes]]
  \/ found = {} /\ Reply(q)

\* validate_dev_authorization: one shared key, no context, hence no scopes.
ValidateDev(q) ==
  \/ req[q].token = "dev-key" /\ Goto(q, "tenant")
  \/ req[q].token # "dev-key" /\ Reply(q)

RequireApiKey(q) ==
  /\ req[q].pc = "auth"
  /\ CASE settings.auth = "off" -> Goto(q, "tenant")
       [] settings.auth = "dev" -> ValidateDev(q)
       [] settings.auth = "database" -> ValidateDatabase(q)
  /\ UNCHANGED <<world, windows, tables, arrivals, ghosts>>

\* require_organization: a key opens only its own organisation.
OrgMatches(q) == req[q].auth = None \/ req[q].auth.org = req[q].org

RequireOrganization(q) ==
  /\ req[q].pc = "tenant"
  /\ IF OrgMatches(q) THEN Goto(q, "limit") ELSE Reply(q)
  /\ UNCHANGED <<world, windows, tables, arrivals, ghosts>>

-----------------------------------------------------------------------------
(* RateLimiter::check, under its mutex. *)
NoWindows == [o \in {} |-> [start |-> 0, count |-> 0]]

\* Mutant: a full map is cleared.
PrunedAll == IF Cardinality(DOMAIN windows) > MaxWindows THEN NoWindows ELSE windows

Pruned ==
  IF Cardinality(DOMAIN windows) > MaxWindows
  THEN [o \in {p \in DOMAIN windows : now - windows[p].start < 2 * Window} |-> windows[o]]
  ELSE windows

\* The entry after entry().or_insert and the reset of an old window.
Entry(o) ==
  IF o \in DOMAIN Pruned /\ now - Pruned[o].start < Window
  THEN Pruned[o] ELSE [start |-> now, count |-> 0]

Limited(e) == e.count >= RequestsPerWindow

Store(o, e) == [p \in DOMAIN Pruned \cup {o} |-> IF p = o THEN e ELSE Pruned[p]]

EnforceRateLimit(q) ==
  LET o == req[q].org
      e == Entry(o)
  IN
  /\ req[q].pc = "limit"
  /\ \/ /\ ~settings.limiter
        /\ Goto(q, "handler")
        /\ UNCHANGED <<windows, admitted>>
     \/ /\ settings.limiter /\ Limited(e)
        /\ windows' = Store(o, e)
        /\ Reply(q)
        /\ UNCHANGED admitted
     \/ /\ settings.limiter /\ ~Limited(e)
        /\ windows' = Store(o, [e EXCEPT !.count = @ + 1])
        /\ admitted' = [admitted EXCEPT ![o] =
                         Append(@, [at |-> now, start |-> e.start, nth |-> e.count + 1])]
        /\ Goto(q, "handler")
  /\ UNCHANGED <<world, tables, arrivals, imported>>

-----------------------------------------------------------------------------
(* The handlers.  check_scope and check_any_scope let a request without a  *)
(* context pass; a body or parameter that does not validate is answered at *)
(* once, like a missing scope.                                             *)
Scoped(q, scopes) ==
  IF req[q].auth = None THEN TRUE ELSE req[q].auth.scopes \cap scopes # {}

Handler(q, name, scopes, next) ==
  /\ req[q].pc = "handler" /\ name \in traffic.routes
  /\ \/ Reply(q)
     \/ /\ Scoped(q, scopes) /\ next # "reply"
        /\ \E u \in traffic.users \cup (IF name = "get_org_quotas" THEN {None} ELSE {}) :
             req' = [req EXCEPT ![q].pc = next, ![q].name = name, ![q].user = u]
  /\ UNCHANGED <<world, windows, tables, arrivals, ghosts>>

AdminRead == {"admin_read", "admin_write"}

\* Mutant: whoever may write memories may create keys.
create_api_key_writers(q) ==
  Handler(q, "create_api_key", {"admin_write", "memory_write"}, "insert_key")

add_memory(q) == Handler(q, "add_memory", {"memory_write"}, "get_org_plan")
search_memory(q) == Handler(q, "search_memory", {"memory_read"}, "reply")
list_user_memories(q) == Handler(q, "list_user_memories", {"memory_read"}, "reply")
delete_user_memory(q) == Handler(q, "delete_user_memory", {"memory_delete"}, "remove")
build_context(q) == Handler(q, "build_context", {"memory_read"}, "reply")
list_user_memory_events(q) == Handler(q, "list_user_memory_events", {"audit_read"}, "reply")
forget_user(q) == Handler(q, "forget_user", {"user_delete"}, "remove")
export_user_data(q) ==
  Handler(q, "export_user_data", {"admin_read", "user_delete", "audit_read"}, "reply")
import_user_data(q) == Handler(q, "import_user_data", {"admin_write", "memory_write"}, "import")
apply_retention(q) == Handler(q, "apply_retention", {"admin_write", "user_delete"}, "remove")
create_api_key(q) == Handler(q, "create_api_key", {"admin_write"}, "insert_key")
list_api_keys(q) == Handler(q, "list_api_keys", AdminRead, "reply")
revoke_api_key(q) == Handler(q, "revoke_api_key", {"admin_write"}, "revoke_key")
get_org_plan(q) == Handler(q, "get_org_plan", AdminRead, "read_own_plan")
upsert_org_plan(q) == Handler(q, "upsert_org_plan", {"admin_write"}, "read_plan")
delete_org_plan(q) == Handler(q, "delete_org_plan", {"admin_write"}, "delete_plan")
get_org_quotas(q) == Handler(q, "get_org_quotas", AdminRead, "get_org_plan")
get_org_summary(q) == Handler(q, "get_org_summary", AdminRead, "reply")
list_org_users(q) == Handler(q, "list_org_users", AdminRead, "reply")
search_org_memory_events(q) ==
  Handler(q, "search_org_memory_events", AdminRead \cup {"audit_read"}, "reply")
get_context_cache_metrics(q) == Handler(q, "get_context_cache_metrics", AdminRead, "reply")
get_provider_guardrails(q) == Handler(q, "get_provider_guardrails", AdminRead, "reply")
get_provider_usage(q) == Handler(q, "get_provider_usage", AdminRead, "reply")
get_provider_usage_daily(q) == Handler(q, "get_provider_usage_daily", AdminRead, "reply")
get_org_usage_dashboard(q) == Handler(q, "get_org_usage_dashboard", AdminRead, "reply")
query_memory_usage_snapshots(q) ==
  Handler(q, "query_memory_usage_snapshots", AdminRead, "reply")
get_background_jobs(q) == Handler(q, "get_background_jobs", AdminRead, "reply")
query_background_job_runs(q) == Handler(q, "query_background_job_runs", AdminRead, "reply")
\* These write, but to tables other modules keep.
run_background_job(q) == Handler(q, "run_background_job", {"admin_write"}, "reply")
apply_background_job_run_retention(q) ==
  Handler(q, "apply_background_job_run_retention", {"admin_write"}, "reply")
apply_provider_usage_retention(q) ==
  Handler(q, "apply_provider_usage_retention", {"admin_write"}, "reply")
create_memory_usage_snapshot(q) ==
  Handler(q, "create_memory_usage_snapshot", {"admin_write"}, "reply")

Dispatch(q) ==
  \/ add_memory(q) \/ search_memory(q) \/ list_user_memories(q) \/ delete_user_memory(q)
  \/ build_context(q) \/ list_user_memory_events(q) \/ forget_user(q) \/ export_user_data(q)
  \/ import_user_data(q) \/ apply_retention(q) \/ create_api_key(q) \/ list_api_keys(q)
  \/ revoke_api_key(q) \/ get_org_plan(q) \/ upsert_org_plan(q) \/ delete_org_plan(q)
  \/ get_org_quotas(q) \/ get_org_summary(q) \/ list_org_users(q)
  \/ search_org_memory_events(q) \/ get_context_cache_metrics(q)
  \/ get_provider_guardrails(q) \/ get_provider_usage(q) \/ get_provider_usage_daily(q)
  \/ get_org_usage_dashboard(q) \/ query_memory_usage_snapshots(q)
  \/ get_background_jobs(q) \/ query_background_job_runs(q) \/ run_background_job(q)
  \/ apply_background_job_run_retention(q) \/ apply_provider_usage_retention(q)
  \/ create_memory_usage_snapshot(q)

-----------------------------------------------------------------------------
(* Quotas: check_memory_write_allowed, for add_memory, and                 *)
(* get_org_quota_status read the plan, three counts and the usage of the   *)
(* day one await after the other, and decide on what they read.  Only then *)
(* add_memory calls the provider and stores the facts one by one.          *)

\* Mutant: a plan counts whether it is active or not.
ResolveInactive(o) ==
  IF plans[o] # None THEN [source |-> "org_plan", limits |-> plans[o].limits]
  ELSE [source |-> "global_config", limits |-> settings.limits]

\* resolve_org_quota_limits: an active plan replaces the global limits.
ResolveLimits(o) ==
  IF (IF plans[o] = None THEN FALSE ELSE plans[o].active)
  THEN [source |-> "org_plan", limits |-> plans[o].limits]
  ELSE [source |-> "global_config", limits |-> settings.limits]

\* The route get_org_plan shows the plan next to the limits in force.
ReadOwnPlan(q) ==
  /\ req[q].pc = "read_own_plan"
  /\ req' = [req EXCEPT ![q].pc = "get_org_plan", ![q].plan = plans[req[q].org]]
  /\ UNCHANGED <<world, windows, tables, arrivals, ghosts>>

ReadPlan(q) ==
  LET found == ResolveLimits(req[q].org) IN
  /\ req[q].pc = "get_org_plan"
  /\ req' = [req EXCEPT ![q].limits = found.limits, ![q].source = found.source,
               ![q].pc = IF req[q].name = "get_org_plan" THEN "answer" ELSE "count_users"]
  /\ UNCHANGED <<world, windows, tables, arrivals, ghosts>>

\* collect_usage.
CountUsers(q) ==
  /\ req[q].pc = "count_users"
  /\ req' = [req EXCEPT ![q].pc = "count_org", ![q].use.users = Users(req[q].org)]
  /\ UNCHANGED <<world, windows, tables, arrivals, ghosts>>

CountOrg(q) ==
  /\ req[q].pc = "count_org"
  /\ req' = [req EXCEPT ![q].use.total = Total(req[q].org),
               ![q].pc = IF req[q].user = None THEN "daily_usage" ELSE "count_user"]
  /\ UNCHANGED <<world, windows, tables, arrivals, ghosts>>

CountUser(q) ==
  /\ req[q].pc = "count_user"
  /\ req' = [req EXCEPT ![q].pc = "daily_usage",
               ![q].use.mine = memories[req[q].org][req[q].user]]
  /\ UNCHANGED <<world, windows, tables, arrivals, ghosts>>

Over(limit, current, requested) == limit > 0 /\ current + requested > limit

\* Mutant: the new memory itself is not counted.
MemoryViolationsBefore(lim, use, new) ==
  {kind \in {"MemoriesPerOrg"} : Over(lim.org, use.total, 0)}
  \cup (IF use.mine = None THEN {}
        ELSE {kind \in {"MemoriesPerUser"} : Over(lim.user, use.mine, 0)})

\* evaluate_memory_limits: those of a user only when there is one.
MemoryViolations(lim, use, new) ==
  {kind \in {"MemoriesPerOrg"} : Over(lim.org, use.total, new)}
  \cup (IF use.mine = None THEN {}
        ELSE {kind \in {"MemoriesPerUser"} : Over(lim.user, use.mine, new)}
             \cup {kind \in {"UsersPerOrg"} :
                     Over(lim.users, use.users, IF use.mine = 0 THEN 1 ELSE 0)})

ProviderViolations(lim, use, requests, tokens) ==
  {kind \in {"DailyProviderRequests"} : Over(lim.requests, use.requests, requests)}
  \cup {kind \in {"DailyProviderTokens"} : Over(lim.tokens, use.tokens, tokens)}

\* evaluate_limits.
Violations(lim, use) ==
  MemoryViolations(lim, use, 0) \cup ProviderViolations(lim, use, 0, 0)

\* collect_daily_provider_usage: nothing without a store.
DailyUsage(o) ==
  IF settings.usage_store THEN [requests |-> used[o], tokens |-> used[o] * CallTokens]
  ELSE [requests |-> 0, tokens |-> 0]

\* The last read; the write check does not look at it.
ReadDailyUsage(q) ==
  LET r == req[q]
      day == DailyUsage(r.org)
      use == [r.use EXCEPT !.requests = day.requests, !.tokens = day.tokens]
  IN
  /\ r.pc = "daily_usage"
  /\ \/ /\ r.name = "get_org_quotas"
        /\ req' = [req EXCEPT ![q].pc = "answer", ![q].use = use,
                     ![q].says = IF settings.enabled THEN Violations(r.limits, use)
                                 ELSE {}]
     \/ /\ r.name = "add_memory"
        /\ IF settings.enabled /\ MemoryViolations(r.limits, use, 1) # {} THEN Reply(q)
           ELSE req' = [req EXCEPT ![q] =
                  [r EXCEPT !.pc = "extract", !.limits = NoLimits, !.source = None,
                            !.use = NoUse]]
  /\ UNCHANGED <<world, windows, tables, arrivals, ghosts>>

Answer(q) ==
  /\ req[q].pc = "answer"
  /\ Reply(q)
  /\ UNCHANGED <<world, windows, tables, arrivals, ghosts>>

\* The provider extracts the facts; its usage goes on record.
Extract(q) ==
  LET r == req[q] IN
  /\ r.pc = "extract"
  /\ \E n \in 0 .. MaxFacts :
       Change(r.org, [req EXCEPT ![q].pc = "insert", ![q].left = n])
  /\ used' = IF settings.usage_store THEN [used EXCEPT ![r.org] = @ + 1] ELSE used
  /\ UNCHANGED <<world, windows, keys, plans, memories, arrivals, ghosts>>

\* import_user_data: no quota; replace mode deletes the user's facts first.
ImportStart(q) ==
  LET r == req[q] IN
  /\ r.pc = "import"
  /\ memories' \in {memories, [memories EXCEPT ![r.org][r.user] = 0]}
  /\ \E n \in 0 .. MaxFacts :
       Change(r.org, [req EXCEPT ![q].pc = "insert", ![q].left = n])
  /\ UNCHANGED <<world, windows, keys, plans, used, arrivals, ghosts>>

\* One fact of add_memory or of an import reaches the fact store.
Insert(q) ==
  LET r == req[q] IN
  /\ r.pc = "insert"
  /\ \/ r.left = 0 /\ Reply(q) /\ UNCHANGED <<memories, imported>>
     \/ /\ r.left > 0
        /\ memories' = [memories EXCEPT ![r.org][r.user] = @ + 1]
        /\ Change(r.org, [req EXCEPT ![q].left = @ - 1])
        /\ imported' = IF r.name = "import_user_data"
                       THEN [imported EXCEPT ![r.org] = @ + 1] ELSE imported
  /\ UNCHANGED <<world, windows, keys, plans, used, arrivals, admitted>>

\* What is left: delete_user_memory deletes one fact or finds none, forget_user
\* deletes all facts of the user, apply_retention the old ones.
Kept(name, have) ==
  CASE name = "delete_user_memory" -> (have - 1 .. have) \cap Nat
    [] name = "forget_user" -> {0}
    [] name = "apply_retention" -> 0 .. have

Remove(q) ==
  LET r == req[q] IN
  /\ r.pc = "remove"
  /\ \E n \in Kept(r.name, memories[r.org][r.user]) :
       memories' = [memories EXCEPT ![r.org][r.user] = n]
  /\ Change(r.org, [req EXCEPT ![q] = Idle])
  /\ UNCHANGED <<world, windows, keys, plans, used, arrivals, ghosts>>

\* insert_api_key: a fresh id, the caller's organisation, any scopes.
InsertKey(q) ==
  /\ req[q].pc = "insert_key"
  /\ Reply(q)
  /\ IF ResolvePepper = None THEN UNCHANGED keys
     ELSE \E k \in {d \in Key : keys[d] = Unused}, s \in traffic.grants :
            keys' = [keys EXCEPT ![k] = KeyRow(req[q].org, Hash(ResolvePepper, k), s)]
  /\ UNCHANGED <<world, windows, plans, memories, used, arrivals, ghosts>>

\* revoke_api_key: UPDATE ... WHERE org_id = ? AND revoked_at IS NULL.
RevokeKey(q) ==
  /\ req[q].pc = "revoke_key"
  /\ Reply(q)
  /\ \/ UNCHANGED keys
     \/ \E k \in {d \in Key : keys[d].status = "active" /\ keys[d].org = req[q].org} :
          keys' = [keys EXCEPT ![k].status = "revoked"]
  /\ UNCHANGED <<world, windows, plans, memories, used, arrivals, ghosts>>

Tiers == {"free", "starter", "pro", "enterprise", "custom"}
ForbiddenKeys == {"secret", "password", "token", "api_key", "apikey", "bearer",
                  "stripe", "payment", "customer_id"}

\* normalize_plan_limit: a negative limit is refused, zero is "no limit".
Negative(limits) == \E f \in DOMAIN limits : limits[f] < 0

\* into_plan: what it refuses.
PlanRefused(b) ==
  b.tier \notin Tiers \/ b.meta \cap ForbiddenKeys # {} \/ Negative(b.limits)

UpsertRead(q) ==
  /\ req[q].pc = "read_plan"
  /\ Goto(q, "upsert_plan")
  /\ UNCHANGED <<world, windows, tables, arrivals, ghosts>>

\* INSERT ... ON CONFLICT DO UPDATE.
UpsertWrite(q) ==
  /\ req[q].pc = "upsert_plan"
  /\ \E b \in traffic.plans, active \in BOOLEAN :
       \/ PlanRefused(b) /\ Reply(q) /\ UNCHANGED plans
       \/ /\ ~PlanRefused(b)
          /\ plans' = [plans EXCEPT ![req[q].org] = [active |-> active, limits |-> b.limits]]
          /\ Change(req[q].org, [req EXCEPT ![q].pc = "reread_plan"])
  /\ UNCHANGED <<world, windows, keys, memories, used, arrivals, ghosts>>

UpsertReread(q) ==
  /\ req[q].pc = "reread_plan"
  /\ Reply(q)
  /\ UNCHANGED <<world, windows, tables, arrivals, ghosts>>

DeletePlan(q) ==
  /\ req[q].pc = "delete_plan"
  /\ plans' = [plans EXCEPT ![req[q].org] = None]
  /\ Change(req[q].org, [req EXCEPT ![q] = Idle])
  /\ UNCHANGED <<world, windows, keys, memories, used, arrivals, ghosts>>

\* An await fails (500), or the client goes away and the future is dropped.
Fail(q) ==
  /\ req[q].pc \notin {"idle", "tenant", "limit", "handler"}
  /\ Reply(q)
  /\ UNCHANGED <<world, windows, tables, arrivals, ghosts>>

-----------------------------------------------------------------------------
Tick ==
  /\ settings.limiter /\ now < MaxNow
  /\ now' = now + 1
  /\ UNCHANGED <<traffic, settings, windows, tables, req, arrivals, ghosts>>

\* A new UTC day: yesterday's calls are outside of utc_day_window.
Midnight ==
  /\ used # [o \in Org |-> 0]
  /\ used' = [o \in Org |-> 0]
  /\ req' = [q \in Request |-> IF req[q].name \in Reports
                               THEN [req[q] EXCEPT !.torn = TRUE] ELSE req[q]]
  /\ UNCHANGED <<world, windows, keys, plans, memories, arrivals, ghosts>>

\* The process stops and starts, perhaps with other settings: tables persist.
Restart ==
  /\ settings' \in traffic.settings \ {settings}
  /\ req' = [q \in Request |-> Idle]
  /\ windows' = NoWindows
  /\ admitted' = [o \in Org |-> <<>>]
  /\ UNCHANGED <<traffic, now, tables, arrivals, imported>>

Init ==
  /\ traffic \in Traffic
  /\ settings \in traffic.settings
  /\ now = 0
  /\ windows = NoWindows
  /\ keys = traffic.keys
  /\ plans = [o \in Org |-> None]
  /\ memories = [o \in Org |-> [u \in User |-> 0]]
  /\ used = [o \in Org |-> 0]
  /\ req = [q \in Request |-> Idle]
  /\ arrivals = 0
  /\ admitted = [o \in Org |-> <<>>]
  /\ imported = [o \in Org |-> 0]

Step(q) ==
  \/ RequireApiKey(q) \/ RequireOrganization(q) \/ EnforceRateLimit(q) \/ Dispatch(q)
  \/ ReadOwnPlan(q) \/ ReadPlan(q) \/ CountUsers(q) \/ CountOrg(q) \/ CountUser(q)
  \/ ReadDailyUsage(q) \/ Answer(q) \/ Extract(q)
  \/ ImportStart(q) \/ Insert(q) \/ Remove(q) \/ InsertKey(q) \/ RevokeKey(q)
  \/ UpsertRead(q) \/ UpsertWrite(q) \/ UpsertReread(q) \/ DeletePlan(q) \/ Fail(q)

Next == Tick \/ Midnight \/ Restart \/ \E q \in Request : Arrive(q) \/ Step(q)

Spec == Init /\ [][Next]_vars

-----------------------------------------------------------------------------
TypeOK ==
  /\ traffic \in Traffic /\ settings \in traffic.settings
  /\ now \in Nat /\ arrivals \in Nat
  /\ DOMAIN windows \subseteq Org
  /\ \A o \in DOMAIN windows : windows[o] \in [start : 0 .. now, count : Nat]
  /\ keys \in [Key -> KeyRows \cup {Unused}]
  /\ plans \in [Org -> Plan \cup {None}]
  /\ memories \in [Org -> [User -> Nat]] /\ used \in [Org -> Nat]
  /\ req \in [Request -> Slot]
  /\ \A q \in Request : req[q].pc # "idle" => req[q].org \in Org
  /\ admitted \in [Org -> Seq([at : Nat, start : Nat, nth : Nat])]
  /\ imported \in [Org -> Nat]

\* A request that is past authentication in database mode has the context of
\* a key, and past the tenant check of a key of the organisation it names:
\* what scopes and tenants are checked against is never missing.
Anonymous(q) == req[q].auth = None
NoAnonymousRequest ==
  settings.auth = "database" =>
    \A q \in Request :
      /\ req[q].pc \notin {"idle", "auth"} => ~Anonymous(q)
      /\ req[q].pc \notin {"idle", "auth", "tenant"} => req[q].auth.org = req[q].org

\* A key that was revoked when a request arrived never authenticates that
\* request, whatever was looked up, created or restarted since.
RevokedKeysStayOut ==
  \A q \in Request : req[q].auth # None => req[q].auth.key \notin req[q].dead

\* In database mode an organisation whose last admin key is revoked stays
\* locked out: once no request that such a key authenticated is in flight, no
\* request ever gives it an admin key again.
Admin(c, o) == c.org = o /\ "admin_write" \in c.scopes
LockedOut(o) ==
  /\ settings.auth = "database"
  /\ \A k \in Key : keys[k].status = "active" => ~Admin(keys[k], o)
  /\ \A q \in Request : req[q].auth # None => ~Admin(req[q].auth, o)
LockoutFinal ==
  [][\A o \in Org : LockedOut(o) /\ settings' = settings => LockedOut(o)']_vars

\* A fixed window admits at most twice the limit in any interval as long as
\* the window, also when old entries are pruned on behalf of other
\* organisations.
SlidingBound ==
  \A o \in Org, t \in 0 .. MaxNow :
    Cardinality({i \in DOMAIN admitted[o] : admitted[o][i].at \in t .. (t + Window - 1)})
      <= 2 * RequestsPerWindow

\* The memory quota is checked without a reservation; the requests in flight
\* can still overshoot it only by what each of them adds after its own check,
\* and by the imports, which the quota does not cover.
Quotas == {s.limits.org : s \in traffic.settings} \cup {b.limits.org : b \in traffic.plans}
OvershootBounded ==
  (\A s \in traffic.settings : s.enabled) /\ 0 \notin Quotas =>
    \A o \in Org : \E limit \in Quotas :
      Total(o) <= limit - 1 + Cardinality(Request) * MaxFacts + imported[o]

\* A quota report whose organisation did not change while it was put together
\* tells the truth: it names a memory limit exactly when the organisation is
\* beyond it, and the user of a report that names one cannot write.  A plan is
\* shown next to its own limits.
Beyond(limit, count) == limit # 0 /\ count > limit
InForce(o) ==
  IF plans[o] = None THEN settings.limits
  ELSE IF plans[o].active THEN plans[o].limits ELSE settings.limits
ReportTrue ==
  \A q \in Request :
    LET r == req[q]
        lim == InForce(r.org)
    IN
    r.pc = "answer" /\ ~r.torn =>
      /\ r.name = "get_org_quotas" /\ settings.enabled =>
           /\ "MemoriesPerOrg" \in r.says <=> Beyond(lim.org, Total(r.org))
           /\ "DailyProviderRequests" \in r.says <=>
                settings.usage_store /\ Beyond(lim.requests, used[r.org])
           /\ r.user # None =>
                /\ "MemoriesPerUser" \in r.says <=>
                     Beyond(lim.user, memories[r.org][r.user])
                /\ r.says \ {"DailyProviderRequests", "DailyProviderTokens"} # {} =>
                     MemoryViolations(lim, [r.use EXCEPT !.total = Total(r.org)], 1) # {}
      /\ r.name = "get_org_plan" =>
           /\ r.source = "org_plan" => r.plan # None
           /\ r.limits = lim /\ r.plan = plans[r.org]

\* Who acts in database mode: the context of a key, of the organisation that
\* the request names, which was not revoked when the request arrived.
KeysRespected == TypeOK /\ NoAnonymousRequest /\ RevokedKeysStayOut
=============================================================================
