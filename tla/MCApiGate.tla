----------------------------- MODULE MCApiGate -----------------------------
(* Kinds of traffic: keys and tenants, quotas and plans, reports, limits. *)
EXTENDS ApiGate, TLC

CONSTANTS o1, o2, u1, u2, k1, k2, k3, k4, r1, r2

Settings(auth, pepper, limiter, enabled, limit) ==
  [auth |-> auth, pepper |-> pepper, limiter |-> limiter, enabled |-> enabled,
   usage_store |-> FALSE, limits |-> [NoLimits EXCEPT !.org = limit]]

Body(o, u, us) ==
  [tier |-> "pro", meta |-> {"note"},
   limits |-> [NoLimits EXCEPT !.org = o, !.user = u, !.users = us]]

\* o1 has an admin key and a writing key, o2 an admin key made under the
\* pepper of dev mode; the process may be restarted with a pepper.
KeyTraffic ==
  [settings |-> {Settings("database", "pepper", FALSE, FALSE, 0),
                 Settings("dev", None, FALSE, FALSE, 0)},
   keys |-> (k1 :> KeyRow(o1, Hash("pepper", k1), {"admin_write"}))
         @@ (k2 :> KeyRow(o1, Hash("pepper", k2), {"memory_write", "user_delete"}))
         @@ (k3 :> KeyRow(o2, Hash("dev-mode-pepper", k3), {"admin_write"}))
         @@ (k4 :> Unused),
   routes |-> {"add_memory", "search_memory", "list_user_memories", "build_context",
               "list_user_memory_events", "export_user_data", "list_api_keys",
               "get_org_summary", "list_org_users",
               "search_org_memory_events", "get_context_cache_metrics",
               "get_provider_guardrails", "get_provider_usage",
               "get_provider_usage_daily", "get_org_usage_dashboard",
               "query_memory_usage_snapshots", "get_background_jobs",
               "query_background_job_runs", "run_background_job",
               "apply_background_job_run_retention", "apply_provider_usage_retention",
               "create_memory_usage_snapshot", "create_api_key", "revoke_api_key",
               "delete_org_plan"},
   orgs |-> {o1, o2}, users |-> {u1}, tokens |-> {k1, k2, k3, k4, "dev-key"},
   grants |-> {{"admin_write"}, {"memory_read"}},
   plans |-> {}, arrivals |-> 4]

\* Global limits of 1 memory, plans that raise it to 2 or are refused.
QuotaTraffic ==
  [settings |-> {Settings("off", None, FALSE, TRUE, 1)},
   keys |-> [k \in Key |-> Unused],
   routes |-> {"add_memory", "import_user_data", "delete_user_memory", "forget_user",
               "apply_retention", "upsert_org_plan", "delete_org_plan"},
   orgs |-> {o1}, users |-> {u1, u2}, tokens |-> {None}, grants |-> {},
   plans |-> {Body(2, 0, 0), Body(1, 1, 1), Body(-1, 0, 0)}, arrivals |-> 4]

\* Reports while plans, memories and the usage of the day change.
ReportTraffic ==
  [settings |-> {[Settings("off", None, FALSE, TRUE, 1) EXCEPT !.usage_store = TRUE]},
   keys |-> [k \in Key |-> Unused],
   routes |-> {"get_org_quotas", "get_org_plan", "add_memory", "forget_user",
               "upsert_org_plan", "delete_org_plan"},
   orgs |-> {o1}, users |-> {u1, u2}, tokens |-> {None}, grants |-> {},
   plans |-> {[tier |-> "free", meta |-> {},
               limits |-> [org |-> 3, user |-> 1, users |-> 1, requests |-> 1, tokens |-> 3]],
              [Body(0, 0, 0) EXCEPT !.meta = {"token"}],
              [Body(0, 0, 0) EXCEPT !.tier = "gold"]},
   arrivals |-> 3]

\* The limiter alone, two organisations, one more than it keeps.
LimitTraffic ==
  [settings |-> {Settings("off", None, TRUE, FALSE, 0)},
   keys |-> [k \in Key |-> Unused],
   routes |-> {"search_memory"},
   orgs |-> {o1, o2}, users |-> {u1}, tokens |-> {None}, grants |-> {}, plans |-> {}, arrivals |-> 6]

MCTraffic == {KeyTraffic, QuotaTraffic, ReportTraffic, LimitTraffic}
Symmetry == Permutations(Request)
=============================================================================
