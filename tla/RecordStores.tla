---------------------------- MODULE RecordStores ----------------------------
(***************************************************************************)
(* The stores of records that are written once: audit events, provider      *)
(* usage, job runs and memory-usage snapshots; and API keys and plans.      *)
(* The mocks keep vectors or maps, SQLite and Postgres tables; ids are      *)
(* fresh UUIDs.  Postgres runs SQLite's statements except where a           *)
(* definition of its own says otherwise.                                    *)
(***************************************************************************)
EXTENDS StoreCommon

CONSTANT DayLength    \* times in a day

HasId(t, row) == \E r \in t : r.id = row.id

\* INSERT: the primary key refuses an id that is there; the mocks push.
Push(t, row)   == Result(Ok(row), t \cup {row})
SqlInsert(t, row) == IF HasId(t, row) THEN Result(Err("StorageError"), t) ELSE Push(t, row)

InWindow(row, q) == /\ \A a \in q.after : row.time >= a
                    /\ \A b \in q.before : row.time < b

Older(t, cutoff) == {r \in t : r.time < cutoff}

\* DELETE ... older than a cutoff; a dry run only counts.
Prune(t, rows, dry) == Result(Ok(Cardinality(rows)), IF dry THEN t ELSE t \ rows)

(***************************************************************************)
(* Audit events                                                             *)
(***************************************************************************)
MockRecordEvent(t, tenant, e) ==
  IF Owns(tenant, e) THEN Push(t, e) ELSE Result(Err("Forbidden"), t)

SqliteRecordEvent(t, tenant, e) ==
  IF Owns(tenant, e) THEN SqlInsert(t, e) ELSE Result(Err("Forbidden"), t)

PostgresRecordEvent(t, tenant, e) == SqliteRecordEvent(t, tenant, e)

MockListEvents(t, q) ==
  Ok(Newest({e \in t : /\ Owns(q.tenant, e)
                       /\ \A f \in q.fact : e.fact = f
                       /\ \A o \in q.operation : e.operation = o
                       /\ InWindow(e, q)
                       /\ \A x \in q.text : TextContains(e.text, x)
                       /\ IsAfterCursor(e, q.cursor)},
            PageFetchLimit(q.limit)))

SqliteListEvents(t, q) ==
  Ok(Newest({e \in t : /\ Owns(q.tenant, e)
                       /\ \A f \in q.fact : e.fact = f
                       /\ \A o \in q.operation : e.operation = o
                       /\ InWindow(e, q)
                       /\ \A x \in q.text : SqliteLike(e.text, x)
                       /\ PushSqliteCursor(e, q.cursor)},
            PageFetchLimit(q.limit)))

PostgresListEvents(t, q) ==
  Ok(Newest({e \in t : /\ Owns(q.tenant, e)
                       /\ \A f \in q.fact : e.fact = f
                       /\ \A o \in q.operation : e.operation = o
                       /\ InWindow(e, q)
                       /\ \A x \in q.text : PostgresLike(e.text, x)
                       /\ PushPostgresCursor(e, q.cursor)},
            PageFetchLimit(q.limit)))

\* The organisation's events; here the keyword may also be a user's name.
OrgEvents(t, q, Matches(_, _)) ==
  {e \in t : /\ e.org = q.tenant.org
             /\ \A u \in q.user : e.user = u
             /\ \A f \in q.fact : e.fact = f
             /\ \A o \in q.operation : e.operation = o
             /\ InWindow(e, q)
             /\ \A x \in q.text : Matches(e.text, x) \/ Matches(e.user, x)}

MockListEventsByOrg(t, q) ==
  Ok(Newest({e \in OrgEvents(t, q, TextContains) : IsAfterCursor(e, q.cursor)},
            PageFetchLimit(q.limit)))

SqliteListEventsByOrg(t, q) ==
  Ok(Newest({e \in OrgEvents(t, q, SqliteLike) : PushSqliteCursor(e, q.cursor)},
            PageFetchLimit(q.limit)))

PostgresListEventsByOrg(t, q) ==
  Ok(Newest({e \in OrgEvents(t, q, PostgresLike) : PushPostgresCursor(e, q.cursor)},
            PageFetchLimit(q.limit)))

MockDeleteEventsOlderThan(t, tenant, cutoff, dry) ==
  Prune(t, {e \in Older(t, cutoff) : Owns(tenant, e)}, dry)

SqliteDeleteEventsOlderThan(t, tenant, cutoff, dry) ==
  Prune(t, {e \in Older(t, cutoff) : Owns(tenant, e)}, dry)

PostgresDeleteEventsOlderThan(t, tenant, cutoff, dry) ==
  SqliteDeleteEventsOlderThan(t, tenant, cutoff, dry)

MockCountEventsByOrg(t, org) == Cardinality({e \in t : e.org = org})

SqliteCountEventsByOrg(t, org) == Cardinality({e \in t : e.org = org})

PostgresCountEventsByOrg(t, org) == SqliteCountEventsByOrg(t, org)

(***************************************************************************)
(* Provider usage.  An event may lack a user, tokens and a cost.            *)
(***************************************************************************)
MockRecordUsage(t, u) == Push(t, u)

SqliteRecordUsage(t, u) == SqlInsert(t, u)

PostgresRecordUsage(t, u) == SqliteRecordUsage(t, u)

\* An optional number counts as zero; the total of the costs is absent if all are.
OrZero(v) == IF v = {} THEN 0 ELSE CHOOSE n \in v : TRUE

ComputeSummary(rows) ==
  LET Marked(m) == Cardinality({u \in rows : m \in u.marks})
  IN  [requests  |-> Cardinality(rows),
       successes |-> Cardinality({u \in rows : u.status = "success"}),
       errors    |-> Cardinality({u \in rows : u.status = "error"}),
       fallbacks |-> Marked("fallback"),
       blocks    |-> Marked("circuit_blocked"),
       timeouts  |-> Marked("timed_out"),
       tokens    |-> Total([u \in rows |-> OrZero(u.tokens)]),
       cost      |-> IF \A u \in rows : u.cost = {} THEN {}
                    ELSE {Total([u \in rows |-> OrZero(u.cost)])}]

MatchesUsage(u, q) ==
  /\ u.org = q.org
  /\ \A x \in q.user : u.user = {x}
  /\ \A x \in q.provider : u.provider = x
  /\ InWindow(u, q)

\* The filters without the user: what the daily query knows.
MatchesDaily(u, q) ==
  /\ u.org = q.org
  /\ \A x \in q.provider : u.provider = x
  /\ InWindow(u, q)

SqliteUsageFilters(u, q) == /\ u.org = q.org
                            /\ \A x \in q.user : u.user = {x}
                            /\ \A x \in q.provider : u.provider = x
                            /\ InWindow(u, q)

SqliteDailyFilters(u, q) == /\ u.org = q.org
                            /\ \A x \in q.provider : u.provider = x
                            /\ InWindow(u, q)

PostgresDailyFilters(u, q) == /\ u.org = q.org
                              /\ \A x \in q.provider : u.provider = x
                              /\ InWindow(u, q)

MockQueryUsage(t, q) ==
  LET rows == {u \in t : MatchesUsage(u, q)}
      later == {u \in rows : IsAfterCursor(u, q.cursor)}
      page == BuildPage(NewestFirst(later), q.limit)
  IN  Ok([page |-> page, summary |-> ComputeSummary(rows)])

\* SELECT COUNT, SUM ... WHERE filters: NULL tokens are skipped, the SUM of no cost is NULL.
SqliteQuerySummary(t, q) == ComputeSummary({u \in t : SqliteUsageFilters(u, q)})

SqliteQueryUsage(t, q) ==
  LET later == {u \in t : SqliteUsageFilters(u, q) /\ PushSqliteCursor(u, q.cursor)}
      page == BuildPage(Newest(later, PageFetchLimit(q.limit)), q.limit)
  IN  Ok([page |-> page, summary |-> SqliteQuerySummary(t, q)])

\* SUM over a BIGINT column is a NUMERIC, which is not decoded as an i64: the
\* summary, which is asked for first, always fails.
PostgresQuerySummary(t, q) == Err("StorageError")

PostgresQueryUsage(t, q) == PostgresQuerySummary(t, q)

Day(time) == time \div DayLength

\* Buckets in ascending order of the day.
DailyBuckets(rows) ==
  LET dates == {Day(u.time) : u \in rows}
      days  == Sorted(dates, {p \in dates \X dates : p[1] < p[2]})
  IN  [i \in 1 .. Len(days) |->
         [date |-> days[i],
          totals |-> ComputeSummary({u \in rows : Day(u.time) = days[i]})]]

MockQueryUsageDaily(t, q) == Ok(DailyBuckets({u \in t : MatchesDaily(u, q)}))

\* GROUP BY substr(created_at, 1, 10)
SqliteQueryUsageDaily(t, q) == Ok(DailyBuckets({u \in t : SqliteDailyFilters(u, q)}))

\* GROUP BY DATE(created_at AT TIME ZONE 'UTC'), with the sums cast to bigint
PostgresQueryUsageDaily(t, q) == Ok(DailyBuckets({u \in t : PostgresDailyFilters(u, q)}))

MockDeleteUsageOlderThan(t, org, cutoff, dry) ==
  Prune(t, {u \in Older(t, cutoff) : u.org = org}, dry)

SqliteDeleteUsageOlderThan(t, org, cutoff, dry) ==
  Prune(t, {u \in Older(t, cutoff) : u.org = org}, dry)

PostgresDeleteUsageOlderThan(t, org, cutoff, dry) ==
  SqliteDeleteUsageOlderThan(t, org, cutoff, dry)

(***************************************************************************)
(* Job runs, which belong to no organisation                                *)
(***************************************************************************)
MockInsertRun(t, run) == Push(t, run)

SqliteInsertRun(t, run) == SqlInsert(t, run)

PostgresInsertRun(t, run) == SqliteInsertRun(t, run)

MatchesRun(run, q) ==
  /\ \A k \in q.kind : run.kind = k
  /\ \A s \in q.status : run.status = s
  /\ InWindow(run, q)

SqliteRunFilters(run, q) == /\ \A k \in q.kind : run.kind = k
                            /\ \A s \in q.status : run.status = s
                            /\ InWindow(run, q)

PostgresRunFilters(run, q) == /\ \A k \in q.kind : run.kind = k
                              /\ \A s \in q.status : run.status = s
                              /\ InWindow(run, q)

MockQueryRuns(t, q) ==
  Ok(BuildPage(NewestFirst({r \in t : MatchesRun(r, q) /\ IsAfterCursor(r, q.cursor)}),
               q.limit))

SqliteQueryRuns(t, q) ==
  Ok(BuildPage(Newest({r \in t : SqliteRunFilters(r, q) /\ PushSqliteCursor(r, q.cursor)},
                      PageFetchLimit(q.limit)), q.limit))

PostgresQueryRuns(t, q) ==
  Ok(BuildPage(Newest({r \in t : PostgresRunFilters(r, q) /\ PushPostgresCursor(r, q.cursor)},
                      PageFetchLimit(q.limit)), q.limit))

MockDeleteRunsOlderThan(t, cutoff, dry) == Prune(t, Older(t, cutoff), dry)

SqliteDeleteRunsOlderThan(t, cutoff, dry) == Prune(t, Older(t, cutoff), dry)

PostgresDeleteRunsOlderThan(t, cutoff, dry) == SqliteDeleteRunsOlderThan(t, cutoff, dry)

(***************************************************************************)
(* Memory-usage snapshots                                                   *)
(***************************************************************************)
MockInsertSnapshot(t, s) == Push(t, s)

SqliteInsertSnapshot(t, s) == SqlInsert(t, s)

PostgresInsertSnapshot(t, s) == SqliteInsertSnapshot(t, s)

MockQuerySnapshots(t, q) ==
  Ok(BuildPage(NewestFirst({s \in t : /\ s.org = q.org
                                      /\ InWindow(s, q)
                                      /\ IsAfterCursor(s, q.cursor)}), q.limit))

SqliteQuerySnapshots(t, q) ==
  Ok(BuildPage(Newest({s \in t : /\ s.org = q.org
                                 /\ InWindow(s, q)
                                 /\ PushSqliteCursor(s, q.cursor)},
                      PageFetchLimit(q.limit)), q.limit))

PostgresQuerySnapshots(t, q) ==
  Ok(BuildPage(Newest({s \in t : /\ s.org = q.org
                                 /\ InWindow(s, q)
                                 /\ PushPostgresCursor(s, q.cursor)},
                      PageFetchLimit(q.limit)), q.limit))

(***************************************************************************)
(* API keys                                                                 *)
(***************************************************************************)
MockInsertApiKey(t, key) == Push(t, key)

\* Both the id and the hash are unique.
SqliteInsertApiKey(t, key) ==
  IF \E k \in t : k.id = key.id \/ k.hash = key.hash
  THEN Result(Err("StorageError"), t)
  ELSE Push(t, key)

PostgresInsertApiKey(t, key) == SqliteInsertApiKey(t, key)

MockFindByHash(t, hash) == Ok({k \in t : k.hash = hash /\ ~k.revoked})

SqliteFindByHash(t, hash) == Ok({k \in t : k.hash = hash /\ ~k.revoked})

PostgresFindByHash(t, hash) == SqliteFindByHash(t, hash)

Revoke(t, rows) ==
  IF rows = {} THEN Result(Err("NotFound"), t)
  ELSE Result(Ok("revoked"), (t \ rows) \cup {[k EXCEPT !.revoked = TRUE] : k \in rows})

MockRevokeApiKey(t, org, id) ==
  Revoke(t, {k \in t : k.id = id /\ k.org = org /\ ~k.revoked})

SqliteRevokeApiKey(t, org, id) ==
  Revoke(t, {k \in t : k.id = id /\ k.org = org /\ ~k.revoked})

PostgresRevokeApiKey(t, org, id) == SqliteRevokeApiKey(t, org, id)

MockListApiKeys(t, q) ==
  Ok(Newest({k \in t : /\ k.org = q.org
                       /\ q.revoked \/ ~k.revoked
                       /\ IsAfterCursor(k, q.cursor)}, PageFetchLimit(q.limit)))

SqliteListApiKeys(t, q) ==
  Ok(Newest({k \in t : /\ k.org = q.org
                       /\ q.revoked \/ ~k.revoked
                       /\ PushSqliteCursor(k, q.cursor)}, PageFetchLimit(q.limit)))

PostgresListApiKeys(t, q) ==
  Ok(Newest({k \in t : /\ k.org = q.org
                       /\ q.revoked \/ ~k.revoked
                       /\ PushPostgresCursor(k, q.cursor)}, PageFetchLimit(q.limit)))

(***************************************************************************)
(* Plans: one row per organisation, whose creation time survives updates.   *)
(***************************************************************************)
PlanOf(t, org) == {p \in t : p.org = org}

MockGetOrgPlan(t, org) == Ok(PlanOf(t, org))

SqliteGetOrgPlan(t, org) == Ok(PlanOf(t, org))

PostgresGetOrgPlan(t, org) == SqliteGetOrgPlan(t, org)

MockUpsertOrgPlan(t, plan) ==
  LET old == PlanOf(t, plan.org)
      new == IF old = {} THEN plan
             ELSE [plan EXCEPT !.created = (CHOOSE p \in old : TRUE).created]
  IN  Result(Ok(new), (t \ old) \cup {new})

\* INSERT ... ON CONFLICT DO UPDATE of all columns but created_at, then a SELECT.
SqliteUpsertOrgPlan(t, plan) ==
  LET old == PlanOf(t, plan.org)
      rows == IF old = {} THEN {plan} ELSE {[plan EXCEPT !.created = p.created] : p \in old}
  IN  Result(Ok(CHOOSE p \in rows : TRUE), (t \ old) \cup rows)

PostgresUpsertOrgPlan(t, plan) == SqliteUpsertOrgPlan(t, plan)

MockDeleteOrgPlan(t, org) == Result(Ok(PlanOf(t, org) # {}), t \ PlanOf(t, org))

SqliteDeleteOrgPlan(t, org) == Result(Ok(PlanOf(t, org) # {}), t \ PlanOf(t, org))

PostgresDeleteOrgPlan(t, org) == SqliteDeleteOrgPlan(t, org)
=============================================================================
