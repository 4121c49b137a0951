------------------------------- MODULE Stores -------------------------------
(***************************************************************************)
(* Each port of memcore-storage has several implementations.  This module   *)
(* runs all implementations of one port (`kind') through the same calls,    *)
(* while a client pages through a list of it.                               *)
(*                                                                         *)
(* A call is a record: `by', the tenant or organisation it is restricted    *)
(* to, and for each backend the answer and the table it leaves behind.      *)
(***************************************************************************)
EXTENDS FactStores, RecordStores, VectorStores

CONSTANTS
  Kinds,        \* the ports that are run, one per behaviour
  Org, User,
  Cutoffs,      \* of retention calls and time windows
  Limits,       \* page sizes clients ask for
  Queries,      \* what is asked of the stores
  FactRows, EventRows, UsageRows, RunRows, SnapshotRows, KeyRows, PlanRows,
  Points        \* what the calls write

\* The rows of the tables.  Names, texts and types are numbers like ids and times:
\* a name or a text is only compared, and users and points are sorted by theirs.
FactRow     == [id : Int, org : Org, user : User, type : Int, text : Int, time : Int]
EventRow    == [id : Int, org : Org, user : User, fact : Int, operation : STRING,
                text : Int, time : Int]
UsageRow    == [id : Int, org : Org, user : SUBSET User, provider : STRING,
                status : {"success", "error"}, marks : SUBSET STRING,
                tokens : SUBSET Nat, cost : SUBSET Nat, time : Int]
RunRow      == [id : Int, kind : STRING, status : STRING, time : Int]
SnapshotRow == [id : Int, org : Org, time : Int]
KeyRow      == [id : Int, org : Org, hash : Int, revoked : BOOLEAN, time : Int]
PlanRow     == [org : Org, tier : STRING, created : Int, updated : Int]
PointRow    == [id : Int, fact : Int, org : Org, user : User, type : Int, metadata : Int,
                length : Nat, score : Int]

ASSUME StoreConstants ==
  /\ User \subseteq Int /\ User # {}
  /\ Limits \subseteq Nat /\ Cutoffs \subseteq Int
  /\ DayLength \in Nat \ {0}
  /\ Kinds \subseteq {"facts", "events", "usage", "runs", "snapshots",
                      "keys", "plans", "vectors"}
  /\ FactRows \subseteq FactRow /\ EventRows \subseteq EventRow
  /\ UsageRows \subseteq UsageRow /\ RunRows \subseteq RunRow
  /\ SnapshotRows \subseteq SnapshotRow /\ KeyRows \subseteq KeyRow
  /\ PlanRows \subseteq PlanRow /\ Points \subseteq PointRow
  /\ \A q \in Queries : q.limit \in Nat \ {0}               \* as the ports' callers see to
  /\ \A u \in UsageRows : \A a, b \in u.tokens : a = b
  /\ \A k \in KeyRows : ~k.revoked
  /\ \A k, l \in KeyRows : k.hash = l.hash => k.id = l.id   \* digests of random keys

VARIABLES
  kind,     \* the port
  tables,   \* the table of each backend
  walk      \* the client that pages, or NoWalk

storeVars == <<kind, tables, walk>>

Tenant == [org : Org, user : User]
TenantOf(row) == [org |-> row.org, user |-> row.user]

NoWalk == [on |-> FALSE]

Backends(k) == IF k = "vectors" THEN {"mock", "qdrant", "lancedb"}
                                ELSE {"mock", "sqlite", "postgres"}

StoresInit ==
  /\ kind \in Kinds
  /\ tables = [b \in Backends(kind) |->
                 IF kind = "facts" /\ b = "mock" THEN MockFacts ELSE SqlFacts]
  /\ walk = NoWalk

Call(by, m, s, p) == [by |-> by, mock |-> m, sqlite |-> s, postgres |-> p]
VectorCall(by, m, q, l) == [by |-> by, mock |-> m, qdrant |-> q, lancedb |-> l]
ByTenant(tenant) == [org |-> {tenant.org}, user |-> {tenant.user}]
ByOrg(org) == [org |-> {org}, user |-> User]
Anyone == [org |-> Org, user |-> User]

(***************************************************************************)
(* The calls that write                                                     *)
(***************************************************************************)
InsertFacts ==
  {Call(ByTenant(n), MockInsertFact(tables.mock, n, f), SqliteInsertFact(tables.sqlite, n, f),
        PostgresInsertFact(tables.postgres, n, f)) : n \in Tenant, f \in FactRows}

\* The engine updates and deletes facts that get_fact has just returned, never one
\* that is already deleted (there the mock and the databases differ).
Live(id) == \A r \in tables.sqlite : r.fact.id = id => ~r.deleted

UpdateFacts ==
  {Call(ByTenant(n), MockUpdateFact(tables.mock, n, f), SqliteUpdateFact(tables.sqlite, n, f),
        PostgresUpdateFact(tables.postgres, n, f)) : n \in Tenant, f \in {g \in FactRows : Live(g.id)}}

SoftDeleteFacts ==
  {Call(ByTenant(n), MockSoftDeleteFact(tables.mock, n, i), SqliteSoftDeleteFact(tables.sqlite, n, i),
        PostgresSoftDeleteFact(tables.postgres, n, i))
     : n \in Tenant, i \in {j \in {f.id : f \in FactRows} : Live(j)}}

DeleteUsers ==
  {Call(ByTenant(n), MockDeleteUserData(tables.mock, n), SqliteDeleteUserData(tables.sqlite, n),
        PostgresDeleteUserData(tables.postgres, n)) : n \in Tenant}

PruneFacts(dry) ==
  {Call(ByTenant(n), MockDeleteFactsOlderThan(tables.mock, n, c, dry),
        SqliteDeleteFactsOlderThan(tables.sqlite, n, c, dry),
        PostgresDeleteFactsOlderThan(tables.postgres, n, c, dry)) : n \in Tenant, c \in Cutoffs}

\* Ids of records are fresh: a row is only written when its id is in no table.
Fresh(rows) == {r \in rows : ~HasId(tables.sqlite, r)}

RecordEvents ==
  {Call(ByTenant(n), MockRecordEvent(tables.mock, n, e), SqliteRecordEvent(tables.sqlite, n, e),
        PostgresRecordEvent(tables.postgres, n, e)) : n \in Tenant, e \in Fresh(EventRows)}

PruneEvents(dry) ==
  {Call(ByTenant(n), MockDeleteEventsOlderThan(tables.mock, n, c, dry),
        SqliteDeleteEventsOlderThan(tables.sqlite, n, c, dry),
        PostgresDeleteEventsOlderThan(tables.postgres, n, c, dry)) : n \in Tenant, c \in Cutoffs}

RecordUsages ==
  {Call(ByOrg(u.org), MockRecordUsage(tables.mock, u), SqliteRecordUsage(tables.sqlite, u),
        PostgresRecordUsage(tables.postgres, u)) : u \in Fresh(UsageRows)}

PruneUsage(dry) ==
  {Call(ByOrg(o), MockDeleteUsageOlderThan(tables.mock, o, c, dry),
        SqliteDeleteUsageOlderThan(tables.sqlite, o, c, dry),
        PostgresDeleteUsageOlderThan(tables.postgres, o, c, dry)) : o \in Org, c \in Cutoffs}

InsertRuns ==
  {Call(Anyone, MockInsertRun(tables.mock, r), SqliteInsertRun(tables.sqlite, r),
        PostgresInsertRun(tables.postgres, r)) : r \in Fresh(RunRows)}

PruneRuns(dry) ==
  {Call(Anyone, MockDeleteRunsOlderThan(tables.mock, c, dry),
        SqliteDeleteRunsOlderThan(tables.sqlite, c, dry),
        PostgresDeleteRunsOlderThan(tables.postgres, c, dry)) : c \in Cutoffs}

InsertSnapshots ==
  {Call(ByOrg(s.org), MockInsertSnapshot(tables.mock, s), SqliteInsertSnapshot(tables.sqlite, s),
        PostgresInsertSnapshot(tables.postgres, s)) : s \in Fresh(SnapshotRows)}

InsertKeys ==
  {Call(ByOrg(k.org), MockInsertApiKey(tables.mock, k), SqliteInsertApiKey(tables.sqlite, k),
        PostgresInsertApiKey(tables.postgres, k)) : k \in Fresh(KeyRows)}

RevokeKeys ==
  {Call(ByOrg(o), MockRevokeApiKey(tables.mock, o, k.id), SqliteRevokeApiKey(tables.sqlite, o, k.id),
        PostgresRevokeApiKey(tables.postgres, o, k.id)) : o \in Org, k \in KeyRows}

UpsertPlans ==
  {Call(ByOrg(p.org), MockUpsertOrgPlan(tables.mock, p), SqliteUpsertOrgPlan(tables.sqlite, p),
        PostgresUpsertOrgPlan(tables.postgres, p)) : p \in PlanRows}

DeletePlans ==
  {Call(ByOrg(o), MockDeleteOrgPlan(tables.mock, o), SqliteDeleteOrgPlan(tables.sqlite, o),
        PostgresDeleteOrgPlan(tables.postgres, o)) : o \in Org}

UpsertVectors ==
  {VectorCall(ByTenant(n), MockUpsertVector(tables.mock, n, p), QdrantUpsertVector(tables.qdrant, n, p),
              LanceUpsertVector(tables.lancedb, n, p)) : n \in Tenant, p \in {o \in Points : ~HasId(tables.mock, o)}}

DeleteVectors ==
  {VectorCall(ByTenant(n), MockDeleteByFactId(tables.mock, n, p.fact),
              QdrantDeleteByFactId(tables.qdrant, n, p.fact),
              LanceDeleteByFactId(tables.lancedb, n, p.fact)) : n \in Tenant, p \in Points}

DeleteUserVectors ==
  {VectorCall(ByTenant(n), MockDeleteByUser(tables.mock, n), QdrantDeleteByUser(tables.qdrant, n),
              LanceDeleteByUser(tables.lancedb, n)) : n \in Tenant}

Retention(dry) ==
  IF kind = "facts" THEN PruneFacts(dry)
  ELSE IF kind = "events" THEN PruneEvents(dry)
  ELSE IF kind = "usage" THEN PruneUsage(dry)
  ELSE IF kind = "runs" THEN PruneRuns(dry)
  ELSE {}

EveryWrite(P(_)) ==
  /\ \A c \in Retention(FALSE) : P(c)
  /\ kind = "facts" => /\ \A c \in InsertFacts \cup UpdateFacts : P(c)
                       /\ \A c \in SoftDeleteFacts \cup DeleteUsers : P(c)
  /\ kind = "events"    => \A c \in RecordEvents : P(c)
  /\ kind = "usage"     => \A c \in RecordUsages : P(c)
  /\ kind = "runs"      => \A c \in InsertRuns : P(c)
  /\ kind = "snapshots" => \A c \in InsertSnapshots : P(c)
  /\ kind = "keys"      => (\A c \in InsertKeys : P(c)) /\ (\A c \in RevokeKeys : P(c))
  /\ kind = "plans"     => (\A c \in UpsertPlans : P(c)) /\ (\A c \in DeletePlans : P(c))
  /\ kind = "vectors"   => \A c \in UpsertVectors \cup DeleteVectors \cup DeleteUserVectors : P(c)

(***************************************************************************)
(* The lists a client pages through, as SQLite answers them                 *)
(***************************************************************************)
Lists(k) ==
  CASE k = "facts"  -> {"memories", "users"}
    [] k = "events" -> {"events", "org_events"}
    [] k \in {"usage", "runs", "snapshots", "keys"} -> {k}
    [] OTHER -> {}

\* Every filter a query can have, as far as the list has it.
Query(tenant, limit, cursor) ==
  [tenant |-> tenant, org |-> tenant.org, user |-> {}, types |-> {}, text |-> {},
   fact |-> {}, operation |-> {}, provider |-> {}, kind |-> {}, status |-> {},
   after |-> {}, before |-> {}, deleted |-> FALSE, revoked |-> TRUE,
   limit |-> limit, cursor |-> cursor]

DefaultLimit == 50
MaxLimit == 100

Allowed == 1 .. MaxLimit
OrDefault(n) == IF n = 0 THEN DefaultLimit ELSE n

\* What a limit becomes: nothing if it is refused, with 0 read as the default or
\* refused like a limit that is too high.
ValidateListOrgUsersLimit(n)     == {n} \cap Allowed
NormalizeOrgUsersLimit(n)        == {OrDefault(n)} \cap Allowed
ValidateSearchOrgEventsLimit(n)  == {n} \cap Allowed
NormalizeOrgMemoryEventsLimit(n) == {n} \cap Allowed
NormalizeListLimit(n)            == {n} \cap Allowed
NormalizeMemoryEventListLimit(n) == {n} \cap Allowed
ListApiKeysLimit(n)              == {n} \cap Allowed
ValidateProviderUsageLimit(n)    == {OrDefault(n)} \cap Allowed
ValidateJobRunLimit(n)           == {OrDefault(n)} \cap Allowed
ValidateSnapshotLimit(n)         == {OrDefault(n)} \cap Allowed

\* The routes of the two lists of an organisation check the limit before the engine.
NormalizeLimit(list, n) ==
  CASE list = "memories"   -> NormalizeListLimit(n)
    [] list = "users"      -> UNION {NormalizeOrgUsersLimit(m) : m \in ValidateListOrgUsersLimit(n)}
    [] list = "events"     -> NormalizeMemoryEventListLimit(n)
    [] list = "org_events" -> UNION {NormalizeOrgMemoryEventsLimit(m) :
                                       m \in ValidateSearchOrgEventsLimit(n)}
    [] list = "keys"       -> ListApiKeysLimit(n)
    [] list = "usage"      -> ValidateProviderUsageLimit(n)
    [] list = "runs"       -> ValidateJobRunLimit(n)
    [] list = "snapshots"  -> ValidateSnapshotLimit(n)

\* The stores fetch limit + 1 rows; these five are cut into pages by their caller,
\* the other three by the store itself.
ListMemories(t, q)          == BuildPage(Value(SqliteSearchFacts(t, q)), q.limit)
ListOrgUsers(t, q)          == BuildPage(Value(SqliteListUsersByOrg(t, q)), q.limit)
ListMemoryEvents(t, q)      == BuildPage(Value(SqliteListEvents(t, q)), q.limit)
SearchOrgMemoryEvents(t, q) == BuildPage(Value(SqliteListEventsByOrg(t, q)), q.limit)
ListApiKeys(t, q)           == BuildPage(Value(SqliteListApiKeys(t, q)), q.limit)
GetProviderUsage(t, q)      == Value(SqliteQueryUsage(t, q)).page
GetJobRuns(t, q)            == Value(SqliteQueryRuns(t, q))
QueryMemoryUsageSnapshots(t, q) == Value(SqliteQuerySnapshots(t, q))

Page(list, q, t) ==
  CASE list = "memories"   -> ListMemories(t, q)
    [] list = "users"      -> ListOrgUsers(t, q)
    [] list = "events"     -> ListMemoryEvents(t, q)
    [] list = "org_events" -> SearchOrgMemoryEvents(t, q)
    [] list = "keys"       -> ListApiKeys(t, q)
    [] list = "usage"      -> GetProviderUsage(t, q)
    [] list = "runs"       -> GetJobRuns(t, q)
    [] list = "snapshots"  -> QueryMemoryUsageSnapshots(t, q)

\* All rows of the list, in one page that is long enough.
Everything(list, tenant, t) ==
  Range(Page(list, Query(tenant, Cardinality(t) + 1, NoCursor), t).items)

\* get_provider_usage_daily.
GetProviderUsageDaily(t, q) == Value(SqliteQueryUsageDaily(t, q))

\* apply_provider_usage_retention counts first and then deletes.  No cutoff stands
\* for a retention of 0 days, which keeps everything.
ApplyProviderUsageRetention(t, org, cutoff, dry) ==
  IF cutoff = {} THEN Result([matched |-> 0, deleted |-> 0], t)
  ELSE LET at     == CHOOSE c \in cutoff : TRUE
           count  == SqliteDeleteUsageOlderThan(t, org, at, TRUE)
           delete == SqliteDeleteUsageOlderThan(count.table, org, at, FALSE)
       IN  IF dry
           THEN Result([matched |-> Value(count.answer), deleted |-> 0], count.table)
           ELSE Result([matched |-> Value(count.answer), deleted |-> Value(delete.answer)],
                       delete.table)

(***************************************************************************)
(* Actions                                                                  *)
(***************************************************************************)
Commit(call) ==
  /\ tables' = [b \in DOMAIN tables |-> call[b].table]
  /\ walk' = IF walk.on
             THEN [walk EXCEPT !.stable = @ \cap
                     Everything(walk.list, walk.tenant, call.sqlite.table)]
             ELSE walk
  /\ UNCHANGED kind

InsertFact      == kind = "facts" /\ \E c \in InsertFacts : Commit(c)
UpdateFact      == kind = "facts" /\ \E c \in UpdateFacts : Commit(c)
SoftDeleteFact  == kind = "facts" /\ \E c \in SoftDeleteFacts : Commit(c)
DeleteUserData  == kind = "facts" /\ \E c \in DeleteUsers : Commit(c)
RecordEvent     == kind = "events" /\ \E c \in RecordEvents : Commit(c)
RecordUsage     == kind = "usage" /\ \E c \in RecordUsages : Commit(c)
InsertRun       == kind = "runs" /\ \E c \in InsertRuns : Commit(c)
InsertSnapshot  == kind = "snapshots" /\ \E c \in InsertSnapshots : Commit(c)
InsertApiKey    == kind = "keys" /\ \E c \in InsertKeys : Commit(c)
RevokeApiKey    == kind = "keys" /\ \E c \in RevokeKeys : Commit(c)
UpsertOrgPlan   == kind = "plans" /\ \E c \in UpsertPlans : Commit(c)
DeleteOrgPlan   == kind = "plans" /\ \E c \in DeletePlans : Commit(c)
UpsertVector    == kind = "vectors" /\ \E c \in UpsertVectors : Commit(c)
DeleteByFactId  == kind = "vectors" /\ \E c \in DeleteVectors : Commit(c)
DeleteByUser    == kind = "vectors" /\ \E c \in DeleteUserVectors : Commit(c)
ApplyRetention  == \E dry \in BOOLEAN : \E c \in Retention(dry) : Commit(c)

\* `stable' is a history of the rows that were in the list all the time.
StartWalk ==
  /\ ~walk.on
  /\ \E list \in Lists(kind), n \in Tenant, asked \in Limits :
     \E limit \in NormalizeLimit(list, asked) :
       walk' = [on |-> TRUE, list |-> list, tenant |-> n, limit |-> limit,
                cursor |-> NoCursor, done |-> FALSE, listed |-> {}, again |-> {},
                stable |-> Everything(list, n, tables.sqlite)]
  /\ UNCHANGED <<kind, tables>>

NextPage ==
  /\ walk.on
  /\ ~walk.done
  /\ LET page == Page(walk.list, Query(walk.tenant, walk.limit, walk.cursor), tables.sqlite)
         items == Range(page.items)
     IN  walk' = [walk EXCEPT !.cursor = page.next,
                              !.done = page.next = NoCursor,
                              !.listed = @ \cup items,
                              !.again = @ \cup (items \cap walk.listed)]
  /\ UNCHANGED <<kind, tables>>

EndWalk == walk.on /\ walk.done /\ walk' = NoWalk /\ UNCHANGED <<kind, tables>>

StoresNext ==
  \/ InsertFact \/ UpdateFact \/ SoftDeleteFact \/ DeleteUserData
  \/ RecordEvent \/ RecordUsage \/ InsertRun \/ InsertSnapshot
  \/ InsertApiKey \/ RevokeApiKey \/ UpsertOrgPlan \/ DeleteOrgPlan
  \/ UpsertVector \/ DeleteByFactId \/ DeleteByUser
  \/ ApplyRetention
  \/ StartWalk \/ NextPage \/ EndWalk

StoresSpec == StoresInit /\ [][StoresNext]_storeVars

(***************************************************************************)
(* Properties                                                               *)
(***************************************************************************)
Agree(a, b) == a.ok = b.ok

SameAnswers(c) == Agree(c.mock.answer, c.sqlite.answer) /\ Agree(c.sqlite.answer, c.postgres.answer)

\* The backends give the same answers to a query of this port, the mock unless the
\* query uses a feature in which it differs.
QueryAgrees(q) ==
  LET exact == q.text \cap Wildcards = {} /\ {} \notin q.types
      Same(m, s, p) == Agree(s, p) /\ (exact => Agree(m, s))
  IN
  /\ kind = "facts" =>
         /\ Same(MockSearchFacts(tables.mock, q), SqliteSearchFacts(tables.sqlite, q),
                 PostgresSearchFacts(tables.postgres, q))
         /\ \A f \in FactRows :
              Same(MockGetFact(tables.mock, q.tenant, f.id), SqliteGetFact(tables.sqlite, q.tenant, f.id),
                   PostgresGetFact(tables.postgres, q.tenant, f.id))
         /\ q.cursor = NoCursor =>
              Same(MockListUsersByOrg(tables.mock, q), SqliteListUsersByOrg(tables.sqlite, q),
                   PostgresListUsersByOrg(tables.postgres, q))
  /\ kind = "events" =>
         /\ Same(MockListEvents(tables.mock, q), SqliteListEvents(tables.sqlite, q),
                 PostgresListEvents(tables.postgres, q))
         /\ Same(MockListEventsByOrg(tables.mock, q), SqliteListEventsByOrg(tables.sqlite, q),
                 PostgresListEventsByOrg(tables.postgres, q))
         /\ Same(Ok(MockCountEventsByOrg(tables.mock, q.org)),
                 Ok(SqliteCountEventsByOrg(tables.sqlite, q.org)),
                 Ok(PostgresCountEventsByOrg(tables.postgres, q.org)))
  /\ kind = "usage" =>
         /\ Agree(MockQueryUsage(tables.mock, q), SqliteQueryUsage(tables.sqlite, q))
         /\ Same(MockQueryUsageDaily(tables.mock, q), SqliteQueryUsageDaily(tables.sqlite, q),
                 PostgresQueryUsageDaily(tables.postgres, q))
  /\ kind = "runs" =>
         Same(MockQueryRuns(tables.mock, q), SqliteQueryRuns(tables.sqlite, q),
              PostgresQueryRuns(tables.postgres, q))
  /\ kind = "snapshots" =>
         Same(MockQuerySnapshots(tables.mock, q), SqliteQuerySnapshots(tables.sqlite, q),
              PostgresQuerySnapshots(tables.postgres, q))
  /\ kind = "keys" =>
         /\ Same(MockListApiKeys(tables.mock, q), SqliteListApiKeys(tables.sqlite, q),
                 PostgresListApiKeys(tables.postgres, q))
         /\ \A k \in KeyRows :
              Same(MockFindByHash(tables.mock, k.hash), SqliteFindByHash(tables.sqlite, k.hash),
                   PostgresFindByHash(tables.postgres, k.hash))
  /\ kind = "plans" =>
         Same(MockGetOrgPlan(tables.mock, q.org), SqliteGetOrgPlan(tables.sqlite, q.org),
              PostgresGetOrgPlan(tables.postgres, q.org))

\* The tables of the databases are the same sets of rows, and so is what the mock
\* knows: its facts with a flag for the deleted ones.
MockRows == IF kind = "facts"
            THEN {[fact |-> f, deleted |-> f.id \in tables.mock.deleted] : f \in tables.mock.facts}
            ELSE tables.mock

\* The types of the variables; a table has one row for an id.
StoresTypeOK ==
  /\ kind \in Kinds
  /\ DOMAIN tables = Backends(kind)
  /\ kind = "facts" => \A r, s \in tables.sqlite : r.fact.id = s.fact.id => r = s
  /\ kind \in {"events", "usage", "runs", "snapshots", "keys"} =>
       \A b \in DOMAIN tables : \A r, s \in tables[b] : r.id = s.id => r = s
  /\ walk.on \in BOOLEAN
  /\ walk.on => /\ walk.list \in Lists(kind)
                /\ walk.tenant \in Tenant
                /\ walk.limit \in 1 .. MaxLimit
                /\ walk.done \in BOOLEAN
                /\ walk.again \subseteq walk.listed

\* Whatever has been called before, a write succeeds on all backends or on none and
\* answers the same, and so does every query, unless it uses one of the features in
\* which the mock differs: keywords with % or _ and an empty list of types.  (The
\* answers do not depend on the walk.)  Tests run against the mocks say something of
\* the databases as far as this holds.
RowsAgree ==
  kind # "vectors" /\ ~walk.on =>
    /\ EveryWrite(SameAnswers)
    /\ \A c \in Retention(TRUE) : SameAnswers(c)
    /\ \A q \in Queries : QueryAgrees(q)
    /\ MockRows = tables.sqlite

\* A vector database finds a fact once, and only the tenant's; the mock finds the
\* same points too, beside earlier ones of the same facts.
SearchesMatch ==
  kind = "vectors" =>
    \A n \in Tenant, l \in Limits \cap (1 .. MaxLimit), types \in {{}, {{}}, {{1}}} :
      LET q == [tenant |-> n, types |-> types, metadata |-> {}, limit |-> l, length |-> Dimensions]
          wide == [q EXCEPT !.types = {}, !.limit = Cardinality(tables.mock)]
          known == Range(Value(MockSearchVectors(tables.mock, wide)))
      IN  \A found \in {Value(QdrantSearchVectors(tables.qdrant, q)),
                        Value(LanceSearchVectors(tables.lancedb, q))} :
            /\ Len(found) <= l
            /\ Range(found) \subseteq known
            /\ \A i, j \in DOMAIN found : found[i].fact = found[j].fact => i = j

\* Every backend of a port answers a call as the others do: rows and vectors.
AnswersAgree == RowsAgree /\ SearchesMatch

\* A client that follows next_cursor to the end sees every row that was in the list
\* and did not change in the meantime, and sees it once, whatever is inserted,
\* updated or deleted between two pages.
PagesComplete ==
  walk.on => /\ walk.stable \cap walk.again = {}
             /\ walk.done => walk.stable \subseteq walk.listed

\* The totals that come with a page of provider usage are those of all pages, and
\* the daily buckets of the same filters add up to them.
TotalsMatch ==
  kind = "usage" /\ ~walk.on =>
    \A q \in {p \in Queries : p.user = {}} :
      LET all == {u \in tables.sqlite : MatchesUsage(u, q)}
          summary == Value(SqliteQueryUsage(tables.sqlite, q)).summary
          days == GetProviderUsageDaily(tables.sqlite, q)
      IN  /\ summary.requests = Cardinality(all)
          /\ summary.requests = summary.successes + summary.errors
          /\ Total([i \in DOMAIN days |-> days[i].totals.requests]) = summary.requests
          /\ Total([i \in DOMAIN days |-> days[i].totals.tokens]) = summary.tokens
          /\ \A i, j \in DOMAIN days : i < j => days[i].date < days[j].date

\* The numbers the quota and the dashboard use agree with the list of users: its
\* counts add up to the organisation's facts, and it has as many rows as users.
CountsMatch ==
  kind = "facts" =>
    \A org \in Org :
      LET q == [org |-> org, limit |-> Cardinality(tables.sqlite), cursor |-> NoCursor]
          users == Value(SqliteListUsersByOrg(tables.sqlite, q))
      IN  /\ Total([i \in DOMAIN users |-> users[i].count])
               = SqliteCountFactsByOrg(tables.sqlite, org)
          /\ Len(users) = SqliteCountUsersByOrg(tables.sqlite, org)
          /\ \A i \in DOMAIN users :
               users[i].count = SqliteCountFactsByUser(tables.sqlite, [org |-> org, user |-> users[i].id])
          /\ MockCountFactsByOrg(tables.mock, org) = PostgresCountFactsByOrg(tables.postgres, org)
          /\ MockCountUsersByOrg(tables.mock, org) = PostgresCountUsersByOrg(tables.postgres, org)
          /\ \A n \in Tenant :
               MockCountFactsByUser(tables.mock, n) = PostgresCountFactsByUser(tables.postgres, n)

\* What retention takes away.
Listable(t) == IF kind = "facts" THEN Active(t) ELSE t

\* A dry run of retention changes nothing and tells how many rows the real run
\* then takes away from what can be listed; the usage retention of the engine
\* reports what it has deleted, and repeating it finds nothing.
DryRunHonest ==
  kind # "vectors" /\ ~walk.on =>
    /\ \A c \in Retention(TRUE) : \A b \in DOMAIN tables : c[b].table = tables[b]
    /\ \A c \in Retention(FALSE) :
         LET count == IF kind = "facts" THEN Value(c.sqlite.answer).count ELSE Value(c.sqlite.answer)
         IN  /\ Cardinality(Listable(tables.sqlite)) - Cardinality(Listable(c.sqlite.table)) = count
             /\ \E d \in Retention(TRUE) :
                  /\ d.by = c.by
                  /\ IF kind = "facts" THEN Value(d.sqlite.answer).count = count
                                       ELSE Value(d.sqlite.answer) = count
    /\ kind = "usage" =>
         \A org \in Org, cutoff \in {{}} \cup {{c} : c \in Cutoffs} :
           LET dry  == ApplyProviderUsageRetention(tables.sqlite, org, cutoff, TRUE)
               real == ApplyProviderUsageRetention(tables.sqlite, org, cutoff, FALSE)
           IN  /\ dry.table = tables.sqlite
               /\ real.answer = [matched |-> dry.answer.matched,
                                 deleted |-> dry.answer.matched]
               /\ Cardinality(real.table) = Cardinality(tables.sqlite) - real.answer.deleted
               /\ ApplyProviderUsageRetention(real.table, org, cutoff, FALSE).answer
                    = [matched |-> 0, deleted |-> 0]

\* The rows of everybody but the caller; a key belongs to no user.
Foreign(by, r) ==
  IF kind = "keys" THEN r.org \notin by.org
  ELSE IF kind = "facts" THEN r.fact.org \notin by.org \/ r.fact.user \notin by.user
  ELSE r.org \notin by.org \/ r.user \notin by.user

Apart(c) ==
  \A b \in DOMAIN tables \ {"mock"} :
    {r \in c[b].table : Foreign(c.by, r)} = {r \in tables[b] : Foreign(c.by, r)}

\* A call of a tenant leaves the rows of everybody else as they are.
TenantsIsolated ==
  kind \in {"facts", "events", "keys", "vectors"} /\ ~walk.on =>
    EveryWrite(Apart)

\* A fact has one point in Qdrant and LanceDB, however often it is embedded again,
\* and a refused upsert leaves Qdrant's as it was.  (LanceDB has already deleted it.)
OneVectorPerFact ==
  kind = "vectors" =>
    /\ \A b \in {"qdrant", "lancedb"} : \A p, q \in tables[b] :
         p.fact = q.fact /\ TenantOf(p) = TenantOf(q) => p = q
    /\ \A c \in UpsertVectors : c.qdrant.answer.ok = {} => c.qdrant.table = tables.qdrant

\* Whoever lists the users of an organisation can follow the cursor on every
\* backend.  Postgres refuses every page but the first.
UsersPagesContinue ==
  kind = "facts" =>
    \A org \in Org, asked \in Limits : \A limit \in NormalizeOrgUsersLimit(asked) :
      LET q == [org |-> org, limit |-> limit, cursor |-> NoCursor]
          next == BuildPage(Value(PostgresListUsersByOrg(tables.postgres, q)), limit).next
      IN  next # NoCursor => PostgresListUsersByOrg(tables.postgres, [q EXCEPT !.cursor = next]).ok # {}

\* Every number the program reports of its rows (totals, counts, daily buckets,
\* dry runs) agrees with the rows, whatever has been called before.
SummariesMatch == TotalsMatch /\ CountsMatch /\ DryRunHonest

\* What a call leaves in the tables: one row for an id, one point for a fact, and
\* the rows of all other tenants as they were.
TablesSound == StoresTypeOK /\ TenantsIsolated /\ OneVectorPerFact
=============================================================================
