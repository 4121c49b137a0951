------------------------------ MODULE Reading ------------------------------
(***************************************************************************)
(* The engine's reading operations while others write: search_memory and   *)
(* build_context_uncached (without the cache, which is ContextCache), the  *)
(* export and the import of a user's data, and the counts of the admin     *)
(* snapshot and dashboard.  A request gives way at every await: between    *)
(* two of its reads other requests change rows, vectors, the attribution   *)
(* slot and the token slot.                                                *)
(*                                                                         *)
(* The writing operations are those of MemoryEngine; here is what a reader *)
(* can meet of one: the row changes, then its vectors go, then, after the  *)
(* call that embeds the content and another deletion, the new one comes.   *)
(* A drop of the request or a failure ends it between any two.             *)
(***************************************************************************)
EXTENDS Retrieval, ContextAssembly, UsageLog

CONSTANTS Request, Id, Query,
          OrgOf,         \* [Tenant -> organisation]
          Chars,         \* [Content -> characters]
          QueryChars,    \* [Query -> characters]
          Sim,           \* [Query -> [Content -> 0..100]], of the embeddings
          Match,         \* [Query -> contents that hold the text]
          Forbidden,     \* contents whose metadata an import refuses
          EXPORT_FACTS_LIMIT,
          Options,       \* what contexts are asked for with
          Parts,         \* what a provider may answer to summarize_memory
          Input,         \* what requests ask for
          Table,         \* initial tables
          MaxWork,       \* bound: requests begun
          MaxFaults      \* bound: failed calls and dropped requests

VARIABLES facts,       \* [Id -> NoFact or a row]
          vectors,     \* points of the vector store
          req,         \* [Request -> Idle or a running request]
          dumps,       \* exports that clients hold
          snapshots,   \* rows of memory_usage_snapshots, oldest first
          work, faults

Searches == {"search", "context"}
Admin == {"summary", "snapshot", "dashboard", "job"}
Jobs == {"job", "purge"}
Orgs == {OrgOf[t] : t \in Tenant}

NoFact == [st |-> "none"]
Row == [st : {"active", "deleted"}, t : Tenant, c : Content, age : Nat]
\* A point names the slot that wrote it in place of a fresh id: whoever takes
\* the slot next deletes the fact's points before it writes one.
Point == [f : Id, t : Tenant, c : Content, by : Request]
Item == [f : Id, c : Content, age : Nat]
Dump == [t : Tenant, facts : Seq(Item)]

\* What a request carries, by its operation.
Asked ==
  [op : Searches, t : Tenant, q : Query, types : SUBSET {TypeOf[c] : c \in Content},
   limit : Nat]
  \cup [op : {"export"}, t : Tenant, deleted : BOOLEAN]
  \cup [op : {"import"}, t : Tenant, dry : BOOLEAN]
  \cup [op : {"update", "delete"}, t : Tenant, f : Id, c : Content]
  \cup [op : Admin \ Jobs, t : Tenant, orgs : {<<o>> : o \in Orgs}]
  \cup [op : Jobs, t : Tenant, orgs : Seq(Orgs), cutoff : Nat]

ASSUME ReadingConstants ==
  /\ Id \subseteq Nat /\ IsFiniteSet(Id) /\ IsFiniteSet(Tenant)
  /\ NoTenant \notin Tenant
  /\ EXPORT_FACTS_LIMIT \in Nat
  /\ Sim \in [Query -> [Content -> 0..100]]
  /\ Input \subseteq Asked
  /\ \A table \in Table : /\ table.facts \in [Id -> Row \cup {NoFact}]
                          /\ table.vectors \subseteq Point
                          /\ IsFiniteSet(table.vectors)
                          /\ table.dumps \subseteq Dump

tables == <<facts, vectors, dumps, snapshots>>
vars == <<facts, vectors, req, dumps, snapshots, work, faults, usageVars>>

Idle == [pc |-> "idle"]

\* The rows and points of a tenant in the tables fs and vs.
ActiveIn(fs, t) == {f \in Id : fs[f].st = "active" /\ fs[f].t = t}
PointsIn(vs, t) == {v \in vs : v.t = t}

Active(t) == ActiveIn(facts, t)

\* count_facts_by_org and count_users_by_org.
CountFactsIn(fs, org) ==
  Cardinality(UNION {ActiveIn(fs, t) : t \in {u \in Tenant : OrgOf[u] = org}})
CountUsersIn(fs, org) ==
  Cardinality({t \in Tenant : OrgOf[t] = org /\ ActiveIn(fs, t) # {}})

CountFacts(org) == CountFactsIn(facts, org)
CountUsers(org) == CountUsersIn(facts, org)

\* The points of a fact, and the others.
PointsOf(vs, f, t) == {v \in vs : v.f = f /\ v.t = t}
Without(f, t) == vectors \ PointsOf(vectors, f, t)

\* The fact's only point says what its row says.
SoundIn(fs, vs, f) ==
  \E v \in vs : PointsOf(vs, f, fs[f].t) = {v} /\ v.c = fs[f].c
Sound(f) == SoundIn(facts, vectors, f)

-----------------------------------------------------------------------------
(* What a request has seen: history that only the properties read. *)

\* The request looks at the tables fs and vs.
Watch(q, fs, vs) ==
  LET t == q.in.t IN
  CASE q.pc = "idle" -> q
    [] q.pc # "idle" /\ q.in.op \in Searches ->
         [q EXCEPT !.live = @ \cup ActiveIn(fs, t),
                   !.near = @ \cup PointsIn(vs, t),
                   !.touched = @ \cup
                     {f \in Id : \/ fs[f] # facts[f]
                                 \/ PointsOf(vs, f, t) # PointsOf(vectors, f, t)}]
    [] q.pc # "idle" /\ q.in.op \in Admin ->
         [q EXCEPT !.live = @ \cup {<<o, CountFactsIn(fs, o)>> : o \in Orgs},
                   !.near = @ \cup {<<o, CountUsersIn(fs, o)>> : o \in Orgs}]
    [] OTHER -> q

\* r goes on as q, and the tables become fs and vs.
Step(r, q, fs, vs) ==
  /\ facts' = fs /\ vectors' = vs
  /\ req' = [s \in Request |-> Watch(IF s = r THEN q ELSE req[s], fs, vs)]

\* r goes on as q and has only read.
Look(r, q) ==
  /\ req' = [req EXCEPT ![r] = q]
  /\ UNCHANGED <<facts, vectors, dumps, snapshots>>

Quiet == UNCHANGED <<dumps, snapshots, work, faults, usageVars>>
Calm == UNCHANGED <<work, faults>>

-----------------------------------------------------------------------------
(* Begin and end. *)

\* Slots are only names: a request takes the first free one.
Free(r) == req[r].pc = "idle" /\ \A s \in Request : s < r => req[s].pc # "idle"

Started(in, pc) ==
  [pc |-> pc, in |-> in, ok |-> TRUE, hits |-> <<>>, rows |-> <<>>,
   todo |-> <<>>, got |-> {}, results |-> <<>>, asm |-> {}, opt |-> {},
   bad |-> {}, status |-> "running", events |-> {},
   live |-> {}, near |-> {}, touched |-> {},
   sound |-> {f \in Active(in.t) : Sound(f)},
   alone |-> \A s \in Request : req[s].pc = "idle"]

\* Others see that they are no longer alone.
Begun(r, q) ==
  /\ work < MaxWork /\ work' = work + 1 /\ Free(r)
  /\ req' = [s \in Request |->
               IF s = r THEN Watch(q, facts, vectors)
               ELSE IF req[s].pc = "idle" THEN req[s]
               ELSE [req[s] EXCEPT !.alone = FALSE]]
  /\ UNCHANGED <<facts, vectors, dumps, snapshots, faults>>

InputValid(in) ==
  IF in.op = "context" THEN MaxMemoriesValid(in.limit) ELSE LimitValid(in.limit)

\* search_memory and build_context name their tenant before anything else.
BeginSearch(r) ==
  \E in \in Input :
    /\ in.op \in Searches /\ InputValid(in)
    /\ Begun(r, Started(in, "embed"))
    /\ Bind(in.t)

\* A limit, a budget or compression options out of range are refused only
\* then.
RefuseSearch(t) ==
  /\ \/ \E in \in Input : in.op \in Searches /\ in.t = t /\ ~InputValid(in)
     \/ \E opt \in Options : ~OptionsValid(opt)
  /\ work < MaxWork /\ work' = work + 1
  /\ req' = [s \in Request |-> IF req[s].pc = "idle" THEN req[s]
                               ELSE [req[s] EXCEPT !.alone = FALSE]]
  /\ Bind(t)
  /\ UNCHANGED <<facts, vectors, dumps, snapshots, faults>>

Answered(q) == [q EXCEPT !.pc = "done"]

\* The caller has its answer.
Reply(r) ==
  /\ req[r].pc = "done"
  /\ req' = [req EXCEPT ![r] = Idle]
  /\ UNCHANGED tables /\ Calm /\ UNCHANGED usageVars

\* An await returns an error, or the connection closes and the future is
\* dropped there.
Fail(r) ==
  /\ req[r].pc \notin {"idle", "done"}
  /\ faults < MaxFaults /\ faults' = faults + 1
  /\ req' = [req EXCEPT ![r] = Idle]
  /\ UNCHANGED <<tables, work, usageVars>>

-----------------------------------------------------------------------------
(* Provider calls. *)

\* estimate_tokens_from_text.
EstimateUsage(chars) == IF chars = 0 THEN 1 ELSE EstimateTokens(chars)

\* What is embedded: the query, or the content of a memory.
EstimateEmbeddingTokens(q) ==
  EstimateUsage(CASE q.in.op \in Searches -> QueryChars[q.in.q]
                  [] q.in.op = "import" -> Chars[Head(q.todo).c]
                  [] OTHER -> Chars[q.in.c])

\* The skipped memories, and the answer as long as it may be.
EstimateSummarizationTokens(q) ==
  EstimateUsage(TotalChars(Mapped(q.asm.skipped, LAMBDA item : item.n)))
  + ProviderBudget(q.asm, q.opt)

\* The provider has answered; the tokens are in the slot.
EmbedText(r) ==
  /\ req[r].pc = "embed"
  /\ StoreTokens("embedding", EstimateEmbeddingTokens(req[r]))
  /\ Look(r, [req[r] EXCEPT !.pc = "record_embed", !.ok = TRUE])
  /\ Calm

SummarizeMemory(r) ==
  /\ req[r].pc = "summarize"
  /\ StoreTokens("summarization", EstimateSummarizationTokens(req[r]))
  /\ Look(r, [req[r] EXCEPT !.pc = "record_summary", !.ok = TRUE])
  /\ Calm

RecordAt == [embed |-> "record_embed", summarize |-> "record_summary"]

\* The call has failed: the process has one candidate per capability.
CallErrs(r) ==
  /\ req[r].pc \in DOMAIN RecordAt
  /\ faults < MaxFaults /\ faults' = faults + 1
  /\ Look(r, [req[r] EXCEPT !.pc = RecordAt[@], !.ok = FALSE])
  /\ UNCHANGED <<work, usageVars>>

AfterEmbed ==
  [search |-> "vectors", context |-> "vectors", import |-> "upsert",
   update |-> "upsert"]

\* record_usage of an embedding.
RecordEmbedding(r) ==
  LET q == req[r] IN
  /\ q.pc = "record_embed"
  /\ RecordUsage("embedding", q.ok)
  /\ Look(r, IF q.ok THEN [q EXCEPT !.pc = AfterEmbed[q.in.op],
                                    !.events = @ \cup {calls}]
                     ELSE Idle)
  /\ Calm

-----------------------------------------------------------------------------
(* search_memory. *)

TypeMatches(c, in) == in.types = {} \/ TypeOf[c] \in in.types

\* search_vectors: the most similar points; equals in any order.
SearchVectors(in) ==
  LET sim(v) == Sim[in.q][v.c]
      points == {v \in PointsIn(vectors, in.t) : TypeMatches(v.c, in)}
      sorted(s) == \A i, j \in DOMAIN s : i < j => sim(s[i]) >= sim(s[j])
      cut(s) == SubSeq(s, 1, Least(Len(s), InternalSearchLimit(in.limit)))
      hit(v) == [f |-> v.f, c |-> v.c, sim |-> sim(v)]
  IN  {Mapped(cut(s), hit) : s \in {p \in SetToSeqs(points) : sorted(p)}}

RowOf(f) == [f |-> f, c |-> facts[f].c, age |-> facts[f].age]

\* ORDER BY updated_at DESC, fact_id DESC.
NewerRow(x, y) == x.age < y.age \/ (x.age = y.age /\ x.f > y.f)

\* ... LIMIT.
Newest(rows, limit) ==
  LET sorted == Sorted(rows, {p \in rows \X rows : NewerRow(p[1], p[2])})
  IN  [i \in 1 .. Least(Cardinality(rows), limit) |-> sorted[i]]

\* search_facts with the query as text.
SearchFacts(in) ==
  Newest({RowOf(f) : f \in {g \in Active(in.t) : /\ facts[g].c \in Match[in.q]
                                                 /\ TypeMatches(facts[g].c, in)}},
         InternalSearchLimit(in.limit))

\* All rows are at hand: sort, cut and go on.
Ranked(q) ==
  [q EXCEPT !.pc = IF q.in.op = "search" THEN "done" ELSE "assemble",
            !.results = Rank(q.hits, q.rows, q.got, q.in.limit)]

FetchOrRank(q) == IF q.todo = <<>> THEN Ranked(q) ELSE [q EXCEPT !.pc = "fetch"]

Vectors(r) ==
  LET q == req[r] IN
  /\ q.pc = "vectors"
  /\ \E hits \in SearchVectors(q.in) :
       Look(r, [q EXCEPT !.pc = "keywords", !.hits = hits])
  /\ Calm /\ UNCHANGED usageVars

Keywords(r) ==
  LET q      == req[r]
      rows   == SearchFacts(q.in)
      absent == {f \in Found(q.hits, rows) : RankIn(rows, f) = 0}
  IN  /\ q.pc = "keywords"
      /\ Look(r, FetchOrRank(
           [q EXCEPT !.rows = rows, !.got = ToSet(rows),
                     !.todo = ReciprocalRankFusion(absent, q.hits, rows)]))
      /\ Calm /\ UNCHANGED usageVars

\* Mutant: the row is taken whoever owns it and whatever became of it.
GetFactAny(f, t) == IF facts[f].st = "none" THEN {} ELSE {RowOf(f)}

\* get_fact hides what is deleted and what belongs to others.
GetFact(f, t) == IF f \in Active(t) THEN {RowOf(f)} ELSE {}

\* A fact that only the vector store knew.
Fetch(r) ==
  LET q == req[r] IN
  /\ q.pc = "fetch"
  /\ Look(r, FetchOrRank([q EXCEPT !.todo = Tail(@),
                                   !.got = @ \cup GetFact(Head(q.todo), q.in.t)]))
  /\ Calm /\ UNCHANGED usageVars

-----------------------------------------------------------------------------
(* build_context_uncached, after the search. *)

ItemsOf(q) ==
  Mapped(q.results, LAMBDA x : [f |-> x.f, ty |-> x.ty, n |-> Chars[x.c]])

AssembledAs(q, opt, asm) ==
  [q EXCEPT !.opt = opt, !.asm = asm,
            !.pc = IF /\ opt.mode = "provider_summary" /\ asm.skipped # <<>>
                      /\ ProviderBudget(asm, opt) > 0
                   THEN "summarize" ELSE "done"]

Assemble(r) ==
  LET q == req[r] IN
  /\ q.pc = "assemble"
  /\ \E opt \in {o \in Options : OptionsValid(o)} :
       Look(r, AssembledAs(q, opt, AssembleContext(ItemsOf(q), opt)))
  /\ Calm /\ UNCHANGED usageVars

\* summarize_skipped_memories falls back to the extractive summary.
FallbackSummary(q) ==
  Compress(q.asm.skipped, ProviderBudget(q.asm, q.opt), q.opt)

\* record_usage of the summary, which then joins the context.
RecordSummary(r) ==
  LET q == req[r]
      end(summary, mode) ==
        [q EXCEPT !.pc = "done", !.events = @ \cup {calls},
                  !.asm = ApplyProviderSummary(q.asm, summary, mode, q.opt)]
  IN  /\ q.pc = "record_summary"
      /\ RecordUsage("summarization", q.ok)
      /\ IF q.ok
         THEN \E parts \in Parts :
                Look(r, end(WrapProviderSummary(parts, q.asm.skipped, q.opt),
                            "provider_summary"))
         ELSE Look(r, end(FallbackSummary(q), "simple_extractive"))
      /\ Calm

-----------------------------------------------------------------------------
(* export_user_data and import_user_data. *)

\* ExportFactItemResponse has no place for the deletion of a row.
ExportItem(f) == RowOf(f)

\* One read; what is deleted is exported like the rest when it is asked for.
Exported(in) ==
  [t |-> in.t,
   facts |-> Newest({ExportItem(f) : f \in {g \in Id :
                       /\ facts[g].st # "none" /\ facts[g].t = in.t
                       /\ in.deleted \/ facts[g].st = "active"}},
                    EXPORT_FACTS_LIMIT)]

Export(r) ==
  \E in \in Input :
    /\ in.op = "export"
    /\ work < MaxWork /\ work' = work + 1 /\ Free(r)
    /\ dumps' = dumps \cup {Exported(in)}
    /\ UNCHANGED <<facts, vectors, req, snapshots, faults, usageVars>>

\* contains_forbidden_secret_fields, of the metadata that come with a content.
ContainsForbidden(c) == c \in Forbidden

\* collect_fact_validation_issues; an exported fact is in range and not empty.
FactIssues(item) == IF ContainsForbidden(item.c) THEN {"metadata"} ELSE {}

\* collect_import_validation.
ImportValid(dump, t) ==
  dump.t = t /\ \A i \in DOMAIN dump.facts : FactIssues(dump.facts[i]) = {}

\* Fact::try_from and fact_for_import: what is imported is active.
FactForImport(item, t) ==
  [st |-> "active", t |-> t, c |-> item.c, age |-> item.age]

\* Mutant: the last fact of the export is left out.
NextFactButLast(q) ==
  [q EXCEPT !.pc = IF Len(q.todo) <= 1 THEN "done" ELSE "insert"]

NextFact(q) == [q EXCEPT !.pc = IF q.todo = <<>> THEN "done" ELSE "insert"]

\* dry_run_output: how many facts the import would bring.
DryRunOutput(in, dump) == IF ImportValid(dump, in.t) THEN Len(dump.facts) ELSE 0

\* An invalid import is an error, a dry run answers without a change.  Here an
\* import replaces; the append mode is in MemoryEngine.  rows counts what has
\* been imported.
ImportStart(in, dump) ==
  IF in.dry
  THEN [Started(in, "done") EXCEPT !.asm = dump, !.rows = <<DryRunOutput(in, dump)>>]
  ELSE [Started(in, "wipe_facts") EXCEPT !.asm = dump, !.rows = <<0>>,
                                         !.todo = dump.facts]

\* The attribution is left as it is.
BeginImport(r) ==
  \E in \in Input, dump \in dumps :
    /\ in.op = "import" /\ (in.dry \/ ImportValid(dump, in.t))
    /\ Begun(r, ImportStart(in, dump))
    /\ UNCHANGED usageVars

\* delete_user_data.
WipeFacts(r) ==
  LET q == req[r] IN
  /\ q.pc = "wipe_facts"
  /\ Step(r, [q EXCEPT !.pc = "wipe_vectors"],
          [f \in Id |-> IF facts[f].st # "none" /\ facts[f].t = q.in.t
                        THEN NoFact ELSE facts[f]],
          vectors)
  /\ Quiet

\* delete_by_user.
WipeVectors(r) ==
  LET q == req[r] IN
  /\ q.pc = "wipe_vectors"
  /\ Step(r, NextFact(q), facts, vectors \ PointsIn(vectors, q.in.t))
  /\ Quiet

\* resolve_import_fact_id keeps the id of a replacing import, whatever get_fact
\* has shown; insert_fact refuses an id that has a row, whoever owns it.
InsertFact(r) ==
  LET q == req[r]
      x == Head(q.todo)
  IN  /\ q.pc = "insert"
      /\ IF facts[x.f].st # "none"
         THEN Step(r, Idle, facts, vectors)
         ELSE Step(r, [q EXCEPT !.pc = "embed"],
                   [facts EXCEPT ![x.f] = FactForImport(x, q.in.t)], vectors)
      /\ Quiet

-----------------------------------------------------------------------------
(* What readers meet of the writing operations. *)

\* add_memory, of which the update of a known fact is the longest way, names
\* its tenant; delete_memory does not.
BeginWrite(r) ==
  \E in \in Input :
    /\ in.op \in {"update", "delete"}
    /\ Begun(r, Started(in, "row"))
    /\ IF in.op = "delete" THEN UNCHANGED usageVars ELSE Bind(in.t)

SoftDeleted(row) == [row EXCEPT !.st = "deleted"]

\* A row that is not there any more ends the request.
WriteRow(r) ==
  LET q  == req[r]
      in == q.in
      to(pc, new) == Step(r, [q EXCEPT !.pc = pc], [facts EXCEPT ![in.f] = new],
                          vectors)
  IN  /\ q.pc = "row"
      /\ IF in.op = "update" /\ in.f \in Active(in.t)
         THEN to("unpoint", [facts[in.f] EXCEPT !.c = in.c, !.age = 0])
         ELSE IF in.op = "delete" /\ in.f \in Active(in.t)
         THEN to("unpoint", SoftDeleted(facts[in.f]))
         ELSE Step(r, Idle, facts, vectors)
      /\ Quiet

\* delete_by_fact_id, of delete_memory and of replace_fact_vector, which embeds
\* the new content only then.
Unpoint(r) ==
  LET q == req[r] IN
  /\ q.pc = "unpoint"
  /\ Step(r, [q EXCEPT !.pc = IF q.in.op = "delete" THEN "done" ELSE "embed"],
          facts, Without(q.in.f, q.in.t))
  /\ Quiet

Embedded(q) ==
  IF q.in.op = "import" THEN Head(q.todo) ELSE [f |-> q.in.f, c |-> q.in.c]

\* upsert_vector deletes the points of the fact ...
UpsertDelete(r) ==
  LET q == req[r] IN
  /\ q.pc = "upsert"
  /\ Step(r, [q EXCEPT !.pc = "point"], facts, Without(Embedded(q).f, q.in.t))
  /\ Quiet

\* ... and inserts the new one.
UpsertPoint(r) ==
  LET q == req[r]
      x == Embedded(q)
  IN  /\ q.pc = "point"
      /\ Step(r, IF q.in.op = "import"
                 THEN NextFact([q EXCEPT !.todo = Tail(@), !.rows = <<@[1] + 1>>])
                 ELSE Answered(q),
              facts, vectors \cup {[f |-> x.f, t |-> q.in.t, c |-> x.c, by |-> r]})
      /\ Quiet

-----------------------------------------------------------------------------
(* get_org_summary, create_memory_usage_snapshot, get_org_usage_dashboard and *)
(* the background jobs that take a snapshot, or purge the usage log, of each   *)
(* configured organisation.                                                  *)

\* A job without organisations, or a retention of 0 days, is skipped.
AdminStart(in) ==
  IF in.op \in Jobs /\ (in.orgs = <<>> \/ in.cutoff = 0)
  THEN [Started(in, "done") EXCEPT !.status = "skipped"]
  ELSE [Started(in, IF in.op = "purge" THEN "match" ELSE "count_facts")
          EXCEPT !.todo = in.orgs]

BeginAdmin(r) ==
  \E in \in Input :
    /\ in.op \in Admin \cup Jobs
    /\ Begun(r, AdminStart(in))
    /\ UNCHANGED usageVars

AfterFacts == [summary |-> "count_users", snapshot |-> "count_users",
               job |-> "count_users", dashboard |-> "latest"]
AfterUsers == [summary |-> "done", snapshot |-> "keep", job |-> "keep",
               dashboard |-> "usage"]

ReadFacts(r) ==
  LET q == req[r] IN
  /\ q.pc = "count_facts"
  /\ Look(r, [q EXCEPT !.pc = AfterFacts[q.in.op],
                       !.rows = <<CountFacts(Head(q.todo))>>])
  /\ Calm /\ UNCHANGED usageVars

SnapshotsOf(org) == SelectSeq(snapshots, LAMBDA s : s.org = org)

\* latest_memory_usage_snapshot.
ReadLatest(r) ==
  LET q  == req[r]
      of == SnapshotsOf(Head(q.todo))
  IN  /\ q.pc = "latest"
      /\ Look(r, [q EXCEPT !.pc = "count_users",
                           !.hits = IF of = <<>> THEN <<>> ELSE <<Last(of)>>])
      /\ Calm /\ UNCHANGED usageVars

ReadUsers(r) ==
  LET q == req[r] IN
  /\ q.pc = "count_users"
  /\ Look(r, [q EXCEPT !.pc = AfterUsers[q.in.op],
                       !.rows = Append(@, CountUsers(Head(q.todo)))])
  /\ Calm /\ UNCHANGED usageVars

\* Mutant: any error that may be retried ends the run as one.
JobStatusEager(q) ==
  CASE q.bad = {} -> "succeeded"
    [] "retryable" \in q.bad -> "retry"
    [] OTHER -> "failed"

\* How run_once ends: an error, which the runner retries, only if no
\* organisation has been served.
JobStatus(q) ==
  CASE q.bad = {} -> "succeeded"
    [] q.results = <<>> /\ "retryable" \in q.bad -> "retry"
    [] OTHER -> "failed"

\* The next organisation of the job, or its end.
NextOrg(q) ==
  LET rest == [q EXCEPT !.todo = Tail(@)]
  IN  IF rest.todo = <<>> THEN [rest EXCEPT !.pc = "done", !.status = JobStatus(rest)]
                          ELSE [rest EXCEPT !.pc = AdminStart(q.in).pc]

Keep(r) ==
  LET q == req[r]
      s == [org |-> Head(q.todo), facts |-> q.rows[1], users |-> q.rows[2]]
  IN  /\ q.pc = "keep"
      /\ snapshots' = Append(snapshots, s)
      /\ req' = [req EXCEPT ![r] = NextOrg([q EXCEPT !.results = Append(@, s)])]
      /\ UNCHANGED <<facts, vectors, dumps, work, faults, usageVars>>

\* One organisation fails; the job goes on with the next.
JobOrgFails(r) ==
  LET q == req[r] IN
  /\ q.pc \in {"count_facts", "count_users", "keep", "match", "expire"}
  /\ q.in.op \in Jobs /\ faults < MaxFaults /\ faults' = faults + 1
  /\ \E error \in {"retryable", "final"} :
       Look(r, NextOrg([q EXCEPT !.bad = @ \cup {error}]))
  /\ UNCHANGED <<work, usageVars>>

\* Events are numbered as they happen: the cutoff is the first that is kept.
Expired(q) == {e \in persisted : OrgOf[e.t] = Head(q.todo) /\ e.id < q.in.cutoff}

\* apply_provider_usage_retention counts the rows and then deletes them.
MatchExpired(r) ==
  LET q == req[r] IN
  /\ q.pc = "match"
  /\ Look(r, [q EXCEPT !.pc = "expire", !.rows = <<Cardinality(Expired(q))>>])
  /\ Calm /\ UNCHANGED usageVars

DeleteExpired(r) ==
  LET q == req[r]
      s == [org |-> Head(q.todo), matched |-> q.rows[1],
            deleted |-> Cardinality(Expired(q))]
  IN  /\ q.pc = "expire"
      /\ Purge(Expired(q))
      /\ Look(r, NextOrg([q EXCEPT !.results = Append(@, s)]))
      /\ Calm

\* query_usage: the organisation's totals of stored events.
UsageOf(org) ==
  LET events == {e \in persisted : OrgOf[e.t] = org}
  IN  [requests |-> Cardinality(events),
       tokens |-> MapThenSumSet(LAMBDA e : e.tokens, events)]

ReadUsage(r) ==
  LET q == req[r] IN
  /\ q.pc = "usage"
  /\ Look(r, [q EXCEPT !.pc = "done", !.got = {UsageOf(Head(q.todo))}])
  /\ Calm /\ UNCHANGED usageVars

-----------------------------------------------------------------------------
(* The tasks that store usage events: they commute, and run in the order of   *)
(* their spawning.                                                           *)

Oldest == CHOOSE e \in pending : \A d \in pending : e.id <= d.id

PersistStores ==
  \E e \in pending :
    e = Oldest /\ Persist(e, TRUE) /\ UNCHANGED <<tables, req, work, faults>>

PersistFails ==
  \E e \in pending :
    /\ e = Oldest /\ faults < MaxFaults /\ faults' = faults + 1
    /\ Persist(e, FALSE) /\ UNCHANGED <<tables, req, work>>

Init ==
  /\ \E table \in Table : facts = table.facts /\ vectors = table.vectors
                          /\ dumps = table.dumps
  /\ req = [r \in Request |-> Idle]
  /\ snapshots = <<>> /\ work = 0 /\ faults = 0
  /\ UsageInit

Advance(r) ==
  \/ EmbedText(r) \/ SummarizeMemory(r) \/ RecordEmbedding(r)
  \/ Vectors(r) \/ Keywords(r) \/ Fetch(r) \/ Assemble(r) \/ RecordSummary(r)
  \/ WipeFacts(r) \/ WipeVectors(r) \/ InsertFact(r)
  \/ WriteRow(r) \/ Unpoint(r) \/ UpsertDelete(r) \/ UpsertPoint(r)
  \/ ReadFacts(r) \/ ReadLatest(r) \/ ReadUsers(r) \/ Keep(r) \/ ReadUsage(r)
  \/ MatchExpired(r) \/ DeleteExpired(r)
  \/ Reply(r)

Begin(r) ==
  BeginSearch(r) \/ BeginImport(r) \/ BeginWrite(r) \/ BeginAdmin(r) \/ Export(r)

Next ==
  \/ \E r \in Request : Begin(r) \/ Advance(r) \/ CallErrs(r) \/ Fail(r)
                            \/ JobOrgFails(r)
  \/ \E t \in Tenant : RefuseSearch(t)
  \/ PersistStores \/ PersistFails

Spec == Init /\ [][Next]_vars

-----------------------------------------------------------------------------
(* Properties. *)

\* How often x is in the sequence s.
Times(s, x) == Cardinality({i \in DOMAIN s : s[i] = x})

Running(r) == req[r].pc # "idle"
Finished(r, ops) == IF Running(r) THEN req[r].pc = "done" /\ req[r].in.op \in ops
                                  ELSE FALSE

Steps == {"embed", "record_embed", "vectors", "keywords", "fetch", "assemble",
          "summarize", "record_summary", "wipe_facts", "wipe_vectors", "insert",
          "row", "unpoint", "upsert", "point", "count_facts", "latest",
          "count_users", "keep", "usage", "match", "expire", "done"}

\* Rows, points, requests and the usage log are of their types.
TypeOK ==
  /\ facts \in [Id -> Row \cup {NoFact}] /\ vectors \subseteq Point
  /\ \A r \in Request : Running(r) => req[r].pc \in Steps /\ req[r].in \in Input
  /\ UsageTypeOK

\* A search shows only memories of its own user that were active at some time
\* while it ran, whatever points deleted or forgotten facts have left behind.
ResultsLive ==
  \A r \in Request : Finished(r, Searches) =>
    \A i \in DOMAIN req[r].results : req[r].results[i].f \in req[r].live

\* A memory whose row and point agreed and that nobody touched is shown with
\* the content and the type it has.
ResultsTrue ==
  \A r \in Request : Finished(r, Searches) =>
    \A i \in DOMAIN req[r].results :
      LET x == req[r].results[i] IN
      x.f \in req[r].sound \ req[r].touched =>
        x.c = facts[x.f].c /\ x.ty = TypeOf[facts[x.f].c]

\* If a search gives less than was asked for, although the user's points were
\* no more than twice the limit, nor than the cap, then no sound and untouched
\* memory of the wanted types is missing.
Recall ==
  \A r \in Request : Finished(r, Searches) =>
    LET q == req[r] IN
    /\ Len(q.results) < q.in.limit
    /\ Cardinality(q.near) <= 2 * q.in.limit
    /\ Cardinality(q.near) <= MAX_SEARCH_LIMIT
    => \A f \in q.sound \ q.touched :
         TypeMatches(facts[f].c, q.in) => \E i \in DOMAIN q.results :
                                            q.results[i].f = f

\* Fusion and the tie-breaks never put a memory before one that both sources
\* rank higher, and the cut to the limit drops none of those.
RankedWell ==
  \A r \in Request : Finished(r, Searches) =>
    WellRanked(req[r].hits, req[r].rows, req[r].got, req[r].results)

InContexts(P(_, _, _)) ==
  \A r \in Request : Finished(r, {"context"}) =>
    P(req[r].asm, ItemsOf(req[r]), req[r].opt)

\* Each memory found is in the context once, under its section and in rank
\* order, or is reported as skipped.
ContextWhole == InContexts(LAMBDA asm, items, opt : Whole(asm, items))

\* The text stays in the token budget, but for the message that nothing was
\* found, the separator of a merged summary and what a provider wrote.
ContextFits == InContexts(LAMBDA asm, items, opt : Fits(asm, opt))

\* No memory was skipped that would have fitted next to the included ones.
ContextFull == InContexts(LAMBDA asm, items, opt : Full(asm, opt))

\* The usage of a request that ran alone is booked to its caller, if it names
\* one at all before its calls.
BilledToCaller ==
  \A r \in Request :
    IF Running(r) THEN req[r].alone /\ req[r].in.op # "import" =>
                         \A e \in pending \cup persisted :
                           e.id \in req[r].events => e.t = req[r].in.t
                  ELSE TRUE

\* A dry run of an import promises the number of facts that the import then
\* reports, and a replacing import that ran alone leaves the user with exactly the exported
\* memories, under their ids and with one true point each, and nothing of
\* what was there before, soft-deleted rows included.
RoundTrip ==
  \A r \in Request : Finished(r, {"import"}) =>
    LET q == req[r]
        t == q.in.t
        want == ToSet(q.asm.facts)
    IN  /\ q.rows = <<DryRunOutput(q.in, q.asm)>>
        /\ q.alone /\ ~q.in.dry =>
          /\ {f \in Id : IF facts[f].st = "none" THEN FALSE ELSE facts[f].t = t}
               = {x.f : x \in want}
          /\ \A x \in want : x = RowOf(x.f) /\ x.f \in Active(t) /\ Sound(x.f)
          /\ {v.f : v \in PointsIn(vectors, t)} = {x.f : x \in want}

\* The numbers of a snapshot and of a dashboard were true, each at some time
\* while the request ran; the stored calls are never more than were counted.
CountsTruthful ==
  \A r \in Request : Finished(r, Admin) =>
    LET q == req[r] IN
    /\ \A i \in DOMAIN q.results :
         /\ <<q.results[i].org, q.results[i].facts>> \in q.live
         /\ <<q.results[i].org, q.results[i].users>> \in q.near
    /\ q.in.op \in {"summary", "dashboard"} =>
         /\ <<Head(q.todo), q.rows[1]>> \in q.live
         /\ <<Head(q.todo), q.rows[2]>> \in q.near
    /\ \A u \in q.got : u.requests <= Snapshot.requests

\* A job reports success exactly if it has served its organisations, each as
\* often as it is configured and in that order, and never serves one more
\* often; one that asks to be run again has served none, so that a retry
\* counts no organisation twice.  Its snapshots are stored, and a purge that
\* ran alone deleted what it had counted, besides what a late task stored
\* meanwhile.
JobHonest ==
  \A r \in Request : Finished(r, Jobs) =>
    LET q == req[r]
        served == [i \in DOMAIN q.results |-> q.results[i].org]
    IN  q.status # "skipped" =>
          /\ q.status = "succeeded" <=> served = q.in.orgs
          /\ q.status = "retry" => q.results = <<>>
          /\ \A o \in Orgs : Times(served, o) <= Times(q.in.orgs, o)
          /\ \A i \in DOMAIN q.results :
               IF q.in.op = "job"
               THEN \E j \in DOMAIN snapshots : snapshots[j] = q.results[i]
               ELSE q.results[i].deleted >= q.results[i].matched \/ ~q.alone

\* What a search answers while others write: live, true, complete and in order.
SearchSound == ResultsLive /\ ResultsTrue /\ Recall /\ RankedWell

\* What a context holds: every memory once or reported as skipped, within the
\* budget, and as much as fits.
ContextSound == ContextWhole /\ ContextFits /\ ContextFull

\* A dashboard's tokens of stored events are no more than were counted.
TokensReported ==
  \A r \in Request : Finished(r, Admin) =>
    \A u \in req[r].got : u.tokens <= Snapshot.tokens

\* The types, and no total of tokens, neither the recorder's nor the store's nor
\* one that a dashboard shows, exceeds what the successful calls used.
TokensTrue == TypeOK /\ TokensNotInvented /\ TokensReported

\* Where the usage of provider calls goes: each call is counted once and its
\* event is in one place, on the account of the caller if it ran alone.
UsageSound == UsageConserved /\ BilledToCaller

\* What summaries, dashboards, snapshots and jobs report.
AdminHonest == CountsTruthful /\ JobHonest
=============================================================================
