---------------------------- MODULE MemoryEngine ----------------------------
(***************************************************************************)
(* The writing operations of MemoryEngine for one user, over the SQLite    *)
(* FactStore and the Qdrant VectorStore: add_memory with the lifecycle     *)
(* executor, delete_memory, apply_retention, forget_user, import_user_data *)
(* and the invalidation of the context cache that ends them.               *)
(*                                                                         *)
(* Requests run at the same time.  There is no transaction and no lock: an *)
(* operation is one step per awaited statement of a store, `pc' names the  *)
(* statement a request does next, and any of them may fail or be the one   *)
(* at which the request's future is dropped.  Contents are only compared,  *)
(* so a content is the class of the texts, with their memory type, that    *)
(* deduplication takes for one.                                            *)
(* Audit events are written best effort and left out.                      *)
(***************************************************************************)
EXTENDS Integers, Sequences, FiniteSets

CONSTANTS Request,
          Id,              \* fact ids; NewId and those above are fresh UUIDs
          NewId,
          Content,
          TypeOf,          \* [Content -> the memory type it has]
          DEDUP_SEARCH_LIMIT,
          Stored,          \* the fact tables to start from
          Exported,        \* the facts that exports may carry
          MaxItems,        \* bound on the candidates or facts of a request
          MaxWork,         \* bound on the items of a behaviour
          MaxFaults        \* bound on the failures of a behaviour

NoId   == 0
NoFact == [st |-> "none"]
Fact   == [st : {"active", "deleted"}, c : Content, old : BOOLEAN]

ASSUME EngineConstants ==
  /\ Id \subseteq Nat \ {NoId} /\ IsFiniteSet(Id)
  /\ NewId \in Nat /\ MaxItems \in Nat /\ MaxWork \in Nat /\ MaxFaults \in Nat
  /\ NewId .. NewId + MaxWork - 1 \subseteq Id
  /\ DEDUP_SEARCH_LIMIT \in Nat \ {0}
  /\ Exported \subseteq [id : {f \in Id : f < NewId}, c : Content,
                         old : BOOLEAN]

ASSUME StoredTables ==
  \A table \in Stored :
    /\ table \in [Id -> {NoFact} \cup Fact]
    /\ \A f \in Id : f >= NewId => table[f] = NoFact

VARIABLES facts,      \* the facts table: [Id -> Fact or NoFact]
          vectors,    \* the points of the collection
          op,         \* [Request -> its operation]
          newId,      \* the next UUID
          work,       \* items given out so far
          faults,     \* failures so far
          stale,      \* history: facts changed since the last invalidation
          excused,    \* history: since then, a request that wrote has failed
          tainted,    \* history: facts of a failed request, or of two at once
          shared      \* history: contents of an import, of two at once, or
                      \* found new while the limit hid them

storeVars == <<facts, vectors>>
cacheVars == <<stale, excused>>
boundVars == <<newId, work, faults>>
vars == <<storeVars, op, boundVars, cacheVars, tainted, shared>>

Vector == [fact : Id, c : Content]
Kind   == {"add", "delete", "retain", "forget", "append", "replace"}
Item   == [c : Content] \cup Exported \cup [id : Id]
Pc == {"idle", "dedup", "embedding_dedup", "classify", "insert_fact",
       "upsert_delete", "upsert_point", "get_fact", "update_fact",
       "soft_delete", "count_vectors", "delete_vectors", "select_old",
       "prune_old", "delete_user_data", "delete_by_user", "import_get",
       "events", "invalidate"}

\* act: what apply_fact_operation does for the candidate at hand; f: the fact
\* at hand; wrote: has the request changed a fact (the summary's counts, or
\* facts_deleted).
Op == [kind : Kind, pc : Pc, todo : Seq(Item),
       act : {"", "add", "update", "delete"}, f : Id \cup {NoId},
       wrote : BOOLEAN]

Idle == [kind |-> "add", pc |-> "idle", todo |-> <<>>, act |-> "",
         f |-> NoId, wrote |-> FALSE]

Active(f) == facts[f].st = "active"
VectorsOf(f) == {v \in vectors : v.fact = f}
Running(r) == op[r].pc # "idle"

\* Contents in the table twice, from what happened before.
StoredTwice ==
  {c \in Content : \E e, f \in Id : /\ e # f /\ Active(e) /\ Active(f)
                                   /\ facts[e].c = c /\ facts[f].c = c}

Init ==
  /\ facts \in Stored
  /\ vectors = {[fact |-> f, c |-> facts[f].c] : f \in {e \in Id : Active(e)}}
  /\ op = [r \in Request |-> Idle]
  /\ newId = NewId /\ work = 0 /\ faults = 0
  /\ stale = FALSE /\ excused = FALSE
  /\ tainted = {} /\ shared = StoredTwice

-----------------------------------------------------------------------------
(* What a lookup for deduplication lists: ORDER BY updated_at DESC, LIMIT. *)

OfType(t) == {f \in Id : Active(f) /\ TypeOf[facts[f].c] = t}

\* Every row before the retention cutoff comes after every other.
MayPrecede(g, f) == facts[g].old => facts[f].old

\* Mutant: ORDER BY updated_at, the oldest first.
OldestListed(t) ==
  {S \in SUBSET OfType(t) :
     /\ Cardinality(S) <= DEDUP_SEARCH_LIMIT
     /\ \A f \in OfType(t) \ S : /\ Cardinality(S) = DEDUP_SEARCH_LIMIT
                                /\ \A g \in S : MayPrecede(f, g)}

\* What find_existing_facts_for_dedup may load: everything, or as many as the
\* limit allows.
Listed(t) ==
  {S \in SUBSET OfType(t) :
     /\ Cardinality(S) <= DEDUP_SEARCH_LIMIT
     /\ \A f \in OfType(t) \ S : /\ Cardinality(S) = DEDUP_SEARCH_LIMIT
                                /\ \A g \in S : MayPrecede(g, f)}

-----------------------------------------------------------------------------
(* History. *)

\* The facts that a request is at work on.
Held(r) ==
  LET o == op[r]
      listed == {o.todo[i].id : i \in DOMAIN o.todo}
  IN  CASE o.pc = "idle" -> {}
        [] o.pc \in {"delete_user_data", "delete_by_user"} -> Id
        [] o.kind = "retain" ->
             listed \cup (IF o.pc = "prune_old"
                          THEN {f \in Id : Active(f) /\ facts[f].old} ELSE {})
        [] OTHER -> {o.f} \ {NoId}

\* A fact's row and its points are being changed, one after the other.
Midway(r) == op[r].pc \in {"count_vectors", "delete_vectors", "upsert_delete",
                           "upsert_point", "delete_by_user"}

\* The contents that a request has found new and not yet written.
Claimed(r) ==
  IF /\ op[r].pc \in {"embedding_dedup", "classify", "insert_fact", "get_fact",
                      "update_fact"}
     /\ op[r].kind = "add"
  THEN {Head(op[r].todo).c} ELSE {}

Imported(r) ==
  IF op[r].kind \in {"append", "replace"}
  THEN {op[r].todo[i].c : i \in DOMAIN op[r].todo} ELSE {}

Clashing ==
  {f \in Id : \E q, r \in Request : q # r /\ f \in Held(q) \cap Held(r)}

\* A fact with this content may lie beyond the limit.
Hidden(c) ==
  \E f \in Id :
    /\ Active(f) /\ facts[f].c = c
    /\ Cardinality({g \in OfType(TypeOf[c]) \ {f} : MayPrecede(g, f)}) >=
         DEDUP_SEARCH_LIMIT

Contested ==
  {c \in Content :
     \/ \E r \in Request : c \in Imported(r) \/ (c \in Claimed(r) /\ Hidden(c))
     \/ \E q, r \in Request : q # r /\ c \in Claimed(q) \cap Claimed(r)}

Noted(damaged) ==
  /\ tainted' = tainted \cup Clashing' \cup damaged
  /\ shared' = shared \cup Contested'

-----------------------------------------------------------------------------
(* How an operation goes on. *)

To(r, pc) == op' = [op EXCEPT ![r].pc = pc]

\* The loop of an operation: its next item, or what follows the last one.
\* import_user_data always invalidates; add_memory and apply_retention only
\* when they counted a change.
Turn(o) ==
  IF o.todo # <<>>
  THEN CASE o.kind = "add"    -> [o EXCEPT !.pc = "dedup"]
         [] o.kind = "retain" -> [o EXCEPT !.pc = "count_vectors",
                                           !.f = Head(o.todo).id]
         [] OTHER             -> [o EXCEPT !.pc = "import_get"]
  ELSE CASE o.kind = "add"    -> IF o.wrote THEN [o EXCEPT !.pc = "invalidate"]
                                            ELSE Idle
         [] OTHER             -> [o EXCEPT !.pc = "events"]

NextItem(o) == Turn([o EXCEPT !.todo = Tail(@), !.act = "", !.f = NoId])

\* An error reply: the `?' returns before the invalidation.
Err(r) ==
  /\ op' = [op EXCEPT ![r] = Idle]
  /\ excused' = (excused \/ op[r].wrote)
  /\ UNCHANGED <<storeVars, boundVars, stale>>
  /\ Noted({})

\* A step that reads, or writes vectors only.
Quiet ==
  /\ UNCHANGED <<facts, boundVars, cacheVars>>
  /\ Noted({})

\* The request changes the table and goes on as o.
Change(r, table, o) ==
  /\ facts' = table
  /\ op' = [op EXCEPT ![r] = [o EXCEPT !.wrote = TRUE]]
  /\ stale' = TRUE
  /\ UNCHANGED <<vectors, boundVars, excused>>
  /\ Noted({})

Begin(r, cost, o) ==
  /\ ~Running(r)
  /\ work + cost <= MaxWork
  /\ work' = work + cost
  /\ op' = [op EXCEPT ![r] = o]
  /\ UNCHANGED <<storeVars, newId, faults, cacheVars>>
  /\ Noted({})

Items(S) == UNION {[1..n -> S] : n \in 1..MaxItems}

-----------------------------------------------------------------------------
(* The operations begin. *)

\* add_memory, up to what extract_facts returned.
AddMemory(r) ==
  \E todo \in Items([c : Content]) :
    Begin(r, Len(todo), Turn([Idle EXCEPT !.todo = todo]))

DeleteMemory(r) ==
  \E f \in Id :
    /\ f < newId
    /\ Begin(r, 1, [Idle EXCEPT !.kind = "delete", !.pc = "get_fact", !.f = f])

\* Not a dry run, and the policy is enabled.
ApplyRetention(r) ==
  Begin(r, 1, [Idle EXCEPT !.kind = "retain", !.pc = "select_old"])

ForgetUser(r) ==
  Begin(r, 1, [Idle EXCEPT !.kind = "forget", !.pc = "delete_user_data"])

\* A valid export, not a dry run.
ImportUserData(r) ==
  \E todo \in Items(Exported) :
    \/ Begin(r, Len(todo), [Idle EXCEPT !.kind = "replace", !.todo = todo,
                                        !.pc = "delete_user_data"])
    \/ Begin(r, Len(todo), Turn([Idle EXCEPT !.kind = "append", !.todo = todo]))

-----------------------------------------------------------------------------
(* add_memory: one candidate. *)

\* validate_candidate fails.
CandidateInvalid(r) == op[r].pc = "dedup" /\ Err(r)

\* What detect_duplicate finds among the facts that were loaded.
Known(c, S) == \E f \in S : facts[f].c = c

\* A duplicate, or a candidate below the importance threshold, is a no-op.
Dedup(r) ==
  /\ op[r].pc = "dedup"
  /\ \/ op' = [op EXCEPT ![r] = NextItem(@)]
     \/ LET c == Head(op[r].todo).c IN
        /\ \E S \in Listed(TypeOf[c]) : ~Known(c, S)
        /\ To(r, "embedding_dedup")
  /\ UNCHANGED vectors
  /\ Quiet

\* detect_embedding_duplicate asks the vectors alone, those that have lost
\* their fact included; any of them may be near enough.
MayBeNear == vectors # {}

\* embed_text, then the vectors decide.
EmbeddingDedup(r) ==
  /\ op[r].pc = "embedding_dedup"
  /\ \/ MayBeNear /\ op' = [op EXCEPT ![r] = NextItem(@)]
     \/ To(r, "classify")
  /\ UNCHANGED vectors
  /\ Quiet

ApplyFactOperation(r, act, f) ==
  op' = [op EXCEPT ![r].pc = IF act = "add" THEN "insert_fact" ELSE "get_fact",
                   ![r].act = act, ![r].f = f]

\* find_related_facts, then the provider decides.  It may name any fact as the
\* target.
Classify(r) ==
  /\ op[r].pc = "classify"
  /\ \/ op' = [op EXCEPT ![r] = NextItem(@)]
        /\ UNCHANGED newId
     \/ /\ newId \in Id
        /\ ApplyFactOperation(r, "add", newId)
        /\ newId' = newId + 1
     \/ \E f \in Id, act \in {"update", "delete"} :
          /\ f < newId
          /\ ApplyFactOperation(r, act, f)
          /\ UNCHANGED newId
  /\ UNCHANGED <<storeVars, work, faults, cacheVars>>
  /\ Noted({})

\* normalize_operation: an update or a deletion without a target.
DecisionInvalid(r) == op[r].pc = "classify" /\ Err(r)

-----------------------------------------------------------------------------
(* The statements of the fact store. *)

CandidateToFact(candidate) ==
  [st |-> "active", c |-> candidate.c, old |-> FALSE]
FactForImport(exported) ==
  [st |-> "active", c |-> exported.c, old |-> exported.old]
\* updated_at becomes now.
MergeCandidateIntoFact(fact, candidate) ==
  [fact EXCEPT !.c = candidate.c, !.old = FALSE]

\* get_fact hides soft-deleted facts.
GetFact(r) ==
  /\ op[r].pc = "get_fact"
  /\ IF Active(op[r].f)
     THEN /\ To(r, IF op[r].act = "update" THEN "update_fact"
                                           ELSE "soft_delete")
          /\ UNCHANGED vectors
          /\ Quiet
     ELSE Err(r)

\* Mutant: INSERT OR REPLACE, which writes deleted_at as NULL.
ReplaceFact(r) ==
  LET o == op[r] IN
  /\ o.pc = "update_fact"
  /\ Change(r, [facts EXCEPT ![o.f] = CandidateToFact(Head(o.todo))],
            [o EXCEPT !.pc = "count_vectors"])

\* WHERE deleted_at IS NULL.
UpdateFact(r) ==
  LET o == op[r] IN
  /\ o.pc = "update_fact"
  /\ IF Active(o.f)
     THEN Change(r, [facts EXCEPT ![o.f] =
                       MergeCandidateIntoFact(@, Head(o.todo))],
                 [o EXCEPT !.pc = "count_vectors"])
     ELSE Err(r)

SoftDelete(r) ==
  LET o == op[r] IN
  /\ o.pc = "soft_delete"
  /\ IF Active(o.f)
     THEN Change(r, [facts EXCEPT ![o.f].st = "deleted"],
                 [o EXCEPT !.pc = "count_vectors"])
     ELSE Err(r)

\* SELECT COUNT counts soft-deleted facts too: Conflict.
InsertFact(r) ==
  LET o    == op[r]
      fact == IF o.kind = "add" THEN CandidateToFact(Head(o.todo))
                                ELSE FactForImport(Head(o.todo))
  IN  /\ o.pc = "insert_fact"
      /\ IF facts[o.f] = NoFact
         THEN Change(r, [facts EXCEPT ![o.f] = fact],
                     [o EXCEPT !.pc = "upsert_delete"])
         ELSE Err(r)

DeleteUserData(r) ==
  /\ op[r].pc = "delete_user_data"
  /\ Change(r, [f \in Id |-> NoFact], [op[r] EXCEPT !.pc = "delete_by_user"])

\* The first statement of delete_facts_older_than: rows in some order.
SelectOld(r) ==
  LET ids    == {f \in Id : Active(f) /\ facts[f].old}
      orders == {s \in [1..Cardinality(ids) -> ids] :
                   \A i, j \in DOMAIN s : s[i] = s[j] => i = j}
  IN  /\ op[r].pc = "select_old"
      /\ IF ids = {}
         THEN To(r, "events")
         ELSE \E s \in orders :
                op' = [op EXCEPT ![r].pc = "prune_old",
                                 ![r].todo = [i \in DOMAIN s |-> [id |-> s[i]]]]
      /\ UNCHANGED vectors
      /\ Quiet

\* Its second statement selects again; count is the number of rows it changed,
\* fact_ids are the rows of the first.
PruneOld(r) ==
  LET old == {f \in Id : Active(f) /\ facts[f].old}
      o   == Turn(op[r])
  IN  /\ op[r].pc = "prune_old"
      /\ IF old = {}
         THEN op' = [op EXCEPT ![r] = o] /\ UNCHANGED vectors /\ Quiet
         ELSE Change(r, [f \in Id |-> IF f \in old
                                      THEN [facts[f] EXCEPT !.st = "deleted"]
                                      ELSE facts[f]], o)

-----------------------------------------------------------------------------
(* The statements of the vector store. *)

\* Mutant: replace_fact_vector only deletes.
AfterDeleteOnly(o) ==
  IF o.kind = "delete" THEN [o EXCEPT !.pc = "invalidate", !.f = NoId]
  ELSE NextItem(o)

\* What follows delete_by_fact_id.
AfterDelete(o) ==
  CASE o.kind = "delete"  -> [o EXCEPT !.pc = "invalidate", !.f = NoId]
    [] o.act = "update"   -> [o EXCEPT !.pc = "upsert_delete"]
    [] OTHER              -> NextItem(o)

\* The count of delete_by_fact_id: NotFound is an error to delete_memory only.
CountVectors(r) ==
  LET o == op[r] IN
  /\ o.pc = "count_vectors"
  /\ IF VectorsOf(o.f) = {} /\ o.kind = "delete"
     THEN Err(r)
     ELSE /\ op' = [op EXCEPT ![r] = IF VectorsOf(o.f) = {} THEN AfterDelete(o)
                                     ELSE [o EXCEPT !.pc = "delete_vectors"]]
          /\ UNCHANGED vectors
          /\ Quiet

DeleteVectors(r) ==
  /\ op[r].pc = "delete_vectors"
  /\ vectors' = vectors \ VectorsOf(op[r].f)
  /\ op' = [op EXCEPT ![r] = AfterDelete(@)]
  /\ Quiet

\* upsert_vector deletes the fact's points (replace_fact_vector has embedded
\* the content before) ...
UpsertDelete(r) ==
  /\ op[r].pc = "upsert_delete"
  /\ vectors' = vectors \ VectorsOf(op[r].f)
  /\ To(r, "upsert_point")
  /\ Quiet

\* ... and writes the new one, with the content the request has.
UpsertPoint(r) ==
  LET o == op[r] IN
  /\ o.pc = "upsert_point"
  /\ vectors' = vectors \cup {[fact |-> o.f, c |-> Head(o.todo).c]}
  /\ op' = [op EXCEPT ![r] = NextItem(o)]
  /\ Quiet

DeleteByUser(r) ==
  /\ op[r].pc = "delete_by_user"
  /\ vectors' = {}
  /\ op' = [op EXCEPT ![r] = IF op[r].kind = "forget"
                             THEN [op[r] EXCEPT !.pc = "invalidate"]
                             ELSE Turn(op[r])]
  /\ Quiet

-----------------------------------------------------------------------------
(* import_user_data: one fact; the ends. *)

\* resolve_import_fact_id, from what get_fact shows.
ImportGet(r) ==
  LET id == Head(op[r].todo).id
      collides == Active(id) /\ op[r].kind = "append"
  IN  /\ op[r].pc = "import_get"
      /\ collides => newId \in Id
      /\ op' = [op EXCEPT ![r].pc = "insert_fact",
                          ![r].f = IF collides THEN newId ELSE id]
      /\ newId' = IF collides THEN newId + 1 ELSE newId
      /\ UNCHANGED <<storeVars, work, faults, cacheVars>>
      /\ Noted({})

\* Mutant: an import does not invalidate.
EventsEnd(r) ==
  /\ op[r].pc = "events"
  /\ op' = [op EXCEPT ![r] = IF @.kind = "retain" /\ @.wrote
                             THEN [@ EXCEPT !.pc = "invalidate"] ELSE Idle]
  /\ UNCHANGED vectors
  /\ Quiet

\* record_event for each restored event; delete_events_older_than.
Events(r) ==
  /\ op[r].pc = "events"
  /\ op' = [op EXCEPT ![r] = IF @.kind # "retain" \/ @.wrote
                             THEN [@ EXCEPT !.pc = "invalidate"] ELSE Idle]
  /\ UNCHANGED vectors
  /\ Quiet

\* invalidate_user_context_cache.
Invalidate(r) ==
  /\ op[r].pc = "invalidate"
  /\ op' = [op EXCEPT ![r] = Idle]
  /\ stale' = FALSE /\ excused' = FALSE
  /\ UNCHANGED <<storeVars, boundVars>>
  /\ Noted({})

\* A statement or a provider call fails, or the future is dropped at it.  A
\* failed invalidation is only logged.
Fail(r) ==
  /\ Running(r)
  /\ faults < MaxFaults
  /\ faults' = faults + 1
  /\ op' = [op EXCEPT ![r] = Idle]
  /\ excused' = (excused \/ op[r].wrote)
  /\ UNCHANGED <<storeVars, newId, work, stale>>
  /\ Noted(IF Midway(r) THEN Held(r) ELSE {})

Next ==
  \E r \in Request :
    \/ AddMemory(r) \/ DeleteMemory(r) \/ ApplyRetention(r) \/ ForgetUser(r)
    \/ ImportUserData(r)
    \/ CandidateInvalid(r) \/ Dedup(r) \/ EmbeddingDedup(r) \/ Classify(r)
    \/ DecisionInvalid(r)
    \/ GetFact(r) \/ UpdateFact(r) \/ SoftDelete(r) \/ InsertFact(r)
    \/ DeleteUserData(r) \/ SelectOld(r) \/ PruneOld(r)
    \/ CountVectors(r) \/ DeleteVectors(r) \/ UpsertDelete(r) \/ UpsertPoint(r)
    \/ DeleteByUser(r) \/ ImportGet(r) \/ Events(r) \/ Invalidate(r)
    \/ Fail(r)

Spec == Init /\ [][Next]_vars

-----------------------------------------------------------------------------
(* Properties. *)

\* Every variable has its type.
TypeOK ==
  /\ facts \in [Id -> {NoFact} \cup Fact]
  /\ vectors \subseteq Vector
  /\ op \in [Request -> Op]
  /\ newId \in Nat /\ work \in 0..MaxWork /\ faults \in 0..MaxFaults
  /\ stale \in BOOLEAN /\ excused \in BOOLEAN
  /\ tainted \subseteq Id /\ shared \subseteq Content

\* The two stores agree on every fact that no request is at work on: an active
\* fact has one point, with its content; a fact that is deleted or gone has
\* none.  Only a request that ended midway, or two requests at work on the same
\* fact, can leave them apart; requests on other facts never do.
VectorsFollowFacts ==
  \A f \in Id :
    f \notin tainted /\ (\A r \in Request : f \notin Held(r)) =>
      VectorsOf(f) = IF Active(f) THEN {[fact |-> f, c |-> facts[f].c]} ELSE {}

\* When facts have changed since the cache was last invalidated, a request is
\* still going to invalidate it, or one that changed facts ended with an error
\* or a failed invalidation: no request that replies Ok leaves old contexts.
CacheTold ==
  stale => excused \/ \E r \in Request : Running(r) /\ op[r].wrote

\* add_memory does not store what is known: two active facts have the same
\* content only if it was imported, or two requests found it new at once, or
\* one found it new while DEDUP_SEARCH_LIMIT facts of its type could be listed
\* before the fact that had it.
NoDuplicates ==
  \A e, f \in Id :
    /\ Active(e) /\ Active(f)
    /\ facts[e].c = facts[f].c /\ facts[e].c \notin shared
    => e = f

\* A soft-deleted fact stays deleted: no update that read the fact before the
\* deletion, no retention and no import under its id brings it back.
DeletedStaysDeleted ==
  [][\A f \in Id : facts[f].st = "deleted" => facts'[f].st # "active"]_vars
=============================================================================
