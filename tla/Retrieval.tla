----------------------------- MODULE Retrieval -----------------------------
(***************************************************************************)
(* How search_memory ranks what the two stores found: reciprocal rank      *)
(* fusion of the semantic and the keyword list, then the weighted score,   *)
(* the age and the id.  Scores are rational in the source; here they are   *)
(* integers over a common denominator, so that equal sums are equal.       *)
(*                                                                         *)
(*   a hit  [f: fact, c: content, sim: 0..100]   of search_vectors         *)
(*   a row  [f: fact, c: content, age: days]     of search_facts, get_fact *)
(***************************************************************************)
EXTENDS Sorting, Sequences, SequencesExt, FiniteSetsExt

CONSTANTS Content,
          TypeOf,        \* [Content -> memory type]
          Importance     \* [Content -> 0..100]

\* By memory type, in hundredths.
MemoryTypeBoost ==
  [profile |-> 100, preference |-> 95, project |-> 90, skill |-> 85,
   entity |-> 75, task |-> 70, conversation |-> 55, system |-> 50]

ASSUME RetrievalConstants ==
  /\ TypeOf \in [Content -> DOMAIN MemoryTypeBoost]
  /\ Importance \in [Content -> 0..100]

MAX_SEARCH_LIMIT == 50

\* normalize_search_limit refuses 0 and more than the maximum.
LimitValid(limit) == limit \in 1..MAX_SEARCH_LIMIT

MAX_CONTEXT_MAX_MEMORIES == 20

\* normalize_context_max_memories does with less.
MaxMemoriesValid(max) == max \in 1..MAX_CONTEXT_MAX_MEMORIES

\* Twice the limit per source, capped.
InternalSearchLimit(limit) ==
  IF 2 * limit < MAX_SEARCH_LIMIT THEN 2 * limit ELSE MAX_SEARCH_LIMIT

-----------------------------------------------------------------------------
(* RrfConfig: k = 60, both weights 1. *)

RRF_K == 60

\* A common denominator for the ranks 1..4; the shares of further ranks are
\* rounded, as floats are.
RrfScale == 61 * 62 * 63 * 64

\* 1-based rank of a fact in a list, 0 when absent.  A fact that has several
\* points counts where it comes first.
RankIn(list, f) ==
  IF \E i \in DOMAIN list : list[i].f = f
  THEN Min({i \in DOMAIN list : list[i].f = f}) ELSE 0

Contribution(rank) == IF rank = 0 THEN 0 ELSE RrfScale \div (RRF_K + rank)

\* What reciprocal_rank_fusion accumulates for a fact.
RrfScore(hits, rows, f) ==
  Contribution(RankIn(hits, f)) + Contribution(RankIn(rows, f))

Found(hits, rows) ==
  {hits[i].f : i \in DOMAIN hits} \cup {rows[i].f : i \in DOMAIN rows}

Better(hits, rows, e, f) ==
  LET re == RrfScore(hits, rows, e)
      rf == RrfScore(hits, rows, f)
  IN  re > rf \/ (re = rf /\ e < f)

\* Some of the facts found, best score first, then the smaller id.
ReciprocalRankFusion(found, hits, rows) ==
  Sorted(found, {p \in found \X found : Better(hits, rows, p[1], p[2])})

-----------------------------------------------------------------------------
(* MemoryRanker, in hundredths; RankingConfig::default weighs in percent. *)

FreshnessScore(age) ==
  CASE age <= 7 -> 100 [] age <= 30 -> 80 [] age <= 90 -> 60
    [] age <= 365 -> 40 [] OTHER -> 20

\* Confidence is the same for all contents.
WeightedScore(sim, row) ==
  50 * sim + 20 * Importance[row.c] + 15 * 100
    + 10 * FreshnessScore(row.age) + 5 * MemoryTypeBoost[TypeOf[row.c]]

-----------------------------------------------------------------------------
(* The results. *)

\* vector_by_fact keeps the last hit of a fact that has several.
HitsOf(hits, f) == {hits[i] : i \in {j \in DOMAIN hits :
                      hits[j].f = f /\ \A k \in DOMAIN hits : hits[k].f = f => k <= j}}

\* A result shows the content of the vector when there is one; its type, its
\* importance and its age are the row's.
Result(hits, row) ==
  LET of == HitsOf(hits, row.f)
      hit == IF of = {} THEN [c |-> row.c, sim |-> 0] ELSE CHOOSE x \in of : TRUE
  IN  [f |-> row.f, c |-> hit.c, ty |-> TypeOf[row.c], sim |-> hit.sim,
       age |-> row.age]

\* The comparison of scored.sort_by.
Before(hits, rows, x, y) ==
  LET rx == RrfScore(hits, rows, x.f)
      ry == RrfScore(hits, rows, y.f)
      wx == WeightedScore(Result(hits, x).sim, x)
      wy == WeightedScore(Result(hits, y).sim, y)
  IN  \/ rx > ry
      \/ rx = ry /\ wx > wy
      \/ rx = ry /\ wx = wy /\ x.age < y.age
      \/ rx = ry /\ wx = wy /\ x.age = y.age /\ x.f < y.f

\* The rows that were still there, sorted and cut to the limit.
Rank(hits, rows, got, limit) ==
  LET sorted == Sorted(got, {p \in got \X got : Before(hits, rows, p[1], p[2])})
      n      == Cardinality(got)
  IN  [i \in 1..(IF n < limit THEN n ELSE limit) |-> Result(hits, sorted[i])]

-----------------------------------------------------------------------------
(* What a ranking must be. *)

\* e is ahead of f in one list and not behind it in the other.
Dominates(hits, rows, e, f) ==
  LET pos(list, x) == IF RankIn(list, x) = 0 THEN Len(list) + 1
                                             ELSE RankIn(list, x)
  IN  /\ pos(hits, e) <= pos(hits, f) /\ pos(rows, e) <= pos(rows, f)
      /\ pos(hits, e) < pos(hits, f) \/ pos(rows, e) < pos(rows, f)

\* No result has one below it, or a row that was left out, that both sources
\* agree is better.
WellRanked(hits, rows, got, results) ==
  \A i \in DOMAIN results : \A x \in got :
    (\A j \in 1..i : results[j].f # x.f)
      => ~Dominates(hits, rows, x.f, results[i].f)

=============================================================================
