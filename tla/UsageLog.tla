------------------------------ MODULE UsageLog ------------------------------
(***************************************************************************)
(* Recording of provider usage.  Two slots are shared by all requests of   *)
(* the process: ProviderUsageAttributionSlot, which an operation of the    *)
(* engine sets before its provider calls, and the TokenUsageSlot of a      *)
(* provider candidate, which a successful call fills.  When the call has   *)
(* ended, record_usage takes the tokens and reads the attribution.         *)
(* PersistentProviderUsageRecorder counts the event in memory and leaves   *)
(* the row of the store to a task of its own.  There is one candidate per  *)
(* capability here, hence one event per call; with fallbacks the router    *)
(* records one for every candidate it tries.                               *)
(***************************************************************************)
EXTENDS Integers, FiniteSets, FiniteSetsExt

CONSTANTS Tenant, NoTenant

Capability == {"embedding", "summarization"}
None == 0          \* no token usage; an estimate is at least 1

VARIABLES attribution,   \* who the slot names
          tokenSlot,     \* [Capability -> tokens or None]
          counted,       \* InMemoryProviderUsageRecorder: [Capability -> totals]
          pending,       \* events whose task has not run
          persisted,     \* the rows of the usage store
          lost,          \* persistence_errors
          purged,        \* history: rows that retention has deleted
          nameless,      \* history: calls recorded without a tenant
          calls,         \* history: calls recorded
          spent          \* history: tokens of the successful ones

usageVars == <<attribution, tokenSlot, counted, pending, persisted, lost,
               purged, nameless, calls, spent>>

\* id stands for the event's UUID.
Event == [id : Nat, t : Tenant, ok : BOOLEAN, tokens : Nat]

Totals == [requests : Nat, ok : Nat, errors : Nat, tokens : Nat]

UsageInit ==
  /\ attribution = NoTenant
  /\ tokenSlot = [k \in Capability |-> None]
  /\ counted = [k \in Capability |->
                  [requests |-> 0, ok |-> 0, errors |-> 0, tokens |-> 0]]
  /\ pending = {} /\ persisted = {} /\ lost = 0
  /\ purged = 0 /\ nameless = 0 /\ calls = 0 /\ spent = 0

UsageTypeOK ==
  /\ attribution \in Tenant \cup {NoTenant}
  /\ tokenSlot \in [Capability -> Nat]
  /\ counted \in [Capability -> Totals]
  /\ pending \subseteq Event /\ persisted \subseteq Event
  /\ lost \in Nat /\ purged \in Nat /\ nameless \in Nat /\ calls \in Nat /\ spent \in Nat

-----------------------------------------------------------------------------
\* Mutant: the slot is set once.
BindOnce(t) ==
  /\ attribution' = IF attribution = NoTenant THEN t ELSE attribution
  /\ UNCHANGED <<tokenSlot, counted, pending, persisted, lost, purged, nameless,
                 calls, spent>>

\* bind_usage_attribution.
Bind(t) ==
  /\ attribution' = t
  /\ UNCHANGED <<tokenSlot, counted, pending, persisted, lost, purged, nameless,
                 calls, spent>>

\* store_estimated_usage, when the provider's call has succeeded.
StoreTokens(k, tokens) ==
  /\ tokenSlot' = [tokenSlot EXCEPT ![k] = tokens]
  /\ spent' = spent + tokens
  /\ UNCHANGED <<attribution, counted, pending, persisted, lost, purged, nameless,
                 calls>>

\* merge_event: the record of the capability.
Merge(k, ok, tokens) ==
  [counted EXCEPT ![k] = [requests |-> @.requests + 1,
                          ok |-> @.ok + (IF ok THEN 1 ELSE 0),
                          errors |-> @.errors + (IF ok THEN 0 ELSE 1),
                          tokens |-> @.tokens + tokens]]

\* build_snapshot: the totals over all records.
Snapshot ==
  LET e == counted["embedding"]
      s == counted["summarization"]
  IN  [requests |-> e.requests + s.requests, ok |-> e.ok + s.ok,
       errors |-> e.errors + s.errors, tokens |-> e.tokens + s.tokens]

\* Mutant: the tokens are read and left in the slot.
PeekTokens(k, ok) ==
  /\ counted' = Merge(k, ok, tokenSlot[k])
  /\ pending' = pending \cup
       (IF attribution = NoTenant THEN {}
        ELSE {[id |-> calls, t |-> attribution, ok |-> ok,
               tokens |-> tokenSlot[k]]})
  /\ calls' = calls + 1
  /\ nameless' = nameless + (IF attribution = NoTenant THEN 1 ELSE 0)
  /\ UNCHANGED <<attribution, tokenSlot, persisted, lost, purged, spent>>

\* record_usage and record_request.  Without an attribution the event is
\* counted and not persisted.
RecordUsage(k, ok) ==
  /\ counted' = Merge(k, ok, tokenSlot[k])
  /\ tokenSlot' = [tokenSlot EXCEPT ![k] = None]
  /\ pending' = pending \cup
       (IF attribution = NoTenant THEN {}
        ELSE {[id |-> calls, t |-> attribution, ok |-> ok,
               tokens |-> tokenSlot[k]]})
  /\ calls' = calls + 1
  /\ nameless' = nameless + (IF attribution = NoTenant THEN 1 ELSE 0)
  /\ UNCHANGED <<attribution, persisted, lost, purged, spent>>

\* The spawned task: record_usage_event, once; an error is counted.
Persist(e, ok) ==
  /\ e \in pending
  /\ pending' = pending \ {e}
  /\ persisted' = IF ok THEN persisted \cup {e} ELSE persisted
  /\ lost' = IF ok THEN lost ELSE lost + 1
  /\ UNCHANGED <<attribution, tokenSlot, counted, purged, nameless, calls,
                 spent>>

\* delete_usage_events_older_than: rows go.
Purge(events) ==
  /\ persisted' = persisted \ events
  /\ purged' = purged + Cardinality(events \cap persisted)
  /\ UNCHANGED <<attribution, tokenSlot, counted, pending, lost, nameless, calls,
                 spent>>

-----------------------------------------------------------------------------
\* Each call that has ended is counted once, as a success or an error, and its
\* event is in one place: stored, still on its way, purged by retention or
\* lost with an error, unless nobody was named.
UsageConserved ==
  /\ Snapshot.requests = calls
  /\ Snapshot.requests = Snapshot.ok + Snapshot.errors
  /\ pending \cap persisted = {}
  /\ Cardinality(pending) + Cardinality(persisted) + purged + lost + nameless
       = calls

\* Tokens are counted at most once, whichever request takes them out of the
\* slot: no total exceeds what the successful calls used.
TokensNotInvented ==
  /\ Snapshot.tokens <= spent
  /\ MapThenSumSet(LAMBDA e : e.tokens, pending \cup persisted)
       <= Snapshot.tokens

=============================================================================
