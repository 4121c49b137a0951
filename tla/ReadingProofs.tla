--------------------------- MODULE ReadingProofs ---------------------------
(***************************************************************************)
(* The reading operations and provider usage, for any number of tenants,   *)
(* memories, requests, jobs and failures.                                  *)
(*                                                                         *)
(* The usage log first: the operations use it only through the steps of    *)
(* UsageStep (LEMMA ReadingStep), and these keep the inductive invariant   *)
(* UsageInv, whatever their arguments are.  Then the requests: ReadingInv  *)
(* says where each of them is, what the tables hold while an import runs   *)
(* alone, whom the log names, what has been counted and how far a job has  *)
(* come.  The proof that a step keeps it has two halves: what the step     *)
(* does to the request that takes it, one lemma per action, and what it    *)
(* does to all others, once for all actions (MovedKeeps).  The searches    *)
(* last: SearchInv says what a search has seen of the tables and what it   *)
(* has found in them so far.                                               *)
(***************************************************************************)
EXTENDS Reading, FiniteSetTheorems, SequenceTheorems, TLAPS

\* What any caller may do to the log.
UsageStep ==
  \/ \E t : Bind(t)
  \/ \E k \in Capability : \E tokens : StoreTokens(k, tokens)
  \/ \E k \in Capability : \E ok : RecordUsage(k, ok)
  \/ \E e : \E ok : Persist(e, ok)
  \/ \E events : Purge(events)

\* The records of the recorder in memory.
CountedOK ==
  /\ DOMAIN counted = Capability
  /\ \A k \in Capability :
       /\ counted[k].requests \in Nat
       /\ counted[k].ok \in Nat
       /\ counted[k].errors \in Nat
       /\ counted[k].requests = counted[k].ok + counted[k].errors

\* The events on their way and in the store: finitely many, and of calls
\* recorded before, so that the next call's event is none of them.
EventsOK ==
  /\ IsFiniteSet(pending)
  /\ IsFiniteSet(persisted)
  /\ \A e \in pending : e.id \in Nat /\ e.id < calls
  /\ \A e \in persisted : e.id \in Nat /\ e.id < calls

CountersOK == lost \in Nat /\ purged \in Nat /\ nameless \in Nat /\ calls \in Nat

UsageInv == CountedOK /\ EventsOK /\ CountersOK /\ UsageConserved

-----------------------------------------------------------------------------
(* Cardinalities. *)

\* A set with a member less.
LEMMA CardWithout ==
  ASSUME NEW S, NEW e \in S, IsFiniteSet(S)
  PROVE  /\ IsFiniteSet(S \ {e})
         /\ Cardinality(S \ {e}) \in Nat
         /\ Cardinality(S) = Cardinality(S \ {e}) + 1
<1>1. IsFiniteSet(S \ {e}) /\ Cardinality(S \ {e}) = Cardinality(S) - 1
  BY FS_RemoveElement
<1>2. Cardinality(S) \in Nat /\ Cardinality(S \ {e}) \in Nat
  BY <1>1, FS_CardinalityType
<1> QED  BY <1>1, <1>2

\* A set with a member more.
LEMMA CardWith ==
  ASSUME NEW S, NEW e, e \notin S, IsFiniteSet(S)
  PROVE  /\ IsFiniteSet(S \cup {e})
         /\ Cardinality(S \cup {e}) = Cardinality(S) + 1
  BY FS_AddElement

\* A set in two parts.
LEMMA CardSplit ==
  ASSUME NEW S, NEW T, IsFiniteSet(S)
  PROVE  /\ IsFiniteSet(S \ T)
         /\ Cardinality(S \ T) \in Nat
         /\ Cardinality(T \cap S) \in Nat
         /\ Cardinality(S) = Cardinality(S \ T) + Cardinality(T \cap S)
<1>1. IsFiniteSet(S \ T) /\ IsFiniteSet(T \cap S)
  BY FS_Difference, FS_Intersection
<1>2. /\ Cardinality(S) \in Nat /\ Cardinality(S \ T) \in Nat
      /\ Cardinality(T \cap S) \in Nat
  BY <1>1, FS_CardinalityType
<1>3. Cardinality(S \ T) = Cardinality(S) - Cardinality(S \cap T)
  BY FS_Difference
<1>4. S \cap T = T \cap S
  OBVIOUS
<1> QED  BY <1>1, <1>2, <1>3, <1>4

-----------------------------------------------------------------------------
(* The steps of the log. *)

\* A new process has an empty log.
LEMMA UsageStarts == UsageInit => UsageInv
<1> SUFFICES ASSUME UsageInit PROVE UsageInv
  OBVIOUS
<1>1. CountedOK /\ CountersOK
  BY DEF UsageInit, CountedOK, CountersOK
<1>2. EventsOK
  BY FS_EmptySet DEF UsageInit, EventsOK
<1>3. Cardinality(pending) = 0 /\ Cardinality(persisted) = 0
  BY FS_EmptySet DEF UsageInit
<1>4. Snapshot.requests = 0 /\ Snapshot.ok = 0 /\ Snapshot.errors = 0
  BY DEF UsageInit, Snapshot, Capability
<1>5. UsageConserved
  BY <1>3, <1>4 DEF UsageInit, UsageConserved
<1> QED  BY <1>1, <1>2, <1>5 DEF UsageInv

\* bind_usage_attribution and store_estimated_usage touch only the slots.
LEMMA SlotsKeep ==
  ASSUME UsageInv,
         UNCHANGED <<counted, pending, persisted, lost, purged, nameless, calls>>
  PROVE  UsageInv'
  BY DEF UsageInv, CountedOK, EventsOK, CountersOK, UsageConserved, Snapshot

\* merge_event adds a request that is a success or an error.
LEMMA MergeCounts ==
  ASSUME CountedOK, NEW k \in Capability, NEW ok, NEW tokens,
         counted' = Merge(k, ok, tokens)
  PROVE  /\ CountedOK'
         /\ Snapshot'.requests = Snapshot.requests + 1
         /\ Snapshot'.ok + Snapshot'.errors = Snapshot.ok + Snapshot.errors + 1
<1> DEFINE c == counted[k]
           d == [requests |-> c.requests + 1,
                 ok |-> c.ok + (IF ok THEN 1 ELSE 0),
                 errors |-> c.errors + (IF ok THEN 0 ELSE 1),
                 tokens |-> c.tokens + tokens]
<1>1. counted' = [counted EXCEPT ![k] = d]
  BY DEF Merge
<1>2. /\ d.requests = c.requests + 1
      /\ d.ok = c.ok + (IF ok THEN 1 ELSE 0)
      /\ d.errors = c.errors + (IF ok THEN 0 ELSE 1)
  OBVIOUS
<1>3. /\ c.requests \in Nat /\ c.ok \in Nat /\ c.errors \in Nat
      /\ c.requests = c.ok + c.errors
  BY DEF CountedOK
<1> HIDE DEF c, d
<1>4. /\ d.requests \in Nat /\ d.ok \in Nat /\ d.errors \in Nat
      /\ d.requests = d.ok + d.errors
      /\ d.requests = c.requests + 1
      /\ d.ok + d.errors = c.ok + c.errors + 1
  BY <1>2, <1>3
<1>5. DOMAIN counted' = Capability
  BY <1>1 DEF CountedOK
<1>6. counted'[k] = d /\ \A j \in Capability \ {k} : counted'[j] = counted[j]
  BY <1>1 DEF CountedOK
<1>7. CountedOK'
  BY <1>4, <1>5, <1>6 DEF CountedOK
<1>8. counted[k] = c
  BY DEF c
<1>9. CASE k = "embedding"
  <2>1. /\ counted'["embedding"] = d /\ counted["embedding"] = c
        /\ counted'["summarization"] = counted["summarization"]
    BY <1>6, <1>8, <1>9 DEF Capability
  <2>2. /\ counted["summarization"].requests \in Nat
        /\ counted["summarization"].ok \in Nat
        /\ counted["summarization"].errors \in Nat
    BY DEF CountedOK, Capability
  <2> QED  BY <1>3, <1>4, <1>7, <2>1, <2>2 DEF Snapshot
<1>10. CASE k = "summarization"
  <2>1. /\ counted'["summarization"] = d /\ counted["summarization"] = c
        /\ counted'["embedding"] = counted["embedding"]
    BY <1>6, <1>8, <1>10 DEF Capability
  <2>2. /\ counted["embedding"].requests \in Nat
        /\ counted["embedding"].ok \in Nat
        /\ counted["embedding"].errors \in Nat
    BY DEF CountedOK, Capability
  <2> QED  BY <1>3, <1>4, <1>7, <2>1, <2>2 DEF Snapshot
<1> QED  BY <1>9, <1>10 DEF Capability

\* record_usage: the call is counted, and its event is new or nameless.
LEMMA RecordKeeps ==
  ASSUME UsageInv, NEW k \in Capability, NEW ok, RecordUsage(k, ok)
  PROVE  UsageInv'
<1> DEFINE e == [id |-> calls, t |-> attribution, ok |-> ok,
                 tokens |-> tokenSlot[k]]
<1>1. /\ counted' = Merge(k, ok, tokenSlot[k])
      /\ pending' = pending \cup (IF attribution = NoTenant THEN {} ELSE {e})
      /\ calls' = calls + 1
      /\ nameless' = nameless + (IF attribution = NoTenant THEN 1 ELSE 0)
      /\ persisted' = persisted /\ lost' = lost /\ purged' = purged
  BY DEF RecordUsage
<1>2. e.id = calls
  OBVIOUS
<1> HIDE DEF e
<1>3. /\ calls \in Nat /\ lost \in Nat /\ purged \in Nat /\ nameless \in Nat
  BY DEF UsageInv, CountersOK
<1>4. e \notin pending /\ e \notin persisted
  BY <1>2, <1>3 DEF UsageInv, EventsOK
<1>5. /\ CountedOK'
      /\ Snapshot'.requests = Snapshot.requests + 1
      /\ Snapshot'.ok + Snapshot'.errors = Snapshot.ok + Snapshot.errors + 1
  BY <1>1, MergeCounts DEF UsageInv
<1>6. /\ IsFiniteSet(pending) /\ IsFiniteSet(persisted)
      /\ Cardinality(pending) \in Nat /\ Cardinality(persisted) \in Nat
  BY FS_CardinalityType DEF UsageInv, EventsOK
<1>7. CountersOK'
  BY <1>1, <1>3 DEF CountersOK
<1>8. /\ IsFiniteSet(pending')
      /\ Cardinality(pending') + nameless' = Cardinality(pending) + nameless + 1
  <2>1. CASE attribution = NoTenant
    <3>1. pending' = pending /\ nameless' = nameless + 1
      BY <1>1, <2>1
    <3> QED  BY <1>3, <1>6, <3>1
  <2>2. CASE attribution # NoTenant
    <3>1. pending' = pending \cup {e} /\ nameless' = nameless
      BY <1>1, <1>3, <2>2
    <3>2. /\ IsFiniteSet(pending \cup {e})
          /\ Cardinality(pending \cup {e}) = Cardinality(pending) + 1
      BY <1>4, <1>6, CardWith
    <3> QED  BY <1>3, <1>6, <3>1, <3>2
  <2> QED  BY <2>1, <2>2
<1>9. EventsOK'
  <2>1. \A d \in pending' : d \in pending \/ d = e
    BY <1>1
  <2>2. \A d \in pending' : d.id \in Nat /\ d.id < calls'
    BY <1>1, <1>2, <1>3, <2>1 DEF UsageInv, EventsOK
  <2>3. \A d \in persisted' : d.id \in Nat /\ d.id < calls'
    BY <1>1, <1>3 DEF UsageInv, EventsOK
  <2> QED  BY <1>1, <1>6, <1>8, <2>2, <2>3 DEF EventsOK
<1>10. pending' \cap persisted' = {}
  BY <1>1, <1>4 DEF UsageInv, UsageConserved
<1>11. /\ Snapshot.requests = calls
       /\ Snapshot.requests = Snapshot.ok + Snapshot.errors
       /\ Cardinality(pending) + Cardinality(persisted) + purged + lost + nameless
            = calls
  BY DEF UsageInv, UsageConserved
<1>12. Cardinality(pending') \in Nat
  BY <1>8, FS_CardinalityType
<1>13. /\ Snapshot'.requests = calls'
       /\ Snapshot'.requests = Snapshot'.ok + Snapshot'.errors
  BY <1>1, <1>5, <1>11
<1>14. Cardinality(pending') + Cardinality(persisted') + purged' + lost' + nameless'
         = calls'
  BY <1>1, <1>3, <1>6, <1>7, <1>8, <1>11, <1>12 DEF CountersOK
<1>15. UsageConserved'
  BY <1>10, <1>13, <1>14 DEF UsageConserved
<1> QED  BY <1>5, <1>7, <1>9, <1>15 DEF UsageInv

\* The spawned task moves its event to the store or to the errors.
LEMMA PersistKeeps ==
  ASSUME UsageInv, NEW e, NEW ok, Persist(e, ok)
  PROVE  UsageInv'
<1>1. /\ e \in pending /\ pending' = pending \ {e}
      /\ persisted' = IF ok THEN persisted \cup {e} ELSE persisted
      /\ lost' = IF ok THEN lost ELSE lost + 1
      /\ counted' = counted /\ purged' = purged /\ nameless' = nameless
      /\ calls' = calls
  BY DEF Persist
<1>2. /\ calls \in Nat /\ lost \in Nat /\ purged \in Nat /\ nameless \in Nat
  BY DEF UsageInv, CountersOK
<1>3. IsFiniteSet(pending) /\ IsFiniteSet(persisted)
  BY DEF UsageInv, EventsOK
<1>4. /\ IsFiniteSet(pending') /\ Cardinality(pending') \in Nat
      /\ Cardinality(pending) = Cardinality(pending') + 1
  BY <1>1, <1>3, CardWithout
<1>5. e \notin persisted
  BY <1>1 DEF UsageInv, UsageConserved
<1>6. /\ IsFiniteSet(persisted')
      /\ Cardinality(persisted') + lost' = Cardinality(persisted) + lost + 1
  <2>1. Cardinality(persisted) \in Nat
    BY <1>3, FS_CardinalityType
  <2>2. CASE ok
    <3>1. persisted' = persisted \cup {e} /\ lost' = lost
      BY <1>1, <2>2
    <3>2. /\ IsFiniteSet(persisted \cup {e})
          /\ Cardinality(persisted \cup {e}) = Cardinality(persisted) + 1
      BY <1>3, <1>5, CardWith
    <3> QED  BY <1>2, <2>1, <3>1, <3>2
  <2>3. CASE ~ok
    <3>1. persisted' = persisted /\ lost' = lost + 1
      BY <1>1, <2>3
    <3> QED  BY <1>2, <1>3, <2>1, <3>1
  <2> QED  BY <2>2, <2>3
<1>7. CountersOK'
  BY <1>1, <1>2 DEF CountersOK
<1>8. CountedOK' /\ Snapshot' = Snapshot
  BY <1>1 DEF UsageInv, CountedOK, Snapshot
<1>9. \A d \in pending' \cup persisted' : d \in pending \/ d \in persisted
  BY <1>1
<1>10. EventsOK'
  BY <1>1, <1>4, <1>6, <1>9 DEF UsageInv, EventsOK
<1>11. pending' \cap persisted' = {}
  BY <1>1 DEF UsageInv, UsageConserved
<1>12. Cardinality(persisted) \in Nat /\ Cardinality(persisted') \in Nat
  BY <1>3, <1>6, FS_CardinalityType
<1>13. Cardinality(pending) + Cardinality(persisted) + purged + lost + nameless
         = calls
  BY DEF UsageInv, UsageConserved
<1>14. Cardinality(pending') + Cardinality(persisted') + purged' + lost' + nameless'
         = calls'
  BY <1>1, <1>2, <1>4, <1>6, <1>7, <1>12, <1>13 DEF CountersOK
<1>15. Snapshot.requests = calls /\ Snapshot.requests = Snapshot.ok + Snapshot.errors
  BY DEF UsageInv, UsageConserved
<1>16. UsageConserved'
  BY <1>1, <1>8, <1>11, <1>14, <1>15 DEF UsageConserved
<1> QED  BY <1>7, <1>8, <1>10, <1>16 DEF UsageInv

\* Retention moves rows from the store to the purged ones.
LEMMA PurgeKeeps ==
  ASSUME UsageInv, NEW events, Purge(events)
  PROVE  UsageInv'
<1>1. /\ persisted' = persisted \ events
      /\ purged' = purged + Cardinality(events \cap persisted)
      /\ counted' = counted /\ pending' = pending /\ lost' = lost
      /\ nameless' = nameless /\ calls' = calls
  BY DEF Purge
<1>2. /\ calls \in Nat /\ lost \in Nat /\ purged \in Nat /\ nameless \in Nat
  BY DEF UsageInv, CountersOK
<1>3. IsFiniteSet(pending) /\ IsFiniteSet(persisted)
  BY DEF UsageInv, EventsOK
<1>4. /\ IsFiniteSet(persisted')
      /\ Cardinality(persisted') \in Nat
      /\ Cardinality(events \cap persisted) \in Nat
      /\ Cardinality(persisted) = Cardinality(persisted') + Cardinality(events \cap persisted)
  BY <1>1, <1>3, CardSplit
<1>5. CountersOK'
  BY <1>1, <1>2, <1>4 DEF CountersOK
<1>6. CountedOK' /\ Snapshot' = Snapshot
  BY <1>1 DEF UsageInv, CountedOK, Snapshot
<1>7. EventsOK'
  BY <1>1, <1>4 DEF UsageInv, EventsOK
<1>8. pending' \cap persisted' = {}
  BY <1>1 DEF UsageInv, UsageConserved
<1>9. Cardinality(pending) \in Nat
  BY <1>3, FS_CardinalityType
<1>10. Cardinality(pending) + Cardinality(persisted) + purged + lost + nameless
         = calls
  BY DEF UsageInv, UsageConserved
<1>11. Cardinality(pending') + Cardinality(persisted') + purged' + lost' + nameless'
         = calls'
  BY <1>1, <1>2, <1>4, <1>9, <1>10
<1>12. Snapshot.requests = calls /\ Snapshot.requests = Snapshot.ok + Snapshot.errors
  BY DEF UsageInv, UsageConserved
<1>13. UsageConserved'
  BY <1>1, <1>6, <1>8, <1>11, <1>12 DEF UsageConserved
<1> QED  BY <1>5, <1>6, <1>7, <1>13 DEF UsageInv

\* Every use of the log keeps the books.
LEMMA UsageStepKeeps ==
  ASSUME UsageInv, [UsageStep]_usageVars
  PROVE  UsageInv'
<1>1. CASE UNCHANGED usageVars
  BY <1>1, SlotsKeep DEF usageVars
<1>2. ASSUME NEW t, Bind(t) PROVE UsageInv'
  BY <1>2, SlotsKeep DEF Bind
<1>3. ASSUME NEW k \in Capability, NEW tokens, StoreTokens(k, tokens) PROVE UsageInv'
  BY <1>3, SlotsKeep DEF StoreTokens
<1>4. ASSUME NEW k \in Capability, NEW ok, RecordUsage(k, ok) PROVE UsageInv'
  BY <1>4, RecordKeeps
<1>5. ASSUME NEW e, NEW ok, Persist(e, ok) PROVE UsageInv'
  BY <1>5, PersistKeeps
<1>6. ASSUME NEW events, Purge(events) PROVE UsageInv'
  BY <1>6, PurgeKeeps
<1> QED  BY <1>1, <1>2, <1>3, <1>4, <1>5, <1>6 DEF UsageStep

-----------------------------------------------------------------------------
(* The operations of the engine use the log only in this way. *)

\* The steps that make no provider call and store nothing of one.
LEMMA OthersLeaveLog ==
  ASSUME NEW r, \/ Vectors(r) \/ Keywords(r) \/ Fetch(r) \/ Assemble(r)
                \/ WipeFacts(r) \/ WipeVectors(r) \/ InsertFact(r)
                \/ WriteRow(r) \/ Unpoint(r) \/ UpsertDelete(r) \/ UpsertPoint(r)
                \/ ReadFacts(r) \/ ReadLatest(r) \/ ReadUsers(r) \/ Keep(r)
                \/ ReadUsage(r) \/ MatchExpired(r) \/ Reply(r)
  PROVE  UNCHANGED usageVars
<1>1. CASE Vectors(r)
  BY <1>1 DEF Vectors
<1>2. CASE Keywords(r)
  BY <1>2 DEF Keywords
<1>3. CASE Fetch(r)
  BY <1>3 DEF Fetch
<1>4. CASE Assemble(r)
  BY <1>4 DEF Assemble
<1>5. CASE WipeFacts(r)
  BY <1>5 DEF WipeFacts, Quiet
<1>6. CASE WipeVectors(r)
  BY <1>6 DEF WipeVectors, Quiet
<1>7. CASE InsertFact(r)
  BY <1>7 DEF InsertFact, Quiet
<1>8. CASE WriteRow(r)
  BY <1>8 DEF WriteRow, Quiet
<1>9. CASE Unpoint(r)
  BY <1>9 DEF Unpoint, Quiet
<1>10. CASE UpsertDelete(r) \/ UpsertPoint(r)
  BY <1>10 DEF UpsertDelete, UpsertPoint, Quiet
<1>11. CASE ReadFacts(r)
  BY <1>11 DEF ReadFacts
<1>12. CASE ReadLatest(r)
  BY <1>12 DEF ReadLatest
<1>13. CASE ReadUsers(r)
  BY <1>13 DEF ReadUsers
<1>14. CASE Keep(r)
  BY <1>14 DEF Keep
<1>15. CASE ReadUsage(r)
  BY <1>15 DEF ReadUsage
<1>16. CASE MatchExpired(r)
  BY <1>16 DEF MatchExpired
<1>17. CASE Reply(r)
  BY <1>17 DEF Reply
<1> QED  BY <1>1, <1>2, <1>3, <1>4, <1>5, <1>6, <1>7, <1>8, <1>9, <1>10, <1>11, <1>12, <1>13, <1>14, <1>15, <1>16, <1>17

\* Every step of a request, a job or a spawned task is one of the log's steps
\* or leaves the log alone.
LEMMA ReadingStep == [Next]_vars => [UsageStep]_usageVars
<1> SUFFICES ASSUME [Next]_vars PROVE [UsageStep]_usageVars
  OBVIOUS
<1>1. CASE UNCHANGED vars
  BY <1>1 DEF vars
<1>2. ASSUME NEW r \in Request, Begin(r) PROVE [UsageStep]_usageVars
  <2>1. CASE BeginSearch(r)
    BY <2>1 DEF BeginSearch, UsageStep
  <2>2. CASE BeginImport(r)
    BY <2>2 DEF BeginImport
  <2>3. CASE BeginWrite(r)
    BY <2>3 DEF BeginWrite, UsageStep
  <2>4. CASE BeginAdmin(r)
    BY <2>4 DEF BeginAdmin
  <2>5. CASE Export(r)
    BY <2>5 DEF Export
  <2> QED  BY <1>2, <2>1, <2>2, <2>3, <2>4, <2>5 DEF Begin
<1>3. ASSUME NEW r \in Request, Advance(r) PROVE [UsageStep]_usageVars
  <2>1. "embedding" \in Capability /\ "summarization" \in Capability
    BY DEF Capability
  <2>2. CASE EmbedText(r)
    BY <2>1, <2>2 DEF EmbedText, UsageStep
  <2>3. CASE SummarizeMemory(r)
    BY <2>1, <2>3 DEF SummarizeMemory, UsageStep
  <2>4. CASE RecordEmbedding(r)
    BY <2>1, <2>4 DEF RecordEmbedding, UsageStep
  <2>5. CASE RecordSummary(r)
    BY <2>1, <2>5 DEF RecordSummary, UsageStep
  <2>6. CASE DeleteExpired(r)
    BY <2>6 DEF DeleteExpired, UsageStep
  <2> QED  BY <1>3, <2>2, <2>3, <2>4, <2>5, <2>6, OthersLeaveLog DEF Advance
<1>4. ASSUME NEW r \in Request, CallErrs(r) \/ Fail(r) \/ JobOrgFails(r)
      PROVE  [UsageStep]_usageVars
  BY <1>4 DEF CallErrs, Fail, JobOrgFails
<1>5. ASSUME NEW t \in Tenant, RefuseSearch(t) PROVE [UsageStep]_usageVars
  BY <1>5 DEF RefuseSearch, UsageStep
<1>6. CASE PersistStores
  BY <1>6 DEF PersistStores, UsageStep
<1>7. CASE PersistFails
  BY <1>7 DEF PersistFails, UsageStep
<1> QED  BY <1>1, <1>2, <1>3, <1>4, <1>5, <1>6, <1>7 DEF Next

\* Provider usage is conserved whatever the requests, the jobs, the spawned
\* tasks and their failures do: record_usage counts each ended call once, and
\* its event is stored, on its way, purged, lost with an error or nameless.
THEOREM UsageIsConserved == Spec => []UsageConserved
<1>1. Init => UsageInv
  BY UsageStarts DEF Init
<1>2. UsageInv /\ [Next]_vars => UsageInv'
  BY ReadingStep, UsageStepKeeps
<1>3. UsageInv => UsageConserved
  BY DEF UsageInv
<1> QED  BY <1>1, <1>2, <1>3, PTL DEF Spec

-----------------------------------------------------------------------------
(* The inductive invariant of the requests. *)

Fields == {"pc", "in", "ok", "hits", "rows", "todo", "got", "results", "asm", "opt",
           "bad", "status", "events", "live", "near", "touched", "sound", "alone"}

SearchSteps == {"embed", "record_embed", "vectors", "keywords", "fetch", "assemble",
                "summarize", "record_summary", "done"}
ImportSteps == {"wipe_facts", "wipe_vectors", "insert", "embed", "record_embed",
                "upsert", "point", "done"}
UpdateSteps == {"row", "unpoint", "embed", "record_embed", "upsert", "point", "done"}
DeleteSteps == {"row", "unpoint", "done"}

\* The operations that name their tenant before they call a provider.
Named == Searches \cup {"update"}

\* Where a request may be, by its operation.
OnTrack(q) ==
  /\ q.in.op \in Searches => q.pc \in SearchSteps
  /\ q.in.op = "import" => q.pc \in ImportSteps
  /\ q.in.op = "update" => q.pc \in UpdateSteps
  /\ q.in.op = "delete" => q.pc \in DeleteSteps
  /\ q.in.op \in {"snapshot", "job"} =>
       q.pc \in {"count_facts", "count_users", "keep", "done"}
  /\ q.in.op = "summary" => q.pc \in {"count_facts", "count_users", "done"}
  /\ q.in.op = "dashboard" =>
       q.pc \in {"count_facts", "latest", "count_users", "usage", "done"}
  /\ q.in.op = "purge" => q.pc \in {"match", "expire", "done"}

\* A running request.
Req(q) ==
  /\ q = [k \in Fields |-> q[k]]
  /\ q.pc # "idle" /\ q.in \in Input /\ q.in.op # "export" /\ q.alone \in BOOLEAN
  /\ OnTrack(q)

Requests ==
  /\ DOMAIN req = Request
  /\ \A r \in Request : req[r].pc # "idle" => Req(req[r])

\* Who is alone is.
Alone ==
  \A r, s \in Request :
    r # s /\ req[r].pc # "idle" /\ req[s].pc # "idle" => ~req[r].alone

TablesTyped ==
  /\ facts \in [Id -> Row \cup {NoFact}]
  /\ dumps \subseteq Dump

\* The ids of the user's rows, soft-deleted ones included.
Owned(fs, t) == {f \in Id : fs[f] \in Row /\ fs[f].t = t}

\* The first n of the items are the user's rows, and the first n its points.
RowsDone(items, t, n, fs) ==
  /\ Owned(fs, t) = {items[i].f : i \in 1 .. n}
  /\ \A i \in 1 .. n : fs[items[i].f] = FactForImport(items[i], t)
PointsDone(items, t, n, vs) ==
  /\ {v.f : v \in PointsIn(vs, t)} = {items[i].f : i \in 1 .. n}
  /\ \A i \in 1 .. n : \E v \in vs : /\ PointsOf(vs, items[i].f, t) = {v}
                                     /\ v.c = items[i].c

\* What the tables hold while a replacing import runs alone and n of its facts
\* are done.
Replacing(pc, items, t, n, fs, vs) ==
  /\ pc = "wipe_vectors" => RowsDone(items, t, 0, fs)
  /\ pc \in {"insert", "done"} => RowsDone(items, t, n, fs) /\ PointsDone(items, t, n, vs)
  /\ pc \in {"embed", "record_embed", "upsert", "point"} =>
       /\ RowsDone(items, t, n + 1, fs) /\ PointsDone(items, t, n, vs)
       /\ \A i \in 1 .. n : items[i].f # items[n + 1].f

\* An import that is at its n-th fact.
Importing(q, n, fs, vs) ==
  /\ n <= Len(q.asm.facts)
  /\ ImportValid(q.asm, q.in.t)
  /\ q.rows = <<n>>
  /\ q.todo = SubSeq(q.asm.facts, n + 1, Len(q.asm.facts))
  /\ q.pc \in {"wipe_facts", "wipe_vectors"} => n = 0
  /\ q.pc \in {"insert", "embed", "record_embed", "upsert", "point"} =>
       n < Len(q.asm.facts)
  /\ q.pc = "done" => n = Len(q.asm.facts)
  /\ q.alone => Replacing(q.pc, q.asm.facts, q.in.t, n, fs, vs)

ImportOK(q, fs, vs) ==
  q.in.op = "import" =>
    /\ q.asm \in Dump
    /\ IF q.in.dry THEN q.pc = "done" /\ q.rows = <<DryRunOutput(q.in, q.asm)>>
       ELSE \E n \in Nat : Importing(q, n, fs, vs)

Imports == \A r \in Request : req[r].pc # "idle" => ImportOK(req[r], facts, vectors)

\* The events of a request are of calls recorded before, and while it runs
\* alone the slot names its tenant.
BillOK(q, n, t, es) ==
  /\ \A i \in q.events : i \in Nat /\ i < n
  /\ q.alone /\ q.in.op # "import" =>
       /\ q.in.op \in Named => t = q.in.t
       /\ \A e \in es : e.id \in q.events => e.t = q.in.t

Bills ==
  \A r \in Request : req[r].pc # "idle" =>
    BillOK(req[r], calls, attribution, pending \cup persisted)

Reported == [org : Orgs, facts : Nat, users : Nat]
PurgedOf == [org : Orgs, matched : Nat, deleted : Nat]

\* A counting request has seen the counts of the table.
CountsSeen(q, fs) ==
  q.in.op \in Admin =>
    \A o \in Orgs : /\ <<o, CountFactsIn(fs, o)>> \in q.live
                   /\ <<o, CountUsersIn(fs, o)>> \in q.near

\* The numbers it has read were true while it ran.
CountsRead(q, n) ==
  q.in.op \in Admin =>
    /\ q.results \in Seq(Reported)
    /\ \A i \in DOMAIN q.results :
         /\ <<q.results[i].org, q.results[i].facts>> \in q.live
         /\ <<q.results[i].org, q.results[i].users>> \in q.near
    /\ q.todo \in Seq(Orgs)
    /\ q.pc # "done" \/ q.in.op \in {"summary", "dashboard"} => q.todo # <<>>
    /\ q.pc \in {"latest", "count_users"} =>
         \E a \in Nat : q.rows = <<a>> /\ <<Head(q.todo), a>> \in q.live
    /\ \/ q.pc \in {"keep", "usage"}
       \/ q.pc = "done" /\ q.in.op \in {"summary", "dashboard"}
       => \E a, b \in Nat : /\ q.rows = <<a, b>>
                            /\ <<Head(q.todo), a>> \in q.live
                            /\ <<Head(q.todo), b>> \in q.near
    /\ \A u \in q.got : u.requests \in Nat /\ u.requests <= n

Counts ==
  \A r \in Request : req[r].pc # "idle" =>
    CountsSeen(req[r], facts) /\ CountsRead(req[r], calls)

ServedBy(results) == [i \in DOMAIN results |-> results[i].org]

\* A job that is done with n of its organisations.
Serving(q, n) ==
  /\ n <= Len(q.in.orgs)
  /\ q.todo = SubSeq(q.in.orgs, n + 1, Len(q.in.orgs))
  /\ q.pc # "done" => n < Len(q.in.orgs) /\ q.status = "running"
  /\ q.pc = "done" => n = Len(q.in.orgs) /\ q.status = JobStatus(q)
  /\ q.bad = {} => ServedBy(q.results) = SubSeq(q.in.orgs, 1, n)
  /\ q.bad # {} => Len(q.results) < n
  /\ \A o \in Orgs : Times(ServedBy(q.results), o) <= Times(SubSeq(q.in.orgs, 1, n), o)

ExpiredIn(q, es) == {e \in es : OrgOf[e.t] = Head(q.todo) /\ e.id < q.in.cutoff}

JobOK(q, ss, es) ==
  q.in.op \in Jobs =>
    /\ q.results \in Seq(IF q.in.op = "job" THEN Reported ELSE PurgedOf)
    /\ q.status # "skipped" => /\ q.in.orgs # <<>> /\ q.in.cutoff # 0
                               /\ \E n \in Nat : Serving(q, n)
    /\ q.status = "skipped" => q.pc = "done"
    /\ q.in.op = "job" => \A i \in DOMAIN q.results :
                            \E j \in DOMAIN ss : ss[j] = q.results[i]
    /\ q.pc = "expire" =>
         \E m \in Nat :
           /\ q.rows = <<m>>
           /\ q.alone => m <= Cardinality(ExpiredIn(q, es))
    /\ q.in.op = "purge" /\ q.alone =>
         \A i \in DOMAIN q.results : q.results[i].deleted >= q.results[i].matched

JobsOK ==
  /\ snapshots \in Seq(Reported)
  /\ \A r \in Request : req[r].pc # "idle" => JobOK(req[r], snapshots, persisted)

ReadingInv ==
  /\ Requests /\ Alone /\ TablesTyped /\ Imports /\ Bills /\ Counts /\ JobsOK
  /\ UsageInv

-----------------------------------------------------------------------------
(* Searches: what one has seen of the tables, and what it found in them. *)

Hit == [f : Id, c : Content, sim : Nat]

\* Rows with ids of their own.
DistinctRows(rows) ==
  /\ IsFiniteSet(rows) /\ rows \subseteq Item
  /\ \A x, y \in rows : x.f = y.f => x = y

\* A list that is no longer than the cap.
ListOK(list, S) == list \in Seq(S) /\ Len(list) <= MAX_SEARCH_LIMIT

PointsOK(vs) == vs \subseteq Point /\ IsFiniteSet(vs)

\* The memories of which the properties speak: row and point agreed when the
\* search began, and nobody has changed them since.
Steady(q) == q.sound \ q.touched

\* It has seen what the tables hold.
Sees(q, fs, vs) ==
  /\ ActiveIn(fs, q.in.t) \subseteq q.live
  /\ PointsIn(vs, q.in.t) \subseteq q.near

\* The tables hold the steady memories.
Holds(q, fs, vs) ==
  \A f \in Steady(q) :
    f \in ActiveIn(fs, q.in.t) /\ SoundIn(fs, vs, f)

\* So few points that search_vectors returns all of them.
FewPoints(q) == /\ Cardinality(q.near) <= 2 * q.in.limit
                /\ Cardinality(q.near) <= MAX_SEARCH_LIMIT

\* What search_vectors has returned.
HitsOK(q, fs) ==
  /\ ListOK(q.hits, Hit)
  /\ \A i \in DOMAIN q.hits :
       q.hits[i].f \in Steady(q) => q.hits[i].c = fs[q.hits[i].f].c
  /\ FewPoints(q) =>
       \A f \in Steady(q) : TypeMatches(fs[f].c, q.in) =>
                              \E i \in DOMAIN q.hits : q.hits[i].f = f

\* What search_facts and get_fact have returned, and what is left to fetch.
RowsOK(q, fs) ==
  /\ ListOK(q.rows, Item)
  /\ DistinctRows(q.got)
  /\ \A x \in q.got : /\ x.f \in q.live
                      /\ x.f \in Steady(q) => x.c = fs[x.f].c
  /\ q.todo \in Seq(Id)
  /\ \A i, j \in DOMAIN q.todo : q.todo[i] = q.todo[j] => i = j
  /\ \A i \in DOMAIN q.todo : \A x \in q.got : x.f # q.todo[i]
  /\ \A i \in DOMAIN q.hits : q.hits[i].f \in Steady(q) =>
       \/ \E x \in q.got : x.f = q.hits[i].f
       \/ \E j \in DOMAIN q.todo : q.todo[j] = q.hits[i].f

AfterFetch == {"assemble", "summarize", "record_summary", "done"}
AfterKeywords == {"fetch"} \cup AfterFetch
AfterVectors == {"keywords"} \cup AfterKeywords

SearchGoes(q, fs, vs) ==
  /\ q.in.limit \in 1 .. MAX_SEARCH_LIMIT
  /\ IsFiniteSet(q.near)
  /\ Holds(q, fs, vs)
  /\ q.pc \in AfterVectors => HitsOK(q, fs)
  /\ q.pc \in AfterKeywords => RowsOK(q, fs)
  /\ q.pc = "fetch" => q.todo # <<>>
  /\ q.pc \in AfterFetch => /\ q.todo = <<>>
                            /\ q.results = Rank(q.hits, q.rows, q.got, q.in.limit)

SearchOK(q, fs, vs) == Sees(q, fs, vs) /\ SearchGoes(q, fs, vs)

SearchInv ==
  /\ PointsOK(vectors)
  /\ \A r \in Request : req[r].pc # "idle" =>
       (req[r].in.op \in Searches => SearchOK(req[r], facts, vectors))

-----------------------------------------------------------------------------
(* What a step does to the requests that do not take it. *)

\* p is q, perhaps no longer alone and with more of its history seen.
Seen(q, p, fs) ==
  /\ p.pc = q.pc
  /\ q.pc # "idle" =>
       /\ p = [k \in Fields |-> p[k]]
       /\ \A k \in Fields \ {"live", "near", "touched", "alone"} : p[k] = q[k]
       /\ p.alone \in BOOLEAN /\ (p.alone => q.alone)
       /\ q.in.op \in Admin => q.live \subseteq p.live /\ q.near \subseteq p.near
       /\ CountsSeen(p, fs)

\* Watch adds to what has been seen.
LEMMA WatchSeen ==
  ASSUME NEW q, NEW fs, NEW vs, q.pc = "idle" \/ Req(q)
  PROVE  Seen(q, Watch(q, fs, vs), fs)
<1> DEFINE p == Watch(q, fs, vs)
<1>1. CASE q.pc = "idle"
  BY <1>1 DEF Watch, Seen
<1>2. CASE q.pc # "idle"
  <2>1. /\ q = [k \in Fields |-> q[k]] /\ q.alone \in BOOLEAN
    BY <1>2 DEF Req
  <2>2. CASE q.in.op \in Searches
    <3>1. q.in.op \notin Admin
      BY <2>2 DEF Searches, Admin
    <3>2. /\ p = [k \in Fields |-> p[k]]
          /\ \A k \in Fields \ {"live", "near", "touched"} : p[k] = q[k]
      BY <1>2, <2>1, <2>2, <3>1 DEF Watch, Fields
    <3> HIDE DEF p
    <3>3. p.pc = q.pc /\ p.in = q.in /\ p.alone = q.alone
      BY <3>2 DEF Fields
    <3>4. Seen(q, p, fs)
      BY <1>2, <2>1, <3>1, <3>2, <3>3 DEF Seen, CountsSeen
    <3> QED  BY <3>4 DEF p
  <2>3. CASE q.in.op \in Admin
    <3>1. q.in.op \notin Searches
      BY <2>3 DEF Searches, Admin
    <3>2. p = [q EXCEPT !.live = @ \cup {<<o, CountFactsIn(fs, o)>> : o \in Orgs},
                        !.near = @ \cup {<<o, CountUsersIn(fs, o)>> : o \in Orgs}]
      BY <1>2, <2>3, <3>1 DEF Watch
    <3> HIDE DEF p
    <3>3. /\ p = [k \in Fields |-> p[k]]
          /\ \A k \in Fields \ {"live", "near"} : p[k] = q[k]
          /\ p.live = q.live \cup {<<o, CountFactsIn(fs, o)>> : o \in Orgs}
          /\ p.near = q.near \cup {<<o, CountUsersIn(fs, o)>> : o \in Orgs}
      BY <2>1, <3>2 DEF Fields
    <3>4. p.pc = q.pc /\ p.in = q.in /\ p.alone = q.alone
      BY <3>3 DEF Fields
    <3>5. CountsSeen(p, fs)
      BY <3>3 DEF CountsSeen
    <3>6. Seen(q, p, fs)
      BY <1>2, <2>1, <3>3, <3>4, <3>5 DEF Seen
    <3> QED  BY <3>6 DEF p
  <2>4. CASE q.in.op \notin Searches \cup Admin
    <3>1. p = q
      BY <1>2, <2>4 DEF Watch
    <3>2. Seen(q, q, fs)
      BY <2>1, <2>4 DEF Seen, CountsSeen
    <3> QED  BY <3>1, <3>2
  <2> QED  BY <2>2, <2>3, <2>4
<1> QED  BY <1>1, <1>2

\* A request that nobody changes has seen the counts of a table that nobody
\* changes.
LEMMA SameSeen ==
  ASSUME NEW q, NEW fs, q.pc = "idle" \/ (Req(q) /\ CountsSeen(q, fs))
  PROVE  Seen(q, q, fs)
  BY DEF Seen, Req

\* A step of r with which r goes on as q, as the others see it.
Moved(r, q) ==
  /\ DOMAIN req' = Request
  /\ \A s \in Request \ {r} : Seen(req[s], req'[s], facts')
  /\ Seen(q, req'[r], facts')

\* A step that changes the tables.
LEMMA StepMoved ==
  ASSUME Requests, NEW r \in Request, NEW q, NEW fs, NEW vs,
         q.pc = "idle" \/ Req(q), Step(r, q, fs, vs)
  PROVE  facts' = fs /\ vectors' = vs /\ Moved(r, q)
<1>1. /\ facts' = fs /\ vectors' = vs
      /\ req' = [s \in Request |-> Watch(IF s = r THEN q ELSE req[s], fs, vs)]
  BY DEF Step
<1>2. DOMAIN req' = Request
  BY <1>1
<1>3. \A s \in Request \ {r} : req'[s] = Watch(req[s], fs, vs)
  BY <1>1
<1>4. req'[r] = Watch(q, fs, vs)
  BY <1>1
<1>5. \A s \in Request \ {r} : Seen(req[s], req'[s], facts')
  BY <1>1, <1>3, WatchSeen DEF Requests
<1>6. Seen(q, req'[r], facts')
  BY <1>1, <1>4, WatchSeen
<1> QED  BY <1>1, <1>2, <1>5, <1>6 DEF Moved

\* A step that only reads, or writes other tables.
LEMMA LookMoved ==
  ASSUME Requests, Counts, NEW r \in Request, NEW q,
         req' = [req EXCEPT ![r] = q], facts' = facts,
         q.pc = "idle" \/ (Req(q) /\ CountsSeen(q, facts))
  PROVE  Moved(r, q)
<1>1. DOMAIN req' = Request /\ req'[r] = q
  BY DEF Requests
<1>2. \A s \in Request \ {r} : req'[s] = req[s]
  BY DEF Requests
<1>3. \A s \in Request \ {r} : Seen(req[s], req'[s], facts')
  BY <1>2, SameSeen DEF Requests, Counts
<1>4. Seen(q, req'[r], facts')
  BY <1>1, SameSeen
<1> QED  BY <1>1, <1>3, <1>4 DEF Moved

\* What a request is in the middle of stays so when it has only seen more.
LEMMA SeenFields ==
  ASSUME NEW q, NEW p, NEW fs, Seen(q, p, fs), q.pc # "idle"
  PROVE  /\ p.pc = q.pc /\ p.in = q.in /\ p.rows = q.rows /\ p.todo = q.todo
         /\ p.got = q.got /\ p.results = q.results /\ p.asm = q.asm
         /\ p.bad = q.bad /\ p.status = q.status /\ p.events = q.events
         /\ p.alone \in BOOLEAN /\ (p.alone => q.alone)
         /\ p = [k \in Fields |-> p[k]]
  BY DEF Seen, Fields

\* It is where it was.
LEMMA SeenReq ==
  ASSUME NEW q, NEW p, NEW fs, Seen(q, p, fs), q.pc # "idle", Req(q)
  PROVE  Req(p)
<1>1. OnTrack(p)
  BY SeenFields DEF Req, OnTrack
<1> QED  BY <1>1, SeenFields DEF Req

\* The tables change under an import only if it is not alone.
LEMMA SeenImport ==
  ASSUME NEW q, NEW p, NEW fs, NEW vs, NEW gs, NEW ws,
         Seen(q, p, gs), q.pc # "idle", ImportOK(q, fs, vs),
         p.alone => gs = fs /\ ws = vs
  PROVE  ImportOK(p, gs, ws)
<1> SUFFICES ASSUME p.in.op = "import"
             PROVE  ImportOK(p, gs, ws)
  BY DEF ImportOK
<1>1. /\ p.pc = q.pc /\ p.in = q.in /\ p.rows = q.rows /\ p.todo = q.todo
      /\ p.asm = q.asm /\ (p.alone => q.alone)
  BY SeenFields
<1>2. q.asm \in Dump
  BY <1>1 DEF ImportOK
<1>3. CASE q.in.dry
  BY <1>1, <1>2, <1>3 DEF ImportOK
<1>4. CASE ~q.in.dry
  <2>1. PICK n \in Nat : Importing(q, n, fs, vs)
    BY <1>1, <1>4 DEF ImportOK
  <2>2. Importing(p, n, gs, ws)
    BY <1>1, <2>1 DEF Importing
  <2> QED  BY <1>1, <1>2, <1>4, <2>2 DEF ImportOK
<1> QED  BY <1>3, <1>4

\* Others record calls and name tenants only if it is not alone.
LEMMA SeenBill ==
  ASSUME NEW q, NEW p, NEW fs, Seen(q, p, fs), q.pc # "idle",
         NEW n \in Nat, NEW m \in Nat, n <= m, NEW t, NEW u, NEW es, NEW ds,
         BillOK(q, n, t, es),
         p.alone => u = t /\ ds \subseteq es
  PROVE  BillOK(p, m, u, ds)
<1>1. p.in = q.in /\ p.events = q.events /\ (p.alone => q.alone)
  BY SeenFields
<1>2. \A i \in p.events : i \in Nat /\ i < m
  BY <1>1 DEF BillOK
<1> QED  BY <1>1, <1>2 DEF BillOK

\* The numbers it has read stay true, and the calls only become more.
LEMMA SeenCounts ==
  ASSUME NEW q, NEW p, NEW fs, Seen(q, p, fs), q.pc # "idle",
         NEW n \in Nat, NEW m \in Nat, n <= m, CountsRead(q, n)
  PROVE  CountsSeen(p, fs) /\ CountsRead(p, m)
<1>1. CountsSeen(p, fs)
  BY DEF Seen
<1>2. /\ p.pc = q.pc /\ p.in = q.in /\ p.rows = q.rows /\ p.todo = q.todo
      /\ p.got = q.got /\ p.results = q.results
  BY SeenFields
<1>3. q.in.op \in Admin => q.live \subseteq p.live /\ q.near \subseteq p.near
  BY DEF Seen
<1>4. CountsRead(p, m)
  <2> SUFFICES ASSUME q.in.op \in Admin PROVE CountsRead(p, m)
    BY <1>2 DEF CountsRead
  <2>1. \A i \in DOMAIN p.results :
          /\ <<p.results[i].org, p.results[i].facts>> \in p.live
          /\ <<p.results[i].org, p.results[i].users>> \in p.near
    BY <1>2, <1>3 DEF CountsRead
  <2>2. p.pc \in {"latest", "count_users"} =>
          \E a \in Nat : p.rows = <<a>> /\ <<Head(p.todo), a>> \in p.live
    BY <1>2, <1>3 DEF CountsRead
  <2>3. \/ p.pc \in {"keep", "usage"}
        \/ p.pc = "done" /\ p.in.op \in {"summary", "dashboard"}
        => \E a, b \in Nat : /\ p.rows = <<a, b>>
                             /\ <<Head(p.todo), a>> \in p.live
                             /\ <<Head(p.todo), b>> \in p.near
    BY <1>2, <1>3 DEF CountsRead
  <2>4. \A u \in p.got : u.requests \in Nat /\ u.requests <= m
    BY <1>2 DEF CountsRead
  <2> QED  BY <1>2, <2>1, <2>2, <2>3, <2>4 DEF CountsRead
<1> QED  BY <1>1, <1>4

\* Snapshots stay, and rows of the usage store go only if it is not alone.
LEMMA SeenJob ==
  ASSUME NEW q, NEW p, NEW fs, Seen(q, p, fs), q.pc # "idle",
         NEW ss, NEW rs, NEW es, NEW ds, JobOK(q, ss, es),
         \A j \in DOMAIN ss : j \in DOMAIN rs /\ rs[j] = ss[j],
         p.alone => es \subseteq ds /\ IsFiniteSet(ds)
  PROVE  JobOK(p, rs, ds)
<1> SUFFICES ASSUME p.in.op \in Jobs PROVE JobOK(p, rs, ds)
  BY DEF JobOK
<1>1. /\ p.pc = q.pc /\ p.in = q.in /\ p.rows = q.rows /\ p.todo = q.todo
      /\ p.bad = q.bad /\ p.results = q.results /\ p.status = q.status
      /\ (p.alone => q.alone)
  BY SeenFields
<1>2. \A n \in Nat : Serving(q, n) => Serving(p, n)
  BY <1>1 DEF Serving, ServedBy, JobStatus
<1>3. p.in.op = "job" => \A i \in DOMAIN p.results :
                           \E j \in DOMAIN rs : rs[j] = p.results[i]
  BY <1>1 DEF JobOK
<1>4. p.pc = "expire" =>
        \E m \in Nat : /\ p.rows = <<m>>
                       /\ p.alone => m <= Cardinality(ExpiredIn(p, ds))
  <2> SUFFICES ASSUME p.pc = "expire"
               PROVE  \E m \in Nat : /\ p.rows = <<m>>
                                     /\ p.alone => m <= Cardinality(ExpiredIn(p, ds))
    OBVIOUS
  <2>1. PICK m \in Nat : /\ q.rows = <<m>>
                         /\ q.alone => m <= Cardinality(ExpiredIn(q, es))
    BY <1>1 DEF JobOK
  <2>2. CASE p.alone
    <3>1. ExpiredIn(q, es) \subseteq ExpiredIn(p, ds) /\ ExpiredIn(p, ds) \subseteq ds
      BY <1>1, <2>2 DEF ExpiredIn
    <3>2. IsFiniteSet(ExpiredIn(p, ds))
      BY <2>2, <3>1, FS_Subset
    <3>3. /\ IsFiniteSet(ExpiredIn(q, es))
          /\ Cardinality(ExpiredIn(q, es)) <= Cardinality(ExpiredIn(p, ds))
      BY <3>1, <3>2, FS_Subset
    <3>4. /\ Cardinality(ExpiredIn(q, es)) \in Nat
          /\ Cardinality(ExpiredIn(p, ds)) \in Nat
      BY <3>2, <3>3, FS_CardinalityType
    <3> QED  BY <1>1, <2>1, <2>2, <3>3, <3>4
  <2> QED  BY <1>1, <2>1, <2>2
<1> QED  BY <1>1, <1>2, <1>3, <1>4 DEF JobOK

-----------------------------------------------------------------------------
(* A step of one running request. *)

\* The snapshots are those of before, with perhaps one more.
SnapshotsGrow ==
  /\ snapshots' \in Seq(Reported)
  /\ \A j \in DOMAIN snapshots : j \in DOMAIN snapshots' /\ snapshots'[j] = snapshots[j]

\* All that is known of a running request, after a step.
GoodAfter(q) ==
  /\ Req(q) /\ ImportOK(q, facts', vectors')
  /\ BillOK(q, calls', attribution', pending' \cup persisted')
  /\ CountsRead(q, calls') /\ JobOK(q, snapshots', persisted')

\* A request that does not take the step, if it is no longer alone or nothing
\* of what it counts on changes.
LEMMA SeenGood ==
  ASSUME ReadingInv, UsageInv', NEW s \in Request, Seen(req[s], req'[s], facts'),
         req'[s].pc # "idle", SnapshotsGrow, calls' >= calls,
         req'[s].alone =>
           /\ facts' = facts /\ vectors' = vectors /\ attribution' = attribution
           /\ pending' \cup persisted' \subseteq pending \cup persisted
           /\ persisted \subseteq persisted'
  PROVE  /\ req[s].pc # "idle" /\ (req'[s].alone => req[s].alone)
         /\ GoodAfter(req'[s]) /\ CountsSeen(req'[s], facts')
<1> USE DEF ReadingInv
<1> DEFINE o == req[s]
           p == req'[s]
<1>1. calls \in Nat /\ calls' \in Nat /\ IsFiniteSet(persisted')
  BY DEF UsageInv, CountersOK, EventsOK
<1>2. o.pc # "idle"
  BY DEF Seen
<1>3. /\ Req(o) /\ ImportOK(o, facts, vectors)
      /\ BillOK(o, calls, attribution, pending \cup persisted)
      /\ CountsRead(o, calls) /\ JobOK(o, snapshots, persisted)
  BY <1>2 DEF Requests, Imports, Bills, Counts, JobsOK
<1>4. Seen(o, p, facts')
  OBVIOUS
<1>5. p.alone =>
        /\ facts' = facts /\ vectors' = vectors /\ attribution' = attribution
        /\ pending' \cup persisted' \subseteq pending \cup persisted
        /\ persisted \subseteq persisted'
  OBVIOUS
<1> HIDE DEF o, p
<1>6. Req(p)
  BY <1>2, <1>3, <1>4, SeenReq
<1>7. ImportOK(p, facts', vectors')
  BY <1>2, <1>3, <1>4, <1>5, SeenImport
<1>8. BillOK(p, calls', attribution', pending' \cup persisted')
  <2> DEFINE es == pending \cup persisted
             ds == pending' \cup persisted'
  <2>1. BillOK(o, calls, attribution, es) /\ (p.alone => attribution' = attribution /\ ds \subseteq es)
    BY <1>3, <1>5
  <2> HIDE DEF es, ds
  <2>2. BillOK(p, calls', attribution', ds)
    BY <1>1, <1>2, <1>4, <2>1, SeenBill
  <2> QED  BY <2>2 DEF ds
<1>9. CountsSeen(p, facts') /\ CountsRead(p, calls')
  BY <1>1, <1>2, <1>3, <1>4, SeenCounts
<1>10. JobOK(p, snapshots', persisted')
  BY <1>1, <1>2, <1>3, <1>4, <1>5, SeenJob DEF SnapshotsGrow
<1>11. p.alone => o.alone
  BY <1>2, <1>4, SeenFields
<1> QED  BY <1>2, <1>6, <1>7, <1>8, <1>9, <1>10, <1>11 DEF o, p, GoodAfter

\* The request that takes the step, which then sees the tables.
LEMMA OwnGood ==
  ASSUME ReadingInv, UsageInv', NEW r \in Request, NEW q, Seen(q, req'[r], facts'),
         q.pc # "idle", GoodAfter(q)
  PROVE  /\ GoodAfter(req'[r]) /\ CountsSeen(req'[r], facts')
         /\ (req'[r].alone => q.alone)
<1> DEFINE p == req'[r]
<1>1. calls' \in Nat /\ IsFiniteSet(persisted')
  BY DEF UsageInv, CountersOK, EventsOK
<1>2. Seen(q, p, facts')
  OBVIOUS
<1>3. /\ Req(q) /\ ImportOK(q, facts', vectors')
      /\ BillOK(q, calls', attribution', pending' \cup persisted')
      /\ CountsRead(q, calls') /\ JobOK(q, snapshots', persisted')
  BY DEF GoodAfter
<1> HIDE DEF p
<1>4. Req(p)
  BY <1>2, <1>3, SeenReq
<1>5. ImportOK(p, facts', vectors')
  BY <1>2, <1>3, SeenImport
<1>6. BillOK(p, calls', attribution', pending' \cup persisted')
  BY <1>1, <1>2, <1>3, SeenBill
<1>7. CountsSeen(p, facts') /\ CountsRead(p, calls')
  BY <1>1, <1>2, <1>3, SeenCounts
<1>8. JobOK(p, snapshots', persisted')
  BY <1>1, <1>2, <1>3, SeenJob
<1>9. p.alone => q.alone
  BY <1>2, SeenFields
<1> QED  BY <1>4, <1>5, <1>6, <1>7, <1>8, <1>9 DEF p, GoodAfter

\* The invariant, from its parts for each request.
LEMMA AllGood ==
  ASSUME UsageInv', DOMAIN req' = Request, SnapshotsGrow, TablesTyped', Alone',
         \A s \in Request : req'[s].pc # "idle" =>
                              GoodAfter(req'[s]) /\ CountsSeen(req'[s], facts')
  PROVE  ReadingInv'
<1>1. Requests'
  BY DEF Requests, GoodAfter
<1>2. Imports' /\ Bills' /\ Counts'
  BY DEF Imports, Bills, Counts, GoodAfter
<1>3. JobsOK'
  BY DEF JobsOK, SnapshotsGrow, GoodAfter
<1> QED  BY <1>1, <1>2, <1>3 DEF ReadingInv

\* The others are not alone, and the request itself goes on as it should.
LEMMA MovedKeeps ==
  ASSUME ReadingInv, NEW r \in Request, req[r].pc # "idle", NEW q, Moved(r, q),
         q.pc = "idle" \/ (GoodAfter(q) /\ q.alone = req[r].alone),
         SnapshotsGrow, TablesTyped', UsageInv', calls' >= calls
  PROVE  ReadingInv'
<1>1. DOMAIN req' = Request /\ Seen(q, req'[r], facts')
  BY DEF Moved
<1>2. ASSUME NEW s \in Request \ {r}, req'[s].pc # "idle"
      PROVE  /\ req[s].pc # "idle" /\ ~req'[s].alone
             /\ GoodAfter(req'[s]) /\ CountsSeen(req'[s], facts')
  <2>1. Seen(req[s], req'[s], facts')
    BY DEF Moved
  <2>2. req[s].pc # "idle"
    BY <1>2, <2>1 DEF Seen
  <2>3. ~req[s].alone
    BY <2>2 DEF ReadingInv, Alone
  <2>4. ~req'[s].alone
    BY <2>1, <2>2, <2>3, SeenFields
  <2> QED  BY <1>2, <2>1, <2>2, <2>4, SeenGood
<1>3. ASSUME req'[r].pc # "idle"
      PROVE  /\ GoodAfter(req'[r]) /\ CountsSeen(req'[r], facts')
             /\ (req'[r].alone => req[r].alone)
  <2>1. q.pc # "idle"
    BY <1>1, <1>3 DEF Seen
  <2> QED  BY <1>1, <2>1, OwnGood
<1>4. Alone'
  <2> SUFFICES ASSUME NEW a \in Request, NEW b \in Request, a # b,
                      req'[a].pc # "idle", req'[b].pc # "idle"
               PROVE  ~req'[a].alone
    BY DEF Alone
  <2>1. CASE a = r
    <3>1. b \in Request \ {r} /\ req[b].pc # "idle"
      BY <1>2, <2>1
    <3>2. ~req[r].alone
      BY <3>1 DEF ReadingInv, Alone
    <3> QED  BY <1>3, <2>1, <3>2
  <2>2. CASE a # r
    BY <1>2, <2>2
  <2> QED  BY <2>1, <2>2
<1> QED  BY <1>1, <1>2, <1>3, <1>4, AllGood

-----------------------------------------------------------------------------
(* The steps of searches and contexts. *)

\* The operations.
LEMMA AskedOps ==
  ASSUME NEW in \in Input
  PROVE  /\ in.op \in Searches \cup {"export", "import", "update", "delete"}
                        \cup Admin \cup Jobs
         /\ in.t \in Tenant
         /\ in.op = "import" => in.dry \in BOOLEAN
         /\ in.op \in {"update", "delete"} => in.f \in Id /\ in.c \in Content
         /\ in.op \in Admin \ Jobs => in.orgs \in {<<o>> : o \in Orgs}
         /\ in.op \in Jobs => in.orgs \in Seq(Orgs) /\ in.cutoff \in Nat
<1>1. in \in Asked
  BY ReadingConstants
<1>2. CASE in \in [op : Searches, t : Tenant, q : Query,
                   types : SUBSET {TypeOf[c] : c \in Content}, limit : Nat]
  BY <1>2 DEF Searches, Admin, Jobs
<1>3. CASE in \in [op : {"export"}, t : Tenant, deleted : BOOLEAN]
  BY <1>3 DEF Searches, Admin, Jobs
<1>4. CASE in \in [op : {"import"}, t : Tenant, dry : BOOLEAN]
  BY <1>4 DEF Searches, Admin, Jobs
<1>5. CASE in \in [op : {"update", "delete"}, t : Tenant, f : Id, c : Content]
  BY <1>5 DEF Searches, Admin, Jobs
<1>6. CASE in \in [op : Admin \ Jobs, t : Tenant, orgs : {<<o>> : o \in Orgs}]
  <2>1. in.op \in Admin \ Jobs /\ in.t \in Tenant /\ in.orgs \in {<<o>> : o \in Orgs}
    BY <1>6
  <2> QED  BY <2>1 DEF Admin, Jobs
<1>7. CASE in \in [op : Jobs, t : Tenant, orgs : Seq(Orgs), cutoff : Nat]
  <2>1. in.op \in Jobs /\ in.t \in Tenant /\ in.orgs \in Seq(Orgs) /\ in.cutoff \in Nat
    BY <1>7
  <2> QED  BY <2>1 DEF Admin, Jobs
<1> QED  BY <1>1, <1>2, <1>3, <1>4, <1>5, <1>6, <1>7 DEF Asked

\* Who may be where.
LEMMA Where ==
  ASSUME NEW q, Req(q)
  PROVE  /\ q.pc \in {"vectors", "keywords", "fetch", "assemble", "summarize",
                      "record_summary"} => q.in.op \in Searches
         /\ q.pc \in {"embed", "record_embed"} =>
              q.in.op \in Searches \cup {"import", "update"}
         /\ q.pc \in {"wipe_facts", "wipe_vectors", "insert"} => q.in.op = "import"
         /\ q.pc \in {"row", "unpoint"} => q.in.op \in {"update", "delete"}
         /\ q.pc \in {"upsert", "point"} => q.in.op \in {"import", "update"}
         /\ q.pc \in {"count_facts", "count_users"} => q.in.op \in Admin
         /\ q.pc \in {"latest", "usage"} => q.in.op = "dashboard"
         /\ q.pc = "keep" => q.in.op \in {"snapshot", "job"}
         /\ q.pc \in {"match", "expire"} => q.in.op = "purge"
<1>1. q.in.op \in Searches \cup {"import", "update", "delete"} \cup Admin \cup Jobs
  BY AskedOps DEF Req
<1>2. OnTrack(q)
  BY DEF Req
<1> QED
  BY <1>1, <1>2 DEF OnTrack, Searches, Admin, Jobs, SearchSteps, ImportSteps,
                    UpdateSteps, DeleteSteps

\* What the invariant says of a running request.
LEMMA RunningGood ==
  ASSUME ReadingInv, NEW r \in Request, req[r].pc # "idle"
  PROVE  /\ Req(req[r]) /\ ImportOK(req[r], facts, vectors)
         /\ BillOK(req[r], calls, attribution, pending \cup persisted)
         /\ CountsSeen(req[r], facts) /\ CountsRead(req[r], calls)
         /\ JobOK(req[r], snapshots, persisted)
         /\ req[r] = [k \in Fields |-> req[r][k]] /\ req[r].alone \in BOOLEAN
         /\ req[r].in \in Input
  BY DEF ReadingInv, Requests, Imports, Bills, Counts, JobsOK, Req

\* p is q at another place.
Alike(q, p) ==
  /\ p = [k \in Fields |-> p[k]]
  /\ p.in = q.in /\ p.alone = q.alone /\ p.events = q.events
  /\ p.live = q.live /\ p.near = q.near

\* Only the operations named count, import or are jobs.
LEMMA PlainGood ==
  ASSUME NEW p, Req(p), p.in.op \in Named \cup {"delete"},
         BillOK(p, calls', attribution', pending' \cup persisted')
  PROVE  GoodAfter(p)
  BY DEF GoodAfter, ImportOK, CountsRead, JobOK, Named, Searches, Admin, Jobs

\* Steps that leave the log alone leave the bill as it is.
LEMMA BillSame ==
  ASSUME NEW q, NEW p, BillOK(q, calls, attribution, pending \cup persisted),
         p.in = q.in, p.alone = q.alone, p.events = q.events,
         UNCHANGED <<calls, attribution, pending, persisted>>
  PROVE  BillOK(p, calls', attribution', pending' \cup persisted')
  BY DEF BillOK

\* Steps that leave the snapshots, the tables and the calls as they are.
LEMMA SnapshotsStay ==
  ASSUME ReadingInv, snapshots' = snapshots
  PROVE  SnapshotsGrow
  BY DEF ReadingInv, JobsOK, SnapshotsGrow

LEMMA TablesStay ==
  ASSUME ReadingInv, facts' = facts, dumps' = dumps
  PROVE  TablesTyped'
  BY DEF ReadingInv, TablesTyped

LEMMA CallsStay ==
  ASSUME ReadingInv, calls' = calls
  PROVE  calls' >= calls
  BY DEF ReadingInv, UsageInv, CountersOK

\* A step that reads.
LEMMA LookKeeps ==
  ASSUME ReadingInv, UsageInv', calls' >= calls, NEW r \in Request, req[r].pc # "idle",
         NEW p, Look(r, p), Alike(req[r], p), GoodAfter(p)
  PROVE  ReadingInv'
<1>1. /\ req' = [req EXCEPT ![r] = p] /\ facts' = facts /\ vectors' = vectors
      /\ dumps' = dumps /\ snapshots' = snapshots
  BY DEF Look
<1>2. CountsSeen(p, facts) /\ Req(p)
  BY RunningGood DEF Alike, CountsSeen, GoodAfter
<1>3. Moved(r, p)
  BY <1>1, <1>2, LookMoved DEF ReadingInv
<1>4. p.alone = req[r].alone
  BY DEF Alike
<1> QED  BY <1>1, <1>3, <1>4, MovedKeeps, SnapshotsStay, TablesStay

\* A step after which the request is gone.
LEMMA EndKeeps ==
  ASSUME ReadingInv, UsageInv', calls' >= calls, NEW r \in Request, req[r].pc # "idle",
         req' = [req EXCEPT ![r] = Idle], UNCHANGED tables
  PROVE  ReadingInv'
<1>1. /\ facts' = facts /\ vectors' = vectors /\ dumps' = dumps /\ snapshots' = snapshots
  BY DEF tables
<1>2. Idle.pc = "idle"
  BY DEF Idle
<1>3. Moved(r, Idle)
  BY <1>1, <1>2, LookMoved DEF ReadingInv
<1> QED  BY <1>1, <1>2, <1>3, MovedKeeps, SnapshotsStay, TablesStay

\* A search, at another step of it.
LEMMA SearchReq ==
  ASSUME NEW q, NEW p, Req(q), q.in.op \in Searches, Alike(q, p), p.pc \in SearchSteps
  PROVE  Req(p)
<1>1. p.in.op \in Searches /\ p.in \in Input /\ p.in.op # "export" /\ p.alone \in BOOLEAN
  BY DEF Alike, Req
<1>2. OnTrack(p)
  BY <1>1 DEF OnTrack, Searches
<1>3. p.pc # "idle"
  BY DEF SearchSteps
<1> QED  BY <1>1, <1>2, <1>3 DEF Req, Alike

\* A search that reads without a provider call.
LEMMA SearchLook ==
  ASSUME ReadingInv, UsageInv', NEW r \in Request, req[r].pc # "idle",
         req[r].in.op \in Searches, UNCHANGED usageVars,
         NEW p, Look(r, p), Alike(req[r], p), p.pc \in SearchSteps
  PROVE  ReadingInv'
<1>1. UNCHANGED <<calls, attribution, pending, persisted>>
  BY DEF usageVars
<1>2. BillOK(p, calls', attribution', pending' \cup persisted')
  BY <1>1, RunningGood, BillSame DEF Alike
<1>3. Req(p) /\ p.in.op \in Named \cup {"delete"}
  BY RunningGood, SearchReq DEF Alike, Named
<1>4. GoodAfter(p)
  BY <1>2, <1>3, PlainGood
<1> QED  BY <1>1, <1>4, LookKeeps, CallsStay

\* After a read, a search fetches, or ranks and ends or assembles.
LEMMA FetchOrRankIs ==
  ASSUME NEW q, q = [k \in Fields |-> q[k]], NEW p, p = FetchOrRank(q)
  PROVE  Alike(q, p) /\ p.pc \in SearchSteps
<1>1. CASE q.todo = <<>>
  BY <1>1 DEF FetchOrRank, Ranked, Alike, SearchSteps, Fields
<1>2. CASE q.todo # <<>>
  BY <1>2 DEF FetchOrRank, Alike, SearchSteps, Fields
<1> QED  BY <1>1, <1>2

\* search_vectors, search_facts, get_fact and the assembly of the context.
LEMMA SearchKeeps ==
  ASSUME ReadingInv, UsageInv', NEW r \in Request,
         Vectors(r) \/ Keywords(r) \/ Fetch(r) \/ Assemble(r)
  PROVE  ReadingInv'
<1> DEFINE q == req[r]
<1>1. q.pc \in {"vectors", "keywords", "fetch", "assemble"} /\ UNCHANGED usageVars
  BY DEF Vectors, Keywords, Fetch, Assemble
<1>2. q.pc # "idle"
  BY <1>1
<1>3. q = [k \in Fields |-> q[k]] /\ q.in.op \in Searches
  BY <1>1, <1>2, RunningGood, Where
<1>4. CASE Vectors(r)
  <2>1. PICK hits : Look(r, [q EXCEPT !.pc = "keywords", !.hits = hits])
    BY <1>4 DEF Vectors
  <2> DEFINE p == [q EXCEPT !.pc = "keywords", !.hits = hits]
  <2>2. Alike(q, p) /\ p.pc \in SearchSteps
    BY <1>3 DEF Alike, Fields, SearchSteps
  <2> QED  BY <1>1, <1>2, <1>3, <2>1, <2>2, SearchLook
<1>5. CASE Keywords(r)
  <2> DEFINE rows == SearchFacts(q.in)
             absent == {f \in Found(q.hits, rows) : RankIn(rows, f) = 0}
             todo == ReciprocalRankFusion(absent, q.hits, rows)
             o == [q EXCEPT !.rows = rows, !.got = ToSet(rows), !.todo = todo]
             p == FetchOrRank(o)
  <2>1. Look(r, p)
    BY <1>5 DEF Keywords
  <2> HIDE DEF rows, todo
  <2>2. o = [k \in Fields |-> o[k]] /\ Alike(q, o)
    BY <1>3 DEF Alike, Fields
  <2> HIDE DEF o
  <2>3. Alike(o, p) /\ p.pc \in SearchSteps
    BY <2>2, FetchOrRankIs
  <2>4. Alike(q, p)
    BY <2>2, <2>3 DEF Alike
  <2> QED  BY <1>1, <1>2, <1>3, <2>1, <2>3, <2>4, SearchLook
<1>6. CASE Fetch(r)
  <2> DEFINE o == [q EXCEPT !.todo = Tail(@),
                            !.got = @ \cup GetFact(Head(q.todo), q.in.t)]
             p == FetchOrRank(o)
  <2>1. Look(r, p)
    BY <1>6 DEF Fetch
  <2>2. o = [k \in Fields |-> o[k]] /\ Alike(q, o)
    BY <1>3 DEF Alike, Fields
  <2> HIDE DEF o
  <2>3. Alike(o, p) /\ p.pc \in SearchSteps
    BY <2>2, FetchOrRankIs
  <2>4. Alike(q, p)
    BY <2>2, <2>3 DEF Alike
  <2> QED  BY <1>1, <1>2, <1>3, <2>1, <2>3, <2>4, SearchLook
<1>7. CASE Assemble(r)
  <2>1. PICK opt : Look(r, AssembledAs(q, opt, AssembleContext(ItemsOf(q), opt)))
    BY <1>7 DEF Assemble
  <2> DEFINE asm == AssembleContext(ItemsOf(q), opt)
             p == AssembledAs(q, opt, asm)
  <2> HIDE DEF asm
  <2>2. Alike(q, p) /\ p.pc \in SearchSteps
    BY <1>3 DEF AssembledAs, Alike, Fields, SearchSteps
  <2>3. Look(r, p)
    BY <2>1 DEF asm
  <2> QED  BY <1>1, <1>2, <1>3, <2>2, <2>3, SearchLook
<1> QED  BY <1>4, <1>5, <1>6, <1>7

-----------------------------------------------------------------------------
(* Provider calls and their records. *)

\* An import is at the same fact while it is embedded.
LEMMA ImportAlong ==
  ASSUME NEW q, NEW p, NEW fs, NEW vs, ImportOK(q, fs, vs),
         p.in = q.in, p.asm = q.asm, p.rows = q.rows, p.todo = q.todo,
         p.alone = q.alone,
         q.pc \in {"embed", "record_embed"},
         p.pc \in {"embed", "record_embed", "upsert"}
  PROVE  ImportOK(p, fs, vs)
<1> SUFFICES ASSUME q.in.op = "import" PROVE ImportOK(p, fs, vs)
  BY DEF ImportOK
<1>1. q.asm \in Dump /\ ~q.in.dry
  BY DEF ImportOK
<1>2. PICK n \in Nat : Importing(q, n, fs, vs)
  BY <1>1 DEF ImportOK
<1>3. Importing(p, n, fs, vs)
  BY <1>2 DEF Importing, Replacing
<1> QED  BY <1>1, <1>3 DEF ImportOK

\* A step of a call: the request moves on, as its operation says.
LEMMA CallGood ==
  ASSUME ReadingInv, NEW r \in Request, req[r].pc # "idle",
         NEW p, Alike([req[r] EXCEPT !.events = p.events], p),
         p.asm = req[r].asm \/ req[r].in.op # "import",
         p.rows = req[r].rows, p.todo = req[r].todo,
         facts' = facts, vectors' = vectors,
         req[r].in.op \in Searches \cup {"import", "update"},
         req[r].in.op \in Searches => p.pc \in SearchSteps,
         req[r].in.op = "update" => p.pc \in UpdateSteps,
         req[r].in.op = "import" => /\ req[r].pc \in {"embed", "record_embed"}
                                    /\ p.pc \in {"record_embed", "upsert"},
         BillOK(p, calls', attribution', pending' \cup persisted')
  PROVE  GoodAfter(p)
<1> DEFINE q == req[r]
<1>1. q = [k \in Fields |-> q[k]] /\ Req(q) /\ ImportOK(q, facts, vectors)
  BY RunningGood
<1>2. /\ p = [k \in Fields |-> p[k]] /\ p.in = q.in /\ p.alone = q.alone
  BY <1>1 DEF Alike, Fields
<1> HIDE DEF q
<1>3. OnTrack(p) /\ p.pc # "idle"
  BY <1>2 DEF OnTrack, Searches, SearchSteps, UpdateSteps, ImportSteps, q
<1>4. Req(p)
  BY <1>1, <1>2, <1>3 DEF Req
<1>5. CASE q.in.op = "import"
  <2>1. ImportOK(p, facts', vectors')
    BY <1>1, <1>2, <1>5, ImportAlong DEF q
  <2> QED
    BY <1>2, <1>4, <1>5, <2>1 DEF GoodAfter, CountsRead, JobOK, Admin, Jobs
<1>6. CASE q.in.op # "import"
  BY <1>2, <1>4, <1>6, PlainGood DEF Named, q
<1> QED  BY <1>5, <1>6

\* A call that is not recorded yet.
LEMMA StoreBill ==
  ASSUME ReadingInv, NEW r \in Request, req[r].pc # "idle",
         NEW p, p.in = req[r].in, p.alone = req[r].alone, p.events = req[r].events,
         UNCHANGED <<calls, attribution, pending, persisted>>
  PROVE  BillOK(p, calls', attribution', pending' \cup persisted') /\ calls' >= calls
  BY RunningGood, BillSame, CallsStay

\* The call that is recorded is booked to whom the slot names.
LEMMA RecordBill ==
  ASSUME ReadingInv, NEW r \in Request, req[r].pc # "idle", NEW k, NEW ok,
         RecordUsage(k, ok), req[r].in.op \in Named \cup {"import"},
         NEW p, p.in = req[r].in, p.alone = req[r].alone,
         p.events = req[r].events \cup {calls}
  PROVE  BillOK(p, calls', attribution', pending' \cup persisted') /\ calls' >= calls
<1> DEFINE q == req[r]
           e == [id |-> calls, t |-> attribution, ok |-> ok, tokens |-> tokenSlot[k]]
<1>1. /\ pending' \subseteq pending \cup {e} /\ persisted' = persisted
      /\ calls' = calls + 1 /\ attribution' = attribution
  BY DEF RecordUsage
<1>2. /\ calls \in Nat
      /\ \A d \in pending \cup persisted : d.id \in Nat /\ d.id < calls
  BY DEF ReadingInv, UsageInv, CountersOK, EventsOK
<1>3. BillOK(q, calls, attribution, pending \cup persisted)
  BY RunningGood
<1>4. e.id = calls /\ e.t = attribution
  OBVIOUS
<1> HIDE DEF e, q
<1>5. \A i \in p.events : i \in Nat /\ i < calls'
  BY <1>1, <1>2, <1>3 DEF BillOK, q
<1>6. ASSUME p.alone, p.in.op # "import", NEW d \in pending' \cup persisted',
             d.id \in p.events
      PROVE  d.t = p.in.t
  <2>1. attribution = q.in.t
    BY <1>3, <1>6 DEF BillOK, q
  <2>2. CASE d = e
    BY <1>4, <2>1, <2>2 DEF q
  <2>3. CASE d # e
    <3>1. d \in pending \cup persisted
      BY <1>1, <2>3
    <3>2. d.id \in q.events
      BY <1>2, <1>6, <3>1 DEF q
    <3> QED  BY <1>3, <1>6, <3>1, <3>2 DEF BillOK, q
  <2> QED  BY <2>2, <2>3
<1>7. p.alone /\ p.in.op # "import" => (p.in.op \in Named => attribution' = p.in.t)
  BY <1>1, <1>3 DEF BillOK, q
<1> QED  BY <1>1, <1>2, <1>5, <1>6, <1>7 DEF BillOK

\* A look with which a call goes on.
LEMMA CallLook ==
  ASSUME ReadingInv, UsageInv', calls' >= calls, NEW r \in Request, req[r].pc # "idle",
         NEW p, Look(r, p), GoodAfter(p), p.alone = req[r].alone, p.in = req[r].in,
         p.live = req[r].live, p.near = req[r].near
  PROVE  ReadingInv'
<1>1. /\ req' = [req EXCEPT ![r] = p] /\ facts' = facts /\ vectors' = vectors
      /\ dumps' = dumps /\ snapshots' = snapshots
  BY DEF Look
<1>2. CountsSeen(p, facts) /\ Req(p)
  BY RunningGood DEF CountsSeen, GoodAfter
<1>3. Moved(r, p)
  BY <1>1, <1>2, LookMoved DEF ReadingInv
<1> QED  BY <1>1, <1>3, MovedKeeps, SnapshotsStay, TablesStay

\* embed_text and summarize_memory, answered or failed.
LEMMA CallKeeps ==
  ASSUME ReadingInv, UsageInv', NEW r \in Request,
         EmbedText(r) \/ SummarizeMemory(r) \/ CallErrs(r)
  PROVE  ReadingInv'
<1> DEFINE q == req[r]
<1>1. /\ UNCHANGED <<calls, attribution, pending, persisted>>
      /\ q.pc \in {"embed", "summarize"}
      /\ \E b : Look(r, [q EXCEPT !.pc = IF q.pc = "embed" THEN "record_embed"
                                                           ELSE "record_summary",
                                  !.ok = b])
  <2>1. CASE EmbedText(r)
    BY <2>1 DEF EmbedText, StoreTokens
  <2>2. CASE SummarizeMemory(r)
    BY <2>2 DEF SummarizeMemory, StoreTokens
  <2>3. CASE CallErrs(r)
    <3>1. q.pc \in {"embed", "summarize"} /\ UNCHANGED usageVars
          /\ Look(r, [q EXCEPT !.pc = RecordAt[q.pc], !.ok = FALSE])
      BY <2>3 DEF CallErrs, RecordAt
    <3>2. RecordAt[q.pc] = IF q.pc = "embed" THEN "record_embed" ELSE "record_summary"
      BY <3>1 DEF RecordAt
    <3> QED  BY <3>1, <3>2 DEF usageVars
  <2> QED  BY <2>1, <2>2, <2>3
<1>2. q.pc # "idle"
  BY <1>1
<1>3. /\ q = [k \in Fields |-> q[k]] /\ q.in.op \in Searches \cup {"import", "update"}
      /\ q.pc = "summarize" => q.in.op \in Searches
  BY <1>1, <1>2, RunningGood, Where
<1> DEFINE there == IF q.pc = "embed" THEN "record_embed" ELSE "record_summary"
<1>4. PICK b : Look(r, [q EXCEPT !.pc = there, !.ok = b])
  BY <1>1
<1> DEFINE p == [q EXCEPT !.pc = there, !.ok = b]
<1>5. /\ p = [k \in Fields |-> p[k]] /\ p.pc = there
      /\ \A k \in Fields \ {"pc", "ok"} : p[k] = q[k]
  BY <1>3 DEF Fields
<1> HIDE DEF p
<1>6. /\ p.in = q.in /\ p.alone = q.alone /\ p.events = q.events /\ p.live = q.live
      /\ p.near = q.near /\ p.asm = q.asm /\ p.rows = q.rows /\ p.todo = q.todo
  BY <1>5 DEF Fields
<1>7. BillOK(p, calls', attribution', pending' \cup persisted') /\ calls' >= calls
  BY <1>1, <1>2, <1>6, StoreBill
<1>8. Look(r, p) /\ facts' = facts /\ vectors' = vectors
  BY <1>4 DEF p, Look
<1>9. Alike([q EXCEPT !.events = p.events], p)
  BY <1>3, <1>5, <1>6 DEF Alike, Fields
<1>10. /\ q.in.op \in Searches => p.pc \in SearchSteps
       /\ q.in.op = "update" => p.pc \in UpdateSteps
       /\ q.in.op = "import" => /\ q.pc \in {"embed", "record_embed"}
                                /\ p.pc \in {"record_embed", "upsert"}
  BY <1>1, <1>3, <1>5 DEF SearchSteps, UpdateSteps, Searches
<1>11. GoodAfter(p)
  BY <1>2, <1>3, <1>6, <1>7, <1>8, <1>9, <1>10, CallGood
<1> QED  BY <1>2, <1>6, <1>7, <1>8, <1>11, CallLook

\* record_usage of an embedding.
LEMMA RecordEmbeddingKeeps ==
  ASSUME ReadingInv, UsageInv', NEW r \in Request, RecordEmbedding(r)
  PROVE  ReadingInv'
<1> DEFINE q == req[r]
<1>1. q.pc = "record_embed" /\ RecordUsage("embedding", q.ok)
  BY DEF RecordEmbedding
<1>2. q.pc # "idle"
  BY <1>1
<1>3. /\ q = [k \in Fields |-> q[k]] /\ q.in.op \in Searches \cup {"import", "update"}
  BY <1>1, <1>2, RunningGood, Where
<1>4. calls' >= calls
  BY <1>1 DEF RecordUsage, ReadingInv, UsageInv, CountersOK
<1>5. CASE q.ok
  <2> DEFINE p == [q EXCEPT !.pc = AfterEmbed[q.in.op], !.events = @ \cup {calls}]
  <2>1. Look(r, p) /\ facts' = facts /\ vectors' = vectors
    BY <1>5 DEF RecordEmbedding, Look
  <2>2. /\ p = [k \in Fields |-> p[k]] /\ p.pc = AfterEmbed[q.in.op]
        /\ p.events = q.events \cup {calls}
        /\ \A k \in Fields \ {"pc", "events"} : p[k] = q[k]
    BY <1>3 DEF Fields
  <2> HIDE DEF p
  <2>3. /\ p.in = q.in /\ p.alone = q.alone /\ p.live = q.live
        /\ p.near = q.near /\ p.asm = q.asm /\ p.rows = q.rows /\ p.todo = q.todo
    BY <2>2 DEF Fields
  <2>4. BillOK(p, calls', attribution', pending' \cup persisted')
    BY <1>1, <1>2, <1>3, <2>2, <2>3, RecordBill DEF Named
  <2>5. Alike([q EXCEPT !.events = p.events], p)
    BY <1>3, <2>2, <2>3 DEF Alike, Fields
  <2>6. /\ q.in.op \in Searches => p.pc \in SearchSteps
        /\ q.in.op = "update" => p.pc \in UpdateSteps
        /\ q.in.op = "import" => p.pc = "upsert"
    BY <1>3, <2>2 DEF SearchSteps, UpdateSteps, Searches, AfterEmbed
  <2>7. GoodAfter(p)
    BY <1>1, <1>2, <1>3, <2>1, <2>3, <2>4, <2>5, <2>6, CallGood
  <2> QED  BY <1>2, <1>4, <2>1, <2>3, <2>7, CallLook
<1>6. CASE ~q.ok
  <2>1. req' = [req EXCEPT ![r] = Idle] /\ UNCHANGED tables
    BY <1>6 DEF RecordEmbedding, Look, tables
  <2> QED  BY <1>2, <1>4, <2>1, EndKeeps
<1> QED  BY <1>5, <1>6

\* record_usage of a summary.
LEMMA RecordSummaryKeeps ==
  ASSUME ReadingInv, UsageInv', NEW r \in Request, RecordSummary(r)
  PROVE  ReadingInv'
<1> DEFINE q == req[r]
<1>1. /\ q.pc = "record_summary" /\ RecordUsage("summarization", q.ok)
      /\ \E asm : Look(r, [q EXCEPT !.pc = "done", !.events = @ \cup {calls}, !.asm = asm])
  BY DEF RecordSummary
<1>2. q.pc # "idle"
  BY <1>1
<1>3. /\ q = [k \in Fields |-> q[k]] /\ q.in.op \in Searches
  BY <1>1, <1>2, RunningGood, Where
<1>4. calls' >= calls
  BY <1>1 DEF RecordUsage, ReadingInv, UsageInv, CountersOK
<1>5. PICK asm : Look(r, [q EXCEPT !.pc = "done", !.events = @ \cup {calls}, !.asm = asm])
  BY <1>1
<1> DEFINE p == [q EXCEPT !.pc = "done", !.events = @ \cup {calls}, !.asm = asm]
<1>6. Look(r, p) /\ facts' = facts /\ vectors' = vectors
  BY <1>5 DEF Look
<1>7. /\ p = [k \in Fields |-> p[k]] /\ p.pc = "done" /\ p.events = q.events \cup {calls}
      /\ \A k \in Fields \ {"pc", "events", "asm"} : p[k] = q[k]
  BY <1>3 DEF Fields
<1> HIDE DEF p
<1>8. /\ p.in = q.in /\ p.alone = q.alone /\ p.live = q.live
      /\ p.near = q.near /\ p.rows = q.rows /\ p.todo = q.todo
  BY <1>7 DEF Fields
<1>9. BillOK(p, calls', attribution', pending' \cup persisted')
  BY <1>1, <1>2, <1>3, <1>7, <1>8, RecordBill DEF Named
<1>10. Alike([q EXCEPT !.events = p.events], p)
  BY <1>3, <1>7, <1>8 DEF Alike, Fields
<1>11. /\ p.pc \in SearchSteps /\ q.in.op # "import" /\ q.in.op # "update"
  BY <1>3, <1>7 DEF SearchSteps, Searches
<1>12. GoodAfter(p)
  BY <1>2, <1>3, <1>6, <1>8, <1>9, <1>10, <1>11, CallGood
<1> QED  BY <1>2, <1>4, <1>6, <1>8, <1>12, CallLook

\* The answer reaches the caller, or the request ends before.
LEMMA ReplyKeeps ==
  ASSUME ReadingInv, UsageInv', NEW r \in Request, Reply(r) \/ Fail(r)
  PROVE  ReadingInv'
<1>1. /\ req[r].pc # "idle" /\ req' = [req EXCEPT ![r] = Idle] /\ UNCHANGED tables
      /\ UNCHANGED usageVars
  BY DEF Reply, Fail
<1>2. calls' >= calls
  BY <1>1, CallsStay DEF usageVars
<1> QED  BY <1>1, <1>2, EndKeeps

-----------------------------------------------------------------------------
(* The steps of an import. *)

\* What is left of a sequence after its first n elements.
LEMMA Rest ==
  ASSUME NEW S, NEW s \in Seq(S), NEW n \in Nat, n <= Len(s)
  PROVE  /\ Len(s) \in Nat
         /\ SubSeq(s, n + 1, Len(s)) \in Seq(S)
         /\ SubSeq(s, n + 1, Len(s)) = <<>> <=> n = Len(s)
         /\ n < Len(s) =>
              /\ s[n + 1] \in S
              /\ Head(SubSeq(s, n + 1, Len(s))) = s[n + 1]
              /\ Tail(SubSeq(s, n + 1, Len(s))) = SubSeq(s, n + 1 + 1, Len(s))
<1> DEFINE rest == SubSeq(s, n + 1, Len(s))
           later == SubSeq(s, n + 1 + 1, Len(s))
<1>1. Len(s) \in Nat /\ \A i \in 1 .. Len(s) : s[i] \in S
  OBVIOUS
<1>2. /\ rest \in Seq(S) /\ Len(rest) = Len(s) - n
      /\ \A i \in 1 .. Len(s) - n : rest[i] = s[n + i]
  BY <1>1, SubSeqProperties
<1>3. rest = <<>> <=> n = Len(s)
  <2> HIDE DEF rest
  <2>1. rest = <<>> <=> Len(rest) = 0
    BY <1>2, EmptySeq
  <2> QED  BY <1>1, <1>2, <2>1
<1>4. ASSUME n < Len(s)
      PROVE  s[n + 1] \in S /\ Head(rest) = s[n + 1] /\ Tail(rest) = later
  <2>1. s[n + 1] \in S
    BY <1>1, <1>4
  <2>2. rest # <<>>
    BY <1>1, <1>3, <1>4
  <2>3. Head(rest) = s[n + 1]
    <3>1. Head(rest) = rest[1]
      BY <1>2, <2>2
    <3>2. rest[1] = s[n + 1]
      BY <1>1, <1>2, <1>4
    <3> QED  BY <3>1, <3>2
  <2>4. /\ Tail(rest) \in Seq(S) /\ Len(Tail(rest)) = Len(rest) - 1
        /\ \A i \in 1 .. Len(rest) - 1 : Tail(rest)[i] = rest[i + 1]
    BY <1>2, <2>2, HeadTailProperties
  <2>5. /\ later \in Seq(S) /\ Len(later) = Len(s) - (n + 1)
        /\ \A i \in 1 .. Len(s) - (n + 1) : later[i] = s[n + 1 + i]
    BY <1>1, <1>4, SubSeqProperties
  <2>6. Len(Tail(rest)) = Len(later)
    BY <1>1, <1>2, <2>4, <2>5
  <2>7. \A i \in 1 .. Len(later) : Tail(rest)[i] = later[i]
    BY <1>1, <1>2, <1>4, <2>4, <2>5
  <2>8. Tail(rest) = later
    BY <2>4, <2>5, <2>6, <2>7, SeqEqual
  <2> QED  BY <2>1, <2>3, <2>8
<1> QED  BY <1>1, <1>2, <1>3, <1>4

\* An import has only its own part of the invariant.
LEMMA ImportGood ==
  ASSUME ReadingInv, NEW r \in Request, req[r].pc # "idle", req[r].in.op = "import",
         NEW p, Alike(req[r], p), p.pc \in ImportSteps,
         UNCHANGED <<calls, attribution, pending, persisted>>,
         ImportOK(p, facts', vectors')
  PROVE  GoodAfter(p) /\ Req(p)
<1>1. BillOK(p, calls', attribution', pending' \cup persisted')
  BY RunningGood, BillSame DEF Alike
<1>2. p.in.op = "import" /\ p.in \in Input /\ p.alone \in BOOLEAN
  BY RunningGood DEF Alike
<1>3. OnTrack(p) /\ p.pc # "idle"
  BY <1>2 DEF OnTrack, Searches, ImportSteps
<1>4. Req(p)
  BY <1>2, <1>3 DEF Req, Alike
<1> QED  BY <1>1, <1>2, <1>4 DEF GoodAfter, CountsRead, JobOK, Admin, Jobs

\* A step that writes a table.
LEMMA StepKeeps ==
  ASSUME ReadingInv, UsageInv', NEW r \in Request, req[r].pc # "idle",
         NEW p, NEW fs, NEW vs, Step(r, p, fs, vs), Quiet,
         p.pc = "idle" \/ (Req(p) /\ p.alone = req[r].alone /\ GoodAfter(p)),
         fs \in [Id -> Row \cup {NoFact}]
  PROVE  ReadingInv'
<1>1. facts' = fs /\ vectors' = vs /\ Moved(r, p)
  BY StepMoved DEF ReadingInv
<1>2. dumps' = dumps /\ snapshots' = snapshots /\ calls' = calls
  BY DEF Quiet, usageVars
<1>3. TablesTyped'
  BY <1>1, <1>2 DEF ReadingInv, TablesTyped
<1> QED  BY <1>1, <1>2, <1>3, MovedKeeps, SnapshotsStay, CallsStay

\* Where an import is.
LEMMA ImportAt ==
  ASSUME ReadingInv, NEW r \in Request, req[r].pc # "idle", req[r].pc # "done",
         req[r].in.op = "import"
  PROVE  /\ req[r].asm \in Dump /\ req[r].asm.facts \in Seq(Item) /\ ~req[r].in.dry
         /\ \E n \in Nat : Importing(req[r], n, facts, vectors)
<1>1. ImportOK(req[r], facts, vectors)
  BY RunningGood
<1>2. req[r].asm \in Dump /\ ~req[r].in.dry
  BY <1>1 DEF ImportOK
<1>3. req[r].asm.facts \in Seq(Item)
  BY <1>2 DEF Dump
<1> QED  BY <1>1, <1>2, <1>3 DEF ImportOK

\* A row is there or not.
LEMMA RowOrNot ==
  ASSUME ReadingInv, NEW f \in Id
  PROVE  /\ facts[f] \in Row \cup {NoFact}
         /\ facts[f].st # "none" <=> facts[f] \in Row
         /\ NoFact \notin Row /\ NoFact.st = "none"
<1>1. facts[f] \in Row \cup {NoFact}
  BY DEF ReadingInv, TablesTyped
<1>2. NoFact.st = "none"
  BY DEF NoFact
<1>3. \A x \in Row : x.st # "none"
  BY DEF Row
<1> QED  BY <1>1, <1>2, <1>3

\* delete_user_data.
LEMMA WipeFactsKeeps ==
  ASSUME ReadingInv, UsageInv', NEW r \in Request, WipeFacts(r)
  PROVE  ReadingInv'
<1> DEFINE q == req[r]
           p == [q EXCEPT !.pc = "wipe_vectors"]
           t == q.in.t
           fs == [f \in Id |-> IF facts[f].st # "none" /\ facts[f].t = t
                               THEN NoFact ELSE facts[f]]
<1>1. q.pc = "wipe_facts" /\ Step(r, p, fs, vectors) /\ Quiet
  BY DEF WipeFacts
<1>2. q.pc # "idle" /\ q.pc # "done"
  BY <1>1
<1>3. q = [k \in Fields |-> q[k]] /\ q.in.op = "import"
  BY <1>1, <1>2, RunningGood, Where
<1>4. /\ Alike(q, p) /\ p.pc = "wipe_vectors" /\ p.asm = q.asm /\ p.rows = q.rows
      /\ p.todo = q.todo
  BY <1>3 DEF Alike, Fields
<1>5. facts' = fs /\ vectors' = vectors
  BY <1>1 DEF Step
<1>6. fs \in [Id -> Row \cup {NoFact}]
  BY RowOrNot
<1>7. Owned(fs, t) = {}
  BY RowOrNot DEF Owned
<1> HIDE DEF p, fs
<1>8. q.asm \in Dump /\ ~q.in.dry
  BY <1>2, <1>3, ImportAt
<1>9. PICK n \in Nat : Importing(q, n, facts, vectors)
  BY <1>2, <1>3, ImportAt
<1>10. Importing(p, n, fs, vectors)
  <2>1. RowsDone(p.asm.facts, p.in.t, 0, fs)
    BY <1>4, <1>7 DEF RowsDone, Alike
  <2>2. Replacing(p.pc, p.asm.facts, p.in.t, n, fs, vectors)
    BY <1>4, <2>1 DEF Replacing
  <2> QED  BY <1>1, <1>4, <1>9, <2>2 DEF Importing, Alike
<1>11. ImportOK(p, facts', vectors')
  BY <1>4, <1>5, <1>8, <1>10 DEF ImportOK, Alike
<1>12. UNCHANGED <<calls, attribution, pending, persisted>>
  BY <1>1 DEF Quiet, usageVars
<1>13. GoodAfter(p) /\ Req(p)
  BY <1>2, <1>3, <1>4, <1>11, <1>12, ImportGood DEF ImportSteps
<1>14. p.alone = q.alone
  BY <1>4 DEF Alike
<1> QED  BY <1>1, <1>2, <1>6, <1>13, <1>14, StepKeeps

\* The next fact of an import, or its end.
LEMMA NextFactIs ==
  ASSUME NEW q, q = [k \in Fields |-> q[k]], NEW p, p = NextFact(q)
  PROVE  /\ Alike(q, p) /\ p.asm = q.asm /\ p.rows = q.rows /\ p.todo = q.todo
         /\ p.pc = IF q.todo = <<>> THEN "done" ELSE "insert"
  BY DEF NextFact, Alike, Fields

\* delete_by_user.
LEMMA WipeVectorsKeeps ==
  ASSUME ReadingInv, UsageInv', NEW r \in Request, WipeVectors(r)
  PROVE  ReadingInv'
<1> DEFINE q == req[r]
           p == NextFact(q)
           t == q.in.t
           vs == vectors \ PointsIn(vectors, t)
<1>1. q.pc = "wipe_vectors" /\ Step(r, p, facts, vs) /\ Quiet
  BY DEF WipeVectors
<1>2. q.pc # "idle" /\ q.pc # "done"
  BY <1>1
<1>3. q = [k \in Fields |-> q[k]] /\ q.in.op = "import"
  BY <1>1, <1>2, RunningGood, Where
<1>4. /\ Alike(q, p) /\ p.asm = q.asm /\ p.rows = q.rows /\ p.todo = q.todo
      /\ p.pc = IF q.todo = <<>> THEN "done" ELSE "insert"
  BY <1>3, NextFactIs
<1>5. facts' = facts /\ vectors' = vs
  BY <1>1 DEF Step
<1>6. PointsIn(vs, t) = {}
  BY DEF PointsIn
<1> HIDE DEF p, vs
<1>7. q.asm \in Dump /\ q.asm.facts \in Seq(Item) /\ ~q.in.dry
  BY <1>2, <1>3, ImportAt
<1>8. PICK n \in Nat : Importing(q, n, facts, vectors)
  BY <1>2, <1>3, ImportAt
<1>9. /\ n = 0 /\ n <= Len(q.asm.facts)
      /\ q.todo = SubSeq(q.asm.facts, n + 1, Len(q.asm.facts))
  BY <1>1, <1>8 DEF Importing
<1>10. Len(q.asm.facts) \in Nat /\ (q.todo = <<>> <=> n = Len(q.asm.facts))
  BY <1>7, <1>9, Rest
<1>11. Importing(p, n, facts, vs)
  <2>1. PointsDone(p.asm.facts, p.in.t, 0, vs)
    BY <1>4, <1>6 DEF PointsDone, Alike
  <2>2. p.alone => Replacing(p.pc, p.asm.facts, p.in.t, n, facts, vs)
    <3>1. q.alone => RowsDone(q.asm.facts, t, 0, facts)
      BY <1>1, <1>8 DEF Importing, Replacing
    <3> QED  BY <1>4, <1>9, <2>1, <3>1 DEF Replacing, Alike
  <2>3. /\ ImportValid(q.asm, q.in.t) /\ q.rows = <<n>>
    BY <1>8 DEF Importing
  <2>4. /\ p.pc \in {"done", "insert"} /\ (p.pc = "done" <=> n = Len(q.asm.facts))
    BY <1>4, <1>10
  <2>5. p.in = q.in /\ p.alone = q.alone
    BY <1>4 DEF Alike
  <2> QED  BY <1>4, <1>9, <1>10, <2>2, <2>3, <2>4, <2>5 DEF Importing
<1>12. ImportOK(p, facts', vectors')
  BY <1>4, <1>5, <1>7, <1>11 DEF ImportOK, Alike
<1>13. UNCHANGED <<calls, attribution, pending, persisted>>
  BY <1>1 DEF Quiet, usageVars
<1>14. GoodAfter(p) /\ Req(p)
  BY <1>2, <1>3, <1>4, <1>12, <1>13, ImportGood DEF ImportSteps
<1>15. p.alone = q.alone
  BY <1>4 DEF Alike
<1>16. facts \in [Id -> Row \cup {NoFact}]
  BY DEF ReadingInv, TablesTyped
<1> QED  BY <1>1, <1>2, <1>14, <1>15, <1>16, StepKeeps

\* The next row of an import.
LEMMA RowsMore ==
  ASSUME NEW items \in Seq(Item), NEW t \in Tenant, NEW n \in Nat, n < Len(items),
         NEW fs \in [Id -> Row \cup {NoFact}], RowsDone(items, t, n, fs),
         fs[items[n + 1].f].st = "none",
         NEW gs, gs = [fs EXCEPT ![items[n + 1].f] = FactForImport(items[n + 1], t)]
  PROVE  /\ RowsDone(items, t, n + 1, gs)
         /\ \A i \in 1 .. n : items[i].f # items[n + 1].f
<1> DEFINE x == items[n + 1]
           row(y) == FactForImport(y, t)
<1>1. Len(items) \in Nat /\ \A i \in 1 .. n + 1 : items[i] \in Item
  OBVIOUS
<1>2. \A y \in Item : y.f \in Id /\ row(y) \in Row /\ row(y).t = t /\ row(y).st = "active"
  BY DEF Item, FactForImport, Row
<1>3. x \in Item /\ x.f \in Id
  BY <1>1, <1>2
<1>4. \A i \in 1 .. n : fs[items[i].f] = row(items[i])
  BY DEF RowsDone
<1>5. \A i \in 1 .. n : items[i].f # x.f
  BY <1>1, <1>2, <1>4
<1>6. \A i \in 1 .. n : gs[items[i].f] = row(items[i])
  <2>1. \A i \in 1 .. n : items[i].f \in Id
    BY <1>1, <1>2
  <2> QED  BY <1>4, <1>5, <2>1
<1>7. gs[x.f] = row(x)
  BY <1>3
<1>8. \A f \in Id : f # x.f => gs[f] = fs[f]
  OBVIOUS
<1>9. fs[x.f] \notin Row
  BY <1>3 DEF Row
<1>10. Owned(gs, t) = Owned(fs, t) \cup {x.f}
  BY <1>2, <1>3, <1>7, <1>8 DEF Owned
<1>11. {items[i].f : i \in 1 .. n + 1} = {items[i].f : i \in 1 .. n} \cup {x.f}
  <2>1. \A i : i \in 1 .. n + 1 <=> i \in 1 .. n \/ i = n + 1
    OBVIOUS
  <2> QED  BY <2>1
<1>12. Owned(gs, t) = {items[i].f : i \in 1 .. n + 1}
  BY <1>10, <1>11 DEF RowsDone
<1>13. \A i \in 1 .. n + 1 : gs[items[i].f] = row(items[i])
  <2>1. \A i \in 1 .. n + 1 : i \in 1 .. n \/ i = n + 1
    OBVIOUS
  <2> QED  BY <1>6, <1>7, <2>1
<1> QED  BY <1>5, <1>12, <1>13 DEF RowsDone

\* The next point of an import.
LEMMA PointsMore ==
  ASSUME NEW items, NEW t, NEW n \in Nat, NEW vs, PointsDone(items, t, n, vs),
         \A i \in 1 .. n : items[i].f # items[n + 1].f,
         NEW pt, pt.f = items[n + 1].f, pt.t = t, pt.c = items[n + 1].c,
         NEW ws, ws = vs \cup {pt}
  PROVE  PointsDone(items, t, n + 1, ws)
<1> DEFINE x == items[n + 1]
<1>1. \A i \in 1 .. n : items[i].f # x.f
  OBVIOUS
<1>2. {v.f : v \in PointsIn(vs, t)} = {items[i].f : i \in 1 .. n}
  BY DEF PointsDone
<1>3. pt.f = x.f /\ pt.t = t /\ pt.c = x.c
  OBVIOUS
<1>4. \A i : i \in 1 .. n + 1 <=> i \in 1 .. n \/ i = n + 1
  OBVIOUS
<1>5. {items[i].f : i \in 1 .. n + 1} = {items[i].f : i \in 1 .. n} \cup {x.f}
  BY <1>4
<1>6. {v.f : v \in PointsIn(ws, t)} = {v.f : v \in PointsIn(vs, t)} \cup {x.f}
  <2> HIDE DEF x
  <2>1. \A v : v \in PointsIn(ws, t) <=> v \in PointsIn(vs, t) \/ v = pt
    BY <1>3 DEF PointsIn
  <2> QED  BY <1>3, <2>1
<1>7. \A v \in vs : ~(v.f = x.f /\ v.t = t)
  <2> SUFFICES ASSUME NEW v \in vs, v.f = x.f, v.t = t PROVE FALSE
    OBVIOUS
  <2>1. v.f \in {w.f : w \in PointsIn(vs, t)}
    BY DEF PointsIn
  <2> HIDE DEF x
  <2> QED  BY <1>1, <1>2, <2>1
<1>8. PointsOf(ws, x.f, t) = {pt}
  <2> HIDE DEF x
  <2> QED  BY <1>3, <1>7 DEF PointsOf
<1>9. ASSUME NEW i \in 1 .. n
      PROVE  \E v \in ws : PointsOf(ws, items[i].f, t) = {v} /\ v.c = items[i].c
  <2>1. PICK v \in vs : PointsOf(vs, items[i].f, t) = {v} /\ v.c = items[i].c
    BY DEF PointsDone
  <2>2. pt.f # items[i].f
    BY <1>1, <1>3
  <2>3. PointsOf(ws, items[i].f, t) = PointsOf(vs, items[i].f, t)
    BY <2>2 DEF PointsOf
  <2> QED  BY <2>1, <2>3
<1>10. \A i \in 1 .. n + 1 :
         \E v \in ws : PointsOf(ws, items[i].f, t) = {v} /\ v.c = items[i].c
  <2> SUFFICES ASSUME NEW i \in 1 .. n + 1
               PROVE  \E v \in ws : PointsOf(ws, items[i].f, t) = {v} /\ v.c = items[i].c
    OBVIOUS
  <2>1. CASE i = n + 1
    BY <1>3, <1>8, <2>1
  <2>2. CASE i # n + 1
    BY <1>4, <1>9, <2>2
  <2> QED  BY <2>1, <2>2
<1> QED  BY <1>2, <1>5, <1>6, <1>10 DEF PointsDone

\* The fact at hand has none yet.
LEMMA NoPointsYet ==
  ASSUME NEW items, NEW t, NEW n \in Nat, NEW vs, PointsDone(items, t, n, vs),
         \A i \in 1 .. n : items[i].f # items[n + 1].f
  PROVE  PointsOf(vs, items[n + 1].f, t) = {}
<1>1. {v.f : v \in PointsIn(vs, t)} = {items[i].f : i \in 1 .. n}
  BY DEF PointsDone
<1> SUFFICES ASSUME NEW v \in vs, v.f = items[n + 1].f, v.t = t PROVE FALSE
  BY DEF PointsOf
<1>2. v.f \in {w.f : w \in PointsIn(vs, t)}
  BY DEF PointsIn
<1> QED  BY <1>1, <1>2

\* insert_fact of an import.
LEMMA InsertKeeps ==
  ASSUME ReadingInv, UsageInv', NEW r \in Request, InsertFact(r)
  PROVE  ReadingInv'
<1> DEFINE q == req[r]
           x == Head(q.todo)
           t == q.in.t
           p == [q EXCEPT !.pc = "embed"]
           fs == [facts EXCEPT ![x.f] = FactForImport(x, t)]
<1>1. q.pc = "insert" /\ Quiet
  BY DEF InsertFact
<1>2. q.pc # "idle" /\ q.pc # "done"
  BY <1>1
<1>3. q = [k \in Fields |-> q[k]] /\ q.in.op = "import" /\ t \in Tenant
  BY <1>1, <1>2, RunningGood, Where, AskedOps
<1>4. facts \in [Id -> Row \cup {NoFact}]
  BY DEF ReadingInv, TablesTyped
<1>5. CASE facts[x.f].st # "none"
  <2>1. Step(r, Idle, facts, vectors) /\ Idle.pc = "idle"
    BY <1>5 DEF InsertFact, Idle
  <2> QED  BY <1>1, <1>2, <1>4, <2>1, StepKeeps
<1>6. CASE facts[x.f].st = "none"
  <2>1. Step(r, p, fs, vectors)
    BY <1>6 DEF InsertFact
  <2>2. facts' = fs /\ vectors' = vectors
    BY <2>1 DEF Step
  <2>3. q.asm \in Dump /\ q.asm.facts \in Seq(Item) /\ ~q.in.dry
    BY <1>2, <1>3, ImportAt
  <2>4. PICK n \in Nat : Importing(q, n, facts, vectors)
    BY <1>2, <1>3, ImportAt
  <2> DEFINE items == q.asm.facts
  <2>5. n < Len(items) /\ q.todo = SubSeq(items, n + 1, Len(items))
    BY <1>1, <2>4 DEF Importing
  <2>6. x = items[n + 1] /\ x \in Item
    BY <2>3, <2>5, Rest
  <2>7. x.f \in Id /\ FactForImport(x, t) \in Row
    BY <1>3, <2>6 DEF Item, FactForImport, Row
  <2>8. fs \in [Id -> Row \cup {NoFact}]
    BY <1>4, <2>7
  <2>9. /\ Alike(q, p) /\ p.pc = "embed" /\ p.asm = q.asm /\ p.rows = q.rows
        /\ p.todo = q.todo
    BY <1>3 DEF Alike, Fields
  <2>10. q.alone => /\ RowsDone(items, t, n + 1, fs) /\ PointsDone(items, t, n, vectors)
                    /\ \A i \in 1 .. n : items[i].f # items[n + 1].f
    <3> SUFFICES ASSUME q.alone
                 PROVE  /\ RowsDone(items, t, n + 1, fs) /\ PointsDone(items, t, n, vectors)
                        /\ \A i \in 1 .. n : items[i].f # items[n + 1].f
      OBVIOUS
    <3>1. RowsDone(items, t, n, facts) /\ PointsDone(items, t, n, vectors)
      BY <1>1, <2>4 DEF Importing, Replacing
    <3>2. facts[items[n + 1].f].st = "none"
      BY <1>6, <2>6
    <3>3. fs = [facts EXCEPT ![items[n + 1].f] = FactForImport(items[n + 1], t)]
      BY <2>6
    <3> HIDE DEF items, t, fs
    <3> QED  BY <1>3, <1>4, <2>3, <2>5, <3>1, <3>2, <3>3, RowsMore DEF items, t
  <2> HIDE DEF p, fs
  <2>11. p.in = q.in /\ p.alone = q.alone
    BY <2>9 DEF Alike
  <2>12. Importing(p, n, fs, vectors)
    <3>1. /\ n <= Len(items) /\ ImportValid(q.asm, q.in.t) /\ q.rows = <<n>>
      BY <2>4 DEF Importing
    <3>2. p.alone => Replacing(p.pc, p.asm.facts, p.in.t, n, fs, vectors)
      BY <2>9, <2>10, <2>11 DEF Replacing
    <3> QED  BY <2>5, <2>9, <2>11, <3>1, <3>2 DEF Importing
  <2>13. ImportOK(p, facts', vectors')
    BY <2>2, <2>3, <2>9, <2>11, <2>12 DEF ImportOK
  <2>14. UNCHANGED <<calls, attribution, pending, persisted>>
    BY <1>1 DEF Quiet, usageVars
  <2>15. GoodAfter(p) /\ Req(p)
    BY <1>2, <1>3, <2>9, <2>13, <2>14, ImportGood DEF ImportSteps
  <2> QED  BY <1>1, <1>2, <2>1, <2>8, <2>11, <2>15, StepKeeps
<1> QED  BY <1>5, <1>6

\* upsert_vector of an import finds nothing to delete if it runs alone.
LEMMA UpsertDeleteImportKeeps ==
  ASSUME ReadingInv, UsageInv', NEW r \in Request, UpsertDelete(r),
         req[r].in.op = "import"
  PROVE  ReadingInv'
<1> DEFINE q == req[r]
           x == Head(q.todo)
           t == q.in.t
           p == [q EXCEPT !.pc = "point"]
           vs == Without(x.f, t)
<1>1. q.pc = "upsert" /\ Quiet /\ Step(r, p, facts, vs)
  BY DEF UpsertDelete, Embedded
<1>2. q.pc # "idle" /\ q.pc # "done"
  BY <1>1
<1>3. q = [k \in Fields |-> q[k]]
  BY <1>1, <1>2, RunningGood
<1>4. facts \in [Id -> Row \cup {NoFact}]
  BY DEF ReadingInv, TablesTyped
<1>5. facts' = facts /\ vectors' = vs
  BY <1>1 DEF Step
<1>6. q.asm \in Dump /\ q.asm.facts \in Seq(Item) /\ ~q.in.dry
  BY <1>2, ImportAt
<1>7. PICK n \in Nat : Importing(q, n, facts, vectors)
  BY <1>2, ImportAt
<1> DEFINE items == q.asm.facts
<1>8. /\ n < Len(items) /\ q.todo = SubSeq(items, n + 1, Len(items)) /\ q.rows = <<n>>
      /\ ImportValid(q.asm, q.in.t)
  BY <1>1, <1>7 DEF Importing
<1>9. x = items[n + 1]
  BY <1>6, <1>8, Rest
<1>10. /\ Alike(q, p) /\ p.pc = "point" /\ p.asm = q.asm /\ p.rows = q.rows
       /\ p.todo = q.todo
  BY <1>3 DEF Alike, Fields
<1>11. q.alone => /\ RowsDone(items, t, n + 1, facts) /\ PointsDone(items, t, n, vs)
                  /\ \A i \in 1 .. n : items[i].f # items[n + 1].f
  <2> SUFFICES ASSUME q.alone
               PROVE  /\ RowsDone(items, t, n + 1, facts) /\ PointsDone(items, t, n, vs)
                      /\ \A i \in 1 .. n : items[i].f # items[n + 1].f
    OBVIOUS
  <2>1. /\ RowsDone(items, t, n + 1, facts) /\ PointsDone(items, t, n, vectors)
        /\ \A i \in 1 .. n : items[i].f # items[n + 1].f
    BY <1>1, <1>7 DEF Importing, Replacing
  <2>2. PointsOf(vectors, x.f, t) = {}
    <3> HIDE DEF items, t
    <3> QED  BY <1>9, <2>1, NoPointsYet
  <2>3. vs = vectors
    BY <2>2 DEF Without
  <2> QED  BY <2>1, <2>3
<1> HIDE DEF p, vs
<1>12. p.in = q.in /\ p.alone = q.alone
  BY <1>10 DEF Alike
<1>13. Importing(p, n, facts, vs)
  <2>1. p.alone => Replacing(p.pc, p.asm.facts, p.in.t, n, facts, vs)
    BY <1>10, <1>11, <1>12 DEF Replacing
  <2>2. n <= Len(items)
    BY <1>6, <1>8
  <2> QED  BY <1>8, <1>10, <1>12, <2>1, <2>2 DEF Importing
<1>14. ImportOK(p, facts', vectors')
  BY <1>5, <1>6, <1>10, <1>12, <1>13 DEF ImportOK
<1>15. UNCHANGED <<calls, attribution, pending, persisted>>
  BY <1>1 DEF Quiet, usageVars
<1>16. GoodAfter(p) /\ Req(p)
  BY <1>2, <1>10, <1>14, <1>15, ImportGood DEF ImportSteps
<1> QED  BY <1>1, <1>2, <1>4, <1>12, <1>16, StepKeeps

\* It inserts a point.
LEMMA UpsertPointImportKeeps ==
  ASSUME ReadingInv, UsageInv', NEW r \in Request, UpsertPoint(r),
         req[r].in.op = "import"
  PROVE  ReadingInv'
<1> DEFINE q == req[r]
           x == Head(q.todo)
           t == q.in.t
           o == [q EXCEPT !.todo = Tail(@), !.rows = <<@[1] + 1>>]
           p == NextFact(o)
           pt == [f |-> x.f, t |-> t, c |-> x.c, by |-> r]
           vs == vectors \cup {pt}
<1>1. q.pc = "point" /\ Quiet /\ Step(r, p, facts, vs)
  BY DEF UpsertPoint, Embedded
<1>2. q.pc # "idle" /\ q.pc # "done"
  BY <1>1
<1>3. q = [k \in Fields |-> q[k]]
  BY <1>1, <1>2, RunningGood
<1>4. facts \in [Id -> Row \cup {NoFact}]
  BY DEF ReadingInv, TablesTyped
<1>5. facts' = facts /\ vectors' = vs
  BY <1>1 DEF Step
<1>6. q.asm \in Dump /\ q.asm.facts \in Seq(Item) /\ ~q.in.dry
  BY <1>2, ImportAt
<1>7. PICK n \in Nat : Importing(q, n, facts, vectors)
  BY <1>2, ImportAt
<1> DEFINE items == q.asm.facts
<1>8. /\ n < Len(items) /\ q.todo = SubSeq(items, n + 1, Len(items)) /\ q.rows = <<n>>
      /\ ImportValid(q.asm, q.in.t)
  BY <1>1, <1>7 DEF Importing
<1>9. Len(items) \in Nat /\ n + 1 \in Nat /\ n + 1 <= Len(items)
  BY <1>6, <1>8
<1>10. x = items[n + 1] /\ Tail(q.todo) = SubSeq(items, n + 1 + 1, Len(items))
  BY <1>6, <1>8, Rest
<1>11. Tail(q.todo) = <<>> <=> n + 1 = Len(items)
  <2> DEFINE m == n + 1
  <2>1. m \in Nat /\ m <= Len(items) /\ Tail(q.todo) = SubSeq(items, m + 1, Len(items))
    BY <1>9, <1>10
  <2> HIDE DEF m, items
  <2>2. SubSeq(items, m + 1, Len(items)) = <<>> <=> m = Len(items)
    BY <1>6, <2>1, Rest DEF items
  <2> QED  BY <2>1, <2>2 DEF m
<1>12. /\ o = [k \in Fields |-> o[k]] /\ Alike(q, o) /\ o.asm = q.asm
       /\ o.rows = <<n + 1>> /\ o.todo = Tail(q.todo)
  <2>1. q.rows[1] + 1 = n + 1
    BY <1>8
  <2> DEFINE w == <<q.rows[1] + 1>>
             d == Tail(q.todo)
  <2> HIDE DEF w, d
  <2>2. o = [q EXCEPT !.todo = d, !.rows = w]
    BY DEF w, d
  <2> HIDE DEF o
  <2>3. /\ o = [k \in Fields |-> o[k]] /\ Alike(q, o) /\ o.asm = q.asm
        /\ o.rows = w /\ o.todo = d
    BY <1>3, <2>2 DEF Alike, Fields
  <2> QED  BY <2>1, <2>3 DEF w, d
<1> HIDE DEF o
<1>13. /\ Alike(o, p) /\ p.asm = q.asm /\ p.rows = <<n + 1>> /\ p.todo = Tail(q.todo)
       /\ p.pc = IF Tail(q.todo) = <<>> THEN "done" ELSE "insert"
  <2> HIDE DEF q, items
  <2> QED  BY <1>12, NextFactIs
<1>14. Alike(q, p) /\ p.in = q.in /\ p.alone = q.alone
  BY <1>12, <1>13 DEF Alike
<1>15. q.alone => RowsDone(items, t, n + 1, facts) /\ PointsDone(items, t, n + 1, vs)
  <2> SUFFICES ASSUME q.alone
               PROVE  RowsDone(items, t, n + 1, facts) /\ PointsDone(items, t, n + 1, vs)
    OBVIOUS
  <2>1. /\ RowsDone(items, t, n + 1, facts) /\ PointsDone(items, t, n, vectors)
        /\ \A i \in 1 .. n : items[i].f # items[n + 1].f
    BY <1>1, <1>7 DEF Importing, Replacing
  <2>2. pt.f = items[n + 1].f /\ pt.t = t /\ pt.c = items[n + 1].c
    BY <1>10
  <2> HIDE DEF items, t, pt
  <2> QED  BY <2>1, <2>2, PointsMore
<1> HIDE DEF p, vs
<1>16. Importing(p, n + 1, facts, vs)
  <2>1. p.pc \in {"done", "insert"} /\ (p.pc = "done" <=> n + 1 = Len(items))
    BY <1>11, <1>13
  <2>2. p.alone => Replacing(p.pc, p.asm.facts, p.in.t, n + 1, facts, vs)
    BY <1>13, <1>14, <1>15, <2>1 DEF Replacing
  <2>3. n + 1 < Len(items) \/ n + 1 = Len(items)
    BY <1>9
  <2> QED  BY <1>8, <1>9, <1>10, <1>13, <1>14, <2>1, <2>2, <2>3 DEF Importing
<1>17. ImportOK(p, facts', vectors')
  BY <1>5, <1>6, <1>9, <1>13, <1>14, <1>16 DEF ImportOK
<1>18. UNCHANGED <<calls, attribution, pending, persisted>>
  BY <1>1 DEF Quiet, usageVars
<1>19. p.pc \in ImportSteps
  BY <1>13 DEF ImportSteps
<1>20. GoodAfter(p) /\ Req(p)
  BY <1>2, <1>14, <1>17, <1>18, <1>19, ImportGood
<1> QED  BY <1>1, <1>2, <1>4, <1>14, <1>20, StepKeeps

-----------------------------------------------------------------------------
(* The steps of a writer. *)

\* A writing operation, at another step of it.
LEMMA WriterGood ==
  ASSUME ReadingInv, NEW r \in Request, req[r].pc # "idle",
         req[r].in.op \in {"update", "delete"}, NEW p, Alike(req[r], p),
         req[r].in.op = "update" => p.pc \in UpdateSteps,
         req[r].in.op = "delete" => p.pc \in DeleteSteps,
         UNCHANGED usageVars
  PROVE  GoodAfter(p) /\ Req(p) /\ p.alone = req[r].alone
<1>1. UNCHANGED <<calls, attribution, pending, persisted>>
  BY DEF usageVars
<1>2. BillOK(p, calls', attribution', pending' \cup persisted')
  BY <1>1, RunningGood, BillSame DEF Alike
<1>3. /\ p.in = req[r].in /\ p.alone = req[r].alone /\ p.in \in Input
      /\ p.alone \in BOOLEAN
  BY RunningGood DEF Alike
<1>4. OnTrack(p) /\ p.pc # "idle"
  BY <1>3 DEF OnTrack, Searches, UpdateSteps, DeleteSteps
<1>5. Req(p)
  BY <1>3, <1>4 DEF Req, Alike
<1>6. p.in.op \in Named \cup {"delete"}
  BY <1>3 DEF Named
<1> QED  BY <1>2, <1>3, <1>5, <1>6, PlainGood

\* update_fact and soft_delete_fact.
LEMMA WriteRowKeeps ==
  ASSUME ReadingInv, UsageInv', NEW r \in Request, WriteRow(r)
  PROVE  ReadingInv'
<1> DEFINE q == req[r]
           in == q.in
           to(pc) == [q EXCEPT !.pc = pc]
           new == [facts[in.f] EXCEPT !.c = in.c, !.age = 0]
           gone == SoftDeleted(facts[in.f])
<1>1. q.pc = "row" /\ Quiet /\ UNCHANGED usageVars
  BY DEF WriteRow, Quiet
<1>2. q.pc # "idle"
  BY <1>1
<1>3. q = [k \in Fields |-> q[k]] /\ in.op \in {"update", "delete"} /\ in \in Input
  BY <1>1, <1>2, RunningGood, Where
<1>4. in.f \in Id /\ in.c \in Content
  BY <1>3, AskedOps
<1>5. facts \in [Id -> Row \cup {NoFact}]
  BY DEF ReadingInv, TablesTyped
<1>6. \/ /\ in.op = "update" /\ in.f \in Active(in.t)
         /\ Step(r, to("unpoint"), [facts EXCEPT ![in.f] = new], vectors)
      \/ /\ in.op = "delete" /\ in.f \in Active(in.t)
         /\ Step(r, to("unpoint"), [facts EXCEPT ![in.f] = gone], vectors)
      \/ Step(r, Idle, facts, vectors)
  BY DEF WriteRow
<1>7. in.f \in Active(in.t) => facts[in.f] \in Row
  BY <1>4, RowOrNot DEF Active, ActiveIn
<1>8. in.f \in Active(in.t) => new \in Row /\ gone \in Row
  <2> SUFFICES ASSUME in.f \in Active(in.t) PROVE new \in Row /\ gone \in Row
    OBVIOUS
  <2>1. facts[in.f] \in Row
    BY <1>7
  <2>2. new \in Row
    BY <1>4, <2>1 DEF Row
  <2>3. gone \in Row
    BY <2>1 DEF Row, SoftDeleted
  <2> QED  BY <2>2, <2>3
<1>9. CASE /\ in.op = "update" /\ in.f \in Active(in.t)
           /\ Step(r, to("unpoint"), [facts EXCEPT ![in.f] = new], vectors)
  <2>1. Alike(q, to("unpoint")) /\ to("unpoint").pc = "unpoint"
    BY <1>3 DEF Alike, Fields
  <2> DEFINE p == to("unpoint")
             fs == [facts EXCEPT ![in.f] = new]
  <2> HIDE DEF to, new
  <2>2. fs \in [Id -> Row \cup {NoFact}]
    BY <1>4, <1>5, <1>8, <1>9
  <2>3. GoodAfter(p) /\ Req(p) /\ p.alone = q.alone
    BY <1>1, <1>2, <1>3, <1>9, <2>1, WriterGood DEF UpdateSteps
  <2>4. Step(r, p, fs, vectors)
    BY <1>9
  <2> HIDE DEF p, fs
  <2> QED  BY <1>1, <1>2, <2>2, <2>3, <2>4, StepKeeps
<1>10. CASE /\ in.op = "delete" /\ in.f \in Active(in.t)
            /\ Step(r, to("unpoint"), [facts EXCEPT ![in.f] = gone], vectors)
  <2>1. Alike(q, to("unpoint")) /\ to("unpoint").pc = "unpoint"
    BY <1>3 DEF Alike, Fields
  <2> DEFINE p == to("unpoint")
             fs == [facts EXCEPT ![in.f] = gone]
  <2> HIDE DEF to, gone
  <2>2. fs \in [Id -> Row \cup {NoFact}]
    BY <1>4, <1>5, <1>8, <1>10
  <2>3. GoodAfter(p) /\ Req(p) /\ p.alone = q.alone
    BY <1>1, <1>2, <1>3, <1>10, <2>1, WriterGood DEF DeleteSteps
  <2>4. Step(r, p, fs, vectors)
    BY <1>10
  <2> HIDE DEF p, fs
  <2> QED  BY <1>1, <1>2, <2>2, <2>3, <2>4, StepKeeps
<1>11. CASE Step(r, Idle, facts, vectors)
  <2>1. Idle.pc = "idle"
    BY DEF Idle
  <2> QED  BY <1>1, <1>2, <1>5, <1>11, <2>1, StepKeeps
<1> HIDE DEF to, new, gone
<1> QED  BY <1>6, <1>9, <1>10, <1>11

\* delete_by_fact_id, and upsert_vector of an update.
LEMMA PointKeeps ==
  ASSUME ReadingInv, UsageInv', NEW r \in Request,
         Unpoint(r) \/ UpsertDelete(r) \/ UpsertPoint(r)
  PROVE  ReadingInv'
<1> DEFINE q == req[r]
           to(pc) == [q EXCEPT !.pc = pc]
<1>1. q.pc \in {"unpoint", "upsert", "point"} /\ Quiet /\ UNCHANGED usageVars
  BY DEF Unpoint, UpsertDelete, UpsertPoint, Quiet
<1>2. q.pc # "idle"
  BY <1>1
<1>3. /\ q = [k \in Fields |-> q[k]]
      /\ q.pc = "unpoint" => q.in.op \in {"update", "delete"}
      /\ q.pc \in {"upsert", "point"} => q.in.op \in {"import", "update"}
  BY <1>1, <1>2, RunningGood, Where
<1>4. facts \in [Id -> Row \cup {NoFact}]
  BY DEF ReadingInv, TablesTyped
<1>5. ASSUME NEW pc, NEW vs, Step(r, to(pc), facts, vs), q.in.op \in {"update", "delete"},
             q.in.op = "update" => pc \in UpdateSteps,
             q.in.op = "delete" => pc \in DeleteSteps
      PROVE  ReadingInv'
  <2>1. Alike(q, to(pc)) /\ to(pc).pc = pc
    BY <1>3 DEF Alike, Fields
  <2>2. GoodAfter(to(pc)) /\ Req(to(pc)) /\ to(pc).alone = q.alone
    <3> HIDE DEF to
    <3> QED  BY <1>1, <1>2, <1>5, <2>1, WriterGood
  <2> HIDE DEF to
  <2> QED  BY <1>1, <1>2, <1>4, <1>5, <2>2, StepKeeps
<1>6. CASE Unpoint(r)
  <2> DEFINE pc == IF q.in.op = "delete" THEN "done" ELSE "embed"
  <2>1. q.pc = "unpoint" /\ \E vs : Step(r, to(pc), facts, vs)
    BY <1>6 DEF Unpoint
  <2>2. /\ q.in.op \in {"update", "delete"}
        /\ q.in.op = "update" => pc \in UpdateSteps
        /\ q.in.op = "delete" => pc \in DeleteSteps
    BY <1>3, <2>1 DEF UpdateSteps, DeleteSteps
  <2> HIDE DEF pc, to
  <2> QED  BY <1>5, <2>1, <2>2
<1>7. CASE UpsertDelete(r) /\ q.in.op # "import"
  <2>1. q.pc = "upsert" /\ \E vs : Step(r, to("point"), facts, vs)
    BY <1>7 DEF UpsertDelete
  <2>2. q.in.op = "update" /\ "point" \in UpdateSteps
    BY <1>3, <1>7, <2>1 DEF UpdateSteps
  <2> HIDE DEF to
  <2> QED  BY <1>5, <2>1, <2>2
<1>8. CASE UpsertPoint(r) /\ q.in.op # "import"
  <2>1. q.pc = "point" /\ \E vs : Step(r, to("done"), facts, vs)
    BY <1>8 DEF UpsertPoint, Answered
  <2>2. q.in.op = "update" /\ "done" \in UpdateSteps
    BY <1>3, <1>8, <2>1 DEF UpdateSteps
  <2> HIDE DEF to
  <2> QED  BY <1>5, <2>1, <2>2
<1> QED
  BY <1>6, <1>7, <1>8, UpsertDeleteImportKeeps, UpsertPointImportKeeps

-----------------------------------------------------------------------------
(* Counting how often. *)

\* It is a number.
LEMMA TimesNat ==
  ASSUME NEW S, NEW s \in Seq(S), NEW o
  PROVE  Times(s, o) \in Nat /\ IsFiniteSet({i \in DOMAIN s : s[i] = o})
<1>1. Len(s) \in Nat /\ DOMAIN s = 1 .. Len(s)
  OBVIOUS
<1>2. IsFiniteSet(1 .. Len(s))
  BY <1>1, FS_Interval
<1>3. IsFiniteSet({i \in DOMAIN s : s[i] = o})
  BY <1>1, <1>2, FS_Subset
<1> QED  BY <1>3, FS_CardinalityType DEF Times

\* One more makes one more of it.
LEMMA TimesAppend ==
  ASSUME NEW S, NEW s \in Seq(S), NEW x \in S, NEW o
  PROVE  Times(Append(s, x), o) = Times(s, o) + (IF x = o THEN 1 ELSE 0)
<1> DEFINE a == Append(s, x)
           A == {i \in DOMAIN a : a[i] = o}
           B == {i \in DOMAIN s : s[i] = o}
           n == Len(s) + 1
<1>1. /\ Len(s) \in Nat /\ DOMAIN s = 1 .. Len(s) /\ DOMAIN a = 1 .. n
      /\ a[n] = x /\ \A i \in 1 .. Len(s) : a[i] = s[i]
  OBVIOUS
<1>2. \A i : i \in 1 .. n <=> i \in 1 .. Len(s) \/ i = n
  BY <1>1
<1>3. n \notin B /\ IsFiniteSet(B) /\ Cardinality(B) \in Nat
  <2>1. n \notin B
    BY <1>1
  <2>2. IsFiniteSet(B)
    BY TimesNat
  <2> HIDE DEF B
  <2> QED  BY <2>1, <2>2, FS_CardinalityType
<1>4. Times(Append(s, x), o) = Cardinality(A) /\ Times(s, o) = Cardinality(B)
  BY DEF Times
<1> HIDE DEF a, n
<1>5. CASE x = o
  <2>1. A = B \cup {n}
    BY <1>1, <1>2, <1>5
  <2>2. Cardinality(A) = Cardinality(B) + 1
    BY <1>3, <2>1, CardWith
  <2> HIDE DEF A, B
  <2> QED  BY <1>3, <1>4, <1>5, <2>2
<1>6. CASE x # o
  <2>1. A = B
    BY <1>1, <1>2, <1>6
  <2> HIDE DEF A, B
  <2> QED  BY <1>3, <1>4, <1>6, <2>1
<1> QED  BY <1>5, <1>6

\* One more of a sequence.
LEMMA Prefix ==
  ASSUME NEW S, NEW s \in Seq(S), NEW n \in Nat, n < Len(s)
  PROVE  /\ SubSeq(s, 1, n) \in Seq(S) /\ Len(SubSeq(s, 1, n)) = n
         /\ SubSeq(s, 1, n + 1) = Append(SubSeq(s, 1, n), s[n + 1])
         /\ s[n + 1] \in S
<1> DEFINE a == SubSeq(s, 1, n)
           b == SubSeq(s, 1, n + 1)
           x == s[n + 1]
<1>1. Len(s) \in Nat /\ x \in S /\ \A i \in 1 .. Len(s) : s[i] \in S
  OBVIOUS
<1>2. a \in Seq(S) /\ Len(a) = n /\ \A i \in 1 .. n : a[i] = s[i]
  BY <1>1, SubSeqProperties
<1>3. b \in Seq(S) /\ Len(b) = n + 1 /\ \A i \in 1 .. n + 1 : b[i] = s[i]
  BY <1>1, SubSeqProperties
<1> HIDE DEF a, b, x
<1>4. /\ Append(a, x) \in Seq(S) /\ Len(Append(a, x)) = n + 1
      /\ Append(a, x)[n + 1] = x /\ \A i \in 1 .. n : Append(a, x)[i] = a[i]
  BY <1>1, <1>2, AppendProperties
<1>5. \A i \in 1 .. n + 1 : b[i] = Append(a, x)[i]
  <2>1. \A i \in 1 .. n + 1 : i \in 1 .. n \/ i = n + 1
    OBVIOUS
  <2> QED  BY <1>2, <1>3, <1>4, <2>1 DEF x
<1>6. b = Append(a, x)
  BY <1>3, <1>4, <1>5, SeqEqual
<1> QED  BY <1>1, <1>2, <1>6 DEF a, b, x

\* All of a sequence, and none of it.
LEMMA WholeSeq ==
  ASSUME NEW S, NEW s \in Seq(S)
  PROVE  SubSeq(s, 1, Len(s)) = s /\ SubSeq(s, 0 + 1, Len(s)) = s /\ SubSeq(s, 1, 0) = <<>>
<1> DEFINE a == SubSeq(s, 1, Len(s))
<1>1. Len(s) \in Nat /\ \A i \in 1 .. Len(s) : s[i] \in S
  OBVIOUS
<1>2. a \in Seq(S) /\ Len(a) = Len(s) /\ \A i \in 1 .. Len(s) : a[i] = s[i]
  BY <1>1, SubSeqProperties
<1> HIDE DEF a
<1>3. a = s
  BY <1>1, <1>2, SeqEqual
<1>4. SubSeq(s, 1, 0) = <<>>
  BY SubSeqEmpty
<1> QED  BY <1>3, <1>4 DEF a

\* The organisations of one more result.
LEMMA ServedAppend ==
  ASSUME NEW S, NEW rs \in Seq(S), NEW x \in S, \A y \in S : y.org \in Orgs
  PROVE  /\ ServedBy(rs) \in Seq(Orgs) /\ Len(ServedBy(rs)) = Len(rs)
         /\ ServedBy(Append(rs, x)) = Append(ServedBy(rs), x.org)
         /\ Len(Append(rs, x)) = Len(rs) + 1
<1> DEFINE n == Len(rs)
           a == Append(rs, x)
<1>1. n \in Nat /\ DOMAIN rs = 1 .. n /\ \A i \in 1 .. n : rs[i] \in S
  OBVIOUS
<1>2. /\ a \in Seq(S) /\ Len(a) = n + 1 /\ DOMAIN a = 1 .. n + 1
      /\ a[n + 1] = x /\ \A i \in 1 .. n : a[i] = rs[i]
  BY AppendProperties
<1>3. \A i \in 1 .. n + 1 : a[i] \in S
  BY <1>2
<1> HIDE DEF a
<1>4. ServedBy(rs) \in Seq(Orgs) /\ Len(ServedBy(rs)) = n
  BY <1>1 DEF ServedBy
<1>5. /\ ServedBy(a) \in Seq(Orgs) /\ Len(ServedBy(a)) = n + 1
      /\ \A i \in 1 .. n + 1 : ServedBy(a)[i] = a[i].org
  BY <1>1, <1>2, <1>3 DEF ServedBy
<1>6. \A i \in 1 .. n : ServedBy(rs)[i] = rs[i].org
  BY <1>1 DEF ServedBy
<1> DEFINE b == Append(ServedBy(rs), x.org)
<1>7. /\ b \in Seq(Orgs) /\ Len(b) = n + 1 /\ b[n + 1] = x.org
      /\ \A i \in 1 .. n : b[i] = ServedBy(rs)[i]
  BY <1>4, AppendProperties
<1> HIDE DEF b
<1>8. \A i \in 1 .. n + 1 : ServedBy(a)[i] = b[i]
  <2>1. \A i \in 1 .. n + 1 : i \in 1 .. n \/ i = n + 1
    BY <1>1
  <2> QED  BY <1>2, <1>5, <1>6, <1>7, <2>1
<1>9. ServedBy(a) = b
  BY <1>5, <1>7, <1>8, SeqEqual
<1> QED  BY <1>2, <1>4, <1>9 DEF a, b

-----------------------------------------------------------------------------
(* The steps of counting requests and jobs. *)

\* A job and its next organisation, served or failed.
LEMMA ServeNext ==
  ASSUME NEW q, NEW p, NEW n \in Nat, Serving(q, n), q.pc # "done",
         q.in.orgs \in Seq(Orgs), NEW S, q.results \in Seq(S), \A y \in S : y.org \in Orgs,
         p.in = q.in, p.todo = Tail(q.todo),
         \/ /\ p.bad = q.bad
            /\ \E s \in S : s.org = Head(q.todo) /\ p.results = Append(q.results, s)
         \/ p.results = q.results /\ p.bad # {},
         p.pc = "done" <=> Tail(q.todo) = <<>>,
         p.pc = "done" => p.status = JobStatus(p),
         p.pc # "done" => p.status = q.status
  PROVE  Serving(p, n + 1)
<1> DEFINE orgs == q.in.orgs
           len == Len(orgs)
           x == orgs[n + 1]
           done == ServedBy(q.results)
<1>1. len \in Nat /\ n < len /\ q.status = "running"
  BY DEF Serving
<1>2. /\ q.todo = SubSeq(orgs, n + 1, len)
      /\ q.bad = {} => done = SubSeq(orgs, 1, n)
      /\ q.bad # {} => Len(q.results) < n
      /\ \A o \in Orgs : Times(done, o) <= Times(SubSeq(orgs, 1, n), o)
  BY DEF Serving
<1>3. Head(q.todo) = x /\ Tail(q.todo) = SubSeq(orgs, n + 1 + 1, len) /\ x \in Orgs
  <2>1. orgs \in Seq(Orgs) /\ n < Len(orgs) /\ n <= Len(orgs)
    BY <1>1
  <2>2. q.todo = SubSeq(orgs, n + 1, Len(orgs))
    BY <1>2
  <2> HIDE DEF orgs
  <2> QED  BY <2>1, <2>2, Rest
<1>4. Tail(q.todo) = <<>> <=> n + 1 = len
  <2> DEFINE m == n + 1
  <2>1. m \in Nat /\ m <= len
    BY <1>1
  <2> HIDE DEF m
  <2>2. SubSeq(orgs, m + 1, len) = <<>> <=> m = len
    BY <2>1, Rest
  <2> QED  BY <1>3, <2>2 DEF m
<1>5. /\ SubSeq(orgs, 1, n) \in Seq(Orgs) /\ Len(SubSeq(orgs, 1, n)) = n
      /\ SubSeq(orgs, 1, n + 1) = Append(SubSeq(orgs, 1, n), x)
  BY <1>1, Prefix
<1>6. done \in Seq(Orgs) /\ Len(done) = Len(q.results) /\ Len(q.results) \in Nat
  <2>1. /\ Len(q.results) \in Nat /\ DOMAIN q.results = 1 .. Len(q.results)
        /\ \A i \in 1 .. Len(q.results) : q.results[i].org \in Orgs
    OBVIOUS
  <2> QED  BY <2>1 DEF ServedBy
<1>7. q.bad = {} => Len(q.results) = n
  BY <1>2, <1>5, <1>6
<1> HIDE DEF x, len
<1>8. \A o \in Orgs :
        /\ Times(done, o) \in Nat /\ Times(SubSeq(orgs, 1, n), o) \in Nat
        /\ Times(SubSeq(orgs, 1, n + 1), o)
             = Times(SubSeq(orgs, 1, n), o) + (IF x = o THEN 1 ELSE 0)
  <2> SUFFICES ASSUME NEW o \in Orgs
               PROVE  /\ Times(done, o) \in Nat /\ Times(SubSeq(orgs, 1, n), o) \in Nat
                      /\ Times(SubSeq(orgs, 1, n + 1), o)
                           = Times(SubSeq(orgs, 1, n), o) + (IF x = o THEN 1 ELSE 0)
    OBVIOUS
  <2> DEFINE first == SubSeq(orgs, 1, n)
  <2>1. first \in Seq(Orgs) /\ SubSeq(orgs, 1, n + 1) = Append(first, x)
    BY <1>5
  <2> HIDE DEF first, done, orgs
  <2>2. Times(done, o) \in Nat /\ Times(first, o) \in Nat
    BY <1>6, <2>1, TimesNat
  <2>3. Times(Append(first, x), o) = Times(first, o) + (IF x = o THEN 1 ELSE 0)
    BY <1>3, <2>1, TimesAppend
  <2> QED  BY <2>1, <2>2, <2>3 DEF first
<1>9. /\ p.bad = {} => ServedBy(p.results) = SubSeq(orgs, 1, n + 1)
      /\ p.bad # {} => Len(p.results) < n + 1
      /\ \A o \in Orgs : Times(ServedBy(p.results), o) <= Times(SubSeq(orgs, 1, n + 1), o)
  <2>1. CASE /\ p.bad = q.bad
             /\ \E s \in S : s.org = Head(q.todo) /\ p.results = Append(q.results, s)
    <3>1. PICK s \in S : s.org = Head(q.todo) /\ p.results = Append(q.results, s)
      BY <2>1
    <3>2. /\ ServedBy(p.results) = Append(done, x) /\ Len(p.results) = Len(q.results) + 1
      BY <1>3, <3>1, ServedAppend
    <3>3. p.bad = {} => ServedBy(p.results) = SubSeq(orgs, 1, n + 1)
      BY <1>2, <1>5, <2>1, <3>2
    <3>4. p.bad # {} => Len(p.results) < n + 1
      BY <1>2, <1>6, <2>1, <3>2
    <3>5. \A o \in Orgs : Times(Append(done, x), o) = Times(done, o) + (IF x = o THEN 1 ELSE 0)
      BY <1>3, <1>6, TimesAppend
    <3>6. \A o \in Orgs : Times(ServedBy(p.results), o) <= Times(SubSeq(orgs, 1, n + 1), o)
      <4> SUFFICES ASSUME NEW o \in Orgs
                   PROVE  Times(ServedBy(p.results), o) <= Times(SubSeq(orgs, 1, n + 1), o)
        OBVIOUS
      <4> HIDE DEF done, orgs
      <4>1. /\ Times(done, o) \in Nat /\ Times(SubSeq(orgs, 1, n), o) \in Nat
            /\ Times(done, o) <= Times(SubSeq(orgs, 1, n), o)
        BY <1>2, <1>8
      <4>2. Times(SubSeq(orgs, 1, n + 1), o)
              = Times(SubSeq(orgs, 1, n), o) + (IF x = o THEN 1 ELSE 0)
        BY <1>8
      <4>3. Times(ServedBy(p.results), o) = Times(done, o) + (IF x = o THEN 1 ELSE 0)
        BY <3>2, <3>5
      <4> QED  BY <4>1, <4>2, <4>3
    <3> QED  BY <3>3, <3>4, <3>6
  <2>2. CASE p.results = q.results /\ p.bad # {}
    <3>1. Len(p.results) < n + 1
      BY <1>2, <1>6, <1>7, <2>2
    <3>2. \A o \in Orgs : Times(ServedBy(p.results), o) <= Times(SubSeq(orgs, 1, n + 1), o)
      <4> SUFFICES ASSUME NEW o \in Orgs
                   PROVE  Times(ServedBy(p.results), o) <= Times(SubSeq(orgs, 1, n + 1), o)
        OBVIOUS
      <4>1. ServedBy(p.results) = done
        BY <2>2
      <4> HIDE DEF done, orgs
      <4>2. /\ Times(done, o) \in Nat /\ Times(SubSeq(orgs, 1, n), o) \in Nat
            /\ Times(done, o) <= Times(SubSeq(orgs, 1, n), o)
        BY <1>2, <1>8
      <4>3. Times(SubSeq(orgs, 1, n + 1), o)
              = Times(SubSeq(orgs, 1, n), o) + (IF x = o THEN 1 ELSE 0)
        BY <1>8
      <4> QED  BY <4>1, <4>2, <4>3
    <3> QED  BY <2>2, <3>1, <3>2
  <2> QED  BY <2>1, <2>2
<1>10. n + 1 <= len /\ (n + 1 = len \/ n + 1 < len)
  BY <1>1 DEF len
<1>11. p.todo = SubSeq(p.in.orgs, n + 1 + 1, Len(p.in.orgs))
  BY <1>3 DEF len
<1>12. /\ p.pc # "done" => n + 1 < Len(p.in.orgs) /\ p.status = "running"
       /\ p.pc = "done" => n + 1 = Len(p.in.orgs)
  BY <1>1, <1>4, <1>10 DEF len
<1> QED  BY <1>9, <1>10, <1>11, <1>12 DEF Serving, len

\* The counts are numbers.
LEMMA CountNat ==
  ASSUME NEW fs, NEW o
  PROVE  CountFactsIn(fs, o) \in Nat /\ CountUsersIn(fs, o) \in Nat
<1> DEFINE A == UNION {ActiveIn(fs, t) : t \in {u \in Tenant : OrgOf[u] = o}}
           B == {t \in Tenant : OrgOf[t] = o /\ ActiveIn(fs, t) # {}}
<1>1. A \subseteq Id /\ B \subseteq Tenant
  BY DEF ActiveIn
<1>2. IsFiniteSet(Id) /\ IsFiniteSet(Tenant)
  BY ReadingConstants
<1> HIDE DEF A, B
<1>3. IsFiniteSet(A) /\ IsFiniteSet(B)
  BY <1>1, <1>2, FS_Subset
<1>4. Cardinality(A) \in Nat /\ Cardinality(B) \in Nat
  BY <1>3, FS_CardinalityType
<1> QED  BY <1>4 DEF A, B, CountFactsIn, CountUsersIn

\* The second count after the first.
LEMMA Pair ==
  ASSUME NEW S, NEW a \in S, NEW b \in S
  PROVE  Append(<<a>>, b) = <<a, b>>
<1> DEFINE two == <<a, b>>
           more == Append(<<a>>, b)
<1>1. two \in Seq(S) /\ Len(two) = 2 /\ two[1] = a /\ two[2] = b
  OBVIOUS
<1>2. more \in Seq(S) /\ Len(more) = 2
  OBVIOUS
<1>3. more[1] = a /\ more[2] = b
  OBVIOUS
<1> HIDE DEF two, more
<1>4. \A i \in 1 .. 2 : i = 1 \/ i = 2
  OBVIOUS
<1>5. \A i \in 1 .. Len(more) : more[i] = two[i]
  BY <1>1, <1>2, <1>3, <1>4
<1>6. more = two
  BY <1>1, <1>2, <1>5, SeqEqual
<1> QED  BY <1>6 DEF two, more

\* The first organisation that is left.
LEMMA HeadOrg ==
  ASSUME NEW s \in Seq(Orgs), s # <<>>
  PROVE  Head(s) \in Orgs /\ Tail(s) \in Seq(Orgs)
  BY HeadTailProperties

\* A counting request, at another step of it.
LEMMA AdminReq ==
  ASSUME NEW q, NEW p, Req(q), q.in.op \in Admin \cup Jobs, Alike(q, p), OnTrack(p),
         p.pc # "idle"
  PROVE  Req(p)
  BY DEF Req, Alike

\* What the invariant asks of a counting request or a job.
LEMMA AdminGood ==
  ASSUME NEW p, Req(p), p.in.op \in Admin \cup Jobs,
         BillOK(p, calls', attribution', pending' \cup persisted'),
         CountsRead(p, calls'), JobOK(p, snapshots', persisted')
  PROVE  GoodAfter(p)
<1>1. p.in.op # "import"
  BY DEF Admin, Jobs
<1> QED  BY <1>1 DEF GoodAfter, ImportOK

\* A job goes on with the same organisation.
LEMMA JobAlong ==
  ASSUME NEW q, NEW p, NEW ss, NEW es, JobOK(q, ss, es), Alike(q, p),
         p.results = q.results, p.status = q.status, p.todo = q.todo, p.bad = q.bad,
         q.pc # "done", p.pc # "done", p.pc # "expire"
  PROVE  JobOK(p, ss, es)
<1> SUFFICES ASSUME q.in.op \in Jobs PROVE JobOK(p, ss, es)
  BY DEF JobOK, Alike
<1>1. p.in = q.in /\ p.alone = q.alone
  BY DEF Alike
<1>2. \A n \in Nat : Serving(q, n) => Serving(p, n)
  BY <1>1 DEF Serving
<1> QED  BY <1>1, <1>2 DEF JobOK

\* Some reads of a counting request.
LEMMA ReadLook ==
  ASSUME ReadingInv, UsageInv', NEW r \in Request, req[r].pc # "idle",
         req[r].in.op \in Admin \cup Jobs,
         UNCHANGED usageVars, NEW p, Look(r, p), Alike(req[r], p), OnTrack(p),
         p.pc # "idle", CountsRead(p, calls), JobOK(p, snapshots, persisted)
  PROVE  ReadingInv'
<1>1. UNCHANGED <<calls, attribution, pending, persisted>> /\ snapshots' = snapshots
  BY DEF usageVars, Look
<1>2. BillOK(p, calls', attribution', pending' \cup persisted')
  BY <1>1, RunningGood, BillSame DEF Alike
<1>3. Req(p) /\ p.in.op \in Admin \cup Jobs
  BY RunningGood, AdminReq DEF Alike
<1>4. GoodAfter(p)
  BY <1>1, <1>2, <1>3, AdminGood
<1> QED  BY <1>1, <1>4, LookKeeps, CallsStay

\* count_facts_by_org.
LEMMA ReadFactsKeeps ==
  ASSUME ReadingInv, UsageInv', NEW r \in Request, ReadFacts(r)
  PROVE  ReadingInv'
<1> DEFINE q == req[r]
           a == CountFacts(Head(q.todo))
           p == [q EXCEPT !.pc = AfterFacts[q.in.op], !.rows = <<a>>]
<1>1. q.pc = "count_facts" /\ Look(r, p) /\ UNCHANGED usageVars
  BY DEF ReadFacts
<1>2. q.pc # "idle" /\ q.pc # "done"
  BY <1>1
<1>3. /\ q = [k \in Fields |-> q[k]] /\ q.in.op \in Admin /\ CountsRead(q, calls)
      /\ CountsSeen(q, facts) /\ JobOK(q, snapshots, persisted)
  BY <1>1, <1>2, RunningGood, Where
<1> HIDE DEF a
<1>4. /\ Alike(q, p) /\ p.pc = AfterFacts[q.in.op] /\ p.rows = <<a>>
      /\ p.results = q.results /\ p.status = q.status /\ p.todo = q.todo
      /\ p.bad = q.bad /\ p.got = q.got
  BY <1>3 DEF Alike, Fields
<1> HIDE DEF p
<1>5. p.pc = IF q.in.op = "dashboard" THEN "latest" ELSE "count_users"
  BY <1>3, <1>4 DEF AfterFacts, Admin
<1>6. q.todo \in Seq(Orgs) /\ q.todo # <<>>
  BY <1>2, <1>3 DEF CountsRead
<1>7. Head(q.todo) \in Orgs
  BY <1>6, HeadOrg
<1>8. a \in Nat /\ <<Head(q.todo), a>> \in q.live
  BY <1>3, <1>7, CountNat DEF a, CountFacts, CountsSeen
<1>9. CountsRead(p, calls)
  BY <1>3, <1>4, <1>5, <1>6, <1>8 DEF CountsRead, Alike
<1>10. JobOK(p, snapshots, persisted)
  BY <1>2, <1>3, <1>4, <1>5, JobAlong
<1>11. OnTrack(p) /\ p.pc # "idle"
  BY <1>3, <1>4, <1>5 DEF OnTrack, Alike, Admin, Searches
<1> QED  BY <1>1, <1>2, <1>3, <1>4, <1>9, <1>10, <1>11, ReadLook

\* latest_memory_usage_snapshot.
LEMMA ReadLatestKeeps ==
  ASSUME ReadingInv, UsageInv', NEW r \in Request, ReadLatest(r)
  PROVE  ReadingInv'
<1> DEFINE q == req[r]
<1>1. q.pc = "latest" /\ UNCHANGED usageVars
      /\ \E h : Look(r, [q EXCEPT !.pc = "count_users", !.hits = h])
  BY DEF ReadLatest
<1>2. PICK h : Look(r, [q EXCEPT !.pc = "count_users", !.hits = h])
  BY <1>1
<1> DEFINE p == [q EXCEPT !.pc = "count_users", !.hits = h]
<1>3. q.pc # "idle" /\ q.pc # "done"
  BY <1>1
<1>4. /\ q = [k \in Fields |-> q[k]] /\ q.in.op = "dashboard" /\ CountsRead(q, calls)
      /\ JobOK(q, snapshots, persisted)
  BY <1>1, <1>3, RunningGood, Where
<1>5. /\ Alike(q, p) /\ p.pc = "count_users" /\ p.rows = q.rows
      /\ p.results = q.results /\ p.status = q.status /\ p.todo = q.todo
      /\ p.bad = q.bad /\ p.got = q.got
  BY <1>4 DEF Alike, Fields
<1>6. Look(r, p)
  BY <1>2
<1> HIDE DEF p
<1>7. CountsRead(p, calls)
  BY <1>1, <1>4, <1>5 DEF CountsRead, Alike
<1>8. JobOK(p, snapshots, persisted)
  BY <1>3, <1>4, <1>5, JobAlong
<1>9. OnTrack(p) /\ p.pc # "idle" /\ q.in.op \in Admin
  BY <1>4, <1>5 DEF OnTrack, Alike, Admin, Searches
<1> QED  BY <1>1, <1>3, <1>5, <1>6, <1>7, <1>8, <1>9, ReadLook

\* count_users_by_org.
LEMMA ReadUsersKeeps ==
  ASSUME ReadingInv, UsageInv', NEW r \in Request, ReadUsers(r)
  PROVE  ReadingInv'
<1> DEFINE q == req[r]
           b == CountUsers(Head(q.todo))
           rows == Append(q.rows, b)
           p == [q EXCEPT !.pc = AfterUsers[q.in.op], !.rows = rows]
<1>1. q.pc = "count_users" /\ Look(r, p) /\ UNCHANGED usageVars
  BY DEF ReadUsers
<1>2. q.pc # "idle" /\ q.pc # "done"
  BY <1>1
<1>3. /\ q = [k \in Fields |-> q[k]] /\ q.in.op \in Admin /\ CountsRead(q, calls)
      /\ CountsSeen(q, facts) /\ JobOK(q, snapshots, persisted)
  BY <1>1, <1>2, RunningGood, Where
<1> HIDE DEF b, rows
<1>4. /\ Alike(q, p) /\ p.pc = AfterUsers[q.in.op] /\ p.rows = rows
      /\ p.results = q.results /\ p.status = q.status /\ p.todo = q.todo
      /\ p.bad = q.bad /\ p.got = q.got
  BY <1>3 DEF Alike, Fields
<1> HIDE DEF p
<1>5. p.pc = IF q.in.op = "dashboard" THEN "usage"
             ELSE IF q.in.op = "summary" THEN "done" ELSE "keep"
  BY <1>3, <1>4 DEF AfterUsers, Admin
<1>6. q.todo \in Seq(Orgs) /\ q.todo # <<>>
  BY <1>2, <1>3 DEF CountsRead
<1>7. Head(q.todo) \in Orgs
  BY <1>6, HeadOrg
<1>8. b \in Nat /\ <<Head(q.todo), b>> \in q.near
  BY <1>3, <1>7, CountNat DEF b, CountUsers, CountsSeen
<1>9. PICK a \in Nat : q.rows = <<a>> /\ <<Head(q.todo), a>> \in q.live
  BY <1>1, <1>3 DEF CountsRead
<1>10. rows = <<a, b>>
  BY <1>8, <1>9, Pair DEF rows
<1>11. CountsRead(p, calls)
  BY <1>3, <1>4, <1>5, <1>6, <1>8, <1>9, <1>10 DEF CountsRead, Alike
<1>12. JobOK(p, snapshots, persisted)
  <2>1. CASE q.in.op = "summary"
    BY <1>4, <2>1 DEF JobOK, Jobs, Alike
  <2>2. CASE q.in.op # "summary"
    BY <1>2, <1>3, <1>4, <1>5, <2>2, JobAlong
  <2> QED  BY <2>1, <2>2
<1>13. OnTrack(p) /\ p.pc # "idle"
  BY <1>3, <1>4, <1>5 DEF OnTrack, Alike, Admin, Searches
<1> QED  BY <1>1, <1>2, <1>3, <1>4, <1>11, <1>12, <1>13, ReadLook

\* query_usage.
LEMMA ReadUsageKeeps ==
  ASSUME ReadingInv, UsageInv', NEW r \in Request, ReadUsage(r)
  PROVE  ReadingInv'
<1> DEFINE q == req[r]
           u == UsageOf(Head(q.todo))
           p == [q EXCEPT !.pc = "done", !.got = {u}]
           es == {e \in persisted : OrgOf[e.t] = Head(q.todo)}
<1>1. q.pc = "usage" /\ Look(r, p) /\ UNCHANGED usageVars
  BY DEF ReadUsage
<1>2. q.pc # "idle" /\ q.pc # "done"
  BY <1>1
<1>3. /\ q = [k \in Fields |-> q[k]] /\ q.in.op = "dashboard" /\ CountsRead(q, calls)
  BY <1>1, <1>2, RunningGood, Where
<1>4. u.requests = Cardinality(es)
  BY DEF UsageOf
<1>5. u.requests \in Nat /\ u.requests <= calls
  <2>1. IsFiniteSet(persisted) /\ IsFiniteSet(pending)
    BY DEF ReadingInv, UsageInv, EventsOK
  <2>2. es \subseteq persisted
    OBVIOUS
  <2> HIDE DEF es
  <2>3. IsFiniteSet(es) /\ Cardinality(es) <= Cardinality(persisted)
    BY <2>1, <2>2, FS_Subset
  <2>4. /\ Cardinality(es) \in Nat /\ Cardinality(persisted) \in Nat
        /\ Cardinality(pending) \in Nat
    BY <2>1, <2>3, FS_CardinalityType
  <2>5. /\ Cardinality(pending) + Cardinality(persisted) + purged + lost + nameless = calls
        /\ purged \in Nat /\ lost \in Nat /\ nameless \in Nat /\ calls \in Nat
    BY DEF ReadingInv, UsageInv, UsageConserved, CountersOK
  <2> QED  BY <1>4, <2>3, <2>4, <2>5
<1> HIDE DEF u
<1>6. /\ Alike(q, p) /\ p.pc = "done" /\ p.rows = q.rows
      /\ p.results = q.results /\ p.todo = q.todo /\ p.got = {u}
  BY <1>3 DEF Alike, Fields
<1> HIDE DEF p
<1>7. CountsRead(p, calls)
  BY <1>1, <1>3, <1>5, <1>6 DEF CountsRead, Alike
<1>8. JobOK(p, snapshots, persisted)
  BY <1>3, <1>6 DEF JobOK, Jobs, Alike
<1>9. OnTrack(p) /\ p.pc # "idle" /\ q.in.op \in Admin
  BY <1>3, <1>6 DEF OnTrack, Alike, Admin, Searches
<1> QED  BY <1>1, <1>2, <1>6, <1>7, <1>8, <1>9, ReadLook

\* The next organisation, or the end.
LEMMA NextOrgIs ==
  ASSUME NEW q, q = [k \in Fields |-> q[k]], q.in.op \in {"snapshot", "job", "purge"},
         q.in.op \in Jobs => q.in.orgs # <<>> /\ q.in.cutoff # 0,
         NEW p, p = NextOrg(q)
  PROVE  /\ Alike(q, p) /\ p.results = q.results /\ p.bad = q.bad /\ p.got = q.got
         /\ p.rows = q.rows /\ p.todo = Tail(q.todo)
         /\ Tail(q.todo) = <<>> => p.pc = "done" /\ p.status = JobStatus(p)
         /\ Tail(q.todo) # <<>> =>
              /\ p.pc = IF q.in.op = "purge" THEN "match" ELSE "count_facts"
              /\ p.status = q.status
<1> DEFINE rest == [q EXCEPT !.todo = Tail(@)]
<1>1. /\ rest = [k \in Fields |-> rest[k]] /\ Alike(q, rest) /\ rest.todo = Tail(q.todo)
      /\ rest.results = q.results /\ rest.bad = q.bad /\ rest.got = q.got
      /\ rest.rows = q.rows /\ rest.status = q.status
  BY DEF Alike, Fields
<1>2. p = IF rest.todo = <<>> THEN [rest EXCEPT !.pc = "done", !.status = JobStatus(rest)]
                              ELSE [rest EXCEPT !.pc = AdminStart(q.in).pc]
  BY DEF NextOrg
<1> HIDE DEF rest
<1>3. AdminStart(q.in).pc = IF q.in.op = "purge" THEN "match" ELSE "count_facts"
  <2>1. ~(q.in.op \in Jobs /\ (q.in.orgs = <<>> \/ q.in.cutoff = 0))
    OBVIOUS
  <2>2. AdminStart(q.in)
          = [Started(q.in, IF q.in.op = "purge" THEN "match" ELSE "count_facts")
               EXCEPT !.todo = q.in.orgs]
    BY <2>1 DEF AdminStart
  <2> QED  BY <2>2 DEF Started
<1>4. CASE Tail(q.todo) = <<>>
  <2> DEFINE s == JobStatus(rest)
  <2> HIDE DEF s
  <2>1. p = [rest EXCEPT !.pc = "done", !.status = s]
    BY <1>1, <1>2, <1>4 DEF s
  <2>2. /\ Alike(rest, p) /\ p.pc = "done" /\ p.status = s /\ p.todo = rest.todo
        /\ p.results = rest.results /\ p.bad = rest.bad /\ p.got = rest.got
        /\ p.rows = rest.rows
    BY <1>1, <2>1 DEF Alike, Fields
  <2>3. Alike(q, p)
    BY <1>1, <2>2 DEF Alike
  <2>4. JobStatus(p) = s
    BY <2>2 DEF JobStatus, s
  <2> QED  BY <1>1, <1>4, <2>2, <2>3, <2>4
<1>5. CASE Tail(q.todo) # <<>>
  <2> DEFINE c == IF q.in.op = "purge" THEN "match" ELSE "count_facts"
  <2>1. p = [rest EXCEPT !.pc = c]
    BY <1>1, <1>2, <1>3, <1>5
  <2> HIDE DEF c
  <2>2. /\ Alike(rest, p) /\ p.pc = c /\ p.status = rest.status /\ p.todo = rest.todo
        /\ p.results = rest.results /\ p.bad = rest.bad /\ p.got = rest.got
        /\ p.rows = rest.rows
    BY <1>1, <2>1 DEF Alike, Fields
  <2>3. Alike(q, p)
    BY <1>1, <2>2 DEF Alike
  <2> QED  BY <1>1, <1>5, <2>2, <2>3 DEF c
<1> QED  BY <1>4, <1>5

\* One more or the same results.
LEMMA OneMore ==
  ASSUME NEW S, NEW rs \in Seq(S), NEW s \in S
  PROVE  /\ Append(rs, s) \in Seq(S) /\ DOMAIN rs \subseteq DOMAIN Append(rs, s)
         /\ Append(rs, s)[Len(rs) + 1] = s /\ Len(rs) + 1 \in DOMAIN Append(rs, s)
         /\ \A i \in DOMAIN rs : Append(rs, s)[i] = rs[i]
         /\ \A i \in DOMAIN Append(rs, s) : i \in DOMAIN rs \/ Append(rs, s)[i] = s
<1> DEFINE a == Append(rs, s)
<1>1. /\ Len(rs) \in Nat /\ DOMAIN rs = 1 .. Len(rs) /\ a \in Seq(S)
      /\ DOMAIN a = 1 .. Len(rs) + 1 /\ a[Len(rs) + 1] = s
      /\ \A i \in 1 .. Len(rs) : a[i] = rs[i]
  BY AppendProperties
<1>2. \A i \in 1 .. Len(rs) + 1 : i \in 1 .. Len(rs) \/ i = Len(rs) + 1
  BY <1>1
<1> HIDE DEF a
<1> QED  BY <1>1, <1>2 DEF a

\* A job after one of its organisations.
LEMMA JobNextOK ==
  ASSUME NEW q, Req(q), q.in.op \in Jobs, NEW ss, NEW es, JobOK(q, ss, es),
         q.pc # "done", NEW p, NEW rs, NEW ds,
         p.in = q.in, p.alone = q.alone, p.todo = Tail(q.todo),
         NEW S, S = (IF q.in.op = "job" THEN Reported ELSE PurgedOf),
         \/ /\ p.bad = q.bad
            /\ \E s \in S :
                 /\ s.org = Head(q.todo) /\ p.results = Append(q.results, s)
                 /\ q.in.op = "job" => \E j \in DOMAIN rs : rs[j] = s
                 /\ q.in.op = "purge" /\ q.alone => s.deleted >= s.matched
         \/ p.results = q.results /\ p.bad # {},
         \A j \in DOMAIN ss : j \in DOMAIN rs /\ rs[j] = ss[j],
         Tail(q.todo) = <<>> => p.pc = "done" /\ p.status = JobStatus(p),
         Tail(q.todo) # <<>> => p.pc \in {"match", "count_facts"} /\ p.status = q.status
  PROVE  JobOK(p, rs, ds)
<1>1. q.status # "skipped"
  BY DEF JobOK
<1>2. PICK n \in Nat : Serving(q, n)
  BY <1>1 DEF JobOK
<1>3. /\ q.in.orgs \in Seq(Orgs) /\ q.in.orgs # <<>> /\ q.in.cutoff # 0
  BY <1>1, AskedOps DEF JobOK, Req
<1>4. q.results \in Seq(S) /\ \A y \in S : y.org \in Orgs
  BY DEF JobOK, Reported, PurgedOf
<1>5. p.pc = "done" <=> Tail(q.todo) = <<>>
  OBVIOUS
<1>6. Serving(p, n + 1)
  <2>1. /\ p.pc = "done" => p.status = JobStatus(p)
        /\ p.pc # "done" => p.status = q.status
    BY <1>5
  <2> QED  BY <1>2, <1>3, <1>4, <1>5, <2>1, ServeNext
<1>7. /\ p.results \in Seq(S)
      /\ p.in.op = "job" => \A i \in DOMAIN p.results :
                              \E j \in DOMAIN rs : rs[j] = p.results[i]
      /\ p.in.op = "purge" /\ p.alone =>
           \A i \in DOMAIN p.results : p.results[i].deleted >= p.results[i].matched
  <2>1. /\ q.in.op = "job" => \A i \in DOMAIN q.results :
                              \E j \in DOMAIN rs : rs[j] = q.results[i]
        /\ q.in.op = "purge" /\ q.alone =>
             \A i \in DOMAIN q.results : q.results[i].deleted >= q.results[i].matched
    BY DEF JobOK
  <2>2. CASE \E s \in S :
               /\ s.org = Head(q.todo) /\ p.results = Append(q.results, s)
               /\ q.in.op = "job" => \E j \in DOMAIN rs : rs[j] = s
               /\ q.in.op = "purge" /\ q.alone => s.deleted >= s.matched
    <3>1. PICK s \in S : /\ p.results = Append(q.results, s)
                         /\ q.in.op = "job" => \E j \in DOMAIN rs : rs[j] = s
                         /\ q.in.op = "purge" /\ q.alone => s.deleted >= s.matched
      BY <2>2
    <3>2. /\ p.results \in Seq(S)
          /\ \A i \in DOMAIN q.results : p.results[i] = q.results[i]
          /\ \A i \in DOMAIN p.results : i \in DOMAIN q.results \/ p.results[i] = s
      <4> DEFINE old == q.results
      <4>1. old \in Seq(S) /\ p.results = Append(old, s)
        BY <1>4, <3>1
      <4> HIDE DEF old
      <4>2. /\ p.results \in Seq(S) /\ \A i \in DOMAIN old : p.results[i] = old[i]
            /\ \A i \in DOMAIN p.results : i \in DOMAIN old \/ p.results[i] = s
        BY <4>1, OneMore
      <4> QED  BY <4>2 DEF old
    <3> QED  BY <2>1, <3>1, <3>2
  <2>3. CASE p.results = q.results
    BY <1>4, <2>1, <2>3
  <2> QED  BY <2>2, <2>3
<1>8. n + 1 \in Nat /\ p.pc # "expire"
  BY <1>2
<1>9. p.status = "skipped" => p.pc = "done"
  BY <1>1
<1> QED  BY <1>3, <1>6, <1>7, <1>8, <1>9 DEF JobOK

\* The counts of a snapshot, kept or not.
LEMMA CountsNext ==
  ASSUME NEW q, NEW n, CountsRead(q, n), q.in.op \in {"snapshot", "job"}, q.pc # "done",
         NEW p, p.in = q.in, p.live = q.live, p.near = q.near, p.got = q.got,
         p.todo = Tail(q.todo),
         \/ p.results = q.results
         \/ \E s \in Reported : /\ <<s.org, s.facts>> \in q.live
                                /\ <<s.org, s.users>> \in q.near
                                /\ p.results = Append(q.results, s),
         Tail(q.todo) = <<>> => p.pc = "done", Tail(q.todo) # <<>> => p.pc = "count_facts"
  PROVE  CountsRead(p, n)
<1>1. q.in.op \in Admin
  BY DEF Admin
<1>2. /\ q.results \in Seq(Reported) /\ q.todo \in Seq(Orgs) /\ q.todo # <<>>
      /\ \A i \in DOMAIN q.results :
           /\ <<q.results[i].org, q.results[i].facts>> \in q.live
           /\ <<q.results[i].org, q.results[i].users>> \in q.near
      /\ \A u \in q.got : u.requests \in Nat /\ u.requests <= n
  BY <1>1 DEF CountsRead
<1>3. p.todo \in Seq(Orgs)
  BY <1>2, HeadOrg
<1>4. /\ p.results \in Seq(Reported)
      /\ \A i \in DOMAIN p.results :
           /\ <<p.results[i].org, p.results[i].facts>> \in p.live
           /\ <<p.results[i].org, p.results[i].users>> \in p.near
  <2>1. CASE p.results = q.results
    BY <1>2, <2>1
  <2>2. CASE \E s \in Reported : /\ <<s.org, s.facts>> \in q.live
                                 /\ <<s.org, s.users>> \in q.near
                                 /\ p.results = Append(q.results, s)
    <3>1. PICK s \in Reported : /\ <<s.org, s.facts>> \in q.live
                                /\ <<s.org, s.users>> \in q.near
                                /\ p.results = Append(q.results, s)
      BY <2>2
    <3>2. /\ p.results \in Seq(Reported)
          /\ \A i \in DOMAIN q.results : p.results[i] = q.results[i]
          /\ \A i \in DOMAIN p.results : i \in DOMAIN q.results \/ p.results[i] = s
      BY <1>2, <3>1, OneMore
    <3> QED  BY <1>2, <3>1, <3>2
  <2> QED  BY <2>1, <2>2
<1>5. p.pc = "done" \/ p.pc = "count_facts"
  OBVIOUS
<1> QED  BY <1>2, <1>3, <1>4, <1>5 DEF CountsRead

\* Where a request with several organisations goes on.
LEMMA NextOrgTrack ==
  ASSUME NEW p, p.in.op \in {"snapshot", "job", "purge"},
         p.pc = "done" \/ p.pc = (IF p.in.op = "purge" THEN "match" ELSE "count_facts")
  PROVE  OnTrack(p) /\ p.pc # "idle"
  BY DEF OnTrack, Searches

\* insert_memory_usage_snapshot.
LEMMA KeepKeeps ==
  ASSUME ReadingInv, UsageInv', NEW r \in Request, Keep(r)
  PROVE  ReadingInv'
<1> DEFINE q == req[r]
           s == [org |-> Head(q.todo), facts |-> q.rows[1], users |-> q.rows[2]]
           more == Append(q.results, s)
           o == [q EXCEPT !.results = more]
           p == NextOrg(o)
<1>1. /\ q.pc = "keep" /\ snapshots' = Append(snapshots, s)
      /\ req' = [req EXCEPT ![r] = p]
      /\ UNCHANGED <<facts, vectors, dumps, usageVars>>
  BY DEF Keep
<1>2. q.pc # "idle" /\ q.pc # "done"
  BY <1>1
<1>3. /\ Req(q) /\ q = [k \in Fields |-> q[k]] /\ q.in.op \in {"snapshot", "job"}
      /\ CountsRead(q, calls) /\ CountsSeen(q, facts) /\ JobOK(q, snapshots, persisted)
      /\ BillOK(q, calls, attribution, pending \cup persisted)
  BY <1>1, <1>2, RunningGood, Where
<1>4. /\ q.todo \in Seq(Orgs) /\ q.todo # <<>>
      /\ \E a, b \in Nat : /\ q.rows = <<a, b>> /\ <<Head(q.todo), a>> \in q.live
                           /\ <<Head(q.todo), b>> \in q.near
  BY <1>1, <1>3 DEF CountsRead, Admin
<1>5. /\ s \in Reported /\ s.org = Head(q.todo)
      /\ <<s.org, s.facts>> \in q.live /\ <<s.org, s.users>> \in q.near
  <2>1. Head(q.todo) \in Orgs
    BY <1>4, HeadOrg
  <2> QED  BY <1>4, <2>1 DEF Reported
<1> HIDE DEF s, more
<1>6. /\ o = [k \in Fields |-> o[k]] /\ Alike(q, o) /\ o.results = more
      /\ o.bad = q.bad /\ o.got = q.got /\ o.todo = q.todo /\ o.status = q.status
  BY <1>3 DEF Alike, Fields
<1> HIDE DEF o
<1>7. q.in.op \in Jobs => q.in.orgs # <<>> /\ q.in.cutoff # 0
  BY <1>2, <1>3 DEF JobOK
<1>8. /\ Alike(o, p) /\ p.results = o.results /\ p.bad = o.bad /\ p.got = o.got
      /\ p.todo = Tail(o.todo)
      /\ Tail(o.todo) = <<>> => p.pc = "done" /\ p.status = JobStatus(p)
      /\ Tail(o.todo) # <<>> =>
           /\ p.pc = IF o.in.op = "purge" THEN "match" ELSE "count_facts"
           /\ p.status = o.status
  <2>1. o.in = q.in /\ o.in.op \in {"snapshot", "job", "purge"}
    BY <1>3, <1>6 DEF Alike
  <2> QED  BY <1>6, <1>7, <2>1, NextOrgIs
<1> HIDE DEF p
<1>9. Alike(q, p) /\ p.in = q.in
  BY <1>6, <1>8 DEF Alike
<1>10. /\ p.pc = "done" \/ p.pc = "count_facts"
       /\ Tail(q.todo) = <<>> => p.pc = "done" /\ p.status = JobStatus(p)
       /\ Tail(q.todo) # <<>> => p.pc = "count_facts" /\ p.status = q.status
  BY <1>3, <1>6, <1>8, <1>9 DEF Alike
<1>11. OnTrack(p) /\ p.pc # "idle"
  BY <1>3, <1>9, <1>10, NextOrgTrack
<1>12. /\ calls' = calls /\ attribution' = attribution /\ pending' = pending
       /\ persisted' = persisted /\ facts' = facts /\ dumps' = dumps
  BY <1>1 DEF usageVars
<1>13. SnapshotsGrow /\ \E j \in DOMAIN snapshots' : snapshots'[j] = s
  <2>1. snapshots \in Seq(Reported)
    BY DEF ReadingInv, JobsOK
  <2> QED  BY <1>1, <1>5, <2>1, OneMore DEF SnapshotsGrow
<1>14. CountsRead(p, calls')
  <2>1. /\ p.live = q.live /\ p.near = q.near /\ p.got = q.got /\ p.todo = Tail(q.todo)
        /\ p.results = Append(q.results, s)
    BY <1>6, <1>8, <1>9 DEF Alike, more
  <2> QED  BY <1>2, <1>3, <1>5, <1>9, <1>10, <1>12, <2>1, CountsNext
<1>15. JobOK(p, snapshots', persisted')
  <2>1. CASE q.in.op = "snapshot"
    BY <1>9, <2>1 DEF JobOK, Jobs
  <2>2. CASE q.in.op = "job"
    <3>1. /\ p.alone = q.alone /\ p.todo = Tail(q.todo) /\ p.bad = q.bad
          /\ p.results = Append(q.results, s) /\ q.in.op \in Jobs
      BY <1>6, <1>8, <1>9, <2>2 DEF Alike, more, Jobs
    <3> DEFINE S == IF q.in.op = "job" THEN Reported ELSE PurgedOf
    <3>2. S = Reported
      BY <2>2
    <3> HIDE DEF S
    <3>3. /\ q.in.op = "purge" /\ q.alone => s.deleted >= s.matched
          /\ \A j \in DOMAIN snapshots : j \in DOMAIN snapshots' /\ snapshots'[j] = snapshots[j]
      BY <1>13, <2>2 DEF SnapshotsGrow
    <3>4. S = (IF q.in.op = "job" THEN Reported ELSE PurgedOf)
      BY DEF S
    <3>5. /\ p.bad = q.bad
          /\ \E x \in S :
               /\ x.org = Head(q.todo) /\ p.results = Append(q.results, x)
               /\ q.in.op = "job" => \E j \in DOMAIN snapshots' : snapshots'[j] = x
               /\ q.in.op = "purge" /\ q.alone => x.deleted >= x.matched
      BY <1>5, <1>13, <2>2, <3>1, <3>2
    <3>6. Tail(q.todo) # <<>> => p.pc \in {"match", "count_facts"} /\ p.status = q.status
      BY <1>10
    <3>7. Tail(q.todo) = <<>> => p.pc = "done" /\ p.status = JobStatus(p)
      BY <1>10
    <3>8. Req(q) /\ JobOK(q, snapshots, persisted)
      BY <1>3
    <3> HIDE DEF q
    <3> QED  BY <1>2, <1>9, <3>1, <3>3, <3>4, <3>5, <3>6, <3>7, <3>8, JobNextOK
  <2> QED  BY <1>3, <2>1, <2>2
<1>16. BillOK(p, calls', attribution', pending' \cup persisted')
  BY <1>3, <1>9, <1>12, BillSame DEF Alike
<1>17. Req(p) /\ p.in.op \in Admin \cup Jobs
  BY <1>3, <1>9, <1>11, AdminReq DEF Admin
<1>18. GoodAfter(p) /\ p.alone = q.alone /\ CountsSeen(p, facts)
  BY <1>3, <1>9, <1>14, <1>15, <1>16, <1>17, AdminGood DEF Alike, CountsSeen
<1>19. Moved(r, p)
  BY <1>1, <1>12, <1>17, <1>18, LookMoved DEF ReadingInv
<1> QED  BY <1>2, <1>12, <1>13, <1>18, <1>19, MovedKeeps, TablesStay, CallsStay

\* An organisation of a job fails.
LEMMA JobOrgFailsKeeps ==
  ASSUME ReadingInv, UsageInv', NEW r \in Request, JobOrgFails(r)
  PROVE  ReadingInv'
<1> DEFINE q == req[r]
<1>1. /\ q.pc \in {"count_facts", "count_users", "keep", "match", "expire"}
      /\ q.in.op \in Jobs /\ UNCHANGED usageVars
  BY DEF JobOrgFails
<1>2. PICK error : Look(r, NextOrg([q EXCEPT !.bad = @ \cup {error}]))
  BY DEF JobOrgFails
<1> DEFINE bad == q.bad \cup {error}
           o == [q EXCEPT !.bad = bad]
           p == NextOrg(o)
<1>3. q.pc # "idle" /\ q.pc # "done" /\ Look(r, p)
  BY <1>1, <1>2
<1>4. /\ Req(q) /\ q = [k \in Fields |-> q[k]] /\ q.in.op \in {"job", "purge"}
      /\ CountsRead(q, calls) /\ JobOK(q, snapshots, persisted)
  BY <1>1, <1>3, RunningGood DEF Jobs
<1>5. bad # {}
  OBVIOUS
<1> HIDE DEF bad
<1>6. /\ o = [k \in Fields |-> o[k]] /\ Alike(q, o) /\ o.results = q.results
      /\ o.bad = bad /\ o.got = q.got /\ o.todo = q.todo /\ o.status = q.status
  BY <1>4 DEF Alike, Fields
<1> HIDE DEF o
<1>7. q.in.orgs # <<>> /\ q.in.cutoff # 0
  BY <1>1, <1>3, <1>4 DEF JobOK
<1>8. /\ Alike(o, p) /\ p.results = o.results /\ p.bad = o.bad /\ p.got = o.got
      /\ p.todo = Tail(o.todo)
      /\ Tail(o.todo) = <<>> => p.pc = "done" /\ p.status = JobStatus(p)
      /\ Tail(o.todo) # <<>> =>
           /\ p.pc = IF o.in.op = "purge" THEN "match" ELSE "count_facts"
           /\ p.status = o.status
  <2>1. o.in = q.in /\ o.in.op \in {"snapshot", "job", "purge"}
    BY <1>4, <1>6 DEF Alike
  <2> QED  BY <1>6, <1>7, <2>1, NextOrgIs
<1> HIDE DEF p
<1>9. Alike(q, p) /\ p.in = q.in /\ p.alone = q.alone
  BY <1>6, <1>8 DEF Alike
<1>10. /\ p.pc = "done" \/ p.pc = (IF q.in.op = "purge" THEN "match" ELSE "count_facts")
       /\ Tail(q.todo) = <<>> => p.pc = "done" /\ p.status = JobStatus(p)
       /\ Tail(q.todo) # <<>> =>
            /\ p.pc = IF q.in.op = "purge" THEN "match" ELSE "count_facts"
            /\ p.status = q.status
  BY <1>6, <1>8, <1>9 DEF Alike
<1>11. OnTrack(p) /\ p.pc # "idle"
  BY <1>4, <1>9, <1>10, NextOrgTrack
<1>12. /\ p.results = q.results /\ p.bad # {} /\ p.todo = Tail(q.todo) /\ p.got = q.got
       /\ p.live = q.live /\ p.near = q.near
  BY <1>5, <1>6, <1>8, <1>9 DEF Alike
<1>13. CountsRead(p, calls)
  <2>1. CASE q.in.op = "job"
    BY <1>3, <1>4, <1>9, <1>10, <1>12, <2>1, CountsNext
  <2>2. CASE q.in.op = "purge"
    BY <1>9, <2>2 DEF CountsRead, Admin
  <2> QED  BY <1>4, <2>1, <2>2
<1>14. JobOK(p, snapshots, persisted)
  <2> DEFINE S == IF q.in.op = "job" THEN Reported ELSE PurgedOf
  <2>1. S = (IF q.in.op = "job" THEN Reported ELSE PurgedOf)
    OBVIOUS
  <2> HIDE DEF S
  <2>2. Tail(q.todo) # <<>> => p.pc \in {"match", "count_facts"} /\ p.status = q.status
    BY <1>10
  <2> QED  BY <1>1, <1>3, <1>4, <1>9, <1>10, <1>12, <2>1, <2>2, JobNextOK
<1> QED  BY <1>1, <1>3, <1>9, <1>11, <1>13, <1>14, ReadLook

\* count_usage_events_older_than.
LEMMA MatchExpiredKeeps ==
  ASSUME ReadingInv, UsageInv', NEW r \in Request, MatchExpired(r)
  PROVE  ReadingInv'
<1> DEFINE q == req[r]
           m == Cardinality(Expired(q))
           p == [q EXCEPT !.pc = "expire", !.rows = <<m>>]
<1>1. q.pc = "match" /\ Look(r, p) /\ UNCHANGED usageVars
  BY DEF MatchExpired
<1>2. q.pc # "idle" /\ q.pc # "done"
  BY <1>1
<1>3. /\ q = [k \in Fields |-> q[k]] /\ q.in.op = "purge" /\ JobOK(q, snapshots, persisted)
  BY <1>1, <1>2, RunningGood, Where
<1>4. m = Cardinality(ExpiredIn(q, persisted))
  BY DEF Expired, ExpiredIn
<1>5. m \in Nat
  <2>1. IsFiniteSet(persisted) /\ ExpiredIn(q, persisted) \subseteq persisted
    BY DEF ReadingInv, UsageInv, EventsOK, ExpiredIn
  <2> QED  BY <1>4, <2>1, FS_Subset, FS_CardinalityType
<1> HIDE DEF m
<1>6. /\ Alike(q, p) /\ p.pc = "expire" /\ p.rows = <<m>> /\ p.results = q.results
      /\ p.status = q.status /\ p.todo = q.todo /\ p.bad = q.bad
  BY <1>3 DEF Alike, Fields
<1> HIDE DEF p
<1>7. p.in = q.in /\ p.alone = q.alone
  BY <1>6 DEF Alike
<1>8. CountsRead(p, calls)
  BY <1>3, <1>7 DEF CountsRead, Admin
<1>9. \A n \in Nat : Serving(q, n) => Serving(p, n)
  BY <1>2, <1>6, <1>7 DEF Serving
<1>10. m <= Cardinality(ExpiredIn(p, persisted))
  <2>1. ExpiredIn(p, persisted) = ExpiredIn(q, persisted)
    BY <1>6, <1>7 DEF ExpiredIn
  <2> QED  BY <1>4, <1>5, <2>1
<1>11. JobOK(p, snapshots, persisted)
  <2>1. q.status # "skipped" /\ q.in.op \in Jobs
    BY <1>2, <1>3 DEF JobOK, Jobs
  <2> QED  BY <1>3, <1>5, <1>6, <1>7, <1>9, <1>10, <2>1 DEF JobOK
<1>12. OnTrack(p) /\ p.pc # "idle" /\ q.in.op \in Admin \cup Jobs
  BY <1>3, <1>6, <1>7 DEF OnTrack, Jobs, Searches
<1> QED  BY <1>1, <1>2, <1>6, <1>8, <1>11, <1>12, ReadLook

\* delete_usage_events_older_than.
LEMMA DeleteExpiredKeeps ==
  ASSUME ReadingInv, UsageInv', NEW r \in Request, DeleteExpired(r)
  PROVE  ReadingInv'
<1> DEFINE q == req[r]
           d == Cardinality(Expired(q))
           s == [org |-> Head(q.todo), matched |-> q.rows[1], deleted |-> d]
           more == Append(q.results, s)
           o == [q EXCEPT !.results = more]
           p == NextOrg(o)
<1>1. q.pc = "expire" /\ Look(r, p) /\ Purge(Expired(q))
  BY DEF DeleteExpired
<1>2. q.pc # "idle" /\ q.pc # "done"
  BY <1>1
<1>3. /\ Req(q) /\ q = [k \in Fields |-> q[k]] /\ q.in.op = "purge" /\ q.in.op \in Jobs
      /\ JobOK(q, snapshots, persisted)
      /\ BillOK(q, calls, attribution, pending \cup persisted)
  BY <1>1, <1>2, RunningGood, Where DEF Jobs
<1>4. d = Cardinality(ExpiredIn(q, persisted)) /\ d \in Nat
  <2>1. IsFiniteSet(persisted) /\ ExpiredIn(q, persisted) \subseteq persisted
    BY DEF ReadingInv, UsageInv, EventsOK, ExpiredIn
  <2>2. Expired(q) = ExpiredIn(q, persisted)
    BY DEF Expired, ExpiredIn
  <2> QED  BY <2>1, <2>2, FS_Subset, FS_CardinalityType
<1>5. PICK m \in Nat : q.rows = <<m>> /\ (q.alone => m <= d)
  BY <1>1, <1>3, <1>4 DEF JobOK
<1>6. q.status # "skipped" /\ q.in.orgs \in Seq(Orgs) /\ q.in.orgs # <<>> /\ q.in.cutoff # 0
  BY <1>2, <1>3, AskedOps DEF JobOK, Req
<1>7. Head(q.todo) \in Orgs
  <2>1. PICK n \in Nat : Serving(q, n)
    BY <1>3, <1>6 DEF JobOK
  <2>2. n < Len(q.in.orgs) /\ n <= Len(q.in.orgs)
        /\ q.todo = SubSeq(q.in.orgs, n + 1, Len(q.in.orgs))
    BY <1>2, <1>6, <2>1 DEF Serving
  <2> QED  BY <1>6, <2>2, Rest
<1> HIDE DEF d
<1>8. /\ s \in PurgedOf /\ s.org = Head(q.todo)
      /\ q.alone => s.deleted >= s.matched
  BY <1>4, <1>5, <1>7 DEF PurgedOf
<1> HIDE DEF s, more
<1>9. /\ o = [k \in Fields |-> o[k]] /\ Alike(q, o) /\ o.results = more
      /\ o.bad = q.bad /\ o.got = q.got /\ o.todo = q.todo /\ o.status = q.status
  BY <1>3 DEF Alike, Fields
<1> HIDE DEF o
<1>10. /\ Alike(o, p) /\ p.results = o.results /\ p.bad = o.bad
       /\ p.todo = Tail(o.todo)
       /\ Tail(o.todo) = <<>> => p.pc = "done" /\ p.status = JobStatus(p)
       /\ Tail(o.todo) # <<>> =>
            /\ p.pc = IF o.in.op = "purge" THEN "match" ELSE "count_facts"
            /\ p.status = o.status
  <2>1. o.in = q.in /\ o.in.op \in {"snapshot", "job", "purge"}
    BY <1>3, <1>9 DEF Alike
  <2> QED  BY <1>6, <1>9, <2>1, NextOrgIs
<1> HIDE DEF p
<1>11. Alike(q, p) /\ p.in = q.in /\ p.alone = q.alone /\ p.events = q.events
  BY <1>9, <1>10 DEF Alike
<1>12. /\ p.pc = "done" \/ p.pc = "match"
       /\ Tail(q.todo) = <<>> => p.pc = "done" /\ p.status = JobStatus(p)
       /\ Tail(q.todo) # <<>> => p.pc \in {"match", "count_facts"} /\ p.status = q.status
  BY <1>3, <1>9, <1>10, <1>11 DEF Alike
<1>13. OnTrack(p) /\ p.pc # "idle"
  BY <1>3, <1>11, <1>12, NextOrgTrack
<1>14. /\ calls' = calls /\ attribution' = attribution
       /\ pending' \cup persisted' \subseteq pending \cup persisted
       /\ snapshots' = snapshots
  BY <1>1 DEF Purge, Look
<1>15. CountsRead(p, calls')
  BY <1>3, <1>11 DEF CountsRead, Admin
<1>16. JobOK(p, snapshots', persisted')
  <2> DEFINE S == IF q.in.op = "job" THEN Reported ELSE PurgedOf
  <2>1. S = (IF q.in.op = "job" THEN Reported ELSE PurgedOf) /\ S = PurgedOf
    BY <1>3
  <2> HIDE DEF S
  <2>2. /\ p.bad = q.bad /\ p.results = Append(q.results, s) /\ p.todo = Tail(q.todo)
    BY <1>9, <1>10 DEF more
  <2>3. \E x \in S : /\ x.org = Head(q.todo) /\ p.results = Append(q.results, x)
                     /\ q.in.op = "job" => \E j \in DOMAIN snapshots' : snapshots'[j] = x
                     /\ q.in.op = "purge" /\ q.alone => x.deleted >= x.matched
    BY <1>3, <1>8, <2>1, <2>2
  <2>4. \A j \in DOMAIN snapshots : j \in DOMAIN snapshots' /\ snapshots'[j] = snapshots[j]
    BY <1>14
  <2>5. Req(q) /\ JobOK(q, snapshots, persisted) /\ q.in.op \in Jobs
    BY <1>3
  <2>6. /\ Tail(q.todo) = <<>> => p.pc = "done" /\ p.status = JobStatus(p)
        /\ Tail(q.todo) # <<>> => p.pc \in {"match", "count_facts"} /\ p.status = q.status
    BY <1>12
  <2> HIDE DEF q
  <2> QED  BY <1>2, <1>11, <2>1, <2>2, <2>3, <2>4, <2>5, <2>6, JobNextOK
<1>17. BillOK(p, calls', attribution', pending' \cup persisted')
  BY <1>3, <1>11, <1>14 DEF BillOK
<1>18. Req(p) /\ p.in.op \in Admin \cup Jobs
  BY <1>3, <1>11, <1>13, AdminReq
<1>19. GoodAfter(p)
  BY <1>15, <1>16, <1>17, <1>18, AdminGood
<1> QED  BY <1>1, <1>2, <1>11, <1>14, <1>19, LookKeeps, CallsStay

-----------------------------------------------------------------------------
(* The beginning of a request. *)

\* A request that is no longer alone is otherwise what it was.
LEMMA AwareSeen ==
  ASSUME ReadingInv, NEW s \in Request, req[s].pc # "idle", facts' = facts,
         NEW p, p = [req[s] EXCEPT !.alone = FALSE]
  PROVE  Seen(req[s], p, facts') /\ ~p.alone
<1> DEFINE q == req[s]
<1>1. q = [k \in Fields |-> q[k]] /\ CountsSeen(q, facts)
  BY RunningGood
<1> HIDE DEF q
<1>2. /\ p = [k \in Fields |-> p[k]] /\ p.alone = FALSE
      /\ \A k \in Fields \ {"alone"} : p[k] = q[k]
  BY <1>1 DEF Fields, q
<1>3. p.pc = q.pc /\ p.in = q.in /\ p.live = q.live /\ p.near = q.near
  BY <1>2 DEF Fields
<1>4. CountsSeen(p, facts')
  BY <1>1, <1>3 DEF CountsSeen
<1> QED  BY <1>2, <1>3, <1>4 DEF Seen, q

NobodyRuns == \A s \in Request : req[s].pc = "idle"

\* The others see that they are not alone; the new one is, if nobody runs.
LEMMA BegunKeeps ==
  ASSUME ReadingInv, UsageInv', NEW r \in Request, NEW q, Begun(r, q),
         q.pc # "idle", q.alone => NobodyRuns,
         GoodAfter(q), calls' = calls
  PROVE  ReadingInv'
<1>1. /\ facts' = facts /\ vectors' = vectors /\ dumps' = dumps /\ snapshots' = snapshots
      /\ req' = [s \in Request |->
                   IF s = r THEN Watch(q, facts, vectors)
                   ELSE IF req[s].pc = "idle" THEN req[s]
                   ELSE [req[s] EXCEPT !.alone = FALSE]]
  BY DEF Begun
<1>2. DOMAIN req' = Request /\ req'[r] = Watch(q, facts, vectors)
  BY <1>1
<1>3. SnapshotsGrow /\ TablesTyped' /\ calls' >= calls
  BY <1>1, SnapshotsStay, TablesStay, CallsStay
<1>4. Req(q)
  BY DEF GoodAfter
<1>5. /\ GoodAfter(req'[r]) /\ CountsSeen(req'[r], facts')
      /\ (req'[r].alone => q.alone)
  <2>1. Seen(q, req'[r], facts')
    BY <1>1, <1>2, <1>4, WatchSeen
  <2> QED  BY <2>1, OwnGood
<1>6. ASSUME NEW s \in Request \ {r}, req'[s].pc # "idle"
      PROVE  /\ req[s].pc # "idle" /\ ~req'[s].alone
             /\ GoodAfter(req'[s]) /\ CountsSeen(req'[s], facts')
  <2>1. req'[s] = IF req[s].pc = "idle" THEN req[s] ELSE [req[s] EXCEPT !.alone = FALSE]
    BY <1>1
  <2>2. req[s].pc # "idle"
    BY <1>6, <2>1
  <2>3. Seen(req[s], req'[s], facts') /\ ~req'[s].alone
    BY <1>1, <2>1, <2>2, AwareSeen
  <2> QED  BY <1>3, <1>6, <2>2, <2>3, SeenGood
<1>7. Alone'
  <2> SUFFICES ASSUME NEW a \in Request, NEW b \in Request, a # b,
                      req'[a].pc # "idle", req'[b].pc # "idle"
               PROVE  ~req'[a].alone
    BY DEF Alone
  <2>1. CASE a = r
    <3>1. req[b].pc # "idle"
      BY <1>6, <2>1
    <3>2. ~q.alone
      BY <3>1 DEF NobodyRuns
    <3> QED  BY <1>5, <2>1, <3>2
  <2>2. CASE a # r
    BY <1>6, <2>2
  <2> QED  BY <2>1, <2>2
<1> QED  BY <1>2, <1>3, <1>5, <1>6, <1>7, AllGood

\* A new request.
LEMMA StartedIs ==
  ASSUME NEW in, NEW c, NEW q, q = Started(in, c)
  PROVE  /\ q = [k \in Fields |-> q[k]] /\ q.pc = c /\ q.in = in /\ q.rows = <<>>
         /\ q.todo = <<>> /\ q.got = {} /\ q.results = <<>> /\ q.bad = {}
         /\ q.status = "running" /\ q.events = {}
         /\ q.alone \in BOOLEAN /\ (q.alone => NobodyRuns)
<1> DEFINE sound == {f \in Active(in.t) : Sound(f)}
           alone == \A s \in Request : req[s].pc = "idle"
<1>1. q = [pc |-> c, in |-> in, ok |-> TRUE, hits |-> <<>>, rows |-> <<>>,
           todo |-> <<>>, got |-> {}, results |-> <<>>, asm |-> {}, opt |-> {},
           bad |-> {}, status |-> "running", events |-> {},
           live |-> {}, near |-> {}, touched |-> {}, sound |-> sound, alone |-> alone]
  BY DEF Started
<1>2. alone \in BOOLEAN
  OBVIOUS
<1> HIDE DEF sound, alone
<1>3. /\ q.pc = c /\ q.in = in /\ q.rows = <<>> /\ q.todo = <<>> /\ q.got = {}
      /\ q.results = <<>> /\ q.bad = {} /\ q.status = "running" /\ q.events = {}
      /\ q.alone = alone
  BY <1>1
<1>4. q = [k \in Fields |-> q[k]]
  BY <1>1 DEF Fields
<1> QED  BY <1>2, <1>3, <1>4 DEF alone, NobodyRuns

\* bind_usage_attribution, or an operation that needs no name.
LEMMA NewBill ==
  ASSUME NEW q, q.events = {}, q.in.op \in Named => attribution' = q.in.t
  PROVE  BillOK(q, calls', attribution', pending' \cup persisted')
  BY DEF BillOK

\* bind_usage_attribution sets the slot and nothing else.
LEMMA BindStays ==
  ASSUME NEW t, Bind(t)
  PROVE  attribution' = t /\ calls' = calls /\ pending' = pending /\ persisted' = persisted
  BY DEF Bind

\* search_memory and build_context.
LEMMA BeginSearchKeeps ==
  ASSUME ReadingInv, UsageInv', NEW r \in Request, BeginSearch(r)
  PROVE  ReadingInv'
<1>1. PICK in \in Input : /\ in.op \in Searches /\ Begun(r, Started(in, "embed"))
                          /\ Bind(in.t)
  BY DEF BeginSearch
<1> DEFINE q == Started(in, "embed")
<1>2. q = Started(in, "embed") /\ Begun(r, q)
  BY <1>1
<1> HIDE DEF q
<1>3. /\ q = [k \in Fields |-> q[k]] /\ q.pc = "embed" /\ q.in = in /\ q.events = {}
      /\ q.alone \in BOOLEAN /\ (q.alone => NobodyRuns)
  BY <1>2, StartedIs
<1>4. Req(q)
  BY <1>1, <1>3 DEF Req, OnTrack, Searches, SearchSteps
<1>5. BillOK(q, calls', attribution', pending' \cup persisted')
  BY <1>1, <1>3, NewBill, BindStays
<1>6. GoodAfter(q)
  BY <1>1, <1>3, <1>4, <1>5, PlainGood DEF Named
<1>7. calls' = calls
  BY <1>1, BindStays
<1> QED  BY <1>3, <1>2, <1>6, <1>7, BegunKeeps

\* add_memory and delete_memory.
LEMMA BeginWriteKeeps ==
  ASSUME ReadingInv, UsageInv', NEW r \in Request, BeginWrite(r)
  PROVE  ReadingInv'
<1>1. PICK in \in Input : /\ in.op \in {"update", "delete"} /\ Begun(r, Started(in, "row"))
                          /\ IF in.op = "delete" THEN UNCHANGED usageVars ELSE Bind(in.t)
  BY DEF BeginWrite
<1> DEFINE q == Started(in, "row")
<1>2. q = Started(in, "row") /\ Begun(r, q)
  BY <1>1
<1> HIDE DEF q
<1>3. /\ q = [k \in Fields |-> q[k]] /\ q.pc = "row" /\ q.in = in /\ q.events = {}
      /\ q.alone \in BOOLEAN /\ (q.alone => NobodyRuns)
  BY <1>2, StartedIs
<1>4. Req(q)
  BY <1>1, <1>3 DEF Req, OnTrack, Searches, UpdateSteps, DeleteSteps
<1>5. calls' = calls /\ (in.op # "delete" => attribution' = in.t)
  BY <1>1, BindStays DEF usageVars
<1>6. BillOK(q, calls', attribution', pending' \cup persisted')
  BY <1>1, <1>3, <1>5, NewBill DEF Named, Searches
<1>7. GoodAfter(q)
  BY <1>1, <1>3, <1>4, <1>6, PlainGood DEF Named
<1> QED  BY <1>3, <1>2, <1>5, <1>7, BegunKeeps

\* An import names nobody, counts nothing and is no job.
LEMMA NewImport ==
  ASSUME ReadingInv, UsageInv', NEW r \in Request, NEW q, Begun(r, q), Req(q),
         q.in.op = "import", q.alone => NobodyRuns,
         q.events = {}, ImportOK(q, facts', vectors'), calls' = calls
  PROVE  ReadingInv'
<1>1. q.in.op \notin Named /\ q.in.op \notin Admin /\ q.in.op \notin Jobs
  BY DEF Named, Searches, Admin, Jobs
<1>2. GoodAfter(q)
  BY <1>1, NewBill DEF GoodAfter, CountsRead, JobOK
<1>3. q.pc # "idle"
  BY DEF Req
<1> QED  BY <1>2, <1>3, BegunKeeps

\* import_user_data.
LEMMA BeginImportKeeps ==
  ASSUME ReadingInv, UsageInv', NEW r \in Request, BeginImport(r)
  PROVE  ReadingInv'
<1>1. PICK in \in Input, dump \in dumps :
        /\ in.op = "import" /\ (in.dry \/ ImportValid(dump, in.t))
        /\ Begun(r, ImportStart(in, dump)) /\ UNCHANGED usageVars
  BY DEF BeginImport
<1>2. dump \in Dump /\ dump.facts \in Seq(Item)
  BY DEF ReadingInv, TablesTyped, Dump
<1>3. calls' = calls /\ facts' = facts /\ vectors' = vectors
  BY <1>1 DEF usageVars, Begun
<1>4. CASE in.dry
  <2> DEFINE new == Started(in, "done")
             n == DryRunOutput(in, dump)
             q == [new EXCEPT !.asm = dump, !.rows = <<n>>]
  <2>1. Begun(r, q)
    BY <1>1, <1>4 DEF ImportStart
  <2>2. new = Started(in, "done")
    OBVIOUS
  <2> HIDE DEF new
  <2>3. /\ new = [k \in Fields |-> new[k]] /\ new.pc = "done" /\ new.in = in
        /\ new.events = {}
        /\ new.alone \in BOOLEAN /\ (new.alone => NobodyRuns)
    BY <2>2, StartedIs
  <2> HIDE DEF new, n
  <2>4. /\ q = [k \in Fields |-> q[k]] /\ q.pc = "done" /\ q.in = in
        /\ q.events = {} /\ q.asm = dump /\ q.rows = <<n>>
        /\ q.alone = new.alone
    BY <2>3 DEF Fields
  <2> HIDE DEF q
  <2>5. Req(q)
    BY <1>1, <2>3, <2>4 DEF Req, OnTrack, Searches, ImportSteps
  <2>6. ImportOK(q, facts', vectors')
    BY <1>1, <1>2, <1>4, <2>4 DEF ImportOK, n
  <2> QED  BY <1>1, <1>3, <2>1, <2>3, <2>4, <2>5, <2>6, NewImport
<1>5. CASE ~in.dry
  <2> DEFINE new == Started(in, "wipe_facts")
             items == dump.facts
             q == [new EXCEPT !.asm = dump, !.rows = <<0>>, !.todo = items]
  <2>1. Begun(r, q)
    BY <1>1, <1>5 DEF ImportStart
  <2>2. new = Started(in, "wipe_facts")
    OBVIOUS
  <2> HIDE DEF new
  <2>3. /\ new = [k \in Fields |-> new[k]] /\ new.pc = "wipe_facts" /\ new.in = in
        /\ new.events = {}
        /\ new.alone \in BOOLEAN /\ (new.alone => NobodyRuns)
    BY <2>2, StartedIs
  <2> HIDE DEF new, items
  <2>4. /\ q = [k \in Fields |-> q[k]] /\ q.pc = "wipe_facts" /\ q.in = in
        /\ q.events = {} /\ q.asm = dump /\ q.rows = <<0>> /\ q.todo = items
        /\ q.alone = new.alone
    BY <2>3 DEF Fields
  <2> HIDE DEF q
  <2>5. Req(q)
    BY <1>1, <2>3, <2>4 DEF Req, OnTrack, Searches, ImportSteps
  <2>6. items = SubSeq(items, 0 + 1, Len(items)) /\ Len(items) \in Nat
    BY <1>2, WholeSeq DEF items
  <2>7. Replacing(q.pc, q.asm.facts, q.in.t, 0, facts', vectors')
    BY <2>4 DEF Replacing
  <2>8. Importing(q, 0, facts', vectors')
    <3>1. /\ 0 <= Len(q.asm.facts)
          /\ q.todo = SubSeq(q.asm.facts, 0 + 1, Len(q.asm.facts))
      BY <2>4, <2>6 DEF items
    <3>2. ImportValid(q.asm, q.in.t)
      BY <1>1, <1>5, <2>4
    <3> QED  BY <2>4, <2>7, <3>1, <3>2 DEF Importing
  <2>9. ImportOK(q, facts', vectors')
    BY <1>2, <1>5, <2>4, <2>8 DEF ImportOK
  <2> QED  BY <1>1, <1>3, <2>1, <2>3, <2>4, <2>5, <2>9, NewImport
<1> QED  BY <1>4, <1>5

\* A counting request or a job, new.
LEMMA NewCounting ==
  ASSUME ReadingInv, UsageInv', NEW r \in Request, NEW q, Begun(r, q), Req(q),
         q.in.op \in Admin \cup Jobs, q.alone => NobodyRuns, q.events = {},
         calls' = calls, CountsRead(q, calls'), JobOK(q, snapshots', persisted')
  PROVE  ReadingInv'
<1>1. q.in.op \notin Named /\ q.pc # "idle"
  BY DEF Named, Searches, Admin, Jobs, Req
<1>2. BillOK(q, calls', attribution', pending' \cup persisted')
  BY <1>1, NewBill
<1>3. GoodAfter(q)
  BY <1>2, AdminGood
<1> QED  BY <1>1, <1>3, BegunKeeps

\* Nothing yet.
LEMMA NoneYet ==
  /\ <<>> \in Seq(Reported) /\ <<>> \in Seq(PurgedOf) /\ <<>> \in Seq(Orgs)
  /\ DOMAIN <<>> = {} /\ ServedBy(<<>>) = <<>>
<1>1. \A S : <<>> \in Seq(S)
  <2> SUFFICES ASSUME NEW S PROVE <<>> \in Seq(S)
    OBVIOUS
  <2> QED  OBVIOUS
<1>2. DOMAIN <<>> = {}
  OBVIOUS
<1>3. ServedBy(<<>>) = <<>>
  BY DEF ServedBy
<1> QED  BY <1>1, <1>2, <1>3

\* A job that has served nobody yet.
LEMMA ServingNobody ==
  ASSUME NEW q, q.in.orgs \in Seq(Orgs), q.in.orgs # <<>>, q.todo = q.in.orgs,
         q.pc # "done", q.status = "running", q.bad = {}, q.results = <<>>
  PROVE  Serving(q, 0)
<1> DEFINE orgs == q.in.orgs
<1>1. Len(orgs) \in Nat /\ Len(orgs) > 0
  OBVIOUS
<1>2. SubSeq(orgs, 0 + 1, Len(orgs)) = orgs /\ SubSeq(orgs, 1, 0) = <<>>
  BY WholeSeq
<1>3. ServedBy(q.results) = <<>> /\ <<>> \in Seq(Orgs)
  BY NoneYet
<1> DEFINE done == ServedBy(q.results)
           first == SubSeq(orgs, 1, 0)
<1>4. done = first /\ first \in Seq(Orgs)
  BY <1>2, <1>3
<1> HIDE DEF done, first
<1>5. \A o \in Orgs : Times(done, o) <= Times(first, o)
  <2> SUFFICES ASSUME NEW o \in Orgs
               PROVE  Times(done, o) <= Times(first, o)
    OBVIOUS
  <2>1. Times(first, o) \in Nat
    BY <1>4, TimesNat
  <2> QED  BY <1>4, <2>1
<1>6. q.todo = SubSeq(orgs, 0 + 1, Len(orgs))
  BY <1>2
<1> QED  BY <1>1, <1>4, <1>5, <1>6 DEF Serving, done, first

\* get_org_summary and the other counting operations, and the jobs.
LEMMA BeginAdminKeeps ==
  ASSUME ReadingInv, UsageInv', NEW r \in Request, BeginAdmin(r)
  PROVE  ReadingInv'
<1>1. PICK in \in Input : /\ in.op \in Admin \cup Jobs /\ Begun(r, AdminStart(in))
                          /\ UNCHANGED usageVars
  BY DEF BeginAdmin
<1>2. calls' = calls
  BY <1>1 DEF usageVars
<1>3. /\ in.op \in Admin \ Jobs => in.orgs \in {<<o>> : o \in Orgs}
      /\ in.op \in Jobs => in.orgs \in Seq(Orgs) /\ in.cutoff \in Nat
  BY AskedOps
<1>4. CASE in.op \in Jobs /\ (in.orgs = <<>> \/ in.cutoff = 0)
  <2> DEFINE new == Started(in, "done")
             q == [new EXCEPT !.status = "skipped"]
  <2>1. new = Started(in, "done") /\ Begun(r, q)
    BY <1>1, <1>4 DEF AdminStart
  <2> HIDE DEF new
  <2>2. /\ new = [k \in Fields |-> new[k]] /\ new.pc = "done" /\ new.in = in
        /\ new.todo = <<>> /\ new.results = <<>> /\ new.got = {}
        /\ new.events = {} /\ new.alone \in BOOLEAN /\ (new.alone => NobodyRuns)
    BY <2>1, StartedIs
  <2>3. /\ q = [k \in Fields |-> q[k]] /\ q.pc = "done" /\ q.in = in
        /\ q.todo = <<>> /\ q.results = <<>> /\ q.got = {} /\ q.status = "skipped"
        /\ q.events = {} /\ q.alone = new.alone
    BY <2>2 DEF Fields
  <2> HIDE DEF q
  <2>4. in.op \in {"job", "purge"}
    BY <1>4 DEF Jobs
  <2>5. Req(q)
    BY <2>2, <2>3, <2>4 DEF Req, OnTrack, Searches
  <2>6. CountsRead(q, calls')
    <3>1. q.results \in Seq(Reported) /\ q.todo \in Seq(Orgs) /\ DOMAIN q.results = {}
      BY <2>3, NoneYet
    <3> QED  BY <2>3, <2>4, <3>1 DEF CountsRead
  <2>7. JobOK(q, snapshots', persisted')
    <3>1. q.results \in Seq(IF q.in.op = "job" THEN Reported ELSE PurgedOf)
      BY <2>3, NoneYet
    <3>2. DOMAIN q.results = {}
      BY <2>3, NoneYet
    <3> QED  BY <2>3, <3>1, <3>2 DEF JobOK
  <2> QED  BY <1>1, <1>2, <2>1, <2>2, <2>3, <2>5, <2>6, <2>7, NewCounting
<1>5. CASE ~(in.op \in Jobs /\ (in.orgs = <<>> \/ in.cutoff = 0))
  <2> DEFINE c == IF in.op = "purge" THEN "match" ELSE "count_facts"
             new == Started(in, c)
             q == [new EXCEPT !.todo = in.orgs]
  <2>1. new = Started(in, c) /\ Begun(r, q)
    BY <1>1, <1>5 DEF AdminStart
  <2> HIDE DEF new
  <2>2. /\ new = [k \in Fields |-> new[k]] /\ new.pc = c /\ new.in = in
        /\ new.results = <<>> /\ new.got = {} /\ new.bad = {} /\ new.status = "running"
        /\ new.events = {} /\ new.alone \in BOOLEAN /\ (new.alone => NobodyRuns)
    BY <2>1, StartedIs
  <2> HIDE DEF c
  <2>3. /\ q = [k \in Fields |-> q[k]] /\ q.pc = c /\ q.in = in
        /\ q.todo = in.orgs /\ q.results = <<>> /\ q.got = {} /\ q.status = "running"
        /\ q.events = {} /\ q.bad = {} /\ q.alone = new.alone
    BY <2>2 DEF Fields
  <2> HIDE DEF q
  <2>4. /\ c = IF in.op = "purge" THEN "match" ELSE "count_facts"
        /\ c \notin {"done", "idle", "expire"}
    BY DEF c
  <2>5. Req(q)
    <3>1. OnTrack(q)
      BY <1>1, <2>3, <2>4 DEF OnTrack, Searches, Admin, Jobs
    <3>2. q.in.op # "export"
      BY <1>1, <2>3 DEF Admin, Jobs
    <3> QED  BY <2>2, <2>3, <2>4, <3>1, <3>2 DEF Req
  <2>6. in.orgs \in Seq(Orgs) /\ in.orgs # <<>>
    <3>1. CASE in.op \in Jobs
      BY <1>3, <1>5, <3>1
    <3>2. CASE in.op \notin Jobs
      <4>1. PICK o \in Orgs : in.orgs = <<o>>
        BY <1>1, <1>3, <3>2
      <4> QED  BY <4>1
    <3> QED  BY <3>1, <3>2
  <2>7. /\ DOMAIN q.results = {} /\ q.results \in Seq(Reported)
        /\ q.results \in Seq(IF q.in.op = "job" THEN Reported ELSE PurgedOf)
    BY <2>3, NoneYet
  <2>8. CountsRead(q, calls')
    <3>1. q.in.op \in Admin => q.pc = "count_facts"
      BY <2>3, <2>4 DEF Admin
    <3> QED  BY <2>3, <2>6, <2>7, <3>1 DEF CountsRead
  <2>9. JobOK(q, snapshots', persisted')
    <3> SUFFICES ASSUME q.in.op \in Jobs PROVE JobOK(q, snapshots', persisted')
      BY DEF JobOK
    <3>1. Serving(q, 0)
      BY <2>3, <2>4, <2>6, ServingNobody
    <3>2. q.in.orgs # <<>> /\ q.in.cutoff # 0
      BY <1>5, <2>3, <2>6
    <3> QED  BY <2>3, <2>4, <2>7, <3>1, <3>2 DEF JobOK
  <2> QED  BY <1>1, <1>2, <2>1, <2>2, <2>3, <2>5, <2>8, <2>9, NewCounting
<1> QED  BY <1>4, <1>5

-----------------------------------------------------------------------------
(* Steps that are no request's. *)

\* Nobody goes on; whoever is still alone finds the log as it was, or with
\* events that have only moved to the store.
LEMMA RestKeeps ==
  ASSUME ReadingInv, UsageInv', DOMAIN req' = Request, TablesTyped',
         UNCHANGED <<facts, vectors, snapshots, calls>>,
         \A s \in Request : Seen(req[s], req'[s], facts'),
         \A s \in Request : req'[s].pc # "idle" /\ req'[s].alone =>
           /\ attribution' = attribution
           /\ pending' \cup persisted' \subseteq pending \cup persisted
           /\ persisted \subseteq persisted'
  PROVE  ReadingInv'
<1>1. SnapshotsGrow /\ calls' >= calls
  BY SnapshotsStay, CallsStay
<1>2. ASSUME NEW s \in Request, req'[s].pc # "idle"
      PROVE  /\ req[s].pc # "idle" /\ (req'[s].alone => req[s].alone)
             /\ GoodAfter(req'[s]) /\ CountsSeen(req'[s], facts')
  BY <1>1, <1>2, SeenGood
<1>3. Alone'
  BY <1>2 DEF ReadingInv, Alone
<1> QED  BY <1>1, <1>2, <1>3, AllGood

\* The requests as they are.
LEMMA SameRequests ==
  ASSUME ReadingInv, req' = req, facts' = facts
  PROVE  DOMAIN req' = Request /\ \A s \in Request : Seen(req[s], req'[s], facts')
  BY SameSeen DEF ReadingInv, Requests, Counts

\* A refused search.
LEMMA RefuseSearchKeeps ==
  ASSUME ReadingInv, UsageInv', NEW t, RefuseSearch(t)
  PROVE  ReadingInv'
<1>1. /\ req' = [s \in Request |-> IF req[s].pc = "idle" THEN req[s]
                                   ELSE [req[s] EXCEPT !.alone = FALSE]]
      /\ UNCHANGED <<facts, vectors, dumps, snapshots>> /\ Bind(t)
  BY DEF RefuseSearch
<1>2. ASSUME NEW s \in Request
      PROVE  /\ Seen(req[s], req'[s], facts')
             /\ req'[s].pc # "idle" => ~req'[s].alone
  <2>1. req'[s] = IF req[s].pc = "idle" THEN req[s] ELSE [req[s] EXCEPT !.alone = FALSE]
    BY <1>1
  <2>2. CASE req[s].pc = "idle"
    BY <2>1, <2>2, SameSeen
  <2>3. CASE req[s].pc # "idle"
    BY <1>1, <2>1, <2>3, AwareSeen
  <2> QED  BY <2>2, <2>3
<1>3. DOMAIN req' = Request /\ TablesTyped' /\ calls' = calls
  BY <1>1, TablesStay, BindStays
<1> QED  BY <1>1, <1>2, <1>3, RestKeeps

\* The task that stores an event.
LEMMA PersistKeepsRequests ==
  ASSUME ReadingInv, UsageInv', PersistStores \/ PersistFails
  PROVE  ReadingInv'
<1>1. PICK e \in pending, ok \in BOOLEAN : Persist(e, ok) /\ UNCHANGED <<tables, req>>
  BY DEF PersistStores, PersistFails
<1>2. /\ UNCHANGED <<facts, vectors, dumps, snapshots, calls, attribution>> /\ req' = req
      /\ pending' \cup persisted' \subseteq pending \cup persisted
      /\ persisted \subseteq persisted'
  BY <1>1 DEF Persist, tables
<1>3. TablesTyped'
  BY <1>2, TablesStay
<1> QED  BY <1>2, <1>3, SameRequests, RestKeeps

-----------------------------------------------------------------------------
(* Sorting, and the export of the newest rows. *)

StrictOrder(S, R) ==
  /\ \A x \in S : <<x, x>> \notin R
  /\ \A x, y \in S : x # y => <<x, y>> \in R \/ <<y, x>> \in R
  /\ \A x, y, z \in S : <<x, y>> \in R /\ <<y, z>> \in R => <<x, z>> \in R

\* A proper part of a finite set has fewer members.
LEMMA PartFewer ==
  ASSUME NEW S, IsFiniteSet(S), NEW T, T \subseteq S, T # S
  PROVE  IsFiniteSet(T) /\ Cardinality(T) \in Nat /\ Cardinality(T) < Cardinality(S)
<1>1. IsFiniteSet(T) /\ Cardinality(T) <= Cardinality(S) /\ Cardinality(T) # Cardinality(S)
  BY FS_Subset
<1>2. Cardinality(T) \in Nat /\ Cardinality(S) \in Nat
  BY <1>1, FS_CardinalityType
<1> QED  BY <1>1, <1>2

\* Who comes before another has fewer ahead.
LEMMA AheadLess ==
  ASSUME NEW S, IsFiniteSet(S), NEW R, StrictOrder(S, R),
         NEW x \in S, NEW y \in S, <<x, y>> \in R
  PROVE  Cardinality(Ahead(S, R, x)) < Cardinality(Ahead(S, R, y))
<1>1. Ahead(S, R, x) \subseteq Ahead(S, R, y) /\ Ahead(S, R, x) # Ahead(S, R, y)
  BY DEF Ahead, StrictOrder
<1>2. IsFiniteSet(Ahead(S, R, y))
  BY FS_Subset DEF Ahead
<1> QED
  BY <1>1, <1>2, PartFewer

\* The number of those ahead of a member.
LEMMA AheadCount ==
  ASSUME NEW S, IsFiniteSet(S), NEW R, StrictOrder(S, R), NEW x \in S
  PROVE  Cardinality(Ahead(S, R, x)) \in 0 .. Cardinality(S) - 1
<1>1. Ahead(S, R, x) \subseteq S /\ Ahead(S, R, x) # S
  BY DEF Ahead, StrictOrder
<1> QED
  BY <1>1, PartFewer, FS_CardinalityType

\* Every place has its member.
LEMMA AheadOnto ==
  ASSUME NEW S, IsFiniteSet(S), NEW R, StrictOrder(S, R),
         NEW i \in 0 .. Cardinality(S) - 1
  PROVE  \E x \in S : Cardinality(Ahead(S, R, x)) = i
<1> DEFINE T == 0 .. Cardinality(S) - 1
           g == [x \in S |-> Cardinality(Ahead(S, R, x))]
<1>1. Cardinality(S) \in Nat
  BY FS_CardinalityType
<1>2. IsFiniteSet(T) /\ Cardinality(T) = Cardinality(S)
  BY <1>1, FS_Interval
<1>3. g \in [S -> T]
  BY AheadCount
<1>4. \A x, y \in S : x # y => g[x] # g[y]
  <2> SUFFICES ASSUME NEW x \in S, NEW y \in S, x # y
               PROVE  g[x] # g[y]
    OBVIOUS
  <2>1. g[x] \in T /\ g[y] \in T
    BY <1>3
  <2>2. g[x] < g[y] \/ g[y] < g[x]
    BY AheadLess DEF StrictOrder
  <2> QED  BY <2>1, <2>2, <1>1
<1>5. g \in Injection(S, T)
  BY <1>3, <1>4 DEF Injection, IsInjective
<1> HIDE DEF g, T
<1>6. g \in Surjection(S, T)
  BY <1>2, <1>5, FS_Injection
<1>7. \A t \in T : \E x \in S : g[x] = t
  BY <1>6 DEF Surjection
<1> QED
  BY <1>7 DEF g, T

\* What Sorted promises: every member once, in the order.
LEMMA SortedIs ==
  ASSUME NEW S, IsFiniteSet(S), NEW R, StrictOrder(S, R)
  PROVE  /\ Cardinality(S) \in Nat
         /\ Sorted(S, R) \in Seq(S)
         /\ Len(Sorted(S, R)) = Cardinality(S)
         /\ DOMAIN Sorted(S, R) = 1 .. Cardinality(S)
         /\ \A i \in 1 .. Cardinality(S) : Sorted(S, R)[i] \in S
         /\ \A x \in S : \E i \in 1 .. Cardinality(S) : Sorted(S, R)[i] = x
         /\ \A i, j \in 1 .. Cardinality(S) :
              i < j => <<Sorted(S, R)[i], Sorted(S, R)[j]>> \in R
<1> DEFINE s == Sorted(S, R)
           n == Cardinality(S)
           c(x) == Cardinality(Ahead(S, R, x))
<1>1. n \in Nat
  BY FS_CardinalityType
<1>2. ASSUME NEW i \in 1 .. n
      PROVE  s[i] \in S /\ c(s[i]) = i - 1
  <2>1. i - 1 \in 0 .. n - 1
    BY <1>1
  <2>2. \E x \in S : c(x) = i - 1
    BY <2>1, AheadOnto
  <2>3. s[i] = CHOOSE x \in S : c(x) = i - 1
    BY DEF Sorted
  <2> QED
    BY <2>2, <2>3
<1>3. s = [i \in 1 .. n |-> s[i]]
  BY DEF Sorted
<1>4. s \in Seq(S) /\ Len(s) = n /\ DOMAIN s = 1 .. n
  <2> HIDE DEF s
  <2> QED  BY <1>1, <1>2, <1>3
<1>5. ASSUME NEW x \in S
      PROVE  \E i \in 1 .. n : s[i] = x
  <2>1. c(x) \in 0 .. n - 1
    BY AheadCount
  <2>2. c(x) + 1 \in 1 .. n
    BY <1>1, <2>1
  <2>3. s[c(x) + 1] \in S /\ c(s[c(x) + 1]) = c(x)
    BY <1>2, <2>1, <2>2
  <2>4. s[c(x) + 1] = x
    <3> DEFINE y == s[c(x) + 1]
    <3>1. y \in S /\ c(y) = c(x)
      BY <2>3
    <3> HIDE DEF y
    <3>2. y # x => c(x) < c(y) \/ c(y) < c(x)
      BY <3>1, AheadLess DEF StrictOrder
    <3>3. y = x
      BY <3>1, <3>2, <2>1
    <3> QED  BY <3>3 DEF y
  <2> QED  BY <2>2, <2>4
<1>6. ASSUME NEW i \in 1 .. n, NEW j \in 1 .. n, i < j
      PROVE  <<s[i], s[j]>> \in R
  <2>1. s[i] \in S /\ s[j] \in S /\ c(s[i]) = i - 1 /\ c(s[j]) = j - 1
    BY <1>2
  <2> HIDE DEF s
  <2>2. s[i] # s[j]
    BY <1>6, <2>1
  <2>3. CASE <<s[j], s[i]>> \in R
    <3>1. c(s[j]) < c(s[i])
      BY <2>1, <2>3, AheadLess
    <3> QED  BY <1>6, <2>1, <3>1
  <2> QED  BY <2>1, <2>2, <2>3 DEF StrictOrder
<1> HIDE DEF s
<1>7. QED
  BY <1>1, <1>2, <1>4, <1>5, <1>6 DEF s

\* The newest rows are rows, each once, and no more than the limit.
LEMMA NewestIs ==
  ASSUME NEW rows, DistinctRows(rows), NEW limit \in Nat,
         NEW s, s = Newest(rows, limit)
  PROVE  /\ s \in Seq(rows) /\ s \in Seq(Item) /\ Len(s) <= limit
         /\ \A i, j \in DOMAIN s : s[i].f = s[j].f => i = j
<1> DEFINE R == {p \in rows \X rows : NewerRow(p[1], p[2])}
           o == Sorted(rows, R)
           n == Least(Cardinality(rows), limit)
<1>1. IsFiniteSet(rows) /\ rows \subseteq Item
  BY DEF DistinctRows
<1>2. StrictOrder(rows, R)
  <2>1. \A x, y \in rows : <<x, y>> \in R <=> NewerRow(x, y)
    OBVIOUS
  <2>2. \A z \in rows : z.f \in Nat /\ z.age \in Nat
    BY ReadingConstants DEF DistinctRows, Item
  <2>3. /\ \A x \in rows : ~NewerRow(x, x)
        /\ \A x, y \in rows : x # y => NewerRow(x, y) \/ NewerRow(y, x)
        /\ \A x, y, z \in rows : NewerRow(x, y) /\ NewerRow(y, z) => NewerRow(x, z)
    BY <2>2 DEF NewerRow, DistinctRows
  <2> HIDE DEF R
  <2> QED  BY <2>1, <2>3 DEF StrictOrder
<1>3. s = [i \in 1 .. n |-> o[i]]
  BY DEF Newest
<1> HIDE DEF R
<1>4. /\ Cardinality(rows) \in Nat
      /\ \A i \in 1 .. Cardinality(rows) : o[i] \in rows
      /\ \A i, j \in 1 .. Cardinality(rows) : i < j => <<o[i], o[j]>> \in R
  BY <1>1, <1>2, SortedIs
<1> HIDE DEF o
<1>5. n \in Nat /\ n <= limit /\ n <= Cardinality(rows)
  BY <1>4 DEF Least
<1> HIDE DEF n
<1>6. \A i \in 1 .. n : s[i] \in rows /\ s[i] = o[i]
  BY <1>3, <1>4, <1>5
<1>7. DOMAIN s = 1 .. n /\ Len(s) = n /\ s \in Seq(rows)
  BY <1>3, <1>5, <1>6
<1>8. s \in Seq(Item)
  BY <1>1, <1>3, <1>5, <1>6
<1>9. ASSUME NEW i \in 1 .. n, NEW j \in 1 .. n, s[i].f = s[j].f
      PROVE  i = j
  <2>1. s[i] = s[j] /\ s[i] \in rows
    BY <1>6, <1>9 DEF DistinctRows
  <2>2. <<s[i], s[j]>> \notin R /\ <<s[j], s[i]>> \notin R
    BY <1>2, <2>1 DEF StrictOrder
  <2> QED  BY <1>4, <1>5, <1>6, <2>2
<1> QED  BY <1>5, <1>7, <1>8, <1>9

\* export_user_data.
LEMMA ExportKeeps ==
  ASSUME ReadingInv, UsageInv', NEW r \in Request, Export(r)
  PROVE  ReadingInv'
<1>1. PICK in \in Input : /\ in.op = "export" /\ dumps' = dumps \cup {Exported(in)}
                          /\ UNCHANGED <<facts, vectors, req, snapshots, usageVars>>
  BY DEF Export
<1> DEFINE ids == {g \in Id : /\ facts[g].st # "none" /\ facts[g].t = in.t
                              /\ in.deleted \/ facts[g].st = "active"}
           rows == {ExportItem(f) : f \in ids}
<1>2. facts \in [Id -> Row \cup {NoFact}] /\ dumps \subseteq Dump
  BY DEF ReadingInv, TablesTyped
<1>3. ASSUME NEW f \in ids
      PROVE  ExportItem(f) \in Item /\ ExportItem(f).f = f
  <2>1. facts[f] \in Row
    BY <1>2 DEF NoFact
  <2> QED  BY <2>1 DEF ExportItem, RowOf, Item, Row
<1>4. IsFiniteSet(ids)
  BY ReadingConstants, FS_Subset
<1> HIDE DEF ids
<1>5. DistinctRows(rows)
  <2>1. IsFiniteSet(rows)
    <3> DEFINE g == [f \in ids |-> ExportItem(f)]
    <3>1. g \in Surjection(ids, rows)
      BY DEF Surjection
    <3> HIDE DEF g, rows
    <3> QED  BY <1>4, <3>1, FS_Surjection
  <2> QED  BY <1>3, <2>1 DEF DistinctRows
<1>6. Exported(in) = [t |-> in.t, facts |-> Newest(rows, EXPORT_FACTS_LIMIT)]
  BY DEF Exported, ids
<1> HIDE DEF rows
<1>7. Newest(rows, EXPORT_FACTS_LIMIT) \in Seq(Item)
  BY <1>5, NewestIs, ReadingConstants
<1>8. Exported(in) \in Dump
  BY <1>6, <1>7, AskedOps DEF Dump
<1>9. TablesTyped'
  BY <1>1, <1>2, <1>8 DEF TablesTyped
<1>10. /\ UNCHANGED <<facts, vectors, snapshots, calls, attribution>> /\ req' = req
       /\ pending' \cup persisted' \subseteq pending \cup persisted
       /\ persisted \subseteq persisted'
  BY <1>1 DEF usageVars
<1> QED  BY <1>9, <1>10, SameRequests, RestKeeps

-----------------------------------------------------------------------------
(* The invariant. *)

\* It holds at first.
LEMMA ReadingStarts == Init => ReadingInv
<1> SUFFICES ASSUME Init PROVE ReadingInv
  OBVIOUS
<1>1. DOMAIN req = Request /\ \A r \in Request : req[r].pc = "idle"
  BY DEF Init, Idle
<1>2. Requests /\ Alone /\ Imports /\ Bills /\ Counts
  BY <1>1 DEF Requests, Alone, Imports, Bills, Counts
<1>3. JobsOK
  BY <1>1, NoneYet DEF JobsOK, Init
<1>4. TablesTyped
  BY ReadingConstants DEF TablesTyped, Init
<1>5. UsageInv
  BY UsageStarts DEF Init
<1> QED  BY <1>2, <1>3, <1>4, <1>5 DEF ReadingInv

\* Every step of a request, a job or a spawned task keeps it.
LEMMA ReadingNext == ReadingInv /\ [Next]_vars => ReadingInv'
<1> SUFFICES ASSUME ReadingInv, [Next]_vars PROVE ReadingInv'
  OBVIOUS
<1>1. UsageInv'
  BY ReadingStep, UsageStepKeeps DEF ReadingInv
<1>2. CASE UNCHANGED vars
  <2>1. /\ UNCHANGED <<facts, vectors, dumps, snapshots, req, calls, attribution,
                       pending, persisted>>
    BY <1>2 DEF vars, usageVars
  <2>2. TablesTyped'
    BY <2>1, TablesStay
  <2> QED  BY <1>1, <2>1, <2>2, SameRequests, RestKeeps
<1>3. ASSUME NEW r \in Request, Begin(r) PROVE ReadingInv'
  BY <1>1, <1>3, BeginSearchKeeps, BeginImportKeeps, BeginWriteKeeps, BeginAdminKeeps,
     ExportKeeps DEF Begin
<1>4. ASSUME NEW r \in Request, Advance(r) PROVE ReadingInv'
  <2>1. CASE EmbedText(r) \/ SummarizeMemory(r)
    BY <1>1, <2>1, CallKeeps
  <2>2. CASE RecordEmbedding(r) \/ RecordSummary(r)
    BY <1>1, <2>2, RecordEmbeddingKeeps, RecordSummaryKeeps
  <2>3. CASE Vectors(r) \/ Keywords(r) \/ Fetch(r) \/ Assemble(r)
    BY <1>1, <2>3, SearchKeeps
  <2>4. CASE WipeFacts(r) \/ WipeVectors(r) \/ InsertFact(r)
    BY <1>1, <2>4, WipeFactsKeeps, WipeVectorsKeeps, InsertKeeps
  <2>5. CASE \/ WriteRow(r) \/ Unpoint(r)
            \/ UpsertDelete(r) \/ UpsertPoint(r)
    BY <1>1, <2>5, WriteRowKeeps, PointKeeps
  <2>6. CASE ReadFacts(r) \/ ReadLatest(r) \/ ReadUsers(r) \/ Keep(r) \/ ReadUsage(r)
    BY <1>1, <2>6, ReadFactsKeeps, ReadLatestKeeps, ReadUsersKeeps, KeepKeeps,
       ReadUsageKeeps
  <2>7. CASE MatchExpired(r) \/ DeleteExpired(r)
    BY <1>1, <2>7, MatchExpiredKeeps, DeleteExpiredKeeps
  <2>8. CASE Reply(r)
    BY <1>1, <2>8, ReplyKeeps
  <2> QED  BY <1>4, <2>1, <2>2, <2>3, <2>4, <2>5, <2>6, <2>7, <2>8 DEF Advance
<1>5. ASSUME NEW r \in Request, CallErrs(r) \/ Fail(r) \/ JobOrgFails(r) PROVE ReadingInv'
  BY <1>1, <1>5, CallKeeps, ReplyKeeps, JobOrgFailsKeeps
<1>6. ASSUME NEW t \in Tenant, RefuseSearch(t) PROVE ReadingInv'
  BY <1>1, <1>6, RefuseSearchKeeps
<1>7. CASE PersistStores \/ PersistFails
  BY <1>1, <1>7, PersistKeepsRequests
<1> QED  BY <1>2, <1>3, <1>4, <1>5, <1>6, <1>7 DEF Next

\* The invariant of the reading operations, for any number of requests, users,
\* memories, organisations and failures: where each request is, what the tables
\* hold while it runs alone, and what it has counted, booked and stored.
THEOREM ReadingInvariant == Spec => []ReadingInv
  BY ReadingStarts, ReadingNext, PTL DEF Spec

-----------------------------------------------------------------------------
(* What follows from it. *)

\* A finished import has done all of its facts.
LEMMA InvRoundTrip == ReadingInv => RoundTrip
<1> SUFFICES ASSUME ReadingInv, NEW r \in Request, Finished(r, {"import"})
             PROVE  LET q == req[r]
                        t == q.in.t
                        want == ToSet(q.asm.facts)
                    IN  /\ q.rows = <<DryRunOutput(q.in, q.asm)>>
                        /\ q.alone /\ ~q.in.dry =>
                          /\ {f \in Id : IF facts[f].st = "none" THEN FALSE
                                         ELSE facts[f].t = t} = {x.f : x \in want}
                          /\ \A x \in want :
                               x = RowOf(x.f) /\ x.f \in Active(t) /\ Sound(x.f)
                          /\ {v.f : v \in PointsIn(vectors, t)} = {x.f : x \in want}
  BY DEF RoundTrip
<1> DEFINE q == req[r]
           t == q.in.t
           items == q.asm.facts
           want == ToSet(items)
<1>1. q.pc # "idle" /\ q.pc = "done" /\ q.in.op = "import"
  BY DEF Finished, Running
<1>2. ImportOK(q, facts, vectors) /\ q.in \in Input
  BY <1>1, RunningGood
<1>3. q.asm \in Dump /\ items \in Seq(Item)
  BY <1>1, <1>2 DEF ImportOK, Dump
<1>4. CASE q.in.dry
  BY <1>1, <1>2, <1>4 DEF ImportOK
<1>5. CASE ~q.in.dry
  <2>1. PICK n \in Nat : Importing(q, n, facts, vectors)
    BY <1>1, <1>2, <1>5 DEF ImportOK
  <2>2. /\ n = Len(items) /\ ImportValid(q.asm, q.in.t) /\ q.rows = <<n>>
        /\ q.alone => Replacing(q.pc, items, t, n, facts, vectors)
    BY <1>1, <2>1 DEF Importing
  <2>3. q.rows = <<DryRunOutput(q.in, q.asm)>>
    BY <2>2 DEF DryRunOutput
  <2>4. ASSUME q.alone
        PROVE  /\ {f \in Id : IF facts[f].st = "none" THEN FALSE ELSE facts[f].t = t}
                    = {x.f : x \in want}
               /\ \A x \in want : x = RowOf(x.f) /\ x.f \in Active(t) /\ Sound(x.f)
               /\ {v.f : v \in PointsIn(vectors, t)} = {x.f : x \in want}
    <3>1. RowsDone(items, t, n, facts) /\ PointsDone(items, t, n, vectors)
      BY <1>1, <2>2, <2>4 DEF Replacing
    <3>2. want = {items[i] : i \in 1 .. n}
      BY <1>3, <2>2 DEF ToSet
    <3>3. \A i \in 1 .. n : items[i] \in Item
      BY <1>3, <2>2
    <3> HIDE DEF q, t, items, want
    <3>4. {x.f : x \in want} = {items[i].f : i \in 1 .. n}
      BY <3>2
    <3>5. {f \in Id : IF facts[f].st = "none" THEN FALSE ELSE facts[f].t = t}
            = Owned(facts, t)
      BY RowOrNot DEF Owned
    <3>6. ASSUME NEW x \in want
          PROVE  x = RowOf(x.f) /\ x.f \in Active(t) /\ Sound(x.f)
      <4>1. PICK i \in 1 .. n : x = items[i]
        BY <3>2
      <4>2. x = [f |-> x.f, c |-> x.c, age |-> x.age] /\ x.f \in Id
        BY <3>3, <4>1 DEF Item
      <4>3. facts[x.f] = [st |-> "active", t |-> t, c |-> x.c, age |-> x.age]
        BY <3>1, <4>1 DEF RowsDone, FactForImport
      <4>4. \E v \in vectors : PointsOf(vectors, x.f, t) = {v} /\ v.c = x.c
        BY <3>1, <4>1 DEF PointsDone
      <4>5. x = RowOf(x.f)
        BY <4>2, <4>3 DEF RowOf
      <4>6. x.f \in Active(t)
        BY <4>2, <4>3 DEF Active, ActiveIn
      <4>7. Sound(x.f)
        BY <4>3, <4>4 DEF Sound, SoundIn
      <4> QED  BY <4>5, <4>6, <4>7
    <3>7. {v.f : v \in PointsIn(vectors, t)} = {x.f : x \in want}
      BY <3>1, <3>4 DEF PointsDone
    <3>8. Owned(facts, t) = {x.f : x \in want}
      BY <3>1, <3>4 DEF RowsDone
    <3> QED  BY <3>5, <3>6, <3>7, <3>8
  <2> QED  BY <2>3, <2>4
<1> QED  BY <1>4, <1>5

\* The counts of a finished request are those it has read.
LEMMA InvCountsTruthful == ReadingInv => CountsTruthful
<1> SUFFICES ASSUME ReadingInv, NEW r \in Request, Finished(r, Admin)
             PROVE  LET q == req[r] IN
                    /\ \A i \in DOMAIN q.results :
                         /\ <<q.results[i].org, q.results[i].facts>> \in q.live
                         /\ <<q.results[i].org, q.results[i].users>> \in q.near
                    /\ q.in.op \in {"summary", "dashboard"} =>
                         /\ <<Head(q.todo), q.rows[1]>> \in q.live
                         /\ <<Head(q.todo), q.rows[2]>> \in q.near
                    /\ \A u \in q.got : u.requests <= Snapshot.requests
  BY DEF CountsTruthful
<1> DEFINE q == req[r]
<1>1. q.pc # "idle" /\ q.pc = "done" /\ q.in.op \in Admin
  BY DEF Finished, Running
<1>2. CountsRead(q, calls)
  BY <1>1, RunningGood
<1>3. Snapshot.requests = calls
  BY DEF ReadingInv, UsageInv, UsageConserved
<1> HIDE DEF q
<1>4. q.in.op \in {"summary", "dashboard"} =>
        /\ <<Head(q.todo), q.rows[1]>> \in q.live
        /\ <<Head(q.todo), q.rows[2]>> \in q.near
  <2> SUFFICES ASSUME q.in.op \in {"summary", "dashboard"}
               PROVE  /\ <<Head(q.todo), q.rows[1]>> \in q.live
                      /\ <<Head(q.todo), q.rows[2]>> \in q.near
    OBVIOUS
  <2>1. PICK a \in Nat, b \in Nat : /\ q.rows = <<a, b>>
                                    /\ <<Head(q.todo), a>> \in q.live
                                    /\ <<Head(q.todo), b>> \in q.near
    BY <1>1, <1>2 DEF CountsRead
  <2> QED  BY <2>1
<1>5. \A i \in DOMAIN q.results :
        /\ <<q.results[i].org, q.results[i].facts>> \in q.live
        /\ <<q.results[i].org, q.results[i].users>> \in q.near
  BY <1>1, <1>2 DEF CountsRead
<1>6. \A u \in q.got : u.requests <= Snapshot.requests
  BY <1>1, <1>2, <1>3 DEF CountsRead
<1> QED  BY <1>4, <1>5, <1>6 DEF q

\* A finished job has been through all of its organisations.
LEMMA InvJobHonest == ReadingInv => JobHonest
<1> SUFFICES ASSUME ReadingInv, NEW r \in Request, Finished(r, Jobs),
                    req[r].status # "skipped"
             PROVE  LET q == req[r]
                        served == [i \in DOMAIN q.results |-> q.results[i].org]
                    IN  /\ q.status = "succeeded" <=> served = q.in.orgs
                        /\ q.status = "retry" => q.results = <<>>
                        /\ \A o \in Orgs : Times(served, o) <= Times(q.in.orgs, o)
                        /\ \A i \in DOMAIN q.results :
                             IF q.in.op = "job"
                             THEN \E j \in DOMAIN snapshots : snapshots[j] = q.results[i]
                             ELSE q.results[i].deleted >= q.results[i].matched \/ ~q.alone
  BY DEF JobHonest
<1> DEFINE q == req[r]
           served == ServedBy(q.results)
           orgs == q.in.orgs
<1>1. q.pc # "idle" /\ q.pc = "done" /\ q.in.op \in Jobs /\ q.status # "skipped"
  BY DEF Finished, Running
<1>2. JobOK(q, snapshots, persisted) /\ orgs \in Seq(Orgs)
  BY <1>1, RunningGood, AskedOps
<1>3. served = [i \in DOMAIN q.results |-> q.results[i].org]
  BY DEF ServedBy
<1> HIDE DEF q, served
<1>4. PICK n \in Nat : Serving(q, n)
  BY <1>1, <1>2 DEF JobOK
<1>5. Len(orgs) \in Nat /\ n = Len(orgs) /\ q.status = JobStatus(q) /\ SubSeq(orgs, 1, n) = orgs
  BY <1>1, <1>2, <1>4, WholeSeq DEF Serving
<1>6. /\ q.bad = {} => served = orgs
      /\ q.bad # {} => Len(q.results) < n
      /\ \A o \in Orgs : Times(served, o) <= Times(orgs, o)
  BY <1>4, <1>5 DEF Serving, served
<1>7. Len(served) = Len(q.results) /\ Len(q.results) \in Nat
  <2>1. PICK S : q.results \in Seq(S)
    BY <1>1, <1>2 DEF JobOK
  <2>2. Len(q.results) \in Nat /\ DOMAIN q.results = 1 .. Len(q.results)
    BY <2>1
  <2> QED  BY <1>3, <2>2
<1>8. q.status = "succeeded" <=> served = orgs
  <2>1. CASE q.bad = {}
    BY <1>5, <1>6, <2>1 DEF JobStatus
  <2>2. CASE q.bad # {}
    <3>1. served # orgs
      BY <1>5, <1>6, <1>7, <2>2
    <3>2. q.status # "succeeded"
      BY <1>5, <2>2 DEF JobStatus
    <3> QED  BY <3>1, <3>2
  <2> QED  BY <2>1, <2>2
<1>9. q.status = "retry" => q.results = <<>>
  BY <1>5 DEF JobStatus
<1>10. \A i \in DOMAIN q.results :
         IF q.in.op = "job" THEN \E j \in DOMAIN snapshots : snapshots[j] = q.results[i]
         ELSE q.results[i].deleted >= q.results[i].matched \/ ~q.alone
  BY <1>1, <1>2 DEF JobOK, Jobs
<1> QED  BY <1>3, <1>6, <1>8, <1>9, <1>10 DEF q

\* The bills.
LEMMA InvBilled == ReadingInv => BilledToCaller
  BY DEF ReadingInv, Bills, BillOK, BilledToCaller, Running

\* A replacing import_user_data that ran alone leaves the user with exactly the
\* exported memories, one true point each, and reports the number that its dry
\* run promised.
THEOREM ImportsRoundTrip == Spec => []RoundTrip
  BY ReadingInvariant, InvRoundTrip, PTL

\* The counts of get_org_summary, create_memory_usage_snapshot and the dashboard
\* were true while the request ran, and the snapshot and retention jobs report
\* success, a retry and what they purged as it was.
THEOREM AdminIsHonest == Spec => []AdminHonest
<1>1. ReadingInv => AdminHonest
  BY InvCountsTruthful, InvJobHonest DEF AdminHonest
<1> QED  BY <1>1, ReadingInvariant, PTL

\* The events of an operation that binds its tenant and ran alone are booked to
\* that tenant.
THEOREM CallersAreBilled == Spec => []BilledToCaller
  BY ReadingInvariant, InvBilled, PTL

\* record_usage and the spawned tasks of PersistentProviderUsageRecorder neither
\* lose nor double an event, and book it to the tenant that bind_usage_attribution
\* named for an operation that ran alone.
THEOREM UsageIsSound == Spec => []UsageSound
  BY UsageIsConserved, CallersAreBilled, PTL DEF UsageSound

-----------------------------------------------------------------------------
(* Ranking. *)

\* A better rank counts more, up to the cap.
LEMMA ContributionFalls ==
  ASSUME NEW a \in 1 .. MAX_SEARCH_LIMIT, NEW b \in 0 .. MAX_SEARCH_LIMIT,
         b = 0 \/ a < b
  PROVE  /\ Contribution(a) \in Nat /\ Contribution(b) \in Nat
         /\ Contribution(a) > Contribution(b)
<1> DEFINE S == 15249024
           x == S \div (60 + a)
           y == S \div (60 + b)
<1>1. Contribution(a) = x /\ Contribution(b) = IF b = 0 THEN 0 ELSE y
  BY DEF Contribution, RrfScale, RRF_K, MAX_SEARCH_LIMIT
<1>2. x \in Nat /\ x * (60 + a) <= S /\ S < x * (60 + a) + (60 + a)
  BY DEF MAX_SEARCH_LIMIT
<1>3. y \in Nat /\ y * (60 + b) <= S
  BY DEF MAX_SEARCH_LIMIT
<1> HIDE DEF x, y
<1>4. x >= 110
  <2> SUFFICES ASSUME x < 110 PROVE FALSE
    BY <1>2
  <2>1. x * (60 + a) <= 109 * (60 + a)
    BY <1>2 DEF MAX_SEARCH_LIMIT
  <2> QED  BY <1>2, <2>1 DEF MAX_SEARCH_LIMIT
<1>5. ASSUME b # 0 PROVE y < x
  <2> SUFFICES ASSUME y >= x PROVE FALSE
    BY <1>2, <1>3
  <2>1. y * (60 + b) >= x * (60 + b)
    BY <1>2, <1>3
  <2>2. x * (60 + b) >= x * (61 + a)
    BY <1>2, <1>5 DEF MAX_SEARCH_LIMIT
  <2>3. x * (61 + a) = x * (60 + a) + x
    BY <1>2
  <2> QED  BY <1>2, <1>3, <1>4, <2>1, <2>2, <2>3 DEF MAX_SEARCH_LIMIT
<1> QED  BY <1>1, <1>2, <1>3, <1>4, <1>5

\* A set of places has a first one.
LEMMA MinIs ==
  ASSUME NEW n \in Nat, NEW S, S \subseteq 1 .. n, S # {}
  PROVE  Min(S) \in S /\ \A y \in S : Min(S) <= y
<1> DEFINE R == {p \in S \X S : p[1] < p[2]}
           s == Sorted(S, R)
           m == Cardinality(S)
<1>1. IsFiniteSet(S)
  <2>1. IsFiniteSet(1 .. n)
    BY FS_Interval
  <2> QED  BY <2>1, FS_Subset
<1>2. \A x \in S : x \in Nat
  OBVIOUS
<1>3. \A x, y \in S : <<x, y>> \in R <=> x < y
  OBVIOUS
<1> HIDE DEF R
<1>4. StrictOrder(S, R)
  BY <1>2, <1>3 DEF StrictOrder
<1>5. /\ m \in Nat /\ \A i \in 1 .. m : s[i] \in S
      /\ \A x \in S : \E i \in 1 .. m : s[i] = x
      /\ \A i, j \in 1 .. m : i < j => <<s[i], s[j]>> \in R
  BY <1>1, <1>4, SortedIs
<1> HIDE DEF s, m
<1>6. 1 \in 1 .. m
  <2>1. PICK x \in S : TRUE
    OBVIOUS
  <2>2. PICK i \in 1 .. m : s[i] = x
    BY <1>5
  <2> QED  BY <1>5, <2>2
<1>7. s[1] \in S /\ \A y \in S : s[1] <= y
  <2> SUFFICES ASSUME NEW y \in S PROVE s[1] <= y
    BY <1>5, <1>6
  <2>1. PICK i \in 1 .. m : s[i] = y
    BY <1>5
  <2>2. CASE i = 1
    BY <1>2, <2>1, <2>2
  <2>3. CASE i # 1
    <3>1. <<s[1], y>> \in R /\ s[1] \in S
      BY <1>5, <1>6, <2>1, <2>3
    <3>2. s[1] < y
      BY <1>3, <3>1
    <3>3. s[1] \in Nat /\ y \in Nat
      BY <1>2, <3>1
    <3> QED  BY <3>2, <3>3
  <2> QED  BY <2>2, <2>3
<1> QED  BY <1>7 DEF Min

\* The rank of a fact in a list is where it comes first.
LEMMA RankIs ==
  ASSUME NEW S, NEW list, ListOK(list, S), NEW f
  PROVE  /\ RankIn(list, f) \in 0 .. MAX_SEARCH_LIMIT
         /\ RankIn(list, f) # 0 => /\ RankIn(list, f) \in DOMAIN list
                                   /\ list[RankIn(list, f)].f = f
         /\ \A i \in DOMAIN list : list[i].f = f => RankIn(list, f) # 0
<1>1. DOMAIN list = 1 .. Len(list) /\ Len(list) \in Nat /\ Len(list) <= MAX_SEARCH_LIMIT
  BY DEF ListOK
<1> DEFINE I == {i \in DOMAIN list : list[i].f = f}
<1>2. CASE I # {}
  <2>1. RankIn(list, f) = Min(I)
    BY <1>2 DEF RankIn
  <2>2. I \subseteq 1 .. Len(list)
    BY <1>1
  <2>3. \A i \in I : i \in DOMAIN list /\ list[i].f = f
    OBVIOUS
  <2> HIDE DEF I
  <2>4. Min(I) \in I
    BY <1>1, <1>2, <2>2, MinIs
  <2>5. PICK k \in 1 .. Len(list) : k = Min(I)
    BY <2>2, <2>4
  <2>6. k # 0 /\ k \in 0 .. MAX_SEARCH_LIMIT
    BY <1>1 DEF MAX_SEARCH_LIMIT
  <2> QED  BY <2>1, <2>3, <2>4, <2>5, <2>6
<1>3. CASE I = {}
  <2>1. RankIn(list, f) = 0
    BY <1>3 DEF RankIn
  <2> QED  BY <1>3, <2>1 DEF MAX_SEARCH_LIMIT
<1> QED  BY <1>2, <1>3

\* What both sources agree on decides the score.
LEMMA ScoreFollows ==
  ASSUME NEW S, NEW T, NEW hits, NEW rows, ListOK(hits, S), ListOK(rows, T), NEW e, NEW f
  PROVE  /\ RrfScore(hits, rows, e) \in Nat
         /\ Dominates(hits, rows, e, f) =>
              RrfScore(hits, rows, e) > RrfScore(hits, rows, f)
<1> DEFINE c(list, x) == Contribution(RankIn(list, x))
           pos(list, x) == IF RankIn(list, x) = 0 THEN Len(list) + 1 ELSE RankIn(list, x)
<1>1. ASSUME NEW list, NEW U, ListOK(list, U)
      PROVE  /\ \A x : c(list, x) \in Nat /\ pos(list, x) \in Nat
             /\ pos(list, e) <= pos(list, f) => c(list, e) >= c(list, f)
             /\ pos(list, e) < pos(list, f) => c(list, e) > c(list, f)
  <2>1. Len(list) \in Nat /\ Len(list) <= MAX_SEARCH_LIMIT /\ DOMAIN list = 1 .. Len(list)
    BY <1>1 DEF ListOK
  <2>2. \A x : /\ RankIn(list, x) \in 0 .. MAX_SEARCH_LIMIT
               /\ RankIn(list, x) # 0 => RankIn(list, x) <= Len(list)
    BY <1>1, <2>1, RankIs
  <2>3. Contribution(0) = 0
    BY DEF Contribution
  <2>4. \A x : c(list, x) \in Nat /\ pos(list, x) \in Nat
    <3> SUFFICES ASSUME NEW x PROVE c(list, x) \in Nat /\ pos(list, x) \in Nat
      OBVIOUS
    <3>1. CASE RankIn(list, x) = 0
      BY <2>1, <2>3, <3>1
    <3>2. CASE RankIn(list, x) # 0
      <4>1. RankIn(list, x) \in 1 .. MAX_SEARCH_LIMIT /\ 0 \in 0 .. MAX_SEARCH_LIMIT
        BY <2>2, <3>2 DEF MAX_SEARCH_LIMIT
      <4> QED  BY <3>2, <4>1, ContributionFalls
    <3> QED  BY <3>1, <3>2
  <2> DEFINE a == RankIn(list, e)
             b == RankIn(list, f)
  <2>5. a \in 0 .. MAX_SEARCH_LIMIT /\ b \in 0 .. MAX_SEARCH_LIMIT
        /\ (a # 0 => a <= Len(list)) /\ (b # 0 => b <= Len(list))
    BY <2>2
  <2>6. Contribution(a) \in Nat /\ Contribution(b) \in Nat
    BY <2>4
  <2>7. a # 0 /\ (b = 0 \/ a < b) => Contribution(a) > Contribution(b)
    <3> HIDE DEF a, b
    <3> SUFFICES ASSUME a # 0, b = 0 \/ a < b PROVE Contribution(a) > Contribution(b)
      OBVIOUS
    <3>1. a \in 1 .. MAX_SEARCH_LIMIT
      BY <2>5 DEF MAX_SEARCH_LIMIT
    <3> QED  BY <2>5, <3>1, ContributionFalls
  <2> HIDE DEF a, b
  <2>8. LET u == IF a = 0 THEN Len(list) + 1 ELSE a
            v == IF b = 0 THEN Len(list) + 1 ELSE b
        IN  /\ u <= v => Contribution(a) >= Contribution(b)
            /\ u < v => Contribution(a) > Contribution(b)
    BY <2>1, <2>5, <2>6, <2>7 DEF MAX_SEARCH_LIMIT
  <2> QED  BY <2>4, <2>8 DEF a, b
<1>2. /\ c(hits, e) \in Nat /\ c(hits, f) \in Nat /\ c(rows, e) \in Nat /\ c(rows, f) \in Nat
      /\ pos(hits, e) \in Nat /\ pos(hits, f) \in Nat
      /\ pos(rows, e) \in Nat /\ pos(rows, f) \in Nat
  BY <1>1
<1>3. /\ pos(hits, e) <= pos(hits, f) => c(hits, e) >= c(hits, f)
      /\ pos(hits, e) < pos(hits, f) => c(hits, e) > c(hits, f)
      /\ pos(rows, e) <= pos(rows, f) => c(rows, e) >= c(rows, f)
      /\ pos(rows, e) < pos(rows, f) => c(rows, e) > c(rows, f)
  BY <1>1
<1>4. /\ RrfScore(hits, rows, e) = c(hits, e) + c(rows, e)
      /\ RrfScore(hits, rows, f) = c(hits, f) + c(rows, f)
  BY DEF RrfScore
<1>5. Dominates(hits, rows, e, f) =>
        /\ pos(hits, e) <= pos(hits, f) /\ pos(rows, e) <= pos(rows, f)
        /\ pos(hits, e) < pos(hits, f) \/ pos(rows, e) < pos(rows, f)
  BY DEF Dominates
<1> HIDE DEF c, pos
<1> QED  BY <1>2, <1>3, <1>4, <1>5


\* Fusion lists each of the facts once.
LEMMA FusionIs ==
  ASSUME NEW S, NEW T, NEW hits, NEW rows, ListOK(hits, S), ListOK(rows, T),
         NEW found, found \subseteq Id, NEW s, s = ReciprocalRankFusion(found, hits, rows)
  PROVE  /\ s \in Seq(Id)
         /\ \A i, j \in DOMAIN s : s[i] = s[j] => i = j
         /\ \A i \in DOMAIN s : s[i] \in found
         /\ \A f \in found : \E i \in DOMAIN s : s[i] = f
<1> DEFINE R == {p \in found \X found : Better(hits, rows, p[1], p[2])}
           n == Cardinality(found)
<1>1. IsFiniteSet(found) /\ \A f \in found : f \in Nat
  BY ReadingConstants, FS_Subset
<1>2. StrictOrder(found, R)
  <2>1. \A x, y \in found : <<x, y>> \in R <=> Better(hits, rows, x, y)
    OBVIOUS
  <2>2. \A x : RrfScore(hits, rows, x) \in Nat
    BY ScoreFollows
  <2>3. /\ \A x \in found : ~Better(hits, rows, x, x)
        /\ \A x, y \in found : x # y => Better(hits, rows, x, y) \/ Better(hits, rows, y, x)
        /\ \A x, y, z \in found :
             Better(hits, rows, x, y) /\ Better(hits, rows, y, z) => Better(hits, rows, x, z)
    BY <1>1, <2>2 DEF Better
  <2> HIDE DEF R
  <2> QED  BY <2>1, <2>3 DEF StrictOrder
<1>3. s = Sorted(found, R)
  BY DEF ReciprocalRankFusion
<1> HIDE DEF R
<1>4. /\ n \in Nat /\ s \in Seq(found) /\ DOMAIN s = 1 .. n
      /\ \A i \in 1 .. n : s[i] \in found
      /\ \A x \in found : \E i \in 1 .. n : s[i] = x
      /\ \A i, j \in 1 .. n : i < j => <<s[i], s[j]>> \in R
  BY <1>1, <1>2, <1>3, SortedIs
<1> HIDE DEF n
<1>5. \A i, j \in DOMAIN s : s[i] = s[j] => i = j
  <2> SUFFICES ASSUME NEW i \in 1 .. n, NEW j \in 1 .. n, s[i] = s[j]
               PROVE  i = j
    BY <1>4
  <2>1. <<s[i], s[j]>> \notin R /\ <<s[j], s[i]>> \notin R
    BY <1>2, <1>4 DEF StrictOrder
  <2> QED  BY <1>4, <2>1
<1>6. s \in Seq(Id)
  BY <1>4
<1> QED  BY <1>4, <1>5, <1>6

\* The hit of a fact is one of the list.
LEMMA HitListed ==
  ASSUME NEW hits, ListOK(hits, Hit), NEW f, NEW h \in HitsOf(hits, f)
  PROVE  h \in Hit /\ \E i \in DOMAIN hits : hits[i] = h /\ h.f = f
<1>1. PICK i \in DOMAIN hits : hits[i] = h /\ hits[i].f = f
  BY DEF HitsOf
<1>2. hits[i] \in Hit
  BY DEF ListOK
<1> QED  BY <1>1, <1>2

\* The rows of a search are ordered by scores that are numbers.
LEMMA WeightIs ==
  ASSUME NEW hits, ListOK(hits, Hit), NEW x \in Item
  PROVE  /\ Result(hits, x).f = x.f
         /\ WeightedScore(Result(hits, x).sim, x) \in Int
<1> DEFINE sim == Result(hits, x).sim
<1>1. Result(hits, x).f = x.f
  BY DEF Result
<1>2. sim \in Nat
  <2>1. CASE HitsOf(hits, x.f) = {}
    BY <2>1 DEF Result
  <2>2. CASE HitsOf(hits, x.f) # {}
    <3> DEFINE h == CHOOSE y \in HitsOf(hits, x.f) : TRUE
    <3>1. h \in HitsOf(hits, x.f)
      BY <2>2
    <3>2. sim = h.sim
      BY <2>2 DEF Result
    <3> HIDE DEF h
    <3>3. h \in Hit
      BY <3>1, HitListed
    <3> QED  BY <3>2, <3>3 DEF Hit
  <2> QED  BY <2>1, <2>2
<1> HIDE DEF sim
<1>3. x.c \in Content /\ x.age \in Nat
  BY DEF Item
<1>4. Importance[x.c] \in Int
  BY <1>3, RetrievalConstants
<1>5. MemoryTypeBoost[TypeOf[x.c]] \in Int
  <2>1. TypeOf[x.c] \in DOMAIN MemoryTypeBoost
    BY <1>3, RetrievalConstants
  <2>2. \A k \in DOMAIN MemoryTypeBoost : MemoryTypeBoost[k] \in Int
    BY DEF MemoryTypeBoost
  <2> QED  BY <2>1, <2>2
<1>6. FreshnessScore(x.age) \in Int
  BY <1>3 DEF FreshnessScore
<1>7. WeightedScore(sim, x) \in Int
  BY <1>2, <1>4, <1>5, <1>6 DEF WeightedScore
<1> QED  BY <1>1, <1>7 DEF sim

\* The comparison of scored.sort_by is a strict total order of rows with ids of
\* their own, in which nothing comes before a better score.
LEMMA BeforeOrder ==
  ASSUME NEW hits, NEW rows, ListOK(hits, Hit), ListOK(rows, Item),
         NEW got, DistinctRows(got)
  PROVE  /\ StrictOrder(got, {p \in got \X got : Before(hits, rows, p[1], p[2])})
         /\ \A x, y \in got : Before(hits, rows, x, y) =>
              RrfScore(hits, rows, x.f) >= RrfScore(hits, rows, y.f)
<1> DEFINE R == {p \in got \X got : Before(hits, rows, p[1], p[2])}
           u == [x \in got |-> RrfScore(hits, rows, x.f)]
           w == [x \in got |-> WeightedScore(Result(hits, x).sim, x)]
<1>1. \A x, y \in got : <<x, y>> \in R <=> Before(hits, rows, x, y)
  OBVIOUS
<1>2. \A x \in got : u[x] \in Int /\ w[x] \in Int /\ x.age \in Nat /\ x.f \in Nat
  <2> SUFFICES ASSUME NEW x \in got
               PROVE  u[x] \in Int /\ w[x] \in Int /\ x.age \in Nat /\ x.f \in Nat
    OBVIOUS
  <2>1. x \in Item
    BY DEF DistinctRows
  <2>2. x.age \in Nat /\ x.f \in Nat
    BY <2>1, ReadingConstants DEF Item
  <2>3. RrfScore(hits, rows, x.f) \in Nat
    BY ScoreFollows
  <2>4. WeightedScore(Result(hits, x).sim, x) \in Int
    BY <2>1, WeightIs
  <2> QED  BY <2>2, <2>3, <2>4
<1>3. \A x, y \in got : Before(hits, rows, x, y) <=>
        \/ u[x] > u[y]
        \/ u[x] = u[y] /\ w[x] > w[y]
        \/ u[x] = u[y] /\ w[x] = w[y] /\ x.age < y.age
        \/ u[x] = u[y] /\ w[x] = w[y] /\ x.age = y.age /\ x.f < y.f
  BY DEF Before
<1>4. \A x \in got : u[x] = RrfScore(hits, rows, x.f)
  OBVIOUS
<1> HIDE DEF u, w, R
<1>5. \A x \in got : ~Before(hits, rows, x, x)
  BY <1>2, <1>3
<1>6. \A x, y \in got : x # y => Before(hits, rows, x, y) \/ Before(hits, rows, y, x)
  BY <1>2, <1>3 DEF DistinctRows
<1>7. \A x, y, z \in got :
        Before(hits, rows, x, y) /\ Before(hits, rows, y, z) => Before(hits, rows, x, z)
  BY <1>2, <1>3
<1>8. \A x, y \in got : Before(hits, rows, x, y) => u[x] >= u[y]
  BY <1>2, <1>3
<1>9. StrictOrder(got, R)
  BY <1>1, <1>5, <1>6, <1>7 DEF StrictOrder
<1> QED  BY <1>4, <1>8, <1>9 DEF R

\* What is ranked: the results are those of some of the rows, of all if they are
\* fewer than the limit, and well ranked.
LEMMA RankGives ==
  ASSUME NEW hits, NEW rows, ListOK(hits, Hit), ListOK(rows, Item),
         NEW got, DistinctRows(got), NEW limit \in Nat,
         NEW res, res = Rank(hits, rows, got, limit)
  PROVE  /\ \A i \in DOMAIN res : \E x \in got : res[i] = Result(hits, x)
         /\ Len(res) < limit => \A x \in got : \E i \in DOMAIN res : res[i].f = x.f
         /\ WellRanked(hits, rows, got, res)
<1> DEFINE R == {p \in got \X got : Before(hits, rows, p[1], p[2])}
           o == Sorted(got, R)
           n == Cardinality(got)
           m == IF n < limit THEN n ELSE limit
<1>1. IsFiniteSet(got) /\ got \subseteq Item
  BY DEF DistinctRows
<1>2. StrictOrder(got, R)
  BY BeforeOrder
<1>3. res = [i \in 1 .. m |-> Result(hits, o[i])]
  BY DEF Rank
<1>4. \A x, y \in got : <<x, y>> \in R => Before(hits, rows, x, y)
  OBVIOUS
<1> HIDE DEF R
<1>5. /\ n \in Nat
      /\ \A i \in 1 .. n : o[i] \in got
      /\ \A x \in got : \E i \in 1 .. n : o[i] = x
      /\ \A i, j \in 1 .. n : i < j => <<o[i], o[j]>> \in R
  BY <1>1, <1>2, SortedIs
<1> HIDE DEF o, n
<1>6. m \in Nat /\ m <= n /\ (m < limit => m = n)
  BY <1>5
<1> HIDE DEF m
<1>7. DOMAIN res = 1 .. m /\ Len(res) = m
  BY <1>3, <1>6
<1>8. \A i \in 1 .. m : o[i] \in got /\ res[i] = Result(hits, o[i]) /\ res[i].f = o[i].f
  <2> SUFFICES ASSUME NEW i \in 1 .. m
               PROVE  o[i] \in got /\ res[i] = Result(hits, o[i]) /\ res[i].f = o[i].f
    OBVIOUS
  <2>1. o[i] \in got
    BY <1>5, <1>6
  <2>2. res[i] = Result(hits, o[i])
    BY <1>3
  <2> QED  BY <1>1, <2>1, <2>2, WeightIs
<1>9. Len(res) < limit => \A x \in got : \E i \in DOMAIN res : res[i].f = x.f
  BY <1>5, <1>6, <1>7, <1>8
<1>10. WellRanked(hits, rows, got, res)
  <2> SUFFICES ASSUME NEW i \in 1 .. m, NEW x \in got, \A j \in 1 .. i : res[j].f # x.f
               PROVE  ~Dominates(hits, rows, x.f, res[i].f)
    BY <1>7 DEF WellRanked
  <2>1. PICK k \in 1 .. n : o[k] = x
    BY <1>5
  <2>2. i < k
    <3> SUFFICES ASSUME k <= i PROVE FALSE
      BY <1>5, <1>6
    <3>1. k \in 1 .. i /\ k \in 1 .. m
      BY <1>5, <1>6
    <3> QED  BY <1>8, <2>1, <3>1
  <2>3. i \in 1 .. n
    BY <1>5, <1>6
  <2>4. <<o[i], x>> \in R /\ o[i] \in got
    BY <1>5, <2>1, <2>2, <2>3
  <2>5. RrfScore(hits, rows, o[i].f) >= RrfScore(hits, rows, x.f)
    BY <1>4, <2>4, BeforeOrder
  <2>6. /\ RrfScore(hits, rows, o[i].f) \in Nat /\ RrfScore(hits, rows, x.f) \in Nat
        /\ Dominates(hits, rows, x.f, o[i].f) =>
             RrfScore(hits, rows, x.f) > RrfScore(hits, rows, o[i].f)
    BY ScoreFollows
  <2> QED  BY <1>8, <2>5, <2>6
<1> QED  BY <1>7, <1>8, <1>9, <1>10


-----------------------------------------------------------------------------
(* What a step does to the searches that do not take it. *)

\* The fields that a search is judged by.
SearchFields == {"pc", "in", "hits", "rows", "todo", "got", "results", "live", "near",
                 "touched", "sound"}

\* The others do not matter.
LEMMA SameSearch ==
  ASSUME NEW q, NEW p, NEW fs, NEW vs, SearchOK(q, fs, vs),
         \A k \in SearchFields : p[k] = q[k]
  PROVE  SearchOK(p, fs, vs)
<1>1. /\ p.pc = q.pc /\ p.in = q.in /\ p.hits = q.hits /\ p.rows = q.rows
      /\ p.todo = q.todo /\ p.got = q.got /\ p.results = q.results /\ p.live = q.live
      /\ p.near = q.near /\ p.touched = q.touched /\ p.sound = q.sound
  BY DEF SearchFields
<1>2. Steady(p) = Steady(q)
  BY <1>1 DEF Steady
<1>3. Sees(p, fs, vs) /\ Holds(p, fs, vs)
  BY <1>1, <1>2 DEF SearchOK, SearchGoes, Sees, Holds
<1>4. HitsOK(q, fs) => HitsOK(p, fs)
  BY <1>1, <1>2 DEF HitsOK, FewPoints
<1>5. RowsOK(q, fs) => RowsOK(p, fs)
  BY <1>1, <1>2 DEF RowsOK
<1> QED  BY <1>1, <1>3, <1>4, <1>5 DEF SearchOK, SearchGoes

\* Watch looks at the new tables and remembers what has changed in them.
LEMMA WatchOK ==
  ASSUME NEW q, q = [k \in Fields |-> q[k]], q.pc # "idle", q.in.op \in Searches,
         SearchGoes(q, facts, vectors), NEW fs, NEW vs, PointsOK(vs)
  PROVE  SearchOK(Watch(q, fs, vs), fs, vs)
<1> DEFINE p == Watch(q, fs, vs)
           t == q.in.t
           new == {f \in Id : \/ fs[f] # facts[f]
                              \/ PointsOf(vs, f, t) # PointsOf(vectors, f, t)}
<1>1. p = [q EXCEPT !.live = @ \cup ActiveIn(fs, t),
                    !.near = @ \cup PointsIn(vs, t),
                    !.touched = @ \cup new]
  <2>1. q.in.op \notin Admin
    BY DEF Searches, Admin
  <2> QED  BY <2>1 DEF Watch
<1> HIDE DEF p, new
<1>2. /\ p.pc = q.pc /\ p.in = q.in /\ p.hits = q.hits /\ p.rows = q.rows
      /\ p.todo = q.todo /\ p.got = q.got /\ p.results = q.results /\ p.sound = q.sound
      /\ p.live = q.live \cup ActiveIn(fs, t)
      /\ p.near = q.near \cup PointsIn(vs, t)
      /\ p.touched = q.touched \cup new
  BY <1>1 DEF Fields
<1>3. Sees(p, fs, vs)
  BY <1>2 DEF Sees
<1>4. IsFiniteSet(q.near) /\ IsFiniteSet(p.near)
  <2>1. PointsIn(vs, t) \subseteq vs
    BY DEF PointsIn
  <2>2. IsFiniteSet(PointsIn(vs, t)) /\ IsFiniteSet(q.near)
    BY <2>1, FS_Subset DEF PointsOK, SearchGoes
  <2>3. IsFiniteSet(q.near \cup PointsIn(vs, t))
    BY <2>2, FS_Union
  <2> QED  BY <1>2, <2>2, <2>3
<1>5. ASSUME NEW f \in Steady(p)
      PROVE  /\ f \in Steady(q) /\ f \in Id /\ fs[f] = facts[f]
             /\ PointsOf(vs, f, t) = PointsOf(vectors, f, t)
  <2>1. f \in Steady(q) /\ f \notin new
    BY <1>2 DEF Steady
  <2>2. f \in Id
    BY <2>1 DEF SearchGoes, Holds, ActiveIn
  <2> QED  BY <2>1, <2>2 DEF new
<1>6. Holds(p, fs, vs)
  <2> SUFFICES ASSUME NEW f \in Steady(p)
               PROVE  f \in ActiveIn(fs, p.in.t) /\ SoundIn(fs, vs, f)
    BY DEF Holds
  <2>1. f \in ActiveIn(facts, t) /\ SoundIn(facts, vectors, f)
    BY <1>5 DEF SearchGoes, Holds
  <2>2. f \in ActiveIn(fs, p.in.t)
    BY <1>2, <1>5, <2>1 DEF ActiveIn
  <2>3. fs[f].t = t /\ facts[f].t = t
    BY <1>5, <2>1 DEF ActiveIn
  <2>4. PICK v \in vectors : PointsOf(vectors, f, t) = {v} /\ v.c = facts[f].c
    BY <2>1, <2>3 DEF SoundIn
  <2>5. PointsOf(vs, f, t) = {v} /\ v \in vs
    BY <1>5, <2>4 DEF PointsOf
  <2> QED  BY <1>5, <2>2, <2>3, <2>4, <2>5 DEF SoundIn
<1>7. FewPoints(p) => FewPoints(q)
  <2>1. IsFiniteSet(p.near) /\ IsFiniteSet(q.near) /\ Cardinality(q.near) <= Cardinality(p.near)
    BY <1>2, <1>4, FS_Subset
  <2>2. Cardinality(q.near) \in Nat /\ Cardinality(p.near) \in Nat
    BY <2>1, FS_CardinalityType
  <2>3. q.in.limit \in 1 .. MAX_SEARCH_LIMIT
    BY DEF SearchGoes
  <2>4. q.in.limit \in Nat /\ MAX_SEARCH_LIMIT \in Nat
    BY <2>3 DEF MAX_SEARCH_LIMIT
  <2> QED  BY <1>2, <2>1, <2>2, <2>4 DEF FewPoints
<1>8. HitsOK(q, facts) => HitsOK(p, fs)
  <2> SUFFICES ASSUME HitsOK(q, facts) PROVE HitsOK(p, fs)
    OBVIOUS
  <2>1. \A i \in DOMAIN p.hits :
          p.hits[i].f \in Steady(p) => p.hits[i].c = fs[p.hits[i].f].c
    BY <1>2, <1>5 DEF HitsOK
  <2>2. FewPoints(p) =>
          \A f \in Steady(p) : TypeMatches(fs[f].c, p.in) =>
                                 \E i \in DOMAIN p.hits : p.hits[i].f = f
    <3> SUFFICES ASSUME FewPoints(p), NEW f \in Steady(p), TypeMatches(fs[f].c, p.in)
                 PROVE  \E i \in DOMAIN p.hits : p.hits[i].f = f
      OBVIOUS
    <3>1. f \in Steady(q) /\ TypeMatches(facts[f].c, q.in) /\ FewPoints(q)
      BY <1>2, <1>5, <1>7
    <3>2. \E i \in DOMAIN q.hits : q.hits[i].f = f
      BY <3>1 DEF HitsOK
    <3> QED  BY <1>2, <3>2
  <2> QED  BY <1>2, <2>1, <2>2 DEF HitsOK
<1>9. RowsOK(q, facts) => RowsOK(p, fs)
  <2> SUFFICES ASSUME RowsOK(q, facts) PROVE RowsOK(p, fs)
    OBVIOUS
  <2>1. \A x \in p.got : x.f \in p.live /\ (x.f \in Steady(p) => x.c = fs[x.f].c)
    BY <1>2, <1>5 DEF RowsOK
  <2>2. \A i \in DOMAIN p.hits : p.hits[i].f \in Steady(p) =>
          \/ \E x \in p.got : x.f = p.hits[i].f
          \/ \E j \in DOMAIN p.todo : p.todo[j] = p.hits[i].f
    <3> SUFFICES ASSUME NEW i \in DOMAIN q.hits, q.hits[i].f \in Steady(p)
                 PROVE  \/ \E x \in q.got : x.f = q.hits[i].f
                        \/ \E j \in DOMAIN q.todo : q.todo[j] = q.hits[i].f
      BY <1>2
    <3>1. q.hits[i].f \in Steady(q)
      BY <1>5
    <3> QED  BY <3>1 DEF RowsOK
  <2>3. /\ ListOK(p.rows, Item) /\ DistinctRows(p.got) /\ p.todo \in Seq(Id)
        /\ \A i, j \in DOMAIN p.todo : p.todo[i] = p.todo[j] => i = j
        /\ \A i \in DOMAIN p.todo : \A x \in p.got : x.f # p.todo[i]
    <3>1. /\ ListOK(q.rows, Item) /\ DistinctRows(q.got) /\ q.todo \in Seq(Id)
          /\ \A i, j \in DOMAIN q.todo : q.todo[i] = q.todo[j] => i = j
          /\ \A i \in DOMAIN q.todo : \A x \in q.got : x.f # q.todo[i]
      BY DEF RowsOK
    <3> QED  BY ONLY <1>2, <3>1
  <2> QED  BY ONLY <2>1, <2>2, <2>3 DEF RowsOK
<1>10. SearchGoes(p, fs, vs)
  BY <1>2, <1>4, <1>6, <1>8, <1>9 DEF SearchGoes
<1> QED  BY <1>3, <1>10 DEF SearchOK, p

\* Watch leaves alone what was asked for.
LEMMA WatchAsked ==
  ASSUME NEW q, q = [k \in Fields |-> q[k]], q.pc # "idle", NEW fs, NEW vs
  PROVE  Watch(q, fs, vs).in = q.in /\ Watch(q, fs, vs).pc = q.pc
<1>1. CASE q.in.op \in Searches
  BY <1>1 DEF Watch, Fields, Searches, Admin
<1>2. CASE q.in.op \in Admin
  <2>1. q.in.op \notin Searches
    BY <1>2 DEF Searches, Admin
  <2> QED  BY <1>2, <2>1 DEF Watch, Fields
<1>3. CASE q.in.op \notin Searches \cup Admin
  BY <1>3 DEF Watch
<1> QED  BY <1>1, <1>2, <1>3

\* A request that is gone, is no search, or is one that is in order.
InOrder(q, fs, vs) ==
  q.pc # "idle" => (q.in.op \in Searches => SearchOK(q, fs, vs))

\* A request that looks at the tables.
LEMMA WatchInOrder ==
  ASSUME NEW q, q.pc # "idle" => q = [k \in Fields |-> q[k]],
         q.pc # "idle" => (q.in.op \in Searches => SearchGoes(q, facts, vectors)),
         NEW fs, NEW vs, PointsOK(vs)
  PROVE  InOrder(Watch(q, fs, vs), fs, vs)
<1>1. CASE q.pc = "idle"
  BY <1>1 DEF Watch, InOrder
<1>2. CASE q.pc # "idle" /\ q.in.op \notin Searches
  BY <1>2, WatchAsked DEF InOrder
<1>3. CASE q.pc # "idle" /\ q.in.op \in Searches
  BY <1>3, WatchOK DEF InOrder
<1> QED  BY <1>1, <1>2, <1>3

\* The searches of before.
LEMMA SearchBefore ==
  ASSUME ReadingInv, SearchInv, NEW s \in Request
  PROVE  /\ InOrder(req[s], facts, vectors)
         /\ req[s].pc # "idle" => /\ req[s] = [k \in Fields |-> req[s][k]]
                                  /\ (req[s].in.op \in Searches =>
                                        SearchGoes(req[s], facts, vectors))
  BY RunningGood DEF SearchInv, InOrder, SearchOK

\* A step that changes the tables is never one of a search.
LEMMA SearchStep ==
  ASSUME ReadingInv, SearchInv, NEW r \in Request, NEW q, NEW fs, NEW vs,
         Step(r, q, fs, vs), PointsOK(vs),
         q.pc = "idle" \/ (q = [k \in Fields |-> q[k]] /\ q.in.op \notin Searches)
  PROVE  SearchInv'
<1>1. /\ facts' = fs /\ vectors' = vs
      /\ req' = [s \in Request |-> Watch(IF s = r THEN q ELSE req[s], fs, vs)]
  BY DEF Step
<1>2. \A s \in Request \ {r} : req'[s] = Watch(req[s], fs, vs)
  BY <1>1
<1>3. req'[r] = Watch(q, fs, vs)
  BY <1>1
<1>4. ASSUME NEW s \in Request \ {r} PROVE InOrder(req'[s], fs, vs)
  <2>1. /\ req[s].pc # "idle" => req[s] = [k \in Fields |-> req[s][k]]
        /\ req[s].pc # "idle" =>
             (req[s].in.op \in Searches => SearchGoes(req[s], facts, vectors))
    BY SearchBefore
  <2>2. InOrder(Watch(req[s], fs, vs), fs, vs)
    BY <2>1, WatchInOrder
  <2> QED  BY <1>2, <2>2
<1>5. InOrder(req'[r], fs, vs)
  BY <1>3, WatchInOrder
<1> QED  BY <1>1, <1>4, <1>5 DEF SearchInv, InOrder

\* A step that reads.
LEMMA SearchRead ==
  ASSUME ReadingInv, SearchInv, NEW r \in Request, NEW q, req' = [req EXCEPT ![r] = q],
         facts' = facts, vectors' = vectors, InOrder(q, facts, vectors)
  PROVE  SearchInv'
<1>1. req'[r] = q /\ \A s \in Request \ {r} : req'[s] = req[s]
  BY DEF ReadingInv, Requests
<1> QED  BY <1>1 DEF SearchInv, InOrder

\* The others learn that they are not alone.
LEMMA AwareInOrder ==
  ASSUME ReadingInv, SearchInv, NEW s \in Request,
         NEW p, p = IF req[s].pc = "idle" THEN req[s] ELSE [req[s] EXCEPT !.alone = FALSE]
  PROVE  InOrder(p, facts, vectors)
<1>1. CASE req[s].pc = "idle"
  BY <1>1 DEF InOrder
<1>2. CASE req[s].pc # "idle"
  <2>1. /\ req[s] = [k \in Fields |-> req[s][k]] /\ InOrder(req[s], facts, vectors)
    BY <1>2, SearchBefore
  <2>2. \A k \in SearchFields : p[k] = req[s][k]
    BY <1>2, <2>1 DEF SearchFields, Fields
  <2>3. p.pc = req[s].pc /\ p.in = req[s].in
    BY <2>2 DEF SearchFields
  <2> QED  BY <1>2, <2>1, <2>2, <2>3, SameSearch DEF InOrder
<1> QED  BY <1>1, <1>2

\* A request begins.
LEMMA SearchBegun ==
  ASSUME ReadingInv, SearchInv, NEW r \in Request, NEW q, Begun(r, q),
         q = [k \in Fields |-> q[k]],
         q.in.op \in Searches => SearchGoes(q, facts, vectors)
  PROVE  SearchInv'
<1>1. /\ facts' = facts /\ vectors' = vectors
      /\ req' = [s \in Request |->
                   IF s = r THEN Watch(q, facts, vectors)
                   ELSE IF req[s].pc = "idle" THEN req[s]
                   ELSE [req[s] EXCEPT !.alone = FALSE]]
  BY DEF Begun
<1>2. req'[r] = Watch(q, facts, vectors)
  BY <1>1
<1>3. \A s \in Request \ {r} :
        req'[s] = IF req[s].pc = "idle" THEN req[s] ELSE [req[s] EXCEPT !.alone = FALSE]
  BY <1>1
<1>4. InOrder(req'[r], facts, vectors)
  BY <1>2, WatchInOrder DEF SearchInv
<1>5. \A s \in Request \ {r} : InOrder(req'[s], facts, vectors)
  BY <1>3, AwareInOrder
<1> QED  BY <1>1, <1>4, <1>5 DEF SearchInv, InOrder


-----------------------------------------------------------------------------
(* Steps that leave alone what searches have found. *)

\* A request that reads.
LEMMA SearchLooks ==
  ASSUME ReadingInv, SearchInv, NEW r \in Request, NEW p, Look(r, p),
         InOrder(p, facts, vectors)
  PROVE  SearchInv'
  BY SearchRead DEF Look

\* A search that has found what its new place asks for.
LEMMA SearchAlong ==
  ASSUME NEW q, NEW p, NEW fs, NEW vs, SearchOK(q, fs, vs),
         \A k \in SearchFields \ {"pc"} : p[k] = q[k],
         p.pc \in AfterVectors => q.pc \in AfterVectors,
         p.pc \in AfterKeywords => q.pc \in AfterKeywords,
         p.pc \in AfterFetch => q.pc \in AfterFetch,
         p.pc # "fetch"
  PROVE  SearchOK(p, fs, vs)
<1>1. /\ p.in = q.in /\ p.hits = q.hits /\ p.rows = q.rows
      /\ p.todo = q.todo /\ p.got = q.got /\ p.results = q.results /\ p.live = q.live
      /\ p.near = q.near /\ p.touched = q.touched /\ p.sound = q.sound
  BY DEF SearchFields
<1>2. Steady(p) = Steady(q)
  BY <1>1 DEF Steady
<1>3. Sees(p, fs, vs) /\ Holds(p, fs, vs)
  BY <1>1, <1>2 DEF SearchOK, SearchGoes, Sees, Holds
<1>4. HitsOK(q, fs) => HitsOK(p, fs)
  BY <1>1, <1>2 DEF HitsOK, FewPoints
<1>5. RowsOK(q, fs) => RowsOK(p, fs)
  BY <1>1, <1>2 DEF RowsOK
<1> QED  BY <1>1, <1>3, <1>4, <1>5 DEF SearchOK, SearchGoes

\* Provider calls, their records and the assembly of a context only move on.
LEMMA CallInOrder ==
  ASSUME ReadingInv, SearchInv, NEW r \in Request, req[r].pc # "idle",
         NEW p, \A k \in SearchFields \ {"pc"} : p[k] = req[r][k],
         \/ p.pc \in {"record_embed", "vectors", "upsert"}
         \/ req[r].pc \in AfterFetch /\ p.pc \in AfterFetch
  PROVE  InOrder(p, facts, vectors)
<1>1. p.in = req[r].in
  BY DEF SearchFields
<1> SUFFICES ASSUME p.in.op \in Searches PROVE SearchOK(p, facts, vectors)
  BY DEF InOrder
<1>2. SearchOK(req[r], facts, vectors)
  BY <1>1 DEF SearchInv
<1>3. /\ p.pc \in AfterVectors => req[r].pc \in AfterVectors
      /\ p.pc \in AfterKeywords => req[r].pc \in AfterKeywords
      /\ p.pc \in AfterFetch => req[r].pc \in AfterFetch
      /\ p.pc # "fetch"
  BY DEF AfterVectors, AfterKeywords, AfterFetch
<1> QED  BY <1>2, <1>3, SearchAlong

\* embed_text and summarize_memory, answered or failed.
LEMMA CallKeepsSearches ==
  ASSUME ReadingInv, SearchInv, NEW r \in Request,
         EmbedText(r) \/ SummarizeMemory(r) \/ CallErrs(r)
  PROVE  SearchInv'
<1> DEFINE q == req[r]
           there == IF q.pc = "embed" THEN "record_embed" ELSE "record_summary"
<1>1. /\ q.pc \in {"embed", "summarize"}
      /\ \E b : Look(r, [q EXCEPT !.pc = there, !.ok = b])
  <2>1. CASE EmbedText(r)
    BY <2>1 DEF EmbedText
  <2>2. CASE SummarizeMemory(r)
    BY <2>2 DEF SummarizeMemory
  <2>3. CASE CallErrs(r)
    <3>1. q.pc \in {"embed", "summarize"}
          /\ Look(r, [q EXCEPT !.pc = RecordAt[q.pc], !.ok = FALSE])
      BY <2>3 DEF CallErrs, RecordAt
    <3>2. RecordAt[q.pc] = there
      BY <3>1 DEF RecordAt
    <3> QED  BY <3>1, <3>2
  <2> QED  BY <2>1, <2>2, <2>3
<1>2. q.pc # "idle"
  BY <1>1
<1>3. q = [k \in Fields |-> q[k]]
  BY <1>2, RunningGood
<1>4. PICK b : Look(r, [q EXCEPT !.pc = there, !.ok = b])
  BY <1>1
<1> DEFINE p == [q EXCEPT !.pc = there, !.ok = b]
<1>5. p.pc = there /\ \A k \in SearchFields \ {"pc"} : p[k] = q[k]
  BY <1>3 DEF Fields, SearchFields
<1>6. Look(r, p)
  BY <1>4
<1> HIDE DEF p
<1>7. \/ p.pc \in {"record_embed", "vectors", "upsert"}
      \/ q.pc \in AfterFetch /\ p.pc \in AfterFetch
  BY <1>1, <1>5 DEF AfterFetch
<1>8. InOrder(p, facts, vectors)
  BY <1>2, <1>5, <1>7, CallInOrder
<1> QED  BY <1>6, <1>8, SearchLooks

\* A request that is gone.
LEMMA IdleInOrder == InOrder(Idle, facts, vectors)
  BY DEF InOrder, Idle

\* The records, and the assembly.
LEMMA RecordKeepsSearches ==
  ASSUME ReadingInv, SearchInv, NEW r \in Request,
         RecordEmbedding(r) \/ RecordSummary(r) \/ Assemble(r)
  PROVE  SearchInv'
<1> DEFINE q == req[r]
<1>1. q.pc \in {"record_embed", "record_summary", "assemble"}
  BY DEF RecordEmbedding, RecordSummary, Assemble
<1>2. q.pc # "idle"
  BY <1>1
<1>3. /\ q = [k \in Fields |-> q[k]]
      /\ q.pc = "record_embed" => q.in.op \in Searches \cup {"import", "update"}
  BY <1>1, <1>2, RunningGood, Where
<1>4. CASE RecordEmbedding(r)
  <2>1. CASE q.ok
    <3> DEFINE p == [q EXCEPT !.pc = AfterEmbed[q.in.op], !.events = @ \cup {calls}]
    <3>1. Look(r, p) /\ q.pc = "record_embed"
      BY <1>4, <2>1 DEF RecordEmbedding
    <3>2. p.pc = AfterEmbed[q.in.op] /\ \A k \in SearchFields \ {"pc"} : p[k] = q[k]
      BY <1>3 DEF Fields, SearchFields
    <3> HIDE DEF p
    <3>3. p.pc \in {"record_embed", "vectors", "upsert"}
      BY <1>3, <3>1, <3>2 DEF AfterEmbed, Searches
    <3>4. InOrder(p, facts, vectors)
      BY <1>2, <3>2, <3>3, CallInOrder
    <3> QED  BY <3>1, <3>4, SearchLooks
  <2>2. CASE ~q.ok
    <3>1. Look(r, Idle)
      BY <1>4, <2>2 DEF RecordEmbedding
    <3> QED  BY <3>1, IdleInOrder, SearchLooks
  <2> QED  BY <2>1, <2>2
<1>5. CASE RecordSummary(r)
  <2>1. PICK asm : Look(r, [q EXCEPT !.pc = "done", !.events = @ \cup {calls}, !.asm = asm])
    BY <1>5 DEF RecordSummary
  <2> DEFINE p == [q EXCEPT !.pc = "done", !.events = @ \cup {calls}, !.asm = asm]
  <2>2. Look(r, p) /\ q.pc = "record_summary"
    BY <1>5, <2>1 DEF RecordSummary
  <2>3. p.pc = "done" /\ \A k \in SearchFields \ {"pc"} : p[k] = q[k]
    BY <1>3 DEF Fields, SearchFields
  <2> HIDE DEF p
  <2>4. q.pc \in AfterFetch /\ p.pc \in AfterFetch
    BY <2>2, <2>3 DEF AfterFetch
  <2>5. InOrder(p, facts, vectors)
    BY <1>2, <2>3, <2>4, CallInOrder
  <2> QED  BY <2>2, <2>5, SearchLooks
<1>6. CASE Assemble(r)
  <2>1. PICK opt : Look(r, AssembledAs(q, opt, AssembleContext(ItemsOf(q), opt)))
    BY <1>6 DEF Assemble
  <2> DEFINE asm == AssembleContext(ItemsOf(q), opt)
             p == AssembledAs(q, opt, asm)
  <2>2. Look(r, p) /\ q.pc = "assemble"
    BY <1>6, <2>1 DEF Assemble
  <2> HIDE DEF asm
  <2>3. p.pc \in {"summarize", "done"} /\ \A k \in SearchFields \ {"pc"} : p[k] = q[k]
    BY <1>3 DEF AssembledAs, Fields, SearchFields
  <2> HIDE DEF p
  <2>4. q.pc \in AfterFetch /\ p.pc \in AfterFetch
    BY <2>2, <2>3 DEF AfterFetch
  <2>5. InOrder(p, facts, vectors)
    BY <1>2, <2>3, <2>4, CallInOrder
  <2> QED  BY <2>2, <2>5, SearchLooks
<1> QED  BY <1>4, <1>5, <1>6

\* The answer reaches the caller, or the request ends before.
LEMMA ReplyKeepsSearches ==
  ASSUME ReadingInv, SearchInv, NEW r \in Request, Reply(r) \/ Fail(r)
  PROVE  SearchInv'
<1>1. req' = [req EXCEPT ![r] = Idle] /\ facts' = facts /\ vectors' = vectors
  BY DEF Reply, Fail, tables
<1> QED  BY <1>1, IdleInOrder, SearchRead

\* The counts of an organisation, its snapshots and its purges.
LEMMA AdminKeepsSearches ==
  ASSUME ReadingInv, SearchInv, NEW r \in Request,
         \/ ReadFacts(r) \/ ReadLatest(r) \/ ReadUsers(r) \/ Keep(r) \/ ReadUsage(r)
         \/ MatchExpired(r) \/ DeleteExpired(r) \/ JobOrgFails(r)
  PROVE  SearchInv'
<1> DEFINE q == req[r]
<1>1. q.pc \in {"count_facts", "latest", "count_users", "keep", "usage", "match", "expire"}
  BY DEF ReadFacts, ReadLatest, ReadUsers, Keep, ReadUsage, MatchExpired, DeleteExpired,
         JobOrgFails
<1>2. q.pc # "idle"
  BY <1>1
<1>3. q = [k \in Fields |-> q[k]] /\ q.in.op \in Admin \cup Jobs
  <2>1. q.in.op \in Admin \cup {"dashboard", "snapshot", "job", "purge"}
    BY <1>1, <1>2, RunningGood, Where
  <2> QED  BY <1>2, <2>1, RunningGood DEF Admin, Jobs
<1>4. \E p : /\ req' = [req EXCEPT ![r] = p] /\ facts' = facts /\ vectors' = vectors
             /\ p.in = q.in
  <2>1. ASSUME NEW o, o.in = q.in, o = [k \in Fields |-> o[k]] PROVE NextOrg(o).in = q.in
    BY <2>1 DEF NextOrg, Fields
  <2>2. CASE ReadFacts(r)
    <3> DEFINE p == [q EXCEPT !.pc = AfterFacts[q.in.op], !.rows = <<CountFacts(Head(q.todo))>>]
    <3>1. Look(r, p)
      BY <2>2 DEF ReadFacts
    <3>2. p.in = q.in
      BY <1>3 DEF Fields
    <3> QED  BY <3>1, <3>2 DEF Look
  <2>3. CASE ReadLatest(r)
    <3>1. PICK hits : Look(r, [q EXCEPT !.pc = "count_users", !.hits = hits])
      BY <2>3 DEF ReadLatest
    <3> DEFINE p == [q EXCEPT !.pc = "count_users", !.hits = hits]
    <3>2. p.in = q.in
      BY <1>3 DEF Fields
    <3> QED  BY <3>1, <3>2 DEF Look
  <2>4. CASE ReadUsers(r)
    <3> DEFINE p == [q EXCEPT !.pc = AfterUsers[q.in.op],
                              !.rows = Append(@, CountUsers(Head(q.todo)))]
    <3>1. Look(r, p)
      BY <2>4 DEF ReadUsers
    <3>2. p.in = q.in
      BY <1>3 DEF Fields
    <3> QED  BY <3>1, <3>2 DEF Look
  <2>5. CASE ReadUsage(r)
    <3> DEFINE p == [q EXCEPT !.pc = "done", !.got = {UsageOf(Head(q.todo))}]
    <3>1. Look(r, p)
      BY <2>5 DEF ReadUsage
    <3>2. p.in = q.in
      BY <1>3 DEF Fields
    <3> QED  BY <3>1, <3>2 DEF Look
  <2>6. CASE MatchExpired(r)
    <3> DEFINE p == [q EXCEPT !.pc = "expire", !.rows = <<Cardinality(Expired(q))>>]
    <3>1. Look(r, p)
      BY <2>6 DEF MatchExpired
    <3>2. p.in = q.in
      BY <1>3 DEF Fields
    <3> QED  BY <3>1, <3>2 DEF Look
  <2>7. CASE Keep(r) \/ DeleteExpired(r)
    <3>1. PICK s : /\ req' = [req EXCEPT ![r] = NextOrg([q EXCEPT !.results = Append(@, s)])]
                   /\ facts' = facts /\ vectors' = vectors
      BY <2>7 DEF Keep, DeleteExpired, Look
    <3> DEFINE o == [q EXCEPT !.results = Append(@, s)]
    <3>2. o.in = q.in /\ o = [k \in Fields |-> o[k]]
      BY <1>3 DEF Fields
    <3> HIDE DEF o
    <3>3. NextOrg(o).in = q.in
      BY <2>1, <3>2
    <3> QED  BY <3>1, <3>3 DEF o
  <2>8. CASE JobOrgFails(r)
    <3>1. PICK error : Look(r, NextOrg([q EXCEPT !.bad = @ \cup {error}]))
      BY <2>8 DEF JobOrgFails
    <3> DEFINE o == [q EXCEPT !.bad = @ \cup {error}]
    <3>2. o.in = q.in /\ o = [k \in Fields |-> o[k]]
      BY <1>3 DEF Fields
    <3>3. Look(r, NextOrg(o))
      BY <3>1
    <3> HIDE DEF o
    <3>4. NextOrg(o).in = q.in
      BY <2>1, <3>2
    <3> QED  BY <3>3, <3>4 DEF Look
  <2> QED  BY <2>2, <2>3, <2>4, <2>5, <2>6, <2>7, <2>8
<1>5. PICK p : /\ req' = [req EXCEPT ![r] = p] /\ facts' = facts /\ vectors' = vectors
               /\ p.in = q.in
  BY <1>4
<1>6. InOrder(p, facts, vectors)
  BY <1>3, <1>5 DEF InOrder, Searches, Admin, Jobs
<1> QED  BY <1>5, <1>6, SearchRead


\* A step that writes, of an operation that is no search.
LEMMA WriterStep ==
  ASSUME ReadingInv, SearchInv, NEW r \in Request, req[r].in.op \notin Searches,
         NEW p, p = [k \in Fields |-> p[k]], p.in = req[r].in,
         NEW fs, NEW vs, Step(r, p, fs, vs), PointsOK(vs)
  PROVE  SearchInv'
  BY SearchStep

\* A request that ends at a row that is there, or not.
LEMMA EndStep ==
  ASSUME ReadingInv, SearchInv, NEW r \in Request, NEW fs, Step(r, Idle, fs, vectors)
  PROVE  SearchInv'
<1>1. Idle.pc = "idle" /\ PointsOK(vectors)
  BY DEF Idle, SearchInv
<1> QED  BY <1>1, SearchStep

\* delete_user_data, delete_by_user and insert_fact of an import.
LEMMA ImportKeepsSearches ==
  ASSUME ReadingInv, SearchInv, NEW r \in Request,
         WipeFacts(r) \/ WipeVectors(r) \/ InsertFact(r)
  PROVE  SearchInv'
<1> DEFINE q == req[r]
<1>1. q.pc \in {"wipe_facts", "wipe_vectors", "insert"}
  BY DEF WipeFacts, WipeVectors, InsertFact
<1>2. q.pc # "idle"
  BY <1>1
<1>3. q = [k \in Fields |-> q[k]] /\ q.in.op = "import"
  BY <1>1, <1>2, RunningGood, Where
<1>4. q.in.op \notin Searches
  BY <1>3 DEF Searches
<1>5. PointsOK(vectors)
  BY DEF SearchInv
<1>6. CASE WipeFacts(r)
  <2> DEFINE p == [q EXCEPT !.pc = "wipe_vectors"]
  <2>1. PICK fs : Step(r, p, fs, vectors)
    BY <1>6 DEF WipeFacts
  <2>2. p = [k \in Fields |-> p[k]] /\ p.in = q.in
    BY <1>3 DEF Fields
  <2> QED  BY <1>4, <1>5, <2>1, <2>2, WriterStep
<1>7. CASE WipeVectors(r)
  <2> DEFINE p == NextFact(q)
             vs == vectors \ PointsIn(vectors, q.in.t)
  <2>1. Step(r, p, facts, vs)
    BY <1>7 DEF WipeVectors
  <2>2. p = [k \in Fields |-> p[k]] /\ p.in = q.in
    BY <1>3, NextFactIs DEF Alike
  <2>3. PointsOK(vs)
    <3>1. vs \subseteq vectors
      OBVIOUS
    <3> QED  BY <1>5, <3>1, FS_Subset DEF PointsOK
  <2> HIDE DEF p, vs
  <2> QED  BY <1>4, <2>1, <2>2, <2>3, WriterStep
<1>8. CASE InsertFact(r)
  <2> DEFINE p == [q EXCEPT !.pc = "embed"]
  <2>1. Step(r, Idle, facts, vectors) \/ \E fs : Step(r, p, fs, vectors)
    BY <1>8 DEF InsertFact
  <2>2. p = [k \in Fields |-> p[k]] /\ p.in = q.in
    BY <1>3 DEF Fields
  <2> HIDE DEF p
  <2> QED  BY <1>4, <1>5, <2>1, <2>2, WriterStep, EndStep
<1> QED  BY <1>6, <1>7, <1>8

\* Points that go, and one that comes.
LEMMA PointsChange ==
  ASSUME PointsOK(vectors)
  PROVE  /\ \A f, t : PointsOK(Without(f, t))
         /\ \A r \in Request, f \in Id, t \in Tenant, c \in Content :
              PointsOK(vectors \cup {[f |-> f, t |-> t, c |-> c, by |-> r]})
<1>1. ASSUME NEW f, NEW t PROVE PointsOK(Without(f, t))
  <2>1. Without(f, t) \subseteq vectors
    BY DEF Without
  <2> QED  BY <2>1, FS_Subset DEF PointsOK
<1>2. ASSUME NEW r \in Request, NEW f \in Id, NEW t \in Tenant, NEW c \in Content
      PROVE  PointsOK(vectors \cup {[f |-> f, t |-> t, c |-> c, by |-> r]})
  <2> DEFINE w == [f |-> f, t |-> t, c |-> c, by |-> r]
  <2>1. w \in Point
    BY DEF Point
  <2> HIDE DEF w
  <2>2. IsFiniteSet(vectors \cup {w})
    BY FS_AddElement DEF PointsOK
  <2>3. PointsOK(vectors \cup {w})
    BY <2>1, <2>2 DEF PointsOK
  <2> QED  BY <2>3 DEF w
<1> QED  BY <1>1, <1>2

\* update_fact, soft_delete_fact, delete_by_fact_id and upsert_vector.
LEMMA WriteKeepsSearches ==
  ASSUME ReadingInv, SearchInv, NEW r \in Request,
         WriteRow(r) \/ Unpoint(r) \/ UpsertDelete(r) \/ UpsertPoint(r)
  PROVE  SearchInv'
<1> DEFINE q == req[r]
           to(pc) == [q EXCEPT !.pc = pc]
<1>1. q.pc \in {"row", "unpoint", "upsert", "point"}
  BY DEF WriteRow, Unpoint, UpsertDelete, UpsertPoint
<1>2. q.pc # "idle" /\ q.pc # "done"
  BY <1>1
<1>3. /\ q = [k \in Fields |-> q[k]] /\ q.in \in Input
      /\ q.in.op \in {"import", "update", "delete"}
  BY <1>1, <1>2, RunningGood, Where
<1>4. /\ q.in.op \notin Searches /\ q.in.t \in Tenant
      /\ q.in.op \in {"update", "delete"} => q.in.f \in Id /\ q.in.c \in Content
  BY <1>3, AskedOps DEF Searches
<1>5. PointsOK(vectors)
  BY DEF SearchInv
<1>6. \A pc : to(pc) = [k \in Fields |-> to(pc)[k]] /\ to(pc).in = q.in
  BY <1>3 DEF Fields
<1>7. CASE WriteRow(r)
  <2>1. \/ \E fs : Step(r, to("unpoint"), fs, vectors)
        \/ Step(r, Idle, facts, vectors)
    BY <1>7 DEF WriteRow
  <2> HIDE DEF to
  <2> QED  BY <1>4, <1>5, <1>6, <2>1, WriterStep, EndStep
<1>8. CASE Unpoint(r) \/ UpsertDelete(r)
  <2>1. \E pc, f : Step(r, to(pc), facts, Without(f, q.in.t))
    BY <1>8 DEF Unpoint, UpsertDelete
  <2>2. PICK pc, f : Step(r, to(pc), facts, Without(f, q.in.t))
    BY <2>1
  <2>3. PointsOK(Without(f, q.in.t))
    BY <1>5, PointsChange
  <2> HIDE DEF to
  <2> QED  BY <1>4, <1>6, <2>2, <2>3, WriterStep
<1>9. CASE UpsertPoint(r) /\ q.in.op # "import"
  <2> DEFINE vs == vectors \cup {[f |-> q.in.f, t |-> q.in.t, c |-> q.in.c, by |-> r]}
  <2>1. Step(r, to("done"), facts, vs)
    BY <1>9 DEF UpsertPoint, Embedded, Answered
  <2>2. PointsOK(vs)
    BY <1>3, <1>4, <1>5, <1>9, PointsChange
  <2> HIDE DEF to, vs
  <2> QED  BY <1>4, <1>6, <2>1, <2>2, WriterStep
<1>10. CASE UpsertPoint(r) /\ q.in.op = "import"
  <2> DEFINE x == Head(q.todo)
             o == [q EXCEPT !.todo = Tail(@), !.rows = <<@[1] + 1>>]
             p == NextFact(o)
             vs == vectors \cup {[f |-> x.f, t |-> q.in.t, c |-> x.c, by |-> r]}
             items == q.asm.facts
  <2>1. Step(r, p, facts, vs) /\ q.pc = "point"
    BY <1>10 DEF UpsertPoint, Embedded
  <2>2. o = [k \in Fields |-> o[k]] /\ o.in = q.in
    BY <1>3 DEF Fields
  <2> HIDE DEF o
  <2>3. p = [k \in Fields |-> p[k]] /\ p.in = q.in
    BY <2>2, NextFactIs DEF Alike
  <2>4. items \in Seq(Item)
    BY <1>2, <1>10, ImportAt
  <2>5. PICK n \in Nat : Importing(q, n, facts, vectors)
    BY <1>2, <1>10, ImportAt
  <2>6. n < Len(items) /\ q.todo = SubSeq(items, n + 1, Len(items))
    BY <2>1, <2>5 DEF Importing
  <2>7. x \in Item
    BY <2>4, <2>6, Rest
  <2>8. x.f \in Id /\ x.c \in Content
    BY <2>7 DEF Item
  <2>9. PointsOK(vs)
    BY <1>4, <1>5, <2>8, PointsChange
  <2> HIDE DEF p, vs
  <2> QED  BY <1>4, <2>1, <2>3, <2>9, WriterStep
<1> QED  BY <1>7, <1>8, <1>9, <1>10

\* Operations that begin and are no search.
LEMMA BeginKeepsSearches ==
  ASSUME ReadingInv, SearchInv, NEW r \in Request,
         BeginImport(r) \/ BeginWrite(r) \/ BeginAdmin(r)
  PROVE  SearchInv'
<1>1. \E q : /\ Begun(r, q) /\ q = [k \in Fields |-> q[k]] /\ q.in.op \notin Searches
  <2>1. CASE BeginWrite(r)
    <3>1. PICK in \in Input : in.op \in {"update", "delete"} /\ Begun(r, Started(in, "row"))
      BY <2>1 DEF BeginWrite
    <3> DEFINE q == Started(in, "row")
    <3>2. q = [k \in Fields |-> q[k]] /\ q.in = in
      BY StartedIs
    <3>3. in.op \notin Searches
      BY <3>1 DEF Searches
    <3> HIDE DEF q
    <3> QED  BY <3>1, <3>2, <3>3 DEF q
  <2>2. CASE BeginImport(r)
    <3>1. PICK in \in Input, dump \in dumps :
            in.op = "import" /\ Begun(r, ImportStart(in, dump))
      BY <2>2 DEF BeginImport
    <3> DEFINE new(c) == Started(in, c)
    <3>2. \A c : new(c) = [k \in Fields |-> new(c)[k]] /\ new(c).in = in
      BY StartedIs
    <3> DEFINE n == DryRunOutput(in, dump)
               q == ImportStart(in, dump)
               items == dump.facts
    <3>3. q = IF in.dry THEN [new("done") EXCEPT !.asm = dump, !.rows = <<n>>]
              ELSE [new("wipe_facts") EXCEPT !.asm = dump, !.rows = <<0>>, !.todo = items]
      BY DEF ImportStart
    <3> HIDE DEF q, new, n, items
    <3>4. q = [k \in Fields |-> q[k]] /\ q.in = in
      BY <3>2, <3>3 DEF Fields
    <3>5. in.op \notin Searches
      BY <3>1 DEF Searches
    <3> QED  BY <3>1, <3>4, <3>5 DEF q
  <2>3. CASE BeginAdmin(r)
    <3>1. PICK in \in Input : in.op \in Admin \cup Jobs /\ Begun(r, AdminStart(in))
      BY <2>3 DEF BeginAdmin
    <3> DEFINE new(c) == Started(in, c)
               first == IF in.op = "purge" THEN "match" ELSE "count_facts"
               q == AdminStart(in)
               skip == in.op \in Jobs /\ (in.orgs = <<>> \/ in.cutoff = 0)
    <3>2. \A c : new(c) = [k \in Fields |-> new(c)[k]] /\ new(c).in = in
      BY StartedIs
    <3>3. q = IF skip THEN [new("done") EXCEPT !.status = "skipped"]
              ELSE [new(first) EXCEPT !.todo = in.orgs]
      BY DEF AdminStart
    <3> HIDE DEF q, new, skip, first
    <3>4. q = [k \in Fields |-> q[k]] /\ q.in = in
      BY <3>2, <3>3 DEF Fields
    <3>5. in.op \notin Searches
      BY <3>1 DEF Searches, Admin, Jobs
    <3> QED  BY <3>1, <3>4, <3>5 DEF q
  <2> QED  BY <2>1, <2>2, <2>3
<1> QED  BY <1>1, SearchBegun

\* search_memory and build_context begin and know which memories are sound.
LEMMA BeginSearchKeepsSearches ==
  ASSUME ReadingInv, SearchInv, NEW r \in Request, BeginSearch(r)
  PROVE  SearchInv'
<1>1. PICK in \in Input : /\ in.op \in Searches /\ InputValid(in)
                          /\ Begun(r, Started(in, "embed"))
  BY DEF BeginSearch
<1> DEFINE q == Started(in, "embed")
           sound == {f \in Active(in.t) : Sound(f)}
<1>2. q = [k \in Fields |-> q[k]] /\ q.in = in /\ q.pc = "embed"
  BY StartedIs
<1>3. q.sound = sound /\ q.touched = {} /\ q.near = {}
  BY DEF Started
<1> HIDE DEF q
<1>4. Steady(q) = sound
  BY <1>3 DEF Steady
<1>5. Holds(q, facts, vectors)
  BY <1>2, <1>4 DEF Holds, Sound, Active
<1>6. SearchGoes(q, facts, vectors)
  <2>1. in.limit \in 1 .. MAX_SEARCH_LIMIT
    BY <1>1 DEF InputValid, LimitValid, MaxMemoriesValid, MAX_SEARCH_LIMIT,
                MAX_CONTEXT_MAX_MEMORIES
  <2> QED
    BY <2>1, <1>1, <1>2, <1>3, <1>5, FS_EmptySet
       DEF SearchGoes, AfterVectors, AfterKeywords, AfterFetch
<1>7. Begun(r, q)
  BY <1>1 DEF q
<1> QED  BY <1>2, <1>6, <1>7, SearchBegun

\* A refused search, an export and the tasks that store usage events.
LEMMA RestKeepsSearches ==
  ASSUME ReadingInv, SearchInv,
         \/ UNCHANGED vars \/ PersistStores \/ PersistFails
         \/ \E t \in Tenant : RefuseSearch(t)
         \/ \E r \in Request : Export(r)
  PROVE  SearchInv'
<1>1. facts' = facts /\ vectors' = vectors
  BY DEF vars, PersistStores, PersistFails, RefuseSearch, Export, tables
<1>2. CASE req' = req
  BY <1>1, <1>2 DEF SearchInv
<1>3. CASE \E t \in Tenant : RefuseSearch(t)
  <2>1. ASSUME NEW s \in Request PROVE InOrder(req'[s], facts, vectors)
    <3>1. req'[s] = IF req[s].pc = "idle" THEN req[s] ELSE [req[s] EXCEPT !.alone = FALSE]
      BY <1>3 DEF RefuseSearch
    <3> QED  BY <3>1, AwareInOrder
  <2> QED  BY <1>1, <2>1 DEF SearchInv, InOrder
<1> QED  BY <1>2, <1>3 DEF vars, PersistStores, PersistFails, Export


-----------------------------------------------------------------------------
(* What the stores answer to a search. *)

\* What a search asks for.
LEMMA AskedQuery ==
  ASSUME NEW in \in Input, in.op \in Searches
  PROVE  in.q \in Query /\ in.limit \in Nat
<1>1. in \in Asked
  BY ReadingConstants
<1>2. CASE in \in [op : Searches, t : Tenant, q : Query,
                   types : SUBSET {TypeOf[c] : c \in Content}, limit : Nat]
  BY <1>2
<1>3. CASE in \in [op : {"export"}, t : Tenant, deleted : BOOLEAN]
  BY <1>3 DEF Searches
<1>4. CASE in \in [op : {"import"}, t : Tenant, dry : BOOLEAN]
  BY <1>4 DEF Searches
<1>5. CASE in \in [op : {"update", "delete"}, t : Tenant, f : Id, c : Content]
  BY <1>5 DEF Searches
<1>6. CASE in \in [op : Admin \ Jobs, t : Tenant, orgs : {<<o>> : o \in Orgs}]
  <2>1. in.op \in Admin \ Jobs
    BY <1>6
  <2> QED  BY <2>1 DEF Searches, Admin, Jobs
<1>7. CASE in \in [op : Jobs, t : Tenant, orgs : Seq(Orgs), cutoff : Nat]
  <2>1. in.op \in Jobs
    BY <1>7
  <2> QED  BY <2>1 DEF Searches, Admin, Jobs
<1> QED  BY <1>1, <1>2, <1>3, <1>4, <1>5, <1>6, <1>7 DEF Asked

\* A store is asked for no more than the cap.
LEMMA InternalLimit ==
  ASSUME NEW limit \in Nat
  PROVE  /\ InternalSearchLimit(limit) \in Nat
         /\ InternalSearchLimit(limit) <= MAX_SEARCH_LIMIT
         /\ \A n \in Nat : n <= 2 * limit /\ n <= MAX_SEARCH_LIMIT =>
              n <= InternalSearchLimit(limit)
  BY DEF InternalSearchLimit, MAX_SEARCH_LIMIT

\* The points among which search_vectors looks.
Wanted(in) == {v \in PointsIn(vectors, in.t) : TypeMatches(v.c, in)}

\* s is a list of the points without repetitions, and hits the first of it.
HitsFrom(hits, s, in) ==
  /\ \A i, j \in 1 .. Cardinality(Wanted(in)) : i # j => s[i] # s[j]
  /\ hits = [i \in 1 .. Least(Cardinality(Wanted(in)), InternalSearchLimit(in.limit))
               |-> [f |-> s[i].f, c |-> s[i].c, sim |-> Sim[in.q][s[i].c]]]

\* A sequence without repetitions that is as long as the set is large holds all
\* of the set.
LEMMA SeqOfAll ==
  ASSUME NEW S, IsFiniteSet(S), NEW n \in Nat, n = Cardinality(S), NEW s \in [1 .. n -> S],
         \A i, j \in 1 .. n : i # j => s[i] # s[j], NEW x \in S
  PROVE  \E i \in 1 .. n : s[i] = x
<1>1. s \in Injection(1 .. n, S)
  BY DEF Injection, IsInjective
<1>2. IsFiniteSet(1 .. n) /\ Cardinality(1 .. n) = n
  BY FS_Interval
<1>3. s \in Surjection(1 .. n, S)
  BY <1>1, <1>2, FS_Injection
<1> QED  BY <1>3 DEF Surjection

\* What search_vectors returns: the points, without repetitions and cut.
LEMMA VectorsFound ==
  ASSUME NEW in, in.limit \in Nat, NEW hits \in SearchVectors(in), IsFiniteSet(Wanted(in))
  PROVE  \E s \in [1 .. Cardinality(Wanted(in)) -> Wanted(in)] : HitsFrom(hits, s, in)
<1> DEFINE points == Wanted(in)
           n == Cardinality(points)
           m == InternalSearchLimit(in.limit)
           sim(v) == Sim[in.q][v.c]
           hit(v) == [f |-> v.f, c |-> v.c, sim |-> sim(v)]
           cut(s) == SubSeq(s, 1, Least(Len(s), m))
<1>1. PICK s \in SetToSeqs(points) : hits = Mapped(cut(s), hit)
  BY DEF SearchVectors, Wanted
<1>2. n \in Nat /\ m \in Nat
  BY FS_CardinalityType, InternalLimit
<1>3. s \in [1 .. n -> points] /\ \A i, j \in 1 .. n : i # j => s[i] # s[j]
  BY <1>1 DEF SetToSeqs
<1> HIDE DEF n, m
<1>4. s \in Seq(points) /\ Len(s) = n
  BY <1>2, <1>3
<1> DEFINE l == Least(n, m)
<1>5. l \in Nat /\ l <= n
  BY <1>2 DEF Least
<1>6. cut(s) = SubSeq(s, 1, l)
  BY <1>4
<1> HIDE DEF l, cut
<1>7. DOMAIN cut(s) = 1 .. l /\ \A i \in 1 .. l : cut(s)[i] = s[i]
  <2>1. SubSeq(s, 1, l) = [i \in 1 .. l |-> s[i]]
    BY <1>4, <1>5
  <2> QED  BY <1>6, <2>1
<1>8. hits = [i \in 1 .. l |-> hit(cut(s)[i])]
  BY <1>1, <1>7 DEF Mapped
<1>9. hits = [i \in 1 .. l |-> hit(s[i])]
  BY <1>7, <1>8
<1> QED  BY <1>3, <1>9 DEF l, n, m, HitsFrom

\* They are the hits of the search.
LEMMA HitsFound ==
  ASSUME ReadingInv, PointsOK(vectors), NEW q, q.in \in Input, q.in.op \in Searches,
         SearchOK(q, facts, vectors), NEW hits \in SearchVectors(q.in)
  PROVE  /\ ListOK(hits, Hit)
         /\ \A i \in DOMAIN hits :
              hits[i].f \in Steady(q) => hits[i].c = facts[hits[i].f].c
         /\ FewPoints(q) =>
              \A f \in Steady(q) : TypeMatches(facts[f].c, q.in) =>
                                     \E i \in DOMAIN hits : hits[i].f = f
<1> DEFINE in == q.in
           points == Wanted(in)
           n == Cardinality(points)
           m == InternalSearchLimit(in.limit)
           l == Least(n, m)
<1>1. in.q \in Query /\ in.limit \in Nat
  BY AskedQuery
<1>2. /\ Holds(q, facts, vectors) /\ IsFiniteSet(q.near)
      /\ PointsIn(vectors, in.t) \subseteq q.near
  BY DEF SearchOK, SearchGoes, Sees
<1>3. /\ points \subseteq vectors /\ points \subseteq Point
      /\ points \subseteq q.near /\ \A v \in points : v.t = in.t
  BY <1>2 DEF PointsIn, PointsOK, Wanted
<1>4. /\ IsFiniteSet(points) /\ n \in Nat /\ Cardinality(q.near) \in Nat
      /\ n <= Cardinality(q.near)
  BY <1>2, <1>3, FS_Subset, FS_CardinalityType
<1>5. PICK s \in [1 .. n -> points] :
        /\ \A i, j \in 1 .. n : i # j => s[i] # s[j]
        /\ hits = [i \in 1 .. l |-> [f |-> s[i].f, c |-> s[i].c, sim |-> Sim[in.q][s[i].c]]]
  <2>1. PICK s \in [1 .. n -> points] : HitsFrom(hits, s, q.in)
    BY <1>1, <1>4, VectorsFound
  <2> QED  BY <2>1 DEF HitsFrom
<1>6. /\ m \in Nat /\ m <= MAX_SEARCH_LIMIT
      /\ \A k \in Nat : k <= 2 * in.limit /\ k <= MAX_SEARCH_LIMIT => k <= m
  BY <1>1, InternalLimit
<1>7. l \in Nat /\ l <= n /\ l <= MAX_SEARCH_LIMIT /\ (n <= m => l = n)
  BY <1>4, <1>6 DEF Least, MAX_SEARCH_LIMIT
<1>8. \A v \in points : v \in Point /\ v.f \in Id /\ v.c \in Content /\ Sim[in.q][v.c] \in Nat
  <2>1. Sim[in.q] \in [Content -> 0 .. 100]
    BY <1>1, ReadingConstants
  <2> DEFINE sim == Sim[in.q]
  <2>2. \A c \in Content : sim[c] \in Nat
    <3>1. sim \in [Content -> 0 .. 100]
      BY <2>1
    <3> HIDE DEF sim
    <3>2. ASSUME NEW c \in Content PROVE sim[c] \in 0 .. 100
      BY ONLY <3>1
    <3>3. ASSUME NEW k \in 0 .. 100 PROVE k \in Nat
      OBVIOUS
    <3> QED  BY ONLY <3>2, <3>3
  <2>3. \A v \in Point : v.f \in Id /\ v.c \in Content
    BY DEF Point
  <2> HIDE DEF points, in
  <2> QED  BY <1>3, <2>2, <2>3
<1> HIDE DEF points, n, m, l, in
<1>9. \A i \in 1 .. l : s[i] \in points
  BY <1>4, <1>5, <1>7
<1>10. /\ DOMAIN hits = 1 .. l
       /\ \A i \in 1 .. l : hits[i].f = s[i].f /\ hits[i].c = s[i].c
  BY <1>5
<1>11. hits \in Seq(Hit) /\ Len(hits) = l
  <2>1. \A i \in 1 .. l : hits[i] \in Hit
    BY <1>5, <1>8, <1>9 DEF Hit
  <2>2. hits = [i \in 1 .. l |-> hits[i]]
    BY <1>5
  <2> QED  BY <1>7, <2>1, <2>2
<1>12. ListOK(hits, Hit)
  BY <1>7, <1>11 DEF ListOK
<1>13. ASSUME NEW i \in DOMAIN hits, hits[i].f \in Steady(q)
       PROVE  hits[i].c = facts[hits[i].f].c
  <2> DEFINE f == s[i].f
  <2>1. /\ f \in Steady(q) /\ s[i] \in vectors /\ s[i].t = in.t
        /\ hits[i].c = s[i].c /\ hits[i].f = f
    BY <1>3, <1>9, <1>10, <1>13
  <2>2. f \in ActiveIn(facts, in.t) /\ SoundIn(facts, vectors, f)
    BY <1>2, <2>1 DEF Holds, in
  <2>3. facts[f].t = in.t
    BY <2>2 DEF ActiveIn
  <2>4. PICK v \in vectors : PointsOf(vectors, f, in.t) = {v} /\ v.c = facts[f].c
    BY <2>2, <2>3 DEF SoundIn
  <2>5. s[i] \in PointsOf(vectors, f, in.t)
    BY <2>1 DEF PointsOf
  <2> HIDE DEF f
  <2> QED  BY <2>1, <2>4, <2>5
<1>14. ASSUME FewPoints(q), NEW f \in Steady(q), TypeMatches(facts[f].c, q.in)
       PROVE  \E i \in DOMAIN hits : hits[i].f = f
  <2>1. f \in ActiveIn(facts, in.t) /\ SoundIn(facts, vectors, f)
    BY <1>2, <1>14 DEF Holds, in
  <2>2. PICK w \in vectors : PointsOf(vectors, f, facts[f].t) = {w} /\ w.c = facts[f].c
    BY <2>1 DEF SoundIn
  <2>3. w.t = in.t /\ w.c = facts[f].c /\ w.f = f
    BY <2>1, <2>2 DEF ActiveIn, PointsOf
  <2>4. w \in points
    BY <1>14, <2>2, <2>3 DEF points, PointsIn, in, Wanted
  <2>5. n <= m
    <3>1. Cardinality(q.near) <= 2 * in.limit /\ Cardinality(q.near) <= MAX_SEARCH_LIMIT
      BY <1>14 DEF FewPoints, in
    <3>2. n <= 2 * in.limit /\ n <= MAX_SEARCH_LIMIT
      BY <1>1, <1>4, <3>1 DEF MAX_SEARCH_LIMIT
    <3> QED  BY <1>4, <1>6, <3>2
  <2>6. PICK i \in 1 .. n : s[i] = w
    BY <1>4, <1>5, <2>4, SeqOfAll DEF n
  <2> QED  BY <1>7, <1>10, <2>3, <2>5, <2>6
<1> QED  BY <1>12, <1>13, <1>14

\* search_vectors.
LEMMA VectorsKeepSearches ==
  ASSUME ReadingInv, SearchInv, NEW r \in Request, Vectors(r)
  PROVE  SearchInv'
<1> DEFINE q == req[r]
<1>1. q.pc = "vectors"
  BY DEF Vectors
<1>2. q.pc # "idle"
  BY <1>1
<1>3. q = [k \in Fields |-> q[k]] /\ q.in.op \in Searches /\ q.in \in Input
  BY <1>1, <1>2, RunningGood, Where
<1>4. SearchOK(q, facts, vectors) /\ PointsOK(vectors)
  BY <1>2, <1>3 DEF SearchInv
<1>5. PICK hits \in SearchVectors(q.in) : Look(r, [q EXCEPT !.pc = "keywords", !.hits = hits])
  BY DEF Vectors
<1>6. /\ ListOK(hits, Hit)
      /\ \A i \in DOMAIN hits :
           hits[i].f \in Steady(q) => hits[i].c = facts[hits[i].f].c
      /\ FewPoints(q) =>
           \A f \in Steady(q) : TypeMatches(facts[f].c, q.in) =>
                                  \E i \in DOMAIN hits : hits[i].f = f
  BY <1>3, <1>4, HitsFound
<1> DEFINE p == [q EXCEPT !.pc = "keywords", !.hits = hits]
<1>7. /\ p.pc = "keywords" /\ p.in = q.in /\ p.hits = hits /\ p.live = q.live
      /\ p.near = q.near /\ p.touched = q.touched /\ p.sound = q.sound
  BY <1>3 DEF Fields
<1>8. Look(r, p)
  BY <1>5
<1> HIDE DEF p
<1>9. Steady(p) = Steady(q) /\ FewPoints(p) = FewPoints(q)
  BY <1>7 DEF Steady, FewPoints
<1>10. HitsOK(p, facts)
  BY <1>6, <1>7, <1>9 DEF HitsOK
<1>11. Sees(p, facts, vectors) /\ Holds(p, facts, vectors)
  BY <1>4, <1>7, <1>9 DEF SearchOK, SearchGoes, Sees, Holds
<1>12. p.in.limit \in 1 .. MAX_SEARCH_LIMIT /\ IsFiniteSet(p.near)
  BY <1>4, <1>7 DEF SearchOK, SearchGoes
<1>13. SearchOK(p, facts, vectors)
  BY <1>7, <1>10, <1>11, <1>12
     DEF SearchOK, SearchGoes, AfterVectors, AfterKeywords, AfterFetch
<1>14. InOrder(p, facts, vectors)
  BY <1>13 DEF InOrder
<1> QED  BY <1>8, <1>14, SearchLooks


\* Sorting and the end of the search, or the next row to fetch.
LEMMA FetchOrRankOK ==
  ASSUME NEW o, o = [k \in Fields |-> o[k]], NEW fs, NEW vs, Sees(o, fs, vs),
         o.in.limit \in 1 .. MAX_SEARCH_LIMIT, IsFiniteSet(o.near), Holds(o, fs, vs),
         HitsOK(o, fs), RowsOK(o, fs)
  PROVE  SearchOK(FetchOrRank(o), fs, vs)
<1> DEFINE p == FetchOrRank(o)
           results == Rank(o.hits, o.rows, o.got, o.in.limit)
<1>1. /\ p.in = o.in /\ p.hits = o.hits /\ p.rows = o.rows /\ p.todo = o.todo
      /\ p.got = o.got /\ p.live = o.live /\ p.near = o.near /\ p.touched = o.touched
      /\ p.sound = o.sound
      /\ o.todo = <<>> => p.pc \in {"done", "assemble"} /\ p.results = results
      /\ o.todo # <<>> => p.pc = "fetch"
  <2>1. CASE o.todo = <<>>
    <3>1. p = [o EXCEPT !.pc = IF o.in.op = "search" THEN "done" ELSE "assemble",
                        !.results = results]
      BY <2>1 DEF FetchOrRank, Ranked
    <3> HIDE DEF p, results
    <3> QED  BY <2>1, <3>1 DEF Fields
  <2>2. CASE o.todo # <<>>
    <3>1. p = [o EXCEPT !.pc = "fetch"]
      BY <2>2 DEF FetchOrRank
    <3> HIDE DEF p, results
    <3> QED  BY <2>2, <3>1 DEF Fields
  <2> QED  BY <2>1, <2>2
<1> HIDE DEF p
<1>2. Steady(p) = Steady(o) /\ FewPoints(p) = FewPoints(o)
  BY <1>1 DEF Steady, FewPoints
<1>3. Sees(p, fs, vs) /\ Holds(p, fs, vs)
  BY <1>1, <1>2 DEF Sees, Holds
<1>4. HitsOK(p, fs)
  BY <1>1, <1>2 DEF HitsOK
<1>5. RowsOK(p, fs)
  <2>1. /\ ListOK(o.rows, Item) /\ DistinctRows(o.got) /\ o.todo \in Seq(Id)
        /\ \A i, j \in DOMAIN o.todo : o.todo[i] = o.todo[j] => i = j
        /\ \A i \in DOMAIN o.todo : \A x \in o.got : x.f # o.todo[i]
        /\ \A x \in o.got : x.f \in o.live /\ (x.f \in Steady(o) => x.c = fs[x.f].c)
        /\ \A i \in DOMAIN o.hits : o.hits[i].f \in Steady(o) =>
             \/ \E x \in o.got : x.f = o.hits[i].f
             \/ \E j \in DOMAIN o.todo : o.todo[j] = o.hits[i].f
    BY DEF RowsOK
  <2>2. /\ ListOK(p.rows, Item) /\ DistinctRows(p.got) /\ p.todo \in Seq(Id)
        /\ \A i, j \in DOMAIN p.todo : p.todo[i] = p.todo[j] => i = j
        /\ \A i \in DOMAIN p.todo : \A x \in p.got : x.f # p.todo[i]
        /\ \A x \in p.got : x.f \in p.live /\ (x.f \in Steady(p) => x.c = fs[x.f].c)
    BY ONLY <1>1, <1>2, <2>1
  <2>3. \A i \in DOMAIN p.hits : p.hits[i].f \in Steady(p) =>
          \/ \E x \in p.got : x.f = p.hits[i].f
          \/ \E j \in DOMAIN p.todo : p.todo[j] = p.hits[i].f
    BY ONLY <1>1, <1>2, <2>1
  <2> QED  BY ONLY <2>2, <2>3 DEF RowsOK
<1>6. /\ p.pc = "fetch" => p.todo # <<>>
      /\ p.pc \in AfterFetch =>
           p.todo = <<>> /\ p.results = Rank(p.hits, p.rows, p.got, p.in.limit)
  BY <1>1 DEF AfterFetch
<1>7. SearchGoes(p, fs, vs)
  BY <1>1, <1>3, <1>4, <1>5, <1>6 DEF SearchGoes
<1> QED  BY <1>3, <1>7 DEF SearchOK, p

\* The rows among which search_facts looks.
Asks(in, g) == facts[g].c \in Match[in.q] /\ TypeMatches(facts[g].c, in)

\* The row of an active memory.
LEMMA RowIs ==
  ASSUME ReadingInv, NEW t, NEW f \in Active(t)
  PROVE  RowOf(f) \in Item /\ RowOf(f).f = f /\ RowOf(f).c = facts[f].c
<1>1. f \in Id /\ facts[f].st = "active"
  BY DEF Active, ActiveIn
<1>2. facts[f] \in Row
  BY <1>1, RowOrNot
<1>3. facts[f].c \in Content /\ facts[f].age \in Nat
  BY <1>2 DEF Row
<1> QED  BY <1>1, <1>3 DEF RowOf, Item

\* What search_facts returns: active rows, each once.
LEMMA RowsFound ==
  ASSUME ReadingInv, NEW in, in.limit \in Nat, NEW rows, rows = SearchFacts(in)
  PROVE  /\ ListOK(rows, Item) /\ DistinctRows(ToSet(rows))
         /\ \A x \in ToSet(rows) : x.f \in Active(in.t) /\ x.c = facts[x.f].c
<1> DEFINE F == {g \in Active(in.t) : Asks(in, g)}
           S == {RowOf(f) : f \in F}
           m == InternalSearchLimit(in.limit)
<1>1. rows = Newest(S, m)
  BY DEF SearchFacts, Asks
<1>2. \A f \in F : f \in Active(in.t) /\ RowOf(f) \in Item /\ RowOf(f).f = f
                   /\ RowOf(f).c = facts[f].c
  BY RowIs
<1>3. IsFiniteSet(F)
  <2>1. F \subseteq Id
    BY DEF Active, ActiveIn
  <2> QED  BY <2>1, ReadingConstants, FS_Subset
<1> HIDE DEF F
<1>4. IsFiniteSet(S)
  <2>1. [f \in F |-> RowOf(f)] \in Surjection(F, S)
    BY DEF Surjection
  <2> QED  BY <1>3, <2>1, FS_Surjection
<1>5. /\ S \subseteq Item /\ \A x, y \in S : x.f = y.f => x = y
      /\ \A x \in S : x.f \in Active(in.t) /\ x.c = facts[x.f].c
  BY <1>2
<1> HIDE DEF S
<1>6. DistinctRows(S)
  BY <1>4, <1>5 DEF DistinctRows
<1>7. m \in Nat /\ m <= MAX_SEARCH_LIMIT
  BY InternalLimit
<1> HIDE DEF m
<1>8. /\ rows \in Seq(S) /\ rows \in Seq(Item) /\ Len(rows) <= m
      /\ \A i, j \in DOMAIN rows : rows[i].f = rows[j].f => i = j
  BY <1>1, <1>6, <1>7, NewestIs
<1>9. Len(rows) <= MAX_SEARCH_LIMIT
  <2>1. Len(rows) \in Nat
    BY <1>8
  <2> QED  BY <1>7, <1>8, <2>1 DEF MAX_SEARCH_LIMIT
<1>10. ListOK(rows, Item)
  BY <1>8, <1>9 DEF ListOK
<1>11. ToSet(rows) \subseteq S
  BY <1>8 DEF ToSet
<1>12. DistinctRows(ToSet(rows))
  BY <1>4, <1>5, <1>11, FS_Subset DEF DistinctRows
<1> QED  BY <1>5, <1>10, <1>11, <1>12

\* A fact that is in the list has a row in it.
LEMMA Ranks ==
  ASSUME NEW rows, ListOK(rows, Item), NEW f
  PROVE  RankIn(rows, f) = 0 <=> \A x \in ToSet(rows) : x.f # f
<1>1. /\ RankIn(rows, f) # 0 => /\ RankIn(rows, f) \in DOMAIN rows
                                /\ rows[RankIn(rows, f)].f = f
      /\ \A i \in DOMAIN rows : rows[i].f = f => RankIn(rows, f) # 0
  BY RankIs
<1>2. 0 \notin DOMAIN rows
  BY DEF ListOK
<1>3. \A x : x \in ToSet(rows) <=> \E i \in DOMAIN rows : rows[i] = x
  BY DEF ToSet
<1> QED  BY <1>1, <1>2, <1>3

\* What is in a list.
LEMMA Listed ==
  ASSUME NEW S, NEW list, ListOK(list, S)
  PROVE  \A i \in DOMAIN list : list[i] \in S
  BY DEF ListOK

\* search_facts, and the facts that only the vector store knew.
LEMMA KeywordsKeepSearches ==
  ASSUME ReadingInv, SearchInv, NEW r \in Request, Keywords(r)
  PROVE  SearchInv'
<1> DEFINE q == req[r]
           rows == SearchFacts(q.in)
           absent == {f \in Found(q.hits, rows) : RankIn(rows, f) = 0}
           todo == ReciprocalRankFusion(absent, q.hits, rows)
           o == [q EXCEPT !.rows = rows, !.got = ToSet(rows), !.todo = todo]
<1>1. q.pc = "keywords" /\ Look(r, FetchOrRank(o))
  BY DEF Keywords
<1>2. q.pc # "idle"
  BY <1>1
<1>3. q = [k \in Fields |-> q[k]] /\ q.in.op \in Searches /\ q.in \in Input
  BY <1>1, <1>2, RunningGood, Where
<1>4. SearchOK(q, facts, vectors)
  BY <1>2, <1>3 DEF SearchInv
<1>5. /\ Sees(q, facts, vectors) /\ q.in.limit \in 1 .. MAX_SEARCH_LIMIT /\ IsFiniteSet(q.near)
      /\ Holds(q, facts, vectors) /\ HitsOK(q, facts)
  BY <1>1, <1>4 DEF SearchOK, SearchGoes, AfterVectors
<1>6. q.in.limit \in Nat
  BY <1>3, AskedQuery
<1>7. /\ ListOK(rows, Item) /\ DistinctRows(ToSet(rows))
      /\ \A x \in ToSet(rows) : x.f \in Active(q.in.t) /\ x.c = facts[x.f].c
  BY <1>6, RowsFound
<1>8. ListOK(q.hits, Hit)
  BY <1>5 DEF HitsOK
<1>9. absent \subseteq Id
  <2> HIDE DEF rows
  <2>1. \A i \in DOMAIN q.hits : q.hits[i].f \in Id
    <3>1. \A i \in DOMAIN q.hits : q.hits[i] \in Hit
      BY <1>8, Listed
    <3> QED  BY <3>1 DEF Hit
  <2>2. \A i \in DOMAIN rows : rows[i].f \in Id
    <3>1. \A i \in DOMAIN rows : rows[i] \in Item
      BY <1>7, Listed
    <3> QED  BY <3>1 DEF Item
  <2> QED  BY <2>1, <2>2 DEF Found
<1>10. /\ o = [k \in Fields |-> o[k]] /\ o.in = q.in /\ o.hits = q.hits /\ o.live = q.live
       /\ o.near = q.near /\ o.touched = q.touched /\ o.sound = q.sound
       /\ o.rows = rows /\ o.got = ToSet(rows) /\ o.todo = todo
  <2> HIDE DEF rows, todo
  <2> QED  BY <1>3 DEF Fields
<1>11. \A f : f \in absent <=> /\ \A x \in ToSet(rows) : x.f # f
                               /\ \/ \E i \in DOMAIN q.hits : q.hits[i].f = f
                                  \/ \E i \in DOMAIN rows : rows[i].f = f
  <2> HIDE DEF rows
  <2> QED  BY <1>7, Ranks DEF Found
<1>12. /\ todo \in Seq(Id)
       /\ \A i, j \in DOMAIN todo : todo[i] = todo[j] => i = j
       /\ \A i \in DOMAIN todo : todo[i] \in absent
       /\ \A f \in absent : \E i \in DOMAIN todo : todo[i] = f
  <2> HIDE DEF rows, absent
  <2> QED  BY <1>7, <1>8, <1>9, FusionIs
<1> HIDE DEF o, rows, absent, todo
<1>13. Steady(o) = Steady(q) /\ FewPoints(o) = FewPoints(q)
  BY <1>10 DEF Steady, FewPoints
<1>14. Sees(o, facts, vectors) /\ Holds(o, facts, vectors) /\ HitsOK(o, facts)
  <2>1. Sees(o, facts, vectors)
    BY <1>5, <1>10 DEF Sees
  <2>2. Holds(o, facts, vectors)
    BY <1>5, <1>10, <1>13 DEF Holds
  <2>3. HitsOK(o, facts)
    BY <1>5, <1>10, <1>13 DEF HitsOK
  <2> QED  BY <2>1, <2>2, <2>3
<1>15. RowsOK(o, facts)
  <2>1. \A x \in o.got : x.f \in o.live /\ x.c = facts[x.f].c
    BY <1>5, <1>7, <1>10 DEF Sees, Active
  <2>2. \A i \in DOMAIN o.todo : \A x \in o.got : x.f # o.todo[i]
    BY <1>10, <1>11, <1>12
  <2>3. \A i \in DOMAIN o.hits :
          \/ \E x \in o.got : x.f = o.hits[i].f
          \/ \E j \in DOMAIN o.todo : o.todo[j] = o.hits[i].f
    <3> SUFFICES ASSUME NEW i \in DOMAIN q.hits, \A x \in ToSet(rows) : x.f # q.hits[i].f
                 PROVE  \E j \in DOMAIN todo : todo[j] = q.hits[i].f
      BY <1>10
    <3>1. q.hits[i].f \in absent
      BY <1>11
    <3> QED  BY <1>12, <3>1
  <2>4. /\ ListOK(o.rows, Item) /\ DistinctRows(o.got) /\ o.todo \in Seq(Id)
        /\ \A i, j \in DOMAIN o.todo : o.todo[i] = o.todo[j] => i = j
    BY <1>7, <1>10, <1>12
  <2> QED  BY ONLY <2>1, <2>2, <2>3, <2>4 DEF RowsOK
<1>16. SearchOK(FetchOrRank(o), facts, vectors)
  BY <1>5, <1>10, <1>14, <1>15, FetchOrRankOK
<1>17. InOrder(FetchOrRank(o), facts, vectors)
  BY <1>16 DEF InOrder
<1> QED  BY <1>1, <1>17, SearchLooks

\* get_fact of the next.
LEMMA FetchKeepsSearches ==
  ASSUME ReadingInv, SearchInv, NEW r \in Request, Fetch(r)
  PROVE  SearchInv'
<1> DEFINE q == req[r]
           f == Head(q.todo)
           more == GetFact(f, q.in.t)
           rest == Tail(q.todo)
           o == [q EXCEPT !.todo = rest, !.got = @ \cup more]
<1>1. q.pc = "fetch" /\ Look(r, FetchOrRank(o))
  BY DEF Fetch
<1>2. q.pc # "idle"
  BY <1>1
<1>3. q = [k \in Fields |-> q[k]] /\ q.in.op \in Searches /\ q.in \in Input
  BY <1>1, <1>2, RunningGood, Where
<1>4. SearchOK(q, facts, vectors)
  BY <1>2, <1>3 DEF SearchInv
<1>5. /\ Sees(q, facts, vectors) /\ q.in.limit \in 1 .. MAX_SEARCH_LIMIT /\ IsFiniteSet(q.near)
      /\ Holds(q, facts, vectors) /\ HitsOK(q, facts) /\ RowsOK(q, facts) /\ q.todo # <<>>
  BY <1>1, <1>4 DEF SearchOK, SearchGoes, AfterVectors, AfterKeywords
<1>6. /\ ListOK(q.rows, Item) /\ DistinctRows(q.got) /\ q.todo \in Seq(Id)
      /\ \A i, j \in DOMAIN q.todo : q.todo[i] = q.todo[j] => i = j
      /\ \A i \in DOMAIN q.todo : \A x \in q.got : x.f # q.todo[i]
      /\ \A x \in q.got : x.f \in q.live /\ (x.f \in Steady(q) => x.c = facts[x.f].c)
      /\ \A i \in DOMAIN q.hits : q.hits[i].f \in Steady(q) =>
           \/ \E x \in q.got : x.f = q.hits[i].f
           \/ \E j \in DOMAIN q.todo : q.todo[j] = q.hits[i].f
  BY <1>5 DEF RowsOK
<1> DEFINE n == Len(q.todo)
<1>7. /\ n \in Nat /\ n > 0 /\ DOMAIN q.todo = 1 .. n /\ f = q.todo[1]
      /\ rest \in Seq(Id) /\ DOMAIN rest = 1 .. n - 1
      /\ \A i \in 1 .. n - 1 : rest[i] = q.todo[i + 1]
  <2>1. /\ rest \in Seq(Id) /\ Len(rest) = n - 1
        /\ \A i \in 1 .. n - 1 : rest[i] = q.todo[i + 1]
    BY <1>5, <1>6, HeadTailProperties
  <2>2. n \in Nat /\ n > 0 /\ DOMAIN q.todo = 1 .. n /\ f = q.todo[1]
    BY <1>5, <1>6, EmptySeq
  <2> HIDE DEF n, rest
  <2> QED  BY <2>1, <2>2
<1>8. /\ \A x \in more : x \in Item /\ x.f = f /\ x.c = facts[f].c /\ f \in Active(q.in.t)
      /\ IsFiniteSet(more) /\ \A x, y \in more : x = y
      /\ f \in Active(q.in.t) => \E x \in more : x.f = f
  <2>1. CASE f \in Active(q.in.t)
    <3>1. more = {RowOf(f)}
      BY <2>1 DEF GetFact
    <3>2. RowOf(f) \in Item /\ RowOf(f).f = f /\ RowOf(f).c = facts[f].c
      BY <2>1, RowIs
    <3> HIDE DEF more, f
    <3> QED  BY <2>1, <3>1, <3>2, FS_Singleton
  <2>2. CASE f \notin Active(q.in.t)
    <3>1. more = {}
      BY <2>2 DEF GetFact
    <3> HIDE DEF more, f
    <3> QED  BY <2>2, <3>1, FS_EmptySet
  <2> QED  BY <2>1, <2>2
<1> HIDE DEF more, rest, f, n
<1>9. /\ o = [k \in Fields |-> o[k]] /\ o.in = q.in /\ o.hits = q.hits /\ o.live = q.live
      /\ o.near = q.near /\ o.touched = q.touched /\ o.sound = q.sound
      /\ o.rows = q.rows /\ o.got = q.got \cup more /\ o.todo = rest
  BY <1>3 DEF Fields
<1> HIDE DEF o
<1>10. Steady(o) = Steady(q) /\ FewPoints(o) = FewPoints(q)
  BY <1>9 DEF Steady, FewPoints
<1>11. Sees(o, facts, vectors) /\ Holds(o, facts, vectors) /\ HitsOK(o, facts)
  <2>1. Sees(o, facts, vectors)
    BY <1>5, <1>9 DEF Sees
  <2>2. Holds(o, facts, vectors)
    BY <1>5, <1>9, <1>10 DEF Holds
  <2>3. HitsOK(o, facts)
    BY <1>5, <1>9, <1>10 DEF HitsOK
  <2> QED  BY <2>1, <2>2, <2>3
<1>12. RowsOK(o, facts)
  <2>1. DistinctRows(o.got)
    <3>1. IsFiniteSet(q.got \cup more)
      BY <1>6, <1>8, FS_Union DEF DistinctRows
    <3>2. 1 \in DOMAIN q.todo /\ f = q.todo[1]
      BY <1>7
    <3>3. \A x \in q.got : x.f # f
      BY <1>6, <3>2
    <3> QED  BY <1>6, <1>8, <1>9, <3>1, <3>3 DEF DistinctRows
  <2>2. \A x \in o.got : x.f \in o.live /\ (x.f \in Steady(o) => x.c = facts[x.f].c)
    <3>1. \A x \in more : x.f \in q.live /\ x.c = facts[x.f].c
      BY <1>5, <1>8 DEF Sees, Active
    <3> QED  BY <1>6, <1>9, <1>10, <3>1
  <2>3. /\ o.todo \in Seq(Id)
        /\ \A i, j \in DOMAIN o.todo : o.todo[i] = o.todo[j] => i = j
        /\ \A i \in DOMAIN o.todo : o.todo[i] # f /\ \A x \in q.got : x.f # o.todo[i]
    <3>1. \A i \in 1 .. n - 1 : i + 1 \in 1 .. n /\ i + 1 # 1 /\ rest[i] = q.todo[i + 1]
      BY <1>7
    <3>2. \A i, j \in 1 .. n - 1 : rest[i] = rest[j] => i = j
      <4> SUFFICES ASSUME NEW i \in 1 .. n - 1, NEW j \in 1 .. n - 1, rest[i] = rest[j]
                   PROVE  i = j
        OBVIOUS
      <4>1. q.todo[i + 1] = q.todo[j + 1] /\ i + 1 \in DOMAIN q.todo /\ j + 1 \in DOMAIN q.todo
        BY <1>7, <3>1
      <4>2. i + 1 = j + 1
        BY <1>6, <4>1
      <4> QED  BY <1>7, <4>2
    <3>3. \A i \in 1 .. n - 1 : rest[i] # f /\ \A x \in q.got : x.f # rest[i]
      <4> SUFFICES ASSUME NEW i \in 1 .. n - 1
                   PROVE  rest[i] # f /\ \A x \in q.got : x.f # rest[i]
        OBVIOUS
      <4>1. /\ i + 1 \in DOMAIN q.todo /\ 1 \in DOMAIN q.todo /\ i + 1 # 1
            /\ rest[i] = q.todo[i + 1] /\ f = q.todo[1]
        BY <1>7, <3>1
      <4> QED  BY <1>6, <4>1
    <3> QED  BY <1>7, <1>9, <3>2, <3>3
  <2>4. \A i \in DOMAIN o.todo : \A x \in o.got : x.f # o.todo[i]
    BY <1>8, <1>9, <2>3
  <2>5. ASSUME NEW i \in DOMAIN o.hits, o.hits[i].f \in Steady(o)
        PROVE  \/ \E x \in o.got : x.f = o.hits[i].f
               \/ \E j \in DOMAIN o.todo : o.todo[j] = o.hits[i].f
    <3> DEFINE g == q.hits[i].f
    <3>1. g \in Steady(q) /\ o.hits[i].f = g /\ i \in DOMAIN q.hits
      BY <1>9, <1>10, <2>5
    <3>2. CASE \E x \in q.got : x.f = g
      BY <1>9, <3>1, <3>2
    <3>3. CASE g = f
      <4>1. f \in Active(q.in.t)
        BY <1>5, <3>1, <3>3 DEF Holds, Active
      <4>2. \E x \in more : x.f = f
        BY <1>8, <4>1
      <4> QED  BY <1>9, <3>1, <3>3, <4>2
    <3>4. CASE g # f /\ \E j \in DOMAIN q.todo : q.todo[j] = g
      <4>1. PICK j \in 1 .. n : q.todo[j] = g
        BY <1>7, <3>4
      <4>2. j # 1
        BY <1>7, <3>4, <4>1
      <4>3. j - 1 \in 1 .. n - 1 /\ (j - 1) + 1 = j
        BY <1>7, <4>2
      <4>4. rest[j - 1] = g
        BY <1>7, <4>1, <4>3
      <4> QED  BY <1>7, <1>9, <3>1, <4>3, <4>4
    <3> QED  BY <1>6, <3>1, <3>2, <3>3, <3>4
  <2>6. ListOK(o.rows, Item)
    BY <1>6, <1>9
  <2>7. /\ o.todo \in Seq(Id)
        /\ \A i, j \in DOMAIN o.todo : o.todo[i] = o.todo[j] => i = j
    BY <2>3
  <2> QED  BY ONLY <2>1, <2>2, <2>4, <2>5, <2>6, <2>7 DEF RowsOK
<1>13. SearchOK(FetchOrRank(o), facts, vectors)
  BY <1>5, <1>9, <1>11, <1>12, FetchOrRankOK
<1>14. InOrder(FetchOrRank(o), facts, vectors)
  BY <1>13 DEF InOrder
<1>15. Look(r, FetchOrRank(o))
  BY <1>1 DEF o, rest, more, f
<1> QED  BY <1>14, <1>15, SearchLooks


-----------------------------------------------------------------------------
(* Searches are sound. *)

\* The invariant of searches holds at first.
LEMMA SearchStarts == Init => SearchInv
<1> SUFFICES ASSUME Init PROVE SearchInv
  OBVIOUS
<1>1. \A r \in Request : req[r].pc = "idle"
  BY DEF Init, Idle
<1>2. PointsOK(vectors)
  BY ReadingConstants DEF Init, PointsOK
<1> QED  BY <1>1, <1>2 DEF SearchInv

\* Every step keeps it.
LEMMA SearchNext == ReadingInv /\ SearchInv /\ [Next]_vars => SearchInv'
<1> SUFFICES ASSUME ReadingInv, SearchInv, [Next]_vars PROVE SearchInv'
  OBVIOUS
<1>1. ASSUME NEW r \in Request, Begin(r) PROVE SearchInv'
  BY <1>1, BeginSearchKeepsSearches, BeginKeepsSearches, RestKeepsSearches DEF Begin
<1>2. ASSUME NEW r \in Request, Advance(r) PROVE SearchInv'
  <2>1. CASE EmbedText(r) \/ SummarizeMemory(r)
    BY <2>1, CallKeepsSearches
  <2>2. CASE RecordEmbedding(r) \/ RecordSummary(r) \/ Assemble(r)
    BY <2>2, RecordKeepsSearches
  <2>3. CASE Vectors(r) \/ Keywords(r) \/ Fetch(r)
    BY <2>3, VectorsKeepSearches, KeywordsKeepSearches, FetchKeepsSearches
  <2>4. CASE WipeFacts(r) \/ WipeVectors(r) \/ InsertFact(r)
    BY <2>4, ImportKeepsSearches
  <2>5. CASE WriteRow(r) \/ Unpoint(r) \/ UpsertDelete(r) \/ UpsertPoint(r)
    BY <2>5, WriteKeepsSearches
  <2>6. CASE \/ ReadFacts(r) \/ ReadLatest(r) \/ ReadUsers(r) \/ Keep(r) \/ ReadUsage(r)
             \/ MatchExpired(r) \/ DeleteExpired(r)
    BY <2>6, AdminKeepsSearches
  <2>7. CASE Reply(r)
    BY <2>7, ReplyKeepsSearches
  <2> QED  BY <1>2, <2>1, <2>2, <2>3, <2>4, <2>5, <2>6, <2>7 DEF Advance
<1>3. ASSUME NEW r \in Request, CallErrs(r) \/ Fail(r) \/ JobOrgFails(r) PROVE SearchInv'
  BY <1>3, CallKeepsSearches, ReplyKeepsSearches, AdminKeepsSearches
<1>4. CASE \/ UNCHANGED vars \/ PersistStores \/ PersistFails
           \/ \E t \in Tenant : RefuseSearch(t)
  BY <1>4, RestKeepsSearches
<1> QED  BY <1>1, <1>2, <1>3, <1>4 DEF Next

\* A finished search is sound.
LEMMA InvSearchSound == ReadingInv /\ SearchInv => SearchSound
<1> SUFFICES ASSUME ReadingInv, SearchInv PROVE SearchSound
  OBVIOUS
<1>1. ASSUME NEW r \in Request, Finished(r, Searches)
      PROVE  /\ \A i \in DOMAIN req[r].results : req[r].results[i].f \in req[r].live
             /\ \A i \in DOMAIN req[r].results :
                  req[r].results[i].f \in req[r].sound \ req[r].touched =>
                    /\ req[r].results[i].c = facts[req[r].results[i].f].c
                    /\ req[r].results[i].ty = TypeOf[facts[req[r].results[i].f].c]
             /\ FewPoints(req[r]) /\ Len(req[r].results) < req[r].in.limit =>
                  \A f \in req[r].sound \ req[r].touched :
                    TypeMatches(facts[f].c, req[r].in) =>
                      \E i \in DOMAIN req[r].results : req[r].results[i].f = f
             /\ WellRanked(req[r].hits, req[r].rows, req[r].got, req[r].results)
  <2> DEFINE q == req[r]
             res == q.results
  <2>1. q.pc = "done" /\ q.pc # "idle" /\ q.in.op \in Searches
    BY <1>1 DEF Finished, Running
  <2>2. SearchGoes(q, facts, vectors) /\ q.in.limit \in Nat
    <3>1. q.in \in Input
      BY <2>1, RunningGood
    <3> QED  BY <2>1, <3>1, AskedQuery DEF SearchInv, SearchOK
  <2>3. /\ HitsOK(q, facts) /\ RowsOK(q, facts) /\ q.todo = <<>>
        /\ res = Rank(q.hits, q.rows, q.got, q.in.limit)
    BY <2>1, <2>2 DEF SearchGoes, AfterVectors, AfterKeywords, AfterFetch
  <2>4. /\ ListOK(q.hits, Hit)
        /\ \A i \in DOMAIN q.hits :
             q.hits[i].f \in Steady(q) => q.hits[i].c = facts[q.hits[i].f].c
        /\ FewPoints(q) =>
             \A f \in Steady(q) : TypeMatches(facts[f].c, q.in) =>
                                    \E i \in DOMAIN q.hits : q.hits[i].f = f
    BY <2>3 DEF HitsOK
  <2>5. /\ ListOK(q.rows, Item) /\ DistinctRows(q.got)
        /\ \A x \in q.got : x.f \in q.live /\ (x.f \in Steady(q) => x.c = facts[x.f].c)
        /\ \A i \in DOMAIN q.hits : q.hits[i].f \in Steady(q) =>
             \/ \E x \in q.got : x.f = q.hits[i].f
             \/ \E j \in DOMAIN q.todo : q.todo[j] = q.hits[i].f
    BY <2>3 DEF RowsOK
  <2>6. DOMAIN q.todo = {}
    BY <2>3
  <2>7. /\ \A i \in DOMAIN res : \E x \in q.got : res[i] = Result(q.hits, x)
        /\ Len(res) < q.in.limit => \A x \in q.got : \E i \in DOMAIN res : res[i].f = x.f
        /\ WellRanked(q.hits, q.rows, q.got, res)
    BY <2>2, <2>3, <2>4, <2>5, RankGives
  <2>8. ASSUME NEW i \in DOMAIN res
        PROVE  /\ res[i].f \in q.live
               /\ res[i].f \in Steady(q) =>
                    res[i].c = facts[res[i].f].c /\ res[i].ty = TypeOf[facts[res[i].f].c]
    <3>1. PICK x \in q.got : res[i] = Result(q.hits, x)
      BY <2>7
    <3> DEFINE of == HitsOf(q.hits, x.f)
               h == CHOOSE y \in of : TRUE
    <3>2. /\ res[i].f = x.f /\ res[i].ty = TypeOf[x.c]
          /\ res[i].c = IF of = {} THEN x.c ELSE h.c
      BY <3>1 DEF Result
    <3>3. of # {} => h \in of
      OBVIOUS
    <3> HIDE DEF h
    <3>4. of # {} => \E k \in DOMAIN q.hits : q.hits[k] = h /\ h.f = x.f
      BY <2>4, <3>3, HitListed
    <3> HIDE DEF of, res
    <3> QED  BY <2>4, <2>5, <3>2, <3>4
  <2>9. ASSUME FewPoints(q), Len(res) < q.in.limit, NEW f \in Steady(q),
               TypeMatches(facts[f].c, q.in)
        PROVE  \E i \in DOMAIN res : res[i].f = f
    <3>1. PICK i \in DOMAIN q.hits : q.hits[i].f = f
      BY <2>4, <2>9
    <3>2. PICK x \in q.got : x.f = f
      BY <2>5, <2>6, <2>9, <3>1
    <3> QED  BY <2>7, <2>9, <3>2
  <2> QED  BY <2>7, <2>8, <2>9 DEF Steady
<1>2. ResultsLive
  BY <1>1 DEF ResultsLive
<1>3. ResultsTrue
  BY <1>1 DEF ResultsTrue
<1>4. Recall
  BY <1>1 DEF Recall, FewPoints
<1>5. RankedWell
  BY <1>1 DEF RankedWell
<1> QED  BY <1>2, <1>3, <1>4, <1>5 DEF SearchSound

\* Whatever other requests write between the reads of a search, it shows only
\* memories of its user that were active while it ran, shows an untouched one as
\* it is, leaves none out that it was asked for when the stores could return all
\* of them, and never ranks one above another that both sources rank higher.
THEOREM SearchIsSound == Spec => []SearchSound
<1>1. Init => SearchInv
  BY SearchStarts
<1>2. ReadingInv /\ SearchInv /\ [Next]_vars => SearchInv'
  BY SearchNext
<1>3. ReadingInv /\ SearchInv => SearchSound
  BY InvSearchSound
<1> QED  BY <1>1, <1>2, <1>3, ReadingInvariant, PTL DEF Spec

=============================================================================
