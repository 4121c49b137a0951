------------------------- MODULE MemoryEngineProofs -------------------------
(***************************************************************************)
(* MemoryEngine for any number of requests, facts and failures: types,     *)
(* CacheTold and DeletedStaysDeleted from EngineInv; VectorsFollowFacts    *)
(* and NoDuplicates from HistInv.                                          *)
(***************************************************************************)
EXTENDS MemoryEngine, FiniteSetTheorems, SequenceTheorems, TLAPS

\* What an operation's record is at each statement: the items are those of its
\* kind, there is one where the statement needs it, and so is a fact.
Fits(kind, pc, todo, act, f) ==
  /\ kind = "add" => todo \in Seq([c : Content])
  /\ kind = "retain" => todo \in Seq([id : Id])
  /\ kind \in {"append", "replace"} => todo \in Seq(Exported)
  /\ act # "" => kind = "add"
  /\ pc = "idle" => kind = "add"
  /\ pc \in {"dedup", "embedding_dedup", "classify", "update_fact"} =>
       kind = "add"
  /\ pc \in {"get_fact", "soft_delete"} => kind \in {"add", "delete"}
  /\ pc \in {"count_vectors", "delete_vectors"} =>
       kind \in {"add", "delete", "retain"}
  /\ pc \in {"insert_fact", "upsert_delete", "upsert_point"} =>
       kind \in {"add", "append", "replace"}
  /\ pc \in {"select_old", "prune_old"} => kind = "retain"
  /\ pc = "import_get" => kind \in {"append", "replace"}
  /\ pc = "events" => kind \in {"retain", "append", "replace"}
  /\ pc \in {"delete_user_data", "delete_by_user"} =>
       kind \in {"forget", "replace"}
  /\ pc \in {"dedup", "embedding_dedup", "classify", "insert_fact",
             "upsert_delete", "upsert_point", "update_fact", "prune_old",
             "import_get"} => todo # <<>>
  /\ pc \in {"get_fact", "soft_delete", "count_vectors", "delete_vectors"} =>
       kind = "delete" \/ todo # <<>>
  /\ pc \in {"insert_fact", "upsert_delete", "upsert_point", "get_fact",
             "update_fact", "soft_delete", "count_vectors",
             "delete_vectors"} => f \in Id

OpOK(o) == o \in Op /\ Fits(o.kind, o.pc, o.todo, o.act, o.f)

\* A request that goes on as p has not forgotten that it must invalidate.
Remembers(o, p) == o.wrote => p.wrote /\ p.pc # "idle"

\* No request is at work in the idle record.
LEMMA IdleOK == OpOK(Idle)
BY DEF Idle, OpOK, Fits, Op, Kind, Pc

\* What the kinds of operations work through are items.
LEMMA ItemKinds ==
  /\ [c : Content] \subseteq Item /\ Exported \subseteq Item
  /\ [id : Id] \subseteq Item
BY DEF Item

\* The items at hand and still to do.
LEMMA HeadTail ==
  ASSUME NEW S, NEW s \in Seq(S), s # <<>>
  PROVE  Head(s) \in S /\ Tail(s) \in Seq(S)
OBVIOUS

\* An element of a sequence is of the sequence's set.
LEMMA Elements ==
  ASSUME NEW S, NEW s \in Seq(S), NEW i \in DOMAIN s
  PROVE  s[i] \in S
OBVIOUS

\* A function on 1..n, with n not 0, is a sequence that is not empty.
LEMMA SeqOf ==
  ASSUME NEW S, NEW n \in Nat, n # 0, NEW s \in [1..n -> S]
  PROVE  s \in Seq(S) /\ s # <<>> /\ Len(s) \in Nat
<1>1. s \in Seq(S) /\ Len(s) = n
  OBVIOUS
<1>2. QED
  BY <1>1

\* A sequence over a set is one over any larger set.
LEMMA Widen ==
  ASSUME NEW S, NEW T, S \subseteq T, NEW s \in Seq(S)
  PROVE  s \in Seq(T)
OBVIOUS

\* The fields of the idle record.
LEMMA IdleParts == Idle \in Op /\ Idle.todo = <<>> /\ Idle.act = ""
BY IdleOK DEF OpOK, Idle

\* The loop of an operation.
LEMMA TurnOK ==
  ASSUME NEW o \in Op, o.kind \in {"add", "retain", "append", "replace"},
         o.kind = "add" => o.todo \in Seq([c : Content]),
         o.kind = "retain" => o.todo \in Seq([id : Id]),
         o.kind \in {"append", "replace"} => o.todo \in Seq(Exported),
         o.act # "" => o.kind = "add"
  PROVE  OpOK(Turn(o)) /\ Remembers(o, Turn(o))
<1>1. CASE o.todo # <<>> /\ o.kind = "add"
  BY <1>1 DEF Turn, OpOK, Fits, Op, Pc, Kind, Remembers
<1>2. CASE o.todo # <<>> /\ o.kind = "retain"
  <2> DEFINE q == [o EXCEPT !.pc = "count_vectors", !.f = Head(o.todo).id]
  <2>1. Head(o.todo) \in [id : Id]
    BY <1>2, HeadTail
  <2>2. Head(o.todo).id \in Id
    BY <2>1
  <2>3. Turn(o) = q
    BY <1>2 DEF Turn
  <2>4. /\ q \in Op /\ q.kind = o.kind /\ q.pc = "count_vectors"
        /\ q.todo = o.todo /\ q.act = o.act /\ q.f = Head(o.todo).id
        /\ q.wrote = o.wrote
    BY <2>2 DEF Op, Pc
  <2> HIDE DEF q
  <2>5. OpOK(q)
    BY <1>2, <2>2, <2>4 DEF OpOK, Fits
  <2>6. QED
    BY <2>3, <2>4, <2>5 DEF Remembers
<1>3. CASE o.todo # <<>> /\ o.kind \in {"append", "replace"}
  <2> DEFINE q == [o EXCEPT !.pc = "import_get"]
  <2>1. Turn(o) = q
    BY <1>3 DEF Turn
  <2>2. /\ q \in Op /\ q.kind = o.kind /\ q.pc = "import_get"
        /\ q.todo = o.todo /\ q.act = o.act /\ q.f = o.f /\ q.wrote = o.wrote
    BY DEF Op, Pc
  <2> HIDE DEF q
  <2>3. OpOK(q)
    BY <1>3, <2>2 DEF OpOK, Fits
  <2>4. QED
    BY <2>1, <2>2, <2>3 DEF Remembers
<1>4. CASE o.todo = <<>> /\ o.kind = "add" /\ ~o.wrote
  <2>1. Turn(o) = Idle
    BY <1>4 DEF Turn
  <2>2. QED
    BY <1>4, <2>1, IdleOK DEF Remembers
<1>5. CASE o.todo = <<>> /\ ~(o.kind = "add" /\ ~o.wrote)
  <2> DEFINE pc == IF o.kind = "add" THEN "invalidate" ELSE "events"
             q == [o EXCEPT !.pc = pc]
  <2>1. Turn(o) = q
    BY <1>5 DEF Turn
  <2>2. /\ q \in Op /\ q.kind = o.kind /\ q.pc = pc
        /\ q.todo = o.todo /\ q.act = o.act /\ q.f = o.f /\ q.wrote = o.wrote
    BY DEF Op, Pc
  <2> HIDE DEF q
  <2>3. OpOK(q)
    BY <1>5, <2>2 DEF OpOK, Fits
  <2>4. QED
    BY <2>1, <2>2, <2>3 DEF Remembers
<1>6. QED
  BY <1>1, <1>2, <1>3, <1>4, <1>5

\* Going on to the next item keeps the record fit and remembers the write.
LEMMA NextItemOK ==
  ASSUME NEW o, OpOK(o), o.todo # <<>>,
         o.kind \in {"add", "retain", "append", "replace"}
  PROVE  OpOK(NextItem(o)) /\ Remembers(o, NextItem(o))
<1> DEFINE p == [o EXCEPT !.todo = Tail(@), !.act = "", !.f = NoId]
<1>1. o \in Op /\ o.todo \in Seq(Item)
  BY DEF OpOK, Op
<1>2. Tail(o.todo) \in Seq(Item)
  BY <1>1, HeadTail
<1>3. o.kind = "add" => Tail(o.todo) \in Seq([c : Content])
  BY HeadTail DEF OpOK, Fits
<1>4. o.kind = "retain" => Tail(o.todo) \in Seq([id : Id])
  BY HeadTail DEF OpOK, Fits
<1>5. o.kind \in {"append", "replace"} => Tail(o.todo) \in Seq(Exported)
  BY HeadTail DEF OpOK, Fits
<1>6. /\ p \in Op /\ p.todo = Tail(o.todo) /\ p.kind = o.kind /\ p.act = ""
      /\ p.wrote = o.wrote
  BY <1>1, <1>2 DEF Op
<1>7. NextItem(o) = Turn(p)
  BY DEF NextItem
<1> HIDE DEF p
<1>8. OpOK(Turn(p)) /\ Remembers(p, Turn(p))
  BY <1>3, <1>4, <1>5, <1>6, TurnOK
<1>9. QED
  BY <1>6, <1>7, <1>8 DEF Remembers

\* So does what follows the deletion of a fact's points.
LEMMA AfterDeleteOK ==
  ASSUME NEW o, OpOK(o), o.pc \in {"count_vectors", "delete_vectors"}
  PROVE  OpOK(AfterDelete(o)) /\ Remembers(o, AfterDelete(o))
<1>1. CASE o.kind = "delete"
  BY <1>1 DEF AfterDelete, OpOK, Fits, Op, Pc, Kind, Remembers
<1>2. CASE o.kind # "delete" /\ o.act = "update"
  BY <1>2 DEF AfterDelete, OpOK, Fits, Op, Pc, Kind, Remembers
<1>3. CASE o.kind # "delete" /\ o.act # "update"
  <2>1. AfterDelete(o) = NextItem(o)
    BY <1>3 DEF AfterDelete
  <2>2. o.todo # <<>> /\ o.kind \in {"add", "retain", "append", "replace"}
    BY <1>3 DEF OpOK, Fits, Op, Kind
  <2>3. QED
    BY <2>1, <2>2, NextItemOK
<1>4. QED
  BY <1>1, <1>2, <1>3

-----------------------------------------------------------------------------
(* One statement. *)

\* An assignment to pc.
LEMMA PcOK ==
  ASSUME NEW o, OpOK(o), NEW pc \in Pc,
         Fits(o.kind, pc, o.todo, o.act, o.f)
  PROVE  /\ OpOK([o EXCEPT !.pc = pc])
         /\ [o EXCEPT !.pc = pc].pc = pc
         /\ [o EXCEPT !.pc = pc].wrote = o.wrote
<1> DEFINE p == [o EXCEPT !.pc = pc]
<1>1. /\ p \in Op /\ p.kind = o.kind /\ p.pc = pc /\ p.todo = o.todo
      /\ p.act = o.act /\ p.f = o.f /\ p.wrote = o.wrote
  BY DEF Op, OpOK
<1> HIDE DEF p
<1>2. OpOK(p)
  BY <1>1 DEF OpOK
<1>3. QED
  BY <1>1, <1>2 DEF p

\* An assignment to wrote.
LEMMA WroteOK ==
  ASSUME NEW o, OpOK(o)
  PROVE  /\ OpOK([o EXCEPT !.wrote = TRUE])
         /\ [o EXCEPT !.wrote = TRUE].pc = o.pc
         /\ [o EXCEPT !.wrote = TRUE].wrote = TRUE
<1> DEFINE p == [o EXCEPT !.wrote = TRUE]
<1>1. /\ p \in Op /\ p.kind = o.kind /\ p.pc = o.pc /\ p.todo = o.todo
      /\ p.act = o.act /\ p.f = o.f /\ p.wrote = TRUE
  BY DEF Op, OpOK
<1> HIDE DEF p
<1>2. OpOK(p)
  BY <1>1 DEF OpOK
<1>3. QED
  BY <1>1, <1>2 DEF p

TableOK(table) == table \in [Id -> {NoFact} \cup Fact]

BoundsOK ==
  newId \in Nat /\ work \in 0..MaxWork /\ faults \in 0..MaxFaults

\* The inductive invariant.
EngineInv ==
  /\ TableOK(facts)
  /\ vectors \subseteq Vector
  /\ op \in [Request -> Op] /\ \A r \in Request : OpOK(op[r])
  /\ BoundsOK
  /\ stale \in BOOLEAN /\ excused \in BOOLEAN
  /\ tainted \subseteq Id /\ shared \subseteq Content
  /\ CacheTold

\* The history variables stay within their types.
LEMMA NotedOK ==
  ASSUME EngineInv, NEW S \in SUBSET Id, Noted(S)
  PROVE  tainted' \subseteq Id /\ shared' \subseteq Content
BY DEF EngineInv, Noted, Clashing, Contested

\* A request goes on as p.
LEMMA MoveOK ==
  ASSUME EngineInv, NEW r \in Request, NEW p, OpOK(p),
         op' = [op EXCEPT ![r] = p]
  PROVE  /\ op' \in [Request -> Op] /\ \A q \in Request : OpOK(op'[q])
         /\ op'[r] = p
         /\ \A q \in Request \ {r} : op'[q] = op[q]
<1>1. op \in [Request -> Op] /\ \A q \in Request : OpOK(op[q])
  BY DEF EngineInv
<1>2. p \in Op
  BY DEF OpOK
<1>3. /\ op' \in [Request -> Op] /\ op'[r] = p
      /\ \A q \in Request \ {r} : op'[q] = op[q]
  BY <1>1, <1>2
<1>4. QED
  BY <1>1, <1>3

\* The cache hears of a change as long as a request remembers it.
LEMMA ToldOK ==
  ASSUME EngineInv, NEW r \in Request, NEW p, OpOK(p),
         op' = [op EXCEPT ![r] = p], Remembers(op[r], p),
         UNCHANGED <<stale, excused>>
  PROVE  CacheTold'
<1>1. /\ op'[r] = p
      /\ \A q \in Request \ {r} : op'[q] = op[q]
  BY MoveOK
<1>2. SUFFICES ASSUME stale, ~excused
               PROVE  \E q \in Request : op'[q].pc # "idle" /\ op'[q].wrote
  BY DEF CacheTold, Running
<1>3. PICK q \in Request : op[q].pc # "idle" /\ op[q].wrote
  BY <1>2 DEF EngineInv, CacheTold, Running
<1>4. op'[q].pc # "idle" /\ op'[q].wrote
  BY <1>1, <1>3 DEF Remembers
<1>5. QED
  BY <1>4

\* A step that leaves the table and the history alone keeps EngineInv.
LEMMA QuietOK ==
  ASSUME EngineInv, NEW r \in Request, NEW p, OpOK(p),
         op' = [op EXCEPT ![r] = p], Remembers(op[r], p),
         vectors' \subseteq Vector, Quiet
  PROVE  EngineInv'
<1>1. /\ facts' = facts /\ UNCHANGED <<newId, work, faults>>
      /\ UNCHANGED <<stale, excused>> /\ Noted({})
  BY DEF Quiet, boundVars, cacheVars
<1>2. tainted' \subseteq Id /\ shared' \subseteq Content
  BY <1>1, NotedOK
<1>3. op' \in [Request -> Op] /\ \A q \in Request : OpOK(op'[q])
  BY MoveOK
<1>4. CacheTold'
  BY <1>1, ToldOK
<1>5. QED
  BY <1>1, <1>2, <1>3, <1>4 DEF EngineInv, TableOK, BoundsOK

\* A statement that writes the fact table keeps EngineInv.
LEMMA ChangeOK ==
  ASSUME EngineInv, NEW r \in Request, NEW table, TableOK(table),
         NEW o, OpOK(o), o.pc # "idle", Change(r, table, o)
  PROVE  EngineInv'
<1> DEFINE p == [o EXCEPT !.wrote = TRUE]
<1>1. /\ facts' = table /\ UNCHANGED <<vectors, newId, work, faults, excused>>
      /\ stale' = TRUE /\ Noted({}) /\ op' = [op EXCEPT ![r] = p]
  BY DEF Change, boundVars
<1>2. OpOK(p) /\ p.pc # "idle" /\ p.wrote
  BY WroteOK
<1> HIDE DEF p
<1>3. tainted' \subseteq Id /\ shared' \subseteq Content
  BY <1>1, NotedOK
<1>4. /\ op' \in [Request -> Op] /\ \A q \in Request : OpOK(op'[q])
      /\ op'[r] = p
  BY <1>1, <1>2, MoveOK
<1>5. CacheTold'
  BY <1>2, <1>4 DEF CacheTold, Running
<1>6. QED
  BY <1>1, <1>3, <1>4, <1>5 DEF EngineInv, TableOK, BoundsOK

\* A request ends before the invalidation.
LEMMA LeaveOK ==
  ASSUME EngineInv, NEW r \in Request, op' = [op EXCEPT ![r] = Idle],
         excused' = (excused \/ op[r].wrote), UNCHANGED stale
  PROVE  CacheTold' /\ excused' \in BOOLEAN
<1>1. /\ op'[r] = Idle
      /\ \A q \in Request \ {r} : op'[q] = op[q]
  BY MoveOK, IdleOK
<1>2. excused \in BOOLEAN /\ op[r].wrote \in BOOLEAN
  BY DEF EngineInv, OpOK, Op
<1>3. SUFFICES ASSUME stale, ~excused'
               PROVE  \E q \in Request : op'[q].pc # "idle" /\ op'[q].wrote
  BY <1>2 DEF CacheTold, Running
<1>4. ~excused /\ ~op[r].wrote
  BY <1>2, <1>3
<1>5. PICK q \in Request : op[q].pc # "idle" /\ op[q].wrote
  BY <1>3, <1>4 DEF EngineInv, CacheTold, Running
<1>6. op'[q].pc # "idle" /\ op'[q].wrote
  BY <1>1, <1>4, <1>5
<1>7. QED
  BY <1>6

\* A request that ends with an error keeps EngineInv.
LEMMA ErrOK ==
  ASSUME EngineInv, NEW r \in Request, Err(r)
  PROVE  EngineInv'
<1>1. /\ UNCHANGED <<facts, vectors, newId, work, faults, stale>>
      /\ Noted({}) /\ op' = [op EXCEPT ![r] = Idle]
      /\ excused' = (excused \/ op[r].wrote)
  BY DEF Err, storeVars, boundVars
<1>2. tainted' \subseteq Id /\ shared' \subseteq Content
  BY <1>1, NotedOK
<1>3. op' \in [Request -> Op] /\ \A q \in Request : OpOK(op'[q])
  BY <1>1, MoveOK, IdleOK
<1>4. CacheTold' /\ excused' \in BOOLEAN
  BY <1>1, LeaveOK
<1>5. QED
  BY <1>1, <1>2, <1>3, <1>4 DEF EngineInv, TableOK, BoundsOK

\* A request that arrives keeps EngineInv.
LEMMA BeginOK ==
  ASSUME EngineInv, NEW r \in Request, NEW cost \in Nat,
         NEW o, OpOK(o), Begin(r, cost, o)
  PROVE  EngineInv'
<1>1. /\ UNCHANGED <<facts, vectors, newId, faults>>
      /\ UNCHANGED <<stale, excused>>
      /\ Noted({}) /\ op' = [op EXCEPT ![r] = o]
      /\ work + cost <= MaxWork /\ work' = work + cost
      /\ op[r].pc = "idle"
  BY DEF Begin, storeVars, cacheVars, Running
<1>2. tainted' \subseteq Id /\ shared' \subseteq Content
  BY <1>1, NotedOK
<1>3. /\ op' \in [Request -> Op] /\ \A q \in Request : OpOK(op'[q])
      /\ \A q \in Request \ {r} : op'[q] = op[q]
  BY <1>1, MoveOK
<1>4. CacheTold'
  BY <1>1, <1>3 DEF EngineInv, CacheTold, Running
<1>5. work' \in 0..MaxWork
  BY <1>1, EngineConstants DEF EngineInv, BoundsOK
<1>6. QED
  BY <1>1, <1>2, <1>3, <1>4, <1>5 DEF EngineInv, TableOK, BoundsOK

-----------------------------------------------------------------------------
(* The operations begin. *)

\* The items a request may bring are a sequence that is not empty.
LEMMA ItemsOK ==
  ASSUME NEW S, NEW todo \in Items(S)
  PROVE  todo \in Seq(S) /\ todo # <<>> /\ Len(todo) \in Nat
<1>1. PICK n \in 1..MaxItems : todo \in [1..n -> S]
  BY DEF Items
<1>2. n \in Nat /\ n # 0
  BY <1>1, EngineConstants
<1>3. QED
  BY <1>1, <1>2, SeqOf

\* The entry of each writing operation of the engine keeps EngineInv.
LEMMA BeginsOK ==
  ASSUME EngineInv, NEW r \in Request,
         \/ AddMemory(r) \/ DeleteMemory(r) \/ ApplyRetention(r)
         \/ ForgetUser(r) \/ ImportUserData(r)
  PROVE  EngineInv'
<1>1. CASE AddMemory(r)
  <2>1. PICK todo \in Items([c : Content]) :
               Begin(r, Len(todo), Turn([Idle EXCEPT !.todo = todo]))
    BY <1>1 DEF AddMemory
  <2> DEFINE o == [Idle EXCEPT !.todo = todo]
  <2>2. todo \in Seq([c : Content]) /\ Len(todo) \in Nat
    BY ItemsOK
  <2>3. todo \in Seq(Item)
    BY <2>2, ItemKinds, Widen
  <2>4. o \in Op /\ o.kind = "add" /\ o.todo = todo /\ o.act = ""
    BY <2>3 DEF Idle, Op, Kind, Pc
  <2> HIDE DEF o
  <2>5. OpOK(Turn(o))
    BY <2>2, <2>4, TurnOK
  <2>6. QED
    BY <2>1, <2>2, <2>5, BeginOK DEF o
<1>2. CASE DeleteMemory(r)
  <2>1. PICK f \in Id :
          Begin(r, 1, [Idle EXCEPT !.kind = "delete", !.pc = "get_fact",
                                   !.f = f])
    BY <1>2 DEF DeleteMemory
  <2> DEFINE o == [Idle EXCEPT !.kind = "delete", !.pc = "get_fact", !.f = f]
  <2>2. /\ o \in Op /\ o.kind = "delete" /\ o.pc = "get_fact" /\ o.f = f
        /\ o.act = ""
    BY IdleParts DEF Op, Kind, Pc
  <2> HIDE DEF o
  <2>3. OpOK(o)
    BY <2>2 DEF OpOK, Fits
  <2>4. QED
    BY <2>1, <2>3, BeginOK DEF o
<1>3. CASE ApplyRetention(r)
  <2> DEFINE o == [Idle EXCEPT !.kind = "retain", !.pc = "select_old"]
  <2>1. /\ o \in Op /\ o.kind = "retain" /\ o.pc = "select_old"
        /\ o.todo = <<>> /\ o.act = ""
    BY IdleParts DEF Op, Kind, Pc
  <2>2. Begin(r, 1, o)
    BY <1>3 DEF ApplyRetention
  <2> HIDE DEF o
  <2>3. o.todo \in Seq([id : Id])
    BY <2>1, EmptySeq, Zenon
  <2>4. OpOK(o)
    BY <2>1, <2>3 DEF OpOK, Fits
  <2>5. QED
    BY <2>2, <2>4, BeginOK
<1>4. CASE ForgetUser(r)
  <2> DEFINE o == [Idle EXCEPT !.kind = "forget", !.pc = "delete_user_data"]
  <2>1. /\ o \in Op /\ o.kind = "forget" /\ o.pc = "delete_user_data"
        /\ o.act = ""
    BY IdleParts DEF Op, Kind, Pc
  <2>2. Begin(r, 1, o)
    BY <1>4 DEF ForgetUser
  <2> HIDE DEF o
  <2>3. OpOK(o)
    BY <2>1 DEF OpOK, Fits
  <2>4. QED
    BY <2>2, <2>3, BeginOK
<1>5. CASE ImportUserData(r)
  <2>1. PICK todo \in Items(Exported) :
          \/ Begin(r, Len(todo), [Idle EXCEPT !.kind = "replace", !.todo = todo,
                                              !.pc = "delete_user_data"])
          \/ Begin(r, Len(todo),
                   Turn([Idle EXCEPT !.kind = "append", !.todo = todo]))
    BY <1>5 DEF ImportUserData
  <2> DEFINE o == [Idle EXCEPT !.kind = "replace", !.todo = todo,
                               !.pc = "delete_user_data"]
             p == [Idle EXCEPT !.kind = "append", !.todo = todo]
  <2>2. todo \in Seq(Exported) /\ Len(todo) \in Nat
    BY ItemsOK
  <2>3. todo \in Seq(Item)
    BY <2>2, ItemKinds, Widen
  <2>4. /\ o \in Op /\ o.kind = "replace" /\ o.pc = "delete_user_data"
        /\ o.todo = todo /\ o.act = ""
    BY <2>3 DEF Idle, Op, Kind, Pc
  <2>5. p \in Op /\ p.kind = "append" /\ p.todo = todo /\ p.act = ""
    BY <2>3 DEF Idle, Op, Kind, Pc
  <2>6. Begin(r, Len(todo), o) \/ Begin(r, Len(todo), Turn(p))
    BY <2>1
  <2> HIDE DEF o, p
  <2>7. OpOK(o)
    BY <2>2, <2>4 DEF OpOK, Fits
  <2>8. OpOK(Turn(p))
    BY <2>2, <2>5, TurnOK
  <2>9. QED
    BY <2>2, <2>6, <2>7, <2>8, BeginOK
<1>6. QED
  BY <1>1, <1>2, <1>3, <1>4, <1>5

-----------------------------------------------------------------------------
(* add_memory: one candidate. *)

\* A statement that moves pc.
LEMMA ToOK ==
  ASSUME EngineInv, NEW r \in Request, NEW pc \in Pc \ {"idle"}, To(r, pc),
         Fits(op[r].kind, pc, op[r].todo, op[r].act, op[r].f)
  PROVE  \E p : /\ OpOK(p) /\ op' = [op EXCEPT ![r] = p]
                /\ Remembers(op[r], p)
<1> DEFINE p == [op[r] EXCEPT !.pc = pc]
<1>1. OpOK(op[r]) /\ op \in [Request -> Op]
  BY DEF EngineInv
<1>2. OpOK(p) /\ p.pc = pc /\ p.wrote = op[r].wrote
  BY <1>1, PcOK
<1>3. op' = [op EXCEPT ![r] = p]
  BY <1>1 DEF To
<1> HIDE DEF p
<1>4. QED
  BY <1>2, <1>3 DEF Remembers

\* It is done with an item.
LEMMA NextItemStepOK ==
  ASSUME EngineInv, NEW r \in Request, op[r].todo # <<>>,
         op[r].kind \in {"add", "retain", "append", "replace"},
         op' = [op EXCEPT ![r] = NextItem(@)]
  PROVE  \E p : /\ OpOK(p) /\ op' = [op EXCEPT ![r] = p]
                /\ Remembers(op[r], p)
<1>1. OpOK(op[r])
  BY DEF EngineInv
<1>2. OpOK(NextItem(op[r])) /\ Remembers(op[r], NextItem(op[r]))
  BY <1>1, NextItemOK
<1>3. op' = [op EXCEPT ![r] = NextItem(op[r])]
  OBVIOUS
<1>4. QED
  BY <1>2, <1>3

\* Both deduplication lookups of add_memory keep EngineInv.
LEMMA DedupOK ==
  ASSUME EngineInv, NEW r \in Request, Dedup(r) \/ EmbeddingDedup(r)
  PROVE  EngineInv'
<1>1. /\ Quiet /\ vectors' \subseteq Vector
      /\ op[r].pc \in {"dedup", "embedding_dedup"}
      /\ \/ op' = [op EXCEPT ![r] = NextItem(@)]
         \/ To(r, "embedding_dedup")
         \/ To(r, "classify")
  BY DEF Dedup, EmbeddingDedup, EngineInv
<1>2. OpOK(op[r])
  BY DEF EngineInv
<1>3. op[r].kind = "add" /\ op[r].todo # <<>>
  BY <1>1, <1>2 DEF OpOK, Fits
<1>4. /\ Fits(op[r].kind, "embedding_dedup", op[r].todo, op[r].act, op[r].f)
      /\ Fits(op[r].kind, "classify", op[r].todo, op[r].act, op[r].f)
  BY <1>2, <1>3 DEF OpOK, Fits
<1>5. {"embedding_dedup", "classify"} \subseteq Pc \ {"idle"}
  BY DEF Pc
<1>6. PICK p : /\ OpOK(p) /\ op' = [op EXCEPT ![r] = p]
               /\ Remembers(op[r], p)
  <2>1. CASE op' = [op EXCEPT ![r] = NextItem(@)]
    BY <1>3, <2>1, NextItemStepOK
  <2>2. CASE To(r, "embedding_dedup") \/ To(r, "classify")
    BY <1>4, <1>5, <2>2, ToOK
  <2>3. QED
    BY <1>1, <2>1, <2>2
<1>7. QED
  BY <1>1, <1>6, QuietOK

\* apply_fact_operation.
LEMMA ApplyOK ==
  ASSUME EngineInv, NEW r \in Request, op[r].pc = "classify",
         NEW act \in {"add", "update", "delete"}, NEW f \in Id,
         ApplyFactOperation(r, act, f)
  PROVE  \E p : /\ OpOK(p) /\ op' = [op EXCEPT ![r] = p]
                /\ Remembers(op[r], p)
<1> DEFINE pc == IF act = "add" THEN "insert_fact" ELSE "get_fact"
           p == [op[r] EXCEPT !.pc = pc, !.act = act, !.f = f]
<1>1. OpOK(op[r]) /\ op[r] \in Op /\ op \in [Request -> Op]
  BY DEF EngineInv, OpOK
<1>2. op' = [op EXCEPT ![r] = p]
  BY <1>1 DEF ApplyFactOperation
<1>3. /\ p \in Op /\ p.kind = op[r].kind /\ p.pc = pc /\ p.todo = op[r].todo
      /\ p.act = act /\ p.f = f /\ p.wrote = op[r].wrote
  BY <1>1 DEF Op, Pc
<1> HIDE DEF p
<1>4. OpOK(p)
  BY <1>1, <1>3 DEF OpOK, Fits
<1>5. QED
  BY <1>2, <1>3, <1>4 DEF Remembers

\* The classifier's decision keeps EngineInv.
LEMMA ClassifyOK ==
  ASSUME EngineInv, NEW r \in Request, Classify(r)
  PROVE  EngineInv'
<1>1. /\ op[r].pc = "classify" /\ OpOK(op[r]) /\ newId \in Nat
      /\ UNCHANGED <<facts, vectors, work, faults, stale, excused>>
      /\ Noted({})
  BY DEF Classify, storeVars, cacheVars, EngineInv, BoundsOK
<1>2. op[r].kind = "add" /\ op[r].todo # <<>>
  BY <1>1 DEF OpOK, Fits
<1>3. /\ newId' \in Nat
      /\ \E p : /\ OpOK(p) /\ op' = [op EXCEPT ![r] = p]
                /\ Remembers(op[r], p)
  <2>1. CASE op' = [op EXCEPT ![r] = NextItem(@)] /\ UNCHANGED newId
    BY <1>1, <1>2, <2>1, NextItemStepOK
  <2>2. CASE newId \in Id /\ ApplyFactOperation(r, "add", newId)
                          /\ newId' = newId + 1
    <3>1. newId' \in Nat
      BY <1>1, <2>2
    <3>2. QED
      BY <1>1, <2>2, <3>1, ApplyOK
  <2>3. CASE \E f \in Id, act \in {"update", "delete"} :
               /\ f < newId
               /\ ApplyFactOperation(r, act, f)
               /\ UNCHANGED newId
    BY <1>1, <2>3, ApplyOK
  <2>4. QED
    BY <2>1, <2>2, <2>3 DEF Classify
<1>4. PICK p : /\ OpOK(p) /\ op' = [op EXCEPT ![r] = p]
               /\ Remembers(op[r], p)
  BY <1>3
<1>5. tainted' \subseteq Id /\ shared' \subseteq Content
  BY <1>1, NotedOK
<1>6. op' \in [Request -> Op] /\ \A q \in Request : OpOK(op'[q])
  BY <1>4, MoveOK
<1>7. CacheTold'
  BY <1>1, <1>4, ToldOK
<1>8. QED
  BY <1>1, <1>3, <1>5, <1>6, <1>7 DEF EngineInv, TableOK, BoundsOK

-----------------------------------------------------------------------------
(* The statements of the fact store. *)

\* An active id has a row.
LEMMA ActiveFact ==
  ASSUME TableOK(facts), NEW f \in Id, Active(f)
  PROVE  facts[f] \in Fact
BY DEF TableOK, Active, NoFact

\* The item at hand has a content; that of an import is an exported fact.
LEMMA ContentOfItem ==
  ASSUME NEW o, OpOK(o), o.todo # <<>>,
         o.kind \in {"add", "append", "replace"}
  PROVE  /\ Head(o.todo).c \in Content
         /\ o.kind # "add" => Head(o.todo) \in Exported
<1>1. CASE o.kind = "add"
  <2>1. Head(o.todo) \in [c : Content]
    BY <1>1, HeadTail DEF OpOK, Fits
  <2>2. QED
    BY <1>1, <2>1
<1>2. CASE o.kind # "add"
  <2>1. Head(o.todo) \in Exported
    BY <1>2, HeadTail DEF OpOK, Fits
  <2>2. Head(o.todo) \in [id : {f \in Id : f < NewId}, c : Content,
                          old : BOOLEAN]
    BY <2>1, EngineConstants
  <2>3. QED
    BY <2>1, <2>2
<1>3. QED
  BY <1>1, <1>2

\* get_fact of an update or a delete keeps EngineInv.
LEMMA GetFactOK ==
  ASSUME EngineInv, NEW r \in Request, GetFact(r)
  PROVE  EngineInv'
<1>1. CASE ~Active(op[r].f)
  BY <1>1, ErrOK DEF GetFact
<1>2. CASE Active(op[r].f)
  <2> DEFINE pc == IF op[r].act = "update" THEN "update_fact"
                                           ELSE "soft_delete"
  <2>1. /\ op[r].pc = "get_fact" /\ To(r, pc) /\ UNCHANGED vectors /\ Quiet
    BY <1>2 DEF GetFact
  <2>2. OpOK(op[r]) /\ vectors' \subseteq Vector
    BY <2>1 DEF EngineInv
  <2>3. Fits(op[r].kind, pc, op[r].todo, op[r].act, op[r].f)
    BY <2>1, <2>2 DEF OpOK, Fits
  <2>4. pc \in Pc \ {"idle"}
    BY DEF Pc
  <2> HIDE DEF pc
  <2>5. QED
    BY <2>1, <2>2, <2>3, <2>4, ToOK, QuietOK
<1>3. QED
  BY <1>1, <1>2

\* A fact's row is written and pc moves.
LEMMA RowOK ==
  ASSUME EngineInv, NEW r \in Request, NEW table, TableOK(table),
         NEW pc \in Pc \ {"idle"},
         Fits(op[r].kind, pc, op[r].todo, op[r].act, op[r].f),
         Change(r, table, [op[r] EXCEPT !.pc = pc])
  PROVE  EngineInv'
<1> DEFINE p == [op[r] EXCEPT !.pc = pc]
<1>1. OpOK(op[r])
  BY DEF EngineInv
<1>2. OpOK(p) /\ p.pc = pc
  BY <1>1, PcOK
<1> HIDE DEF p
<1>3. QED
  BY <1>2, ChangeOK DEF p

\* update_fact keeps EngineInv.
LEMMA UpdateFactOK ==
  ASSUME EngineInv, NEW r \in Request, UpdateFact(r)
  PROVE  EngineInv'
<1>1. CASE ~Active(op[r].f)
  BY <1>1, ErrOK DEF UpdateFact
<1>2. CASE Active(op[r].f)
  <2> DEFINE fact == MergeCandidateIntoFact(facts[op[r].f], Head(op[r].todo))
             table == [facts EXCEPT ![op[r].f] = fact]
  <2>1. /\ op[r].pc = "update_fact"
        /\ Change(r, table, [op[r] EXCEPT !.pc = "count_vectors"])
    BY <1>2 DEF UpdateFact
  <2>2. TableOK(facts) /\ OpOK(op[r])
    BY DEF EngineInv
  <2>3. /\ op[r].f \in Id /\ op[r].kind = "add" /\ op[r].todo # <<>>
        /\ Fits(op[r].kind, "count_vectors", op[r].todo, op[r].act, op[r].f)
    BY <2>1, <2>2 DEF OpOK, Fits
  <2>4. facts[op[r].f] \in Fact /\ Head(op[r].todo).c \in Content
    BY <1>2, <2>2, <2>3, ActiveFact, ContentOfItem
  <2>5. fact \in Fact
    BY <2>4 DEF MergeCandidateIntoFact, Fact
  <2> HIDE DEF fact
  <2>6. TableOK(table)
    BY <2>2, <2>3, <2>5 DEF TableOK
  <2> HIDE DEF table
  <2>7. "count_vectors" \in Pc \ {"idle"}
    BY DEF Pc
  <2>8. QED
    BY <2>1, <2>3, <2>6, <2>7, RowOK
<1>3. QED
  BY <1>1, <1>2

\* soft_delete_fact keeps EngineInv.
LEMMA SoftDeleteOK ==
  ASSUME EngineInv, NEW r \in Request, SoftDelete(r)
  PROVE  EngineInv'
<1>1. CASE ~Active(op[r].f)
  BY <1>1, ErrOK DEF SoftDelete
<1>2. CASE Active(op[r].f)
  <2> DEFINE table == [facts EXCEPT ![op[r].f].st = "deleted"]
             fact == [facts[op[r].f] EXCEPT !.st = "deleted"]
  <2>1. /\ op[r].pc = "soft_delete"
        /\ Change(r, table, [op[r] EXCEPT !.pc = "count_vectors"])
    BY <1>2 DEF SoftDelete
  <2>2. TableOK(facts) /\ OpOK(op[r])
    BY DEF EngineInv
  <2>3. /\ op[r].f \in Id
        /\ Fits(op[r].kind, "count_vectors", op[r].todo, op[r].act, op[r].f)
    BY <2>1, <2>2 DEF OpOK, Fits
  <2>4. facts[op[r].f] \in Fact
    BY <1>2, <2>2, <2>3, ActiveFact
  <2>5. fact \in Fact
    BY <2>4 DEF Fact
  <2>6. table = [facts EXCEPT ![op[r].f] = fact]
    BY <2>2, <2>3 DEF TableOK
  <2> HIDE DEF table, fact
  <2>7. TableOK(table)
    BY <2>2, <2>3, <2>5, <2>6 DEF TableOK
  <2>8. "count_vectors" \in Pc \ {"idle"}
    BY DEF Pc
  <2>9. QED
    BY <2>1, <2>3, <2>7, <2>8, RowOK
<1>3. QED
  BY <1>1, <1>2

\* insert_fact keeps EngineInv.
LEMMA InsertFactOK ==
  ASSUME EngineInv, NEW r \in Request, InsertFact(r)
  PROVE  EngineInv'
<1>1. CASE facts[op[r].f] # NoFact
  BY <1>1, ErrOK DEF InsertFact
<1>2. CASE facts[op[r].f] = NoFact
  <2> DEFINE fact == IF op[r].kind = "add"
                     THEN CandidateToFact(Head(op[r].todo))
                     ELSE FactForImport(Head(op[r].todo))
             table == [facts EXCEPT ![op[r].f] = fact]
  <2>1. /\ op[r].pc = "insert_fact"
        /\ Change(r, table, [op[r] EXCEPT !.pc = "upsert_delete"])
    BY <1>2 DEF InsertFact
  <2>2. TableOK(facts) /\ OpOK(op[r])
    BY DEF EngineInv
  <2>3. /\ op[r].f \in Id /\ op[r].kind \in {"add", "append", "replace"}
        /\ op[r].todo # <<>>
        /\ Fits(op[r].kind, "upsert_delete", op[r].todo, op[r].act, op[r].f)
    BY <2>1, <2>2 DEF OpOK, Fits
  <2>4. /\ Head(op[r].todo).c \in Content
        /\ op[r].kind # "add" => Head(op[r].todo).old \in BOOLEAN
    BY <2>2, <2>3, ContentOfItem, EngineConstants
  <2>5. fact \in Fact
    BY <2>4 DEF CandidateToFact, FactForImport, Fact
  <2> HIDE DEF fact
  <2>6. TableOK(table)
    BY <2>2, <2>3, <2>5 DEF TableOK
  <2> HIDE DEF table
  <2>7. "upsert_delete" \in Pc \ {"idle"}
    BY DEF Pc
  <2>8. QED
    BY <2>1, <2>3, <2>6, <2>7, RowOK
<1>3. QED
  BY <1>1, <1>2

\* delete_user_data keeps EngineInv.
LEMMA DeleteUserDataOK ==
  ASSUME EngineInv, NEW r \in Request, DeleteUserData(r)
  PROVE  EngineInv'
<1>1. /\ op[r].pc = "delete_user_data" /\ OpOK(op[r])
      /\ Change(r, [f \in Id |-> NoFact],
                [op[r] EXCEPT !.pc = "delete_by_user"])
  BY DEF DeleteUserData, EngineInv
<1>2. Fits(op[r].kind, "delete_by_user", op[r].todo, op[r].act, op[r].f)
  BY <1>1 DEF OpOK, Fits
<1>3. TableOK([f \in Id |-> NoFact])
  BY DEF TableOK
<1>4. "delete_by_user" \in Pc \ {"idle"}
  BY DEF Pc
<1>5. QED
  BY <1>1, <1>2, <1>3, <1>4, RowOK

\* The selection of the facts that retention prunes keeps EngineInv.
LEMMA SelectOldOK ==
  ASSUME EngineInv, NEW r \in Request, SelectOld(r)
  PROVE  EngineInv'
<1> DEFINE ids == {f \in Id : Active(f) /\ facts[f].old}
<1>1. /\ op[r].pc = "select_old" /\ UNCHANGED vectors /\ Quiet
      /\ IF ids = {}
         THEN To(r, "events")
         ELSE \E s \in [1..Cardinality(ids) -> ids] :
                op' = [op EXCEPT ![r].pc = "prune_old",
                                 ![r].todo = [i \in DOMAIN s |-> [id |-> s[i]]]]
  BY DEF SelectOld
<1>2. /\ OpOK(op[r]) /\ op[r] \in Op /\ op \in [Request -> Op]
      /\ vectors' \subseteq Vector
  BY <1>1 DEF EngineInv, OpOK
<1>3. op[r].kind = "retain"
  BY <1>1, <1>2 DEF OpOK, Fits
<1>4. ids \subseteq Id
  OBVIOUS
<1> HIDE DEF ids
<1>5. CASE ids = {}
  <2>1. Fits(op[r].kind, "events", op[r].todo, op[r].act, op[r].f)
    BY <1>2, <1>3 DEF OpOK, Fits
  <2>2. "events" \in Pc \ {"idle"}
    BY DEF Pc
  <2>3. QED
    BY <1>1, <1>2, <1>5, <2>1, <2>2, ToOK, QuietOK
<1>6. CASE ids # {}
  <2>1. IsFiniteSet(ids)
    BY <1>4, EngineConstants, FS_Subset
  <2>2. Cardinality(ids) \in Nat /\ Cardinality(ids) # 0
    BY <1>6, <2>1, FS_CardinalityType, FS_EmptySet
  <2>3. PICK s \in [1..Cardinality(ids) -> ids] :
          op' = [op EXCEPT ![r].pc = "prune_old",
                           ![r].todo = [i \in DOMAIN s |-> [id |-> s[i]]]]
    BY <1>1, <1>6
  <2> DEFINE n == Cardinality(ids)
             todo == [i \in DOMAIN s |-> [id |-> s[i]]]
             p == [op[r] EXCEPT !.pc = "prune_old", !.todo = todo]
  <2>4. op' = [op EXCEPT ![r] = p]
    BY <1>2, <2>3
  <2>5. todo \in [1..n -> [id : Id]]
    BY <1>4
  <2> HIDE DEF todo
  <2>6. todo \in Seq([id : Id]) /\ todo # <<>>
    BY <2>2, <2>5, SeqOf
  <2>7. todo \in Seq(Item)
    BY <2>6, ItemKinds, Widen
  <2>8. /\ p \in Op /\ p.kind = op[r].kind /\ p.pc = "prune_old"
        /\ p.todo = todo /\ p.act = op[r].act /\ p.f = op[r].f
        /\ p.wrote = op[r].wrote
    BY <1>2, <2>7 DEF Op, Pc
  <2> HIDE DEF p
  <2>9. OpOK(p) /\ Remembers(op[r], p)
    BY <1>2, <1>3, <2>6, <2>8 DEF OpOK, Fits, Remembers
  <2>10. QED
    BY <1>1, <1>2, <2>4, <2>9, QuietOK
<1>7. QED
  BY <1>5, <1>6

\* The statement that prunes them keeps EngineInv.
LEMMA PruneOldOK ==
  ASSUME EngineInv, NEW r \in Request, PruneOld(r)
  PROVE  EngineInv'
<1> DEFINE old == {f \in Id : Active(f) /\ facts[f].old}
           table == [f \in Id |-> IF f \in old
                                  THEN [facts[f] EXCEPT !.st = "deleted"]
                                  ELSE facts[f]]
<1>1. /\ op[r].pc = "prune_old" /\ OpOK(op[r]) /\ op[r] \in Op
      /\ TableOK(facts) /\ vectors \subseteq Vector
  BY DEF PruneOld, EngineInv, OpOK
<1>2. \/ op' = [op EXCEPT ![r] = Turn(op[r])] /\ UNCHANGED vectors /\ Quiet
      \/ Change(r, table, Turn(op[r]))
  BY DEF PruneOld
<1>3. op[r].kind = "retain" /\ op[r].todo # <<>>
  BY <1>1 DEF OpOK, Fits
<1>4. OpOK(Turn(op[r])) /\ Remembers(op[r], Turn(op[r]))
  BY <1>1, <1>3, TurnOK DEF OpOK, Fits
<1>5. Turn(op[r]).pc # "idle"
  BY <1>1, <1>3 DEF Turn, Op
<1>6. TableOK(table)
  <2>1. ASSUME NEW f \in Id, f \in old
        PROVE  [facts[f] EXCEPT !.st = "deleted"] \in Fact
    <3>1. facts[f] \in Fact
      BY <1>1, <2>1, ActiveFact
    <3>2. QED
      BY <3>1 DEF Fact
  <2>2. \A f \in Id : facts[f] \in {NoFact} \cup Fact
    BY <1>1 DEF TableOK
  <2> HIDE DEF old
  <2>3. QED
    BY <2>1, <2>2 DEF TableOK
<1> HIDE DEF table
<1>7. QED
  BY <1>1, <1>2, <1>4, <1>5, <1>6, QuietOK, ChangeOK

-----------------------------------------------------------------------------
(* The statements of the vector store; the ends. *)

\* Counting and deleting the points of a fact keep EngineInv.
LEMMA VectorsStepOK ==
  ASSUME EngineInv, NEW r \in Request, CountVectors(r) \/ DeleteVectors(r)
  PROVE  EngineInv'
<1>1. /\ op[r].pc \in {"count_vectors", "delete_vectors"} /\ OpOK(op[r])
      /\ vectors \subseteq Vector
  BY DEF CountVectors, DeleteVectors, EngineInv
<1>2. \/ Err(r)
      \/ /\ Quiet /\ vectors' \subseteq vectors
         /\ \/ op' = [op EXCEPT ![r] = AfterDelete(op[r])]
            \/ op' = [op EXCEPT ![r] = [op[r] EXCEPT !.pc = "delete_vectors"]]
  BY DEF CountVectors, DeleteVectors
<1>3. OpOK(AfterDelete(op[r])) /\ Remembers(op[r], AfterDelete(op[r]))
  BY <1>1, AfterDeleteOK
<1> DEFINE p == [op[r] EXCEPT !.pc = "delete_vectors"]
<1>4. Fits(op[r].kind, "delete_vectors", op[r].todo, op[r].act, op[r].f)
  BY <1>1 DEF OpOK, Fits
<1>5. OpOK(p) /\ Remembers(op[r], p)
  <2>1. "delete_vectors" \in Pc
    BY DEF Pc
  <2>2. OpOK(p) /\ p.pc = "delete_vectors" /\ p.wrote = op[r].wrote
    BY <1>1, <1>4, <2>1, PcOK
  <2> HIDE DEF p
  <2>3. QED
    BY <2>2 DEF Remembers
<1>6. \/ Err(r)
      \/ /\ Quiet /\ vectors' \subseteq Vector
         /\ \E o \in {p, AfterDelete(op[r])} : op' = [op EXCEPT ![r] = o]
  BY <1>1, <1>2
<1> HIDE DEF p
<1>7. QED
  BY <1>3, <1>5, <1>6, QuietOK, ErrOK

\* Both halves of an upsert keep EngineInv.
LEMMA UpsertOK ==
  ASSUME EngineInv, NEW r \in Request, UpsertDelete(r) \/ UpsertPoint(r)
  PROVE  EngineInv'
<1>1. OpOK(op[r]) /\ vectors \subseteq Vector
  BY DEF EngineInv
<1>2. CASE UpsertDelete(r)
  <2>1. /\ op[r].pc = "upsert_delete" /\ To(r, "upsert_point") /\ Quiet
        /\ vectors' \subseteq Vector
    BY <1>1, <1>2 DEF UpsertDelete
  <2>2. Fits(op[r].kind, "upsert_point", op[r].todo, op[r].act, op[r].f)
    BY <1>1, <2>1 DEF OpOK, Fits
  <2>3. "upsert_point" \in Pc \ {"idle"}
    BY DEF Pc
  <2>4. QED
    BY <2>1, <2>2, <2>3, ToOK, QuietOK
<1>3. CASE UpsertPoint(r)
  <2>1. /\ op[r].pc = "upsert_point" /\ Quiet
        /\ vectors' = vectors \cup {[fact |-> op[r].f,
                                     c |-> Head(op[r].todo).c]}
        /\ op' = [op EXCEPT ![r] = NextItem(op[r])]
    BY <1>3 DEF UpsertPoint
  <2>2. /\ op[r].f \in Id /\ op[r].kind \in {"add", "append", "replace"}
        /\ op[r].todo # <<>>
    BY <1>1, <2>1 DEF OpOK, Fits
  <2>3. Head(op[r].todo).c \in Content
    BY <1>1, <2>2, ContentOfItem
  <2>4. vectors' \subseteq Vector
    BY <1>1, <2>1, <2>2, <2>3 DEF Vector
  <2>5. OpOK(NextItem(op[r])) /\ Remembers(op[r], NextItem(op[r]))
    BY <1>1, <2>2, NextItemOK
  <2>6. QED
    BY <2>1, <2>4, <2>5, QuietOK
<1>4. QED
  BY <1>2, <1>3

\* The deletion of a user's points keeps EngineInv.
LEMMA DeleteByUserOK ==
  ASSUME EngineInv, NEW r \in Request, DeleteByUser(r)
  PROVE  EngineInv'
<1>1. /\ op[r].pc = "delete_by_user" /\ Quiet /\ vectors' \subseteq Vector
      /\ OpOK(op[r]) /\ op[r] \in Op
  BY DEF DeleteByUser, EngineInv, OpOK
<1>2. op[r].kind \in {"forget", "replace"}
  BY <1>1 DEF OpOK, Fits
<1>3. CASE op[r].kind = "forget"
  <2> DEFINE p == [op[r] EXCEPT !.pc = "invalidate"]
  <2>1. op' = [op EXCEPT ![r] = p]
    BY <1>3 DEF DeleteByUser
  <2>2. Fits(op[r].kind, "invalidate", op[r].todo, op[r].act, op[r].f)
    BY <1>1 DEF OpOK, Fits
  <2>3. "invalidate" \in Pc
    BY DEF Pc
  <2>4. OpOK(p) /\ p.pc = "invalidate" /\ p.wrote = op[r].wrote
    BY <1>1, <2>2, <2>3, PcOK
  <2> HIDE DEF p
  <2>5. Remembers(op[r], p)
    BY <2>4 DEF Remembers
  <2>6. QED
    BY <1>1, <2>1, <2>4, <2>5, QuietOK
<1>4. CASE op[r].kind = "replace"
  <2>1. op' = [op EXCEPT ![r] = Turn(op[r])]
    BY <1>4 DEF DeleteByUser
  <2>2. OpOK(Turn(op[r])) /\ Remembers(op[r], Turn(op[r]))
    BY <1>1, <1>4, TurnOK DEF OpOK, Fits
  <2>3. QED
    BY <1>1, <2>1, <2>2, QuietOK
<1>5. QED
  BY <1>2, <1>3, <1>4

\* The lookup of an import's item keeps EngineInv.
LEMMA ImportGetOK ==
  ASSUME EngineInv, NEW r \in Request, ImportGet(r)
  PROVE  EngineInv'
<1> DEFINE id == Head(op[r].todo).id
           f == IF Active(id) /\ op[r].kind = "append" THEN newId ELSE id
           p == [op[r] EXCEPT !.pc = "insert_fact", !.f = f]
<1>1. /\ op[r].pc = "import_get" /\ newId \in Nat
      /\ OpOK(op[r]) /\ op[r] \in Op /\ op \in [Request -> Op]
      /\ UNCHANGED <<facts, vectors, work, faults, stale, excused>>
      /\ Noted({})
  BY DEF ImportGet, EngineInv, OpOK, storeVars, cacheVars, BoundsOK
<1>2. /\ Active(id) /\ op[r].kind = "append" => newId \in Id
      /\ op' = [op EXCEPT ![r] = p]
      /\ newId' \in {newId, newId + 1}
  BY <1>1 DEF ImportGet
<1>3. op[r].kind \in {"append", "replace"} /\ op[r].todo # <<>>
  BY <1>1 DEF OpOK, Fits
<1>4. id \in Id
  <2>1. Head(op[r].todo) \in Exported
    BY <1>1, <1>3, ContentOfItem
  <2>2. QED
    BY <2>1, EngineConstants
<1>5. f \in Id
  BY <1>2, <1>4
<1> HIDE DEF f
<1>6. /\ p \in Op /\ p.kind = op[r].kind /\ p.pc = "insert_fact"
      /\ p.todo = op[r].todo /\ p.act = op[r].act /\ p.f = f
      /\ p.wrote = op[r].wrote
  BY <1>1, <1>5 DEF Op, Pc
<1> HIDE DEF p
<1>7. OpOK(p) /\ Remembers(op[r], p)
  BY <1>1, <1>3, <1>5, <1>6 DEF OpOK, Fits, Remembers
<1>8. tainted' \subseteq Id /\ shared' \subseteq Content
  BY <1>1, NotedOK
<1>9. op' \in [Request -> Op] /\ \A q \in Request : OpOK(op'[q])
  BY <1>2, <1>7, MoveOK
<1>10. CacheTold'
  BY <1>1, <1>2, <1>7, ToldOK
<1>11. newId' \in Nat
  BY <1>1, <1>2
<1>12. QED
  BY <1>1, <1>8, <1>9, <1>10, <1>11 DEF EngineInv, TableOK, BoundsOK

\* The statements on events keep EngineInv.
LEMMA EventsOK ==
  ASSUME EngineInv, NEW r \in Request, Events(r)
  PROVE  EngineInv'
<1> DEFINE p == [op[r] EXCEPT !.pc = "invalidate"]
<1>1. /\ op[r].pc = "events" /\ Quiet /\ vectors' \subseteq Vector
      /\ OpOK(op[r]) /\ op[r] \in Op
  BY DEF Events, EngineInv, OpOK
<1>2. \/ op' = [op EXCEPT ![r] = p]
      \/ ~op[r].wrote /\ op' = [op EXCEPT ![r] = Idle]
  BY DEF Events
<1>3. Fits(op[r].kind, "invalidate", op[r].todo, op[r].act, op[r].f)
  BY <1>1 DEF OpOK, Fits
<1>4. "invalidate" \in Pc
  BY DEF Pc
<1>5. OpOK(p) /\ p.pc = "invalidate" /\ p.wrote = op[r].wrote
  BY <1>1, <1>3, <1>4, PcOK
<1> HIDE DEF p
<1>6. CASE op' = [op EXCEPT ![r] = p]
  <2>1. Remembers(op[r], p)
    BY <1>5 DEF Remembers
  <2>2. QED
    BY <1>1, <1>5, <1>6, <2>1, QuietOK
<1>7. CASE ~op[r].wrote /\ op' = [op EXCEPT ![r] = Idle]
  <2>1. Remembers(op[r], Idle)
    BY <1>7 DEF Remembers
  <2>2. QED
    BY <1>1, <1>7, <2>1, IdleOK, QuietOK
<1>8. QED
  BY <1>2, <1>6, <1>7

\* The invalidation at the end keeps EngineInv.
LEMMA InvalidateOK ==
  ASSUME EngineInv, NEW r \in Request, Invalidate(r)
  PROVE  EngineInv'
<1>1. /\ UNCHANGED <<facts, vectors, newId, work, faults>>
      /\ stale' = FALSE /\ excused' = FALSE
      /\ Noted({}) /\ op' = [op EXCEPT ![r] = Idle]
  BY DEF Invalidate, storeVars, boundVars
<1>2. tainted' \subseteq Id /\ shared' \subseteq Content
  BY <1>1, NotedOK
<1>3. op' \in [Request -> Op] /\ \A q \in Request : OpOK(op'[q])
  BY <1>1, MoveOK, IdleOK
<1>4. CacheTold'
  BY <1>1 DEF CacheTold
<1>5. QED
  BY <1>1, <1>2, <1>3, <1>4 DEF EngineInv, TableOK, BoundsOK

\* A request holds ids of the table.
LEMMA HeldFacts ==
  ASSUME EngineInv, NEW r \in Request
  PROVE  Held(r) \subseteq Id
<1>1. OpOK(op[r]) /\ op[r].f \in Id \cup {NoId}
  BY DEF EngineInv, OpOK, Op
<1>2. ASSUME op[r].kind = "retain"
      PROVE  {op[r].todo[i].id : i \in DOMAIN op[r].todo} \subseteq Id
  <2>1. op[r].todo \in Seq([id : Id])
    BY <1>1, <1>2 DEF OpOK, Fits
  <2>2. \A i \in DOMAIN op[r].todo : op[r].todo[i] \in [id : Id]
    BY <2>1, Elements
  <2>3. QED
    BY <2>2
<1>3. QED
  BY <1>1, <1>2 DEF Held

\* A failing statement, or a dropped future, keeps EngineInv.
LEMMA FailOK ==
  ASSUME EngineInv, NEW r \in Request, Fail(r)
  PROVE  EngineInv'
<1> DEFINE damaged == IF Midway(r) THEN Held(r) ELSE {}
<1>1. /\ UNCHANGED <<facts, vectors, newId, work, stale>>
      /\ faults < MaxFaults /\ faults' = faults + 1
      /\ Noted(damaged) /\ op' = [op EXCEPT ![r] = Idle]
      /\ excused' = (excused \/ op[r].wrote)
  BY DEF Fail, storeVars
<1>2. damaged \subseteq Id
  BY HeldFacts
<1> HIDE DEF damaged
<1>3. tainted' \subseteq Id /\ shared' \subseteq Content
  BY <1>1, <1>2, NotedOK
<1>4. op' \in [Request -> Op] /\ \A q \in Request : OpOK(op'[q])
  BY <1>1, MoveOK, IdleOK
<1>5. CacheTold' /\ excused' \in BOOLEAN
  BY <1>1, LeaveOK
<1>6. faults' \in 0..MaxFaults
  BY <1>1, EngineConstants DEF EngineInv, BoundsOK
<1>7. QED
  BY <1>1, <1>3, <1>4, <1>5, <1>6 DEF EngineInv, TableOK, BoundsOK

-----------------------------------------------------------------------------
(* The theorems. *)

\* EngineInv holds at first.
LEMMA InitOK == Init => EngineInv
<1> SUFFICES ASSUME Init PROVE EngineInv
  OBVIOUS
<1>1. TableOK(facts)
  BY StoredTables DEF Init, TableOK
<1>2. vectors \subseteq Vector
  <2>1. ASSUME NEW f \in Id, Active(f)
        PROVE  [fact |-> f, c |-> facts[f].c] \in Vector
    <3>1. facts[f] \in Fact
      BY <1>1, <2>1, ActiveFact
    <3>2. QED
      BY <3>1 DEF Fact, Vector
  <2>2. QED
    BY <2>1 DEF Init
<1>3. op \in [Request -> Op] /\ \A r \in Request : OpOK(op[r])
  BY IdleOK, IdleParts DEF Init
<1>4. /\ BoundsOK /\ stale = FALSE /\ excused = FALSE
      /\ tainted = {} /\ shared \subseteq Content
  BY EngineConstants DEF Init, BoundsOK, StoredTwice
<1>5. QED
  BY <1>1, <1>2, <1>3, <1>4 DEF EngineInv, CacheTold

\* Every step keeps EngineInv.
LEMMA StepOK == EngineInv /\ [Next]_vars => EngineInv'
<1> SUFFICES ASSUME EngineInv, [Next]_vars PROVE EngineInv'
  OBVIOUS
<1>1. ASSUME NEW r \in Request,
             \/ AddMemory(r) \/ DeleteMemory(r) \/ ApplyRetention(r)
             \/ ForgetUser(r) \/ ImportUserData(r)
      PROVE  EngineInv'
  BY <1>1, BeginsOK
<1>2. ASSUME NEW r \in Request,
             \/ CandidateInvalid(r) \/ Dedup(r) \/ EmbeddingDedup(r)
             \/ Classify(r) \/ DecisionInvalid(r)
      PROVE  EngineInv'
  BY <1>2, ErrOK, DedupOK, ClassifyOK DEF CandidateInvalid, DecisionInvalid
<1>3. ASSUME NEW r \in Request,
             \/ GetFact(r) \/ UpdateFact(r) \/ SoftDelete(r) \/ InsertFact(r)
             \/ DeleteUserData(r) \/ SelectOld(r) \/ PruneOld(r)
      PROVE  EngineInv'
  BY <1>3, GetFactOK, UpdateFactOK, SoftDeleteOK, InsertFactOK,
     DeleteUserDataOK, SelectOldOK, PruneOldOK
<1>4. ASSUME NEW r \in Request,
             \/ CountVectors(r) \/ DeleteVectors(r) \/ UpsertDelete(r)
             \/ UpsertPoint(r) \/ DeleteByUser(r)
      PROVE  EngineInv'
  BY <1>4, VectorsStepOK, UpsertOK, DeleteByUserOK
<1>5. ASSUME NEW r \in Request,
             \/ ImportGet(r) \/ Events(r) \/ Invalidate(r) \/ Fail(r)
      PROVE  EngineInv'
  BY <1>5, ImportGetOK, EventsOK, InvalidateOK, FailOK
<1>6. CASE UNCHANGED vars
  <2>1. /\ UNCHANGED <<facts, vectors, op, newId, work, faults>>
        /\ UNCHANGED <<stale, excused, tainted, shared>>
    BY <1>6 DEF vars, storeVars, boundVars, cacheVars
  <2>2. QED
    BY <2>1 DEF EngineInv, TableOK, BoundsOK, CacheTold, Running
<1>7. QED
  BY <1>1, <1>2, <1>3, <1>4, <1>5, <1>6 DEF Next

\* EngineInv is an invariant.
THEOREM EngineInvariant == Spec => []EngineInv
<1>1. QED
  BY InitOK, StepOK, PTL DEF Spec

\* Every operation keeps the state well typed, whatever the requests that run
\* at the same time and the statements that fail: in particular each statement
\* finds the item and the fact id that it needs.
THEOREM EngineTypeCorrect == Spec => []TypeOK
<1>1. EngineInv => TypeOK
  BY DEF EngineInv, TypeOK, TableOK, BoundsOK
<1>2. QED
  BY <1>1, EngineInvariant, PTL

\* For any number of requests, facts and failures: after a change of the facts
\* a request is still going to invalidate the cache, or one that wrote has
\* ended with an error (invalidate_user_context_cache at the end of every
\* writing operation of MemoryEngine).
THEOREM EngineTellsCache == Spec => []CacheTold
<1>1. EngineInv => CacheTold
  BY DEF EngineInv
<1>2. QED
  BY <1>1, EngineInvariant, PTL

\* No step makes a deleted fact active: the statements guard on the row they
\* find, not on the one the request read before.
LEMMA StepKeepsDeleted ==
  ASSUME EngineInv, [Next]_vars, NEW f \in Id, facts[f].st = "deleted"
  PROVE  facts'[f].st # "active"
<1>1. facts \in [Id -> {NoFact} \cup Fact]
  BY DEF EngineInv, TableOK
<1>2. CASE facts' = facts
  BY <1>2
<1>3. ASSUME NEW r \in Request, UpdateFact(r)
      PROVE  facts'[f].st # "active"
  <2>1. \/ facts' = facts
        \/ /\ Active(op[r].f)
           /\ facts' = [facts EXCEPT ![op[r].f] =
                          MergeCandidateIntoFact(@, Head(op[r].todo))]
    BY <1>3 DEF UpdateFact, Err, Change, storeVars
  <2>2. QED
    BY <1>1, <2>1 DEF Active
<1>4. ASSUME NEW r \in Request, SoftDelete(r)
      PROVE  facts'[f].st # "active"
  <2>1. \/ facts' = facts
        \/ /\ Active(op[r].f)
           /\ facts' = [facts EXCEPT ![op[r].f].st = "deleted"]
    BY <1>4 DEF SoftDelete, Err, Change, storeVars
  <2>2. QED
    BY <1>1, <2>1 DEF Active
<1>5. ASSUME NEW r \in Request, InsertFact(r)
      PROVE  facts'[f].st # "active"
  <2>1. \/ facts' = facts
        \/ /\ facts[op[r].f] = NoFact
           /\ \E fact : facts' = [facts EXCEPT ![op[r].f] = fact]
    BY <1>5 DEF InsertFact, Err, Change, storeVars
  <2>2. QED
    BY <1>1, <2>1 DEF NoFact
<1>6. ASSUME NEW r \in Request, DeleteUserData(r)
      PROVE  facts'[f].st # "active"
  BY <1>6 DEF DeleteUserData, Change, NoFact
<1>7. ASSUME NEW r \in Request, PruneOld(r)
      PROVE  facts'[f].st # "active"
  <2> DEFINE old == {e \in Id : Active(e) /\ facts[e].old}
  <2>1. \/ facts' = facts
        \/ facts' = [e \in Id |-> IF e \in old
                                  THEN [facts[e] EXCEPT !.st = "deleted"]
                                  ELSE facts[e]]
    BY <1>7 DEF PruneOld, Change, Quiet
  <2>2. f \notin old
    BY DEF Active
  <2>3. QED
    BY <2>1, <2>2
<1>8. ASSUME NEW r \in Request,
             \/ AddMemory(r) \/ DeleteMemory(r) \/ ApplyRetention(r)
             \/ ForgetUser(r) \/ ImportUserData(r)
      PROVE  facts' = facts
  BY <1>8 DEF AddMemory, DeleteMemory, ApplyRetention, ForgetUser,
              ImportUserData, Begin, storeVars
<1>9. ASSUME NEW r \in Request,
             \/ CandidateInvalid(r) \/ Dedup(r) \/ EmbeddingDedup(r)
             \/ Classify(r) \/ DecisionInvalid(r) \/ GetFact(r)
             \/ SelectOld(r)
      PROVE  facts' = facts
  BY <1>9 DEF CandidateInvalid, Dedup, EmbeddingDedup, Classify,
              DecisionInvalid, GetFact, SelectOld, Err, Quiet, storeVars
<1>10. ASSUME NEW r \in Request,
              \/ CountVectors(r) \/ DeleteVectors(r) \/ UpsertDelete(r)
              \/ UpsertPoint(r) \/ DeleteByUser(r) \/ ImportGet(r)
              \/ Events(r) \/ Invalidate(r) \/ Fail(r)
       PROVE  facts' = facts
  BY <1>10 DEF CountVectors, DeleteVectors, UpsertDelete, UpsertPoint,
               DeleteByUser, ImportGet, Events, Invalidate, Fail, Err, Quiet,
               storeVars
<1>11. QED
  BY <1>2, <1>3, <1>4, <1>5, <1>6, <1>7, <1>8, <1>9, <1>10
  DEF Next, vars, storeVars

\* A soft-deleted fact is never active again, whatever the requests that read
\* it before (update_fact's WHERE deleted_at IS NULL, insert_fact's Conflict).
THEOREM StaysDeleted == Spec => DeletedStaysDeleted
<1>1. EngineInv /\ [Next]_vars =>
        [\A f \in Id : facts[f].st = "deleted" => facts'[f].st # "active"]_vars
  BY StepKeepsDeleted
<1>2. QED
  BY <1>1, EngineInvariant, PTL DEF Spec, DeletedStaysDeleted

-----------------------------------------------------------------------------
(* A fact seen by one request that is at work on it. *)

\* o is at work on fact f, whose row is row.
Holds(o, row, f) ==
  \/ o.pc \in {"delete_user_data", "delete_by_user"}
  \/ /\ o.kind = "retain" /\ o.pc # "idle"
     /\ \/ \E i \in DOMAIN o.todo : o.todo[i].id = f
        \/ o.pc = "prune_old" /\ row.st = "active" /\ row.old
  \/ /\ o.kind # "retain" /\ o.pc # "idle"
     /\ o.f = f

\* The points vs are those that the row of f asks for.
InSync(row, vs, f) ==
  vs = IF row.st = "active" THEN {[fact |-> f, c |-> row.c]} ELSE {}

\* The row is written and its point is not.
Written(o, row) == row.st = "active" /\ row.c = Head(o.todo).c

\* What o has done so far about a fact that nobody else is at work on.
Phase(o, row, vs, f) ==
  CASE o.pc = "prune_old" ->
         /\ InSync(row, vs, f)
         /\ (\E i \in DOMAIN o.todo : o.todo[i].id = f)
              <=> row.st = "active" /\ row.old
    [] o.pc = "upsert_delete" -> Written(o, row)
    [] o.pc = "upsert_point" -> Written(o, row) /\ vs = {}
    [] o.pc \in {"count_vectors", "delete_vectors"} ->
         IF o.act = "update" THEN Written(o, row) ELSE row.st # "active"
    [] o.pc = "delete_by_user" -> row.st # "active"
    [] OTHER -> InSync(row, vs, f)

\* The operation at hand at the statements that differ by it, and the fact at
\* hand in the loop over pruned facts.
Apt(o) ==
  /\ o.pc = "update_fact" => o.act = "update"
  /\ o.pc = "soft_delete" => o.act # "update"
  /\ o.kind = "retain" /\ o.pc \in {"count_vectors", "delete_vectors"} =>
       o.f = Head(o.todo).id

\* Nobody is at work on the fact: the stores agree.  One request is: the fact
\* is in the phase that the request says.  More than one, ever: it is tainted.
SyncInv ==
  /\ Clashing \subseteq tainted
  /\ \A r \in Request : Apt(op[r])
  /\ \A f \in Id \ tainted :
       /\ (\A r \in Request : ~Holds(op[r], facts[f], f)) =>
            InSync(facts[f], VectorsOf(f), f)
       /\ \A r \in Request : Holds(op[r], facts[f], f) =>
                               Phase(op[r], facts[f], VectorsOf(f), f)

\* An active fact has the content.
InTable(c) == \E f \in Id : Active(f) /\ facts[f].c = c

\* A content that one request alone has found new, in a lookup that the limit
\* did not cut short of it, is in no active fact.
DupInv ==
  /\ Contested \subseteq shared
  /\ \A r \in Request : \A c \in Claimed(r) : c \in shared \/ ~InTable(c)
  /\ NoDuplicates

HistInv == SyncInv /\ DupInv

Midpc == {"count_vectors", "delete_vectors", "upsert_delete", "upsert_point",
          "delete_by_user"}

\* What is true of a fact as far as o is concerned.
State(o, row, vs, f) ==
  IF Holds(o, row, f) THEN Phase(o, row, vs, f) ELSE InSync(row, vs, f)

\* A step from o to p that takes the row and the points of a fact to row2 and
\* vs2: it changes only what o holds, it leaves the fact as p says, and when
\* it lets go of the fact it has made no row active.
Good(o, p, row, row2, vs, vs2, f) ==
  /\ ~Holds(o, row, f) => row2 = row /\ vs2 = vs
  /\ State(o, row, vs, f) => State(p, row2, vs2, f)
  /\ Holds(o, row, f) /\ ~Holds(p, row2, f) => row2 = row \/ row2.st # "active"

\* Held, of an operation's record and a table.
LEMMA HeldIs ==
  ASSUME NEW o, OpOK(o), NEW table, NEW f \in Id
  PROVE  f \in (CASE o.pc = "idle" -> {}
                  [] o.pc \in {"delete_user_data", "delete_by_user"} -> Id
                  [] o.kind = "retain" ->
                       {o.todo[i].id : i \in DOMAIN o.todo} \cup
                       (IF o.pc = "prune_old"
                        THEN {g \in Id : table[g].st = "active" /\ table[g].old}
                        ELSE {})
                  [] OTHER -> {o.f} \ {NoId})
         <=> Holds(o, table[f], f)
<1>1. f # NoId
  BY EngineConstants
<1>2. o.pc \in {"delete_user_data", "delete_by_user"} => o.kind # "retain"
  BY DEF OpOK, Fits
<1>3. CASE o.pc = "idle"
  <2>1. o.kind # "retain"
    BY <1>3 DEF OpOK, Fits
  <2>2. QED
    BY <1>3, <2>1 DEF Holds
<1>4. CASE o.pc \in {"delete_user_data", "delete_by_user"}
  BY <1>2, <1>4 DEF Holds
<1>5. CASE o.pc \notin {"idle", "delete_user_data", "delete_by_user"}
           /\ o.kind = "retain"
  BY <1>5 DEF Holds
<1>6. CASE o.pc \notin {"idle", "delete_user_data", "delete_by_user"}
           /\ o.kind # "retain"
  BY <1>1, <1>6 DEF Holds
<1>7. QED
  BY <1>3, <1>4, <1>5, <1>6

\* Before a step and after it.
LEMMA HeldHolds ==
  /\ EngineInv => \A r \in Request, f \in Id :
                    f \in Held(r) <=> Holds(op[r], facts[f], f)
  /\ EngineInv' => \A r \in Request, f \in Id :
                     f \in Held(r)' <=> Holds(op'[r], facts'[f], f)
<1>1. ASSUME EngineInv, NEW r \in Request, NEW f \in Id
      PROVE  f \in Held(r) <=> Holds(op[r], facts[f], f)
  <2>1. OpOK(op[r])
    BY <1>1 DEF EngineInv
  <2>2. QED
    BY <2>1, HeldIs DEF Held, Active
<1>2. ASSUME EngineInv', NEW r \in Request, NEW f \in Id
      PROVE  f \in Held(r)' <=> Holds(op'[r], facts'[f], f)
  <2>1. OpOK(op'[r])
    BY <1>2 DEF EngineInv
  <2>2. QED
    BY <2>1, HeldIs DEF Held, Active
<1>3. QED
  BY <1>1, <1>2

\* Only an active row can be one that retention is about to prune.
LEMMA HoldsLess ==
  ASSUME NEW o, NEW row, NEW row2, NEW f,
         row2 = row \/ row2.st # "active", Holds(o, row2, f)
  PROVE  Holds(o, row, f)
BY DEF Holds

\* A fact that no two requests hold has one holder at most.
LEMMA OneHolder ==
  ASSUME EngineInv, EngineInv', NEW f \in Id, NEW q \in Request,
         NEW r \in Request, q # r
  PROVE  /\ Holds(op[q], facts[f], f) /\ Holds(op[r], facts[f], f) =>
              f \in Clashing
         /\ Holds(op'[q], facts'[f], f) /\ Holds(op'[r], facts'[f], f) =>
              f \in Clashing'
BY HeldHolds DEF Clashing

\* A step of r that is good for every fact it does not taint keeps SyncInv.
LEMMA SyncMove ==
  ASSUME EngineInv, EngineInv', SyncInv, NEW r \in Request, NEW p, Apt(p),
         op' = [op EXCEPT ![r] = p], NEW S, Noted(S),
         \A f \in Id \ (tainted \cup S) :
           Good(op[r], p, facts[f], facts'[f], VectorsOf(f), VectorsOf(f)', f)
  PROVE  SyncInv'
<1>1. \A q \in Request : op'[q] = IF q = r THEN p ELSE op[q]
  BY DEF EngineInv
<1>2. tainted' = tainted \cup Clashing' \cup S
  BY DEF Noted
<1>3. \A q \in Request : Apt(op'[q])
  BY <1>1 DEF SyncInv
<1>4. ASSUME NEW f \in Id \ tainted'
      PROVE  /\ (\A q \in Request : ~Holds(op'[q], facts'[f], f)) =>
                  InSync(facts'[f], VectorsOf(f)', f)
             /\ \A q \in Request : Holds(op'[q], facts'[f], f) =>
                                     Phase(op'[q], facts'[f], VectorsOf(f)', f)
  <2> DEFINE row == facts[f]
             row2 == facts'[f]
             vs == VectorsOf(f)
             vs2 == VectorsOf(f)'
  <2>1. /\ f \in Id \ (tainted \cup S) /\ f \notin Clashing
        /\ f \notin Clashing'
    BY <1>2, <1>4 DEF SyncInv
  <2>2. Good(op[r], p, row, row2, vs, vs2, f)
    BY <2>1
  <2>3. /\ (\A q \in Request : ~Holds(op[q], row, f)) => InSync(row, vs, f)
        /\ \A q \in Request : Holds(op[q], row, f) => Phase(op[q], row, vs, f)
    BY <2>1 DEF SyncInv
  <2>4. \A q \in Request \ {r} :
          /\ Holds(op[q], row, f) => ~Holds(op[r], row, f)
          /\ Holds(op[q], row2, f) => ~Holds(p, row2, f)
    BY <1>1, <2>1, OneHolder
  <2>5. \A q \in Request \ {r} :
          row2 = row \/ row2.st # "active" =>
            (Holds(op[q], row2, f) => Holds(op[q], row, f))
    BY HoldsLess
  <2> SUFFICES
        /\ (\A q \in Request : ~Holds(op'[q], row2, f)) => InSync(row2, vs2, f)
        /\ \A q \in Request : Holds(op'[q], row2, f) => Phase(op'[q], row2, vs2, f)
    OBVIOUS
  <2> HIDE DEF row, row2, vs, vs2
  <2>6. CASE Holds(op[r], row, f)
    <3>1. State(op[r], row, vs, f)
      BY <2>3, <2>6 DEF State
    <3>2. State(p, row2, vs2, f)
      BY <2>2, <3>1 DEF Good
    <3>3. CASE Holds(p, row2, f)
      BY <1>1, <2>4, <3>2, <3>3 DEF State
    <3>4. CASE ~Holds(p, row2, f)
      <4>1. InSync(row2, vs2, f)
        BY <3>2, <3>4 DEF State
      <4>2. row2 = row \/ row2.st # "active"
        BY <2>2, <2>6, <3>4 DEF Good
      <4>3. \A q \in Request \ {r} : ~Holds(op[q], row2, f)
        BY <2>4, <2>5, <2>6, <4>2
      <4>4. QED
        BY <1>1, <3>4, <4>1, <4>3
    <3>5. QED
      BY <3>3, <3>4
  <2>7. CASE ~Holds(op[r], row, f)
    <3>1. row2 = row /\ vs2 = vs
      BY <2>2, <2>7 DEF Good
    <3>2. CASE Holds(p, row2, f)
      <4>1. \A q \in Request : ~Holds(op[q], row, f)
        BY <2>4, <2>7, <3>1, <3>2
      <4>2. State(op[r], row, vs, f)
        BY <2>3, <2>7, <4>1 DEF State
      <4>3. State(p, row2, vs2, f)
        BY <2>2, <4>2 DEF Good
      <4>4. QED
        BY <1>1, <2>4, <3>2, <4>3 DEF State
    <3>3. CASE ~Holds(p, row2, f)
      BY <1>1, <2>3, <2>7, <3>1, <3>3
    <3>4. QED
      BY <3>2, <3>3
  <2>8. QED
    BY <2>6, <2>7
<1>5. Clashing' \subseteq tainted'
  BY <1>2
<1>6. QED
  BY <1>3, <1>4, <1>5 DEF SyncInv

\* What Claimed says of an operation's record.
ClaimedBy(o) ==
  IF /\ o.pc \in {"embedding_dedup", "classify", "insert_fact", "get_fact",
                  "update_fact"}
     /\ o.kind = "add"
  THEN {Head(o.todo).c} ELSE {}

\* A step that activates no row and claims only what is not known.
LEMMA DupKept ==
  ASSUME EngineInv, DupInv, NEW r \in Request, NEW p,
         op' = [op EXCEPT ![r] = p], NEW S, Noted(S),
         \A f \in Id : Active(f)' => Active(f) /\ facts'[f].c = facts[f].c,
         \A c \in ClaimedBy(p) :
           c \in ClaimedBy(op[r]) \/ ~InTable(c) \/ c \in shared'
  PROVE  DupInv'
<1>1. \A q \in Request : op'[q] = IF q = r THEN p ELSE op[q]
  BY DEF EngineInv
<1>2. shared' = shared \cup Contested'
  BY DEF Noted
<1>3. \A c : InTable(c)' => InTable(c)
  BY DEF InTable
<1>4. ASSUME NEW q \in Request, NEW c \in Claimed(q)'
      PROVE  c \in shared' \/ ~InTable(c)'
  <2>1. CASE q = r
    <3>1. c \in ClaimedBy(p)
      BY <1>1, <1>4, <2>1 DEF Claimed, ClaimedBy
    <3>2. c \in Claimed(r) \/ ~InTable(c) \/ c \in shared'
      BY <3>1 DEF Claimed, ClaimedBy
    <3>3. QED
      BY <1>2, <1>3, <3>2 DEF DupInv
  <2>2. CASE q # r
    <3>1. c \in Claimed(q)
      BY <1>1, <1>4, <2>2 DEF Claimed
    <3>2. QED
      BY <1>2, <1>3, <3>1 DEF DupInv
  <2>3. QED
    BY <2>1, <2>2
<1>5. NoDuplicates'
  BY <1>2 DEF DupInv, NoDuplicates
<1>6. QED
  BY <1>2, <1>4, <1>5 DEF DupInv

\* A step that writes a content which the request has claimed, or imports.
LEMMA DupWritten ==
  ASSUME EngineInv, DupInv, NEW r \in Request, NEW p,
         op' = [op EXCEPT ![r] = p], Noted({}), ClaimedBy(p) = {},
         NEW g \in Id, NEW row, facts' = [facts EXCEPT ![g] = row],
         row.c \in Content,
         row.c \in Claimed(r) \/ row.c \in Imported(r)
  PROVE  DupInv'
<1> DEFINE c == row.c
<1>1. \A q \in Request : op'[q] = IF q = r THEN p ELSE op[q]
  BY DEF EngineInv
<1>2. shared' = shared \cup Contested'
  BY DEF Noted
<1>3. \A f \in Id : facts'[f] = IF f = g THEN row ELSE facts[f]
  BY DEF EngineInv, TableOK
<1>4. c \in Imported(r) => c \in shared
  BY DEF DupInv, Contested
<1>5. c \in shared \/ ~InTable(c)
  BY <1>4 DEF DupInv
<1>6. \A d : InTable(d)' => d = c \/ InTable(d)
  BY <1>3 DEF InTable, Active
<1>7. ASSUME NEW q \in Request, NEW d \in Claimed(q)'
      PROVE  d \in shared' \/ ~InTable(d)'
  <2>1. q # r /\ d \in Claimed(q)
    BY <1>1, <1>7 DEF Claimed, ClaimedBy
  <2>2. CASE d = c
    <3>1. c \in shared
      BY <1>4, <2>1, <2>2 DEF DupInv, Contested
    <3>2. QED
      BY <1>2, <2>2, <3>1
  <2>3. CASE d # c
    BY <1>2, <1>6, <2>1, <2>3 DEF DupInv
  <2>4. QED
    BY <2>2, <2>3
<1>8. ASSUME NEW e \in Id, NEW f \in Id, Active(e)', Active(f)',
             facts'[e].c = facts'[f].c, facts'[e].c \notin shared'
      PROVE  e = f
  <2>1. CASE e # g /\ f # g
    BY <1>2, <1>3, <1>8, <2>1 DEF Active, DupInv, NoDuplicates
  <2>2. CASE e = g /\ f # g
    BY <1>2, <1>3, <1>5, <1>8, <2>2 DEF Active, InTable
  <2>3. CASE e # g /\ f = g
    BY <1>2, <1>3, <1>5, <1>8, <2>3 DEF Active, InTable
  <2>4. QED
    BY <2>1, <2>2, <2>3
<1>9. QED
  BY <1>2, <1>7, <1>8 DEF DupInv, NoDuplicates

-----------------------------------------------------------------------------
(* The shapes of a step. *)

\* Nothing changes in the stores and no statement is midway.
LEMMA PlainGood ==
  ASSUME NEW o, NEW p, NEW row, NEW vs, NEW f,
         o.pc \notin Midpc, p.pc \notin Midpc \cup {"prune_old"}
  PROVE  Good(o, p, row, row, vs, vs, f)
BY DEF Good, State, Phase, Midpc

\* A step that touches neither store, of a request that is not between a row
\* and its points, keeps HistInv if it claims nothing that is known.
LEMMA PlainStep ==
  ASSUME EngineInv, EngineInv', HistInv, NEW r \in Request, NEW p,
         op' = [op EXCEPT ![r] = p], NEW S, Noted(S),
         UNCHANGED <<facts, vectors>>,
         op[r].pc \notin Midpc, p.pc \notin Midpc \cup {"prune_old"},
         Apt(p),
         \A c \in ClaimedBy(p) :
           c \in ClaimedBy(op[r]) \/ ~InTable(c) \/ c \in shared'
  PROVE  HistInv'
<1>1. \A f \in Id :
        Good(op[r], p, facts[f], facts'[f], VectorsOf(f), VectorsOf(f)', f)
  BY PlainGood DEF VectorsOf
<1>2. SyncInv'
  BY <1>1, SyncMove DEF HistInv
<1>3. \A f \in Id : Active(f)' => Active(f) /\ facts'[f].c = facts[f].c
  BY DEF Active
<1>4. DupInv'
  BY <1>3, DupKept DEF HistInv
<1>5. QED
  BY <1>2, <1>4 DEF HistInv

\* A request goes on with the fact at hand.
LEMMA OwnGood ==
  ASSUME NEW o, NEW p, o.kind # "retain", p.kind = o.kind, p.f = o.f,
         o.pc \notin {"idle", "delete_user_data", "delete_by_user"},
         p.pc \notin {"idle", "delete_user_data", "delete_by_user"},
         NEW f, NEW row, NEW row2, NEW vs, NEW vs2,
         f # o.f => row2 = row /\ vs2 = vs,
         f = o.f => (Phase(o, row, vs, f) => Phase(p, row2, vs2, f))
  PROVE  Good(o, p, row, row2, vs, vs2, f)
BY DEF Good, State, Holds

\* A request lets go of the fact at hand.
LEMMA OwnRelease ==
  ASSUME NEW o, NEW p, o.kind # "retain",
         o.pc \notin {"idle", "delete_user_data", "delete_by_user"},
         \/ p.pc = "idle"
         \/ /\ p.kind # "retain" /\ p.f = NoId
            /\ p.pc \notin {"delete_user_data", "delete_by_user"},
         NEW f \in Id, NEW row, NEW vs, NEW vs2,
         f # o.f => vs2 = vs,
         f = o.f => (Phase(o, row, vs, f) => InSync(row, vs2, f))
  PROVE  Good(o, p, row, row, vs, vs2, f)
<1>1. f # NoId
  BY EngineConstants
<1>2. p.pc = "idle" => p.pc \notin {"delete_user_data", "delete_by_user"}
  OBVIOUS
<1>3. ~Holds(p, row, f)
  BY <1>1, <1>2 DEF Holds
<1>4. Holds(o, row, f) <=> o.f = f
  BY DEF Holds
<1>5. QED
  BY <1>3, <1>4 DEF Good, State

\* Without a claim.
LEMMA NoClaim ==
  ASSUME NEW p, p.kind # "add" \/ p.pc \notin {"embedding_dedup", "classify",
                                  "insert_fact", "get_fact", "update_fact"}
  PROVE  ClaimedBy(p) = {}
BY DEF ClaimedBy

\* With the claim it had.
LEMMA SameClaim ==
  ASSUME NEW o, NEW p, p.todo = o.todo, p.kind = o.kind,
         o.pc \in {"embedding_dedup", "classify", "insert_fact", "get_fact",
                   "update_fact"}
  PROVE  \A c \in ClaimedBy(p) : c \in ClaimedBy(o)
BY DEF ClaimedBy

\* The fields of a record that moves to another statement.
LEMMA PcFields ==
  ASSUME NEW o \in Op, NEW pc
  PROVE  LET p == [o EXCEPT !.pc = pc]
             q == [[o EXCEPT !.pc = pc] EXCEPT !.wrote = TRUE]
         IN  /\ p.kind = o.kind /\ p.pc = pc /\ p.todo = o.todo
             /\ p.act = o.act /\ p.f = o.f
             /\ q.kind = o.kind /\ q.pc = pc /\ q.todo = o.todo
             /\ q.act = o.act /\ q.f = o.f
BY DEF Op

\* The idle record is apt.
LEMMA AptIdle == Apt(Idle) /\ Idle.pc = "idle" /\ Idle.kind = "add"
BY DEF Apt, Idle

\* Where the loop of an operation goes.
LEMMA TurnGoes ==
  ASSUME NEW o \in Op, o.kind \in {"add", "append", "replace"}
  PROVE  /\ Turn(o).pc \in {"dedup", "import_get", "invalidate", "events",
                            "idle"}
         /\ Turn(o) = Idle \/ (Turn(o).kind = o.kind /\ Turn(o).f = o.f)
         /\ Apt(Turn(o)) /\ ClaimedBy(Turn(o)) = {}
<1>1. \/ Turn(o) = Idle
      \/ \E pc \in {"dedup", "import_get", "invalidate", "events"} :
           Turn(o) = [o EXCEPT !.pc = pc]
  BY DEF Turn, Op
<1>2. CASE Turn(o) = Idle
  <2>1. ClaimedBy(Idle) = {}
    BY AptIdle, NoClaim
  <2>2. Apt(Turn(o)) /\ ClaimedBy(Turn(o)) = {} /\ Turn(o).pc = "idle"
    BY <1>2, <2>1, AptIdle
  <2>3. Turn(o).pc \in {"dedup", "import_get", "invalidate", "events", "idle"}
    BY <2>2
  <2>4. QED
    BY <1>2, <2>2, <2>3
<1>3. CASE \E pc \in {"dedup", "import_get", "invalidate", "events"} :
             Turn(o) = [o EXCEPT !.pc = pc]
  <2>1. PICK pc \in {"dedup", "import_get", "invalidate", "events"} :
          Turn(o) = [o EXCEPT !.pc = pc]
    BY <1>3
  <2>2. Turn(o).pc = pc /\ Turn(o).kind = o.kind /\ Turn(o).f = o.f
    BY <2>1, PcFields
  <2>3. QED
    BY <2>2, NoClaim DEF Apt
<1>4. QED
  BY <1>1, <1>2, <1>3

\* Where an add or an import goes on with its next item, holding nothing.
LEMMA NextItemGoes ==
  ASSUME NEW o, OpOK(o), o.todo # <<>>, o.kind \in {"add", "append", "replace"}
  PROVE  /\ NextItem(o).pc \in {"dedup", "import_get", "invalidate", "events",
                                "idle"}
         /\ \/ NextItem(o).pc = "idle"
            \/ NextItem(o).kind = o.kind /\ NextItem(o).f = NoId
         /\ Apt(NextItem(o)) /\ ClaimedBy(NextItem(o)) = {}
<1> DEFINE p == [o EXCEPT !.todo = Tail(@), !.act = "", !.f = NoId]
<1>1. o \in Op /\ Tail(o.todo) \in Seq(Item)
  BY HeadTail DEF OpOK, Op
<1>2. p \in Op /\ p.kind = o.kind /\ p.f = NoId
  BY <1>1 DEF Op
<1>3. NextItem(o) = Turn(p)
  BY DEF NextItem
<1> HIDE DEF p
<1>4. QED
  BY <1>2, <1>3, TurnGoes, AptIdle

-----------------------------------------------------------------------------
(* Steps that leave the stores alone. *)

\* An error outside the middle of a pair of writes keeps HistInv.
LEMMA ErrHist ==
  ASSUME EngineInv, EngineInv', HistInv, NEW r \in Request, Err(r),
         op[r].pc \notin Midpc
  PROVE  HistInv'
<1>1. /\ op' = [op EXCEPT ![r] = Idle] /\ UNCHANGED <<facts, vectors>>
      /\ Noted({})
  BY DEF Err, storeVars
<1>2. ClaimedBy(Idle) = {}
  BY AptIdle, NoClaim
<1>3. "idle" \notin Midpc \cup {"prune_old"}
  BY DEF Midpc
<1>4. QED
  BY <1>1, <1>2, <1>3, AptIdle, PlainStep

\* The entry of each writing operation keeps HistInv.
LEMMA BeginHist ==
  ASSUME EngineInv, EngineInv', HistInv, NEW r \in Request,
         \/ AddMemory(r) \/ DeleteMemory(r) \/ ApplyRetention(r)
         \/ ForgetUser(r) \/ ImportUserData(r)
  PROVE  HistInv'
<1>1. ASSUME NEW o, Apt(o), ClaimedBy(o) = {}, NEW cost, Begin(r, cost, o),
             o.pc \notin Midpc \cup {"prune_old"}
      PROVE  HistInv'
  <2>1. /\ op[r].pc = "idle" /\ op' = [op EXCEPT ![r] = o] /\ Noted({})
        /\ UNCHANGED <<facts, vectors>>
    BY <1>1 DEF Begin, Running, storeVars
  <2>2. op[r].pc \notin Midpc
    BY <2>1 DEF Midpc
  <2>3. QED
    BY <1>1, <2>1, <2>2, PlainStep
<1>2. CASE AddMemory(r)
  <2>1. PICK todo \in Items([c : Content]) :
               Begin(r, Len(todo), Turn([Idle EXCEPT !.todo = todo]))
    BY <1>2 DEF AddMemory
  <2>2. todo \in Seq(Item)
    BY ItemsOK, ItemKinds, Widen
  <2> DEFINE o == [Idle EXCEPT !.todo = todo]
  <2>3. o \in Op /\ o.kind = "add"
    BY <2>2 DEF Idle, Op, Kind, Pc
  <2> HIDE DEF o
  <2>4. /\ Apt(Turn(o)) /\ ClaimedBy(Turn(o)) = {}
        /\ Turn(o).pc \notin Midpc \cup {"prune_old"}
    BY <2>3, TurnGoes DEF Midpc
  <2>5. QED
    BY <1>1, <2>1, <2>4 DEF o
<1>3. CASE DeleteMemory(r)
  <2>1. PICK f \in Id :
          Begin(r, 1, [Idle EXCEPT !.kind = "delete", !.pc = "get_fact",
                                   !.f = f])
    BY <1>3 DEF DeleteMemory
  <2> DEFINE o == [Idle EXCEPT !.kind = "delete", !.pc = "get_fact", !.f = f]
  <2>2. o.kind = "delete" /\ o.pc = "get_fact"
    BY DEF Idle
  <2> HIDE DEF o
  <2>3. Apt(o) /\ ClaimedBy(o) = {} /\ o.pc \notin Midpc \cup {"prune_old"}
    BY <2>2, NoClaim DEF Apt, Midpc
  <2>4. QED
    BY <1>1, <2>1, <2>3 DEF o
<1>4. CASE ApplyRetention(r)
  <2> DEFINE o == [Idle EXCEPT !.kind = "retain", !.pc = "select_old"]
  <2>1. o.kind = "retain" /\ o.pc = "select_old"
    BY DEF Idle
  <2>2. Begin(r, 1, o)
    BY <1>4 DEF ApplyRetention
  <2> HIDE DEF o
  <2>3. Apt(o) /\ ClaimedBy(o) = {} /\ o.pc \notin Midpc \cup {"prune_old"}
    BY <2>1, NoClaim DEF Apt, Midpc
  <2>4. QED
    BY <1>1, <2>2, <2>3
<1>5. CASE ForgetUser(r)
  <2> DEFINE o == [Idle EXCEPT !.kind = "forget", !.pc = "delete_user_data"]
  <2>1. o.kind = "forget" /\ o.pc = "delete_user_data"
    BY DEF Idle
  <2>2. Begin(r, 1, o)
    BY <1>5 DEF ForgetUser
  <2> HIDE DEF o
  <2>3. Apt(o) /\ ClaimedBy(o) = {} /\ o.pc \notin Midpc \cup {"prune_old"}
    BY <2>1, NoClaim DEF Apt, Midpc
  <2>4. QED
    BY <1>1, <2>2, <2>3
<1>6. CASE ImportUserData(r)
  <2>1. PICK todo \in Items(Exported) :
          \/ Begin(r, Len(todo), [Idle EXCEPT !.kind = "replace", !.todo = todo,
                                              !.pc = "delete_user_data"])
          \/ Begin(r, Len(todo), Turn([Idle EXCEPT !.kind = "append",
                                                   !.todo = todo]))
    BY <1>6 DEF ImportUserData
  <2>2. todo \in Seq(Item)
    BY ItemsOK, ItemKinds, Widen
  <2> DEFINE o == [Idle EXCEPT !.kind = "replace", !.todo = todo,
                               !.pc = "delete_user_data"]
             a == [Idle EXCEPT !.kind = "append", !.todo = todo]
  <2>3. /\ o.kind = "replace" /\ o.pc = "delete_user_data"
        /\ a \in Op /\ a.kind = "append"
    BY <2>2 DEF Idle, Op, Kind, Pc
  <2>4. Begin(r, Len(todo), o) \/ Begin(r, Len(todo), Turn(a))
    BY <2>1
  <2> HIDE DEF o, a
  <2>5. Apt(o) /\ ClaimedBy(o) = {} /\ o.pc \notin Midpc \cup {"prune_old"}
    BY <2>3, NoClaim DEF Apt, Midpc
  <2>6. /\ Apt(Turn(a)) /\ ClaimedBy(Turn(a)) = {}
        /\ Turn(a).pc \notin Midpc \cup {"prune_old"}
    BY <2>3, TurnGoes DEF Midpc
  <2>7. QED
    BY <1>1, <2>4, <2>5, <2>6
<1>7. QED
  BY <1>2, <1>3, <1>4, <1>5, <1>6

\* What is hidden depends on the table alone.
LEMMA HiddenSame ==
  ASSUME UNCHANGED facts, NEW c
  PROVE  Hidden(c)' <=> Hidden(c)
BY DEF Hidden, OfType, MayPrecede, Active

\* A lookup that misses an active fact with the content is full, and all that
\* it lists may come before the fact.
LEMMA MissedHidden ==
  ASSUME NEW c, NEW S \in Listed(TypeOf[c]), ~Known(c, S), InTable(c)
  PROVE  Hidden(c)
<1>1. PICK f \in Id : Active(f) /\ facts[f].c = c
  BY DEF InTable
<1> DEFINE before == {g \in OfType(TypeOf[c]) \ {f} : MayPrecede(g, f)}
<1>2. f \in OfType(TypeOf[c]) \ S
  BY <1>1 DEF OfType, Known
<1>3. Cardinality(S) = DEDUP_SEARCH_LIMIT /\ \A g \in S : MayPrecede(g, f)
  BY <1>2 DEF Listed
<1>4. S \in SUBSET before
  BY <1>2, <1>3 DEF Listed
<1>5. before \in SUBSET Id /\ IsFiniteSet(Id)
  BY EngineConstants DEF OfType
<1> HIDE DEF before
<1>6. IsFiniteSet(before)
  BY <1>5, FS_Subset
<1>7. Cardinality(S) <= Cardinality(before)
  BY <1>4, <1>6, FS_Subset
<1>8. Cardinality(before) >= DEDUP_SEARCH_LIMIT
  <2>1. Cardinality(before) \in Nat
    BY <1>6, FS_CardinalityType
  <2>2. QED
    BY <1>3, <1>7, <2>1, EngineConstants
<1>9. QED
  BY <1>1, <1>8 DEF Hidden, before

\* The lookups of add_memory keep HistInv: a content is claimed only when no
\* active fact and no other request has it, or it is noted as shared.
LEMMA DedupHist ==
  ASSUME EngineInv, EngineInv', HistInv, NEW r \in Request,
         Dedup(r) \/ EmbeddingDedup(r) \/ Classify(r)
  PROVE  HistInv'
<1> DEFINE o == op[r]
<1>1. /\ o.pc \in {"dedup", "embedding_dedup", "classify"}
      /\ UNCHANGED <<facts, vectors>> /\ Noted({})
  BY DEF Dedup, EmbeddingDedup, Classify, Quiet, storeVars
<1>2. OpOK(o) /\ o \in Op /\ op \in [Request -> Op]
  BY DEF EngineInv, OpOK
<1>3. o.kind = "add" /\ o.todo # <<>>
  BY <1>1, <1>2 DEF OpOK, Fits
<1>4. o.pc \notin Midpc
  BY <1>1 DEF Midpc
<1>5. CASE op' = [op EXCEPT ![r] = NextItem(@)]
  <2>1. op' = [op EXCEPT ![r] = NextItem(o)]
    BY <1>5
  <2>2. /\ NextItem(o).pc \notin Midpc \cup {"prune_old"}
        /\ Apt(NextItem(o)) /\ ClaimedBy(NextItem(o)) = {}
    BY <1>2, <1>3, NextItemGoes DEF Midpc
  <2> HIDE DEF o
  <2>3. QED
    BY <1>1, <1>4, <2>1, <2>2, PlainStep DEF o
<1>6. ASSUME o.pc = "dedup", To(r, "embedding_dedup"),
             NEW S \in Listed(TypeOf[Head(o.todo).c]),
             ~Known(Head(o.todo).c, S)
      PROVE  HistInv'
  <2> DEFINE p == [o EXCEPT !.pc = "embedding_dedup"]
  <2>1. op' = [op EXCEPT ![r] = p]
    BY <1>2, <1>6 DEF To
  <2>2. p.pc = "embedding_dedup" /\ p.todo = o.todo /\ p.kind = "add"
    BY <1>2, <1>3, PcFields
  <2> HIDE DEF p
  <2>3. ASSUME NEW c \in ClaimedBy(p), InTable(c)
        PROVE  c \in shared'
    <3>1. c = Head(o.todo).c
      BY <2>2, <2>3 DEF ClaimedBy
    <3>2. c \in Content
      BY <1>2, <1>3, <3>1, ContentOfItem
    <3>3. Hidden(c)'
      BY <1>1, <1>6, <2>3, <3>1, MissedHidden, HiddenSame
    <3>4. c \in Claimed(r)'
      BY <1>2, <2>1, <2>3 DEF Claimed, ClaimedBy
    <3>5. QED
      BY <1>1, <3>2, <3>3, <3>4 DEF Noted, Contested
  <2>4. Apt(p) /\ p.pc \notin Midpc \cup {"prune_old"}
    BY <2>2 DEF Apt, Midpc
  <2>5. QED
    BY <1>1, <1>4, <2>1, <2>3, <2>4, PlainStep
<1>7. CASE o.pc = "embedding_dedup" /\ To(r, "classify")
  <2> DEFINE p == [o EXCEPT !.pc = "classify"]
  <2>1. op' = [op EXCEPT ![r] = p]
    BY <1>2, <1>7 DEF To
  <2>2. p.pc = "classify" /\ p.todo = o.todo /\ p.kind = o.kind
    BY <1>2, PcFields
  <2> HIDE DEF p
  <2>3. \A c \in ClaimedBy(p) : c \in ClaimedBy(o)
    BY <1>7, <2>2, SameClaim
  <2>4. Apt(p) /\ p.pc \notin Midpc \cup {"prune_old"}
    BY <2>2 DEF Apt, Midpc
  <2>5. QED
    BY <1>1, <1>4, <2>1, <2>3, <2>4, PlainStep
<1>8. ASSUME o.pc = "classify", NEW act, NEW f, ApplyFactOperation(r, act, f)
      PROVE  HistInv'
  <2> DEFINE pc == IF act = "add" THEN "insert_fact" ELSE "get_fact"
             p == [o EXCEPT !.pc = pc, !.act = act, !.f = f]
  <2>1. op' = [op EXCEPT ![r] = p]
    BY <1>2, <1>8 DEF ApplyFactOperation
  <2>2. /\ p.pc \in {"insert_fact", "get_fact"} /\ p.todo = o.todo
        /\ p.kind = o.kind
    BY <1>2 DEF Op
  <2> HIDE DEF p
  <2>3. \A c \in ClaimedBy(p) : c \in ClaimedBy(o)
    BY <1>8, <2>2, SameClaim
  <2>4. Apt(p) /\ p.pc \notin Midpc \cup {"prune_old"}
    BY <1>3, <2>2 DEF Apt, Midpc
  <2>5. QED
    BY <1>1, <1>4, <2>1, <2>3, <2>4, PlainStep
<1>9. QED
  BY <1>5, <1>6, <1>7, <1>8 DEF Dedup, EmbeddingDedup, Classify

\* get_fact of an update or a delete keeps HistInv.
LEMMA GetFactHist ==
  ASSUME EngineInv, EngineInv', HistInv, NEW r \in Request, GetFact(r)
  PROVE  HistInv'
<1> DEFINE o == op[r]
           pc == IF o.act = "update" THEN "update_fact" ELSE "soft_delete"
           p == [o EXCEPT !.pc = pc]
<1>1. o.pc = "get_fact" /\ o \in Op /\ op \in [Request -> Op]
  BY DEF GetFact, EngineInv
<1>2. o.pc \notin Midpc
  BY <1>1 DEF Midpc
<1>3. CASE ~Active(o.f)
  BY <1>2, <1>3, ErrHist DEF GetFact
<1>4. CASE Active(o.f)
  <2>1. /\ op' = [op EXCEPT ![r] = p] /\ UNCHANGED <<facts, vectors>>
        /\ Noted({})
    BY <1>1, <1>4 DEF GetFact, Quiet, To
  <2>2. p.pc = pc /\ p.todo = o.todo /\ p.kind = o.kind /\ p.act = o.act
    BY <1>1, PcFields
  <2> HIDE DEF p
  <2>3. \A c \in ClaimedBy(p) : c \in ClaimedBy(o)
    BY <1>1, <2>2, SameClaim
  <2>4. Apt(p) /\ p.pc \notin Midpc \cup {"prune_old"}
    BY <2>2 DEF Apt, Midpc
  <2>5. QED
    BY <1>2, <2>1, <2>3, <2>4, PlainStep
<1>5. QED
  BY <1>3, <1>4

\* The lookup of an import's item keeps HistInv.
LEMMA ImportGetHist ==
  ASSUME EngineInv, EngineInv', HistInv, NEW r \in Request, ImportGet(r)
  PROVE  HistInv'
<1> DEFINE o == op[r]
           id == Head(o.todo).id
           f == IF Active(id) /\ o.kind = "append" THEN newId ELSE id
           p == [o EXCEPT !.pc = "insert_fact", !.f = f]
<1>1. o.pc = "import_get" /\ OpOK(o) /\ o \in Op /\ op \in [Request -> Op]
  BY DEF ImportGet, EngineInv, OpOK
<1>2. o.kind \in {"append", "replace"} /\ o.pc \notin Midpc
  BY <1>1 DEF OpOK, Fits, Midpc
<1>3. /\ op' = [op EXCEPT ![r] = p] /\ UNCHANGED <<facts, vectors>>
      /\ Noted({})
  BY <1>1 DEF ImportGet, storeVars
<1> HIDE DEF f
<1>4. p.pc = "insert_fact" /\ p.kind = o.kind
  BY <1>1 DEF Op
<1> HIDE DEF p
<1>5. /\ Apt(p) /\ p.pc \notin Midpc \cup {"prune_old"}
      /\ ClaimedBy(p) = {}
  BY <1>2, <1>4, NoClaim DEF Apt, Midpc
<1>6. QED
  BY <1>2, <1>3, <1>5, PlainStep

\* The last statements of a request keep HistInv.
LEMMA EndHist ==
  ASSUME EngineInv, EngineInv', HistInv, NEW r \in Request,
         Events(r) \/ Invalidate(r)
  PROVE  HistInv'
<1> DEFINE o == op[r]
           p == [o EXCEPT !.pc = "invalidate"]
<1>1. /\ o.pc \in {"events", "invalidate"} /\ o \in Op
      /\ UNCHANGED <<facts, vectors>> /\ Noted({})
  BY DEF Events, Invalidate, EngineInv, Quiet, storeVars
<1>2. o.pc \notin Midpc
  BY <1>1 DEF Midpc
<1>3. op' = [op EXCEPT ![r] = p] \/ op' = [op EXCEPT ![r] = Idle]
  BY DEF Events, Invalidate
<1>4. p.pc = "invalidate"
  BY <1>1, PcFields
<1> HIDE DEF p
<1>5. /\ Apt(p) /\ p.pc \notin Midpc \cup {"prune_old"} /\ ClaimedBy(p) = {}
      /\ Idle.pc \notin Midpc \cup {"prune_old"} /\ ClaimedBy(Idle) = {}
  BY <1>4, NoClaim, AptIdle DEF Apt, Midpc
<1>6. QED
  BY <1>1, <1>2, <1>3, <1>5, AptIdle, PlainStep

\* A failure midway taints what the request held.
LEMMA FailHist ==
  ASSUME EngineInv, EngineInv', HistInv, NEW r \in Request, Fail(r)
  PROVE  HistInv'
<1> DEFINE S == IF Midway(r) THEN Held(r) ELSE {}
<1>1. /\ op' = [op EXCEPT ![r] = Idle] /\ UNCHANGED <<facts, vectors>>
      /\ Noted(S)
  BY DEF Fail, storeVars
<1>2. ClaimedBy(Idle) = {}
  BY AptIdle, NoClaim
<1>3. CASE op[r].pc \notin Midpc
  <2>1. Idle.pc \notin Midpc \cup {"prune_old"}
    BY AptIdle DEF Midpc
  <2> HIDE DEF S
  <2>2. QED
    BY <1>1, <1>2, <1>3, <2>1, AptIdle, PlainStep
<1>4. CASE op[r].pc \in Midpc
  <2>1. S = Held(r)
    BY <1>4 DEF Midway, Midpc
  <2> HIDE DEF S
  <2>2. ASSUME NEW f \in Id \ (tainted \cup S)
        PROVE  Good(op[r], Idle, facts[f], facts'[f], VectorsOf(f),
                    VectorsOf(f)', f)
    <3>1. ~Holds(op[r], facts[f], f)
      BY <2>1, <2>2, HeldHolds
    <3>2. ~Holds(Idle, facts[f], f)
      BY AptIdle DEF Holds
    <3>3. facts'[f] = facts[f] /\ VectorsOf(f)' = VectorsOf(f)
      BY <1>1 DEF VectorsOf
    <3>4. Good(op[r], Idle, facts[f], facts[f], VectorsOf(f), VectorsOf(f), f)
      BY <3>1, <3>2 DEF Good, State
    <3>5. QED
      BY <3>3, <3>4
  <2>3. SyncInv'
    BY <1>1, <2>2, AptIdle, SyncMove DEF HistInv
  <2>4. \A f \in Id : Active(f)' => Active(f) /\ facts'[f].c = facts[f].c
    BY <1>1 DEF Active
  <2>5. DupInv'
    BY <1>1, <1>2, <2>4, DupKept DEF HistInv
  <2>6. QED
    BY <2>3, <2>5 DEF HistInv
<1>5. QED
  BY <1>3, <1>4

-----------------------------------------------------------------------------
(* Steps that change a row. *)

\* The fact at hand gets another row.
LEMMA RowSync ==
  ASSUME EngineInv, EngineInv', HistInv, NEW r \in Request, NEW p, Apt(p),
         op' = [op EXCEPT ![r] = p], Noted({}), UNCHANGED vectors,
         op[r].kind # "retain", p.kind = op[r].kind, p.f = op[r].f,
         op[r].pc \notin {"idle", "delete_user_data", "delete_by_user"},
         p.pc \notin {"idle", "delete_user_data", "delete_by_user"},
         op[r].f \in Id,
         NEW row2, facts' = [facts EXCEPT ![op[r].f] = row2],
         \A vs : Phase(op[r], facts[op[r].f], vs, op[r].f) =>
                   Phase(p, row2, vs, op[r].f)
  PROVE  SyncInv'
<1>1. \A f \in Id : facts'[f] = IF f = op[r].f THEN row2 ELSE facts[f]
  BY DEF EngineInv, TableOK
<1>2. ASSUME NEW f \in Id
      PROVE  Good(op[r], p, facts[f], facts'[f], VectorsOf(f), VectorsOf(f)', f)
  <2>1. VectorsOf(f)' = VectorsOf(f)
    BY DEF VectorsOf
  <2>2. f # op[r].f => facts'[f] = facts[f]
    BY <1>1
  <2>3. f = op[r].f => (Phase(op[r], facts[f], VectorsOf(f), f) =>
                          Phase(p, facts'[f], VectorsOf(f), f))
    BY <1>1
  <2>4. Good(op[r], p, facts[f], facts'[f], VectorsOf(f), VectorsOf(f), f)
    BY <2>2, <2>3, OwnGood
  <2>5. QED
    BY <2>1, <2>4
<1>3. QED
  BY <1>2, SyncMove DEF HistInv

\* The record that Change gives a request.
LEMMA ChangeIs ==
  ASSUME EngineInv, NEW r \in Request, NEW table, NEW pc,
         Change(r, table, [op[r] EXCEPT !.pc = pc])
  PROVE  \E p : /\ op' = [op EXCEPT ![r] = p] /\ facts' = table
                /\ UNCHANGED vectors /\ Noted({})
                /\ p.kind = op[r].kind /\ p.pc = pc /\ p.todo = op[r].todo
                /\ p.act = op[r].act /\ p.f = op[r].f
<1>1. op[r] \in Op
  BY DEF EngineInv
<1> DEFINE p == [[op[r] EXCEPT !.pc = pc] EXCEPT !.wrote = TRUE]
<1>2. /\ op' = [op EXCEPT ![r] = p] /\ facts' = table
      /\ UNCHANGED vectors /\ Noted({})
  BY DEF Change
<1>3. /\ p.kind = op[r].kind /\ p.pc = pc /\ p.todo = op[r].todo
      /\ p.act = op[r].act /\ p.f = op[r].f
  BY <1>1, PcFields
<1>4. QED
  BY <1>2, <1>3

\* update_fact opens the gap between a row and its points that an upsert closes.
LEMMA UpdateFactHist ==
  ASSUME EngineInv, EngineInv', HistInv, NEW r \in Request, UpdateFact(r)
  PROVE  HistInv'
<1> DEFINE o == op[r]
           row == facts[o.f]
           row2 == MergeCandidateIntoFact(row, Head(o.todo))
<1>0. o \in Op
  BY DEF EngineInv
<1>1. o.pc = "update_fact" /\ OpOK(o) /\ TableOK(facts) /\ Apt(o)
  BY DEF UpdateFact, EngineInv, HistInv, SyncInv
<1>2. o.kind = "add" /\ o.f \in Id /\ o.todo # <<>> /\ o.act = "update"
  BY <1>1 DEF OpOK, Fits, Apt
<1>3. CASE ~Active(o.f)
  BY <1>1, <1>3, ErrHist DEF UpdateFact, Midpc
<1>4. CASE Active(o.f)
  <2>1. Change(r, [facts EXCEPT ![o.f] = row2],
               [o EXCEPT !.pc = "count_vectors"])
    BY <1>4 DEF UpdateFact
  <2>2. PICK p : /\ op' = [op EXCEPT ![r] = p]
                 /\ facts' = [facts EXCEPT ![o.f] = row2]
                 /\ UNCHANGED vectors /\ Noted({})
                 /\ p.kind = o.kind /\ p.pc = "count_vectors"
                 /\ p.todo = o.todo /\ p.act = o.act /\ p.f = o.f
    <3> DEFINE p == [[o EXCEPT !.pc = "count_vectors"] EXCEPT !.wrote = TRUE]
    <3>1. /\ op' = [op EXCEPT ![r] = p]
          /\ facts' = [facts EXCEPT ![o.f] = row2]
          /\ UNCHANGED vectors /\ Noted({})
      BY <2>1 DEF Change
    <3>2. /\ p.kind = o.kind /\ p.pc = "count_vectors" /\ p.todo = o.todo
          /\ p.act = o.act /\ p.f = o.f
      BY <1>0, PcFields
    <3> HIDE DEF p
    <3>3. QED
      BY <3>1, <3>2
  <2>3. row \in Fact /\ Head(o.todo).c \in Content
    BY <1>1, <1>2, <1>4, ActiveFact, ContentOfItem
  <2>4. row2.st = "active" /\ row2.c = Head(o.todo).c
    BY <1>4, <2>3 DEF MergeCandidateIntoFact, Fact, Active
  <2> HIDE DEF row2
  <2>5. Apt(p) /\ ClaimedBy(p) = {}
    BY <1>2, <2>2, NoClaim DEF Apt
  <2>6. \A vs : Phase(p, row2, vs, o.f)
    BY <1>2, <2>2, <2>4 DEF Phase, Written
  <2>7. SyncInv'
    BY <1>1, <1>2, <2>2, <2>5, <2>6, RowSync
  <2>8. row2.c \in Claimed(r)
    BY <1>1, <1>2, <2>4 DEF Claimed
  <2>9. DupInv'
    BY <1>2, <2>2, <2>3, <2>4, <2>5, <2>8, DupWritten DEF HistInv
  <2>10. QED
    BY <2>7, <2>9 DEF HistInv
<1>5. QED
  BY <1>3, <1>4

\* soft_delete_fact opens the gap that the deletion of the points closes.
LEMMA SoftDeleteHist ==
  ASSUME EngineInv, EngineInv', HistInv, NEW r \in Request, SoftDelete(r)
  PROVE  HistInv'
<1> DEFINE o == op[r]
           row == facts[o.f]
           row2 == [row EXCEPT !.st = "deleted"]
<1>0. o \in Op
  BY DEF EngineInv
<1>1. o.pc = "soft_delete" /\ OpOK(o) /\ TableOK(facts) /\ Apt(o)
  BY DEF SoftDelete, EngineInv, HistInv, SyncInv
<1>2. o.kind \in {"add", "delete"} /\ o.f \in Id /\ o.act # "update"
  BY <1>1 DEF OpOK, Fits, Apt
<1>3. CASE ~Active(o.f)
  BY <1>1, <1>3, ErrHist DEF SoftDelete, Midpc
<1>4. CASE Active(o.f)
  <2>1. Change(r, [facts EXCEPT ![o.f].st = "deleted"],
               [o EXCEPT !.pc = "count_vectors"])
    BY <1>4 DEF SoftDelete
  <2>2. PICK p : /\ op' = [op EXCEPT ![r] = p]
                 /\ facts' = [facts EXCEPT ![o.f].st = "deleted"]
                 /\ UNCHANGED vectors /\ Noted({})
                 /\ p.kind = o.kind /\ p.pc = "count_vectors"
                 /\ p.todo = o.todo /\ p.act = o.act /\ p.f = o.f
    <3> DEFINE p == [[o EXCEPT !.pc = "count_vectors"] EXCEPT !.wrote = TRUE]
    <3>1. /\ op' = [op EXCEPT ![r] = p]
          /\ facts' = [facts EXCEPT ![o.f].st = "deleted"]
          /\ UNCHANGED vectors /\ Noted({})
      BY <2>1 DEF Change
    <3>2. /\ p.kind = o.kind /\ p.pc = "count_vectors" /\ p.todo = o.todo
          /\ p.act = o.act /\ p.f = o.f
      BY <1>0, PcFields
    <3> HIDE DEF p
    <3>3. QED
      BY <3>1, <3>2
  <2>3. row \in Fact
    BY <1>1, <1>2, <1>4, ActiveFact
  <2>4. facts' = [facts EXCEPT ![o.f] = row2] /\ row2.st = "deleted"
    BY <1>1, <1>2, <2>2, <2>3 DEF Fact, TableOK
  <2> HIDE DEF row2
  <2>5. Apt(p) /\ ClaimedBy(p) = {}
    BY <1>2, <2>2, NoClaim DEF Apt
  <2>6. \A vs : Phase(p, row2, vs, o.f)
    BY <1>2, <2>2, <2>4 DEF Phase
  <2>7. SyncInv'
    BY <1>1, <1>2, <2>2, <2>4, <2>5, <2>6, RowSync
  <2>8. \A f \in Id : Active(f)' => Active(f) /\ facts'[f].c = facts[f].c
    BY <1>1, <1>2, <2>4 DEF Active, TableOK
  <2>9. DupInv'
    BY <2>2, <2>5, <2>8, DupKept DEF HistInv
  <2>10. QED
    BY <2>7, <2>9 DEF HistInv
<1>5. QED
  BY <1>3, <1>4

\* insert_fact opens the gap that the upsert closes.
LEMMA InsertFactHist ==
  ASSUME EngineInv, EngineInv', HistInv, NEW r \in Request, InsertFact(r)
  PROVE  HistInv'
<1> DEFINE o == op[r]
           row2 == IF o.kind = "add" THEN CandidateToFact(Head(o.todo))
                                     ELSE FactForImport(Head(o.todo))
<1>0. o \in Op
  BY DEF EngineInv
<1>1. o.pc = "insert_fact" /\ OpOK(o) /\ TableOK(facts)
  BY DEF InsertFact, EngineInv
<1>2. /\ o.kind \in {"add", "append", "replace"} /\ o.f \in Id
      /\ o.todo # <<>> /\ o.todo \in Seq(Item)
  BY <1>1 DEF OpOK, Fits, Op
<1>3. CASE facts[o.f] # NoFact
  BY <1>1, <1>3, ErrHist DEF InsertFact, Midpc
<1>4. CASE facts[o.f] = NoFact
  <2>1. Change(r, [facts EXCEPT ![o.f] = row2],
               [o EXCEPT !.pc = "upsert_delete"])
    BY <1>4 DEF InsertFact
  <2>2. PICK p : /\ op' = [op EXCEPT ![r] = p]
                 /\ facts' = [facts EXCEPT ![o.f] = row2]
                 /\ UNCHANGED vectors /\ Noted({})
                 /\ p.kind = o.kind /\ p.pc = "upsert_delete"
                 /\ p.todo = o.todo /\ p.act = o.act /\ p.f = o.f
    <3> DEFINE p == [[o EXCEPT !.pc = "upsert_delete"] EXCEPT !.wrote = TRUE]
    <3>1. /\ op' = [op EXCEPT ![r] = p]
          /\ facts' = [facts EXCEPT ![o.f] = row2]
          /\ UNCHANGED vectors /\ Noted({})
      BY <2>1 DEF Change
    <3>2. /\ p.kind = o.kind /\ p.pc = "upsert_delete" /\ p.todo = o.todo
          /\ p.act = o.act /\ p.f = o.f
      BY <1>0, PcFields
    <3> HIDE DEF p
    <3>3. QED
      BY <3>1, <3>2
  <2>3. Head(o.todo).c \in Content
    BY <1>1, <1>2, ContentOfItem
  <2>4. row2.st = "active" /\ row2.c = Head(o.todo).c
    BY DEF CandidateToFact, FactForImport
  <2> HIDE DEF row2
  <2>5. Apt(p) /\ ClaimedBy(p) = {}
    BY <1>2, <2>2, NoClaim DEF Apt
  <2>6. \A vs : Phase(p, row2, vs, o.f)
    BY <2>2, <2>4 DEF Phase, Written
  <2>7. SyncInv'
    BY <1>1, <1>2, <2>2, <2>5, <2>6, RowSync
  <2>8. row2.c \in Claimed(r) \/ row2.c \in Imported(r)
    <3>1. CASE o.kind = "add"
      BY <1>1, <2>4, <3>1 DEF Claimed
    <3>2. CASE o.kind # "add"
      <4>1. Head(o.todo) = o.todo[1] /\ 1 \in DOMAIN o.todo
        BY <1>2
      <4>2. QED
        BY <1>2, <2>4, <3>2, <4>1 DEF Imported
    <3>3. QED
      BY <3>1, <3>2
  <2>9. DupInv'
    BY <1>2, <2>2, <2>3, <2>4, <2>5, <2>8, DupWritten DEF HistInv
  <2>10. QED
    BY <2>7, <2>9 DEF HistInv
<1>5. QED
  BY <1>3, <1>4

\* delete_user_data opens that of every fact at once.
LEMMA DeleteUserDataHist ==
  ASSUME EngineInv, EngineInv', HistInv, NEW r \in Request, DeleteUserData(r)
  PROVE  HistInv'
<1> DEFINE o == op[r]
<1>1. /\ o.pc = "delete_user_data" /\ OpOK(o)
      /\ Change(r, [f \in Id |-> NoFact], [o EXCEPT !.pc = "delete_by_user"])
  BY DEF DeleteUserData, EngineInv
<1>2. PICK p : /\ op' = [op EXCEPT ![r] = p]
               /\ facts' = [f \in Id |-> NoFact]
               /\ UNCHANGED vectors /\ Noted({})
               /\ p.kind = o.kind /\ p.pc = "delete_by_user"
               /\ p.todo = o.todo /\ p.act = o.act /\ p.f = o.f
  BY <1>1, ChangeIs
<1>3. Apt(p) /\ ClaimedBy(p) = {}
  BY <1>2, NoClaim DEF Apt
<1>4. \A f \in Id : facts'[f].st # "active"
  BY <1>2 DEF NoFact
<1>5. ASSUME NEW f \in Id
      PROVE  Good(o, p, facts[f], facts'[f], VectorsOf(f), VectorsOf(f)', f)
  <2>1. Holds(o, facts[f], f) /\ Holds(p, facts'[f], f)
    BY <1>1, <1>2 DEF Holds
  <2>2. Phase(p, facts'[f], VectorsOf(f)', f)
    BY <1>2, <1>4 DEF Phase
  <2>3. QED
    BY <2>1, <2>2 DEF Good, State
<1>6. SyncInv'
  BY <1>2, <1>3, <1>5, SyncMove DEF HistInv
<1>7. DupInv'
  BY <1>2, <1>3, <1>4, DupKept DEF HistInv, Active
<1>8. QED
  BY <1>6, <1>7 DEF HistInv

-----------------------------------------------------------------------------
(* Retention. *)

\* The ids that a list names.
Queued(s, f) == \E i \in DOMAIN s : s[i].id = f

\* A queued id is that of the first item or queued in the others.
LEMMA QueuedTail ==
  ASSUME NEW S, NEW s \in Seq(S), s # <<>>, NEW f
  PROVE  Queued(s, f) <=> Head(s).id = f \/ Queued(Tail(s), f)
<1>1. /\ Len(s) \in Nat /\ Len(s) # 0 /\ DOMAIN s = 1..Len(s)
      /\ Head(s) = s[1] /\ Tail(s) \in Seq(S)
      /\ Len(Tail(s)) = Len(s) - 1 /\ DOMAIN Tail(s) = 1..(Len(s) - 1)
      /\ \A i \in 1..(Len(s) - 1) : Tail(s)[i] = s[i + 1]
  OBVIOUS
<1>2. ASSUME Queued(s, f), Head(s).id # f
      PROVE  Queued(Tail(s), f)
  <2>1. PICK i \in 1..Len(s) : s[i].id = f
    BY <1>1, <1>2 DEF Queued
  <2>2. i # 1
    BY <1>1, <1>2, <2>1
  <2>3. i - 1 \in 1..(Len(s) - 1) /\ (i - 1) + 1 = i
    BY <1>1, <2>1, <2>2
  <2>4. Tail(s)[i - 1] = s[i]
    BY <1>1, <2>3
  <2>5. QED
    BY <1>1, <2>1, <2>3, <2>4 DEF Queued
<1>3. ASSUME Queued(Tail(s), f)
      PROVE  Queued(s, f)
  <2>1. PICK i \in 1..(Len(s) - 1) : Tail(s)[i].id = f
    BY <1>1, <1>3 DEF Queued
  <2>2. i + 1 \in 1..Len(s)
    BY <1>1, <2>1
  <2>3. QED
    BY <1>1, <2>1, <2>2 DEF Queued
<1>4. ASSUME Head(s).id = f
      PROVE  Queued(s, f)
  <2>1. 1 \in 1..Len(s)
    BY <1>1
  <2>2. QED
    BY <1>1, <1>4, <2>1 DEF Queued
<1>5. QED
  BY <1>2, <1>3, <1>4

\* What retention holds, and in which phase.
LEMMA RetainHolds ==
  ASSUME NEW o, o.kind = "retain", o.pc # "idle",
         o.pc \notin {"delete_user_data", "delete_by_user"}, NEW row, NEW f
  PROVE  Holds(o, row, f) <=>
           \/ Queued(o.todo, f)
           \/ o.pc = "prune_old" /\ row.st = "active" /\ row.old
BY DEF Holds, Queued

\* The rows in some order are all of them.
LEMMA OrderComplete ==
  ASSUME NEW ids, IsFiniteSet(ids), NEW s \in [1..Cardinality(ids) -> ids],
         \A i, j \in DOMAIN s : s[i] = s[j] => i = j, NEW f
  PROVE  (\E i \in DOMAIN s : s[i] = f) <=> f \in ids
<1> DEFINE n == Cardinality(ids)
<1>1. n \in Nat
  BY FS_CardinalityType
<1>2. Cardinality(1..n) = n
  BY <1>1, FS_Interval
<1>3. s \in Injection(1..n, ids)
  BY DEF Injection, IsInjective
<1> HIDE DEF n
<1>4. s \in Surjection(1..n, ids)
  BY <1>2, <1>3, FS_Injection DEF n
<1>5. DOMAIN s = 1..n /\ \A i \in 1..n : s[i] \in ids
  BY DEF n
<1>6. QED
  BY <1>4, <1>5 DEF Surjection

\* The selection of old facts keeps HistInv.
LEMMA SelectOldHist ==
  ASSUME EngineInv, EngineInv', HistInv, NEW r \in Request, SelectOld(r)
  PROVE  HistInv'
<1> DEFINE o == op[r]
           ids == {f \in Id : Active(f) /\ facts[f].old}
<1>1. /\ o.pc = "select_old" /\ UNCHANGED <<facts, vectors>> /\ Noted({})
      /\ IF ids = {}
         THEN To(r, "events")
         ELSE \E s \in [1..Cardinality(ids) -> ids] :
                /\ \A i, j \in DOMAIN s : s[i] = s[j] => i = j
                /\ op' = [op EXCEPT ![r].pc = "prune_old",
                                    ![r].todo = [i \in DOMAIN s |-> [id |-> s[i]]]]
  BY DEF SelectOld, Quiet
<1>2. OpOK(o) /\ o \in Op /\ op \in [Request -> Op]
  BY DEF EngineInv, OpOK
<1>3. o.kind = "retain" /\ o.pc \notin Midpc
  BY <1>1, <1>2 DEF OpOK, Fits, Midpc
<1>4. ids \subseteq Id
  OBVIOUS
<1>5. \A f \in Id : f \in ids <=> facts[f].st = "active" /\ facts[f].old
  BY DEF Active
<1> HIDE DEF ids
<1>6. CASE ids = {}
  <2> DEFINE p == [o EXCEPT !.pc = "events"]
  <2>1. op' = [op EXCEPT ![r] = p]
    BY <1>1, <1>2, <1>6 DEF To
  <2>2. p.pc = "events" /\ p.kind = o.kind
    BY <1>2, PcFields
  <2> HIDE DEF p
  <2>3. /\ Apt(p) /\ p.pc \notin Midpc \cup {"prune_old"}
        /\ ClaimedBy(p) = {}
    BY <2>2, NoClaim DEF Apt, Midpc
  <2>4. QED
    BY <1>1, <1>3, <2>1, <2>3, PlainStep
<1>7. CASE ids # {}
  <2>1. IsFiniteSet(ids)
    BY <1>4, EngineConstants, FS_Subset
  <2>2. PICK s \in [1..Cardinality(ids) -> ids] :
          /\ \A i, j \in DOMAIN s : s[i] = s[j] => i = j
          /\ op' = [op EXCEPT ![r].pc = "prune_old",
                              ![r].todo = [i \in DOMAIN s |-> [id |-> s[i]]]]
    BY <1>1, <1>7
  <2> DEFINE todo == [i \in DOMAIN s |-> [id |-> s[i]]]
             p == [o EXCEPT !.pc = "prune_old", !.todo = todo]
  <2>3. op' = [op EXCEPT ![r] = p]
    BY <1>2, <2>2
  <2>4. \A f : Queued(todo, f) <=> f \in ids
    <3>1. \A f : (\E i \in DOMAIN s : s[i] = f) <=> f \in ids
      BY <2>1, <2>2, OrderComplete
    <3>2. QED
      BY <3>1 DEF Queued
  <2> HIDE DEF todo
  <2>5. p.pc = "prune_old" /\ p.todo = todo /\ p.kind = "retain"
    BY <1>2, <1>3 DEF Op
  <2> HIDE DEF p
  <2>6. Apt(p) /\ ClaimedBy(p) = {}
    BY <2>5, NoClaim DEF Apt
  <2>7. ASSUME NEW f \in Id
        PROVE  Good(o, p, facts[f], facts'[f], VectorsOf(f), VectorsOf(f)', f)
    <3> DEFINE row == facts[f]
               vs == VectorsOf(f)
    <3>1. facts'[f] = row /\ VectorsOf(f)' = vs
      BY <1>1 DEF VectorsOf
    <3>2. Queued(p.todo, f) <=> row.st = "active" /\ row.old
      BY <1>5, <2>4, <2>5
    <3> HIDE DEF row, vs
    <3>3. State(o, row, vs, f) => InSync(row, vs, f)
      BY <1>1 DEF State, Phase
    <3>4. InSync(row, vs, f) => Phase(p, row, vs, f)
      BY <2>5, <3>2 DEF Phase, Queued
    <3>5. Good(o, p, row, row, vs, vs, f)
      BY <3>3, <3>4 DEF Good, State
    <3>6. QED
      BY <3>1, <3>5 DEF row, vs
  <2>8. SyncInv'
    BY <1>1, <2>3, <2>6, <2>7, SyncMove DEF HistInv
  <2>9. \A f \in Id : Active(f)' => Active(f) /\ facts'[f].c = facts[f].c
    BY <1>1 DEF Active
  <2>10. DupInv'
    BY <1>1, <2>3, <2>6, <2>9, DupKept DEF HistInv
  <2>11. QED
    BY <2>8, <2>10 DEF HistInv
<1>8. QED
  BY <1>6, <1>7

\* Pruning opens the gap of every fact on the list.
LEMMA PruneOldHist ==
  ASSUME EngineInv, EngineInv', HistInv, NEW r \in Request, PruneOld(r)
  PROVE  HistInv'
<1> DEFINE o == op[r]
           old == {f \in Id : Active(f) /\ facts[f].old}
           t == Turn(o)
<1>1. o.pc = "prune_old" /\ OpOK(o) /\ o \in Op /\ TableOK(facts)
  BY DEF PruneOld, EngineInv, OpOK
<1>2. o.kind = "retain" /\ o.todo # <<>> /\ o.act = ""
  BY <1>1 DEF OpOK, Fits
<1>3. /\ t.kind = "retain" /\ t.pc = "count_vectors" /\ t.todo = o.todo
      /\ t.act = "" /\ t.f = Head(o.todo).id
  <2>1. t = [o EXCEPT !.pc = "count_vectors", !.f = Head(o.todo).id]
    BY <1>2 DEF Turn
  <2>2. QED
    BY <1>1, <1>2, <2>1 DEF Op
<1>4. t \in Op
  BY <1>1, <1>2, TurnOK DEF OpOK, Fits
<1> DEFINE p == [t EXCEPT !.wrote = TRUE]
<1>5. /\ p.kind = "retain" /\ p.pc = "count_vectors" /\ p.todo = o.todo
      /\ p.act = "" /\ p.f = Head(o.todo).id
  BY <1>3, <1>4 DEF Op
<1>6. \A f \in Id : f \in old <=> facts[f].st = "active" /\ facts[f].old
  BY DEF Active
<1>7. /\ UNCHANGED vectors /\ Noted({})
      /\ \/ /\ old = {} /\ UNCHANGED facts /\ op' = [op EXCEPT ![r] = t]
         \/ /\ facts' = [f \in Id |-> IF f \in old
                                      THEN [facts[f] EXCEPT !.st = "deleted"]
                                      ELSE facts[f]]
            /\ op' = [op EXCEPT ![r] = p]
  BY DEF PruneOld, Change, Quiet
<1>8. \A f \in Id : /\ f \in old => facts'[f].st # "active"
                    /\ f \notin old => facts'[f] = facts[f]
  <2>1. ASSUME NEW f \in Id, f \in old
        PROVE  [facts[f] EXCEPT !.st = "deleted"].st # "active"
    <3>1. facts[f] \in Fact
      BY <1>1, <2>1, ActiveFact
    <3>2. QED
      BY <3>1 DEF Fact
  <2> HIDE DEF old, p, t
  <2>2. QED
    BY <1>7, <2>1
<1> HIDE DEF old, p, t
<1>9. PICK q : /\ op' = [op EXCEPT ![r] = q]
               /\ q.kind = "retain" /\ q.pc = "count_vectors"
               /\ q.todo = o.todo /\ q.act = "" /\ q.f = Head(o.todo).id
  BY <1>3, <1>5, <1>7
<1>10. Apt(q) /\ ClaimedBy(q) = {}
  BY <1>9, NoClaim DEF Apt
<1>11. ASSUME NEW f \in Id
       PROVE  Good(o, q, facts[f], facts'[f], VectorsOf(f), VectorsOf(f)', f)
  <2> DEFINE row == facts[f]
             row2 == facts'[f]
             vs == VectorsOf(f)
  <2>1. VectorsOf(f)' = vs
    BY <1>7 DEF VectorsOf
  <2>2. /\ row.st = "active" /\ row.old => row2.st # "active"
        /\ ~(row.st = "active" /\ row.old) => row2 = row
    BY <1>6, <1>8
  <2> HIDE DEF row, row2, vs
  <2>3. /\ Holds(o, row, f) <=> Queued(o.todo, f) \/ (row.st = "active" /\ row.old)
        /\ Holds(q, row2, f) <=> Queued(o.todo, f)
    BY <1>1, <1>2, <1>9, RetainHolds
  <2>4. State(o, row, vs, f) => /\ InSync(row, vs, f)
                                /\ Queued(o.todo, f) <=> row.st = "active" /\ row.old
    BY <1>1, <2>3 DEF State, Phase, Queued
  <2>5. Phase(q, row2, vs, f) <=> row2.st # "active"
    BY <1>9 DEF Phase
  <2>6. Good(o, q, row, row2, vs, vs, f)
    BY <2>2, <2>3, <2>4, <2>5 DEF Good, State
  <2>7. QED
    BY <2>1, <2>6 DEF row, row2, vs
<1>12. SyncInv'
  BY <1>7, <1>9, <1>10, <1>11, SyncMove DEF HistInv
<1>13. \A f \in Id : Active(f)' => Active(f) /\ facts'[f].c = facts[f].c
  BY <1>8 DEF Active
<1>14. DupInv'
  BY <1>7, <1>9, <1>10, <1>13, DupKept DEF HistInv
<1>15. QED
  BY <1>12, <1>14 DEF HistInv

-----------------------------------------------------------------------------
(* Steps that change the points. *)

\* A step on the points that leaves the rows alone.
LEMMA PointsStep ==
  ASSUME EngineInv, EngineInv', HistInv, NEW r \in Request, NEW p, Apt(p),
         op' = [op EXCEPT ![r] = p], Noted({}), UNCHANGED facts,
         ClaimedBy(p) = {},
         \A f \in Id :
           Good(op[r], p, facts[f], facts[f], VectorsOf(f), VectorsOf(f)', f)
  PROVE  HistInv'
<1>1. SyncInv'
  BY SyncMove DEF HistInv
<1>2. \A f \in Id : Active(f)' => Active(f) /\ facts'[f].c = facts[f].c
  BY DEF Active
<1>3. DupInv'
  BY <1>2, DupKept DEF HistInv
<1>4. QED
  BY <1>1, <1>3 DEF HistInv

\* The loop over the pruned facts goes on when the points of one are gone.
LEMMA RetainGood ==
  ASSUME NEW o, OpOK(o), Apt(o), o.kind = "retain",
         o.pc \in {"count_vectors", "delete_vectors"},
         NEW f \in Id, NEW row, NEW vs, NEW vs2,
         f # o.f => vs2 = vs,
         f = o.f => vs2 = {}
  PROVE  /\ Good(o, NextItem(o), row, row, vs, vs2, f)
         /\ Apt(NextItem(o)) /\ ClaimedBy(NextItem(o)) = {}
<1> DEFINE t == [o EXCEPT !.todo = Tail(@), !.act = "", !.f = NoId]
           p == NextItem(o)
<1>1. /\ o \in Op /\ o.todo # <<>> /\ o.todo \in Seq([id : Id])
      /\ o.f = Head(o.todo).id /\ o.act = ""
  BY DEF OpOK, Fits, Apt
<1>2. Tail(o.todo) \in Seq([id : Id]) /\ Tail(o.todo) \in Seq(Item)
  BY <1>1, HeadTail, ItemKinds, Widen
<1>3. t \in Op /\ t.kind = "retain" /\ t.todo = Tail(o.todo) /\ t.act = ""
  BY <1>1, <1>2 DEF Op
<1>4. p = Turn(t)
  BY DEF NextItem
<1> HIDE DEF t
<1>5. /\ p.kind = "retain" /\ p.todo = Tail(o.todo) /\ p.act = ""
      /\ \/ p.pc = "count_vectors" /\ p.f = Head(p.todo).id
         \/ p.pc = "events" /\ p.todo = <<>>
  <2>1. CASE t.todo # <<>>
    <3>1. Turn(t) = [t EXCEPT !.pc = "count_vectors", !.f = Head(t.todo).id]
      BY <1>3, <2>1 DEF Turn
    <3> DEFINE g == Head(t.todo).id
    <3>2. /\ [t EXCEPT !.pc = "count_vectors", !.f = g].kind = t.kind
          /\ [t EXCEPT !.pc = "count_vectors", !.f = g].todo = t.todo
          /\ [t EXCEPT !.pc = "count_vectors", !.f = g].act = t.act
          /\ [t EXCEPT !.pc = "count_vectors", !.f = g].pc = "count_vectors"
          /\ [t EXCEPT !.pc = "count_vectors", !.f = g].f = g
      <4> HIDE DEF g
      <4> QED
        BY <1>3 DEF Op
    <3>3. /\ p.kind = t.kind /\ p.todo = t.todo /\ p.act = t.act
          /\ p.pc = "count_vectors" /\ p.f = Head(t.todo).id
      <4> HIDE DEF p
      <4> QED
        BY <1>4, <3>1, <3>2
    <3> HIDE DEF p, g
    <3>4. QED
      BY <1>3, <3>3
  <2>2. CASE t.todo = <<>>
    <3>1. Turn(t) = [t EXCEPT !.pc = "events"]
      BY <1>3, <2>2 DEF Turn
    <3>2. QED
      BY <1>3, <1>4, <2>2, <3>1 DEF Op
  <2>3. QED
    BY <2>1, <2>2
<1>6. p.todo = <<>> => ~Queued(p.todo, f)
  BY DEF Queued
<1> HIDE DEF p
<1>7. Queued(o.todo, f) <=> o.f = f \/ Queued(p.todo, f)
  BY <1>1, <1>5, QueuedTail
<1>8. /\ Holds(o, row, f) <=> Queued(o.todo, f)
      /\ Holds(p, row, f) <=> Queued(p.todo, f)
  BY <1>5, RetainHolds
<1>9. Phase(o, row, vs, f) <=> row.st # "active"
  BY <1>1 DEF Phase
<1>10. Queued(p.todo, f) => (Phase(p, row, vs2, f) <=> row.st # "active")
  BY <1>5, <1>6 DEF Phase
<1>11. Good(o, p, row, row, vs, vs2, f)
  <2>1. CASE ~Queued(o.todo, f)
    BY <1>7, <1>8, <2>1 DEF Good, State
  <2>2. CASE Queued(p.todo, f)
    BY <1>7, <1>8, <1>9, <1>10, <2>2 DEF Good, State
  <2>3. CASE o.f = f /\ ~Queued(p.todo, f)
    BY <1>7, <1>8, <1>9, <2>3 DEF Good, State, InSync
  <2>4. QED
    BY <1>7, <2>1, <2>2, <2>3
<1>12. Apt(p) /\ ClaimedBy(p) = {}
  BY <1>5, NoClaim DEF Apt
<1>13. QED
  BY <1>11, <1>12 DEF p

\* The points of the fact at hand are gone.
LEMMA AfterDeleteGood ==
  ASSUME NEW o, OpOK(o), Apt(o),
         o.pc \in {"count_vectors", "delete_vectors"},
         NEW f \in Id, NEW row, NEW vs, NEW vs2,
         f # o.f => vs2 = vs,
         f = o.f => vs2 = {}
  PROVE  /\ Good(o, AfterDelete(o), row, row, vs, vs2, f)
         /\ Apt(AfterDelete(o)) /\ ClaimedBy(AfterDelete(o)) = {}
<1> DEFINE p == AfterDelete(o)
<1>1. o \in Op /\ o.kind \in {"add", "delete", "retain"}
  BY DEF OpOK, Fits
<1>2. CASE o.kind = "delete"
  <2>1. p = [o EXCEPT !.pc = "invalidate", !.f = NoId] /\ o.act # "update"
    BY <1>2 DEF AfterDelete, OpOK, Fits
  <2>2. p.pc = "invalidate" /\ p.f = NoId /\ p.kind = "delete"
    BY <1>1, <1>2, <2>1 DEF Op
  <2> HIDE DEF p
  <2>3. f = o.f => (Phase(o, row, vs, f) => InSync(row, vs2, f))
    BY <2>1 DEF Phase, InSync
  <2>4. Good(o, p, row, row, vs, vs2, f)
    BY <1>2, <2>2, <2>3, OwnRelease
  <2>5. Apt(p) /\ ClaimedBy(p) = {}
    BY <2>2, NoClaim DEF Apt
  <2>6. QED
    BY <2>4, <2>5 DEF p
<1>3. CASE o.kind = "add" /\ o.act = "update"
  <2>1. p = [o EXCEPT !.pc = "upsert_delete"]
    BY <1>3 DEF AfterDelete
  <2>2. /\ p.pc = "upsert_delete" /\ p.f = o.f /\ p.kind = o.kind
        /\ p.todo = o.todo
    BY <1>1, <2>1 DEF Op
  <2> HIDE DEF p
  <2>3. f = o.f => (Phase(o, row, vs, f) => Phase(p, row, vs2, f))
    BY <1>3, <2>2 DEF Phase, Written
  <2>4. Good(o, p, row, row, vs, vs2, f)
    BY <1>3, <2>2, <2>3, OwnGood
  <2>5. Apt(p) /\ ClaimedBy(p) = {}
    BY <2>2, NoClaim DEF Apt
  <2>6. QED
    BY <2>4, <2>5 DEF p
<1>4. CASE o.kind = "add" /\ o.act # "update"
  <2>1. p = NextItem(o) /\ o.todo # <<>>
    BY <1>4 DEF AfterDelete, OpOK, Fits
  <2>2. /\ p.pc \in {"dedup", "import_get", "invalidate", "events", "idle"}
        /\ p.pc = "idle" \/ (p.kind = o.kind /\ p.f = NoId)
        /\ Apt(p) /\ ClaimedBy(p) = {}
    BY <1>4, <2>1, NextItemGoes
  <2> HIDE DEF p
  <2>3. f = o.f => (Phase(o, row, vs, f) => InSync(row, vs2, f))
    BY <1>4 DEF Phase, InSync
  <2>4. Good(o, p, row, row, vs, vs2, f)
    BY <1>4, <2>2, <2>3, OwnRelease
  <2>5. QED
    BY <2>2, <2>4 DEF p
<1>5. CASE o.kind = "retain"
  <2>1. p = NextItem(o)
    <3>1. o.act # "update"
      BY <1>5 DEF OpOK, Fits
    <3>2. QED
      BY <1>5, <3>1 DEF AfterDelete
  <2>2. /\ Good(o, NextItem(o), row, row, vs, vs2, f)
        /\ Apt(NextItem(o)) /\ ClaimedBy(NextItem(o)) = {}
    BY <1>5, RetainGood
  <2>3. QED
    BY <2>1, <2>2
<1>6. QED
  BY <1>1, <1>2, <1>3, <1>4, <1>5

\* A count of points that finds none closes the gap of a deleted fact.
LEMMA CountVectorsHist ==
  ASSUME EngineInv, EngineInv', HistInv, NEW r \in Request, CountVectors(r)
  PROVE  HistInv'
<1> DEFINE o == op[r]
<1>1. o.pc = "count_vectors" /\ OpOK(o) /\ o \in Op /\ Apt(o) /\ o.f \in Id
  BY DEF CountVectors, EngineInv, OpOK, Fits, HistInv, SyncInv
<1>2. CASE VectorsOf(o.f) = {} /\ o.kind = "delete"
  <2>1. /\ op' = [op EXCEPT ![r] = Idle] /\ UNCHANGED <<facts, vectors>>
        /\ Noted({})
    BY <1>2 DEF CountVectors, Err, storeVars
  <2>2. o.act # "update"
    BY <1>1, <1>2 DEF OpOK, Fits
  <2>3. ASSUME NEW f \in Id
        PROVE  Good(o, Idle, facts[f], facts[f], VectorsOf(f), VectorsOf(f)', f)
    <3>1. VectorsOf(f)' = VectorsOf(f)
      BY <2>1 DEF VectorsOf
    <3>2. f = o.f => (Phase(o, facts[f], VectorsOf(f), f) =>
                        InSync(facts[f], VectorsOf(f), f))
      BY <1>1, <1>2, <2>2 DEF Phase, InSync
    <3>3. Good(o, Idle, facts[f], facts[f], VectorsOf(f), VectorsOf(f), f)
      BY <1>1, <1>2, <3>2, AptIdle, OwnRelease
    <3>4. QED
      BY <3>1, <3>3
  <2>4. ClaimedBy(Idle) = {}
    BY AptIdle, NoClaim
  <2>5. QED
    BY <2>1, <2>3, <2>4, AptIdle, PointsStep
<1>3. CASE VectorsOf(o.f) = {} /\ o.kind # "delete"
  <2>1. /\ op' = [op EXCEPT ![r] = AfterDelete(o)]
        /\ UNCHANGED <<facts, vectors>> /\ Noted({})
    BY <1>3 DEF CountVectors, Quiet
  <2>2. ASSUME NEW f \in Id
        PROVE  /\ Good(o, AfterDelete(o), facts[f], facts[f], VectorsOf(f),
                       VectorsOf(f)', f)
               /\ Apt(AfterDelete(o)) /\ ClaimedBy(AfterDelete(o)) = {}
    <3>1. VectorsOf(f)' = VectorsOf(f)
      BY <2>1 DEF VectorsOf
    <3>2. f = o.f => VectorsOf(f)' = {}
      BY <1>3, <3>1
    <3>3. QED
      BY <1>1, <3>1, <3>2, AfterDeleteGood
  <2>3. Apt(AfterDelete(o)) /\ ClaimedBy(AfterDelete(o)) = {}
    BY <1>1, <2>2
  <2>4. \A f \in Id : Good(o, AfterDelete(o), facts[f], facts[f], VectorsOf(f),
                           VectorsOf(f)', f)
    BY <2>2
  <2>5. QED
    BY <2>1, <2>3, <2>4, PointsStep
<1>4. CASE VectorsOf(o.f) # {}
  <2> DEFINE p == [o EXCEPT !.pc = "delete_vectors"]
  <2>1. /\ op' = [op EXCEPT ![r] = p] /\ UNCHANGED <<facts, vectors>>
        /\ Noted({})
    BY <1>4 DEF CountVectors, Quiet
  <2>2. /\ p.pc = "delete_vectors" /\ p.kind = o.kind /\ p.todo = o.todo
        /\ p.act = o.act /\ p.f = o.f
    BY <1>1, PcFields
  <2> HIDE DEF p
  <2>3. Apt(p) /\ ClaimedBy(p) = {}
    BY <1>1, <2>2, NoClaim DEF Apt
  <2>4. ASSUME NEW f \in Id
        PROVE  Good(o, p, facts[f], facts[f], VectorsOf(f), VectorsOf(f)', f)
    <3>1. VectorsOf(f)' = VectorsOf(f)
      BY <2>1 DEF VectorsOf
    <3>2. Phase(o, facts[f], VectorsOf(f), f) =>
            Phase(p, facts[f], VectorsOf(f), f)
      BY <1>1, <2>2 DEF Phase, Written
    <3>3. Holds(p, facts[f], f) <=> Holds(o, facts[f], f)
      BY <1>1, <2>2 DEF Holds
    <3>4. Good(o, p, facts[f], facts[f], VectorsOf(f), VectorsOf(f), f)
      BY <3>2, <3>3 DEF Good, State
    <3>5. QED
      BY <3>1, <3>4
  <2>5. QED
    BY <2>1, <2>3, <2>4, PointsStep
<1>5. QED
  BY <1>2, <1>3, <1>4

\* The deletion of its points closes it.
LEMMA DeleteVectorsHist ==
  ASSUME EngineInv, EngineInv', HistInv, NEW r \in Request, DeleteVectors(r)
  PROVE  HistInv'
<1> DEFINE o == op[r]
<1>1. o.pc = "delete_vectors" /\ OpOK(o) /\ Apt(o) /\ o.f \in Id
  BY DEF DeleteVectors, EngineInv, OpOK, Fits, HistInv, SyncInv
<1>2. /\ op' = [op EXCEPT ![r] = AfterDelete(o)] /\ UNCHANGED facts
      /\ vectors' = vectors \ VectorsOf(o.f) /\ Noted({})
  BY DEF DeleteVectors, Quiet
<1>3. ASSUME NEW f \in Id
      PROVE  /\ Good(o, AfterDelete(o), facts[f], facts[f], VectorsOf(f),
                     VectorsOf(f)', f)
             /\ Apt(AfterDelete(o)) /\ ClaimedBy(AfterDelete(o)) = {}
  <2>1. VectorsOf(f)' = IF f = o.f THEN {} ELSE VectorsOf(f)
    BY <1>2 DEF VectorsOf
  <2>2. QED
    BY <1>1, <2>1, AfterDeleteGood
<1>4. Apt(AfterDelete(o)) /\ ClaimedBy(AfterDelete(o)) = {}
  BY <1>1, <1>3
<1>5. \A f \in Id : Good(o, AfterDelete(o), facts[f], facts[f], VectorsOf(f),
                         VectorsOf(f)', f)
  BY <1>3
<1>6. QED
  BY <1>2, <1>4, <1>5, PointsStep

\* The first half of an upsert takes the old point away.
LEMMA UpsertDeleteHist ==
  ASSUME EngineInv, EngineInv', HistInv, NEW r \in Request, UpsertDelete(r)
  PROVE  HistInv'
<1> DEFINE o == op[r]
           p == [o EXCEPT !.pc = "upsert_point"]
<1>1. /\ o.pc = "upsert_delete" /\ OpOK(o) /\ o \in Op
      /\ op \in [Request -> Op]
  BY DEF UpsertDelete, EngineInv, OpOK
<1>2. o.f \in Id /\ o.kind # "retain"
  BY <1>1 DEF OpOK, Fits
<1>3. /\ op' = [op EXCEPT ![r] = p] /\ UNCHANGED facts
      /\ vectors' = vectors \ VectorsOf(o.f) /\ Noted({})
  BY <1>1 DEF UpsertDelete, Quiet, To
<1>4. p.pc = "upsert_point" /\ p.kind = o.kind /\ p.todo = o.todo /\ p.f = o.f
  BY <1>1, PcFields
<1> HIDE DEF p
<1>5. Apt(p) /\ ClaimedBy(p) = {}
  BY <1>4, NoClaim DEF Apt
<1>6. ASSUME NEW f \in Id
      PROVE  Good(o, p, facts[f], facts[f], VectorsOf(f), VectorsOf(f)', f)
  <2>1. VectorsOf(f)' = IF f = o.f THEN {} ELSE VectorsOf(f)
    BY <1>3 DEF VectorsOf
  <2>2. f = o.f => (Phase(o, facts[f], VectorsOf(f), f) =>
                      Phase(p, facts[f], VectorsOf(f)', f))
    BY <1>1, <1>4, <2>1 DEF Phase, Written
  <2>3. QED
    BY <1>1, <1>2, <1>4, <2>1, <2>2, OwnGood
<1>7. QED
  BY <1>3, <1>5, <1>6, PointsStep

\* The second half closes the gap of the row that was written.
LEMMA UpsertPointHist ==
  ASSUME EngineInv, EngineInv', HistInv, NEW r \in Request, UpsertPoint(r)
  PROVE  HistInv'
<1> DEFINE o == op[r]
           p == NextItem(o)
           v == [fact |-> o.f, c |-> Head(o.todo).c]
<1>1. o.pc = "upsert_point" /\ OpOK(o)
  BY DEF UpsertPoint, EngineInv
<1>2. /\ o.f \in Id /\ o.kind \in {"add", "append", "replace"}
      /\ o.todo # <<>>
  BY <1>1 DEF OpOK, Fits
<1>3. /\ op' = [op EXCEPT ![r] = p] /\ UNCHANGED facts
      /\ vectors' = vectors \cup {v} /\ Noted({})
  BY DEF UpsertPoint, Quiet
<1>4. /\ p.pc \in {"dedup", "import_get", "invalidate", "events", "idle"}
      /\ p.pc = "idle" \/ (p.kind = o.kind /\ p.f = NoId)
      /\ Apt(p) /\ ClaimedBy(p) = {}
  BY <1>1, <1>2, NextItemGoes
<1> HIDE DEF p
<1>5. ASSUME NEW f \in Id
      PROVE  Good(o, p, facts[f], facts[f], VectorsOf(f), VectorsOf(f)', f)
  <2>1. VectorsOf(f)' = IF f = o.f THEN VectorsOf(f) \cup {v} ELSE VectorsOf(f)
    BY <1>3 DEF VectorsOf
  <2>2. f = o.f => (Phase(o, facts[f], VectorsOf(f), f) =>
                      InSync(facts[f], VectorsOf(f)', f))
    BY <1>1, <2>1 DEF Phase, Written, InSync
  <2>3. QED
    BY <1>1, <1>2, <1>4, <2>1, <2>2, OwnRelease
<1>6. QED
  BY <1>3, <1>4, <1>5, PointsStep

\* The deletion of a user's points closes the gap of every fact.
LEMMA DeleteByUserHist ==
  ASSUME EngineInv, EngineInv', HistInv, NEW r \in Request, DeleteByUser(r)
  PROVE  HistInv'
<1> DEFINE o == op[r]
           p == IF o.kind = "forget" THEN [o EXCEPT !.pc = "invalidate"]
                                     ELSE Turn(o)
<1>1. o.pc = "delete_by_user" /\ OpOK(o) /\ o \in Op
  BY DEF DeleteByUser, EngineInv, OpOK
<1>2. /\ op' = [op EXCEPT ![r] = p] /\ UNCHANGED facts
      /\ vectors' = {} /\ Noted({})
  BY DEF DeleteByUser, Quiet
<1>3. /\ p.pc \in {"dedup", "import_get", "invalidate", "events", "idle"}
      /\ Apt(p) /\ ClaimedBy(p) = {}
  <2>1. CASE o.kind = "forget"
    <3>1. p.pc = "invalidate"
      BY <1>1, <2>1, PcFields
    <3> HIDE DEF p
    <3>2. QED
      BY <3>1, NoClaim DEF Apt
  <2>2. CASE o.kind # "forget"
    <3>1. p = Turn(o) /\ o.kind = "replace"
      BY <1>1, <2>2 DEF OpOK, Fits
    <3> HIDE DEF p
    <3>2. QED
      BY <1>1, <3>1, TurnGoes
  <2>3. QED
    BY <2>1, <2>2
<1> HIDE DEF p
<1>4. ASSUME NEW f \in Id
      PROVE  Good(o, p, facts[f], facts[f], VectorsOf(f), VectorsOf(f)', f)
  <2>1. VectorsOf(f)' = {}
    BY <1>2 DEF VectorsOf
  <2>2. Holds(o, facts[f], f)
    BY <1>1 DEF Holds
  <2>3. Phase(o, facts[f], VectorsOf(f), f) => InSync(facts[f], {}, f)
    BY <1>1 DEF Phase, InSync
  <2>4. InSync(facts[f], {}, f) => State(p, facts[f], {}, f)
    BY <1>3 DEF State, Phase
  <2>5. Good(o, p, facts[f], facts[f], VectorsOf(f), {}, f)
    BY <2>2, <2>3, <2>4 DEF Good, State
  <2>6. QED
    BY <2>1, <2>5
<1>5. QED
  BY <1>2, <1>3, <1>4, PointsStep

-----------------------------------------------------------------------------
(* The stores agree, and no content is stored twice. *)

\* HistInv holds at first.
LEMMA HistInit == Init => HistInv
<1> SUFFICES ASSUME Init PROVE HistInv
  OBVIOUS
<1>1. \A r \in Request : op[r] = Idle
  BY DEF Init
<1>2. \A r \in Request : Held(r) = {} /\ Claimed(r) = {} /\ Imported(r) = {}
  <2>1. Idle.pc = "idle" /\ Idle.kind = "add"
    BY DEF Idle
  <2>2. QED
    BY <1>1, <2>1 DEF Held, Claimed, Imported
<1>3. Clashing = {} /\ Contested = {}
  BY <1>2 DEF Clashing, Contested
<1>4. \A f \in Id : InSync(facts[f], VectorsOf(f), f)
  <2>1. ASSUME NEW f \in Id
        PROVE  VectorsOf(f) = IF Active(f) THEN {[fact |-> f, c |-> facts[f].c]}
                                           ELSE {}
    BY DEF Init, VectorsOf
  <2>2. QED
    BY <2>1 DEF InSync, Active
<1>5. \A r \in Request, f \in Id : ~Holds(op[r], facts[f], f)
  BY <1>1, AptIdle DEF Holds
<1>6. SyncInv
  BY <1>1, <1>3, <1>4, <1>5, AptIdle DEF SyncInv
<1>7. NoDuplicates
  <2>1. \A f \in Id : Active(f) => facts[f].c \in Content
    BY StoredTables DEF Init, Active, NoFact, Fact
  <2>2. QED
    BY <2>1 DEF Init, StoredTwice, NoDuplicates
<1>8. DupInv
  BY <1>2, <1>3, <1>7 DEF DupInv
<1>9. QED
  BY <1>6, <1>8 DEF HistInv

\* Every step keeps HistInv.
LEMMA HistStep == EngineInv /\ EngineInv' /\ HistInv /\ [Next]_vars => HistInv'
<1> SUFFICES ASSUME EngineInv, EngineInv', HistInv, [Next]_vars PROVE HistInv'
  OBVIOUS
<1>1. ASSUME NEW r \in Request,
             \/ AddMemory(r) \/ DeleteMemory(r) \/ ApplyRetention(r)
             \/ ForgetUser(r) \/ ImportUserData(r)
      PROVE  HistInv'
  BY <1>1, BeginHist
<1>2. ASSUME NEW r \in Request,
             \/ CandidateInvalid(r) \/ Dedup(r) \/ EmbeddingDedup(r)
             \/ Classify(r) \/ DecisionInvalid(r)
      PROVE  HistInv'
  BY <1>2, ErrHist, DedupHist DEF CandidateInvalid, DecisionInvalid, Midpc
<1>3. ASSUME NEW r \in Request,
             \/ GetFact(r) \/ UpdateFact(r) \/ SoftDelete(r) \/ InsertFact(r)
             \/ DeleteUserData(r) \/ SelectOld(r) \/ PruneOld(r)
      PROVE  HistInv'
  BY <1>3, GetFactHist, UpdateFactHist, SoftDeleteHist, InsertFactHist,
     DeleteUserDataHist, SelectOldHist, PruneOldHist
<1>4. ASSUME NEW r \in Request,
             \/ CountVectors(r) \/ DeleteVectors(r) \/ UpsertDelete(r)
             \/ UpsertPoint(r) \/ DeleteByUser(r)
      PROVE  HistInv'
  BY <1>4, CountVectorsHist, DeleteVectorsHist, UpsertDeleteHist,
     UpsertPointHist, DeleteByUserHist
<1>5. ASSUME NEW r \in Request,
             \/ ImportGet(r) \/ Events(r) \/ Invalidate(r) \/ Fail(r)
      PROVE  HistInv'
  BY <1>5, ImportGetHist, EndHist, FailHist
<1>6. CASE UNCHANGED vars
  <2>1. UNCHANGED <<facts, vectors, op, tainted, shared>>
    BY <1>6 DEF vars, storeVars, boundVars, cacheVars
  <2>2. UNCHANGED Clashing
    BY <2>1 DEF Clashing, Held, Active
  <2>3. UNCHANGED Contested
    BY <2>1, HiddenSame DEF Contested, Imported, Claimed
  <2>4. SyncInv'
    BY <2>1, <2>2 DEF HistInv, SyncInv, VectorsOf
  <2>5. DupInv'
    BY <2>1, <2>3 DEF HistInv, DupInv, Claimed, InTable, NoDuplicates, Active
  <2>6. QED
    BY <2>4, <2>5 DEF HistInv
<1>7. QED
  BY <1>1, <1>2, <1>3, <1>4, <1>5, <1>6 DEF Next

\* Whatever the requests that run at the same time and the statements that
\* fail, a fact that no request is at work on has the point that its row asks
\* for, unless a request that held it ended midway or two held it at once
\* (FactStore and VectorStore are written one after the other, without a
\* transaction).
THEOREM StoresAgree == Spec => []VectorsFollowFacts
<1>1. EngineInv /\ HistInv => VectorsFollowFacts
  <2> SUFFICES ASSUME EngineInv, HistInv PROVE VectorsFollowFacts
    OBVIOUS
  <2>1. \A r \in Request, f \in Id :
          f \in Held(r) <=> Holds(op[r], facts[f], f)
    BY HeldHolds
  <2>2. ASSUME NEW f \in Id, f \notin tainted,
               \A r \in Request : f \notin Held(r)
        PROVE  VectorsOf(f) = IF Active(f) THEN {[fact |-> f, c |-> facts[f].c]}
                                           ELSE {}
    <3>1. InSync(facts[f], VectorsOf(f), f)
      BY <2>1, <2>2 DEF HistInv, SyncInv
    <3>2. QED
      BY <3>1 DEF InSync, Active
  <2>3. QED
    BY <2>2 DEF VectorsFollowFacts
<1>2. QED
  BY <1>1, InitOK, StepOK, HistInit, HistStep, PTL DEF Spec

\* The limit hides nothing as long as the active facts of the content's type,
\* the one that has it included, are no more than find_existing_facts_for_dedup
\* may load.
LEMMA NothingHidden ==
  ASSUME NEW c, Cardinality(OfType(TypeOf[c])) <= DEDUP_SEARCH_LIMIT
  PROVE  ~Hidden(c)
<1> DEFINE all == OfType(TypeOf[c])
<1>1. SUFFICES ASSUME Hidden(c) PROVE FALSE
  OBVIOUS
<1> DEFINE before(f) == {g \in all \ {f} : MayPrecede(g, f)}
<1>2. PICK f \in Id : /\ Active(f) /\ facts[f].c = c
                     /\ Cardinality(before(f)) >= DEDUP_SEARCH_LIMIT
  BY <1>1 DEF Hidden
<1>3. f \in all /\ f \notin before(f) /\ before(f) \in SUBSET all
  BY <1>2 DEF OfType
<1>4. all \in SUBSET Id /\ IsFiniteSet(Id)
  BY EngineConstants DEF OfType
<1> HIDE DEF all, before
<1>5. IsFiniteSet(all)
  BY <1>4, FS_Subset
<1>6. /\ IsFiniteSet(before(f)) /\ Cardinality(before(f)) <= Cardinality(all)
      /\ Cardinality(all) = Cardinality(before(f)) => all = before(f)
  BY <1>3, <1>5, FS_Subset
<1>7. Cardinality(all) \in Nat /\ Cardinality(before(f)) \in Nat
  BY <1>5, <1>6, FS_CardinalityType
<1>8. Cardinality(all) # Cardinality(before(f))
  BY <1>3, <1>6
<1>9. Cardinality(all) <= DEDUP_SEARCH_LIMIT
  BY DEF all
<1>10. QED
  BY <1>2, <1>6, <1>7, <1>8, <1>9, EngineConstants

\* Two active facts share a content only if it was stored twice at first, an
\* import brought it, two requests of add_memory found it new at the same time,
\* or one found it new while at least DEDUP_SEARCH_LIMIT facts of its type could
\* be listed before the fact that had it: detect_duplicate over what
\* find_existing_facts_for_dedup loads is sound for everything else.
THEOREM NothingStoredTwice == Spec => []NoDuplicates
<1>1. HistInv => NoDuplicates
  BY DEF HistInv, DupInv
<1>2. QED
  BY <1>1, InitOK, StepOK, HistInit, HistStep, PTL DEF Spec

=============================================================================
