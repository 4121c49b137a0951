------------------------- MODULE ContextCacheProofs -------------------------
(***************************************************************************)
(* The context cache coordinator for any number of requests, keys and      *)
(* locks: its books (the locks and their queues, the map of locks, the     *)
(* marks of the refreshes, the capacity), the effect of an invalidation in *)
(* both backends, and stampede protection.                                 *)
(***************************************************************************)
EXTENDS ContextCache, FiniteSetTheorems, TLAPS

-----------------------------------------------------------------------------
(* The inductive invariants.                                               *)

\* The program counters from lock() on, with the lock of the key held ...
Critical == {"search", "assemble", "sadd", "expire", "cleanup"}

\* ... or waited for ...
Queued == {"wait"} \cup Critical

\* ... and from lock_for_key on, with a reference to it.
Owning == {"try", "enqueue"} \cup Queued

\* A task refers to a lock while it is in compute_with_stampede.
Owned(ta) ==
  \A t \in Task :
    /\ ta[t].lock # NoLock <=> cfg.stampede /\ ta[t].pc \in Owning
    /\ ta[t].pc \in {"lock", "try", "enqueue", "wait", "cleanup"}
         => cfg.stampede

\* Who is queued at a lock, and who has it.
QueuesOK(ta, ls) ==
  /\ \A l \in Lock : \A t \in Range(ls[l]) :
       ta[t].lock = l /\ ta[t].pc \in Queued
  /\ \A t \in Task : cfg.stampede /\ ta[t].pc \in Queued =>
       /\ t \in Range(ls[ta[t].lock])
       /\ ta[t].pc \in Critical => Head(ls[ta[t].lock]) = t

\* Tasks that share a lock want the same key, and the map has one lock for a
\* key and one key for a lock.
OneKey(ta, inf) ==
  /\ \A t, u \in Task :
       ta[t].lock # NoLock /\ ta[t].lock = ta[u].lock => ta[t].key = ta[u].key
  /\ \A t \in Task, k \in Key :
       inf[k] # NoLock /\ inf[k] = ta[t].lock => ta[t].key = k
  /\ \A j, k \in Key : inf[k] # NoLock /\ inf[k] = inf[j] => j = k

\* A lock in the map belongs to somebody who will clean up.
Tended(ta, inf) ==
  \A k \in Key : inf[k] # NoLock =>
    \E t \in Task : ta[t].lock = inf[k] /\ ta[t].key = k

\* A refresh has the mark of its key, a mark has its one refresh, and who is at
\* rest refreshes nothing.
Marked(ta, re) ==
  /\ \A t \in Task : /\ ta[t].refresh => /\ ta[t].key \in re
                                         /\ ta[t].pc \notin {"idle", "any"}
                     /\ ta[t].pc = "unmark" => ta[t].refresh
  /\ \A t, u \in Task : ta[t].refresh /\ ta[u].refresh /\ ta[t].key = ta[u].key
       => t = u
  /\ \A k \in re : \E t \in Task : ta[t].refresh /\ ta[t].key = k

\* The books of the locks.
LockBooks ==
  /\ Owned(task) /\ QueuesOK(task, locks) /\ OneKey(task, inflight)
  /\ ~torn => Tended(task, inflight)

\* The books of the coordinator.
BooksInv ==
  /\ TypeOK
  /\ LockBooks
  /\ Marked(task, refreshing)
  /\ CapacityRespected

\* Between the search and the end of the store.
Storing == {"assemble", "sadd", "expire"}

\* An entry whose store is complete and that no invalidation overlapped.
Settled(e) == e # NoEntry /\ e.by = Done /\ ~e.raced

\* What a task is about to store is no older than the last invalidation, nor
\* is one under way that might miss it, unless they overlapped.
TasksCurrent ==
  \A t \in Task : task[t].pc \in Storing /\ ~task[t].raced =>
    task[t].ver >= floor /\ ~Invalidating

\* Nor is what is stored; in Redis the index lists it for as long as it lives,
\* and an invalidation under way has it on its list.
EntriesCurrent ==
  \A k \in Key : Settled(entries[k]) =>
    /\ entries[k].ver >= floor
    /\ cfg.backend = "redis" => k \in index /\ entries[k].life <= indexLife
    /\ writer = "members" => k \in members
    /\ writer # "delindex"

\* Redis removes what has expired.
Living ==
  \A k \in Key : cfg.backend = "redis" /\ entries[k] # NoEntry =>
    entries[k].life \in 1..(Ttl + StaleWindow)

\* The entry of a task between the commands of its store.
OwnStores ==
  \A t \in Task : task[t].pc \in {"sadd", "expire"} =>
    /\ cfg.backend = "redis"
    /\ entries[task[t].key] # NoEntry /\ entries[task[t].key].by = t
         => entries[task[t].key].ver = task[t].ver

FreshInv ==
  /\ TasksCurrent /\ EntriesCurrent /\ Living /\ OwnStores
  /\ Invalidating => cfg.backend = "redis"

\* Stampede protection is on, and nothing was written, failed, was dropped,
\* expired or was evicted.
Calm == cfg.stampede /\ ~upset

\* The lock of a key under which nobody has stored yet is the one in the map;
\* its holder computes, and has stored when it goes on.
Coalesced(t) ==
  LET k == task[t].key IN
  /\ task[t].pc \in Owning => inflight[k] = task[t].lock \/ entries[k] # NoEntry
  /\ Computing(t) => entries[k] = NoEntry /\ inflight[k] = task[t].lock
  /\ task[t].pc \in {"sadd", "expire", "cleanup"} => entries[k] # NoEntry

CalmInv ==
  Calm =>
    /\ writer = "idle"
    /\ \A k \in Key : entries[k] # NoEntry => IsFresh(entries[k])
    /\ \A t \in Task : Coalesced(t)

-----------------------------------------------------------------------------
\* The record of a task at rest has its type.
LEMMA IdleIsRec == Idle \in Rec
<1>1. (CHOOSE k \in Key : TRUE) \in Key
  BY CacheConstants
<1>2. 0 \in 0..MaxVersion
  BY CacheConstants
<1> QED
  BY <1>1, <1>2 DEF Idle, Rec, PC

\* Leaving a queue: the others stay, in their order, and so does the head.
LEMMA WithoutFacts ==
  ASSUME NEW q \in Seq(Task), IsInjective(q), NEW t
  PROVE  /\ Without(q, t) \in Seq(Task)
         /\ IsInjective(Without(q, t))
         /\ Range(Without(q, t)) = Range(q) \ {t}
         /\ q # << >> /\ Head(q) # t
              => Without(q, t) # << >> /\ Head(Without(q, t)) = Head(q)
<1> DEFINE i == CHOOSE j \in DOMAIN q : q[j] = t
           w == [j \in 1..(Len(q) - 1) |-> IF j < i THEN q[j] ELSE q[j + 1]]
<1>1. CASE t \notin Range(q)
  <2>1. Without(q, t) = q
    BY <1>1 DEF Without
  <2> QED
    BY <2>1, <1>1
<1>2. CASE t \in Range(q)
  <2>1. Without(q, t) = w
    BY <1>2 DEF Without
  <2>2. DOMAIN q = 1..Len(q) /\ Len(q) \in Nat
    OBVIOUS
  <2>3. i \in 1..Len(q) /\ q[i] = t
    BY <1>2, <2>2 DEF Range
  <2> HIDE DEF i
  <2>4. \A j \in 1..(Len(q) - 1) : j \in 1..Len(q) /\ j + 1 \in 1..Len(q)
    BY <2>2
  <2>5. Len(q) - 1 \in Nat
    BY <2>2, <2>3
  <2>6. w \in Seq(Task) /\ Len(w) = Len(q) - 1 /\ DOMAIN w = 1..(Len(q) - 1)
    BY <2>2, <2>4, <2>5
  <2>7. \A a, b \in 1..Len(q) : q[a] = q[b] => a = b
    BY <2>2 DEF IsInjective
  <2> DEFINE p(j) == IF j < i THEN j ELSE j + 1
  <2>8. \A j \in 1..(Len(q) - 1) : w[j] = q[p(j)]
    OBVIOUS
  <2>p. \A j \in 1..(Len(q) - 1) : p(j) \in 1..Len(q) /\ p(j) # i
    BY <2>2, <2>3
  <2>r. \A a, b \in 1..(Len(q) - 1) : p(a) = p(b) => a = b
    BY <2>2, <2>3
  <2>l. \A j \in 1..(Len(q) - 1) : j < i => p(j) = j
    OBVIOUS
  <2>g. \A j \in 1..(Len(q) - 1) : ~(j < i) => p(j) = j + 1
    OBVIOUS
  <2> HIDE DEF w, p
  <2>9. IsInjective(w)
    BY <2>6, <2>7, <2>8, <2>p, <2>r DEF IsInjective
  <2>10. \A j \in 1..(Len(q) - 1) : w[j] \in Range(q) /\ w[j] # t
    <3>1. \A x \in 1..Len(q) : q[x] \in Range(q)
      BY <2>2 DEF Range
    <3> QED
      BY <3>1, <2>3, <2>7, <2>8, <2>p
  <2>11. ASSUME NEW a \in 1..Len(q), q[a] # t
         PROVE  \E j \in 1..(Len(q) - 1) : w[j] = q[a]
    <3>1. CASE a < i
      <4>1. a \in 1..(Len(q) - 1)
        BY <3>1, <2>2, <2>3
      <4> QED
        BY <4>1, <3>1, <2>8, <2>l
    <3>2. CASE a > i
      <4>1. a - 1 \in 1..(Len(q) - 1) /\ ~(a - 1 < i) /\ (a - 1) + 1 = a
        BY <3>2, <2>2, <2>3
      <4> QED
        BY <4>1, <2>8, <2>g
    <3> QED
      BY <3>1, <3>2, <2>2, <2>3, <2>11
  <2>12. Range(w) = Range(q) \ {t}
    <3>1. \A x \in Range(w) : x \in Range(q) \ {t}
      BY <2>6, <2>10 DEF Range
    <3>2. ASSUME NEW x \in Range(q) \ {t}
          PROVE  x \in Range(w)
      <4>1. PICK a \in 1..Len(q) : q[a] = x
        BY <2>2 DEF Range
      <4>2. PICK j \in 1..(Len(q) - 1) : w[j] = q[a]
        BY <4>1, <2>11
      <4> QED
        BY <4>1, <4>2, <2>6 DEF Range
    <3> QED
      BY <3>1, <3>2
  <2>13. ASSUME q # << >>, Head(q) # t
         PROVE  w # << >> /\ Head(w) = Head(q)
    <3>1. Head(q) = q[1] /\ 1 < i
      BY <2>2, <2>3, <2>13
    <3>2. 1 \in 1..(Len(q) - 1)
      BY <3>1, <2>2, <2>3
    <3>3. w[1] = q[1]
      BY <3>1, <3>2, <2>8, <2>l
    <3>4. w # << >>
      BY <3>2, <2>6
    <3> QED
      BY <3>1, <3>3, <3>4, <2>6
  <2> QED
    BY <2>1, <2>6, <2>9, <2>12, <2>13
<1> QED
  BY <1>1, <1>2

\* The same for every queue at once (the guard or the waiter is dropped).
LEMMA UnqueuedFacts ==
  ASSUME TypeOK, NEW t \in Task
  PROVE  /\ Unqueued(t) \in [Lock -> Seq(Task)]
         /\ \A l \in Lock :
              /\ IsInjective(Unqueued(t)[l])
              /\ Range(Unqueued(t)[l]) = Range(locks[l]) \ {t}
              /\ locks[l] # << >> /\ Head(locks[l]) # t
                   => /\ Unqueued(t)[l] # << >>
                      /\ Head(Unqueued(t)[l]) = Head(locks[l])
<1>1. \A l \in Lock : locks[l] \in Seq(Task) /\ IsInjective(locks[l])
  BY DEF TypeOK
<1>2. \A l \in Lock : Unqueued(t)[l] = Without(locks[l], t)
  BY DEF Unqueued
<1>3. \A l \in Lock : Without(locks[l], t) \in Seq(Task)
  BY <1>1, WithoutFacts
<1>4. Unqueued(t) \in [Lock -> Seq(Task)]
  BY <1>3 DEF Unqueued
<1> QED
  BY <1>1, <1>2, <1>4, WithoutFacts

\* A cached entry is never taken for none.
LEMMA NoEntryApart == NoEntry \notin Entry
<1> SUFFICES ASSUME NoEntry \in Entry PROVE FALSE
  OBVIOUS
<1>1. NoEntry.life \in -1..(Ttl + StaleTtl)
  BY DEF Entry
<1>2. NoEntry.life = -2
  BY DEF NoEntry
<1> QED
  BY <1>1, <1>2, CacheConstants

\* get and get_any only ever remove, and leave fresh entries alone.
LEMMA AfterGetFacts ==
  ASSUME TypeOK, NEW k \in Key
  PROVE  /\ AfterGet(k) \in [Key -> Entry \cup {NoEntry}]
         /\ \A j \in Key : AfterGet(k)[j] \in {entries[j], NoEntry}
         /\ (entries[k] # NoEntry => IsFresh(entries[k]))
              => AfterGet(k) = entries
<1>1. entries \in [Key -> Entry \cup {NoEntry}]
  BY DEF TypeOK
<1>2. \A j \in Key : AfterGet(k)[j] \in {entries[j], NoEntry}
  BY <1>1 DEF AfterGet
<1>3. AfterGet(k) \in [Key -> Entry \cup {NoEntry}]
  BY <1>1 DEF AfterGet
<1>4. ASSUME entries[k] # NoEntry, IsFresh(entries[k])
      PROVE  ~IsFullyExpired(entries[k])
  <2>1. entries[k].life \in Int
    BY <1>1, <1>4 DEF Entry
  <2>2. StaleWindow \in Nat
    BY CacheConstants DEF StaleWindow
  <2> QED
    BY <2>1, <2>2, <1>4 DEF IsFresh, IsFullyExpired
<1>5. (entries[k] # NoEntry => IsFresh(entries[k])) => AfterGet(k) = entries
  BY <1>4 DEF AfterGet
<1> QED
  BY <1>2, <1>3, <1>5

\* set of the in-memory cache: within max_entries, and nothing but the new
\* entry is new.
LEMMA AfterSetFacts ==
  ASSUME TypeOK, NEW k \in Key, NEW e \in Entry, NEW es \in AfterSet(k, e)
  PROVE  /\ es \in [Key -> Entry \cup {NoEntry}]
         /\ Cardinality(Cached(es)) <= MaxEntries
         /\ \A j \in Key : \/ es[j] = NoEntry
                           \/ es[j] = IF j = k THEN e ELSE entries[j]
<1> DEFINE live == {j \in Key : entries[j] # NoEntry /\ ~IsFullyExpired(entries[j])}
           full == [j \in Key |-> IF j = k THEN e
                                  ELSE IF j \in live THEN entries[j] ELSE NoEntry]
           Kept(S) == /\ Cardinality(S) <= MaxEntries
                      /\ Cardinality(S) = MaxEntries \/ S = Cached(full)
                      /\ \A i \in S, j \in Cached(full) \ S :
                           full[j].life <= full[i].life
<1>1. PICK S \in {T \in SUBSET Cached(full) : Kept(T)} :
        es = [j \in Key |-> IF j \in S THEN full[j] ELSE NoEntry]
  BY DEF AfterSet
<1>2. S \subseteq Cached(full) /\ Cardinality(S) <= MaxEntries
  BY <1>1
<1>3. \A j \in Key : \/ full[j] = NoEntry
                     \/ full[j] = IF j = k THEN e ELSE entries[j]
  OBVIOUS
<1>4. \A j \in Key : full[j] # NoEntry <=> j \in Cached(full)
  BY DEF Cached
<1> HIDE DEF full, live
<1>5. \A j \in Key : es[j] = IF j \in S THEN full[j] ELSE NoEntry
  BY <1>1
<1>6. Cached(es) = S
  BY <1>2, <1>4, <1>5 DEF Cached
<1>7. \A j \in Key : \/ es[j] = NoEntry
                     \/ es[j] = IF j = k THEN e ELSE entries[j]
  BY <1>3, <1>5
<1>8. \A j \in Key : entries[j] \in Entry \cup {NoEntry}
  BY DEF TypeOK
<1>9. \A j \in Key : es[j] \in Entry \cup {NoEntry}
  BY <1>7, <1>8
<1>10. es \in [Key -> Entry \cup {NoEntry}]
  BY <1>1, <1>9
<1> QED
  BY <1>2, <1>6, <1>7, <1>10

-----------------------------------------------------------------------------
\* The numbers and bounds that the types give.
LEMMA Types ==
  ASSUME TypeOK
  PROVE  /\ cfg \in Config
         /\ StaleWindow \in Nat /\ StaleWindow <= StaleTtl
         /\ Ttl + StaleWindow \in 1..(Ttl + StaleTtl)
         /\ version \in 0..MaxVersion /\ floor \in 0..version
         /\ version \in Nat /\ floor \in Nat /\ floor <= version
<1>1. cfg \in Config
  BY CacheConstants DEF TypeOK
<1>2. StaleWindow \in Nat /\ StaleWindow <= StaleTtl
  BY CacheConstants DEF StaleWindow
<1>3. Ttl + StaleWindow \in 1..(Ttl + StaleTtl)
  BY <1>2, CacheConstants
<1> QED
  BY <1>1, <1>2, <1>3, CacheConstants DEF TypeOK

\* The fields of a record of a task.
LEMMA RecFields ==
  ASSUME NEW r \in Rec
  PROVE  /\ r.pc \in PC /\ r.key \in Key /\ r.refresh \in BOOLEAN
         /\ r.lock \in Lock \cup {NoLock} /\ r.waited \in BOOLEAN
         /\ r.ver \in 0..MaxVersion /\ r.raced \in BOOLEAN
BY DEF Rec

\* A move of one task.
LEMMA MoveType ==
  ASSUME TypeOK, NEW t \in Task, NEW r \in Rec, Move(t, r)
  PROVE  /\ task' \in [Task -> Rec]
         /\ task'[t] = r
         /\ \A u \in Task \ {t} : task'[u] = task[u]
BY DEF TypeOK, Move

\* The end of compute_with_stampede: a request is done, a refresh unmarks.
LEMMA ReturnType ==
  ASSUME TypeOK, NEW t \in Task, Return(t)
  PROVE  /\ task' \in [Task -> Rec]
         /\ locks' = Unqueued(t)
         /\ task'[t].key \in {task[t].key, Idle.key}
         /\ task'[t].lock = NoLock
         /\ task'[t].refresh = task[t].refresh
         /\ task'[t].pc = IF task[t].refresh THEN "unmark" ELSE "idle"
         /\ task[t].refresh => task'[t].key = task[t].key
         /\ \A u \in Task \ {t} : task'[u] = task[u]
<1> DEFINE un == [Idle EXCEPT !.pc = "unmark", !.key = task[t].key,
                              !.refresh = TRUE]
<1>1. task[t] \in Rec
  BY DEF TypeOK
<1>2. un \in Rec /\ un.pc = "unmark" /\ un.key = task[t].key
      /\ un.refresh = TRUE /\ un.lock = NoLock
  BY <1>1, IdleIsRec DEF Rec, PC, Idle
<1>3. Idle.refresh = FALSE /\ Idle.lock = NoLock /\ Idle.pc = "idle"
  BY DEF Idle
<1>4. locks' = Unqueued(t)
  BY DEF Return
<1>5. task[t].refresh \in BOOLEAN
  BY <1>1 DEF Rec
<1>6. Move(t, IF task[t].refresh THEN un ELSE Idle)
  BY DEF Return
<1> HIDE DEF un
<1>7. CASE task[t].refresh
  <2>1. Move(t, un)
    BY <1>6, <1>7
  <2> QED
    BY <2>1, <1>2, <1>4, <1>5, <1>7, MoveType
<1>8. CASE ~task[t].refresh
  <2>1. Move(t, Idle)
    BY <1>6, <1>8
  <2> QED
    BY <2>1, <1>3, <1>4, <1>5, <1>8, IdleIsRec, MoveType
<1> QED
  BY <1>7, <1>8

\* What the locks look like after t has left every queue, as for TypeOK.
LEMMA UnqueuedType ==
  ASSUME TypeOK, NEW t \in Task, locks' = Unqueued(t)
  PROVE  /\ locks' \in [Lock -> Seq(Task)]
         /\ \A l \in Lock : IsInjective(locks'[l])
BY UnqueuedFacts

\* The fields of what is stored.
LEMMA NewEntryType ==
  ASSUME TypeOK, NEW t \in Task, NEW by \in Task \cup {Done}
  PROVE  /\ NewEntry(t, by) \in Entry
         /\ NewEntry(t, by).ver = task[t].ver
         /\ NewEntry(t, by).by = by
         /\ NewEntry(t, by).raced = task[t].raced
         /\ NewEntry(t, by).life = Ttl + StaleWindow
<1>1. task[t] \in Rec
  BY DEF TypeOK
<1>2. Ttl + StaleWindow \in -1..(Ttl + StaleTtl)
  BY Types, CacheConstants
<1> QED
  BY <1>1, <1>2 DEF NewEntry, Entry, Rec

\* Stored moves to the cleanup or returns.
LEMMA StoredType ==
  ASSUME TypeOK, NEW t \in Task, Stored(t)
  PROVE  /\ task' \in [Task -> Rec]
         /\ \A u \in Task \ {t} : task'[u] = task[u]
         /\ locks' \in [Lock -> Seq(Task)]
         /\ \A l \in Lock : IsInjective(locks'[l])
         /\ task'[t].pc \in {"cleanup", "unmark", "idle"}
         /\ cfg.stampede => /\ locks' = locks
                            /\ task'[t].pc = "cleanup"
                            /\ task'[t].key = task[t].key
                            /\ task'[t].lock = task[t].lock
                            /\ task'[t].refresh = task[t].refresh
         /\ ~cfg.stampede => Return(t)
<1>1. task[t] \in Rec
  BY DEF TypeOK
<1>2. CASE cfg.stampede
  <2> DEFINE r == [task[t] EXCEPT !.pc = "cleanup", !.ver = 0, !.raced = FALSE]
  <2>1. 0 \in 0..MaxVersion
    BY CacheConstants
  <2>2. /\ r \in Rec /\ r.pc = "cleanup" /\ r.key = task[t].key
        /\ r.lock = task[t].lock /\ r.refresh = task[t].refresh
    BY <1>1, <2>1 DEF Rec, PC
  <2>3. Move(t, r) /\ locks' = locks
    BY <1>2 DEF Stored
  <2>4. locks \in [Lock -> Seq(Task)] /\ \A l \in Lock : IsInjective(locks[l])
    BY DEF TypeOK
  <2> HIDE DEF r
  <2> QED
    BY <1>2, <2>2, <2>3, <2>4, MoveType
<1>3. CASE ~cfg.stampede
  <2>1. Return(t)
    BY <1>3 DEF Stored
  <2> QED
    BY <1>3, <2>1, ReturnType, UnqueuedType
<1> QED
  BY <1>2, <1>3

-----------------------------------------------------------------------------
\* Two records of a task that agree on what the coordinator's books tell.
Alike(r, s) == r.key = s.key /\ r.lock = s.lock /\ r.refresh = s.refresh

\* t is the one task that moves.
Moves(t) == /\ task' \in [Task -> Rec]
            /\ \A u \in Task \ {t} : task'[u] = task[u]

\* A task that only goes on.
LEMMA ToType ==
  ASSUME TypeOK, NEW t \in Task, NEW pc \in PC, To(t, pc)
  PROVE  /\ Moves(t)
         /\ task'[t].pc = pc /\ Alike(task'[t], task[t])
         /\ task'[t].ver = task[t].ver /\ task'[t].raced = task[t].raced
<1> DEFINE r == [task[t] EXCEPT !.pc = pc]
<1>1. task[t] \in Rec
  BY DEF TypeOK
<1>2. r \in Rec /\ r.pc = pc /\ Alike(r, task[t])
      /\ r.ver = task[t].ver /\ r.raced = task[t].raced
  BY <1>1 DEF Rec, Alike
<1>3. Move(t, r)
  BY DEF To
<1> HIDE DEF r
<1> QED
  BY <1>2, <1>3, MoveType DEF Moves

\* A task that has got its lock.
LEMMA LockedType ==
  ASSUME TypeOK, NEW t \in Task, NEW pc \in PC, Locked(t, pc)
  PROVE  Moves(t) /\ task'[t].pc = pc /\ Alike(task'[t], task[t])
<1> DEFINE r == [task[t] EXCEPT !.pc = pc, !.waited = FALSE]
<1>1. task[t] \in Rec
  BY DEF TypeOK
<1>2. r \in Rec /\ r.pc = pc /\ Alike(r, task[t])
  BY <1>1 DEF Rec, Alike
<1>3. Move(t, r)
  BY DEF Locked
<1> HIDE DEF r
<1> QED
  BY <1>2, <1>3, MoveType DEF Moves

\* A task that enters compute_with_stampede.
LEMMA MissType ==
  ASSUME TypeOK, NEW t \in Task, NEW b \in BOOLEAN, Miss(t, b)
  PROVE  /\ Moves(t)
         /\ task'[t].pc = IF cfg.stampede THEN "lock" ELSE "search"
         /\ task'[t].key = task[t].key /\ task'[t].lock = task[t].lock
         /\ task'[t].refresh = b
<1> DEFINE pc == IF cfg.stampede THEN "lock" ELSE "search"
           r  == [task[t] EXCEPT !.refresh = b, !.pc = pc]
<1>1. task[t] \in Rec
  BY DEF TypeOK
<1>2. pc \in PC
  BY DEF PC
<1>3. Move(t, r)
  BY DEF Miss
<1> HIDE DEF pc
<1>4. r \in Rec /\ r.pc = pc /\ r.key = task[t].key /\ r.lock = task[t].lock
      /\ r.refresh = b
  BY <1>1, <1>2 DEF Rec
<1> HIDE DEF r
<1>5. Moves(t) /\ task'[t] = r
  BY <1>3, <1>4, MoveType DEF Moves
<1> QED
  BY <1>4, <1>5 DEF pc

\* A task that ends.
LEMMA ToIdleType ==
  ASSUME TypeOK, NEW t \in Task, Move(t, Idle)
  PROVE  /\ Moves(t)
         /\ task'[t].pc = "idle" /\ task'[t].lock = NoLock
         /\ task'[t].refresh = FALSE
BY IdleIsRec, MoveType DEF Moves, Idle

\* Where get_or_compute leaves a request.
LEMMA GetMoves ==
  ASSUME TypeOK, NEW t \in Task, NEW k \in Key, Get(t, k)
  PROVE  /\ task[t].pc = "idle"
         /\ \/ task' = task
            \/ /\ Moves(t)
               /\ task'[t].pc = IF cfg.swr THEN "any"
                                ELSE IF cfg.stampede THEN "lock" ELSE "search"
               /\ task'[t].key = k /\ task'[t].lock = NoLock
               /\ task'[t].refresh = FALSE
<1> DEFINE pc == CASE cfg.swr -> "any"
                   [] ~cfg.swr /\ cfg.stampede -> "lock"
                   [] OTHER -> "search"
           r  == [Idle EXCEPT !.key = k, !.pc = pc]
<1>1. pc = IF cfg.swr THEN "any" ELSE IF cfg.stampede THEN "lock" ELSE "search"
  OBVIOUS
<1>2. pc \in PC
  BY <1>1 DEF PC
<1>3. task[t].pc = "idle"
  BY DEF Get
<1>4. CASE Hit(k)
  BY <1>3, <1>4 DEF Get
<1>5. CASE ~Hit(k)
  <2>1. Move(t, r)
    BY <1>5 DEF Get
  <2> HIDE DEF pc
  <2>2. r \in Rec /\ r.pc = pc /\ r.key = k /\ r.lock = NoLock
        /\ r.refresh = FALSE
    <3>1. /\ Idle.lock = NoLock /\ Idle.refresh = FALSE
          /\ \A f \in {"lock", "refresh"} : r[f] = Idle[f]
          /\ r.pc = pc /\ r.key = k
      BY <1>2, IdleIsRec DEF Idle
    <3>2. r \in Rec
      BY <1>2, IdleIsRec DEF Rec
    <3> QED
      BY <3>1, <3>2
  <2> HIDE DEF r
  <2> QED
    BY <1>1, <1>3, <2>1, <2>2, MoveType DEF Moves
<1> QED
  BY <1>4, <1>5

\* lock_for_key finds the lock of the key or makes one that nobody refers to.
LEMMA LockForKeyMoves ==
  ASSUME TypeOK, NEW t \in Task, LockForKey(t)
  PROVE  \E l \in Lock :
           /\ inflight[task[t].key] = NoLock => l \in Unused
           /\ inflight[task[t].key] # NoLock => l = inflight[task[t].key]
           /\ inflight' = [inflight EXCEPT ![task[t].key] = l]
           /\ Moves(t)
           /\ task'[t].pc = "try" /\ task'[t].key = task[t].key
           /\ task'[t].lock = l /\ task'[t].refresh = task[t].refresh
<1> DEFINE k == task[t].key
           l == IF inflight[k] # NoLock THEN inflight[k]
                ELSE CHOOSE u \in Unused : TRUE
           r == [task[t] EXCEPT !.pc = "try", !.lock = l]
<1>1. task[t] \in Rec /\ k \in Key /\ inflight[k] \in Lock \cup {NoLock}
  BY DEF TypeOK, Rec
<1>2. inflight[k] = NoLock => Unused # {}
  BY DEF LockForKey
<1>3. inflight[k] = NoLock => l \in Unused
  BY <1>2
<1>4. l \in Lock
  BY <1>1, <1>3 DEF Unused
<1>5. inflight' = [inflight EXCEPT ![k] = l] /\ Move(t, r)
  BY DEF LockForKey
<1>6. inflight[k] # NoLock => l = inflight[k]
  OBVIOUS
<1> HIDE DEF l
<1>7. r \in Rec /\ r.pc = "try" /\ r.key = k /\ r.lock = l
      /\ r.refresh = task[t].refresh
  BY <1>1, <1>4 DEF Rec, PC
<1> HIDE DEF r
<1>8. Moves(t) /\ task'[t] = r
  BY <1>5, <1>7, MoveType DEF Moves
<1> QED
  BY <1>3, <1>4, <1>5, <1>6, <1>7, <1>8

\* try_lock only tells whether to wait with the timeout.
LEMMA TryLockMoves ==
  ASSUME TypeOK, NEW t \in Task, TryLock(t)
  PROVE  Moves(t) /\ task'[t].pc = "enqueue" /\ Alike(task'[t], task[t])
<1> DEFINE b == locks[task[t].lock] # << >>
           r == [task[t] EXCEPT !.pc = "enqueue", !.waited = b]
<1>1. task[t] \in Rec
  BY DEF TypeOK
<1>2. Move(t, r)
  BY DEF TryLock
<1>3. b \in BOOLEAN
  OBVIOUS
<1> HIDE DEF b
<1>4. r \in Rec /\ r.pc = "enqueue" /\ Alike(r, task[t])
  BY <1>1, <1>3 DEF Rec, PC, Alike
<1> HIDE DEF r
<1> QED
  BY <1>2, <1>4, MoveType DEF Moves

\* search_memory: the version is read, and whether an invalidation is on.
LEMMA SearchMoves ==
  ASSUME TypeOK, NEW t \in Task, Search(t)
  PROVE  /\ Moves(t) /\ task'[t].pc = "assemble" /\ Alike(task'[t], task[t])
         /\ task'[t].ver = version /\ task'[t].raced = Invalidating
<1> DEFINE r == [task[t] EXCEPT !.pc = "assemble", !.ver = version,
                                !.raced = Invalidating]
<1>1. task[t] \in Rec
  BY DEF TypeOK
<1>2. Move(t, r)
  BY DEF Search
<1>3. Invalidating \in BOOLEAN /\ version \in 0..MaxVersion
  BY DEF Invalidating, TypeOK
<1>4. r \in Rec /\ r.pc = "assemble" /\ Alike(r, task[t])
      /\ r.ver = version /\ r.raced = Invalidating
  BY <1>1, <1>3 DEF Rec, PC, Alike
<1> HIDE DEF r
<1> QED
  BY <1>2, <1>4, MoveType DEF Moves

\* Overtaken only sets marks.
LEMMA OvertakenType ==
  ASSUME TypeOK
  PROVE  /\ Overtaken \in [Task -> Rec]
         /\ \A t \in Task :
              /\ Overtaken[t].pc = task[t].pc /\ Alike(Overtaken[t], task[t])
              /\ Overtaken[t].ver = task[t].ver
              /\ Overtaken[t].pc \in Storing => Overtaken[t].raced
<1>1. ASSUME NEW t \in Task
      PROVE  /\ Overtaken[t] \in Rec
             /\ Overtaken[t].pc = task[t].pc /\ Alike(Overtaken[t], task[t])
             /\ Overtaken[t].ver = task[t].ver
             /\ Overtaken[t].pc \in Storing => Overtaken[t].raced
  <2> DEFINE r == [task[t] EXCEPT !.raced = TRUE]
  <2>1. task[t] \in Rec
    BY DEF TypeOK
  <2>2. r \in Rec /\ r.pc = task[t].pc /\ Alike(r, task[t])
        /\ r.ver = task[t].ver /\ r.raced = TRUE
    BY <2>1 DEF Rec, Alike
  <2>3. Overtaken[t] = IF task[t].pc \in Storing THEN r ELSE task[t]
    BY DEF Overtaken, Storing
  <2> HIDE DEF r
  <2> QED
    BY <2>1, <2>2, <2>3 DEF Alike
<1>2. Overtaken \in [Task -> Rec]
  BY <1>1 DEF Overtaken
<1> QED
  BY <1>1, <1>2

-----------------------------------------------------------------------------
(* The types.                                                              *)

\* The types hold at the start.
LEMMA InitTyped ==
  ASSUME Init
  PROVE  TypeOK
<1>1. IsInjective(<< >>) /\ << >> \in Seq(Task)
  BY DEF IsInjective
<1>2. Ttl + StaleTtl \in Nat /\ 0 \in 0..MaxVersion
  BY CacheConstants
<1>3. /\ entries \in [Key -> Entry \cup {NoEntry}]
      /\ inflight \in [Key -> Lock \cup {NoLock}]
      /\ task \in [Task -> Rec]
  BY IdleIsRec DEF Init
<1>4. /\ locks \in [Lock -> Seq(Task)]
      /\ \A l \in Lock : IsInjective(locks[l])
  BY <1>1 DEF Init
<1>5. indexLife \in -1..(Ttl + StaleTtl)
  BY <1>2 DEF Init
<1>6. version \in 0..MaxVersion /\ floor \in 0..version
  BY <1>2 DEF Init
<1>7. /\ cfg \in Configs /\ writer \in Writing
      /\ index \subseteq Key /\ members \subseteq Key /\ refreshing \subseteq Key
      /\ upset \in BOOLEAN /\ torn \in BOOLEAN
  BY DEF Init, Writing
<1> QED
  BY <1>3, <1>4, <1>5, <1>6, <1>7 DEF TypeOK

\* What a step of a task leaves alone, as for TypeOK.
LEMMA TaskTyped ==
  ASSUME TypeOK, NEW t \in Task, cfg' = cfg, UNCHANGED writeVars, Moves(t),
         entries' \in [Key -> Entry \cup {NoEntry}],
         index' \subseteq Key, indexLife' \in -1..(Ttl + StaleTtl),
         inflight' \in [Key -> Lock \cup {NoLock}],
         locks' \in [Lock -> Seq(Task)],
         \A l \in Lock : IsInjective(locks'[l]),
         refreshing' \subseteq Key,
         upset' \in BOOLEAN, torn' \in BOOLEAN
  PROVE  TypeOK'
BY DEF TypeOK, writeVars, Moves

\* The parts of the type invariant, for what a step leaves alone.
LEMMA UnchangedTyped ==
  ASSUME TypeOK
  PROVE  /\ entries \in [Key -> Entry \cup {NoEntry}]
         /\ index \subseteq Key /\ indexLife \in -1..(Ttl + StaleTtl)
         /\ inflight \in [Key -> Lock \cup {NoLock}]
         /\ locks \in [Lock -> Seq(Task)]
         /\ \A l \in Lock : IsInjective(locks[l])
         /\ refreshing \subseteq Key
         /\ upset \in BOOLEAN /\ torn \in BOOLEAN
         /\ \A t \in Task : task[t] \in Rec /\ task[t].key \in Key
BY DEF TypeOK, Rec

\* Get keeps the types.
LEMMA GetTyped ==
  ASSUME TypeOK, NEW t \in Task, NEW k \in Key, Get(t, k)
  PROVE  TypeOK'
<1>1. entries' \in [Key -> Entry \cup {NoEntry}]
  BY AfterGetFacts DEF Get
<1>2. Moves(t)
  <2>1. task \in [Task -> Rec]
    BY DEF TypeOK
  <2> QED
    BY <2>1, GetMoves DEF Moves
<1> QED
  BY <1>1, <1>2, TaskTyped, UnchangedTyped DEF Get, lockVars

\* GetAny keeps the types.
LEMMA GetAnyTyped ==
  ASSUME TypeOK, NEW t \in Task, GetAny(t)
  PROVE  TypeOK'
<1>1. task[t].key \in Key
  BY UnchangedTyped
<1>2. entries' \in [Key -> Entry \cup {NoEntry}]
  BY <1>1, AfterGetFacts DEF GetAny
<1>3. Miss(t, TRUE) \/ Miss(t, FALSE) \/ Move(t, Idle)
  BY DEF GetAny
<1>4. Moves(t)
  BY <1>3, MissType, ToIdleType
<1>5. refreshing' \subseteq Key
  BY <1>1, UnchangedTyped DEF GetAny
<1> QED
  BY <1>2, <1>4, <1>5, TaskTyped, UnchangedTyped DEF GetAny, lockVars

\* LockForKey keeps the types.
LEMMA LockForKeyTyped ==
  ASSUME TypeOK, NEW t \in Task, LockForKey(t)
  PROVE  TypeOK'
<1>1. PICK l \in Lock : inflight' = [inflight EXCEPT ![task[t].key] = l] /\ Moves(t)
  BY LockForKeyMoves
<1>2. inflight' \in [Key -> Lock \cup {NoLock}]
  BY <1>1, UnchangedTyped
<1> QED
  BY <1>1, <1>2, TaskTyped, UnchangedTyped DEF LockForKey, cacheVars

\* TryLock keeps the types.
LEMMA TryLockTyped ==
  ASSUME TypeOK, NEW t \in Task, TryLock(t)
  PROVE  TypeOK'
BY TryLockMoves, TaskTyped, UnchangedTyped DEF TryLock, cacheVars, lockVars

\* Append at the end of a queue in which t is not yet.
LEMMA AppendFacts ==
  ASSUME NEW q \in Seq(Task), IsInjective(q), NEW t \in Task, t \notin Range(q)
  PROVE  /\ Append(q, t) \in Seq(Task) /\ IsInjective(Append(q, t))
         /\ Range(Append(q, t)) = Range(q) \cup {t}
         /\ q # << >> => Head(Append(q, t)) = Head(q)
         /\ Append(q, t) # << >>
<1> DEFINE w == Append(q, t)
<1>1. Len(q) \in Nat /\ DOMAIN q = 1..Len(q)
  OBVIOUS
<1>2. /\ w \in Seq(Task) /\ Len(w) = Len(q) + 1 /\ DOMAIN w = 1..(Len(q) + 1)
      /\ w[Len(q) + 1] = t /\ \A j \in 1..Len(q) : w[j] = q[j]
  OBVIOUS
<1>3. \A j \in 1..Len(q) : q[j] # t
  BY <1>1 DEF Range
<1>4. \A a, b \in 1..Len(q) : q[a] = q[b] => a = b
  BY <1>1 DEF IsInjective
<1>5. q # << >> => Head(q) = q[1] /\ 1 \in 1..Len(q)
  BY <1>1
<1>6. w # << >> /\ Head(w) = w[1]
  BY <1>1, <1>2
<1> HIDE DEF w
<1>7. \A j \in 1..(Len(q) + 1) : j \in 1..Len(q) \/ j = Len(q) + 1
  BY <1>1
<1>8. \A j \in 1..Len(q) : j \in 1..(Len(q) + 1)
  BY <1>1
<1>9. Len(q) + 1 \in 1..(Len(q) + 1)
  BY <1>1
<1>10. IsInjective(w)
  BY <1>2, <1>3, <1>4, <1>7 DEF IsInjective
<1>11. Range(w) = Range(q) \cup {t}
  BY <1>1, <1>2, <1>7, <1>8, <1>9 DEF Range
<1> QED
  BY <1>2, <1>5, <1>6, <1>10, <1>11 DEF w

\* Where t is queued and which lock it refers to.
LEMMA Places ==
  ASSUME TypeOK, Owned(task), NEW t \in Task, task[t].pc \in Owning, cfg.stampede
  PROVE  task[t].lock \in Lock
<1>1. task[t] \in Rec
  BY DEF TypeOK
<1> QED
  BY <1>1 DEF Owned, Rec

\* lock(): the task goes to the end of the queue of its lock.
LEMMA EnqueueFacts ==
  ASSUME TypeOK, Owned(task), QueuesOK(task, locks), NEW t \in Task, Enqueue(t)
  PROVE  /\ Moves(t) /\ task'[t].pc = "wait" /\ Alike(task'[t], task[t])
         /\ task[t].lock \in Lock /\ cfg.stampede
         /\ locks' \in [Lock -> Seq(Task)]
         /\ \A l \in Lock : IsInjective(locks'[l])
         /\ \A l \in Lock \ {task[t].lock} : locks'[l] = locks[l]
         /\ Range(locks'[task[t].lock]) = Range(locks[task[t].lock]) \cup {t}
         /\ locks[task[t].lock] # << >>
              => Head(locks'[task[t].lock]) = Head(locks[task[t].lock])
<1> DEFINE l == task[t].lock
<1>1. Moves(t) /\ task'[t].pc = "wait" /\ Alike(task'[t], task[t])
  BY ToType DEF Enqueue, PC
<1>2. task[t].pc = "enqueue" /\ cfg.stampede
  BY DEF Enqueue, Owned
<1>3. l \in Lock
  BY <1>2, Places DEF Owning
<1>4. t \notin Range(locks[l])
  BY <1>2, <1>3 DEF QueuesOK, Queued, Critical
<1>5. locks[l] \in Seq(Task) /\ IsInjective(locks[l])
  BY <1>3 DEF TypeOK
<1> DEFINE q == Append(locks[l], t)
<1>6. /\ q \in Seq(Task) /\ IsInjective(q)
      /\ Range(q) = Range(locks[l]) \cup {t}
      /\ locks[l] # << >> => Head(q) = Head(locks[l])
  BY <1>4, <1>5, AppendFacts
<1>7. locks' = [locks EXCEPT ![l] = q]
  BY DEF Enqueue
<1> HIDE DEF l, q
<1>8. /\ locks' \in [Lock -> Seq(Task)] /\ locks'[l] = q
      /\ \A m \in Lock \ {l} : locks'[m] = locks[m]
  BY <1>3, <1>6, <1>7 DEF TypeOK
<1>9. \A m \in Lock : IsInjective(locks'[m])
  BY <1>6, <1>8 DEF TypeOK
<1> QED
  BY <1>1, <1>2, <1>3, <1>6, <1>8, <1>9 DEF l

\* Enqueue keeps the types.
LEMMA EnqueueTyped ==
  ASSUME TypeOK, Owned(task), QueuesOK(task, locks), NEW t \in Task, Enqueue(t)
  PROVE  TypeOK'
BY EnqueueFacts, TaskTyped, UnchangedTyped DEF Enqueue, cacheVars

\* Recheck keeps the types.
LEMMA RecheckTyped ==
  ASSUME TypeOK, NEW t \in Task, Recheck(t)
  PROVE  TypeOK'
<1>1. task[t].key \in Key
  BY UnchangedTyped
<1>2. entries' \in [Key -> Entry \cup {NoEntry}]
  BY <1>1, AfterGetFacts DEF Recheck
<1>3. Moves(t)
  BY LockedType DEF Recheck, PC
<1> QED
  BY <1>2, <1>3, TaskTyped, UnchangedTyped DEF Recheck, lockVars

\* Search keeps the types.
LEMMA SearchTyped ==
  ASSUME TypeOK, NEW t \in Task, Search(t)
  PROVE  TypeOK'
BY SearchMoves, TaskTyped, UnchangedTyped DEF Search, cacheVars, lockVars

\* Those that leave: lock_timeout, Redis errors, dropped futures.
LEMMA ReturnMoves ==
  ASSUME TypeOK, NEW t \in Task, Return(t)
  PROVE  /\ Moves(t)
         /\ locks' \in [Lock -> Seq(Task)]
         /\ \A l \in Lock : IsInjective(locks'[l])
BY ReturnType, UnqueuedType DEF Moves

\* LockTimeout keeps the types.
LEMMA LockTimeoutTyped ==
  ASSUME TypeOK, NEW t \in Task, LockTimeout(t)
  PROVE  TypeOK'
<1>1. Return(t)
  BY DEF LockTimeout, ReturnErr
<1> QED
  BY <1>1, ReturnMoves, TaskTyped, UnchangedTyped DEF LockTimeout, cacheVars

\* SearchFails keeps the types.
LEMMA SearchFailsTyped ==
  ASSUME TypeOK, NEW t \in Task, SearchFails(t)
  PROVE  TypeOK'
<1>1. CASE cfg.stampede
  <2>1. To(t, "cleanup") /\ locks' = locks
    BY <1>1 DEF SearchFails
  <2>2. Moves(t)
    BY <2>1, ToType DEF PC
  <2> QED
    BY <2>1, <2>2, TaskTyped, UnchangedTyped DEF SearchFails, cacheVars
<1>2. CASE ~cfg.stampede
  <2>1. Return(t)
    BY <1>2 DEF SearchFails, ReturnErr
  <2> QED
    BY <2>1, ReturnMoves, TaskTyped, UnchangedTyped DEF SearchFails, cacheVars
<1> QED
  BY <1>1, <1>2

\* SetMemory keeps the types.
LEMMA SetMemoryTyped ==
  ASSUME TypeOK, NEW t \in Task, SetMemory(t)
  PROVE  TypeOK'
<1>1. task[t].key \in Key /\ NewEntry(t, Done) \in Entry
  BY UnchangedTyped, NewEntryType
<1>2. entries' \in [Key -> Entry \cup {NoEntry}]
  BY <1>1, AfterSetFacts DEF SetMemory
<1>3. Stored(t)
  BY DEF SetMemory
<1>4. /\ Moves(t) /\ locks' \in [Lock -> Seq(Task)]
      /\ \A l \in Lock : IsInjective(locks'[l])
  BY <1>3, StoredType DEF Moves
<1>5. upset' \in BOOLEAN
  BY UnchangedTyped DEF SetMemory
<1> QED
  BY <1>2, <1>4, <1>5, TaskTyped, UnchangedTyped DEF SetMemory

\* SetRedis keeps the types.
LEMMA SetRedisTyped ==
  ASSUME TypeOK, NEW t \in Task, SetRedis(t)
  PROVE  TypeOK'
<1>1. task[t].key \in Key /\ NewEntry(t, t) \in Entry
  BY UnchangedTyped, NewEntryType
<1>2. entries' \in [Key -> Entry \cup {NoEntry}]
  BY <1>1, UnchangedTyped DEF SetRedis
<1>3. Moves(t)
  BY ToType DEF SetRedis, PC
<1> QED
  BY <1>2, <1>3, TaskTyped, UnchangedTyped DEF SetRedis, lockVars

\* SaddRedis keeps the types.
LEMMA SaddRedisTyped ==
  ASSUME TypeOK, NEW t \in Task, SaddRedis(t)
  PROVE  TypeOK'
<1>1. Moves(t)
  BY ToType DEF SaddRedis, PC
<1>2. index' \subseteq Key
  BY UnchangedTyped DEF SaddRedis
<1> QED
  BY <1>1, <1>2, TaskTyped, UnchangedTyped DEF SaddRedis, lockVars

\* The entry that EXPIRE completes.
LEMMA ExpireEntries ==
  ASSUME TypeOK, NEW t \in Task, ExpireRedis(t)
  PROVE  LET k == task[t].key IN
         /\ entries' \in [Key -> Entry \cup {NoEntry}]
         /\ \A j \in Key \ {k} : entries'[j] = entries[j]
         /\ entries[k] = NoEntry <=> entries'[k] = NoEntry
         /\ entries[k] # NoEntry => /\ entries'[k].ver = entries[k].ver
                                    /\ entries'[k].life = entries[k].life
         /\ \/ entries'[k] = entries[k]
            \/ /\ entries[k] # NoEntry /\ entries[k].by = t /\ k \in index
               /\ entries'[k].by = Done /\ entries'[k].raced = task[t].raced
<1> DEFINE k == task[t].key
           e == [entries[k] EXCEPT !.by = Done, !.raced = task[t].raced]
<1>1. task[t] \in Rec /\ k \in Key /\ task[t].raced \in BOOLEAN
  BY DEF TypeOK, Rec
<1>2. entries \in [Key -> Entry \cup {NoEntry}]
  BY DEF TypeOK
<1>3. CASE entries[k] # NoEntry /\ entries[k].by = t /\ k \in index
  <2>1. entries[k] \in Entry
    BY <1>1, <1>2, <1>3
  <2>2. /\ e \in Entry /\ e.by = Done /\ e.raced = task[t].raced
        /\ e.ver = entries[k].ver /\ e.life = entries[k].life
    BY <1>1, <2>1 DEF Entry
  <2>3. entries' = [entries EXCEPT ![k] = e]
    BY <1>1, <1>2, <1>3 DEF ExpireRedis
  <2>4. e # NoEntry
    BY <2>2, NoEntryApart
  <2> HIDE DEF e, k
  <2>5. entries'[k] = e /\ \A j \in Key \ {k} : entries'[j] = entries[j]
    BY <1>1, <1>2, <2>3
  <2>6. entries' \in [Key -> Entry \cup {NoEntry}]
    BY <1>1, <1>2, <2>2, <2>3
  <2>7. /\ entries' \in [Key -> Entry \cup {NoEntry}]
        /\ \A j \in Key \ {k} : entries'[j] = entries[j]
        /\ entries[k] = NoEntry <=> entries'[k] = NoEntry
        /\ entries[k] # NoEntry => /\ entries'[k].ver = entries[k].ver
                                   /\ entries'[k].life = entries[k].life
        /\ entries'[k].by = Done /\ entries'[k].raced = task[t].raced
    BY <1>3, <2>2, <2>4, <2>5, <2>6
  <2> QED
    BY <1>3, <2>7 DEF k
<1>4. CASE ~(entries[k] # NoEntry /\ entries[k].by = t /\ k \in index)
  <2>1. entries' = entries
    BY <1>4 DEF ExpireRedis
  <2> QED
    BY <1>2, <2>1
<1> QED
  BY <1>3, <1>4

\* ExpireRedis keeps the types.
LEMMA ExpireRedisTyped ==
  ASSUME TypeOK, NEW t \in Task, ExpireRedis(t)
  PROVE  TypeOK'
<1>1. entries' \in [Key -> Entry \cup {NoEntry}]
  BY ExpireEntries
<1>2. Stored(t)
  BY DEF ExpireRedis
<1>3. /\ Moves(t) /\ locks' \in [Lock -> Seq(Task)]
      /\ \A l \in Lock : IsInjective(locks'[l])
  BY <1>2, StoredType DEF Moves
<1>4. indexLife' = indexLife \/ indexLife' = Ttl + StaleWindow
  BY DEF ExpireRedis
<1>5. Ttl + StaleWindow \in -1..(Ttl + StaleTtl)
  BY Types, CacheConstants
<1>6. indexLife' \in -1..(Ttl + StaleTtl)
  BY <1>4, <1>5, UnchangedTyped
<1> QED
  BY <1>1, <1>3, <1>6, TaskTyped, UnchangedTyped DEF ExpireRedis

\* RedisFails keeps the types.
LEMMA RedisFailsTyped ==
  ASSUME TypeOK, NEW t \in Task, RedisFails(t)
  PROVE  TypeOK'
<1>1. Return(t)
  BY DEF RedisFails, ReturnErr
<1>2. torn' \in BOOLEAN /\ upset' \in BOOLEAN
  BY UnchangedTyped DEF RedisFails
<1> QED
  BY <1>1, <1>2, ReturnMoves, TaskTyped, UnchangedTyped DEF RedisFails, cacheVars

\* Cleanup keeps the types.
LEMMA CleanupTyped ==
  ASSUME TypeOK, NEW t \in Task, Cleanup(t)
  PROVE  TypeOK'
<1>1. Return(t)
  BY DEF Cleanup
<1>2. inflight' \in [Key -> Lock \cup {NoLock}]
  BY UnchangedTyped DEF Cleanup
<1> QED
  BY <1>1, <1>2, ReturnMoves, TaskTyped, UnchangedTyped DEF Cleanup, cacheVars

\* FinishRefresh keeps the types.
LEMMA FinishRefreshTyped ==
  ASSUME TypeOK, NEW t \in Task, FinishRefresh(t)
  PROVE  TypeOK'
<1>1. Moves(t)
  BY ToIdleType DEF FinishRefresh
<1>2. refreshing' \subseteq Key
  BY UnchangedTyped DEF FinishRefresh
<1> QED
  BY <1>1, <1>2, TaskTyped, UnchangedTyped
     DEF FinishRefresh, cacheVars, lockVars

\* Drop keeps the types.
LEMMA DropTyped ==
  ASSUME TypeOK, NEW t \in Task, Drop(t)
  PROVE  TypeOK'
<1>1. Moves(t)
  BY ToIdleType DEF Drop
<1>2. locks' \in [Lock -> Seq(Task)] /\ \A l \in Lock : IsInjective(locks'[l])
  BY UnqueuedType DEF Drop
<1>3. torn' \in BOOLEAN /\ upset' \in BOOLEAN
  BY UnchangedTyped DEF Drop
<1> QED
  BY <1>1, <1>2, <1>3, TaskTyped, UnchangedTyped DEF Drop, cacheVars

\* The writer and the clock leave the coordinator's maps alone.
LEMMA OtherTyped ==
  ASSUME TypeOK, cfg' = cfg, UNCHANGED <<lockVars, refreshing, torn>>,
         version' \in 0..MaxVersion, floor' \in 0..version',
         entries' \in [Key -> Entry \cup {NoEntry}],
         index' \subseteq Key, members' \subseteq Key,
         indexLife' \in -1..(Ttl + StaleTtl),
         writer' \in Writing, task' \in [Task -> Rec], upset' \in BOOLEAN
  PROVE  TypeOK'
BY DEF TypeOK, lockVars

\* The same for the steps of the writer and the clock.
LEMMA OtherUnchanged ==
  ASSUME TypeOK
  PROVE  /\ version \in 0..MaxVersion /\ floor \in 0..version
         /\ version \in 0..version
         /\ members \subseteq Key /\ writer \in Writing
         /\ task \in [Task -> Rec]
         /\ -1 \in -1..(Ttl + StaleTtl)
BY CacheConstants DEF TypeOK

\* Write keeps the types.
LEMMA WriteTyped ==
  ASSUME TypeOK, Write
  PROVE  TypeOK'
<1>1. version' = version + 1 /\ version < MaxVersion /\ floor' = floor
  BY DEF Write
<1>2. version' \in 0..MaxVersion /\ floor' \in 0..version'
  BY <1>1, Types, CacheConstants
<1>3. writer' \in Writing
  BY DEF Write, Writing
<1> QED
  BY <1>2, <1>3, OtherTyped, OtherUnchanged, UnchangedTyped
     DEF Write, cacheVars

\* InvalidateMemory keeps the types.
LEMMA InvalidateMemoryTyped ==
  ASSUME TypeOK, InvalidateMemory
  PROVE  TypeOK'
<1>1. entries' \in [Key -> Entry \cup {NoEntry}] /\ task' \in [Task -> Rec]
  BY OvertakenType DEF InvalidateMemory
<1>2. writer' \in Writing
  BY DEF InvalidateMemory, Writing
<1> QED
  BY <1>1, <1>2, OtherTyped, OtherUnchanged, UnchangedTyped
     DEF InvalidateMemory

\* Smembers keeps the types.
LEMMA SmembersTyped ==
  ASSUME TypeOK, Smembers
  PROVE  TypeOK'
<1>1. task' \in [Task -> Rec]
  BY OvertakenType DEF Smembers
<1>2. writer' \in Writing
  BY DEF Smembers, Writing
<1> QED
  BY <1>1, <1>2, OtherTyped, OtherUnchanged, UnchangedTyped
     DEF Smembers, cacheVars

\* DelMembers keeps the types.
LEMMA DelMembersTyped ==
  ASSUME TypeOK, DelMembers
  PROVE  TypeOK'
<1>1. entries' \in [Key -> Entry \cup {NoEntry}]
  BY UnchangedTyped DEF DelMembers
<1>2. writer' \in Writing
  BY DEF DelMembers, Writing
<1> QED
  BY <1>1, <1>2, OtherTyped, OtherUnchanged, UnchangedTyped DEF DelMembers

\* DelIndex keeps the types.
LEMMA DelIndexTyped ==
  ASSUME TypeOK, DelIndex
  PROVE  TypeOK'
<1>1. writer' \in Writing
  BY DEF DelIndex, Writing
<1>2. index' \subseteq Key /\ members' \subseteq Key
      /\ indexLife' \in -1..(Ttl + StaleTtl)
  BY OtherUnchanged DEF DelIndex
<1> QED
  BY <1>1, <1>2, OtherTyped, OtherUnchanged, UnchangedTyped DEF DelIndex

\* InvalidateFails keeps the types.
LEMMA InvalidateFailsTyped ==
  ASSUME TypeOK, InvalidateFails
  PROVE  TypeOK'
<1>1. writer' \in Writing /\ members' \subseteq Key
  BY DEF InvalidateFails, Writing
<1> QED
  BY <1>1, OtherTyped, OtherUnchanged, UnchangedTyped
     DEF InvalidateFails, cacheVars

\* One tick makes an entry older or removes it.
LEMMA OlderFacts ==
  ASSUME TypeOK, NEW e \in Entry \cup {NoEntry}
  PROVE  /\ Older(e) \in Entry \cup {NoEntry}
         /\ Older(e) # NoEntry =>
              /\ e # NoEntry
              /\ Older(e).ver = e.ver /\ Older(e).by = e.by
              /\ Older(e).raced = e.raced
              /\ cfg.backend = "redis" => e.life > 1 /\ Older(e).life = e.life - 1
<1> DEFINE n == IF e.life >= 0 THEN e.life - 1 ELSE -1
           o == [e EXCEPT !.life = n]
<1>1. CASE e = NoEntry
  BY <1>1 DEF Older
<1>2. CASE e # NoEntry /\ cfg.backend = "redis" /\ e.life <= 1
  BY <1>2 DEF Older
<1>3. CASE e # NoEntry /\ ~(cfg.backend = "redis" /\ e.life <= 1)
  <2>1. e \in Entry
    BY <1>3
  <2>2. e.life \in -1..(Ttl + StaleTtl) /\ e.life \in Int
    BY <2>1 DEF Entry
  <2>3. Ttl + StaleTtl \in Nat
    BY CacheConstants
  <2>4. n \in -1..(Ttl + StaleTtl)
    BY <2>2, <2>3
  <2>5. Older(e) = o
    BY <1>3 DEF Older
  <2>6. cfg.backend = "redis" => e.life > 1 /\ n = e.life - 1
    BY <1>3, <2>2
  <2> HIDE DEF n
  <2>7. /\ o \in Entry /\ o.ver = e.ver /\ o.by = e.by /\ o.raced = e.raced
        /\ o.life = n
    BY <2>1, <2>4 DEF Entry
  <2> HIDE DEF o
  <2> QED
    BY <1>3, <2>5, <2>6, <2>7
<1> QED
  BY <1>1, <1>2, <1>3

\* What time does to the entries and to the index.
LEMMA TickFacts ==
  ASSUME TypeOK, Tick
  PROVE  /\ entries' \in [Key -> Entry \cup {NoEntry}]
         /\ \A k \in Key : entries'[k] = Older(entries[k])
         /\ indexLife' = IF indexLife <= 1 THEN -1 ELSE indexLife - 1
         /\ indexLife \in Int
         /\ index' = IF indexLife = 1 THEN {} ELSE index
<1>1. \A k \in Key : Older(entries[k]) \in Entry \cup {NoEntry}
  BY UnchangedTyped, OlderFacts
<1>2. entries' = [k \in Key |-> Older(entries[k])]
  BY DEF Tick
<1>3. indexLife \in Int
  BY DEF TypeOK
<1> QED
  BY <1>1, <1>2, <1>3 DEF Tick

\* Tick keeps the types.
LEMMA TickTyped ==
  ASSUME TypeOK, Tick
  PROVE  TypeOK'
<1>1. indexLife' \in -1..(Ttl + StaleTtl)
  BY TickFacts, UnchangedTyped, CacheConstants
<1>2. index' \subseteq Key
  BY TickFacts, UnchangedTyped
<1> QED
  BY <1>1, <1>2, TickFacts, OtherTyped, OtherUnchanged, UnchangedTyped
     DEF Tick, writeVars

\* Every step keeps the types.
LEMMA TypeNext ==
  ASSUME TypeOK, Owned(task), QueuesOK(task, locks), [Next]_vars
  PROVE  TypeOK'
<1>1. CASE UNCHANGED vars
  BY <1>1 DEF TypeOK, vars, cacheVars, writeVars, lockVars
<1>2. CASE \E t \in Task : \E k \in cfg.keys : Get(t, k)
  <2>1. cfg.keys \subseteq Key
    BY Types DEF Config
  <2> QED
    BY <1>2, <2>1, GetTyped
<1>3. CASE \E t \in Task : Step(t)
  BY <1>3, GetAnyTyped, LockForKeyTyped, TryLockTyped, EnqueueTyped,
     LockTimeoutTyped, RecheckTyped, SearchTyped, SearchFailsTyped,
     SetMemoryTyped, SetRedisTyped, SaddRedisTyped, ExpireRedisTyped,
     RedisFailsTyped, CleanupTyped, FinishRefreshTyped DEF Step
<1>4. CASE \E t \in Task : Drop(t)
  BY <1>4, DropTyped
<1>5. CASE Write \/ Invalidate \/ Tick
  BY <1>5, WriteTyped, InvalidateMemoryTyped, SmembersTyped, DelMembersTyped,
     DelIndexTyped, InvalidateFailsTyped, TickTyped DEF Invalidate
<1> QED
  BY <1>1, <1>2, <1>3, <1>4, <1>5 DEF Next

-----------------------------------------------------------------------------
(* The books of the coordinator.                                           *)

\* Steps that leave the locks and the maps alone keep the books if no task
\* enters or leaves compute_with_stampede or a queue, and only the head of a
\* queue gets past it.
LEMMA LocksKept ==
  ASSUME TypeOK, TypeOK', LockBooks, cfg' = cfg, locks' = locks,
         inflight' = inflight, torn' = torn,
         \A u \in Task : /\ task'[u].key = task[u].key
                         /\ task'[u].lock = task[u].lock,
         \A u \in Task :
           /\ cfg.stampede =>
                /\ task'[u].pc \in Owning <=> task[u].pc \in Owning
                /\ task'[u].pc \in Queued <=> task[u].pc \in Queued
                /\ task'[u].pc \in Critical =>
                     task[u].pc \in Critical \/ Head(locks[task[u].lock]) = u
           /\ ~cfg.stampede =>
                task'[u].pc \notin {"lock", "try", "enqueue", "wait", "cleanup"}
  PROVE  LockBooks'
<1>1. Owned(task)'
  BY DEF LockBooks, Owned
<1>2. QueuesOK(task, locks)'
  <2>1. ASSUME NEW l \in Lock, NEW u \in Range(locks[l])
        PROVE  task'[u].lock = l /\ task'[u].pc \in Queued
    <3>1. u \in Task
      BY <2>1 DEF TypeOK, Range
    <3>2. task[u].lock = l /\ task[u].pc \in Queued /\ l # NoLock
      BY <2>1, CacheConstants DEF LockBooks, QueuesOK
    <3>3. cfg.stampede
      BY <3>1, <3>2 DEF LockBooks, Owned
    <3> QED
      BY <3>1, <3>2, <3>3
  <2>2. ASSUME NEW u \in Task, cfg.stampede, task'[u].pc \in Queued
        PROVE  /\ u \in Range(locks[task'[u].lock])
               /\ task'[u].pc \in Critical => Head(locks[task'[u].lock]) = u
    BY <2>2 DEF LockBooks, QueuesOK
  <2> QED
    BY <2>1, <2>2 DEF QueuesOK
<1>3. OneKey(task, inflight)'
  BY DEF LockBooks, OneKey
<1>4. ~torn' => Tended(task, inflight)'
  BY DEF LockBooks, Tended
<1> QED
  BY <1>1, <1>2, <1>3, <1>4 DEF LockBooks

\* So does a step of a task outside compute_with_stampede.
LEMMA LocksLoose ==
  ASSUME TypeOK, TypeOK', LockBooks, cfg' = cfg, locks' = locks,
         inflight' = inflight, torn' = torn, NEW t \in Task, Moves(t),
         task[t].lock = NoLock, task'[t].lock = NoLock,
         cfg.stampede => task[t].pc \notin Owning /\ task'[t].pc \notin Owning,
         ~cfg.stampede =>
           task'[t].pc \notin {"lock", "try", "enqueue", "wait", "cleanup"}
  PROVE  LockBooks'
<1>0. \A u \in Task \ {t} : task'[u] = task[u]
  BY DEF Moves
<1>1. Owned(task)'
  BY <1>0 DEF LockBooks, Owned
<1>2. QueuesOK(task, locks)'
  <2>1. ASSUME NEW l \in Lock, NEW u \in Range(locks[l])
        PROVE  task'[u].lock = l /\ task'[u].pc \in Queued
    <3>1. u \in Task
      BY <2>1 DEF TypeOK, Range
    <3>2. task[u].lock = l /\ task[u].pc \in Queued /\ l # NoLock
      BY <2>1, CacheConstants DEF LockBooks, QueuesOK
    <3> QED
      BY <1>0, <3>1, <3>2
  <2>2. ASSUME NEW u \in Task, cfg.stampede, task'[u].pc \in Queued
        PROVE  /\ u \in Range(locks[task'[u].lock])
               /\ task'[u].pc \in Critical => Head(locks[task'[u].lock]) = u
    <3>1. u # t
      BY <2>2 DEF Owning
    <3> QED
      BY <1>0, <2>2, <3>1 DEF LockBooks, QueuesOK
  <2> QED
    BY <2>1, <2>2 DEF QueuesOK
<1>3. OneKey(task, inflight)'
  BY <1>0 DEF LockBooks, OneKey
<1>4. ~torn' => Tended(task, inflight)'
  BY <1>0 DEF LockBooks, Tended
<1> QED
  BY <1>1, <1>2, <1>3, <1>4 DEF LockBooks

\* A task that leaves drops its guard or its place in the queue; it may
\* remove locks from the map, and another task tends those that it leaves.
LEMMA LocksLeft ==
  ASSUME TypeOK, TypeOK', LockBooks, cfg' = cfg, NEW t \in Task, Moves(t),
         locks' = Unqueued(t),
         task'[t].lock = NoLock, task'[t].pc \in {"idle", "unmark"},
         \A k \in Key : inflight'[k] \in {inflight[k], NoLock},
         ~torn' => \A k \in Key : inflight'[k] # NoLock =>
           \E u \in Task \ {t} : task[u].lock = inflight[k] /\ task[u].key = k
  PROVE  LockBooks'
<1>0. \A u \in Task \ {t} : task'[u] = task[u]
  BY DEF Moves
<1>u. \A l \in Lock :
        /\ Range(locks'[l]) = Range(locks[l]) \ {t}
        /\ locks[l] # << >> /\ Head(locks[l]) # t => Head(locks'[l]) = Head(locks[l])
  <2> HIDE DEF Unqueued
  <2> QED
    BY UnqueuedFacts
<1>p. task'[t].pc \notin Owning
      /\ task'[t].pc \notin {"lock", "try", "enqueue", "wait", "cleanup"}
  BY DEF Owning, Queued, Critical
<1>1. Owned(task)'
  BY <1>0, <1>p DEF LockBooks, Owned
<1>2. QueuesOK(task, locks)'
  <2>1. ASSUME NEW l \in Lock, NEW u \in Range(locks'[l])
        PROVE  task'[u].lock = l /\ task'[u].pc \in Queued
    <3>1. u \in Range(locks[l]) /\ u # t
      BY <2>1, <1>u
    <3>2. u \in Task
      BY <2>1, <3>1 DEF TypeOK, Range
    <3> QED
      BY <1>0, <3>1, <3>2 DEF LockBooks, QueuesOK
  <2>2. ASSUME NEW u \in Task, cfg.stampede, task'[u].pc \in Queued
        PROVE  /\ u \in Range(locks'[task'[u].lock])
               /\ task'[u].pc \in Critical => Head(locks'[task'[u].lock]) = u
    <3>1. u # t
      BY <1>p, <2>2 DEF Owning
    <3> DEFINE l == task[u].lock
    <3>2. task'[u] = task[u]
      BY <1>0, <3>1
    <3>3. u \in Range(locks[l]) /\ (task[u].pc \in Critical => Head(locks[l]) = u)
      BY <2>2, <3>2 DEF LockBooks, QueuesOK
    <3>4. l \in Lock
      BY <2>2, <3>2, Places DEF Owning, LockBooks
    <3>5. locks[l] # << >>
      BY <3>3 DEF Range
    <3> HIDE DEF l
    <3>6. /\ u \in Range(locks'[l])
          /\ Head(locks[l]) = u => Head(locks'[l]) = u
      BY <3>1, <3>3, <3>4, <3>5, <1>u
    <3> QED
      BY <3>2, <3>3, <3>6 DEF l
  <2> QED
    BY <2>1, <2>2 DEF QueuesOK
<1>3. OneKey(task, inflight)'
  BY <1>0 DEF LockBooks, OneKey
<1>4. ~torn' => Tended(task, inflight)'
  BY <1>0 DEF Tended
<1> QED
  BY <1>1, <1>2, <1>3, <1>4 DEF LockBooks

\* The books of the refreshes, if nobody starts or ends one.
LEMMA MarksKept ==
  ASSUME Marked(task, refreshing), refreshing' = refreshing,
         \A u \in Task :
           /\ task'[u].refresh = task[u].refresh
           /\ task[u].refresh => /\ task'[u].key = task[u].key
                                 /\ task'[u].pc \notin {"idle", "any"}
           /\ task'[u].pc = "unmark" => task[u].refresh
  PROVE  Marked(task, refreshing)'
BY DEF Marked

\* The capacity, if nothing is added.
LEMMA CapacityKept ==
  ASSUME TypeOK, CapacityRespected, cfg' = cfg,
         \A k \in Key : entries'[k] # NoEntry => entries[k] # NoEntry
  PROVE  CapacityRespected'
<1>1. Cached(entries') \subseteq Cached(entries)
  BY DEF Cached
<1>2. IsFiniteSet(Cached(entries))
  <2>1. Cached(entries) \subseteq Key
    BY DEF Cached
  <2> QED
    BY <2>1, CacheConstants, FS_Subset
<1>3. Cardinality(Cached(entries')) <= Cardinality(Cached(entries))
  BY <1>1, <1>2, FS_Subset
<1>4. Cardinality(Cached(entries')) \in Nat /\ Cardinality(Cached(entries)) \in Nat
  BY <1>1, <1>2, FS_Subset, FS_CardinalityType
<1>5. CASE cfg.backend = "memory"
  <2>1. Cardinality(Cached(entries)) <= MaxEntries
    BY <1>5 DEF CapacityRespected
  <2>2. Cardinality(Cached(entries')) <= MaxEntries
    BY <1>3, <1>4, <2>1, CacheConstants
  <2> QED
    BY <2>2 DEF CapacityRespected
<1> QED
  BY <1>5 DEF CapacityRespected

\* Get keeps the books.
LEMMA GetBooks ==
  ASSUME BooksInv, TypeOK', NEW t \in Task, NEW k \in Key, Get(t, k)
  PROVE  BooksInv'
<1>1. TypeOK /\ LockBooks /\ Marked(task, refreshing) /\ CapacityRespected
  BY DEF BooksInv
<1>2. cfg' = cfg /\ locks' = locks /\ inflight' = inflight /\ torn' = torn
      /\ refreshing' = refreshing /\ entries' = AfterGet(k)
  BY DEF Get, lockVars
<1>3. task[t].pc = "idle" /\ task[t].lock = NoLock /\ ~task[t].refresh
  BY <1>1, GetMoves DEF LockBooks, Owned, Owning, Queued, Critical, Marked
<1>4. CapacityRespected'
  BY <1>1, <1>2, AfterGetFacts, CapacityKept
<1>5. CASE task' = task
  <2>1. LockBooks'
    BY <1>1, <1>2, <1>5 DEF LockBooks, Owned, QueuesOK, OneKey, Tended
  <2>2. Marked(task, refreshing)'
    BY <1>1, <1>2, <1>5 DEF Marked
  <2> QED
    BY <1>4, <2>1, <2>2 DEF BooksInv
<1>6. CASE task' # task
  <2>1. /\ Moves(t) /\ task'[t].lock = NoLock /\ ~task'[t].refresh
        /\ task'[t].refresh \in BOOLEAN
        /\ task'[t].pc \in {"any", "lock", "search"}
        /\ cfg.stampede => task'[t].pc # "search"
        /\ ~cfg.stampede => task'[t].pc # "lock"
    BY <1>1, <1>6, GetMoves
  <2>2. LockBooks'
    <3>1. cfg.stampede => task[t].pc \notin Owning /\ task'[t].pc \notin Owning
      BY <1>3, <2>1 DEF Owning, Queued, Critical
    <3> QED
      BY <1>1, <1>2, <1>3, <2>1, <3>1, LocksLoose
  <2>3. Marked(task, refreshing)'
    <3>1. \A u \in Task \ {t} : task'[u] = task[u]
      BY <2>1 DEF Moves
    <3> QED
      BY <1>1, <1>2, <1>3, <2>1, <3>1 DEF Marked
  <2> QED
    BY <1>4, <2>2, <2>3 DEF BooksInv
<1> QED
  BY <1>5, <1>6

\* GetAny keeps the books.
LEMMA GetAnyBooks ==
  ASSUME BooksInv, TypeOK', NEW t \in Task, GetAny(t)
  PROVE  BooksInv'
<1> DEFINE k == task[t].key
<1>1. TypeOK /\ LockBooks /\ Marked(task, refreshing) /\ CapacityRespected
  BY DEF BooksInv
<1>2. cfg' = cfg /\ locks' = locks /\ inflight' = inflight /\ torn' = torn
      /\ entries' = AfterGet(k) /\ k \in Key
  BY <1>1, UnchangedTyped DEF GetAny, lockVars
<1>3. task[t].pc = "any" /\ task[t].lock = NoLock /\ ~task[t].refresh
  BY <1>1 DEF GetAny, LockBooks, Owned, Owning, Queued, Critical, Marked
<1>4. CapacityRespected'
  BY <1>1, <1>2, AfterGetFacts, CapacityKept
<1>5. \/ Miss(t, TRUE) /\ k \notin refreshing /\ refreshing' = refreshing \cup {k}
      \/ Miss(t, FALSE) /\ refreshing' = refreshing
      \/ Move(t, Idle) /\ refreshing' = refreshing
  BY DEF GetAny
<1>6. /\ Moves(t) /\ task'[t].lock = NoLock
      /\ task'[t].pc \in {"idle", "lock", "search"}
      /\ cfg.stampede => task'[t].pc # "search"
      /\ ~cfg.stampede => task'[t].pc # "lock"
  BY <1>1, <1>3, <1>5, MissType, ToIdleType
<1>7. LockBooks'
  <2>1. cfg.stampede => task[t].pc \notin Owning /\ task'[t].pc \notin Owning
    BY <1>3, <1>6 DEF Owning, Queued, Critical
  <2> QED
    BY <1>1, <1>2, <1>3, <1>6, <2>1, LocksLoose
<1>8. \A u \in Task \ {t} : task'[u] = task[u]
  BY <1>6 DEF Moves
<1>9. Marked(task, refreshing)'
  <2>1. CASE Miss(t, TRUE) /\ k \notin refreshing /\ refreshing' = refreshing \cup {k}
    <3>1. task'[t].refresh = TRUE /\ task'[t].key = k
      BY <1>1, <2>1, MissType
    <3>2. \A u \in Task \ {t} : task[u].refresh => task[u].key # k
      BY <1>1, <2>1 DEF Marked
    <3>3. task'[t].pc \notin {"idle", "any", "unmark"}
      BY <1>1, <2>1, MissType
    <3> HIDE DEF k
    <3> QED
      BY <1>1, <1>3, <1>8, <2>1, <3>1, <3>2, <3>3 DEF Marked
  <2>2. CASE (Miss(t, FALSE) \/ Move(t, Idle)) /\ refreshing' = refreshing
    <3>1. task'[t].refresh = FALSE
      BY <1>1, <2>2, MissType, ToIdleType
    <3> QED
      BY <1>1, <1>3, <1>6, <1>8, <2>2, <3>1 DEF Marked
  <2> QED
    BY <1>5, <2>1, <2>2
<1> QED
  BY <1>4, <1>7, <1>9 DEF BooksInv

\* LockForKey keeps the books.
LEMMA LockForKeyBooks ==
  ASSUME BooksInv, TypeOK', NEW t \in Task, LockForKey(t)
  PROVE  BooksInv'
<1> DEFINE k == task[t].key
<1>1. TypeOK /\ LockBooks /\ Marked(task, refreshing) /\ CapacityRespected
  BY DEF BooksInv
<1>2. cfg' = cfg /\ locks' = locks /\ torn' = torn /\ refreshing' = refreshing
      /\ entries' = entries /\ k \in Key /\ task[t].pc = "lock"
  BY <1>1, UnchangedTyped DEF LockForKey, cacheVars
<1>3. task[t].lock = NoLock /\ cfg.stampede
  BY <1>1, <1>2 DEF LockBooks, Owned, Owning, Queued, Critical
<1>4. PICK l \in Lock :
        /\ inflight[k] = NoLock => l \in Unused
        /\ inflight[k] # NoLock => l = inflight[k]
        /\ inflight' = [inflight EXCEPT ![k] = l]
        /\ Moves(t)
        /\ task'[t].pc = "try" /\ task'[t].key = k
        /\ task'[t].lock = l /\ task'[t].refresh = task[t].refresh
  BY <1>1, LockForKeyMoves
<1> HIDE DEF k
<1>5. \A u \in Task \ {t} : task'[u] = task[u]
  BY <1>4 DEF Moves
<1>6. /\ inflight \in [Key -> Lock \cup {NoLock}]
      /\ inflight'[k] = l /\ \A j \in Key \ {k} : inflight'[j] = inflight[j]
  BY <1>1, <1>2, <1>4, UnchangedTyped
<1>7. l # NoLock
  BY CacheConstants
<1>8. Owned(task)'
  BY <1>1, <1>2, <1>3, <1>4, <1>5, <1>7 DEF LockBooks, Owned, Owning
<1>9. QueuesOK(task, locks)'
  <2>1. ASSUME NEW m \in Lock, NEW u \in Range(locks[m])
        PROVE  task'[u].lock = m /\ task'[u].pc \in Queued
    <3>1. u \in Task
      BY <1>1, <2>1 DEF TypeOK, Range
    <3>2. task[u].lock = m /\ task[u].pc \in Queued /\ u # t
      BY <1>1, <1>2, <2>1 DEF LockBooks, QueuesOK, Queued, Critical
    <3> QED
      BY <1>5, <3>1, <3>2
  <2>2. ASSUME NEW u \in Task, cfg.stampede, task'[u].pc \in Queued
        PROVE  /\ u \in Range(locks[task'[u].lock])
               /\ task'[u].pc \in Critical => Head(locks[task'[u].lock]) = u
    <3>1. u # t
      BY <1>4, <2>2 DEF Queued, Critical
    <3> QED
      BY <1>1, <1>5, <2>2, <3>1 DEF LockBooks, QueuesOK
  <2> QED
    BY <1>2, <2>1, <2>2 DEF QueuesOK
<1>10. \A u \in Task \ {t} : task[u].lock = l => task[u].key = k
  BY <1>1, <1>2, <1>4, <1>7 DEF LockBooks, OneKey, Unused
<1>11. \A j \in Key \ {k} : inflight[j] # l
  <2>1. CASE inflight[k] = NoLock
    BY <1>4, <1>6, <2>1 DEF Unused, Range
  <2>2. CASE inflight[k] # NoLock
    BY <1>1, <1>2, <1>4, <2>2 DEF LockBooks, OneKey
  <2> QED
    BY <2>1, <2>2
<1>12. OneKey(task, inflight)'
  <2>1. \A x, u \in Task :
          task'[x].lock # NoLock /\ task'[x].lock = task'[u].lock
            => task'[x].key = task'[u].key
    BY <1>1, <1>4, <1>5, <1>10 DEF LockBooks, OneKey
  <2>2. \A u \in Task, j \in Key :
          inflight'[j] # NoLock /\ inflight'[j] = task'[u].lock => task'[u].key = j
    BY <1>1, <1>4, <1>5, <1>6, <1>10, <1>11 DEF LockBooks, OneKey
  <2>3. \A i, j \in Key : inflight'[j] # NoLock /\ inflight'[j] = inflight'[i] => i = j
    BY <1>1, <1>6, <1>11 DEF LockBooks, OneKey
  <2> QED
    BY <2>1, <2>2, <2>3 DEF OneKey
<1>13. ~torn' => Tended(task, inflight)'
  <2>1. ASSUME ~torn, NEW j \in Key, inflight'[j] # NoLock
        PROVE  \E u \in Task : task'[u].lock = inflight'[j] /\ task'[u].key = j
    <3>1. CASE j = k
      BY <1>4, <1>6, <3>1
    <3>2. CASE j # k
      <4>1. PICK u \in Task : task[u].lock = inflight[j] /\ task[u].key = j
        BY <1>1, <1>6, <2>1, <3>2 DEF LockBooks, Tended
      <4>2. u # t
        BY <3>2, <4>1 DEF k
      <4> QED
        BY <1>5, <1>6, <3>2, <4>1, <4>2
    <3> QED
      BY <3>1, <3>2
  <2> QED
    BY <1>2, <2>1 DEF Tended
<1>14. Marked(task, refreshing)'
  <2>1. task'[t].pc \notin {"idle", "any", "unmark"} /\ task'[t].key = task[t].key
    BY <1>4 DEF k
  <2> QED
    BY <1>1, <1>2, <1>4, <1>5, <2>1, MarksKept DEF Marked
<1>15. CapacityRespected'
  BY <1>1, <1>2, CapacityKept
<1> QED
  BY <1>8, <1>9, <1>12, <1>13, <1>14, <1>15 DEF BooksInv, LockBooks

\* A task goes on in compute_with_stampede, with its lock and its key.
LEMMA Onward ==
  ASSUME BooksInv, TypeOK', CapacityRespected', cfg' = cfg, locks' = locks,
         inflight' = inflight, torn' = torn, refreshing' = refreshing,
         NEW t \in Task, Moves(t), Alike(task'[t], task[t]),
         task[t].pc \in Owning, task'[t].pc \in Owning,
         task'[t].pc \in Queued <=> task[t].pc \in Queued,
         cfg.stampede /\ task'[t].pc \in Critical =>
           task[t].pc \in Critical \/ Head(locks[task[t].lock]) = t,
         ~cfg.stampede =>
           task'[t].pc \notin {"lock", "try", "enqueue", "wait", "cleanup"}
  PROVE  BooksInv'
<1>1. TypeOK /\ LockBooks /\ Marked(task, refreshing)
  BY DEF BooksInv
<1>2. \A u \in Task \ {t} : task'[u] = task[u]
  BY DEF Moves
<1>3. \A u \in Task : /\ task'[u].key = task[u].key
                      /\ task'[u].lock = task[u].lock
                      /\ task'[u].refresh = task[u].refresh
  BY <1>2 DEF Alike
<1>4. ASSUME NEW u \in Task
      PROVE  /\ cfg.stampede =>
                  /\ task'[u].pc \in Owning <=> task[u].pc \in Owning
                  /\ task'[u].pc \in Queued <=> task[u].pc \in Queued
                  /\ task'[u].pc \in Critical =>
                       task[u].pc \in Critical \/ Head(locks[task[u].lock]) = u
             /\ ~cfg.stampede =>
                  task'[u].pc \notin {"lock", "try", "enqueue", "wait", "cleanup"}
  BY <1>1, <1>2 DEF LockBooks, Owned
<1>5. LockBooks'
  BY <1>1, <1>3, <1>4, LocksKept
<1>6. task'[t].pc \notin {"idle", "any", "unmark"}
  BY DEF Owning, Queued, Critical
<1>7. Marked(task, refreshing)'
  BY <1>1, <1>2, <1>3, <1>6, MarksKept DEF Marked
<1> QED
  BY <1>5, <1>7 DEF BooksInv

\* A task returns; if the map stays untorn, somebody else tends what stays.
LEMMA Leaving ==
  ASSUME BooksInv, TypeOK', CapacityRespected', cfg' = cfg,
         refreshing' = refreshing, NEW t \in Task, Return(t),
         \A k \in Key : inflight'[k] \in {inflight[k], NoLock},
         ~torn' => \A k \in Key : inflight'[k] # NoLock =>
           \E u \in Task \ {t} : task[u].lock = inflight[k] /\ task[u].key = k
  PROVE  BooksInv'
<1>1. TypeOK /\ LockBooks /\ Marked(task, refreshing)
  BY DEF BooksInv
<1>2. /\ Moves(t) /\ locks' = Unqueued(t) /\ task'[t].lock = NoLock
      /\ task'[t].refresh = task[t].refresh
      /\ task'[t].pc = IF task[t].refresh THEN "unmark" ELSE "idle"
      /\ task[t].refresh => task'[t].key = task[t].key
  BY <1>1, ReturnType DEF Moves
<1>3. task'[t].pc \in {"idle", "unmark"}
  BY <1>2
<1>4. LockBooks'
  <2> HIDE DEF Unqueued
  <2> QED
    BY <1>1, <1>2, <1>3, LocksLeft
<1>5. Marked(task, refreshing)'
  <2>1. \A u \in Task \ {t} : task'[u] = task[u]
    BY <1>2 DEF Moves
  <2> QED
    BY <1>1, <1>2, <2>1, MarksKept DEF Marked
<1> QED
  BY <1>4, <1>5 DEF BooksInv

\* Untorn, the lock of a task without one tends nothing.
LEMMA OthersTend ==
  ASSUME LockBooks, ~torn, NEW t \in Task, task[t].lock = NoLock,
         NEW k \in Key, inflight[k] # NoLock
  PROVE  \E u \in Task \ {t} : task[u].lock = inflight[k] /\ task[u].key = k
BY DEF LockBooks, Tended

\* TryLock keeps the books.
LEMMA TryLockBooks ==
  ASSUME BooksInv, TypeOK', NEW t \in Task, TryLock(t)
  PROVE  BooksInv'
<1>1. TypeOK /\ cfg.stampede
  BY DEF BooksInv, LockBooks, Owned, TryLock
<1>2. CapacityRespected'
  BY CapacityKept DEF BooksInv, TryLock, cacheVars
<1>3. Moves(t) /\ task'[t].pc = "enqueue" /\ Alike(task'[t], task[t])
      /\ task[t].pc = "try"
  BY <1>1, TryLockMoves DEF TryLock
<1> QED
  BY <1>1, <1>2, <1>3, Onward DEF TryLock, lockVars, Owning, Queued, Critical

\* Enqueue keeps the books.
LEMMA EnqueueBooks ==
  ASSUME BooksInv, TypeOK', NEW t \in Task, Enqueue(t)
  PROVE  BooksInv'
<1> DEFINE l == task[t].lock
<1>1. TypeOK /\ LockBooks /\ Marked(task, refreshing) /\ CapacityRespected
  BY DEF BooksInv
<1>2. /\ Moves(t) /\ task'[t].pc = "wait" /\ Alike(task'[t], task[t])
      /\ l \in Lock /\ cfg.stampede
      /\ \A m \in Lock \ {l} : locks'[m] = locks[m]
      /\ Range(locks'[l]) = Range(locks[l]) \cup {t}
      /\ locks[l] # << >> => Head(locks'[l]) = Head(locks[l])
  BY <1>1, EnqueueFacts DEF LockBooks
<1>3. cfg' = cfg /\ inflight' = inflight /\ torn' = torn /\ task[t].pc = "enqueue"
      /\ refreshing' = refreshing /\ entries' = entries
  BY DEF Enqueue, cacheVars
<1>4. \A u \in Task \ {t} : task'[u] = task[u]
  BY <1>2 DEF Moves
<1>5. task'[t].lock = l /\ task'[t].key = task[t].key
      /\ task'[t].refresh = task[t].refresh
  BY <1>2 DEF Alike
<1> HIDE DEF l
<1>6. Owned(task)'
  <2>1. l = task[t].lock
    BY DEF l
  <2>2. task'[t].pc \in Owning /\ task[t].pc \in Owning
    BY <1>2, <1>3 DEF Owning, Queued
  <2> QED
    BY <1>1, <1>2, <1>3, <1>4, <1>5, <2>1, <2>2 DEF LockBooks, Owned
<1>7. QueuesOK(task, locks)'
  <2>1. ASSUME NEW m \in Lock, NEW u \in Range(locks'[m])
        PROVE  task'[u].lock = m /\ task'[u].pc \in Queued
    <3>1. CASE u = t
      <4>1. m = l
        <5>1. t \notin Range(locks[m])
          BY <1>1, <1>3 DEF LockBooks, QueuesOK, Queued, Critical
        <5> QED
          BY <1>2, <2>1, <3>1, <5>1
      <4> QED
        BY <1>2, <1>5, <3>1, <4>1 DEF Queued
    <3>2. CASE u # t
      <4>1. u \in Range(locks[m])
        BY <1>2, <2>1, <3>2
      <4>2. u \in Task
        BY <1>1, <4>1 DEF TypeOK, Range
      <4> QED
        BY <1>1, <1>4, <3>2, <4>1, <4>2 DEF LockBooks, QueuesOK
    <3> QED
      BY <3>1, <3>2
  <2>2. ASSUME NEW u \in Task, cfg.stampede, task'[u].pc \in Queued
        PROVE  /\ u \in Range(locks'[task'[u].lock])
               /\ task'[u].pc \in Critical => Head(locks'[task'[u].lock]) = u
    <3>1. CASE u = t
      BY <1>2, <1>5, <3>1 DEF Critical
    <3>2. CASE u # t
      <4> DEFINE m == task[u].lock
      <4>1. task'[u] = task[u]
        BY <1>4, <3>2
      <4>2. u \in Range(locks[m]) /\ (task[u].pc \in Critical => Head(locks[m]) = u)
        BY <1>1, <2>2, <4>1 DEF LockBooks, QueuesOK
      <4>3. m \in Lock
        BY <1>1, <2>2, <4>1, Places DEF Owning, LockBooks
      <4>4. locks[m] # << >>
        BY <4>2 DEF Range
      <4> HIDE DEF m
      <4>5. u \in Range(locks'[m]) /\ (Head(locks[m]) = u => Head(locks'[m]) = u)
        BY <1>2, <4>2, <4>3, <4>4
      <4> QED
        BY <4>1, <4>2, <4>5 DEF m
    <3> QED
      BY <3>1, <3>2
  <2> QED
    BY <1>3, <2>1, <2>2 DEF QueuesOK
<1>8. OneKey(task, inflight)' /\ (~torn' => Tended(task, inflight)')
  <2>1. \A u \in Task : task'[u].lock = task[u].lock /\ task'[u].key = task[u].key
    BY <1>4, <1>5 DEF l
  <2> QED
    BY <1>1, <1>3, <2>1 DEF LockBooks, OneKey, Tended
<1>9. Marked(task, refreshing)'
  BY <1>1, <1>2, <1>3, <1>4, <1>5, MarksKept DEF Marked
<1>10. CapacityRespected'
  BY <1>1, <1>3, CapacityKept
<1> QED
  BY <1>6, <1>7, <1>8, <1>9, <1>10 DEF BooksInv, LockBooks

\* Who gives up waiting is not the holder, who tends the lock.
LEMMA LockTimeoutBooks ==
  ASSUME BooksInv, TypeOK', NEW t \in Task, LockTimeout(t)
  PROVE  BooksInv'
<1> DEFINE l == task[t].lock
           h == Head(locks[l])
<1>1. TypeOK /\ LockBooks
  BY DEF BooksInv
<1>2. task[t].pc = "wait" /\ h # t
  BY DEF LockTimeout, Holds
<1>3. cfg.stampede /\ l \in Lock
  <2>1. cfg.stampede
    BY <1>1, <1>2 DEF LockBooks, Owned
  <2> QED
    BY <1>1, <1>2, <2>1, Places DEF Owning, Queued, LockBooks
<1>4. t \in Range(locks[l])
  BY <1>1, <1>2, <1>3 DEF LockBooks, QueuesOK, Queued
<1>5. locks[l] \in Seq(Task) /\ locks[l] # << >>
  BY <1>1, <1>3, <1>4 DEF TypeOK, Range
<1>6. h \in Range(locks[l]) /\ h \in Task
  <2>1. h = locks[l][1] /\ 1 \in DOMAIN locks[l]
    BY <1>5
  <2> QED
    BY <1>5, <2>1 DEF Range
<1>7. task[h].lock = l
  BY <1>1, <1>3, <1>6 DEF LockBooks, QueuesOK
<1>8. ASSUME ~torn, NEW k \in Key, inflight[k] # NoLock
      PROVE  \E u \in Task \ {t} : task[u].lock = inflight[k] /\ task[u].key = k
  <2>1. PICK u \in Task : task[u].lock = inflight[k] /\ task[u].key = k
    BY <1>1, <1>8 DEF LockBooks, Tended
  <2>2. CASE u = t
    <3>1. task[h].lock = inflight[k]
      BY <1>7, <2>1, <2>2
    <3>2. task[h].key = k
      BY <1>1, <1>6, <1>8, <3>1 DEF LockBooks, OneKey
    <3> QED
      BY <1>2, <1>6, <3>1, <3>2
  <2> QED
    BY <2>1, <2>2
<1>9. CapacityRespected'
  BY CapacityKept DEF BooksInv, LockTimeout, cacheVars
<1> QED
  BY <1>8, <1>9, Leaving DEF LockTimeout, ReturnErr

\* Recheck keeps the books.
LEMMA RecheckBooks ==
  ASSUME BooksInv, TypeOK', NEW t \in Task, Recheck(t)
  PROVE  BooksInv'
<1>1. TypeOK /\ task[t].pc = "wait" /\ Head(locks[task[t].lock]) = t
  BY DEF BooksInv, Recheck, Holds
<1>2. cfg.stampede
  BY <1>1 DEF BooksInv, LockBooks, Owned
<1>3. entries' = AfterGet(task[t].key) /\ task[t].key \in Key /\ cfg' = cfg
  BY <1>1, UnchangedTyped DEF Recheck
<1>4. CapacityRespected'
  BY <1>1, <1>3, AfterGetFacts, CapacityKept DEF BooksInv
<1>5. Locked(t, "cleanup") \/ Locked(t, "search")
  BY DEF Recheck
<1>6. Moves(t) /\ task'[t].pc \in {"cleanup", "search"} /\ Alike(task'[t], task[t])
  BY <1>1, <1>5, LockedType DEF PC
<1> QED
  BY <1>1, <1>2, <1>4, <1>6, Onward
     DEF Recheck, lockVars, Owning, Queued, Critical

\* Search keeps the books.
LEMMA SearchBooks ==
  ASSUME BooksInv, TypeOK', NEW t \in Task, Search(t)
  PROVE  BooksInv'
<1>1. TypeOK
  BY DEF BooksInv
<1>2. CapacityRespected'
  BY CapacityKept DEF BooksInv, Search, cacheVars
<1>3. Moves(t) /\ task'[t].pc = "assemble" /\ Alike(task'[t], task[t])
      /\ task[t].pc = "search"
  BY <1>1, SearchMoves DEF Search
<1> QED
  BY <1>1, <1>2, <1>3, Onward DEF Search, lockVars, Owning, Queued, Critical

\* Without stampede protection there are no locks.
LEMMA NoLocks ==
  ASSUME BooksInv, ~cfg.stampede, NEW t \in Task
  PROVE  task[t].lock = NoLock
BY DEF BooksInv, LockBooks, Owned

\* SearchFails keeps the books.
LEMMA SearchFailsBooks ==
  ASSUME BooksInv, TypeOK', NEW t \in Task, SearchFails(t)
  PROVE  BooksInv'
<1>1. TypeOK /\ task[t].pc = "search" /\ cfg' = cfg /\ inflight' = inflight
      /\ torn' = torn /\ refreshing' = refreshing
  BY DEF BooksInv, SearchFails
<1>2. CapacityRespected'
  BY CapacityKept DEF BooksInv, SearchFails, cacheVars
<1>3. CASE cfg.stampede
  <2>1. To(t, "cleanup") /\ locks' = locks
    BY <1>3 DEF SearchFails
  <2>2. Moves(t) /\ task'[t].pc = "cleanup" /\ Alike(task'[t], task[t])
    BY <1>1, <2>1, ToType DEF PC
  <2> QED
    BY <1>1, <1>2, <1>3, <2>1, <2>2, Onward DEF Owning, Queued, Critical
<1>4. CASE ~cfg.stampede
  <2>1. Return(t)
    BY <1>4 DEF SearchFails, ReturnErr
  <2> QED
    BY <1>1, <1>2, <1>4, <2>1, NoLocks, OthersTend, Leaving DEF BooksInv
<1> QED
  BY <1>3, <1>4

\* After a store the task goes on to its cleanup or returns.
LEMMA StoredBooks ==
  ASSUME BooksInv, TypeOK', CapacityRespected', cfg' = cfg, inflight' = inflight,
         torn' = torn, refreshing' = refreshing, NEW t \in Task,
         task[t].pc \in Storing, Stored(t)
  PROVE  BooksInv'
<1>1. TypeOK
  BY DEF BooksInv
<1>2. CASE cfg.stampede
  <2>1. /\ Moves(t) /\ locks' = locks /\ task'[t].pc = "cleanup"
        /\ Alike(task'[t], task[t])
    BY <1>1, <1>2, StoredType DEF Moves, Alike
  <2> QED
    BY <1>2, <2>1, Onward DEF Owning, Queued, Critical, Storing
<1>3. CASE ~cfg.stampede
  <2>1. Return(t)
    BY <1>3 DEF Stored
  <2> QED
    BY <1>3, <2>1, NoLocks, OthersTend, Leaving DEF BooksInv
<1> QED
  BY <1>2, <1>3

\* SetMemory keeps the books.
LEMMA SetMemoryBooks ==
  ASSUME BooksInv, TypeOK', NEW t \in Task, SetMemory(t)
  PROVE  BooksInv'
<1>1. TypeOK /\ task[t].key \in Key
  BY UnchangedTyped DEF BooksInv
<1>2. Cardinality(Cached(entries')) <= MaxEntries
  BY <1>1, NewEntryType, AfterSetFacts DEF SetMemory
<1>3. CapacityRespected'
  BY <1>2 DEF CapacityRespected
<1> QED
  BY <1>3, StoredBooks DEF SetMemory, Storing

\* SetRedis keeps the books.
LEMMA SetRedisBooks ==
  ASSUME BooksInv, TypeOK', NEW t \in Task, SetRedis(t)
  PROVE  BooksInv'
<1>1. TypeOK
  BY DEF BooksInv
<1>2. CapacityRespected'
  BY DEF SetRedis, CapacityRespected
<1>3. Moves(t) /\ task'[t].pc = "sadd" /\ Alike(task'[t], task[t])
      /\ task[t].pc = "assemble"
  BY <1>1, ToType DEF SetRedis, PC
<1> QED
  BY <1>2, <1>3, Onward DEF SetRedis, lockVars, Owning, Queued, Critical

\* SaddRedis keeps the books.
LEMMA SaddRedisBooks ==
  ASSUME BooksInv, TypeOK', NEW t \in Task, SaddRedis(t)
  PROVE  BooksInv'
<1>1. TypeOK
  BY DEF BooksInv
<1>2. CapacityRespected'
  BY CapacityKept DEF BooksInv, SaddRedis
<1>3. Moves(t) /\ task'[t].pc = "expire" /\ Alike(task'[t], task[t])
      /\ task[t].pc = "sadd"
  BY <1>1, ToType DEF SaddRedis, PC
<1> QED
  BY <1>2, <1>3, Onward DEF SaddRedis, lockVars, Owning, Queued, Critical

\* ExpireRedis keeps the books.
LEMMA ExpireRedisBooks ==
  ASSUME BooksInv, TypeOK', NEW t \in Task, ExpireRedis(t)
  PROVE  BooksInv'
<1>1. TypeOK /\ cfg' = cfg
  BY DEF BooksInv, ExpireRedis
<1>2. \A k \in Key : entries'[k] # NoEntry => entries[k] # NoEntry
  BY <1>1, ExpireEntries
<1>3. CapacityRespected'
  BY <1>1, <1>2, CapacityKept DEF BooksInv
<1> QED
  BY <1>3, StoredBooks DEF ExpireRedis, Storing

\* RedisFails keeps the books.
LEMMA RedisFailsBooks ==
  ASSUME BooksInv, TypeOK', NEW t \in Task, RedisFails(t)
  PROVE  BooksInv'
<1>1. CapacityRespected'
  BY CapacityKept DEF BooksInv, RedisFails, cacheVars
<1>2. torn' = (torn \/ task[t].lock # NoLock)
  BY DEF RedisFails
<1>3. ASSUME ~torn', NEW k \in Key, inflight[k] # NoLock
      PROVE  \E u \in Task \ {t} : task[u].lock = inflight[k] /\ task[u].key = k
  BY <1>2, <1>3, OthersTend DEF BooksInv
<1> QED
  BY <1>1, <1>3, Leaving DEF RedisFails, ReturnErr

\* Cleanup keeps the books.
LEMMA CleanupBooks ==
  ASSUME BooksInv, TypeOK', NEW t \in Task, Cleanup(t)
  PROVE  BooksInv'
<1> DEFINE k == task[t].key
<1>1. TypeOK /\ LockBooks /\ k \in Key
  BY UnchangedTyped DEF BooksInv
<1>2. CapacityRespected'
  BY CapacityKept DEF BooksInv, Cleanup, cacheVars
<1>3. inflight' = IF inflight[k] = task[t].lock
                  THEN [inflight EXCEPT ![k] = NoLock] ELSE inflight
  BY DEF Cleanup
<1>4. inflight \in [Key -> Lock \cup {NoLock}]
  BY <1>1, UnchangedTyped
<1>5. /\ \A j \in Key : inflight'[j] \in {inflight[j], NoLock}
      /\ inflight'[k] # NoLock => inflight[k] # task[t].lock
  BY <1>1, <1>3, <1>4
<1>6. ASSUME ~torn, NEW j \in Key, inflight'[j] # NoLock
      PROVE  \E u \in Task \ {t} : task[u].lock = inflight[j] /\ task[u].key = j
  <2>1. PICK u \in Task : task[u].lock = inflight[j] /\ task[u].key = j
    BY <1>1, <1>5, <1>6 DEF LockBooks, Tended
  <2>2. u # t
    BY <1>5, <1>6, <2>1
  <2> QED
    BY <2>1, <2>2
<1> QED
  BY <1>2, <1>5, <1>6, Leaving DEF Cleanup

\* FinishRefresh keeps the books.
LEMMA FinishRefreshBooks ==
  ASSUME BooksInv, TypeOK', NEW t \in Task, FinishRefresh(t)
  PROVE  BooksInv'
<1>1. TypeOK /\ LockBooks /\ Marked(task, refreshing)
  BY DEF BooksInv
<1>2. task[t].pc = "unmark" /\ task[t].lock = NoLock /\ task[t].refresh
  BY <1>1 DEF FinishRefresh, LockBooks, Owned, Owning, Queued, Critical, Marked
<1>3. Moves(t) /\ task'[t].pc = "idle" /\ task'[t].lock = NoLock
      /\ ~task'[t].refresh
  BY <1>1, ToIdleType DEF FinishRefresh
<1>4. CapacityRespected'
  BY CapacityKept DEF BooksInv, FinishRefresh, cacheVars
<1>5. LockBooks'
  BY <1>1, <1>2, <1>3, LocksLoose
     DEF FinishRefresh, lockVars, Owning, Queued, Critical
<1>6. Marked(task, refreshing)'
  <2>1. \A u \in Task \ {t} : task'[u] = task[u]
    BY <1>3 DEF Moves
  <2>2. refreshing' = refreshing \ {task[t].key}
    BY DEF FinishRefresh
  <2> QED
    BY <1>1, <1>2, <1>3, <2>1, <2>2 DEF Marked
<1> QED
  BY <1>4, <1>5, <1>6 DEF BooksInv

\* Drop keeps the books.
LEMMA DropBooks ==
  ASSUME BooksInv, TypeOK', NEW t \in Task, Drop(t)
  PROVE  BooksInv'
<1>1. TypeOK /\ LockBooks /\ Marked(task, refreshing)
  BY DEF BooksInv
<1>2. Moves(t) /\ task'[t].pc = "idle" /\ task'[t].lock = NoLock
      /\ ~task'[t].refresh /\ ~task[t].refresh
  BY <1>1, ToIdleType DEF Drop
<1>3. locks' = Unqueued(t) /\ inflight' = inflight /\ cfg' = cfg
      /\ refreshing' = refreshing /\ torn' = (torn \/ task[t].lock # NoLock)
  BY DEF Drop
<1>4. CapacityRespected'
  BY CapacityKept DEF BooksInv, Drop, cacheVars
<1>5. LockBooks'
  <2>1. ~torn' => \A k \in Key : inflight'[k] # NoLock =>
           \E u \in Task \ {t} : task[u].lock = inflight[k] /\ task[u].key = k
    BY <1>1, <1>3, OthersTend
  <2> HIDE DEF Unqueued
  <2> QED
    BY <1>1, <1>2, <1>3, <2>1, LocksLeft
<1>6. Marked(task, refreshing)'
  <2>1. \A u \in Task \ {t} : task'[u] = task[u]
    BY <1>2 DEF Moves
  <2> QED
    BY <1>1, <1>2, <1>3, <2>1 DEF Marked
<1> QED
  BY <1>4, <1>5, <1>6 DEF BooksInv

\* The writer and the clock do not touch the books.
LEMMA OtherBooks ==
  ASSUME BooksInv, TypeOK', cfg' = cfg, locks' = locks, inflight' = inflight,
         torn' = torn, refreshing' = refreshing,
         \A u \in Task : task'[u].pc = task[u].pc /\ Alike(task'[u], task[u]),
         \A k \in Key : entries'[k] # NoEntry => entries[k] # NoEntry
  PROVE  BooksInv'
<1>1. TypeOK /\ LockBooks /\ Marked(task, refreshing)
  BY DEF BooksInv
<1>2. LockBooks'
  <2>1. \A u \in Task : ~cfg.stampede =>
          task'[u].pc \notin {"lock", "try", "enqueue", "wait", "cleanup"}
    BY <1>1 DEF LockBooks, Owned
  <2> QED
    BY <1>1, <2>1, LocksKept DEF Alike
<1>3. Marked(task, refreshing)'
  BY <1>1, MarksKept DEF Marked, Alike
<1>4. CapacityRespected'
  BY <1>1, CapacityKept DEF BooksInv
<1> QED
  BY <1>2, <1>3, <1>4 DEF BooksInv

\* Every step keeps the books.
LEMMA BooksNext ==
  ASSUME BooksInv, [Next]_vars
  PROVE  BooksInv'
<1>0. TypeOK'
  BY TypeNext DEF BooksInv, LockBooks
<1>t. TypeOK
  BY DEF BooksInv
<1>a. \A u \in Task : Alike(task[u], task[u])
  BY DEF Alike
<1>1. CASE UNCHANGED vars
  BY <1>0, <1>a, <1>1, OtherBooks DEF vars, cacheVars, writeVars, lockVars
<1>2. CASE \E t \in Task : \E k \in cfg.keys : Get(t, k)
  <2>1. cfg.keys \subseteq Key
    BY <1>t, Types DEF Config
  <2> QED
    BY <1>0, <1>2, <2>1, GetBooks
<1>3. CASE \E t \in Task : Step(t)
  BY <1>0, <1>3, GetAnyBooks, LockForKeyBooks, TryLockBooks, EnqueueBooks,
     LockTimeoutBooks, RecheckBooks, SearchBooks, SearchFailsBooks,
     SetMemoryBooks, SetRedisBooks, SaddRedisBooks, ExpireRedisBooks,
     RedisFailsBooks, CleanupBooks, FinishRefreshBooks DEF Step
<1>4. CASE \E t \in Task : Drop(t)
  BY <1>0, <1>4, DropBooks
<1>5. CASE Write \/ DelMembers \/ DelIndex \/ InvalidateFails
  <2>1. \A k \in Key : entries'[k] # NoEntry => entries[k] # NoEntry
    BY <1>5 DEF Write, DelMembers, DelIndex, InvalidateFails, cacheVars
  <2>2. /\ cfg' = cfg /\ locks' = locks /\ inflight' = inflight /\ torn' = torn
        /\ refreshing' = refreshing /\ task' = task
    BY <1>5 DEF Write, DelMembers, DelIndex, InvalidateFails, lockVars
  <2> QED
    BY <1>0, <1>a, <2>1, <2>2, OtherBooks
<1>6. CASE InvalidateMemory \/ Smembers
  <2>1. \A k \in Key : entries'[k] # NoEntry => entries[k] # NoEntry
    BY <1>6 DEF InvalidateMemory, Smembers, cacheVars
  <2>2. /\ cfg' = cfg /\ locks' = locks /\ inflight' = inflight /\ torn' = torn
        /\ refreshing' = refreshing /\ task' = Overtaken
    BY <1>6 DEF InvalidateMemory, Smembers, lockVars
  <2> QED
    BY <1>0, <1>t, <2>1, <2>2, OvertakenType, OtherBooks
<1>7. CASE Tick
  <2>1. \A k \in Key : entries'[k] # NoEntry => entries[k] # NoEntry
    BY <1>t, <1>7, UnchangedTyped, TickFacts, OlderFacts
  <2>2. /\ cfg' = cfg /\ locks' = locks /\ inflight' = inflight /\ torn' = torn
        /\ refreshing' = refreshing /\ task' = task
    BY <1>7 DEF Tick, lockVars
  <2> QED
    BY <1>0, <1>a, <2>1, <2>2, OtherBooks
<1> QED
  BY <1>1, <1>2, <1>3, <1>4, <1>5, <1>6, <1>7 DEF Next, Invalidate

\* The books are right at the start.
LEMMA InitBooks ==
  ASSUME Init
  PROVE  BooksInv
<1>1. TypeOK
  BY InitTyped
<1>2. \A t \in Task : task[t].pc = "idle" /\ task[t].lock = NoLock
                      /\ task[t].refresh = FALSE
  BY DEF Init, Idle
<1>3. Owned(task)
  BY <1>2 DEF Owned, Owning, Queued, Critical
<1>4. QueuesOK(task, locks)
  <2>1. \A l \in Lock : Range(locks[l]) = {}
    BY DEF Init, Range
  <2> QED
    BY <1>2, <2>1 DEF QueuesOK, Queued, Critical
<1>5. OneKey(task, inflight) /\ Tended(task, inflight)
  BY <1>2 DEF Init, OneKey, Tended
<1>6. Marked(task, refreshing)
  BY <1>2 DEF Init, Marked
<1>7. CapacityRespected
  <2>1. Cached(entries) = {}
    BY DEF Init, Cached
  <2>2. Cardinality(Cached(entries)) = 0
    BY <2>1, FS_EmptySet
  <2> QED
    BY <2>2, CacheConstants DEF CapacityRespected
<1> QED
  BY <1>1, <1>3, <1>4, <1>5, <1>6, <1>7 DEF BooksInv, LockBooks

\* One refresh per mark, as a count.
LEMMA MarkedOnce ==
  ASSUME Marked(task, refreshing)
  PROVE  OneRefresh
<1> SUFFICES ASSUME NEW k \in Key
             PROVE  Cardinality({t \in Task : task[t].refresh /\ task[t].key = k})
                      = IF k \in refreshing THEN 1 ELSE 0
  BY DEF OneRefresh
<1> DEFINE R == {t \in Task : task[t].refresh /\ task[t].key = k}
<1>1. CASE k \in refreshing
  <2>1. PICK t \in Task : task[t].refresh /\ task[t].key = k
    BY <1>1 DEF Marked
  <2>2. R = {t}
    BY <2>1 DEF Marked
  <2> QED
    BY <1>1, <2>2, FS_Singleton
<1>2. CASE k \notin refreshing
  <2>1. R = {}
    BY <1>2 DEF Marked
  <2> QED
    BY <1>2, <2>1, FS_EmptySet
<1> QED
  BY <1>1, <1>2

\* From the books to what the coordinator promises.
LEMMA BooksAreSound ==
  ASSUME BooksInv
  PROVE  CoordinatorSound
<1>1. OneRefresh
  BY MarkedOnce DEF BooksInv
<1>2. InflightDrained
  <2>1. ASSUME \A t \in Task : task[t].pc = "idle", ~torn, NEW k \in Key,
               inflight[k] # NoLock
        PROVE  FALSE
    <3>1. PICK t \in Task : task[t].lock = inflight[k]
      BY <2>1 DEF BooksInv, LockBooks, Tended
    <3> QED
      BY <2>1, <3>1 DEF BooksInv, LockBooks, Owned, Owning, Queued, Critical
  <2> QED
    BY <2>1 DEF InflightDrained
<1> QED
  BY <1>1, <1>2 DEF BooksInv, CoordinatorSound

\* The locks, the map of locks, the marks of the refreshes and the capacity
\* are as the invariant says in every state of the coordinator.
THEOREM BooksAlways == Spec => []BooksInv
<1>1. Init => BooksInv
  BY InitBooks
<1>2. BooksInv /\ [Next]_vars => BooksInv'
  BY BooksNext
<1> QED
  BY <1>1, <1>2, PTL DEF Spec

\* One refresh per marked key, a map of locks that drains unless a future was
\* dropped or a Redis error returned early, and at most max_entries entries in
\* memory: try_start_refresh, finish_refresh, cleanup_inflight_lock and
\* evict_oldest do their work for any number of requests, keys and locks.
THEOREM CoordinatorIsSound == Spec => []CoordinatorSound
<1>1. BooksInv => CoordinatorSound
  BY BooksAreSound
<1> QED
  BY <1>1, BooksAlways, PTL

-----------------------------------------------------------------------------
(* Invalidation.                                                           *)

\* Steps of a task that store nothing.
LEMMA NothingStored ==
  ASSUME TypeOK, TypeOK', FreshInv, cfg' = cfg, UNCHANGED writeVars, NEW t \in Task,
         Moves(t), index \subseteq index', indexLife' = indexLife,
         \A k \in Key : entries'[k] \in {entries[k], NoEntry},
         \/ task'[t].pc \notin Storing
         \/ /\ task[t].pc \in Storing
            /\ task'[t].ver = task[t].ver /\ task'[t].raced = task[t].raced
            /\ task'[t].key = task[t].key
            /\ task'[t].pc \in {"sadd", "expire"}
                 => task[t].pc \in {"sadd", "expire"}
  PROVE  FreshInv'
<1>1. \A u \in Task \ {t} : task'[u] = task[u]
  BY DEF Moves
<1>2. floor' = floor /\ writer' = writer /\ members' = members
      /\ (Invalidating' <=> Invalidating) /\ (StaleWindow' = StaleWindow)
  BY DEF writeVars, Invalidating, StaleWindow
<1>3. TasksCurrent'
  BY <1>1, <1>2 DEF FreshInv, TasksCurrent
<1>4. \A k \in Key : Settled(entries'[k]) =>
        Settled(entries[k]) /\ entries'[k] = entries[k]
  BY DEF Settled
<1>5. EntriesCurrent'
  BY <1>2, <1>4 DEF FreshInv, EntriesCurrent
<1>6. Living'
  BY <1>2 DEF FreshInv, Living
<1>7. OwnStores'
  <2>1. \A u \in Task : task[u].key \in Key
    BY UnchangedTyped
  <2>2. \A u \in Task : task'[u].pc \in {"sadd", "expire"} =>
          /\ task[u].pc \in {"sadd", "expire"} /\ task'[u].key = task[u].key
          /\ task'[u].ver = task[u].ver
    BY <1>1 DEF Storing
  <2> QED
    BY <2>1, <2>2 DEF FreshInv, OwnStores
<1> QED
  BY <1>2, <1>3, <1>5, <1>6, <1>7 DEF FreshInv

\* Steps before the search and after the refresh store nothing.
LEMMA IdleStepsFresh ==
  ASSUME TypeOK, TypeOK', FreshInv, NEW t \in Task,
         \/ \E k \in Key : Get(t, k)
         \/ GetAny(t) \/ LockForKey(t) \/ TryLock(t) \/ Recheck(t)
         \/ FinishRefresh(t)
  PROVE  FreshInv'
<1>t. task[t].key \in Key
  BY UnchangedTyped
<1>k. \A k \in Key : \A j \in Key : AfterGet(k)[j] \in {entries[j], NoEntry}
  BY AfterGetFacts
<1>1. ASSUME NEW k \in Key, Get(t, k)
      PROVE  FreshInv'
  <2>1. /\ cfg' = cfg /\ UNCHANGED writeVars /\ entries' = AfterGet(k)
        /\ index' = index /\ indexLife' = indexLife
    BY <1>1 DEF Get
  <2>2. Moves(t) /\ task'[t].pc \notin Storing
    <3>1. task \in [Task -> Rec]
      BY DEF TypeOK
    <3> QED
      BY <1>1, <3>1, GetMoves DEF Storing, Moves
  <2> QED
    BY <1>k, <2>1, <2>2, NothingStored
<1>2. CASE GetAny(t)
  <2>1. Miss(t, TRUE) \/ Miss(t, FALSE) \/ Move(t, Idle)
    BY <1>2 DEF GetAny
  <2>2. Moves(t) /\ task'[t].pc \notin Storing
    BY <2>1, MissType, ToIdleType DEF Storing
  <2> QED
    BY <1>2, <1>k, <1>t, <2>2, NothingStored DEF GetAny
<1>3. CASE LockForKey(t)
  <2>1. Moves(t) /\ task'[t].pc \notin Storing
    BY <1>3, LockForKeyMoves DEF Storing
  <2> QED
    BY <1>3, <2>1, NothingStored DEF LockForKey, cacheVars
<1>4. CASE TryLock(t)
  <2>1. Moves(t) /\ task'[t].pc \notin Storing
    BY <1>4, TryLockMoves DEF Storing
  <2> QED
    BY <1>4, <2>1, NothingStored DEF TryLock, cacheVars
<1>5. CASE Recheck(t)
  <2>1. Locked(t, "cleanup") \/ Locked(t, "search")
    BY <1>5 DEF Recheck
  <2>2. Moves(t) /\ task'[t].pc \notin Storing
    BY <2>1, LockedType DEF Storing, PC
  <2> QED
    BY <1>5, <1>k, <1>t, <2>2, NothingStored DEF Recheck
<1>6. CASE FinishRefresh(t)
  <2>1. Moves(t) /\ task'[t].pc \notin Storing
    BY <1>6, ToIdleType DEF FinishRefresh, Storing
  <2> QED
    BY <1>6, <2>1, NothingStored DEF FinishRefresh, cacheVars
<1> QED
  BY <1>1, <1>2, <1>3, <1>4, <1>5, <1>6

\* Nor do those that wait, fail, clean up or go away.
LEMMA ReturnsFresh ==
  ASSUME BooksInv, TypeOK', FreshInv, NEW t \in Task,
         \/ Enqueue(t) \/ LockTimeout(t) \/ SearchFails(t) \/ RedisFails(t)
         \/ Cleanup(t) \/ Drop(t)
  PROVE  FreshInv'
<1>t. TypeOK
  BY DEF BooksInv
<1>1. /\ cfg' = cfg /\ UNCHANGED writeVars /\ entries' = entries
      /\ index' = index /\ indexLife' = indexLife
  BY DEF Enqueue, LockTimeout, SearchFails, RedisFails, Cleanup, Drop, cacheVars
<1>2. Return(t) \/ To(t, "wait") \/ To(t, "cleanup") \/ Move(t, Idle)
  BY DEF Enqueue, LockTimeout, SearchFails, RedisFails, Cleanup, Drop, ReturnErr
<1>3. Moves(t) /\ task'[t].pc \notin Storing
  <2>1. ASSUME Return(t)
        PROVE  Moves(t) /\ task'[t].pc \notin Storing
    BY <1>t, <2>1, ReturnType DEF Moves, Storing
  <2>2. ASSUME To(t, "wait") \/ To(t, "cleanup")
        PROVE  Moves(t) /\ task'[t].pc \notin Storing
    BY <1>t, <2>2, ToType DEF PC, Storing
  <2>3. ASSUME Move(t, Idle)
        PROVE  Moves(t) /\ task'[t].pc \notin Storing
    BY <1>t, <2>3, ToIdleType DEF Storing
  <2> QED
    BY <1>2, <2>1, <2>2, <2>3
<1> QED
  BY <1>t, <1>1, <1>3, NothingStored

\* A search sees a version no older than the last invalidation.
LEMMA SearchFresh ==
  ASSUME TypeOK, TypeOK', FreshInv, NEW t \in Task, Search(t)
  PROVE  FreshInv'
<1>1. /\ Moves(t) /\ task'[t].pc = "assemble"
      /\ task'[t].ver = version /\ task'[t].raced = Invalidating
  BY SearchMoves
<1>2. /\ cfg' = cfg /\ entries' = entries /\ index' = index
      /\ indexLife' = indexLife /\ floor' = floor /\ writer' = writer
      /\ members' = members
  BY DEF Search, cacheVars, writeVars
<1>3. (Invalidating' <=> Invalidating) /\ StaleWindow' = StaleWindow
  BY <1>2 DEF Invalidating, StaleWindow
<1>4. version >= floor
  BY Types
<1>5. \A u \in Task \ {t} : task'[u] = task[u]
  BY <1>1 DEF Moves
<1>6. TasksCurrent'
  BY <1>1, <1>2, <1>3, <1>4, <1>5 DEF FreshInv, TasksCurrent
<1>7. EntriesCurrent' /\ Living'
  BY <1>2, <1>3 DEF FreshInv, EntriesCurrent, Living
<1>8. OwnStores'
  BY <1>1, <1>2, <1>5 DEF FreshInv, OwnStores
<1> QED
  BY <1>2, <1>3, <1>6, <1>7, <1>8 DEF FreshInv

\* SADD only adds to the index.
LEMMA SaddFresh ==
  ASSUME TypeOK, TypeOK', FreshInv, NEW t \in Task, SaddRedis(t)
  PROVE  FreshInv'
<1>1. /\ Moves(t) /\ task'[t].pc = "expire" /\ task'[t].key = task[t].key
      /\ task'[t].ver = task[t].ver /\ task'[t].raced = task[t].raced
      /\ task[t].pc = "sadd"
  BY ToType DEF SaddRedis, PC, Alike
<1> QED
  BY <1>1, NothingStored DEF SaddRedis, Storing

\* What set puts in memory is current, or raced.
LEMMA SetMemoryFresh ==
  ASSUME TypeOK, TypeOK', FreshInv, NEW t \in Task, SetMemory(t)
  PROVE  FreshInv'
<1> DEFINE k == task[t].key
           e == NewEntry(t, Done)
<1>1. /\ cfg.backend = "memory" /\ task[t].pc = "assemble" /\ Stored(t)
      /\ cfg' = cfg /\ floor' = floor /\ writer' = writer /\ members' = members
      /\ cfg.backend # "redis"
  BY DEF SetMemory, writeVars
<1>2. /\ e \in Entry /\ e.ver = task[t].ver /\ e.by = Done
      /\ e.raced = task[t].raced
  BY NewEntryType
<1>3. k \in Key /\ entries' \in AfterSet(k, e)
  BY UnchangedTyped DEF SetMemory
<1> HIDE DEF k, e
<1>4. \A j \in Key : \/ entries'[j] = NoEntry
                     \/ entries'[j] = IF j = k THEN e ELSE entries[j]
  BY <1>2, <1>3, AfterSetFacts
<1>5. /\ \A u \in Task \ {t} : task'[u] = task[u]
      /\ task'[t].pc \notin Storing
  BY <1>1, StoredType DEF Storing
<1>6. ~Invalidating /\ ~Invalidating'
  BY <1>1 DEF FreshInv, Invalidating
<1>7. TasksCurrent'
  BY <1>1, <1>5, <1>6 DEF FreshInv, TasksCurrent
<1>8. EntriesCurrent'
  <2>1. ASSUME NEW j \in Key, Settled(entries'[j])
        PROVE  entries'[j].ver >= floor
    <3>1. entries'[j] # NoEntry
      BY <2>1 DEF Settled
    <3>2. CASE j = k
      <4>1. entries'[j] = e
        BY <1>4, <3>1, <3>2
      <4>2. ~task[t].raced
        BY <1>2, <2>1, <4>1 DEF Settled
      <4> QED
        BY <1>1, <1>2, <4>1, <4>2 DEF FreshInv, TasksCurrent, Storing
    <3>3. CASE j # k
      <4>1. entries'[j] = entries[j]
        BY <1>4, <3>1, <3>3
      <4> QED
        BY <2>1, <4>1 DEF FreshInv, EntriesCurrent
    <3> QED
      BY <3>2, <3>3
  <2>2. writer # "members" /\ writer # "delindex"
    BY <1>6 DEF Invalidating
  <2> QED
    BY <1>1, <2>1, <2>2 DEF EntriesCurrent
<1>9. Living' /\ OwnStores'
  BY <1>1, <1>5 DEF FreshInv, Living, OwnStores, Storing
<1> QED
  BY <1>6, <1>7, <1>8, <1>9 DEF FreshInv

\* SET EX alone makes no promise yet: the entry is still its task's.
LEMMA SetRedisFresh ==
  ASSUME TypeOK, TypeOK', FreshInv, NEW t \in Task, SetRedis(t)
  PROVE  FreshInv'
<1> DEFINE k == task[t].key
           e == NewEntry(t, t)
<1>1. /\ cfg.backend = "redis" /\ task[t].pc = "assemble"
      /\ cfg' = cfg /\ floor' = floor /\ writer' = writer /\ members' = members
      /\ index' = index /\ indexLife' = indexLife
      /\ entries' = [entries EXCEPT ![k] = e]
  BY DEF SetRedis, writeVars
<1>2. /\ e.ver = task[t].ver /\ e.by = t /\ e.life = Ttl + StaleWindow
      /\ t # Done
  BY NewEntryType, CacheConstants
<1>3. k \in Key /\ entries \in [Key -> Entry \cup {NoEntry}]
  BY UnchangedTyped
<1>4. Ttl + StaleWindow \in 1..(Ttl + StaleWindow)
  BY Types, CacheConstants
<1>5. /\ Moves(t) /\ task'[t].key = k /\ task'[t].pc = "sadd"
      /\ task'[t].ver = task[t].ver /\ task'[t].raced = task[t].raced
  BY ToType DEF SetRedis, PC, Alike
<1> HIDE DEF k, e
<1>6. entries'[k] = e /\ \A j \in Key \ {k} : entries'[j] = entries[j]
  BY <1>1, <1>3
<1>7. \A u \in Task \ {t} : task'[u] = task[u]
  BY <1>5 DEF Moves
<1>8. (Invalidating' <=> Invalidating) /\ StaleWindow' = StaleWindow
  BY <1>1 DEF Invalidating, StaleWindow
<1>9. TasksCurrent'
  BY <1>1, <1>5, <1>7, <1>8 DEF FreshInv, TasksCurrent, Storing
<1>10. EntriesCurrent'
  <2>1. ~Settled(entries'[k])
    BY <1>2, <1>6 DEF Settled
  <2>2. \A j \in Key : Settled(entries'[j]) => j # k /\ entries'[j] = entries[j]
    BY <1>6, <2>1
  <2> QED
    BY <1>1, <2>2 DEF FreshInv, EntriesCurrent
<1>11. Living'
  <2> HIDE DEF StaleWindow
  <2>1. ASSUME NEW j \in Key, entries'[j] # NoEntry
        PROVE  entries'[j].life \in 1..(Ttl + StaleWindow)
    BY <1>1, <1>2, <1>4, <1>6, <2>1 DEF FreshInv, Living
  <2> QED
    BY <1>8, <2>1 DEF Living
<1>12. OwnStores'
  <2>1. \A u \in Task : task[u].key \in Key
    BY UnchangedTyped
  <2>2. ASSUME NEW u \in Task, task'[u].pc \in {"sadd", "expire"},
               entries'[task'[u].key] # NoEntry, entries'[task'[u].key].by = u
        PROVE  entries'[task'[u].key].ver = task'[u].ver
    <3>1. CASE u = t
      BY <1>2, <1>5, <1>6, <3>1
    <3>2. CASE u # t
      <4>1. task'[u] = task[u]
        BY <1>7, <3>2
      <4>2. task[u].key # k
        BY <1>2, <1>6, <2>2, <3>2, <4>1
      <4>3. entries'[task[u].key] = entries[task[u].key]
        BY <1>6, <2>1, <4>2
      <4> QED
        BY <2>2, <4>1, <4>3 DEF FreshInv, OwnStores
    <3> QED
      BY <3>1, <3>2
  <2> QED
    BY <1>1, <2>2 DEF OwnStores
<1> QED
  BY <1>1, <1>8, <1>9, <1>10, <1>11, <1>12 DEF FreshInv

\* EXPIRE completes the store of an entry that the index lists.
LEMMA ExpireFresh ==
  ASSUME TypeOK, TypeOK', FreshInv, NEW t \in Task, ExpireRedis(t)
  PROVE  FreshInv'
<1> DEFINE k == task[t].key
<1>1. /\ task[t].pc = "expire" /\ Stored(t)
      /\ cfg' = cfg /\ floor' = floor /\ writer' = writer /\ members' = members
      /\ index' = index
      /\ indexLife' = IF index = {} THEN indexLife ELSE Ttl + StaleWindow
  BY DEF ExpireRedis, writeVars
<1>2. /\ \A j \in Key \ {k} : entries'[j] = entries[j]
      /\ entries[k] = NoEntry <=> entries'[k] = NoEntry
      /\ entries[k] # NoEntry => /\ entries'[k].ver = entries[k].ver
                                 /\ entries'[k].life = entries[k].life
      /\ \/ entries'[k] = entries[k]
         \/ /\ entries[k] # NoEntry /\ entries[k].by = t /\ k \in index
            /\ entries'[k].by = Done /\ entries'[k].raced = task[t].raced
  BY ExpireEntries
<1>3. k \in Key /\ cfg.backend = "redis"
  BY <1>1, UnchangedTyped DEF FreshInv, OwnStores
<1>4. /\ \A u \in Task \ {t} : task'[u] = task[u]
      /\ task'[t].pc \notin Storing
  BY <1>1, StoredType DEF Storing
<1>5. (Invalidating' <=> Invalidating) /\ StaleWindow' = StaleWindow
  BY <1>1 DEF Invalidating, StaleWindow
<1>o. entries[k] # NoEntry /\ entries[k].by = t => entries[k].ver = task[t].ver
  BY <1>1 DEF FreshInv, OwnStores
<1>w. ~task[t].raced => task[t].ver >= floor /\ ~Invalidating
  BY <1>1 DEF FreshInv, TasksCurrent, Storing
<1> HIDE DEF k, StaleWindow
<1>6. TasksCurrent'
  BY <1>1, <1>4, <1>5 DEF FreshInv, TasksCurrent
<1>7. Living'
  <2>1. ASSUME NEW j \in Key, entries'[j] # NoEntry
        PROVE  entries'[j].life \in 1..(Ttl + StaleWindow)
    <3>1. entries[j] # NoEntry /\ entries'[j].life = entries[j].life
      BY <1>2, <2>1
    <3> QED
      BY <1>3, <3>1 DEF FreshInv, Living
  <2> QED
    BY <1>5, <2>1 DEF Living
<1>8. \A j \in Key : j \in index /\ entries'[j] # NoEntry
        => entries'[j].life <= indexLife'
  <2>1. ASSUME NEW j \in Key, j \in index, entries'[j] # NoEntry
        PROVE  entries'[j].life <= indexLife'
    <3>1. indexLife' = Ttl + StaleWindow
      BY <1>1, <2>1
    <3>2. entries'[j].life \in 1..(Ttl + StaleWindow)
      BY <1>1, <1>3, <1>5, <1>7, <2>1 DEF Living
    <3>3. Ttl + StaleWindow \in Int
      BY Types
    <3> QED
      BY <3>1, <3>2, <3>3
  <2> QED
    BY <2>1
<1>9. EntriesCurrent'
  <2>1. ASSUME NEW j \in Key, Settled(entries'[j])
        PROVE  /\ entries'[j].ver >= floor
               /\ j \in index /\ entries'[j].life <= indexLife'
               /\ writer = "members" => j \in members
               /\ writer # "delindex"
    <3>0. entries'[j] # NoEntry
      BY <2>1 DEF Settled
    <3>1. CASE entries'[j] = entries[j]
      <4>1. /\ entries[j].ver >= floor /\ j \in index
            /\ writer = "members" => j \in members
            /\ writer # "delindex"
        BY <1>3, <2>1, <3>1 DEF FreshInv, EntriesCurrent
      <4> QED
        BY <1>8, <3>0, <3>1, <4>1
    <3>2. CASE entries'[j] # entries[j]
      <4>1. /\ j = k /\ entries[k] # NoEntry /\ entries[k].by = t /\ k \in index
            /\ entries'[k].raced = task[t].raced
        BY <1>2, <3>2
      <4>2. ~task[t].raced
        BY <2>1, <4>1 DEF Settled
      <4>3. entries'[k].ver = task[t].ver
        BY <1>2, <1>o, <4>1
      <4> QED
        BY <1>8, <1>w, <3>0, <4>1, <4>2, <4>3 DEF Invalidating
    <3> QED
      BY <3>1, <3>2
  <2> QED
    BY <1>1, <2>1 DEF EntriesCurrent
<1>10. OwnStores'
  <2>1. \A u \in Task : task[u].key \in Key
    BY UnchangedTyped
  <2>2. ASSUME NEW u \in Task, task'[u].pc \in {"sadd", "expire"}
        PROVE  /\ cfg.backend = "redis"
               /\ entries'[task'[u].key] # NoEntry /\ entries'[task'[u].key].by = u
                    => entries'[task'[u].key].ver = task'[u].ver
    <3>1. u # t /\ task'[u] = task[u]
      BY <1>4, <2>2 DEF Storing
    <3>2. CASE entries'[task[u].key] = entries[task[u].key]
      BY <1>3, <2>2, <3>1, <3>2 DEF FreshInv, OwnStores
    <3>3. CASE entries'[task[u].key] # entries[task[u].key]
      BY <1>2, <1>3, <2>1, <3>1, <3>3, CacheConstants
    <3> QED
      BY <3>2, <3>3
  <2> QED
    BY <1>1, <2>2 DEF OwnStores
<1> QED
  BY <1>1, <1>3, <1>5, <1>6, <1>7, <1>9, <1>10 DEF FreshInv

\* The steps of the writer.
LEMMA WriterFresh ==
  ASSUME TypeOK, TypeOK', FreshInv,
         Write \/ InvalidateMemory \/ Smembers \/ DelMembers \/ DelIndex
           \/ InvalidateFails
  PROVE  FreshInv'
<1>k. \A u \in Task : task[u].key \in Key
  BY UnchangedTyped
<1>o. \A u \in Task :
        /\ Overtaken[u].pc = task[u].pc /\ Overtaken[u].key = task[u].key
        /\ Overtaken[u].ver = task[u].ver
        /\ Overtaken[u].pc \in Storing => Overtaken[u].raced
  BY OvertakenType DEF Alike
<1>1. CASE Write
  <2>1. /\ cfg' = cfg /\ entries' = entries /\ index' = index
        /\ indexLife' = indexLife /\ members' = members /\ floor' = floor
        /\ task' = task /\ writer = "idle" /\ writer' = "invalidate"
    BY <1>1 DEF Write, cacheVars
  <2>2. ~Invalidating' /\ StaleWindow' = StaleWindow
    BY <2>1 DEF Invalidating, StaleWindow
  <2> HIDE DEF StaleWindow
  <2> QED
    BY <2>1, <2>2 DEF FreshInv, TasksCurrent, EntriesCurrent, Living, OwnStores
<1>2. CASE InvalidateMemory
  <2>1. /\ cfg' = cfg /\ cfg.backend = "memory" /\ task' = Overtaken
        /\ writer' = "idle" /\ \A k \in Key : entries'[k] = NoEntry
    BY <1>2 DEF InvalidateMemory
  <2>2. ~Invalidating' /\ cfg.backend # "redis"
    BY <2>1 DEF Invalidating
  <2>3. TasksCurrent'
    BY <1>o, <2>1 DEF TasksCurrent
  <2>4. EntriesCurrent' /\ Living'
    BY <2>1 DEF EntriesCurrent, Living, Settled
  <2>5. OwnStores'
    BY <1>o, <2>1 DEF FreshInv, OwnStores
  <2> QED
    BY <2>2, <2>3, <2>4, <2>5 DEF FreshInv
<1>3. CASE Smembers
  <2>1. /\ cfg' = cfg /\ cfg.backend = "redis" /\ task' = Overtaken
        /\ writer' = IF index = {} THEN "delindex" ELSE "members"
        /\ members' = index /\ entries' = entries /\ index' = index
        /\ indexLife' = indexLife /\ floor' = floor
    BY <1>3 DEF Smembers, cacheVars
  <2>2. StaleWindow' = StaleWindow
    BY <2>1 DEF StaleWindow
  <2>3. TasksCurrent'
    BY <1>o, <2>1 DEF TasksCurrent
  <2>4. EntriesCurrent'
    BY <2>1 DEF FreshInv, EntriesCurrent
  <2>5. Living' /\ OwnStores'
    BY <1>o, <2>1, <2>2 DEF FreshInv, Living, OwnStores
  <2> QED
    BY <2>1, <2>3, <2>4, <2>5 DEF FreshInv
<1>4. CASE DelMembers
  <2>1. /\ cfg' = cfg /\ task' = task /\ writer = "members"
        /\ writer' = "delindex" /\ members' = members /\ index' = index
        /\ indexLife' = indexLife /\ floor' = floor
        /\ \A k \in Key :
             entries'[k] = IF k \in members THEN NoEntry ELSE entries[k]
    BY <1>4 DEF DelMembers
  <2>2. Invalidating /\ cfg.backend = "redis" /\ StaleWindow' = StaleWindow
    BY <2>1 DEF FreshInv, Invalidating, StaleWindow
  <2>3. TasksCurrent'
    BY <2>1, <2>2 DEF FreshInv, TasksCurrent
  <2>4. EntriesCurrent'
    BY <2>1 DEF FreshInv, EntriesCurrent, Settled
  <2>5. Living'
    BY <2>1, <2>2 DEF FreshInv, Living
  <2>6. OwnStores'
    BY <1>k, <2>1 DEF FreshInv, OwnStores
  <2> QED
    BY <2>1, <2>2, <2>3, <2>4, <2>5, <2>6 DEF FreshInv
<1>5. CASE DelIndex
  <2>1. /\ cfg' = cfg /\ task' = task /\ writer = "delindex"
        /\ writer' = "idle" /\ entries' = entries
    BY <1>5 DEF DelIndex
  <2>2. Invalidating /\ ~Invalidating' /\ StaleWindow' = StaleWindow
    BY <2>1 DEF Invalidating, StaleWindow
  <2>3. TasksCurrent'
    BY <2>1, <2>2 DEF FreshInv, TasksCurrent
  <2>4. EntriesCurrent'
    BY <2>1 DEF FreshInv, EntriesCurrent
  <2>5. Living' /\ OwnStores'
    BY <2>1, <2>2 DEF FreshInv, Living, OwnStores
  <2> QED
    BY <2>2, <2>3, <2>4, <2>5 DEF FreshInv
<1>6. CASE InvalidateFails
  <2>1. /\ cfg' = cfg /\ entries' = entries /\ index' = index
        /\ indexLife' = indexLife /\ floor' = floor
        /\ task' = task /\ writer' = "idle"
    BY <1>6 DEF InvalidateFails, cacheVars
  <2>2. ~Invalidating' /\ StaleWindow' = StaleWindow
    BY <2>1 DEF Invalidating, StaleWindow
  <2>3. TasksCurrent' /\ EntriesCurrent'
    BY <2>1, <2>2 DEF FreshInv, TasksCurrent, EntriesCurrent
  <2>4. Living' /\ OwnStores'
    BY <2>1, <2>2 DEF FreshInv, Living, OwnStores
  <2> QED
    BY <2>2, <2>3, <2>4 DEF FreshInv
<1> QED
  BY <1>1, <1>2, <1>3, <1>4, <1>5, <1>6

\* In Redis the index outlives the entries it lists.
LEMMA TickFresh ==
  ASSUME TypeOK, TypeOK', FreshInv, Tick
  PROVE  FreshInv'
<1>1. /\ cfg' = cfg /\ task' = task /\ floor' = floor /\ writer' = writer
      /\ members' = members
  BY DEF Tick, writeVars
<1>2. (Invalidating' <=> Invalidating) /\ StaleWindow' = StaleWindow
  BY <1>1 DEF Invalidating, StaleWindow
<1>3. /\ indexLife' = IF indexLife <= 1 THEN -1 ELSE indexLife - 1
      /\ indexLife \in Int
      /\ index' = IF indexLife = 1 THEN {} ELSE index
      /\ \A k \in Key : entries'[k] = Older(entries[k])
  BY TickFacts
<1>4. ASSUME NEW k \in Key, entries'[k] # NoEntry
      PROVE  /\ entries[k] # NoEntry
             /\ entries'[k].ver = entries[k].ver /\ entries'[k].by = entries[k].by
             /\ entries'[k].raced = entries[k].raced
             /\ cfg.backend = "redis" =>
                  entries[k].life > 1 /\ entries'[k].life = entries[k].life - 1
  BY <1>3, <1>4, UnchangedTyped, OlderFacts
<1>s. Ttl + StaleWindow \in Int
  BY Types
<1> HIDE DEF StaleWindow
<1>5. TasksCurrent'
  BY <1>1, <1>2 DEF FreshInv, TasksCurrent
<1>6. EntriesCurrent'
  <2>1. ASSUME NEW k \in Key, Settled(entries'[k])
        PROVE  /\ entries'[k].ver >= floor
               /\ cfg.backend = "redis"
                    => k \in index' /\ entries'[k].life <= indexLife'
               /\ writer = "members" => k \in members
               /\ writer # "delindex"
    <3>1. entries'[k] # NoEntry /\ Settled(entries[k])
      BY <1>4, <2>1 DEF Settled
    <3>2. /\ entries[k].ver >= floor
          /\ cfg.backend = "redis" => k \in index /\ entries[k].life <= indexLife
          /\ writer = "members" => k \in members
          /\ writer # "delindex"
      BY <3>1 DEF FreshInv, EntriesCurrent
    <3>3. ASSUME cfg.backend = "redis"
          PROVE  k \in index' /\ entries'[k].life <= indexLife'
      <4>1. /\ entries[k].life > 1 /\ entries'[k].life = entries[k].life - 1
            /\ entries[k].life \in Int /\ entries[k].life <= indexLife
        BY <1>4, <1>s, <3>1, <3>2, <3>3 DEF FreshInv, Living
      <4>2. ~(indexLife <= 1) /\ indexLife # 1
        BY <1>3, <4>1
      <4> QED
        BY <1>3, <3>2, <3>3, <4>1, <4>2
    <3> QED
      BY <1>4, <3>1, <3>2, <3>3
  <2> QED
    BY <1>1, <2>1 DEF EntriesCurrent
<1>7. Living'
  <2>1. ASSUME NEW k \in Key, entries'[k] # NoEntry, cfg.backend = "redis"
        PROVE  entries'[k].life \in 1..(Ttl + StaleWindow)
    <3>1. entries[k] # NoEntry
      BY <1>4, <2>1
    <3>2. /\ entries[k].life > 1 /\ entries'[k].life = entries[k].life - 1
          /\ entries[k].life \in 1..(Ttl + StaleWindow)
      BY <1>4, <2>1, <3>1 DEF FreshInv, Living
    <3> QED
      BY <1>s, <3>2
  <2> QED
    BY <1>1, <1>2, <2>1 DEF Living
<1>8. OwnStores'
  <2>1. \A u \in Task : task[u].key \in Key
    BY UnchangedTyped
  <2> QED
    BY <1>1, <1>4, <2>1 DEF FreshInv, OwnStores
<1> QED
  BY <1>1, <1>2, <1>5, <1>6, <1>7, <1>8 DEF FreshInv

\* Every step keeps entries current.
LEMMA FreshNext ==
  ASSUME BooksInv, BooksInv', FreshInv, [Next]_vars
  PROVE  FreshInv'
<1>t. TypeOK /\ TypeOK'
  BY DEF BooksInv
<1>1. CASE UNCHANGED vars
  <2>1. /\ cfg' = cfg /\ entries' = entries /\ index' = index
        /\ indexLife' = indexLife /\ members' = members /\ floor' = floor
        /\ task' = task /\ writer' = writer
    BY <1>1 DEF vars, cacheVars, writeVars
  <2>2. (Invalidating' <=> Invalidating) /\ StaleWindow' = StaleWindow
    BY <2>1 DEF Invalidating, StaleWindow
  <2>3. TasksCurrent' /\ EntriesCurrent'
    BY <2>1, <2>2 DEF FreshInv, TasksCurrent, EntriesCurrent
  <2>4. Living' /\ OwnStores'
    BY <2>1, <2>2 DEF FreshInv, Living, OwnStores
  <2> QED
    BY <2>1, <2>2, <2>3, <2>4 DEF FreshInv
<1>2. CASE \E t \in Task : \E k \in cfg.keys : Get(t, k)
  <2>1. cfg.keys \subseteq Key
    BY <1>t, Types DEF Config
  <2> QED
    BY <1>t, <1>2, <2>1, IdleStepsFresh
<1>3. CASE \E t \in Task : Step(t)
  BY <1>t, <1>3, IdleStepsFresh, ReturnsFresh, SearchFresh, SetMemoryFresh,
     SetRedisFresh, SaddFresh, ExpireFresh DEF Step
<1>4. CASE \E t \in Task : Drop(t)
  BY <1>t, <1>4, ReturnsFresh
<1>5. CASE Write \/ Invalidate \/ Tick
  BY <1>t, <1>5, WriterFresh, TickFresh DEF Invalidate
<1> QED
  BY <1>1, <1>2, <1>3, <1>4, <1>5 DEF Next

\* Nothing is cached at the start.
LEMMA InitFresh ==
  ASSUME Init
  PROVE  FreshInv
<1>1. \A t \in Task : task[t].pc = "idle"
  BY DEF Init, Idle
<1>2. \A k \in Key : entries[k] = NoEntry
  BY DEF Init
<1>3. ~Invalidating
  BY DEF Init, Invalidating
<1> QED
  BY <1>1, <1>2, <1>3
     DEF FreshInv, TasksCurrent, EntriesCurrent, Living, OwnStores, Storing, Settled

\* invalidate_user is effective in both backends: whatever is cached from before
\* the last completed invalidation was computed across one, or its store in
\* Redis never got as far as the index.
THEOREM InvalidationIsEffective == Spec => []InvalidationHolds
<1>1. Init => FreshInv
  BY InitFresh
<1>2. BooksInv /\ BooksInv' /\ FreshInv /\ [Next]_vars => FreshInv'
  BY FreshNext
<1>3. BooksInv /\ FreshInv => InvalidationHolds
  <2>1. ASSUME BooksInv, FreshInv, NEW k \in Key, entries[k] # NoEntry,
               entries[k].ver < floor, ~entries[k].raced, entries[k].by = Done
        PROVE  FALSE
    <3>1. entries[k].ver >= floor
      BY <2>1 DEF FreshInv, EntriesCurrent, Settled
    <3>2. entries[k].ver \in Int /\ floor \in Int
      <4>1. entries[k] \in Entry
        BY <2>1, UnchangedTyped DEF BooksInv
      <4> QED
        BY <2>1, <4>1, Types DEF BooksInv, Entry
    <3> QED
      BY <2>1, <3>1, <3>2
  <2> QED
    BY <2>1 DEF InvalidationHolds
<1> QED
  BY <1>1, <1>2, <1>3, BooksAlways, PTL DEF Spec

-----------------------------------------------------------------------------
(* Stampede protection.                                                    *)

\* One task at a time holds a lock.
LEMMA OneHolder ==
  ASSUME BooksInv, cfg.stampede, NEW t \in Task, NEW u \in Task,
         task[t].pc \in Critical, task[u].pc \in Critical,
         task[t].lock = task[u].lock
  PROVE  t = u
BY DEF BooksInv, LockBooks, QueuesOK, Queued

\* Steps that change neither the entries nor the map of locks.
LEMMA CalmKept ==
  ASSUME CalmInv, cfg' = cfg, cfg.stampede, ~upset, writer' = writer,
         entries' = entries, inflight' = inflight,
         NEW t \in Task, Moves(t), Coalesced(t)'
  PROVE  CalmInv'
<1>1. /\ writer = "idle"
      /\ \A k \in Key : entries[k] # NoEntry => IsFresh(entries[k])
      /\ \A u \in Task : Coalesced(u)
  BY DEF CalmInv, Calm
<1>2. \A u \in Task \ {t} : task'[u] = task[u]
  BY DEF Moves
<1>3. \A u \in Task \ {t} : Coalesced(u)'
  BY <1>1, <1>2 DEF Coalesced, Computing
<1>4. \A k \in Key : entries'[k] # NoEntry => IsFresh(entries[k])'
  BY <1>1 DEF IsFresh, StaleWindow
<1>5. \A u \in Task : Coalesced(u)'
  BY <1>3
<1> QED
  BY <1>1, <1>4, <1>5 DEF CalmInv

\* In calm weather: the steps that neither store nor touch the map of locks.
LEMMA StepCalm ==
  ASSUME BooksInv, CalmInv, Calm, NEW t \in Task,
         \/ \E k \in Key : Get(t, k)
         \/ GetAny(t) \/ TryLock(t) \/ Enqueue(t) \/ LockTimeout(t)
         \/ Recheck(t) \/ Search(t) \/ SaddRedis(t) \/ ExpireRedis(t)
         \/ FinishRefresh(t)
  PROVE  CalmInv'
<1>1. TypeOK /\ cfg.stampede /\ ~upset /\ task[t].key \in Key
  BY UnchangedTyped DEF BooksInv, Calm
<1>2. /\ \A k \in Key : entries[k] # NoEntry => IsFresh(entries[k])
      /\ Coalesced(t)
  BY DEF CalmInv
<1>3. \A k \in Key : AfterGet(k) = entries
  BY <1>1, <1>2, AfterGetFacts
<1>4. ASSUME NEW k \in Key, Get(t, k)
      PROVE  CalmInv'
  <2>1. cfg' = cfg /\ writer' = writer /\ entries' = entries /\ inflight' = inflight
    BY <1>3, <1>4 DEF Get, writeVars, lockVars
  <2>2. task \in [Task -> Rec]
    BY <1>1 DEF TypeOK
  <2>3. Moves(t) /\ task'[t].pc \in {"idle", "any", "lock"}
    BY <1>1, <1>4, <2>2, GetMoves DEF Moves
  <2>4. Coalesced(t)'
    BY <2>3 DEF Coalesced, Computing, Owning, Queued, Critical
  <2> QED
    BY <1>1, <2>1, <2>3, <2>4, CalmKept
<1>5. CASE GetAny(t)
  <2>1. cfg' = cfg /\ writer' = writer /\ entries' = entries /\ inflight' = inflight
    BY <1>1, <1>3, <1>5 DEF GetAny, writeVars, lockVars
  <2>2. Miss(t, TRUE) \/ Miss(t, FALSE) \/ Move(t, Idle)
    BY <1>5 DEF GetAny
  <2>3. Moves(t) /\ task'[t].pc \in {"idle", "lock"}
    BY <1>1, <2>2, MissType, ToIdleType
  <2>4. Coalesced(t)'
    BY <2>3 DEF Coalesced, Computing, Owning, Queued, Critical
  <2> QED
    BY <1>1, <2>1, <2>3, <2>4, CalmKept
<1>6. CASE TryLock(t) \/ Enqueue(t)
  <2>1. cfg' = cfg /\ writer' = writer /\ entries' = entries /\ inflight' = inflight
        /\ task[t].pc \in {"try", "enqueue"}
    BY <1>6 DEF TryLock, Enqueue, cacheVars, writeVars, lockVars
  <2>2. Moves(t) /\ task'[t].pc \in {"enqueue", "wait"} /\ Alike(task'[t], task[t])
    BY <1>1, <1>6, TryLockMoves, EnqueueFacts DEF BooksInv, LockBooks
  <2>3. Coalesced(t)'
    BY <1>2, <2>1, <2>2
       DEF Alike, Coalesced, Computing, Owning, Queued, Critical
  <2> QED
    BY <1>1, <2>1, <2>2, <2>3, CalmKept
<1>7. CASE LockTimeout(t) \/ FinishRefresh(t)
  <2>1. cfg' = cfg /\ writer' = writer /\ entries' = entries /\ inflight' = inflight
    BY <1>7 DEF LockTimeout, FinishRefresh, cacheVars, writeVars, lockVars
  <2>2. Return(t) \/ Move(t, Idle)
    BY <1>7 DEF LockTimeout, FinishRefresh, ReturnErr
  <2>3. Moves(t) /\ task'[t].pc \in {"idle", "unmark"}
    BY <1>1, <2>2, ReturnType, ToIdleType DEF Moves
  <2>4. Coalesced(t)'
    BY <2>3 DEF Coalesced, Computing, Owning, Queued, Critical
  <2> QED
    BY <1>1, <2>1, <2>3, <2>4, CalmKept
<1>8. CASE Recheck(t)
  <2>1. cfg' = cfg /\ writer' = writer /\ entries' = entries /\ inflight' = inflight
        /\ task[t].pc = "wait"
    BY <1>1, <1>3, <1>8 DEF Recheck, Holds, writeVars, lockVars
  <2>2. Locked(t, IF Hit(task[t].key) THEN "cleanup" ELSE "search")
    BY <1>8 DEF Recheck
  <2>3. /\ Moves(t) /\ Alike(task'[t], task[t])
        /\ task'[t].pc = IF Hit(task[t].key) THEN "cleanup" ELSE "search"
    BY <1>1, <2>2, LockedType DEF PC
  <2>4. Hit(task[t].key) <=> entries[task[t].key] # NoEntry
    BY <1>1, <1>2 DEF Hit
  <2>5. Coalesced(t)'
    BY <1>2, <2>1, <2>3, <2>4
       DEF Alike, Coalesced, Computing, Owning, Queued, Critical
  <2> QED
    BY <1>1, <2>1, <2>3, <2>5, CalmKept
<1>9. CASE Search(t)
  <2>1. cfg' = cfg /\ writer' = writer /\ entries' = entries /\ inflight' = inflight
        /\ task[t].pc = "search"
    BY <1>9 DEF Search, cacheVars, writeVars, lockVars
  <2>2. Moves(t) /\ task'[t].pc = "assemble" /\ Alike(task'[t], task[t])
    BY <1>1, <1>9, SearchMoves
  <2>3. Coalesced(t)'
    BY <1>2, <2>1, <2>2
       DEF Alike, Coalesced, Computing, Owning, Queued, Critical
  <2> QED
    BY <1>1, <2>1, <2>2, <2>3, CalmKept
<1>10. CASE SaddRedis(t)
  <2>1. cfg' = cfg /\ writer' = writer /\ entries' = entries /\ inflight' = inflight
        /\ task[t].pc = "sadd"
    BY <1>10 DEF SaddRedis, writeVars, lockVars
  <2>2. Moves(t) /\ task'[t].pc = "expire" /\ Alike(task'[t], task[t])
    BY <1>1, <1>10, ToType DEF SaddRedis, PC
  <2>3. Coalesced(t)'
    BY <1>2, <2>1, <2>2
       DEF Alike, Coalesced, Computing, Owning, Queued, Critical
  <2> QED
    BY <1>1, <2>1, <2>2, <2>3, CalmKept
<1>11. CASE ExpireRedis(t)
  <2>1. cfg' = cfg /\ writer' = writer /\ inflight' = inflight
        /\ task[t].pc = "expire" /\ Stored(t)
    BY <1>11 DEF ExpireRedis, writeVars
  <2>2. /\ Moves(t) /\ task'[t].pc = "cleanup"
        /\ task'[t].key = task[t].key /\ task'[t].lock = task[t].lock
    BY <1>1, <2>1, StoredType DEF Moves
  <2>3. \A k \in Key : /\ entries'[k] # NoEntry <=> entries[k] # NoEntry
                       /\ entries[k] # NoEntry => entries'[k].life = entries[k].life
    BY <1>1, <1>11, ExpireEntries
  <2>4. \A u \in Task \ {t} : task'[u] = task[u]
    BY <2>2 DEF Moves
  <2>5. \A u \in Task : task[u].key \in Key /\ Coalesced(u)
    BY <1>1, UnchangedTyped DEF CalmInv
  <2>6. \A u \in Task \ {t} : Coalesced(u)'
    BY <2>1, <2>3, <2>4, <2>5 DEF Coalesced, Computing
  <2>7. Coalesced(t)'
    BY <1>1, <1>2, <2>1, <2>2, <2>3
       DEF Coalesced, Computing, Owning, Queued, Critical
  <2>8. \A k \in Key : entries'[k] # NoEntry => IsFresh(entries[k])'
    BY <1>2, <2>1, <2>3 DEF IsFresh, StaleWindow
  <2>9. \A u \in Task : Coalesced(u)'
    BY <2>6, <2>7
  <2>10. writer' = "idle"
    BY <2>1 DEF CalmInv
  <2> QED
    BY <2>8, <2>9, <2>10 DEF CalmInv
<1> QED
  BY <1>4, <1>5, <1>6, <1>7, <1>8, <1>9, <1>10, <1>11

\* A new lock is made only if nobody with the key still computes.
LEMMA LockForKeyCalm ==
  ASSUME BooksInv, CalmInv, Calm, NEW t \in Task, LockForKey(t)
  PROVE  CalmInv'
<1> DEFINE k == task[t].key
<1>1. TypeOK /\ k \in Key
  BY UnchangedTyped DEF BooksInv
<1>2. cfg' = cfg /\ writer' = writer /\ entries' = entries
  BY DEF LockForKey, cacheVars, writeVars
<1>3. PICK l \in Lock :
        /\ inflight[k] # NoLock => l = inflight[k]
        /\ inflight' = [inflight EXCEPT ![k] = l]
        /\ Moves(t) /\ task'[t].pc = "try" /\ task'[t].key = k
        /\ task'[t].lock = l
  BY <1>1, LockForKeyMoves
<1>4. inflight'[k] = l /\ \A j \in Key \ {k} : inflight'[j] = inflight[j]
  BY <1>1, <1>3, UnchangedTyped
<1>5. /\ writer = "idle"
      /\ \A j \in Key : entries[j] # NoEntry => IsFresh(entries[j])
      /\ \A u \in Task : Coalesced(u)
  BY DEF CalmInv
<1>6. \A u \in Task \ {t} : task'[u] = task[u]
  BY <1>3 DEF Moves
<1> HIDE DEF k
<1>7. ASSUME NEW u \in Task \ {t}
      PROVE  Coalesced(u)'
  <2>1. CASE task[u].key # k \/ inflight[k] # NoLock
    <3>1. inflight'[task[u].key] = inflight[task[u].key]
      <4>1. task[u].key \in Key
        BY <1>1, UnchangedTyped
      <4> QED
        BY <1>3, <1>4, <2>1, <4>1
    <3> QED
      BY <1>2, <1>5, <1>6, <3>1 DEF Coalesced, Computing
  <2>2. CASE task[u].key = k /\ inflight[k] = NoLock
    <3>1. task[u].pc \in Owning => task[u].lock # NoLock
      BY DEF BooksInv, LockBooks, Owned, Calm
    <3>2. ~Computing(u)
      BY <1>5, <2>2, <3>1 DEF Coalesced, Computing, Owning, Queued, Critical
    <3>3. task[u].pc \in Owning => entries[k] # NoEntry
      BY <1>5, <2>2, <3>1 DEF Coalesced
    <3> QED
      BY <1>2, <1>5, <1>6, <2>2, <3>2, <3>3 DEF Coalesced, Computing
  <2> QED
    BY <2>1, <2>2
<1>8. Coalesced(t)'
  BY <1>3, <1>4 DEF Coalesced, Computing
<1>9. \A j \in Key : entries'[j] # NoEntry => IsFresh(entries[j])'
  BY <1>2, <1>5 DEF IsFresh, StaleWindow
<1>10. \A u \in Task : Coalesced(u)'
  BY <1>7, <1>8
<1> QED
  BY <1>2, <1>5, <1>9, <1>10 DEF CalmInv

\* The store of a context, in memory or the first command in Redis: the key
\* was not cached, and nobody else computes it.
LEMMA StoreCalm ==
  ASSUME BooksInv, CalmInv, Calm, NEW t \in Task, task[t].pc = "assemble", Moves(t),
         cfg' = cfg, writer' = writer, inflight' = inflight,
         task'[t].pc \in {"sadd", "cleanup"}, Alike(task'[t], task[t]),
         \A j \in Key \ {task[t].key} : entries'[j] = entries[j],
         entries'[task[t].key] # NoEntry,
         entries'[task[t].key].life = Ttl + StaleWindow
  PROVE  CalmInv'
<1> DEFINE k == task[t].key
<1>1. TypeOK /\ cfg.stampede /\ k \in Key
  BY UnchangedTyped DEF BooksInv, Calm
<1>2. /\ writer = "idle"
      /\ \A j \in Key : entries[j] # NoEntry => IsFresh(entries[j])
      /\ \A u \in Task : Coalesced(u)
  BY DEF CalmInv
<1>3. \A u \in Task \ {t} : task'[u] = task[u]
  BY DEF Moves
<1>4. ASSUME NEW j \in Key, entries'[j] # NoEntry
      PROVE  IsFresh(entries[j])'
  <2>1. CASE j = k
    <3>1. Ttl + StaleWindow > StaleWindow
      BY <1>1, Types, CacheConstants
    <3> QED
      BY <2>1, <3>1 DEF IsFresh, StaleWindow
  <2>2. CASE j # k
    BY <1>2, <1>4, <2>2 DEF IsFresh, StaleWindow
  <2> QED
    BY <2>1, <2>2
<1>5. inflight[k] = task[t].lock
  BY <1>2 DEF Coalesced, Computing
<1>6. ASSUME NEW u \in Task \ {t}
      PROVE  Coalesced(u)'
  <2>0. task[u].key \in Key
    BY <1>1, UnchangedTyped
  <2>1. CASE task[u].key # k
    BY <1>2, <1>3, <2>0, <2>1 DEF Coalesced, Computing
  <2>2. CASE task[u].key = k
    <3>1. ~Computing(u)
      <4>1. SUFFICES ASSUME Computing(u) PROVE FALSE
        OBVIOUS
      <4>2. task[u].lock = task[t].lock
        BY <1>2, <1>5, <2>2, <4>1 DEF Coalesced
      <4>3. task[u].pc \in Critical /\ task[t].pc \in Critical
        BY <4>1 DEF Computing, Critical
      <4> QED
        BY <1>1, <4>2, <4>3, OneHolder
    <3> QED
      BY <1>2, <1>3, <2>2, <3>1 DEF Coalesced, Computing
  <2> QED
    BY <2>1, <2>2
<1>7. Coalesced(t)'
  BY <1>5 DEF Alike, Coalesced, Computing
<1>8. \A u \in Task : Coalesced(u)'
  BY <1>6, <1>7
<1> QED
  BY <1>2, <1>4, <1>8 DEF CalmInv

\* Both backends store what was not cached.
LEMMA SetsCalm ==
  ASSUME BooksInv, CalmInv, Calm, ~upset', NEW t \in Task, SetMemory(t) \/ SetRedis(t)
  PROVE  CalmInv'
<1> DEFINE k == task[t].key
<1>1. TypeOK /\ cfg.stampede /\ k \in Key
      /\ entries \in [Key -> Entry \cup {NoEntry}]
  BY UnchangedTyped DEF BooksInv, Calm
<1>2. task[t].pc = "assemble" /\ cfg' = cfg /\ writer' = writer
      /\ inflight' = inflight
  BY DEF SetMemory, SetRedis, writeVars, lockVars
<1>3. CASE SetMemory(t)
  <2> DEFINE e == NewEntry(t, Done)
  <2>1. e \in Entry /\ e.life = Ttl + StaleWindow
    BY <1>1, NewEntryType
  <2>2. entries' \in AfterSet(k, e) /\ Stored(t)
        /\ Cached(entries) \cup {k} \subseteq Cached(entries')
    BY <1>3 DEF SetMemory
  <2>3. /\ Moves(t) /\ task'[t].pc = "cleanup" /\ Alike(task'[t], task[t])
    BY <1>1, <2>2, StoredType DEF Moves, Alike
  <2> HIDE DEF e, k
  <2>4. \A j \in Key : \/ entries'[j] = NoEntry
                       \/ entries'[j] = IF j = k THEN e ELSE entries[j]
    BY <1>1, <2>1, <2>2, AfterSetFacts
  <2>5. \A j \in Key : entries[j] # NoEntry \/ j = k => entries'[j] # NoEntry
    BY <2>2 DEF Cached
  <2>6. entries'[k] = e /\ entries'[k] # NoEntry
    BY <1>1, <2>4, <2>5
  <2>7. \A j \in Key \ {k} : entries'[j] = entries[j]
    BY <2>4, <2>5
  <2> QED
    BY <1>2, <2>1, <2>3, <2>6, <2>7, StoreCalm DEF k
<1>4. CASE SetRedis(t)
  <2> DEFINE e == NewEntry(t, t)
  <2>1. e \in Entry /\ e.life = Ttl + StaleWindow
    BY <1>1, NewEntryType
  <2>2. entries' = [entries EXCEPT ![k] = e] /\ To(t, "sadd")
    BY <1>4 DEF SetRedis
  <2>3. Moves(t) /\ task'[t].pc = "sadd" /\ Alike(task'[t], task[t])
    BY <1>1, <2>2, ToType DEF PC
  <2> HIDE DEF e
  <2>4. entries'[k] = e /\ \A j \in Key \ {k} : entries'[j] = entries[j]
    BY <1>1, <2>2
  <2>5. e # NoEntry
    BY <2>1, NoEntryApart
  <2> QED
    BY <1>2, <2>1, <2>3, <2>4, <2>5, StoreCalm
<1> QED
  BY <1>3, <1>4

\* Who removes a lock from the map leaves the key cached.
LEMMA CleanupCalm ==
  ASSUME BooksInv, CalmInv, Calm, NEW t \in Task, Cleanup(t)
  PROVE  CalmInv'
<1> DEFINE k == task[t].key
<1>1. TypeOK /\ k \in Key /\ inflight \in [Key -> Lock \cup {NoLock}]
  BY UnchangedTyped DEF BooksInv
<1>2. /\ cfg' = cfg /\ writer' = writer /\ entries' = entries /\ Return(t)
      /\ task[t].pc = "cleanup"
      /\ inflight' = IF inflight[k] = task[t].lock
                     THEN [inflight EXCEPT ![k] = NoLock] ELSE inflight
  BY DEF Cleanup, cacheVars, writeVars
<1>3. Moves(t) /\ task'[t].pc \in {"idle", "unmark"}
  BY <1>1, <1>2, ReturnType DEF Moves
<1>4. /\ writer = "idle"
      /\ \A j \in Key : entries[j] # NoEntry => IsFresh(entries[j])
      /\ \A u \in Task : Coalesced(u)
  BY DEF CalmInv
<1>5. \A u \in Task \ {t} : task'[u] = task[u]
  BY <1>3 DEF Moves
<1>6. entries[k] # NoEntry
  BY <1>2, <1>4 DEF Coalesced
<1>7. \A j \in Key \ {k} : inflight'[j] = inflight[j]
  BY <1>1, <1>2
<1> HIDE DEF k
<1>8. ASSUME NEW u \in Task \ {t}
      PROVE  Coalesced(u)'
  <2>0. task[u].key \in Key
    BY <1>1, UnchangedTyped
  <2>1. CASE task[u].key # k
    BY <1>2, <1>4, <1>5, <1>7, <2>0, <2>1 DEF Coalesced, Computing
  <2>2. CASE task[u].key = k
    BY <1>2, <1>4, <1>5, <1>6, <2>2 DEF Coalesced, Computing
  <2> QED
    BY <2>1, <2>2
<1>9. Coalesced(t)'
  BY <1>3 DEF Coalesced, Computing, Owning, Queued, Critical
<1>10. \A j \in Key : entries'[j] # NoEntry => IsFresh(entries[j])'
  BY <1>2, <1>4 DEF IsFresh, StaleWindow
<1>11. \A u \in Task : Coalesced(u)'
  BY <1>8, <1>9
<1> QED
  BY <1>2, <1>4, <1>10, <1>11 DEF CalmInv

\* Every step of calm weather keeps the computations single.
LEMMA CalmNext ==
  ASSUME BooksInv, CalmInv, [Next]_vars
  PROVE  CalmInv'
<1>t. TypeOK
  BY DEF BooksInv
<1>1. CASE UNCHANGED vars
  <2>1. cfg' = cfg /\ writer' = writer /\ entries' = entries
        /\ inflight' = inflight /\ task' = task /\ upset' = upset
    BY <1>1 DEF vars, cacheVars, writeVars, lockVars
  <2>2. (Calm' <=> Calm) /\ StaleWindow' = StaleWindow
    BY <2>1 DEF Calm, StaleWindow
  <2>3. \A u \in Task : Coalesced(u)' <=> Coalesced(u)
    BY <2>1 DEF Coalesced, Computing
  <2>4. \A k \in Key : IsFresh(entries[k])' <=> IsFresh(entries[k])
    BY <2>1, <2>2 DEF IsFresh
  <2> QED
    BY <2>1, <2>2, <2>3, <2>4 DEF CalmInv
<1>2. CASE ~Calm'
  BY <1>2 DEF CalmInv
<1>3. CASE Next /\ Calm'
  <2>1. cfg' = cfg /\ (upset => upset')
    <3>1. ASSUME NEW t \in Task, NEW k \in cfg.keys, Get(t, k)
          PROVE  cfg' = cfg /\ (upset => upset')
      BY <3>1 DEF Get
    <3>2. ASSUME NEW t \in Task, Step(t) \/ Drop(t)
          PROVE  cfg' = cfg /\ (upset => upset')
      <4>1. CASE GetAny(t)
        BY <4>1 DEF GetAny
      <4>5. CASE LockForKey(t)
        BY <4>5 DEF LockForKey
      <4>6. CASE TryLock(t) \/ Enqueue(t) \/ LockTimeout(t)
        BY <4>6 DEF TryLock, Enqueue, LockTimeout
      <4>7. CASE Recheck(t) \/ Search(t)
        BY <4>7 DEF Recheck, Search
      <4>2. CASE SetRedis(t) \/ SaddRedis(t) \/ ExpireRedis(t) \/ Cleanup(t)
                 \/ FinishRefresh(t)
        BY <4>2 DEF SetRedis, SaddRedis, ExpireRedis, Cleanup, FinishRefresh
      <4>3. CASE SearchFails(t) \/ RedisFails(t) \/ Drop(t)
        BY <4>3 DEF SearchFails, RedisFails, Drop
      <4>4. CASE SetMemory(t)
        BY <4>4 DEF SetMemory
      <4> QED
        BY <3>2, <4>1, <4>2, <4>3, <4>4, <4>5, <4>6, <4>7 DEF Step
    <3>3. ASSUME Write \/ Invalidate \/ Tick
          PROVE  cfg' = cfg /\ (upset => upset')
      BY <3>3 DEF Write, Invalidate, InvalidateMemory, Smembers, DelMembers,
         DelIndex, InvalidateFails, Tick
    <3> QED
      BY <1>3, <3>1, <3>2, <3>3 DEF Next
  <2>2. Calm /\ ~upset'
    BY <1>3, <2>1 DEF Calm
  <2>3. writer = "idle"
    BY <2>2 DEF CalmInv
  <2>4. CASE \E t \in Task : \E k \in cfg.keys : Get(t, k)
    <3>1. cfg.keys \subseteq Key
      BY <1>t, Types DEF Config
    <3> QED
      BY <2>2, <2>4, <3>1, StepCalm
  <2>5. ASSUME NEW t \in Task, Step(t)
        PROVE  CalmInv'
    <3>1. ~SearchFails(t) /\ ~RedisFails(t)
      BY <2>2 DEF SearchFails, RedisFails
    <3> QED
      BY <2>2, <2>5, <3>1, StepCalm, LockForKeyCalm, SetsCalm, CleanupCalm
         DEF Step
  <2>6. \A t \in Task : ~Drop(t)
    BY <2>2 DEF Drop
  <2>7. ~Write /\ ~Tick
    BY <2>2 DEF Write, Tick
  <2>8. ~Invalidate
    BY <2>3 DEF Invalidate, InvalidateMemory, Smembers, DelMembers, DelIndex,
       InvalidateFails
  <2> QED
    BY <1>3, <2>4, <2>5, <2>6, <2>7, <2>8 DEF Next
<1> QED
  BY <1>1, <1>2, <1>3

\* Stampede protection: as long as nothing is written, fails, is dropped,
\* expires or is evicted, compute_with_stampede computes a key for one task at a
\* time and only when it is not cached, however many ask for it.
THEOREM ComputedOnceHolds == Spec => []ComputedOnce
<1>1. Init => CalmInv
  <2>1. ASSUME Init
        PROVE  /\ writer = "idle" /\ \A k \in Key : entries[k] = NoEntry
               /\ \A t \in Task : task[t].pc = "idle"
    BY <2>1 DEF Init, Idle
  <2> QED
    BY <2>1 DEF CalmInv, Coalesced, Computing, Owning, Queued, Critical
<1>2. BooksInv /\ CalmInv /\ [Next]_vars => CalmInv'
  BY CalmNext
<1>3. BooksInv /\ CalmInv => ComputedOnce
  <2>1. ASSUME BooksInv, CalmInv, cfg.stampede, ~upset,
               NEW t \in Task, NEW u \in Task
        PROVE  /\ Computing(t) => entries[task[t].key] = NoEntry
               /\ Computing(t) /\ Computing(u) /\ t # u
                    => task[t].key # task[u].key
    <3>1. Coalesced(t) /\ Coalesced(u)
      BY <2>1 DEF CalmInv, Calm
    <3>2. ASSUME Computing(t), Computing(u), task[t].key = task[u].key
          PROVE  t = u
      <4>1. task[t].lock = task[u].lock
        BY <3>1, <3>2 DEF Coalesced
      <4>2. task[t].pc \in Critical /\ task[u].pc \in Critical
        BY <3>2 DEF Computing, Critical
      <4> QED
        BY <2>1, <4>1, <4>2, OneHolder
    <3> QED
      BY <3>1, <3>2 DEF Coalesced
  <2> QED
    BY <2>1 DEF ComputedOnce
<1> QED
  BY <1>1, <1>2, <1>3, BooksAlways, PTL DEF Spec

=============================================================================
