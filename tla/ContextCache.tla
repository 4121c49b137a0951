---------------------------- MODULE ContextCache ----------------------------
(***************************************************************************)
(* The context cache of one user: ContextCacheCoordinator in one process   *)
(* over the in-memory or the Redis ContextCache, with the writes of the    *)
(* memory engine that invalidate it.                                       *)
(*                                                                         *)
(* A task is a build_context request; a request that serves a stale entry  *)
(* and starts the refresh goes on as the refresh that the route spawns     *)
(* (there is no await between).  A context is the version of the user's    *)
(* memories that search_memory saw.  An entry's created_at, expires_at and *)
(* stale_until are kept as `life', the ticks left until stale_until.       *)
(***************************************************************************)
EXTENDS Integers, Sequences, FiniteSets, Functions

CONSTANTS Task,
          Key,          \* the ContextCacheKeys of the user
          Lock,         \* the Arc<Mutex<()>> that exist at a time
          Configs,      \* the ContextCacheConfigs to run with
          Ttl,          \* ttl_seconds
          StaleTtl,     \* stale_ttl_seconds
          MaxEntries,
          MaxVersion    \* bound on the writes of a behaviour

\* keys: those that clients ask for; faults: do searches and Redis commands
\* fail, and request futures get dropped at an await?
Config == [backend : {"memory", "redis"}, stampede : BOOLEAN, swr : BOOLEAN,
           keys : SUBSET Key, faults : BOOLEAN]

NoLock == "no lock"
Done   == "done"

ASSUME CacheConstants ==
  /\ Configs \subseteq Config
  /\ Ttl \in Nat \ {0} /\ StaleTtl \in Nat \ {0}
  /\ MaxEntries \in Nat \ {0}
  /\ MaxVersion \in Nat
  /\ IsFiniteSet(Task) /\ IsFiniteSet(Key) /\ IsFiniteSet(Lock)
  /\ Key # {}
  /\ Done \notin Task /\ NoLock \notin Lock

VARIABLES cfg,          \* the configuration, chosen once
          version,      \* the user's memories in the stores
          entries,      \* [Key -> Entry or NoEntry]
          index,        \* Redis: the index set of the user
          indexLife,    \* Redis: the ticks until it expires; -1: never
          writer,       \* where the one writer is
          members,      \* Redis: what its SMEMBERS returned
          inflight,     \* [Key -> Lock or NoLock]
          locks,        \* [Lock -> Seq(Task)]: its holder and its queue
          refreshing,   \* refresh_inflight
          task,
          floor,        \* history: the last version whose invalidation ended
          upset,        \* history: a write, failure, drop, expiry or eviction
          torn          \* history: a task ended without cleanup_inflight_lock

cacheVars == <<entries, index, indexLife>>
writeVars == <<version, writer, members, floor>>
lockVars  == <<inflight, locks>>
vars == <<cfg, cacheVars, writeVars, lockVars, refreshing, task,
          upset, torn>>

NoEntry == [life |-> -2]

StaleWindow == IF cfg.swr THEN StaleTtl ELSE 0

\* by: who is still storing it, or was when it failed; raced: the
\* computation overlapped an invalidation.
Entry == [ver : 0..MaxVersion, life : -1..(Ttl + StaleTtl),
          by : Task \cup {Done}, raced : BOOLEAN]

PC == {"idle", "any", "lock", "try", "enqueue", "wait", "search", "assemble",
       "sadd", "expire", "cleanup", "unmark"}

Rec == [pc : PC, key : Key, refresh : BOOLEAN, lock : Lock \cup {NoLock},
        waited : BOOLEAN, ver : 0..MaxVersion, raced : BOOLEAN]

Idle == [pc |-> "idle", key |-> CHOOSE k \in Key : TRUE, refresh |-> FALSE,
         lock |-> NoLock, waited |-> FALSE, ver |-> 0, raced |-> FALSE]

Writing == {"idle", "invalidate", "members", "delindex"}

TypeOK ==
  /\ cfg \in Configs
  /\ version \in 0..MaxVersion /\ floor \in 0..version
  /\ entries \in [Key -> Entry \cup {NoEntry}]
  /\ index \subseteq Key /\ members \subseteq Key
  /\ indexLife \in -1..(Ttl + StaleTtl)
  /\ writer \in Writing
  /\ inflight \in [Key -> Lock \cup {NoLock}]
  /\ locks \in [Lock -> Seq(Task)]
  /\ \A l \in Lock : IsInjective(locks[l])
  /\ refreshing \subseteq Key
  /\ task \in [Task -> Rec]
  /\ upset \in BOOLEAN /\ torn \in BOOLEAN

Init ==
  /\ cfg \in Configs
  /\ version = 0 /\ floor = 0
  /\ entries = [k \in Key |-> NoEntry]
  /\ index = {} /\ members = {}
  /\ indexLife = -1
  /\ writer = "idle"
  /\ inflight = [k \in Key |-> NoLock]
  /\ locks = [l \in Lock |-> << >>]
  /\ refreshing = {}
  /\ task = [t \in Task |-> Idle]
  /\ upset = FALSE /\ torn = FALSE

-----------------------------------------------------------------------------
(* CachedContextEntry and the ContextCache operations.                     *)

IsFresh(e)         == e.life > StaleWindow
IsFullyExpired(e)  == e.life < 0
IsStaleServable(e) == ~IsFresh(e) /\ ~IsFullyExpired(e)

\* get and get_any drop an entry that they find fully expired.
AfterGet(k) ==
  IF entries[k] # NoEntry /\ IsFullyExpired(entries[k])
  THEN [entries EXCEPT ![k] = NoEntry] ELSE entries

Hit(k) == entries[k] # NoEntry /\ IsFresh(entries[k])

Cached(es) == {k \in Key : es[k] # NoEntry}

\* InMemoryContextCache::set: purge_expired, insert, evict_oldest.  The
\* possible results: min_by_key breaks ties in the order of the hash map.
AfterSet(k, e) ==
  LET live == {j \in Key : entries[j] # NoEntry /\ ~IsFullyExpired(entries[j])}
      full == [j \in Key |-> IF j = k THEN e
                             ELSE IF j \in live THEN entries[j] ELSE NoEntry]
      Kept(S) == /\ Cardinality(S) <= MaxEntries
                 /\ Cardinality(S) = MaxEntries \/ S = Cached(full)
                 /\ \A i \in S, j \in Cached(full) \ S :
                      full[j].life <= full[i].life
  IN  {[j \in Key |-> IF j \in S THEN full[j] ELSE NoEntry] :
         S \in {T \in SUBSET Cached(full) : Kept(T)}}

-----------------------------------------------------------------------------
Move(t, r) == task' = [task EXCEPT ![t] = r]

To(t, pc) == Move(t, [task[t] EXCEPT !.pc = pc])

\* A queue that t leaves.
Without(q, t) ==
  LET i == CHOOSE j \in DOMAIN q : q[j] = t IN
  IF t \in Range(q)
  THEN [j \in 1..(Len(q) - 1) |-> IF j < i THEN q[j] ELSE q[j + 1]]
  ELSE q

Unqueued(t) == [l \in Lock |-> Without(locks[l], t)]

\* The end of compute_with_stampede, which drops the guard; refresh_entry
\* goes on with finish_refresh.
Return(t) ==
  /\ locks' = Unqueued(t)
  /\ Move(t, IF task[t].refresh
             THEN [Idle EXCEPT !.pc = "unmark", !.key = task[t].key,
                               !.refresh = TRUE]
             ELSE Idle)

\* Mutant of ReturnErr: an error in refresh_entry skips finish_refresh.
ReturnErrForgets(t) ==
  /\ locks' = Unqueued(t)
  /\ Move(t, Idle)

ReturnErr(t) == Return(t)

\* compute_with_stampede, for a request or a refresh.
Miss(t, refresh) ==
  Move(t, [task[t] EXCEPT !.refresh = refresh,
                          !.pc = IF cfg.stampede THEN "lock" ELSE "search"])

Holds(t) == task[t].pc = "wait" /\ Head(locks[task[t].lock]) = t

-----------------------------------------------------------------------------
(* get_or_compute.                                                         *)

\* A request arrives and looks for a fresh entry.
Get(t, k) ==
  /\ task[t].pc = "idle"
  /\ entries' = AfterGet(k)
  /\ IF Hit(k) THEN UNCHANGED task
     ELSE Move(t, [Idle EXCEPT !.key = k,
                     !.pc = CASE cfg.swr -> "any"
                              [] ~cfg.swr /\ cfg.stampede -> "lock"
                              [] OTHER -> "search"])
  /\ UNCHANGED <<cfg, index, indexLife, writeVars, lockVars, refreshing, upset, torn>>

\* A stale entry is served, and refreshed unless somebody already does.
GetAny(t) ==
  LET k == task[t].key IN
  /\ task[t].pc = "any"
  /\ entries' = AfterGet(k)
  /\ IF entries[k] # NoEntry /\ IsStaleServable(entries[k])
     THEN /\ refreshing' = refreshing \cup {k}
          /\ IF k \notin refreshing THEN Miss(t, TRUE) ELSE Move(t, Idle)
     ELSE Miss(t, FALSE) /\ UNCHANGED refreshing
  /\ UNCHANGED <<cfg, index, indexLife, writeVars, lockVars, upset,
                 torn>>

-----------------------------------------------------------------------------
(* compute_with_stampede.                                                  *)

\* The locks nobody refers to: Arc::new makes one of them.
Unused == {l \in Lock : /\ l \notin Range(inflight)
                        /\ \A t \in Task : task[t].lock # l}

LockForKey(t) ==
  LET k == task[t].key IN
  /\ task[t].pc = "lock"
  /\ inflight[k] = NoLock => Unused # {}
  /\ LET l == IF inflight[k] # NoLock THEN inflight[k]
              ELSE CHOOSE u \in Unused : TRUE
     IN  /\ inflight' = [inflight EXCEPT ![k] = l]
         /\ Move(t, [task[t] EXCEPT !.pc = "try", !.lock = l])
  /\ UNCHANGED <<cfg, cacheVars, writeVars, locks, refreshing,
                 upset, torn>>

\* try_lock only tells whether to wait with the timeout; its guard is dropped.
TryLock(t) ==
  /\ task[t].pc = "try"
  /\ Move(t, [task[t] EXCEPT !.pc = "enqueue",
                             !.waited = locks[task[t].lock] # << >>])
  /\ UNCHANGED <<cfg, cacheVars, writeVars, lockVars, refreshing,
                 upset, torn>>

Enqueue(t) ==
  /\ task[t].pc = "enqueue"
  /\ locks' = [locks EXCEPT ![task[t].lock] = Append(@, t)]
  /\ To(t, "wait")
  /\ UNCHANGED <<cfg, cacheVars, writeVars, inflight, refreshing,
                 upset, torn>>

\* lock_timeout, for those that found the lock taken.
LockTimeout(t) ==
  /\ task[t].pc = "wait" /\ ~Holds(t)
  /\ task[t].waited
  /\ ReturnErr(t)
  /\ UNCHANGED <<cfg, cacheVars, writeVars, inflight, refreshing,
                 upset, torn>>

Locked(t, pc) == Move(t, [task[t] EXCEPT !.pc = pc, !.waited = FALSE])

\* Mutant of Recheck: no second look at the cache under the lock.
RecheckSkipped(t) ==
  LET k == task[t].key IN
  /\ Holds(t)
  /\ entries' = AfterGet(k)
  /\ Locked(t, "search")
  /\ UNCHANGED <<cfg, index, indexLife, writeVars, lockVars, refreshing,
                 upset, torn>>

\* Under the lock the cache is looked at again.
Recheck(t) ==
  LET k == task[t].key IN
  /\ Holds(t)
  /\ entries' = AfterGet(k)
  /\ Locked(t, IF Hit(k) THEN "cleanup" ELSE "search")
  /\ UNCHANGED <<cfg, index, indexLife, writeVars, lockVars, refreshing,
                 upset, torn>>

\* An invalidation of Redis is under way.
Invalidating == writer \in {"members", "delindex"}

\* build_context_uncached: search_memory reads the stores ...
Search(t) ==
  /\ task[t].pc = "search"
  /\ Move(t, [task[t] EXCEPT !.pc = "assemble", !.ver = version,
                             !.raced = Invalidating])
  /\ UNCHANGED <<cfg, cacheVars, writeVars, lockVars, refreshing,
                 upset, torn>>

\* Mutant of SearchFails: the error path leaves the lock in the map.
SearchFailsUnclean(t) ==
  /\ cfg.faults
  /\ task[t].pc = "search"
  /\ ReturnErr(t)
  /\ upset' = TRUE
  /\ UNCHANGED <<cfg, cacheVars, writeVars, inflight, refreshing,
                 torn>>

\* ... or fails, and the error is returned after the cleanup.
SearchFails(t) ==
  /\ cfg.faults
  /\ task[t].pc = "search"
  /\ IF cfg.stampede THEN To(t, "cleanup") /\ UNCHANGED locks
                     ELSE ReturnErr(t)
  /\ upset' = TRUE
  /\ UNCHANGED <<cfg, cacheVars, writeVars, inflight, refreshing,
                 torn>>

\* What is stored now.
NewEntry(t, by) == [ver |-> task[t].ver, life |-> Ttl + StaleWindow,
                    by |-> by, raced |-> task[t].raced]

\* After the store: cleanup_inflight_lock if there is a lock.
Stored(t) ==
  IF cfg.stampede
  THEN /\ Move(t, [task[t] EXCEPT !.pc = "cleanup", !.ver = 0,
                                  !.raced = FALSE])
       /\ UNCHANGED locks
  ELSE Return(t)

SetMemory(t) ==
  LET k == task[t].key IN
  /\ cfg.backend = "memory"
  /\ task[t].pc = "assemble"
  /\ entries' \in AfterSet(k, NewEntry(t, Done))
  /\ upset' = (upset \/ ~(Cached(entries) \cup {k} \subseteq Cached(entries')))
  /\ Stored(t)
  /\ UNCHANGED <<cfg, index, indexLife, writeVars, inflight, refreshing, torn>>

\* RedisContextCache::set is three commands: SET EX, ...
SetRedis(t) ==
  LET k == task[t].key IN
  /\ cfg.backend = "redis"
  /\ task[t].pc = "assemble"
  /\ entries' = [entries EXCEPT ![k] = NewEntry(t, t)]
  /\ To(t, "sadd")
  /\ UNCHANGED <<cfg, index, indexLife, writeVars, lockVars, refreshing, upset, torn>>

\* ... SADD to the index of the user, ...
SaddRedis(t) ==
  /\ task[t].pc = "sadd"
  /\ index' = index \cup {task[t].key}
  /\ To(t, "expire")
  /\ UNCHANGED <<cfg, entries, indexLife, writeVars, lockVars, refreshing, upset, torn>>

\* ... and EXPIRE of the index, with the time of the entry.  It does nothing
\* if an earlier EXPIRE has just removed the index with the new member.
ExpireRedis(t) ==
  LET k == task[t].key IN
  /\ task[t].pc = "expire"
  /\ indexLife' = IF index = {} THEN indexLife ELSE Ttl + StaleWindow
  /\ entries' = IF entries[k] # NoEntry /\ entries[k].by = t /\ k \in index
                THEN [entries EXCEPT ![k].by = Done, ![k].raced = task[t].raced]
                ELSE entries
  /\ Stored(t)
  /\ UNCHANGED <<cfg, index, writeVars, inflight, refreshing,
                 upset, torn>>

\* A Redis command fails: `?' returns at once, without the cleanup.
RedisFails(t) ==
  /\ cfg.faults
  /\ cfg.backend = "redis"
  /\ task[t].pc \in {"any", "assemble", "sadd", "expire"} \/ Holds(t)
  /\ ReturnErr(t)
  /\ upset' = TRUE
  /\ torn' = (torn \/ task[t].lock # NoLock)
  /\ UNCHANGED <<cfg, cacheVars, writeVars, inflight, refreshing>>

\* Mutant of Cleanup: not by identity, and only of somebody else's lock.
CleanupOthers(t) ==
  LET k == task[t].key IN
  /\ task[t].pc = "cleanup"
  /\ inflight' = IF inflight[k] # task[t].lock
                 THEN [inflight EXCEPT ![k] = NoLock] ELSE inflight
  /\ Return(t)
  /\ UNCHANGED <<cfg, cacheVars, writeVars, refreshing, upset, torn>>

\* cleanup_inflight_lock: Arc::ptr_eq.
Cleanup(t) ==
  LET k == task[t].key IN
  /\ task[t].pc = "cleanup"
  /\ inflight' = IF inflight[k] = task[t].lock
                 THEN [inflight EXCEPT ![k] = NoLock] ELSE inflight
  /\ Return(t)
  /\ UNCHANGED <<cfg, cacheVars, writeVars, refreshing, upset, torn>>

FinishRefresh(t) ==
  /\ task[t].pc = "unmark"
  /\ refreshing' = refreshing \ {task[t].key}
  /\ Move(t, Idle)
  /\ UNCHANGED <<cfg, cacheVars, writeVars, lockVars, upset, torn>>

\* The client goes away and the request's future is dropped, with the guard.
\* A spawned refresh is not.
Drop(t) ==
  /\ cfg.faults
  /\ task[t].pc # "idle" /\ ~task[t].refresh
  /\ locks' = Unqueued(t)
  /\ Move(t, Idle)
  /\ upset' = TRUE
  /\ torn' = (torn \/ task[t].lock # NoLock)
  /\ UNCHANGED <<cfg, cacheVars, writeVars, inflight, refreshing>>

-----------------------------------------------------------------------------
(* The engine's writes: a change in the stores, then                       *)
(* invalidate_user_context_cache, whose errors are only logged.            *)

Write ==
  /\ writer = "idle"
  /\ version < MaxVersion
  /\ version' = version + 1
  /\ writer' = "invalidate"
  /\ upset' = TRUE
  /\ UNCHANGED <<cfg, cacheVars, members, floor, lockVars, refreshing, task, torn>>

\* Those that searched before an invalidation and have not stored yet.
Overtaken ==
  [t \in Task |->
     IF task[t].pc \in {"assemble", "sadd", "expire"}
     THEN [task[t] EXCEPT !.raced = TRUE] ELSE task[t]]

\* Mutant of InvalidateMemory: an entry past its ttl is left alone.
InvalidateMemoryFresh ==
  /\ cfg.backend = "memory"
  /\ writer = "invalidate"
  /\ entries' = [k \in Key |-> IF Hit(k) THEN NoEntry ELSE entries[k]]
  /\ task' = Overtaken
  /\ writer' = "idle"
  /\ floor' = version
  /\ UNCHANGED <<cfg, version, index, indexLife, members, lockVars,
                 refreshing, upset, torn>>

InvalidateMemory ==
  /\ cfg.backend = "memory"
  /\ writer = "invalidate"
  /\ entries' = [k \in Key |-> NoEntry]
  /\ task' = Overtaken
  /\ writer' = "idle"
  /\ floor' = version
  /\ UNCHANGED <<cfg, version, index, indexLife, members, lockVars,
                 refreshing, upset, torn>>

\* SMEMBERS of the index, ...
Smembers ==
  /\ cfg.backend = "redis"
  /\ writer = "invalidate"
  /\ members' = index
  /\ task' = Overtaken
  /\ writer' = IF index = {} THEN "delindex" ELSE "members"
  /\ UNCHANGED <<cfg, cacheVars, version, floor, lockVars, refreshing, upset, torn>>

\* ... DEL of what it listed ...
DelMembers ==
  /\ writer = "members"
  /\ entries' = [k \in Key |-> IF k \in members THEN NoEntry ELSE entries[k]]
  /\ writer' = "delindex"
  /\ UNCHANGED <<cfg, version, index, indexLife, members, floor, lockVars,
                 refreshing, task, upset, torn>>

\* ... and DEL of the index itself.
DelIndex ==
  /\ writer = "delindex"
  /\ index' = {} /\ indexLife' = -1
  /\ members' = {}
  /\ writer' = "idle"
  /\ floor' = version
  /\ UNCHANGED <<cfg, version, entries, lockVars, refreshing, task, upset,
                 torn>>

InvalidateFails ==
  /\ cfg.faults
  /\ cfg.backend = "redis"
  /\ writer # "idle"
  /\ writer' = "idle"
  /\ members' = {}
  /\ UNCHANGED <<cfg, cacheVars, version, floor, lockVars, refreshing, task,
                 upset, torn>>

-----------------------------------------------------------------------------
Older(e) ==
  CASE e = NoEntry -> e
    [] e # NoEntry /\ cfg.backend = "redis" /\ e.life <= 1 -> NoEntry
    [] OTHER -> [e EXCEPT !.life = IF @ >= 0 THEN @ - 1 ELSE -1]

\* Time passes.  Redis removes what has expired.
Tick ==
  /\ \E k \in Key : entries[k] # NoEntry
  /\ entries' = [k \in Key |-> Older(entries[k])]
  /\ entries' # entries
  /\ indexLife' = IF indexLife <= 1 THEN -1 ELSE indexLife - 1
  /\ index' = IF indexLife = 1 THEN {} ELSE index
  /\ upset' = TRUE
  /\ UNCHANGED <<cfg, writeVars, lockVars, refreshing, task, torn>>

Step(t) ==
  \/ GetAny(t) \/ LockForKey(t) \/ TryLock(t) \/ Enqueue(t) \/ LockTimeout(t)
  \/ Recheck(t) \/ Search(t) \/ SearchFails(t) \/ SetMemory(t)
  \/ SetRedis(t) \/ SaddRedis(t) \/ ExpireRedis(t) \/ RedisFails(t)
  \/ Cleanup(t) \/ FinishRefresh(t)

Invalidate ==
  InvalidateMemory \/ Smembers \/ DelMembers \/ DelIndex \/ InvalidateFails

Next ==
  \/ \E t \in Task : (\E k \in cfg.keys : Get(t, k)) \/ Step(t) \/ Drop(t)
  \/ Write
  \/ Invalidate
  \/ Tick

Spec == Init /\ [][Next]_vars

\* A task that can run does; searches end (their provider calls time out),
\* and so do waits on a lock.
FairSpec == Spec /\ \A t \in Task : WF_vars(Step(t))

-----------------------------------------------------------------------------
\* invalidate_user is effective: a context older than the last completed
\* invalidation is only found in the cache if its computation overlapped an
\* invalidation or its store in Redis ended without it in the index.
InvalidationHolds ==
  \A k \in Key :
    entries[k] # NoEntry /\ entries[k].ver < floor
      => entries[k].raced \/ entries[k].by # Done

Computing(t) == task[t].pc \in {"search", "assemble"}

\* Stampede protection: if nothing is written, fails, is dropped, expires or
\* is evicted, a key is computed once, however many requests ask for it: not
\* by two at a time, nor when it is cached.
ComputedOnce ==
  cfg.stampede /\ ~upset =>
    \A t, u \in Task :
      /\ Computing(t) => entries[task[t].key] = NoEntry
      /\ Computing(t) /\ Computing(u) /\ t # u => task[t].key # task[u].key

\* try_start_refresh and finish_refresh: one refresh per marked key, and none
\* without a mark.
OneRefresh ==
  \A k \in Key :
    LET R == {t \in Task : task[t].refresh /\ task[t].key = k} IN
    Cardinality(R) = IF k \in refreshing THEN 1 ELSE 0

\* The map of locks does not leak: with nobody at work it is empty, unless a
\* future was dropped or a Redis error returned before the cleanup.
InflightDrained ==
  (\A t \in Task : task[t].pc = "idle") /\ ~torn
    => \A k \in Key : inflight[k] = NoLock

\* evict_oldest keeps the in-memory cache within max_entries.
CapacityRespected ==
  cfg.backend = "memory" => Cardinality(Cached(entries)) <= MaxEntries

\* Every request is answered and every refresh ends, through locks, their
\* timeouts, failures and dropped holders.
TasksEnd == \A t \in Task : task[t].pc # "idle" ~> task[t].pc = "idle"

\* A key marked as refreshing is unmarked again, so that the next stale hit
\* can refresh it.
RefreshSettles == \A k \in Key : k \in refreshing ~> k \notin refreshing

\* The coordinator's books: marks and refreshes correspond, the map of locks
\* drains, and the cache keeps to its capacity.
CoordinatorSound ==
  TypeOK /\ OneRefresh /\ InflightDrained /\ CapacityRespected

\* No request waits and no key stays marked for ever.
RequestsSettle == TasksEnd /\ RefreshSettles
=============================================================================
