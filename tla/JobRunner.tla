------------------------------ MODULE JobRunner ------------------------------
(***************************************************************************)
(* BackgroundJobRunner: the scheduler task of every memcore-api instance   *)
(* and the admin requests that trigger jobs by hand, all going through     *)
(* run_job; the in-memory flags of InMemoryBackgroundJobState; the         *)
(* distributed lock; the retry loop; shutdown; crashes.                    *)
(*                                                                         *)
(* A task is one caller of run_job.  The scheduler task of instance i is   *)
(* named i; the tasks of ManualTask serve POST /admin/jobs/{kind}/run.     *)
(* Times are relative (see JobLockStore).  A job body is what run_once can *)
(* return.  The status, counters and messages of a run, and the two lists  *)
(* they are reported in (recent_runs and the history table), decide        *)
(* nothing in this code and are left out; when a run counts as started     *)
(* does, and is kept.                                                      *)
(***************************************************************************)
EXTENDS JobLockStore

CONSTANTS ManualTask,    \* admin requests in flight
          Home,          \* [ManualTask -> Instance]: who serves the request
          Enabled,       \* the kinds whose definition is enabled
          Interval,      \* [Kind -> Nat]: interval(), also the job's timeout
          LockModes,     \* MEMCORE_BACKGROUND_JOB_LOCK_ENABLED: values to try
          MaxAttempts,   \* BackgroundJobRetryPolicy::total_attempts
          Backoff,       \* [1..MaxAttempts -> Nat]: delay before a retry
          Grace,         \* shutdown_timeout
          CanDisconnect  \* does the HTTP server drop abandoned handlers?

ASSUME RunnerConstants ==
  /\ Kind # {}
  /\ ManualTask \cap Instance = {}
  /\ Home \in [ManualTask -> Instance]
  /\ Enabled \subseteq Kind
  /\ Interval \in [Kind -> Nat \ {0}]     \* Settings::validate refuses 0
  /\ LockModes \subseteq BOOLEAN
  /\ MaxAttempts \in Nat \ {0}
  /\ Backoff \in [1..MaxAttempts -> Nat \ {0}]
  /\ Grace \in Nat \ {0}
  /\ CanDisconnect \in BOOLEAN

VARIABLES lockEnabled, \* the same on all instances, and fixed
          running,    \* [Instance -> SUBSET Kind]: the overlap guard
          age,        \* [Instance -> [Kind -> Nat]]: time since last_runs,
                      \* Interval[k] meaning that long or never
          shutdown,   \* [Instance -> BOOLEAN]: ShutdownToken
          sched,      \* [Instance -> ...]: run_forever and run_due_once
          task        \* [Task -> ...]: the calls of run_job

vars == <<locks, lockEnabled, running, age, shutdown, sched, task>>

-----------------------------------------------------------------------------
Task == Instance \cup ManualTask

Inst(t) == IF t \in Instance THEN t ELSE Home[t]

\* Where a call of run_job is.  Between "attempt" and "backoff" it is inside
\* the timeout around execute_background_job_with_retries_and_shutdown.
PC == {"idle", "enter", "begin", "lock", "attempt", "body", "grace", "backoff",
       "release", "record", "persist"}

Call == [pc      : PC,
         kind    : Kind,
         attempt : Nat,              \* attempts_made
         left    : Nat,              \* to the timeout of the whole run
         wait    : Nat,              \* to the end of a backoff or of the grace
         lease   : Nat,              \* to locked_until of the acquired lock
         since   : Nat]              \* since started_at of the run

Idle == [pc |-> "idle", kind |-> CHOOSE k \in Kind : TRUE, attempt |-> 0,
         left |-> 0, wait |-> 0, lease |-> 0, since |-> 0]

\* run_forever between ticks, in run_due_once, or returned; the kinds its
\* loop has not visited yet, and those that were due when it read the time.
Scan == [state : {"waiting", "scanning", "stopped"},
         todo : SUBSET Kind, due : SUBSET Kind]

Waiting == [state |-> "waiting", todo |-> {}, due |-> {}]

TypeOK ==
  /\ LocksTypeOK
  /\ lockEnabled \in BOOLEAN
  /\ running \in [Instance -> SUBSET Kind]
  /\ age \in [Instance -> [Kind -> Nat]]
  /\ shutdown \in [Instance -> BOOLEAN]
  /\ sched \in [Instance -> Scan]
  /\ task \in [Task -> Call]

Init ==
  /\ LocksInit
  /\ lockEnabled \in LockModes
  /\ running = [i \in Instance |-> {}]
  /\ age = [i \in Instance |-> Interval]
  /\ shutdown = [i \in Instance |-> FALSE]
  /\ sched = [i \in Instance |-> Waiting]
  /\ task = [t \in Task |-> Idle]

-----------------------------------------------------------------------------
(* What InMemoryBackgroundJobState does.                                   *)

\* is_due, with the `now' that run_due_once read before its loop: the kind
\* was due then, and no later run has been recorded since.
IsDue(i, k) ==
  /\ k \notin running[i]
  /\ k \in sched[i].due
  /\ age[i][k] >= Interval[k]

\* Mutant of RecordRun: the flag is forgotten.
RecordRunKeepsFlag(i, k, since) ==
  /\ running' = running
  /\ age' = [age EXCEPT ![i][k] = since]

\* state.record_run: whoever records a run of a kind clears the kind's flag.
RecordRun(i, k, since) ==
  /\ running' = [running EXCEPT ![i] = @ \ {k}]
  /\ age' = [age EXCEPT ![i][k] = since]

-----------------------------------------------------------------------------
(* run_job, called by task t for kind k.                                   *)

\* The call of t goes on as c.
Becomes(t, c) == task' = [task EXCEPT ![t] = c]

Enter(t, k) == Becomes(t, [Idle EXCEPT !.pc = "enter", !.kind = k])

\* POST /admin/jobs/{kind}/run: any registered kind, enabled or not.
RunManual(t, k) ==
  /\ task[t].pc = "idle"
  /\ Enter(t, k)
  /\ UNCHANGED <<locks, running, age, shutdown, lockEnabled, sched>>

\* Cancelled before it starts, if shutdown is requested by now.
CheckShutdown(t) ==
  /\ task[t].pc = "enter"
  /\ Becomes(t, [task[t] EXCEPT !.pc =
                   IF shutdown[Inst(t)] THEN "record" ELSE "begin"])
  /\ UNCHANGED <<locks, running, age, shutdown, lockEnabled, sched>>

\* try_begin, or the run is skipped because "job is already running".
Begin(t) ==
  LET k == task[t].kind
      i == Inst(t) IN
  /\ task[t].pc = "begin"
  /\ IF k \in running[i]
     THEN /\ Becomes(t, [task[t] EXCEPT !.pc = "record"])
          /\ UNCHANGED running
     ELSE /\ running' = [running EXCEPT ![i] = @ \cup {k}]
          /\ Becomes(t, [task[t] EXCEPT !.pc = "lock"])
  /\ UNCHANGED <<locks, age, shutdown, lockEnabled, sched>>

\* The run goes on to the retry loop; its timeout starts.
StartLoop(t, lease) ==
  Becomes(t, [task[t] EXCEPT !.pc = "attempt",
                             !.left = Interval[task[t].kind],
                             !.lease = lease])

SkipLocked(t) == Becomes(t, [task[t] EXCEPT !.pc = "record"])

\* acquire_lock.
AcquireDisabled(t) ==
  /\ task[t].pc = "lock"
  /\ ~lockEnabled
  /\ StartLoop(t, 0)
  /\ UNCHANGED <<locks, running, age, shutdown, lockEnabled, sched>>

Acquired(t) ==
  /\ task[t].pc = "lock"
  /\ lockEnabled
  /\ TryAcquireLock(Inst(t), task[t].kind)
  /\ StartLoop(t, LockUntilFromTtl(Inst(t)))
  /\ UNCHANGED <<running, age, shutdown, lockEnabled, sched>>

\* "job is already running on another instance"
HeldElsewhere(t) ==
  /\ task[t].pc = "lock"
  /\ lockEnabled
  /\ ~CanAcquire(Inst(t), task[t].kind)
  /\ SkipLocked(t)
  /\ UNCHANGED <<locks, running, age, shutdown, lockEnabled, sched>>

\* The store answers with an error, before or after it changed the table.
AcquireError(t) ==
  /\ task[t].pc = "lock"
  /\ lockEnabled
  /\ TryAcquireLock(Inst(t), task[t].kind) \/ UNCHANGED locks
  /\ SkipLocked(t)
  /\ UNCHANGED <<running, age, shutdown, lockEnabled, sched>>

-----------------------------------------------------------------------------
(* execute_background_job_with_retries_and_shutdown.                       *)

\* The result of the run.  started_at is the attempt's for the run that the
\* job returned, the loop's for the runs that the loop makes up.
Finish(t, since) ==
  Becomes(t, [task[t] EXCEPT !.pc = "release", !.attempt = 0,
                             !.since = since, !.wait = 0, !.left = 0])

LoopAge(t) == Interval[task[t].kind] - task[t].left

\* Mutant of StartAttempt: the call believes that an attempt renews the lock.
StartAttemptProlongs(t) ==
  /\ task[t].pc = "attempt"
  /\ IF shutdown[Inst(t)]
     THEN Finish(t, LoopAge(t))
     ELSE Becomes(t, [task[t] EXCEPT !.pc = "body", !.attempt = @ + 1,
                                     !.since = 0,
                                     !.lease = LockUntilFromTtl(Inst(t))])
  /\ UNCHANGED <<locks, running, age, shutdown, lockEnabled, sched>>

StartAttempt(t) ==
  /\ task[t].pc = "attempt"
  /\ IF shutdown[Inst(t)]
     THEN Finish(t, LoopAge(t))
     ELSE Becomes(t, [task[t] EXCEPT !.pc = "body", !.attempt = @ + 1,
                                     !.since = 0])
  /\ UNCHANGED <<locks, running, age, shutdown, lockEnabled, sched>>

\* The shutdown signal reaches a job body: it gets shutdown_timeout to end.
EnterGrace(t) ==
  /\ task[t].pc = "body"
  /\ shutdown[Inst(t)]
  /\ Becomes(t, [task[t] EXCEPT !.pc = "grace", !.wait = Grace])
  /\ UNCHANGED <<locks, running, age, shutdown, lockEnabled, sched>>

\* run_once returned Ok(run), whatever the run's status.
BodyOk(t) ==
  /\ task[t].pc \in {"body", "grace"}
  /\ Finish(t, task[t].since)
  /\ UNCHANGED <<locks, running, age, shutdown, lockEnabled, sched>>

\* run_once returned an error that is not retryable, or the last attempt did.
BodyFailed(t) ==
  /\ task[t].pc \in {"body", "grace"}
  /\ Finish(t, LoopAge(t))
  /\ UNCHANGED <<locks, running, age, shutdown, lockEnabled, sched>>

BodyRetry(t) ==
  /\ task[t].pc \in {"body", "grace"}
  /\ task[t].attempt < MaxAttempts
  /\ Becomes(t, [task[t] EXCEPT !.pc = "backoff",
                                !.wait = Backoff[task[t].attempt],
                                !.since = 0])
  /\ UNCHANGED <<locks, running, age, shutdown, lockEnabled, sched>>

\* The grace period ended first: SHUTDOWN_TIMEOUT; the body is dropped.
GraceOver(t) ==
  /\ task[t].pc = "grace"
  /\ task[t].wait = 0
  /\ Finish(t, LoopAge(t))
  /\ UNCHANGED <<locks, running, age, shutdown, lockEnabled, sched>>

BackoffOver(t) ==
  /\ task[t].pc = "backoff"
  /\ task[t].wait = 0
  /\ Becomes(t, [task[t] EXCEPT !.pc = "attempt"])
  /\ UNCHANGED <<locks, running, age, shutdown, lockEnabled, sched>>

BackoffCancelled(t) ==
  /\ task[t].pc = "backoff"
  /\ shutdown[Inst(t)]
  /\ Finish(t, LoopAge(t))
  /\ UNCHANGED <<locks, running, age, shutdown, lockEnabled, sched>>

\* Mutant of Timeout: it covers the sleeps and not the job.
TimeoutOfSleepsOnly(t) ==
  /\ task[t].pc \in {"attempt", "backoff"}
  /\ task[t].left = 0
  /\ Finish(t, 0)
  /\ UNCHANGED <<locks, running, age, shutdown, lockEnabled, sched>>

\* timeout(job.interval(), ..): a new run, TIMEOUT, that starts now.
Timeout(t) ==
  /\ task[t].pc \in {"attempt", "body", "grace", "backoff"}
  /\ task[t].left = 0
  /\ Finish(t, 0)
  /\ UNCHANGED <<locks, running, age, shutdown, lockEnabled, sched>>

-----------------------------------------------------------------------------
(* The end of run_job.                                                     *)

\* release_lock: its outcome, an error included, is only logged.
Release(t) ==
  /\ task[t].pc = "release"
  /\ \/ lockEnabled /\ ReleaseLock(Inst(t), task[t].kind)
     \/ UNCHANGED locks
  /\ Becomes(t, [task[t] EXCEPT !.pc = "record", !.lease = 0])
  /\ UNCHANGED <<running, age, shutdown, lockEnabled, sched>>

\* record_run: in memory, then (Persist) in the history store.
Record(t) ==
  /\ task[t].pc = "record"
  /\ RecordRun(Inst(t), task[t].kind, task[t].since)
  /\ Becomes(t, [Idle EXCEPT !.pc = "persist"])
  /\ UNCHANGED <<locks, shutdown, lockEnabled, sched>>

\* insert_run; a failure is only logged.  The call returns.
Persist(t) ==
  /\ task[t].pc = "persist"
  /\ Becomes(t, Idle)
  /\ UNCHANGED <<locks, running, age, shutdown, lockEnabled, sched>>

-----------------------------------------------------------------------------
(* run_forever and run_due_once, the scheduler task of instance i.         *)

\* A tick of the interval: run_due_once reads the time and starts its loop.
SchedTick(i) ==
  /\ sched[i].state = "waiting"
  /\ ~shutdown[i]
  /\ sched' = [sched EXCEPT ![i] =
                 [state |-> "scanning", todo |-> Kind,
                  due |-> {k \in Kind : age[i][k] >= Interval[k]}]]
  /\ UNCHANGED <<locks, running, age, shutdown, lockEnabled, task>>

\* One iteration of its loop, in any order of the kinds (a HashMap).
SchedVisit(i, k) ==
  /\ sched[i].state = "scanning"
  /\ task[i].pc = "idle"
  /\ ~shutdown[i]
  /\ k \in sched[i].todo
  /\ sched' = [sched EXCEPT ![i].todo = @ \ {k}]
  /\ IF k \in Enabled /\ IsDue(i, k) THEN Enter(i, k) ELSE UNCHANGED task
  /\ UNCHANGED <<locks, running, age, shutdown, lockEnabled>>

\* The loop is over, or broken off by shutdown.
SchedScanEnd(i) ==
  /\ sched[i].state = "scanning"
  /\ task[i].pc = "idle"
  /\ shutdown[i] \/ sched[i].todo = {}
  /\ sched' = [sched EXCEPT ![i] = Waiting]
  /\ UNCHANGED <<locks, running, age, shutdown, lockEnabled, task>>

SchedStop(i) ==
  /\ sched[i].state = "waiting"
  /\ shutdown[i]
  /\ sched' = [sched EXCEPT ![i].state = "stopped"]
  /\ UNCHANGED <<locks, running, age, shutdown, lockEnabled, task>>

-----------------------------------------------------------------------------
(* The environment.                                                        *)

\* SIGTERM or Ctrl-C: ShutdownToken::cancel.
ShutdownSignal(i) ==
  /\ ~shutdown[i]
  /\ shutdown' = [shutdown EXCEPT ![i] = TRUE]
  /\ UNCHANGED <<locks, lockEnabled, running, age, sched, task>>

\* The process ends, killed or because run() returned without waiting for
\* its spawned tasks, and is started again.
Restart(i) ==
  /\ OwnerExit(i, StableOwner)
  /\ running' = [running EXCEPT ![i] = {}]
  /\ age' = [age EXCEPT ![i] = Interval]
  /\ shutdown' = [shutdown EXCEPT ![i] = FALSE]
  /\ sched' = [sched EXCEPT ![i] = Waiting]
  /\ task' = [t \in Task |-> IF Inst(t) = i THEN Idle ELSE task[t]]
  /\ UNCHANGED lockEnabled

\* The client of a manual run goes away and the server drops the handler at
\* an await; a store call in flight may or may not have been executed.
Disconnect(t) ==
  /\ CanDisconnect
  /\ task[t].pc \in PC \ {"idle", "enter", "begin", "record"}
  /\ \/ /\ task[t].pc = "lock" /\ lockEnabled
        /\ TryAcquireLock(Inst(t), task[t].kind)
     \/ /\ task[t].pc = "release" /\ lockEnabled
        /\ ReleaseLock(Inst(t), task[t].kind)
     \/ UNCHANGED locks
  /\ Becomes(t, Idle)
  /\ UNCHANGED <<running, age, shutdown, lockEnabled, sched>>

Older(n, k) == IF n < Interval[k] THEN n + 1 ELSE n

\* Is the started_at of the run that t will record known?
Dated(t) == task[t].pc \in {"body", "grace", "release", "record"}

Tick ==
  /\ LocksElapse
  /\ age' = [i \in Instance |-> [k \in Kind |-> Older(age[i][k], k)]]
  /\ task' = [t \in Task |->
                [task[t] EXCEPT !.left = Elapse(@), !.wait = Elapse(@),
                                !.lease = Elapse(@),
                                !.since = IF Dated(t)
                                          THEN Older(@, task[t].kind)
                                          ELSE @]]
  /\ UNCHANGED <<running, shutdown, lockEnabled, sched>>

-----------------------------------------------------------------------------
RunJob(t) ==
  \/ CheckShutdown(t) \/ Begin(t) \/ AcquireDisabled(t) \/ Acquired(t)
  \/ HeldElsewhere(t) \/ AcquireError(t) \/ StartAttempt(t) \/ EnterGrace(t) \/ BodyOk(t)
  \/ BodyFailed(t) \/ BodyRetry(t) \/ GraceOver(t) \/ BackoffOver(t)
  \/ BackoffCancelled(t) \/ Timeout(t) \/ Release(t) \/ Record(t)
  \/ Persist(t)

Scheduler(i) ==
  \/ SchedTick(i)
  \/ \E k \in Kind : SchedVisit(i, k)
  \/ SchedScanEnd(i)
  \/ SchedStop(i)

Next ==
  \/ \E t \in Task : RunJob(t)
  \/ \E t \in ManualTask : (\E k \in Kind : RunManual(t, k)) \/ Disconnect(t)
  \/ \E i \in Instance : Scheduler(i) \/ ShutdownSignal(i) \/ Restart(i)
  \/ Tick

Spec == Init /\ [][Next]_vars

(***************************************************************************)
(* What the scheduler of the machine guarantees: time passes, timers fire, *)
(* the calls of the lock and history stores return, and a task that can    *)
(* run does.  Job bodies may hang: nothing makes Body* happen.             *)
(***************************************************************************)
Progress(t) ==
  \/ CheckShutdown(t) \/ Begin(t) \/ AcquireDisabled(t) \/ Acquired(t)
  \/ HeldElsewhere(t) \/ AcquireError(t) \/ StartAttempt(t)
  \/ EnterGrace(t) \/ GraceOver(t) \/ BackoffOver(t)
  \/ BackoffCancelled(t) \/ Timeout(t) \/ Release(t) \/ Record(t)
  \/ Persist(t)

Fairness ==
  /\ WF_vars(Tick)
  /\ \A t \in Task : WF_vars(Progress(t))
  /\ \A i \in Instance : WF_vars(Scheduler(i))

FairSpec == Spec /\ Fairness

-----------------------------------------------------------------------------
\* The call of t is between acquiring the lock and the end of release_lock.
Working(t) ==
  task[t].pc \in {"attempt", "body", "grace", "backoff", "release"}

\* Its lease is valid on every clock in the system.
Leased(t) == Working(t) /\ \A j \in Instance : task[t].lease > Skew[j]

\* The retry loop makes at most total_attempts() attempts, never sleeps after
\* the last one, and counts within the interval that bounds the whole run.
RetryBounded ==
  \A t \in Task :
    /\ task[t].pc \in {"attempt", "backoff"} => task[t].attempt < MaxAttempts
    /\ task[t].pc \in {"body", "grace"} => task[t].attempt \in 1..MaxAttempts
    /\ task[t].pc \in {"enter", "begin", "lock"} => task[t].attempt = 0
    /\ task[t].left <= Interval[task[t].kind]

\* The point of the distributed lock ("job is already running on another
\* instance"): two instances never work on a kind under valid leases.
LeasedRunsExclusive ==
  \A t, u \in Task :
    Leased(t) /\ Leased(u) /\ task[t].kind = task[u].kind => Inst(t) = Inst(u)

\* A call works under a valid lease only while the row is its instance's, and
\* expires no earlier than the call believes ("distributed_lock_is_held_for_
\* full_retry_sequence").
LeaseBacked ==
  \A t \in Task :
    Leased(t) => /\ locks[task[t].kind].owner = Inst(t)
                 /\ locks[task[t].kind].left >= task[t].lease

\* As long as only schedulers call run_job, the running flags tell the truth:
\* a kind is flagged from try_begin on while a call works on it, and a flagged
\* kind has a call that will clear it, through every early return, timeout,
\* store error, shutdown and restart.
FlagsTruthful ==
  \A i \in Instance, k \in Kind :
    LET At(pcs) == task[i].kind = k /\ task[i].pc \in pcs
        Busy == {"lock", "attempt", "body", "grace", "backoff", "release"} IN
    /\ At(Busy) => k \in running[i]
    /\ k \in running[i] => At(Busy \cup {"record"})

\* Every call of run_job returns, even if the job body never does: through
\* the timeout, the backoff and grace timers and the bound on attempts.
RunTerminates ==
  \A t \in Task : task[t].pc # "idle" ~> task[t].pc = "idle"

\* After a shutdown signal the scheduler task stops, whatever job it was in,
\* unless the process is restarted first.
ShutdownStopsScheduler ==
  \A i \in Instance :
    shutdown[i] ~> sched[i].state = "stopped" \/ ~shutdown[i]

\* Whatever hangs, fails or is dropped, calls of run_job and, after a signal,
\* the scheduler come to an end.
RunnerSettles == RunTerminates /\ ShutdownStopsScheduler

-----------------------------------------------------------------------------
\* What the scheduler tasks know of their leases, kind by kind.
RunnerView ==
  [i \in Instance |-> [k \in Kind |->
     IF Working(i) /\ task[i].kind = k THEN task[i].lease ELSE 0]]

JL == INSTANCE JobLock WITH view <- RunnerView

\* As long as only its scheduler calls run_job, a runner uses the lock store
\* with the discipline of the port: one user per owner_id, who stops working
\* before the row is deleted.
LockDiscipline == JL!PortSpec
=============================================================================
