--------------------------- MODULE JobRunnerProofs ---------------------------
(***************************************************************************)
(* Type correctness and the bound on attempts for every configuration of   *)
(* the runner; and, when only the schedulers call run_job, the exclusion   *)
(* of leased runs across instances, the truth of the running flags, and    *)
(* that the runner implements the discipline of the lock port (JobLock).   *)
(***************************************************************************)
EXTENDS JobRunner, JobLock, TLAPS

\* Elapse stays a natural number and never grows.
LEMMA ElapseNat ==
  ASSUME NEW n \in Nat
  PROVE  Elapse(n) \in Nat /\ Elapse(n) <= n
BY DEF Elapse

\* Elapse keeps the order of two times, and a bound passed after it was before.
LEMMA ElapseOrder ==
  ASSUME NEW m \in Nat, NEW n \in Nat, NEW b \in Nat
  PROVE  /\ m <= n => Elapse(m) <= Elapse(n)
         /\ Elapse(m) > b => m > b
BY DEF Elapse

\* A lease is a natural number of ticks.
LEMMA UntilNat ==
  ASSUME NEW i \in Instance
  PROVE  LockUntilFromTtl(i) \in Nat
BY LockConstants DEF LockUntilFromTtl

\* An idle call is a call.
LEMMA IdleType == Idle \in Call
BY RunnerConstants DEF Idle, Call, PC

\* Every task has an instance.
LEMMA InstType == ASSUME NEW t \in Task PROVE Inst(t) \in Instance
BY RunnerConstants DEF Task, Inst

\* The lock table keeps its type under the store's operations.
LEMMA LocksType ==
  ASSUME LocksTypeOK, NEW i \in Instance, NEW k \in Kind,
         \/ TryAcquireLock(i, k) \/ ReleaseLock(i, k) \/ LocksElapse
         \/ OwnerExit(i, StableOwner) \/ UNCHANGED locks
  PROVE  LocksTypeOK'
<1> USE DEF LocksTypeOK, Row, NoRow, Owner
<1>1. CASE TryAcquireLock(i, k)
  BY <1>1, UntilNat DEF TryAcquireLock
<1>2. CASE ReleaseLock(i, k)
  BY <1>2 DEF ReleaseLock
<1>3. CASE LocksElapse
  BY <1>3, ElapseNat DEF LocksElapse
<1>4. CASE OwnerExit(i, StableOwner)
  BY <1>4, LockConstants DEF OwnerExit
<1>5. CASE UNCHANGED locks
  BY <1>5
<1>6. QED
  BY <1>1, <1>2, <1>3, <1>4, <1>5

\* A step of one call: it stays well formed if its new record is.
TaskOK(c) ==
  /\ c \in Call
  /\ c.pc \in {"attempt", "backoff"} => c.attempt < MaxAttempts
  /\ c.pc \in {"body", "grace"} => c.attempt \in 1..MaxAttempts
  /\ c.pc \in {"enter", "begin", "lock"} => c.attempt = 0
  /\ c.left <= Interval[c.kind]

TInv == TypeOK /\ RetryBounded

\* The invariant, task by task.
LEMMA TInvTasks == TInv => \A t \in Task : TaskOK(task[t])
BY DEF TInv, TypeOK, RetryBounded, TaskOK

\* A step of one task to a well-formed call keeps the invariant of all.
LEMMA TInvStep ==
  ASSUME TInv, NEW t \in Task, NEW c, TaskOK(c), Becomes(t, c)
  PROVE  (task \in [Task -> Call])' /\ RetryBounded'
BY DEF TInv, TypeOK, RetryBounded, TaskOK, Becomes

\* Every step of run_job leaves the caller's record well formed.
LEMMA RunJobTask ==
  ASSUME TInv, NEW t \in Task, RunJob(t)
  PROVE  \E c : TaskOK(c) /\ Becomes(t, c)
<1>0. TaskOK(task[t]) /\ Inst(t) \in Instance
  BY TInvTasks, InstType
<1>1. Interval[task[t].kind] \in Nat \ {0}
  BY <1>0, RunnerConstants DEF TaskOK, Call
<1>2. CASE CheckShutdown(t) \/ Begin(t) \/ HeldElsewhere(t) \/ AcquireError(t)
  <2>1. PICK p \in {"record", "begin", "lock"} :
          /\ Becomes(t, [task[t] EXCEPT !.pc = p])
          /\ task[t].pc \in {"enter", "begin", "lock"}
    BY <1>2 DEF CheckShutdown, Begin, HeldElsewhere, AcquireError, SkipLocked
  <2>2. TaskOK([task[t] EXCEPT !.pc = p])
    BY <2>1, <1>0 DEF TaskOK, Call, PC
  <2>3. QED
    BY <2>1, <2>2
<1>3. CASE AcquireDisabled(t) \/ Acquired(t)
  <2>1. PICK n \in Nat : StartLoop(t, n) /\ task[t].pc = "lock"
    BY <1>3, <1>0, UntilNat DEF AcquireDisabled, Acquired
  <2> DEFINE c == [task[t] EXCEPT !.pc = "attempt",
                                  !.left = Interval[task[t].kind], !.lease = n]
  <2>2. task[t] \in Call /\ task[t].attempt = 0
    BY <2>1, <1>0 DEF TaskOK
  <2>3. c \in Call
    BY <2>1, <2>2, <1>1 DEF Call, PC
  <2>4. /\ c.pc = "attempt" /\ c.attempt = 0 /\ c.kind = task[t].kind
        /\ c.left = Interval[task[t].kind]
    BY <2>2 DEF Call
  <2>5. TaskOK(c)
    <3> HIDE DEF c
    <3> QED BY <2>3, <2>4, <1>1, RunnerConstants DEF TaskOK
  <2>6. QED
    BY <2>1, <2>5 DEF StartLoop
<1>4. CASE StartAttempt(t) /\ ~shutdown[Inst(t)]
  <2> DEFINE c == [task[t] EXCEPT !.pc = "body", !.attempt = @ + 1,
                                  !.since = 0]
  <2>1. /\ task[t] \in Call /\ task[t].attempt < MaxAttempts
        /\ task[t].left <= Interval[task[t].kind]
    BY <1>4, <1>0 DEF TaskOK, StartAttempt
  <2>2. c \in Call
    <3>1. task[t].attempt + 1 \in Nat
      BY <2>1 DEF Call
    <3>2. \A n \in Nat :
            [task[t] EXCEPT !.pc = "body", !.attempt = n, !.since = 0] \in Call
      BY <2>1 DEF Call, PC
    <3>3. QED
      BY <3>1, <3>2
  <2>3. /\ c.pc = "body" /\ c.attempt = task[t].attempt + 1
        /\ c.kind = task[t].kind /\ c.left = task[t].left
        /\ task[t].attempt \in Nat
    BY <2>1 DEF Call
  <2>4. TaskOK(c)
    <3> HIDE DEF c
    <3> QED BY <2>1, <2>2, <2>3, RunnerConstants DEF TaskOK
  <2>5. QED
    BY <2>4, <1>4 DEF StartAttempt
<1>5. ASSUME NEW n \in Nat, Finish(t, n)
      PROVE  \E c : TaskOK(c) /\ Becomes(t, c)
  <2> DEFINE c == [task[t] EXCEPT !.pc = "release", !.attempt = 0,
                                  !.since = n, !.wait = 0, !.left = 0]
  <2>1. task[t] \in Call
    BY <1>0 DEF TaskOK
  <2>2. c \in Call
    BY <2>1 DEF Call, PC
  <2>3. c.pc = "release" /\ c.left = 0 /\ c.kind = task[t].kind
    BY <2>1 DEF Call
  <2>4. TaskOK(c)
    <3> HIDE DEF c
    <3> QED BY <2>2, <2>3, <1>1 DEF TaskOK
  <2>5. QED
    BY <2>4, <1>5 DEF Finish
<1>6. LoopAge(t) \in Nat
  BY <1>0, <1>1 DEF LoopAge, TaskOK, Call
<1>7. CASE \/ StartAttempt(t) /\ shutdown[Inst(t)]
           \/ BodyFailed(t) \/ GraceOver(t) \/ BackoffCancelled(t)
  BY <1>7, <1>5, <1>6 DEF StartAttempt, BodyFailed, GraceOver, BackoffCancelled
<1>8. CASE BodyOk(t) \/ Timeout(t)
  <2>1. task[t].since \in Nat
    BY <1>0 DEF TaskOK, Call
  <2>2. QED
    BY <2>1, <1>8, <1>5 DEF BodyOk, Timeout
<1>9. CASE EnterGrace(t)
  <2>1. TaskOK([task[t] EXCEPT !.pc = "grace", !.wait = Grace])
    BY <1>9, <1>0, RunnerConstants DEF EnterGrace, TaskOK, Call, PC
  <2>2. QED
    BY <2>1, <1>9 DEF EnterGrace
<1>10. CASE BodyRetry(t)
  <2>1. Backoff[task[t].attempt] \in Nat
    BY <1>10, <1>0, RunnerConstants DEF BodyRetry, TaskOK, Call
  <2>2. TaskOK([task[t] EXCEPT !.pc = "backoff",
                               !.wait = Backoff[task[t].attempt],
                               !.since = 0])
    BY <2>1, <1>10, <1>0 DEF BodyRetry, TaskOK, Call, PC
  <2>3. QED
    BY <2>2, <1>10 DEF BodyRetry
<1>11. CASE BackoffOver(t)
  <2>1. TaskOK([task[t] EXCEPT !.pc = "attempt"])
    BY <1>11, <1>0 DEF BackoffOver, TaskOK, Call, PC
  <2>2. QED
    BY <2>1, <1>11 DEF BackoffOver
<1>12. CASE Release(t)
  <2>1. TaskOK([task[t] EXCEPT !.pc = "record", !.lease = 0])
    BY <1>0 DEF TaskOK, Call, PC
  <2>2. QED
    BY <2>1, <1>12 DEF Release
<1>13. CASE Record(t) \/ Persist(t)
  <2>1. TaskOK(Idle) /\ TaskOK([Idle EXCEPT !.pc = "persist"])
    <3>1. Idle.kind \in Kind /\ Interval[Idle.kind] \in Nat
      BY IdleType, RunnerConstants DEF Call
    <3>2. Idle.pc = "idle" /\ Idle.left = 0
      BY DEF Idle
    <3>3. [Idle EXCEPT !.pc = "persist"] \in Call
      BY IdleType DEF Call, PC
    <3>4. TaskOK(Idle)
      BY <3>1, <3>2, IdleType DEF TaskOK
    <3>5. /\ [Idle EXCEPT !.pc = "persist"].pc = "persist"
          /\ [Idle EXCEPT !.pc = "persist"].left = Idle.left
          /\ [Idle EXCEPT !.pc = "persist"].kind = Idle.kind
      BY IdleType DEF Call
    <3>6. QED
      BY <3>1, <3>2, <3>3, <3>4, <3>5 DEF TaskOK
  <2>2. QED
    BY <2>1, <1>13 DEF Record, Persist
<1>14. QED
  BY <1>2, <1>3, <1>4, <1>7, <1>8, <1>9, <1>10, <1>11, <1>12, <1>13
     DEF RunJob

\* What a step of run_job does to the rest of the state.
LEMMA RunJobRest ==
  ASSUME TypeOK, NEW t \in Task, RunJob(t)
  PROVE  /\ LocksTypeOK'
         /\ (running \in [Instance -> SUBSET Kind])'
         /\ (age \in [Instance -> [Kind -> Nat]])'
         /\ UNCHANGED <<shutdown, lockEnabled, sched>>
<1>0. /\ Inst(t) \in Instance /\ task[t].kind \in Kind
      /\ task[t].since \in Nat /\ LocksTypeOK
  BY InstType DEF TypeOK, Call
<1>1. LocksTypeOK'
  <2>1. \/ TryAcquireLock(Inst(t), task[t].kind)
        \/ ReleaseLock(Inst(t), task[t].kind)
        \/ UNCHANGED locks
    BY DEF RunJob, CheckShutdown, Begin, AcquireDisabled, Acquired,
           HeldElsewhere, AcquireError, StartAttempt, EnterGrace, BodyOk,
           BodyFailed, BodyRetry, GraceOver, BackoffOver, BackoffCancelled,
           Timeout, Release, Record, Persist
  <2>2. QED
    BY <2>1, <1>0, LocksType
<1>2. UNCHANGED <<shutdown, lockEnabled, sched>>
  BY DEF RunJob, CheckShutdown, Begin, AcquireDisabled, Acquired,
         HeldElsewhere, AcquireError, StartAttempt, EnterGrace, BodyOk,
         BodyFailed, BodyRetry, GraceOver, BackoffOver, BackoffCancelled,
         Timeout, Release, Record, Persist
<1>3. CASE Record(t)
  <2>1. RecordRun(Inst(t), task[t].kind, task[t].since)
    BY <1>3 DEF Record
  <2>2. QED
    BY <2>1, <1>0, <1>1, <1>2 DEF RecordRun, TypeOK
<1>4. CASE Begin(t)
  BY <1>4, <1>0, <1>1, <1>2 DEF Begin, TypeOK
<1>5. CASE ~Record(t) /\ ~Begin(t)
  <2>1. UNCHANGED <<running, age>>
    BY <1>5 DEF RunJob, CheckShutdown, AcquireDisabled, Acquired,
           HeldElsewhere, AcquireError, StartAttempt, EnterGrace, BodyOk,
           BodyFailed, BodyRetry, GraceOver, BackoffOver, BackoffCancelled,
           Timeout, Release, Persist
  <2>2. QED
    BY <2>1, <1>1, <1>2 DEF TypeOK
<1>6. QED
  BY <1>3, <1>4, <1>5

\* A call may start, and may be forgotten.
LEMMA EnterOK ==
  ASSUME NEW k \in Kind
  PROVE  TaskOK(Idle) /\ TaskOK([Idle EXCEPT !.pc = "enter", !.kind = k])
<1> DEFINE c == [Idle EXCEPT !.pc = "enter", !.kind = k]
<1>1. /\ Idle.kind \in Kind /\ Idle.pc = "idle" /\ Idle.left = 0
      /\ Idle.attempt = 0
  BY IdleType DEF Idle, Call
<1>2. c \in Call
  BY IdleType DEF Call, PC
<1>3. c.pc = "enter" /\ c.left = 0 /\ c.attempt = 0 /\ c.kind = k
  BY IdleType, <1>1 DEF Call
<1>4. TaskOK(Idle)
  BY <1>1, IdleType, RunnerConstants DEF TaskOK
<1>5. TaskOK(c)
  <2> HIDE DEF c
  <2> QED BY <1>2, <1>3, RunnerConstants DEF TaskOK
<1>6. QED
  BY <1>4, <1>5

\* A scheduler between ticks has a scan.
LEMMA WaitingScan == Waiting \in Scan
BY DEF Waiting, Scan

\* A tick of the scheduler starts a scan.
LEMMA TickScan ==
  ASSUME NEW i \in Instance
  PROVE  [state |-> "scanning", todo |-> Kind,
          due |-> {k \in Kind : age[i][k] >= Interval[k]}] \in Scan
<1> DEFINE D == {k \in Kind : age[i][k] >= Interval[k]}
<1>1. D \in SUBSET Kind
  OBVIOUS
<1> HIDE DEF D
<1>2. [state |-> "scanning", todo |-> Kind, due |-> D] \in Scan
  BY <1>1 DEF Scan
<1>3. QED
  BY <1>2 DEF D

\* A scan stays one when it drops a kind or stops.
LEMMA StopScan ==
  ASSUME NEW s \in Scan, NEW k
  PROVE  /\ [s EXCEPT !.state = "stopped"] \in Scan
         /\ [s EXCEPT !.todo = @ \ {k}] \in Scan
<1>1. [s EXCEPT !.state = "stopped"] \in Scan
  BY DEF Scan
<1>2. \A S \in SUBSET Kind : [s EXCEPT !.todo = S] \in Scan
  BY DEF Scan
<1>3. s.todo \ {k} \in SUBSET Kind
  BY DEF Scan
<1>4. QED
  BY <1>1, <1>2, <1>3

\* Time passing keeps every call well formed.
LEMMA TickTask ==
  ASSUME TInv, Tick
  PROVE  /\ (task \in [Task -> Call])' /\ RetryBounded'
         /\ (age \in [Instance -> [Kind -> Nat]])'
<1> DEFINE c(t) == [task[t] EXCEPT !.left = Elapse(@), !.wait = Elapse(@),
                                   !.lease = Elapse(@),
                                   !.since = IF Dated(t)
                                             THEN Older(@, task[t].kind)
                                             ELSE @]
<1>1. task' = [t \in Task |-> c(t)]
  BY DEF Tick
<1>2. ASSUME NEW t \in Task
      PROVE  TaskOK(c(t))
  <2>1. task[t] \in Call /\ TaskOK(task[t])
    BY TInvTasks DEF TaskOK
  <2>2. /\ Elapse(task[t].left) \in Nat
        /\ Elapse(task[t].left) <= task[t].left
        /\ Elapse(task[t].wait) \in Nat
        /\ Elapse(task[t].lease) \in Nat
    BY <2>1, ElapseNat DEF Call
  <2>3. Older(task[t].since, task[t].kind) \in Nat
    BY <2>1 DEF Older, Call
  <2>4. PICK n \in Nat :
          c(t) = [task[t] EXCEPT !.left = Elapse(task[t].left),
                                 !.wait = Elapse(task[t].wait),
                                 !.lease = Elapse(task[t].lease),
                                 !.since = n]
    BY <2>1, <2>3 DEF Call
  <2>5. c(t) \in Call
    BY <2>1, <2>2, <2>4 DEF Call
  <2>6. /\ c(t).pc = task[t].pc /\ c(t).attempt = task[t].attempt
        /\ c(t).kind = task[t].kind /\ c(t).left = Elapse(task[t].left)
    BY <2>1, <2>4 DEF Call
  <2>7. task[t].left \in Nat /\ Interval[task[t].kind] \in Nat
    BY <2>1, RunnerConstants DEF Call
  <2>8. QED
    <3> HIDE DEF c
    <3> QED BY <2>1, <2>2, <2>5, <2>6, <2>7 DEF TaskOK
<1>3. (task \in [Task -> Call])' /\ RetryBounded'
  <2> HIDE DEF c
  <2> QED BY <1>1, <1>2 DEF RetryBounded, TaskOK
<1>4. (age \in [Instance -> [Kind -> Nat]])'
  <2>1. ASSUME NEW i \in Instance, NEW k \in Kind
        PROVE  Older(age[i][k], k) \in Nat
    <3>1. age[i][k] \in Nat
      BY DEF TInv, TypeOK
    <3>2. QED
      BY <3>1 DEF Older
  <2>2. age' = [i \in Instance |-> [k \in Kind |-> Older(age[i][k], k)]]
    BY DEF Tick
  <2>3. QED
    BY <2>1, <2>2
<1>5. QED
  BY <1>3, <1>4

\* TypeOK and the bound on attempts hold in every reachable state, however
\* many callers, instances and restarts there are.
THEOREM RunnerTypeCorrect == Spec => [](TypeOK /\ RetryBounded)
<1>1. Init => TInv
  <2> SUFFICES ASSUME Init PROVE TInv
    OBVIOUS
  <2>1. \A t \in Task : task[t] = Idle
    BY DEF Init
  <2>2. TaskOK(Idle)
    BY EnterOK, RunnerConstants
  <2>3. (task \in [Task -> Call]) /\ RetryBounded
    BY <2>1, <2>2 DEF Init, RetryBounded, TaskOK
  <2>4. LocksTypeOK
    BY DEF Init, LocksInit, LocksTypeOK, NoRow, Row
  <2>5. QED
    BY <2>3, <2>4, WaitingScan, RunnerConstants DEF Init, TInv, TypeOK
<1>2. TInv /\ [Next]_vars => TInv'
  <2> SUFFICES ASSUME TInv, [Next]_vars PROVE TInv'
    OBVIOUS
  <2> USE DEF TInv
  <2>1. ASSUME NEW t \in Task, RunJob(t) PROVE TInv'
    BY <2>1, RunJobTask, RunJobRest, TInvStep DEF TypeOK
  <2>2. ASSUME NEW t \in ManualTask, NEW k \in Kind, RunManual(t, k)
        PROVE  TInv'
    <3>1. (task \in [Task -> Call])' /\ RetryBounded'
      BY <2>2, EnterOK, TInvStep DEF RunManual, Enter, Task
    <3>2. QED
      BY <3>1, <2>2 DEF RunManual, TypeOK, LocksTypeOK
  <2>3. ASSUME NEW t \in ManualTask, Disconnect(t)
        PROVE  TInv'
    <3>1. Becomes(t, Idle) /\ t \in Task /\ TaskOK(Idle)
      BY <2>3, EnterOK, RunnerConstants DEF Disconnect, Task
    <3>2. (task \in [Task -> Call])' /\ RetryBounded'
      BY <3>1, TInvStep
    <3>3. Inst(t) \in Instance /\ task[t].kind \in Kind
      BY <3>1, InstType DEF TypeOK, Call
    <3>4. LocksTypeOK'
      BY <2>3, <3>3, LocksType DEF Disconnect, TypeOK
    <3>5. QED
      BY <3>2, <3>4, <2>3 DEF Disconnect, TypeOK
  <2>4. ASSUME NEW i \in Instance, Scheduler(i)
        PROVE  TInv'
    <3>1. CASE SchedTick(i) \/ SchedScanEnd(i) \/ SchedStop(i)
      <4>1. UNCHANGED <<locks, lockEnabled, running, age, shutdown, task>>
        BY <3>1 DEF SchedTick, SchedScanEnd, SchedStop
      <4>2. \E s \in Scan : sched' = [sched EXCEPT ![i] = s]
        <5>1. CASE SchedTick(i)
          BY <5>1, TickScan DEF SchedTick
        <5>2. CASE SchedScanEnd(i)
          BY <5>2, WaitingScan DEF SchedScanEnd
        <5>3. CASE SchedStop(i)
          BY <5>3, StopScan DEF SchedStop, TypeOK
        <5>4. QED
          BY <3>1, <5>1, <5>2, <5>3
      <4>3. (sched \in [Instance -> Scan])'
        BY <4>2 DEF TypeOK
      <4>4. QED
        BY <4>1, <4>3 DEF TypeOK, LocksTypeOK, RetryBounded
    <3>2. ASSUME NEW k \in Kind, SchedVisit(i, k)
          PROVE  TInv'
      <4>1. (task \in [Task -> Call])' /\ RetryBounded'
        <5>1. CASE UNCHANGED task
          BY <5>1 DEF TypeOK, RetryBounded
        <5>2. CASE Enter(i, k)
          BY <5>2, EnterOK, TInvStep DEF Enter, Task
        <5>3. QED
          BY <5>1, <5>2, <3>2 DEF SchedVisit
      <4>2. (sched \in [Instance -> Scan])'
        BY <3>2, StopScan DEF SchedVisit, TypeOK
      <4>3. QED
        BY <4>1, <4>2, <3>2 DEF SchedVisit, TypeOK, LocksTypeOK
    <3>3. QED
      BY <3>1, <3>2, <2>4 DEF Scheduler
  <2>5. ASSUME NEW i \in Instance, ShutdownSignal(i)
        PROVE  TInv'
    BY <2>5 DEF ShutdownSignal, TypeOK, LocksTypeOK, RetryBounded
  <2>6. ASSUME NEW i \in Instance, Restart(i)
        PROVE  TInv'
    <3>1. TaskOK(Idle)
      BY EnterOK, RunnerConstants
    <3>2. \A t \in Task : task'[t] = Idle \/ task'[t] = task[t]
      BY <2>6 DEF Restart
    <3>3. (task \in [Task -> Call])'
      BY <2>6, <3>1 DEF Restart, TypeOK, TaskOK
    <3>4. RetryBounded'
      BY <3>1, <3>2 DEF RetryBounded, TaskOK
    <3>5. LocksTypeOK'
      BY <2>6, LocksType, RunnerConstants DEF Restart, TypeOK
    <3>6. QED
      BY <3>3, <3>4, <3>5, <2>6, WaitingScan, RunnerConstants
         DEF Restart, TypeOK
  <2>7. CASE Tick
    <3>1. LocksTypeOK'
      BY <2>7, ElapseNat DEF Tick, LocksElapse, TypeOK, LocksTypeOK, Row
    <3>2. QED
      BY <3>1, <2>7, TickTask DEF Tick, TypeOK
  <2>8. CASE UNCHANGED vars
    BY <2>8 DEF vars, TypeOK, RetryBounded, LocksTypeOK
  <2>9. QED
    BY <2>1, <2>2, <2>3, <2>4, <2>5, <2>6, <2>7, <2>8 DEF Next
<1>3. QED
  BY <1>1, <1>2, PTL DEF Spec, TInv

-----------------------------------------------------------------------------
\* Whoever works under a lease after a step of its run_job did before, or has
\* just acquired it.
LEMMA LeaseStep ==
  ASSUME TInv, NEW t \in Task, RunJob(t), Leased(t)'
  PROVE  \/ Acquired(t)
         \/ /\ Leased(t) /\ UNCHANGED locks
            /\ task'[t].lease = task[t].lease /\ task'[t].kind = task[t].kind
<1>0. /\ task[t] \in Call /\ t \in DOMAIN task
      /\ \A c : Becomes(t, c) => task'[t] = c
  BY DEF TInv, TypeOK, Becomes
<1>1. CASE CheckShutdown(t) \/ Begin(t) \/ HeldElsewhere(t) \/ AcquireError(t)
  <2>1. PICK p \in {"record", "begin", "lock"} :
          Becomes(t, [task[t] EXCEPT !.pc = p])
    BY <1>1 DEF CheckShutdown, Begin, HeldElsewhere, AcquireError, SkipLocked
  <2>2. task'[t].pc = p
    BY <2>1, <1>0 DEF Call
  <2>3. QED
    BY <2>2 DEF Leased, Working
<1>2. CASE AcquireDisabled(t)
  <2>1. task'[t].lease = 0
    BY <1>2, <1>0 DEF AcquireDisabled, StartLoop, Call
  <2>2. PICK j \in Instance : Skew[j] \in Nat
    BY InstType, LockConstants
  <2>3. QED
    BY <2>1, <2>2 DEF Leased
<1>3. CASE StartAttempt(t) \/ EnterGrace(t) \/ BodyRetry(t) \/ BackoffOver(t)
           \/ BodyOk(t) \/ BodyFailed(t) \/ GraceOver(t)
           \/ BackoffCancelled(t) \/ Timeout(t)
  <2>1. /\ task[t].pc \in {"attempt", "body", "grace", "backoff"}
        /\ UNCHANGED locks
    BY <1>3 DEF StartAttempt, EnterGrace, BodyRetry, BackoffOver, BodyOk,
                BodyFailed, GraceOver, BackoffCancelled, Timeout
  <2>2. ASSUME NEW n, Finish(t, n)
        PROVE  /\ task'[t].lease = task[t].lease
               /\ task'[t].kind = task[t].kind
    BY <2>2, <1>0 DEF Finish, Call
  <2>3. /\ task'[t].lease = task[t].lease /\ task'[t].kind = task[t].kind
    <3>1. CASE \E n : Finish(t, n)
      BY <3>1, <2>2
    <3>2. CASE StartAttempt(t) /\ ~shutdown[Inst(t)]
      BY <3>2, <1>0 DEF StartAttempt, Call
    <3>3. CASE EnterGrace(t)
      BY <3>3, <1>0 DEF EnterGrace, Call
    <3>4. CASE BodyRetry(t)
      BY <3>4, <1>0 DEF BodyRetry, Call
    <3>5. CASE BackoffOver(t)
      BY <3>5, <1>0 DEF BackoffOver, Call
    <3>6. QED
      BY <1>3, <3>1, <3>2, <3>3, <3>4, <3>5
         DEF StartAttempt, BodyOk, BodyFailed, GraceOver, BackoffCancelled,
             Timeout
  <2>4. QED
    BY <2>1, <2>3 DEF Leased, Working
<1>4. CASE Release(t) \/ Record(t) \/ Persist(t)
  <2>1. task'[t].pc \in {"record", "persist", "idle"}
    <3>1. CASE Release(t)
      BY <3>1, <1>0 DEF Release, Call
    <3>2. CASE Record(t) \/ Persist(t)
      BY <3>2, <1>0 DEF Record, Persist, Idle
    <3>3. QED
      BY <1>4, <3>1, <3>2
  <2>2. QED
    BY <2>1 DEF Leased, Working
<1>5. QED
  BY <1>1, <1>2, <1>3, <1>4 DEF RunJob

\* What a step of run_job may do to the lock table.
LEMMA LocksStep ==
  ASSUME NEW t \in Task, RunJob(t)
  PROVE  \/ TryAcquireLock(Inst(t), task[t].kind)
         \/ ReleaseLock(Inst(t), task[t].kind)
         \/ UNCHANGED locks
BY DEF RunJob, CheckShutdown, Begin, AcquireDisabled, Acquired,
       HeldElsewhere, AcquireError, StartAttempt, EnterGrace, BodyOk,
       BodyFailed, BodyRetry, GraceOver, BackoffOver, BackoffCancelled,
       Timeout, Release, Record, Persist

\* Every step keeps valid leases backed by rows of their instance.
LEMMA LeaseBackedStep ==
  ASSUME TInv, LeaseBacked, [Next]_vars, ManualTask = {}
  PROVE  LeaseBacked'
<1> SUFFICES ASSUME NEW u \in Task, Leased(u)'
             PROVE  /\ locks'[task'[u].kind].owner = u
                    /\ locks'[task'[u].kind].left >= task'[u].lease
  BY DEF LeaseBacked, Inst, Task
<1>0. /\ Task = Instance /\ u \in Instance /\ Inst(u) = u
      /\ task[u] \in Call /\ task[u].kind \in Kind /\ task[u].lease \in Nat
      /\ \A j \in Instance : task'[u].lease > Skew[j] /\ Skew[j] \in Nat
  BY LockConstants DEF Task, Inst, TInv, TypeOK, Call, Leased
<1>1. ASSUME Leased(u), task'[u].kind = task[u].kind,
             task'[u].lease = task[u].lease,
             locks'[task[u].kind] = locks[task[u].kind]
      PROVE  /\ locks'[task'[u].kind].owner = u
             /\ locks'[task'[u].kind].left >= task'[u].lease
  BY <1>0, <1>1 DEF LeaseBacked
<1>2. ASSUME task'[u] = task[u]
      PROVE  Leased(u)
  BY <1>2 DEF Leased, Working
<1>3. ASSUME NEW t \in Task, RunJob(t), t # u
      PROVE  task'[u] = task[u] /\ locks'[task[u].kind] = locks[task[u].kind]
  <2>1. task'[u] = task[u]
    BY <1>3, RunJobTask DEF Becomes, TInv, TypeOK
  <2>2. /\ Inst(t) = t /\ t \in Instance /\ task[t].kind \in Kind
    BY <1>0, <1>3 DEF Inst, TInv, TypeOK, Call
  <2>3. /\ locks[task[u].kind].owner = u
        /\ locks[task[u].kind].left >= task[u].lease
        /\ task[u].lease > Skew[t]
    BY <1>0, <1>2, <2>1, <2>2 DEF LeaseBacked, Leased
  <2>4. locks \in [Kind -> Row]
    BY DEF TInv, TypeOK, LocksTypeOK
  <2>5. CASE TryAcquireLock(t, task[t].kind)
    <3>1. task[t].kind # task[u].kind
      <4>1. SUFFICES ASSUME task[t].kind = task[u].kind PROVE FALSE
        OBVIOUS
      <4>2. locks[task[t].kind].left \in Nat /\ Skew[t] \in Nat
        BY <2>2, <2>4, LockConstants DEF Row
      <4>3. ~Expired(locks[task[t].kind], t)
        BY <4>1, <4>2, <2>3, <1>0 DEF Expired
      <4>4. QED
        BY <4>1, <4>3, <2>5, <2>3, <1>3, <1>0, LockConstants
           DEF TryAcquireLock, CanAcquire
    <3>2. QED
      BY <3>1, <2>1, <2>2, <2>4, <2>5 DEF TryAcquireLock
  <2>6. CASE ReleaseLock(t, task[t].kind)
    BY <2>6, <2>1, <2>2, <2>3, <2>4, <1>3 DEF ReleaseLock
  <2>7. QED
    BY <2>1, <2>2, <2>5, <2>6, <1>3, LocksStep
<1>4. ASSUME RunJob(u)
      PROVE  /\ locks'[task'[u].kind].owner = u
             /\ locks'[task'[u].kind].left >= task'[u].lease
  <2>1. CASE Acquired(u)
    <3>1. /\ task'[u].kind = task[u].kind
          /\ task'[u].lease = LockUntilFromTtl(u)
      BY <2>1, <1>0 DEF Acquired, StartLoop, Becomes, TInv, TypeOK, Call
    <3>2. locks'[task[u].kind] = [owner |-> u, left |-> LockUntilFromTtl(u)]
      BY <2>1, <1>0 DEF Acquired, TryAcquireLock, TInv, TypeOK, LocksTypeOK
    <3>3. QED
      BY <3>1, <3>2, <1>0, UntilNat
  <2>2. CASE ~Acquired(u)
    BY <2>2, <1>1, <1>4, LeaseStep
  <2>3. QED
    BY <2>1, <2>2
<1>5. CASE \E t \in Task : RunJob(t)
  BY <1>5, <1>1, <1>2, <1>3, <1>4
<1>6. ASSUME NEW i \in Instance, Scheduler(i)
      PROVE  UNCHANGED locks /\ task'[u] = task[u]
  <2>1. CASE SchedTick(i) \/ SchedScanEnd(i) \/ SchedStop(i)
    BY <2>1 DEF SchedTick, SchedScanEnd, SchedStop
  <2>2. ASSUME NEW k \in Kind, SchedVisit(i, k)
        PROVE  UNCHANGED locks /\ task'[u] = task[u]
    <3>1. CASE Enter(i, k) /\ u = i
      <4>1. task'[u] = [Idle EXCEPT !.pc = "enter", !.kind = k]
        BY <3>1, <1>0 DEF Enter, Becomes, TInv, TypeOK
      <4>2. task'[u].pc = "enter"
        BY <4>1, IdleType DEF Call
      <4>3. QED
        BY <4>2 DEF Leased, Working
    <3>2. CASE ~(Enter(i, k) /\ u = i)
      BY <3>2, <2>2, <1>0 DEF SchedVisit, Enter, Becomes, TInv, TypeOK
    <3>3. QED
      BY <3>1, <3>2
  <2>3. QED
    BY <2>1, <2>2, <1>6 DEF Scheduler
<1>7. ASSUME NEW i \in Instance, Restart(i)
      PROVE  task'[u] = task[u] /\ locks'[task[u].kind] = locks[task[u].kind]
  <2>1. task'[u] = IF u = i THEN Idle ELSE task[u]
    BY <1>7, <1>0 DEF Restart
  <2>2. u # i
    BY <2>1 DEF Leased, Working, Idle
  <2>3. locks[task[u].kind].owner = u
    BY <2>1, <2>2, <1>0, <1>2 DEF LeaseBacked
  <2>4. QED
    BY <2>1, <2>2, <2>3, <1>0, <1>7 DEF Restart, OwnerExit
<1>8. CASE Tick
  <2> DEFINE k == task[u].kind
  <2>1. /\ task'[u].kind = k /\ task'[u].lease = Elapse(task[u].lease)
        /\ task'[u].pc = task[u].pc
    <3>1. PICK l, w, n :
            task'[u] = [task[u] EXCEPT !.left = l, !.wait = w,
                          !.lease = Elapse(task[u].lease), !.since = n]
      BY <1>8, <1>0 DEF Tick
    <3>2. QED
      BY <3>1, <1>0 DEF Call
  <2>2. locks[k].left \in Nat /\ locks \in [Kind -> Row]
    BY <1>0 DEF TInv, TypeOK, LocksTypeOK, Row
  <2>3. /\ locks'[k].owner = locks[k].owner
        /\ locks'[k].left = Elapse(locks[k].left)
    BY <1>8, <1>0, <2>2 DEF Tick, LocksElapse, Row
  <2>4. Leased(u)
    BY <2>1, <1>0, ElapseOrder DEF Leased, Working
  <2>5. locks[k].owner = u /\ task[u].lease <= locks[k].left
    BY <2>2, <2>4, <1>0 DEF LeaseBacked
  <2>6. Elapse(task[u].lease) <= Elapse(locks[k].left)
    BY <2>2, <2>5, <1>0, ElapseOrder
  <2>7. Elapse(task[u].lease) \in Nat /\ Elapse(locks[k].left) \in Nat
    BY <2>2, <1>0, ElapseNat
  <2>8. QED
    BY <2>1, <2>3, <2>5, <2>6, <2>7
<1>9. CASE \/ \E i \in Instance : Scheduler(i) \/ ShutdownSignal(i)
           \/ UNCHANGED vars
  BY <1>9, <1>1, <1>2, <1>6 DEF ShutdownSignal, vars
<1>10. CASE \E i \in Instance : Restart(i)
  BY <1>10, <1>1, <1>2, <1>7
<1>11. QED
  BY <1>5, <1>8, <1>9, <1>10 DEF Next

\* If only the schedulers call run_job, a run that works under a lease that
\* is valid on every clock is backed by a lock row of its own instance, and
\* so no two instances work on one kind under valid leases: for any number of
\* instances and kinds, any TTL, skew, interval and retry policy.
THEOREM LeasedRuns ==
  ASSUME ManualTask = {}
  PROVE  Spec => [](LeaseBacked /\ LeasedRunsExclusive)
<1>1. Init => LeaseBacked
  BY DEF Init, LeaseBacked, Leased, Working, Idle
<1>2. TInv /\ LeaseBacked /\ [Next]_vars => LeaseBacked'
  BY LeaseBackedStep
<1>3. LeaseBacked => LeasedRunsExclusive
  BY DEF LeaseBacked, LeasedRunsExclusive
<1>4. Spec => []TInv
  BY RunnerTypeCorrect DEF TInv
<1>5. QED
  BY <1>1, <1>2, <1>3, <1>4, PTL DEF Spec

-----------------------------------------------------------------------------
(* The steps of run_job, by where the call is before and after.            *)

\* From try_begin on, and until record_run, a call holds the running flag.
Busy == {"lock", "attempt", "body", "grace", "backoff", "release"}

\* A call that ends its loop keeps its kind and its lease.
LEMMA FinishStep ==
  ASSUME TInv, NEW t \in Task, NEW n, Finish(t, n)
  PROVE  /\ task'[t].pc = "release" /\ task'[t].kind = task[t].kind
         /\ task'[t].lease = task[t].lease
BY DEF TInv, TypeOK, Finish, Becomes, Call

\* Where a call of run_job goes next, what it does to the flags and to what
\* it knows of its lease.
LEMMA RunJobMoves ==
  ASSUME TInv, NEW t \in Task, RunJob(t)
  PROVE  /\ \A u \in Task : u # t => task'[u] = task[u]
         /\ \/ /\ task[t].pc = "enter" /\ task'[t].pc \in {"begin", "record"}
               /\ task'[t].kind = task[t].kind
               /\ UNCHANGED <<locks, running>>
            \/ /\ task[t].pc = "begin" /\ task[t].kind \in running[Inst(t)]
               /\ task'[t].pc = "record" /\ task'[t].kind = task[t].kind
               /\ UNCHANGED <<locks, running>>
            \/ /\ task[t].pc = "begin"
               /\ running' = [running EXCEPT ![Inst(t)] =
                                 @ \cup {task[t].kind}]
               /\ task'[t].pc = "lock" /\ task'[t].kind = task[t].kind
               /\ UNCHANGED locks
            \/ /\ task[t].pc = "lock" /\ task'[t].pc = "record"
               /\ task'[t].kind = task[t].kind
               /\ \/ TryAcquireLock(Inst(t), task[t].kind)
                  \/ UNCHANGED locks
               /\ UNCHANGED running
            \/ /\ task[t].pc = "lock" /\ task'[t].pc = "attempt"
               /\ task'[t].kind = task[t].kind
               /\ \/ /\ TryAcquireLock(Inst(t), task[t].kind)
                     /\ task'[t].lease = LockUntilFromTtl(Inst(t))
                  \/ /\ UNCHANGED locks
                     /\ task'[t].lease = 0
               /\ UNCHANGED running
            \/ /\ Working(t) /\ Working(t)'
               /\ task'[t].kind = task[t].kind
               /\ task'[t].lease = task[t].lease
               /\ UNCHANGED <<locks, running>>
            \/ /\ task[t].pc = "release" /\ task'[t].pc = "record"
               /\ task'[t].kind = task[t].kind
               /\ \/ ReleaseLock(Inst(t), task[t].kind)
                  \/ UNCHANGED locks
               /\ UNCHANGED running
            \/ /\ task[t].pc = "record" /\ task'[t].pc = "persist"
               /\ running' = [running EXCEPT ![Inst(t)] = @ \ {task[t].kind}]
               /\ UNCHANGED locks
            \/ /\ task[t].pc = "persist" /\ task'[t].pc = "idle"
               /\ UNCHANGED <<locks, running>>
<1>0. /\ task[t] \in Call /\ t \in DOMAIN task
      /\ \A c : Becomes(t, c) => task'[t] = c
  BY DEF TInv, TypeOK, Becomes
<1>1. \A u \in Task : u # t => task'[u] = task[u]
  BY RunJobTask DEF Becomes, TInv, TypeOK
<1>2. \A p : Becomes(t, [task[t] EXCEPT !.pc = p])
               => task'[t].pc = p /\ task'[t].kind = task[t].kind
  BY <1>0 DEF Call
<1>3. CASE CheckShutdown(t)
  <2>1. PICK p \in {"record", "begin"} :
          Becomes(t, [task[t] EXCEPT !.pc = p])
    BY <1>3 DEF CheckShutdown
  <2>2. QED
    BY <2>1, <1>1, <1>2, <1>3 DEF CheckShutdown
<1>4. CASE Begin(t)
  BY <1>1, <1>2, <1>4 DEF Begin
<1>5. CASE HeldElsewhere(t) \/ AcquireError(t)
  BY <1>1, <1>2, <1>5 DEF HeldElsewhere, AcquireError, SkipLocked
<1>6. CASE AcquireDisabled(t) \/ Acquired(t)
  <2>1. ASSUME NEW n, StartLoop(t, n)
        PROVE  /\ task'[t].pc = "attempt" /\ task'[t].kind = task[t].kind
               /\ task'[t].lease = n
    BY <2>1, <1>0 DEF StartLoop, Call
  <2>2. QED
    BY <2>1, <1>1, <1>6 DEF AcquireDisabled, Acquired
<1>7. CASE StartAttempt(t) \/ EnterGrace(t) \/ BodyRetry(t) \/ BackoffOver(t)
           \/ BodyOk(t) \/ BodyFailed(t) \/ GraceOver(t)
           \/ BackoffCancelled(t) \/ Timeout(t)
  <2>1. /\ task[t].pc \in {"attempt", "body", "grace", "backoff"}
        /\ UNCHANGED <<locks, running>>
    BY <1>7 DEF StartAttempt, EnterGrace, BodyRetry, BackoffOver, BodyOk,
                BodyFailed, GraceOver, BackoffCancelled, Timeout
  <2>2. /\ task'[t].lease = task[t].lease /\ task'[t].kind = task[t].kind
        /\ task'[t].pc \in {"attempt", "body", "grace", "backoff", "release"}
    <3>1. CASE \E n : Finish(t, n)
      BY <3>1, FinishStep
    <3>2. CASE StartAttempt(t) /\ ~shutdown[Inst(t)]
      BY <3>2, <1>0 DEF StartAttempt, Call
    <3>3. CASE EnterGrace(t)
      BY <3>3, <1>0 DEF EnterGrace, Call
    <3>4. CASE BodyRetry(t)
      BY <3>4, <1>0 DEF BodyRetry, Call
    <3>5. CASE BackoffOver(t)
      BY <3>5, <1>0 DEF BackoffOver, Call
    <3>6. QED
      BY <1>7, <3>1, <3>2, <3>3, <3>4, <3>5
         DEF StartAttempt, BodyOk, BodyFailed, GraceOver, BackoffCancelled,
             Timeout
  <2>3. QED
    BY <1>1, <2>1, <2>2 DEF Working
<1>8. CASE Release(t)
  <2>1. task'[t].pc = "record" /\ task'[t].kind = task[t].kind
    BY <1>8, <1>0 DEF Release, Call
  <2>2. QED
    BY <2>1, <1>1, <1>8 DEF Release
<1>9. CASE Record(t)
  <2>1. task'[t].pc = "persist"
    BY <1>9, <1>0, IdleType DEF Record, Call
  <2>2. QED
    BY <2>1, <1>1, <1>9 DEF Record, RecordRun
<1>10. CASE Persist(t)
  BY <1>10, <1>0, <1>1 DEF Persist, Idle
<1>11. QED
  BY <1>3, <1>4, <1>5, <1>6, <1>7, <1>8, <1>9, <1>10 DEF RunJob

\* What the steps outside run_job do to a scheduler's call.
LEMMA OtherMoves ==
  ASSUME TInv, ManualTask = {}, [Next]_vars,
         ~(\E t \in Task : RunJob(t)), ~Tick,
         ~(\E i \in Instance : Restart(i))
  PROVE  /\ UNCHANGED <<locks, running>>
         /\ \A u \in Instance :
              \/ task'[u] = task[u]
              \/ task[u].pc = "idle" /\ task'[u].pc = "enter"
<1>0. Task = Instance /\ task \in [Instance -> Call]
  BY DEF Task, TInv, TypeOK
<1>1. ASSUME NEW i \in Instance, Scheduler(i)
      PROVE  /\ UNCHANGED <<locks, running>>
             /\ \A u \in Instance :
                  \/ task'[u] = task[u]
                  \/ task[u].pc = "idle" /\ task'[u].pc = "enter"
  <2>1. CASE SchedTick(i) \/ SchedScanEnd(i) \/ SchedStop(i)
    BY <2>1 DEF SchedTick, SchedScanEnd, SchedStop
  <2>2. ASSUME NEW k \in Kind, SchedVisit(i, k)
        PROVE  /\ UNCHANGED <<locks, running>>
               /\ \A u \in Instance :
                    \/ task'[u] = task[u]
                    \/ task[u].pc = "idle" /\ task'[u].pc = "enter"
    <3> DEFINE c == [Idle EXCEPT !.pc = "enter", !.kind = k]
    <3>1. c.pc = "enter"
      BY IdleType DEF Call
    <3>2. task' = [task EXCEPT ![i] = c] \/ UNCHANGED task
      BY <2>2 DEF SchedVisit, Enter, Becomes
    <3> HIDE DEF c
    <3>3. QED
      BY <3>1, <3>2, <2>2, <1>0 DEF SchedVisit
  <2>3. QED
    BY <2>1, <2>2, <1>1 DEF Scheduler
<1>2. CASE UNCHANGED vars
  BY <1>2 DEF vars
<1>3. CASE \E i \in Instance : ShutdownSignal(i)
  BY <1>3 DEF ShutdownSignal
<1>4. QED
  BY <1>1, <1>2, <1>3 DEF Next

\* Time passing does not move a call; it only shortens its lease.
LEMMA TickMoves ==
  ASSUME TInv, Tick, NEW t \in Task
  PROVE  /\ task'[t].pc = task[t].pc /\ task'[t].kind = task[t].kind
         /\ task'[t].lease = Elapse(task[t].lease)
<1>1. PICK l, w, n :
        task'[t] = [task[t] EXCEPT !.left = l, !.wait = w,
                      !.lease = Elapse(task[t].lease), !.since = n]
  BY DEF Tick
<1>2. QED
  BY <1>1 DEF TInv, TypeOK, Call

\* FlagsTruthful, instance by instance.
FlagsOf(call, flags) ==
  /\ call.pc \in Busy => call.kind \in flags
  /\ \A k \in flags : call.kind = k /\ call.pc \in Busy \cup {"record"}

\* FlagsTruthful is FlagsOf of every instance.
LEMMA FlagsByInstance ==
  ASSUME TInv, ManualTask = {}
  PROVE  FlagsTruthful <=> \A i \in Instance : FlagsOf(task[i], running[i])
BY DEF TInv, TypeOK, FlagsTruthful, FlagsOf, Busy, Call, Task

\* If only the schedulers call run_job, the running flags tell the truth for
\* any number of instances and kinds, any retry policy, lock setting, shutdown
\* and restart: a call that works on a kind has flagged it, and a flagged kind
\* has a call that will clear the flag.
THEOREM FlagsTrue ==
  ASSUME ManualTask = {}
  PROVE  Spec => []FlagsTruthful
<1>1. Init => FlagsTruthful
  BY DEF Init, FlagsTruthful, Idle, Task
<1>2. TInv /\ TInv' /\ FlagsTruthful /\ [Next]_vars => FlagsTruthful'
  <2> SUFFICES ASSUME TInv, TInv', FlagsTruthful, [Next]_vars
               PROVE  \A i \in Instance : FlagsOf(task'[i], running'[i])
    BY DEF TInv, TypeOK, FlagsTruthful, FlagsOf, Busy, Call, Task
  <2> TAKE i \in Instance
  <2>0. /\ Task = Instance /\ i \in Task /\ FlagsOf(task[i], running[i])
        /\ \A t \in Task : Inst(t) = t
        /\ running \in [Instance -> SUBSET Kind] /\ task \in [Instance -> Call]
    BY FlagsByInstance DEF Task, Inst, TInv, TypeOK
  <2>1. ASSUME NEW t \in Task, RunJob(t), t # i
        PROVE  FlagsOf(task'[i], running'[i])
    <3>1. task'[i] = task[i] /\ running'[i] = running[i]
      BY <2>0, <2>1, RunJobMoves
    <3>2. QED
      BY <3>1, <2>0
  <2>2. CASE RunJob(i)
    BY <2>0, <2>2, RunJobMoves DEF FlagsOf, Busy, Working
  <2>3. CASE Tick
    <3>1. running'[i] = running[i]
      BY <2>3 DEF Tick
    <3>2. QED
      BY <3>1, <2>0, <2>3, TickMoves DEF FlagsOf
  <2>4. ASSUME NEW j \in Instance, Restart(j)
        PROVE  FlagsOf(task'[i], running'[i])
    <3>1. /\ task'[i] = IF i = j THEN Idle ELSE task[i]
          /\ running'[i] = IF i = j THEN {} ELSE running[i]
      BY <2>0, <2>4 DEF Restart
    <3>2. QED
      BY <3>1, <2>0 DEF FlagsOf, Idle, Busy
  <2>5. CASE /\ ~(\E t \in Task : RunJob(t)) /\ ~Tick
             /\ ~(\E j \in Instance : Restart(j))
    BY <2>0, <2>5, OtherMoves DEF FlagsOf, Busy
  <2>6. QED
    BY <2>1, <2>2, <2>3, <2>4, <2>5
<1>3. Spec => []TInv
  BY RunnerTypeCorrect DEF TInv
<1>4. QED
  BY <1>1, <1>2, <1>3, PTL DEF Spec

-----------------------------------------------------------------------------
(* The refinement of the port's discipline.                                *)

\* What the call of instance i makes of its lease of kind k.
ViewOf(call, k) ==
  IF /\ call.pc \in {"attempt", "body", "grace", "backoff", "release"}
     /\ call.kind = k
  THEN call.lease ELSE 0

\* RunnerView, now and after a step, is the view of the scheduler calls.
LEMMA ViewIs ==
  /\ RunnerView = [i \in Instance |-> [k \in Kind |-> ViewOf(task[i], k)]]
  /\ RunnerView' = [i \in Instance |-> [k \in Kind |-> ViewOf(task'[i], k)]]
BY DEF RunnerView, ViewOf, Working

\* An idle call knows of no lease.
LEMMA IdleView == \A k : ViewOf(Idle, k) = 0
<1>1. Idle.pc = "idle"
  BY DEF Idle
<1>2. QED
  BY <1>1 DEF ViewOf

\* A step that changes what one instance knows of one kind updates the view
\* at that place.
LEMMA ViewUpdate ==
  ASSUME NEW i \in Instance, NEW k \in Kind, NEW n,
         \A j \in Instance : j # i => \A l \in Kind :
           ViewOf(task'[j], l) = ViewOf(task[j], l),
         \A l \in Kind :
           ViewOf(task'[i], l) = IF l = k THEN n ELSE ViewOf(task[i], l)
  PROVE  RunnerView' = [RunnerView EXCEPT ![i][k] = n]
<1> DEFINE V(j) == [l \in Kind |-> ViewOf(task[j], l)]
           W(j) == [l \in Kind |-> ViewOf(task'[j], l)]
<1>1. RunnerView = [j \in Instance |-> V(j)]
  BY ViewIs
<1>2. RunnerView' = [j \in Instance |-> W(j)]
  BY ViewIs
<1>3. W(i) = [V(i) EXCEPT ![k] = n]
  OBVIOUS
<1>4. \A j \in Instance : j # i => W(j) = V(j)
  OBVIOUS
<1> HIDE DEF V, W
<1>5. RunnerView[i] = V(i)
  BY <1>1
<1>6. QED
  BY <1>1, <1>2, <1>3, <1>4

\* A step that changes nothing that an instance knows leaves the view alone.
LEMMA ViewSame ==
  ASSUME \A j \in Instance, l \in Kind :
           ViewOf(task'[j], l) = ViewOf(task[j], l)
  PROVE  RunnerView' = RunnerView
<1>1. RunnerView' = [i \in Instance |-> [k \in Kind |-> ViewOf(task'[i], k)]]
  BY ViewIs
<1>2. QED
  BY <1>1, ViewIs

\* A step of a scheduler's run_job is a step of the port, or none.
LEMMA RunJobRefines ==
  ASSUME TInv, ManualTask = {}, NEW i \in Instance, RunJob(i)
  PROVE  \/ JL!PortNext
         \/ UNCHANGED <<locks, RunnerView>>
<1> DEFINE k == task[i].kind
<1>0. /\ Task = Instance /\ i \in Task /\ Inst(i) = i /\ k \in Kind
      /\ \A j \in Instance : j # i => task'[j] = task[j]
  BY RunJobMoves DEF Task, Inst, TInv, TypeOK, Call
<1>1. ASSUME NEW n,
             \A l \in Kind :
               ViewOf(task'[i], l) = IF l = k THEN n ELSE ViewOf(task[i], l)
      PROVE  RunnerView' = [RunnerView EXCEPT ![i][k] = n]
  BY <1>0, <1>1, ViewUpdate
<1>2. ASSUME \A l \in Kind : ViewOf(task'[i], l) = ViewOf(task[i], l)
      PROVE  RunnerView' = RunnerView
  BY <1>0, <1>2, ViewSame
<1>3. CASE UNCHANGED locks
  <2>1. CASE task[i].pc = "release" /\ task'[i].pc = "record"
    <3>1. RunnerView' = [RunnerView EXCEPT ![i][k] = 0]
      BY <1>1, <2>1 DEF ViewOf
    <3>2. JL!GiveUp(i, k)
      BY <3>1, <1>3 DEF JL!GiveUp
    <3>3. QED
      BY <3>2, <1>0 DEF JL!PortNext
  <2>2. CASE ~(task[i].pc = "release" /\ task'[i].pc = "record")
    <3>1. CASE task[i].pc = "lock"
      <4>1. CASE task'[i].pc = "record"
        BY <4>1, <3>1, <1>2, <1>3 DEF ViewOf
      <4>2. CASE task'[i].pc = "attempt" /\ task'[i].lease = 0
        BY <4>2, <3>1, <1>2, <1>3 DEF ViewOf
      <4>3. CASE /\ task'[i].pc = "attempt" /\ TryAcquireLock(i, k)
                 /\ task'[i].kind = k
                 /\ task'[i].lease = LockUntilFromTtl(i)
        <5>1. RunnerView' = [RunnerView EXCEPT ![i][k] = LockUntilFromTtl(i)]
          BY <4>3, <3>1, <1>1 DEF ViewOf
        <5>2. JL!Acquire(i, k)
          BY <5>1, <4>3 DEF JL!Acquire, TryAcquireLock, JL!TryAcquireLock,
             CanAcquire, JL!CanAcquire, Expired, JL!Expired,
             LockUntilFromTtl, JL!LockUntilFromTtl
        <5>3. QED
          BY <5>2, <1>0 DEF JL!PortNext
      <4>4. QED
        BY <4>1, <4>2, <4>3, <3>1, <1>0, RunJobMoves DEF Working
    <3>2. CASE task[i].pc # "lock"
      <4>1. \A l \in Kind : ViewOf(task'[i], l) = ViewOf(task[i], l)
        BY <3>2, <2>2, <1>0, RunJobMoves DEF ViewOf, Working
      <4>2. QED
        BY <4>1, <1>2, <1>3
    <3>3. QED
      BY <3>1, <3>2
  <2>3. QED
    BY <2>1, <2>2
<1>4. CASE ~UNCHANGED locks
  <2>1. \/ /\ task[i].pc = "lock" /\ TryAcquireLock(i, k)
           /\ \/ task'[i].pc = "record"
              \/ /\ task'[i].pc = "attempt" /\ task'[i].kind = k
                 /\ task'[i].lease = LockUntilFromTtl(i)
        \/ /\ task[i].pc = "release" /\ ReleaseLock(i, k)
           /\ task'[i].pc = "record"
    BY <1>0, <1>4, RunJobMoves
  <2>2. CASE task[i].pc = "release"
    <3>1. RunnerView' = [RunnerView EXCEPT ![i][k] = 0]
      BY <1>1, <2>1, <2>2 DEF ViewOf
    <3>2. JL!PortRelease(i, k)
      BY <3>1, <2>1, <2>2 DEF JL!PortRelease, ReleaseLock, JL!ReleaseLock,
                              NoRow, JL!NoRow
    <3>3. QED
      BY <3>2, <1>0 DEF JL!PortNext
  <2>3. CASE task[i].pc = "lock" /\ task'[i].pc = "record"
    <3>1. RunnerView' = [RunnerView EXCEPT ![i][k] = 0]
      BY <1>1, <2>3 DEF ViewOf
    <3>2. JL!AcquireReplyLost(i, k)
      BY <3>1, <2>1, <2>3 DEF JL!AcquireReplyLost, TryAcquireLock,
         JL!TryAcquireLock, CanAcquire, JL!CanAcquire, Expired, JL!Expired,
         LockUntilFromTtl, JL!LockUntilFromTtl
    <3>3. QED
      BY <3>2, <1>0 DEF JL!PortNext
  <2>4. CASE task[i].pc = "lock" /\ task'[i].pc = "attempt"
    <3>1. RunnerView' = [RunnerView EXCEPT ![i][k] = LockUntilFromTtl(i)]
      BY <1>1, <2>1, <2>4 DEF ViewOf
    <3>2. JL!Acquire(i, k)
      BY <3>1, <2>1, <2>4 DEF JL!Acquire, TryAcquireLock,
         JL!TryAcquireLock, CanAcquire, JL!CanAcquire, Expired, JL!Expired,
         LockUntilFromTtl, JL!LockUntilFromTtl
    <3>3. QED
      BY <3>2, <1>0 DEF JL!PortNext
  <2>5. QED
    BY <2>1, <2>2, <2>3, <2>4
<1>5. QED
  BY <1>3, <1>4

\* A restart of the process is an exit of the owner.
LEMMA RestartRefines ==
  ASSUME TInv, ManualTask = {}, NEW i \in Instance, Restart(i)
  PROVE  JL!PortNext
<1> DEFINE V(j) == [l \in Kind |-> ViewOf(task[j], l)]
           W(j) == [l \in Kind |-> ViewOf(task'[j], l)]
           Z == [l \in Kind |-> 0]
<1>0. Task = Instance /\ \A j \in Instance : Inst(j) = j
  BY DEF Task, Inst
<1>1. \A j \in Instance : task'[j] = IF j = i THEN Idle ELSE task[j]
  BY <1>0 DEF Restart
<1>2. RunnerView = [j \in Instance |-> V(j)]
  BY ViewIs
<1>3. RunnerView' = [j \in Instance |-> W(j)]
  BY ViewIs
<1>4. W(i) = Z
  BY <1>1, IdleView
<1>5. \A j \in Instance : j # i => W(j) = V(j)
  BY <1>1
<1>6. RunnerView' = [RunnerView EXCEPT ![i] = Z]
  <2> HIDE DEF V, W, Z
  <2> QED BY <1>2, <1>3, <1>4, <1>5
<1>7. JL!Exit(i)
  BY <1>6 DEF JL!Exit, Restart, OwnerExit, JL!OwnerExit
<1>8. QED
  BY <1>7 DEF JL!PortNext

\* Time passes for the port's users as it does for the runner.
LEMMA TickRefines ==
  ASSUME TInv, ManualTask = {}, Tick
  PROVE  JL!PortNext
<1>0. Task = Instance /\ Elapse(0) = 0
  BY DEF Task, Elapse
<1>1. ASSUME NEW i \in Instance, NEW l \in Kind
      PROVE  ViewOf(task'[i], l) = Elapse(RunnerView[i][l])
  <2>1. RunnerView[i][l] = ViewOf(task[i], l)
    BY ViewIs
  <2>2. QED
    BY <2>1, <1>0, TickMoves DEF ViewOf
<1>2. RunnerView' = [i \in Instance |-> [l \in Kind |-> ViewOf(task'[i], l)]]
  BY ViewIs
<1>3. RunnerView' =
        [i \in Instance |-> [l \in Kind |-> Elapse(RunnerView[i][l])]]
  BY <1>1, <1>2
<1>4. JL!PortTick
  BY <1>3 DEF JL!PortTick, Tick, LocksElapse, JL!LocksElapse, Elapse, JL!Elapse
<1>5. QED
  BY <1>4 DEF JL!PortNext

\* If only the schedulers call run_job, the runner implements the port's
\* discipline: every step of the runner is a step of JobLock, seen through
\* what the calls know of their leases, or changes nothing there.  What is
\* proved of the port below therefore holds of the runner.
THEOREM RunnerRefinesLock ==
  ASSUME ManualTask = {}
  PROVE  Spec => LockDiscipline
<1>1. Init => JL!PortInit
  <2> SUFFICES ASSUME Init PROVE JL!PortInit
    OBVIOUS
  <2>1. \A i \in Instance : task[i] = Idle
    BY DEF Init, Task
  <2>2. \A i \in Instance, k \in Kind : ViewOf(task[i], k) = 0
    BY <2>1, IdleView
  <2>3. RunnerView = [i \in Instance |-> [k \in Kind |-> 0]]
    BY <2>2, ViewIs
  <2>4. QED
    BY <2>3 DEF Init, JL!PortInit, LocksInit, JL!LocksInit, NoRow, JL!NoRow
<1>2. TInv /\ [Next]_vars => [JL!PortNext]_(JL!lockVars)
  <2> SUFFICES ASSUME TInv, [Next]_vars
               PROVE  JL!PortNext \/ UNCHANGED <<locks, RunnerView>>
    BY DEF JL!lockVars
  <2>0. Task = Instance
    BY DEF Task
  <2>1. CASE \E t \in Task : RunJob(t)
    BY <2>0, <2>1, RunJobRefines
  <2>2. CASE Tick
    BY <2>2, TickRefines
  <2>3. CASE \E i \in Instance : Restart(i)
    BY <2>3, RestartRefines
  <2>4. CASE /\ ~(\E t \in Task : RunJob(t)) /\ ~Tick
             /\ ~(\E i \in Instance : Restart(i))
    <3>1. /\ UNCHANGED locks
          /\ \A u \in Instance :
               \/ task'[u] = task[u]
               \/ task[u].pc = "idle" /\ task'[u].pc = "enter"
      BY <2>4, OtherMoves
    <3>2. \A j \in Instance, l \in Kind :
            ViewOf(task'[j], l) = ViewOf(task[j], l)
      BY <3>1 DEF ViewOf
    <3>3. QED
      BY <3>1, <3>2, ViewSame
  <2>5. QED
    BY <2>1, <2>2, <2>3, <2>4
<1>3. Spec => []TInv
  BY RunnerTypeCorrect DEF TInv
<1>4. QED
  BY <1>1, <1>2, <1>3, PTL DEF Spec, LockDiscipline, JL!PortSpec

-----------------------------------------------------------------------------
(***************************************************************************)
(* The port on its own: LeaseExclusive for any set of instances and kinds, *)
(* any TTL and any clock skew.  The inductive invariant is PortTypeOK and  *)
(* ValidLeaseBacked: a lease that is valid on every clock is backed by the *)
(* owner's own row, and a kind has one row.                                *)
(***************************************************************************)

\* The store's table and the instances' views stay well formed.
THEOREM PortTypeCorrect == PortSpec => []PortTypeOK
<1> USE DEF PortTypeOK, LocksTypeOK, Row, NoRow, Owner
<1>1. PortInit => PortTypeOK
  BY LockConstants DEF PortInit, LocksInit
<1>2. PortTypeOK /\ [PortNext]_lockVars => PortTypeOK'
  <2> SUFFICES ASSUME PortTypeOK, [PortNext]_lockVars
               PROVE  PortTypeOK'
    OBVIOUS
  <2>1. ASSUME NEW i \in Instance, NEW k \in Kind,
               Acquire(i, k) \/ AcquireReplyLost(i, k)
        PROVE  PortTypeOK'
    <3>1. LockUntilFromTtl(i) \in Nat
      BY UntilNat
    <3>2. LocksTypeOK'
      <4>1. locks' = [locks EXCEPT
                        ![k] = [owner |-> i, left |-> LockUntilFromTtl(i)]]
        BY <2>1 DEF Acquire, AcquireReplyLost, TryAcquireLock
      <4>2. QED
        BY <4>1, <3>1
    <3>3. (view \in [Instance -> [Kind -> Nat]])'
      <4>1. PICK n \in Nat : view' = [view EXCEPT ![i][k] = n]
        BY <2>1, <3>1 DEF Acquire, AcquireReplyLost
      <4>2. QED
        BY <4>1
    <3>4. QED
      BY <3>2, <3>3
  <2>2. ASSUME NEW i \in Instance, NEW k \in Kind, Renew(i, k)
        PROVE  PortTypeOK'
    BY <2>2, UntilNat DEF Renew, RenewLock
  <2>3. ASSUME NEW i \in Instance, NEW k \in Kind,
               PortRelease(i, k) \/ GiveUp(i, k)
        PROVE  PortTypeOK'
    BY <2>3 DEF PortRelease, ReleaseLock, GiveUp
  <2>4. ASSUME NEW i \in Instance, Exit(i)
        PROVE  PortTypeOK'
    BY <2>4, LockConstants DEF Exit, OwnerExit
  <2>5. CASE PortTick
    BY <2>5, ElapseNat DEF PortTick, LocksElapse
  <2>6. CASE UNCHANGED lockVars
    BY <2>6 DEF lockVars
  <2>7. QED
    BY <2>1, <2>2, <2>3, <2>4, <2>5, <2>6 DEF PortNext
<1>3. QED
  BY <1>1, <1>2, PTL DEF PortSpec

\* The invariant of the store: a lease that is valid on every clock in the
\* system is backed by a row of its owner.
THEOREM ValidLeases == PortSpec => []ValidLeaseBacked
<1> USE DEF PortTypeOK, LocksTypeOK, Row, NoRow, Owner
<1>1. PortInit => ValidLeaseBacked
  BY LockConstants DEF PortInit, ValidLeaseBacked, ValidLease
<1>2. PortTypeOK /\ ValidLeaseBacked /\ [PortNext]_lockVars => ValidLeaseBacked'
  <2> SUFFICES ASSUME PortTypeOK, ValidLeaseBacked, [PortNext]_lockVars,
                      NEW a \in Instance, NEW c \in Kind, ValidLease(a, c)'
               PROVE  (locks[c].owner = a /\ locks[c].left >= view[a][c])'
    BY DEF ValidLeaseBacked
  <2>0. \A j \in Instance : view'[a][c] > Skew[j]
    BY DEF ValidLease
  <2>1. ASSUME NEW i \in Instance, NEW k \in Kind, TryAcquireLock(i, k),
               view' = [view EXCEPT ![i][k] = LockUntilFromTtl(i)]
                 \/ view' = [view EXCEPT ![i][k] = 0]
        PROVE  (locks[c].owner = a /\ locks[c].left >= view[a][c])'
    <3>1. CASE c = k /\ a = i
      BY <3>1, <2>1, UntilNat DEF TryAcquireLock
    <3>2. CASE c = k /\ a # i
      <4>1. view'[a][c] = view[a][c]
        BY <3>2, <2>1
      <4>2. ValidLease(a, c)
        BY <4>1, <2>0 DEF ValidLease
      <4>3. locks[k].owner = a /\ locks[k].left > Skew[i]
        BY <4>1, <4>2, <3>2, <2>0, LockConstants DEF ValidLeaseBacked
      <4>4. ~CanAcquire(i, k)
        BY <4>3, <3>2, LockConstants DEF CanAcquire, Expired
      <4>5. QED
        BY <4>4, <2>1 DEF TryAcquireLock
    <3>3. CASE c # k
      <4>1. view'[a][c] = view[a][c] /\ locks'[c] = locks[c]
        BY <3>3, <2>1 DEF TryAcquireLock
      <4>2. QED
        BY <4>1, <2>0 DEF ValidLeaseBacked, ValidLease
    <3>4. QED
      BY <3>1, <3>2, <3>3
  <2>2. ASSUME NEW i \in Instance, NEW k \in Kind, Renew(i, k)
        PROVE  (locks[c].owner = a /\ locks[c].left >= view[a][c])'
    <3>1. CASE c = k /\ a = i
      BY <3>1, <2>2, UntilNat DEF Renew, RenewLock
    <3>2. CASE ~(c = k /\ a = i)
      <4>1. view'[a][c] = view[a][c]
        BY <3>2, <2>2 DEF Renew
      <4>2. locks[c].owner = a /\ locks[c].left >= view[a][c]
        BY <4>1, <2>0 DEF ValidLeaseBacked, ValidLease
      <4>3. c # k
        BY <4>2, <3>2, <2>2 DEF Renew, RenewLock
      <4>4. QED
        BY <4>1, <4>2, <4>3, <2>2 DEF Renew, RenewLock
    <3>3. QED
      BY <3>1, <3>2
  <2>3. ASSUME NEW i \in Instance, NEW k \in Kind,
               PortRelease(i, k) \/ GiveUp(i, k)
        PROVE  (locks[c].owner = a /\ locks[c].left >= view[a][c])'
    <3>1. ~(a = i /\ c = k)
      BY <2>0, <2>3, LockConstants DEF PortRelease, GiveUp
    <3>2. view'[a][c] = view[a][c]
      BY <3>1, <2>3 DEF PortRelease, GiveUp
    <3>3. locks[c].owner = a /\ locks[c].left >= view[a][c]
      BY <3>2, <2>0 DEF ValidLeaseBacked, ValidLease
    <3>4. locks'[c] = locks[c]
      BY <3>1, <3>3, <2>3 DEF PortRelease, GiveUp, ReleaseLock
    <3>5. QED
      BY <3>2, <3>3, <3>4
  <2>4. ASSUME NEW i \in Instance, Exit(i)
        PROVE  (locks[c].owner = a /\ locks[c].left >= view[a][c])'
    <3>1. a # i
      <4>1. view'[i][c] = 0
        BY <2>4 DEF Exit
      <4>2. view'[a][c] > Skew[a] /\ Skew[a] \in Nat
        BY <2>0, LockConstants
      <4>3. QED
        BY <4>1, <4>2
    <3>2. view'[a][c] = view[a][c]
      BY <3>1, <2>4 DEF Exit
    <3>3. locks[c].owner = a /\ locks[c].left >= view[a][c]
      BY <3>2, <2>0 DEF ValidLeaseBacked, ValidLease
    <3>4. locks'[c] = locks[c]
      BY <3>1, <3>3, <2>4 DEF Exit, OwnerExit
    <3>5. QED
      BY <3>2, <3>3, <3>4
  <2>5. CASE PortTick
    <3>1. /\ view'[a][c] = Elapse(view[a][c])
          /\ locks'[c].owner = locks[c].owner
          /\ locks'[c].left = Elapse(locks[c].left)
      BY <2>5 DEF PortTick, LocksElapse
    <3>2. ValidLease(a, c)
      BY <3>1, <2>0, ElapseOrder, LockConstants DEF ValidLease
    <3>3. locks[c].owner = a /\ view[a][c] <= locks[c].left
      BY <3>2 DEF ValidLeaseBacked
    <3>4. Elapse(view[a][c]) <= Elapse(locks[c].left)
      BY <3>3, ElapseOrder, LockConstants
    <3>5. QED
      BY <3>1, <3>3, <3>4, ElapseNat
  <2>6. CASE UNCHANGED lockVars
    BY <2>6, <2>0 DEF lockVars, ValidLeaseBacked, ValidLease
  <2>7. QED
    BY <2>1, <2>2, <2>3, <2>4, <2>5, <2>6
       DEF PortNext, Acquire, AcquireReplyLost
<1>3. QED
  BY <1>1, <1>2, PortTypeCorrect, PTL DEF PortSpec

\* Mutual exclusion of valid leases, for every instance set, TTL and skew.
THEOREM LeaseExclusion == PortSpec => []LeaseExclusive
<1>1. ValidLeaseBacked => LeaseExclusive
  BY DEF ValidLeaseBacked, LeaseExclusive
<1>2. QED
  BY <1>1, ValidLeases, PTL
=============================================================================
