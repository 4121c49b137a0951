------------------------------- MODULE JobLock -------------------------------
(***************************************************************************)
(* What the port BackgroundJobLockStore promises its callers: an instance  *)
(* that acquired (or renewed) the lock of a job kind, and whose lease has  *)
(* not run out, is the only one.  The instances here follow the port's     *)
(* discipline: work while the lease is valid, one user per owner_id.       *)
(* JobRunner models what the runner makes of it.                           *)
(***************************************************************************)
EXTENDS JobLockStore

VARIABLE view   \* view[i][k]: time left to the locked_until that the store
                \* last returned to instance i (AcquiredJobLock), 0 if none

lockVars == <<locks, view>>

PortTypeOK ==
  /\ LocksTypeOK
  /\ view \in [Instance -> [Kind -> Nat]]

PortInit ==
  /\ LocksInit
  /\ view = [i \in Instance |-> [k \in Kind |-> 0]]

-----------------------------------------------------------------------------
Acquire(i, k) ==
  /\ TryAcquireLock(i, k)
  /\ view' = [view EXCEPT ![i][k] = LockUntilFromTtl(i)]

\* The statement was executed and its answer lost: Err for the caller.
AcquireReplyLost(i, k) ==
  /\ TryAcquireLock(i, k)
  /\ view' = [view EXCEPT ![i][k] = 0]

Renew(i, k) ==
  /\ RenewLock(i, k)
  /\ view' = [view EXCEPT ![i][k] = LockUntilFromTtl(i)]

\* The caller stops working before it calls release_lock.
PortRelease(i, k) ==
  /\ ReleaseLock(i, k)
  /\ view' = [view EXCEPT ![i][k] = 0]

\* The caller stops working and the row stays: release_lock failed, or the
\* call was never made.
GiveUp(i, k) ==
  /\ view' = [view EXCEPT ![i][k] = 0]
  /\ UNCHANGED locks

Exit(i) ==
  /\ OwnerExit(i, StableOwner)
  /\ view' = [view EXCEPT ![i] = [k \in Kind |-> 0]]

PortTick ==
  /\ LocksElapse
  /\ view' = [i \in Instance |-> [k \in Kind |-> Elapse(view[i][k])]]

PortNext ==
  \/ \E i \in Instance, k \in Kind :
       \/ Acquire(i, k)
       \/ AcquireReplyLost(i, k)
       \/ Renew(i, k)
       \/ PortRelease(i, k)
       \/ GiveUp(i, k)
  \/ \E i \in Instance : Exit(i)
  \/ PortTick

PortSpec == PortInit /\ [][PortNext]_lockVars

-----------------------------------------------------------------------------
\* The lease of i is still valid on every clock in the system.
ValidLease(i, k) == \A j \in Instance : view[i][k] > Skew[j]

\* Two instances never work under a valid lease for the same kind: however
\* acquisitions, take-overs of expired rows, renewals, lost answers, restarts
\* and skewed clocks interleave, try_acquire_lock excludes.
LeaseExclusive ==
  \A k \in Kind : \A i, j \in Instance :
    ValidLease(i, k) /\ ValidLease(j, k) => i = j

\* The inductive strengthening: a valid lease is backed by a row of the same
\* owner that expires no earlier than the owner believes.
ValidLeaseBacked ==
  \A i \in Instance, k \in Kind :
    ValidLease(i, k) => locks[k].owner = i /\ locks[k].left >= view[i][k]

=============================================================================
