---------------------------- MODULE JobLockStore ----------------------------
(***************************************************************************)
(* The table background_job_locks and the operations of the port           *)
(* BackgroundJobLockStore on it, as its SQLite and PostgreSQL              *)
(* implementations perform them: one transaction, or one statement, each.  *)
(*                                                                         *)
(* Time is relative.  locked_until is kept as the time `left' until it on  *)
(* a global clock, so that time need not be bounded.  The stores compare   *)
(* locked_until with Utc::now() of the CALLER's machine: Skew[i] is how    *)
(* far the clock of instance i runs ahead of the global one.               *)
(***************************************************************************)
EXTENDS Integers

CONSTANTS Instance,   \* running copies of memcore-api; also their owner_id
          Kind,       \* BackgroundJobKind
          TTL,        \* MEMCORE_BACKGROUND_JOB_LOCK_TTL_SECONDS, in ticks
          Skew,       \* [Instance -> Nat], clock offsets
          NoOwner,    \* there is no row
          DeadOwner,  \* the generated owner_id of a process that has exited
          StableOwner \* is MEMCORE_BACKGROUND_JOB_LOCK_OWNER_ID configured?

ASSUME LockConstants ==
  /\ TTL \in Nat \ {0}             \* Settings::validate refuses 0
  /\ Skew \in [Instance -> Nat]
  /\ NoOwner \notin Instance
  /\ DeadOwner \notin Instance
  /\ NoOwner # DeadOwner
  /\ StableOwner \in BOOLEAN

VARIABLE locks    \* the table: at most one row per kind (its primary key)

Owner == Instance \cup {DeadOwner}

Row == [owner : Owner \cup {NoOwner}, left : Nat]

NoRow == [owner |-> NoOwner, left |-> 0]

LocksTypeOK == locks \in [Kind -> Row]

LocksInit == locks = [k \in Kind |-> NoRow]

-----------------------------------------------------------------------------
\* locked_until <= now, read on the clock of instance i.
Expired(row, i) == row.left <= Skew[i]

\* lock_until_from_ttl: now + ttl on the clock of instance i.
LockUntilFromTtl(i) == TTL + Skew[i]

(***************************************************************************)
(* try_acquire_lock: the row is inserted if there is none, and taken over  *)
(* if it has expired or already carries the caller's owner_id.             *)
(***************************************************************************)
CanAcquire(i, k) ==
  \/ locks[k].owner = NoOwner
  \/ Expired(locks[k], i)
  \/ locks[k].owner = i

TryAcquireLock(i, k) ==
  /\ CanAcquire(i, k)
  /\ locks' = [locks EXCEPT ![k] = [owner |-> i, left |-> LockUntilFromTtl(i)]]

\* renew_lock: UPDATE ... WHERE kind = ? AND owner_id = ?, expired or not.
RenewLock(i, k) ==
  /\ locks[k].owner = i
  /\ locks' = [locks EXCEPT ![k].left = LockUntilFromTtl(i)]

\* Mutant of ReleaseLock: the owner forgotten in WHERE.
ReleaseLockAnyOwner(i, k) == locks' = [locks EXCEPT ![k] = NoRow]

\* release_lock: DELETE ... WHERE kind = ? AND owner_id = ?; returns whether
\* a row was deleted, so releasing what another owner has taken is a no-op.
ReleaseLock(i, k) ==
  locks' = [locks EXCEPT ![k] = IF @.owner = i THEN NoRow ELSE @]

\* One unit of time passes.
Elapse(n) == IF n > 0 THEN n - 1 ELSE 0

LocksElapse == locks' = [k \in Kind |-> [locks[k] EXCEPT !.left = Elapse(@)]]

\* The process of instance i exits.  Its rows stay; they carry its owner_id
\* still if the operator configured one, and a stranger's if the next start
\* generates a new one (background_job_lock_owner_id).
OwnerExit(i, stable) ==
  locks' = IF stable THEN locks
           ELSE [k \in Kind |-> IF locks[k].owner = i
                                THEN [locks[k] EXCEPT !.owner = DeadOwner]
                                ELSE locks[k]]

=============================================================================
