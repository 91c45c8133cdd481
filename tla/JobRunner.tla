------------------------------ MODULE JobRunner ------------------------------
(***************************************************************************)
(* JobRunnerService and JobRunnerLockService: the cycles of the worker     *)
(* processes and the advisory lock meant to keep them apart.  PostgreSQL   *)
(* gives the lock to the session, that is to the pooled connection, that   *)
(* ran pg_try_advisory_lock; the same session may take it again, and each  *)
(* taking needs an unlock from that session.  Prisma runs every query on   *)
(* whichever connection of the pool is free.                               *)
(*                                                                         *)
(* A cycle is started by the interval timer, which does not wait for the   *)
(* one before, or by triggerProcessing; both run the same steps.  The job  *)
(* processors themselves have been removed from the code.                  *)
(*                                                                         *)
(* In calm weather no connection or process dies, every query succeeds and *)
(* a cycle reaches its cleanup before its own lock record expires.         *)
(***************************************************************************)
EXTENDS Naturals, FiniteSets, Weather

CONSTANTS
    Processes,      \* worker processes, by their instanceId
    Conns,          \* connections of all pools
    PoolOf,         \* the process each connection belongs to
    Cycles,         \* cycle activations
    RunBy,          \* the process that starts each
    MaxDepth,       \* bound on how often one session takes the lock
    NoConn, NoProcess

ASSUME RunnerAssumption ==
    /\ MaxDepth \in Nat
    /\ PoolOf \in [Conns -> Processes]
    /\ RunBy \in [Cycles -> Processes]
    /\ IsFiniteSet(Cycles) /\ NoConn \notin Conns

VARIABLES
    advisory,       \* pg_advisory_lock(1): its session and how often taken
    lockRow,        \* the JobRunnerLock record "singleton"
    pool,           \* the connections in use (connection_limit); never changes
    mutex,          \* mutex.locked of each process
    cycle,          \* the step each cycle is at
    stray           \* how many releases, in calm weather, ran on a connection
                    \* that does not hold the lock: no part of the code

runnerVars == <<advisory, lockRow, pool, mutex, cycle, stray>>

Free == [conn |-> NoConn, depth |-> 0]
NoLockRow == [by |-> NoProcess, expired |-> FALSE]

RunnerInit ==
    /\ advisory = Free
    /\ lockRow = NoLockRow
    /\ pool \in {S \in SUBSET Conns : \A p \in Processes : \E s \in S : PoolOf[s] = p}
    /\ mutex = [p \in Processes |-> FALSE]
    /\ cycle = [c \in Cycles |-> "idle"]
    /\ stray = 0

Pool(c) == {s \in pool : PoolOf[s] = RunBy[c]}
Step(c, pc) == cycle' = [cycle EXCEPT ![c] = pc]
Entered(c) == cycle[c] \in {"cleanup", "unlockExpired", "dropExpired", "process", "unlock", "drop"}

-----------------------------------------------------------------------------
(* processJobs: the local mutex is tested here ...                         *)
CycleStart(c) ==
    /\ cycle[c] = "idle" /\ ~mutex[RunBy[c]]
    /\ Step(c, "tryLock")
    /\ UNCHANGED <<advisory, lockRow, mutex, stray>>

TryLock(c) ==
    /\ cycle[c] = "tryLock" /\ advisory.depth < MaxDepth
    /\ \E s \in Pool(c) :
          IF advisory.conn \in {NoConn, s}
            THEN advisory' = [conn |-> s, depth |-> advisory.depth + 1] /\ Step(c, "record")
            ELSE Step(c, "idle") /\ UNCHANGED advisory
    /\ UNCHANGED <<lockRow, mutex, stray>>

(* ... and set only here, after the lock record has been written.          *)
RecordLock(c) ==
    /\ cycle[c] = "record"
    /\ lockRow' = [by |-> RunBy[c], expired |-> FALSE]
    /\ mutex' = [mutex EXCEPT ![RunBy[c]] = TRUE]
    /\ Step(c, "cleanup")
    /\ UNCHANGED <<advisory, stray>>

(* acquireLock returns false when a query fails, although the lock may be  *)
(* taken already.                                                          *)
AcquireFails(c) ==
    /\ ~calm /\ cycle[c] \in {"tryLock", "record"}
    /\ Step(c, "idle")
    /\ UNCHANGED <<advisory, lockRow, mutex, stray>>

(* cleanupExpiredLock reads the record, whoever wrote it, ...              *)
CleanupExpiredLock(c) ==
    /\ cycle[c] = "cleanup"
    /\ Step(c, IF lockRow.by # NoProcess /\ lockRow.expired THEN "unlockExpired" ELSE "process")
    /\ UNCHANGED <<advisory, lockRow, mutex, stray>>

Strays(s) == stray' = IF calm /\ advisory.conn # s THEN stray + 1 ELSE stray
OneLess == IF advisory.depth = 1 THEN Free ELSE [advisory EXCEPT !.depth = @ - 1]

(* Fault: one unlock gives up everything the session has taken.            *)
UnlockAll(c) ==
    \E s \in Pool(c) : Strays(s) /\ advisory' = IF advisory.conn # s THEN advisory ELSE Free

(* Fault: the lock is released only if this process wrote the record.      *)
UnlockIfOwner(c) ==
    IF lockRow.by # RunBy[c]
      THEN UNCHANGED <<advisory, stray>>
      ELSE \E s \in Pool(c) : Strays(s) /\ advisory' = IF advisory.conn # s THEN advisory ELSE OneLess

(* ... and releases the lock: pg_advisory_unlock does nothing but warn on  *)
(* a session that does not hold it ...                                     *)
Unlock(c) ==
    \E s \in Pool(c) : Strays(s) /\ advisory' = IF advisory.conn # s THEN advisory ELSE OneLess

UnlockStep(c, here, next) ==
    /\ cycle[c] = here
    /\ Unlock(c)
    /\ Step(c, next)
    /\ UNCHANGED <<lockRow, mutex>>

(* ... and the record goes if this process wrote it.                       *)
DropRow(c) == lockRow' = IF lockRow.by = RunBy[c] THEN NoLockRow ELSE lockRow

UnlockExpired(c) == UnlockStep(c, "unlockExpired", "dropExpired")

DropExpired(c) ==
    /\ cycle[c] = "dropExpired"
    /\ DropRow(c) /\ Step(c, "process")
    /\ UNCHANGED <<advisory, mutex, stray>>

(* The jobs of this cycle, then JobRunnerState is written.                 *)
ProcessJobs(c) ==
    /\ cycle[c] = "process"
    /\ Step(c, "unlock")
    /\ UNCHANGED <<advisory, lockRow, mutex, stray>>

ReleaseUnlock(c) == UnlockStep(c, "unlock", "drop")

ReleaseDrop(c) ==
    /\ cycle[c] = "drop"
    /\ DropRow(c)
    /\ mutex' = [mutex EXCEPT ![RunBy[c]] = FALSE]
    /\ Step(c, "idle")
    /\ UNCHANGED <<advisory, stray>>

(* A query of cleanupExpiredLock or releaseLock fails; the error is logged *)
(* and the cycle goes on.                                                  *)
ReleaseFails(c) ==
    /\ ~calm
    /\ \/ cycle[c] \in {"cleanup", "unlockExpired", "dropExpired"} /\ Step(c, "process") /\ UNCHANGED mutex
       \/ cycle[c] \in {"unlock", "drop"} /\ Step(c, "idle") /\ mutex' = [mutex EXCEPT ![RunBy[c]] = FALSE]
    /\ UNCHANGED <<advisory, lockRow, stray>>

(* Two intervals pass since the record was written.                        *)
LockRowExpires ==
    /\ lockRow.by # NoProcess /\ ~lockRow.expired
    /\ calm => \A c \in Cycles : cycle[c] # "cleanup"
    /\ lockRow' = [lockRow EXCEPT !.expired = TRUE]
    /\ UNCHANGED <<advisory, mutex, cycle, stray>>

(* A connection is closed: PostgreSQL releases what its session holds.     *)
ConnectionLost(s) ==
    /\ ~calm /\ advisory.conn = s
    /\ advisory' = Free
    /\ UNCHANGED <<lockRow, mutex, cycle, stray>>

(* A worker dies and is started again.                                     *)
WorkerRestarts(p) ==
    /\ ~calm /\ \E c \in Cycles : RunBy[c] = p /\ cycle[c] # "idle"
    /\ cycle' = [c \in Cycles |-> IF RunBy[c] = p THEN "idle" ELSE cycle[c]]
    /\ mutex' = [mutex EXCEPT ![p] = FALSE]
    /\ advisory' = IF advisory.conn # NoConn /\ PoolOf[advisory.conn] = p THEN Free ELSE advisory
    /\ UNCHANGED <<lockRow, stray>>

CycleStep(c) ==
    \/ CycleStart(c) \/ TryLock(c) \/ RecordLock(c) \/ AcquireFails(c)
    \/ CleanupExpiredLock(c) \/ UnlockExpired(c) \/ DropExpired(c)
    \/ ProcessJobs(c) \/ ReleaseUnlock(c) \/ ReleaseDrop(c) \/ ReleaseFails(c)

RunnerNext ==
    /\ \/ \E c \in Cycles : CycleStep(c)
       \/ LockRowExpires
       \/ \E s \in Conns : ConnectionLost(s)
       \/ \E p \in Processes : WorkerRestarts(p)
    /\ UNCHANGED pool

RunnerSpec == RunnerInit /\ [][RunnerNext /\ UNCHANGED calm]_<<runnerVars, calm>>

-----------------------------------------------------------------------------
RunnerTypeOK ==
    /\ advisory \in [conn : Conns \cup {NoConn}, depth : Nat]
    /\ advisory.conn = NoConn <=> advisory.depth = 0
    /\ lockRow \in [by : Processes \cup {NoProcess}, expired : BOOLEAN]
    /\ pool \subseteq Conns
    /\ mutex \in [Processes -> BOOLEAN]
    /\ cycle \in [Cycles -> {"idle", "tryLock", "record", "cleanup", "unlockExpired", "dropExpired",
                             "process", "unlock", "drop"}]
    /\ stray \in Nat

(* Although one process may run two cycles at once and unlock on the wrong *)
(* connection, cycles of two processes never overlap: the session's count  *)
(* covers every cycle that has entered.                                    *)
OneInstance ==
    calm => \A c, d \in Cycles :
        Entered(c) /\ Entered(d) /\ "drop" \notin {cycle[c], cycle[d]} => RunBy[c] = RunBy[d]

(* The session's count is the cycles that hold the lock and the releases   *)
(* that went astray, however many cycles overlap: the lock is lost to the  *)
(* connection pool alone, and never to a process of one connection.        *)
Holding(c) == cycle[c] \in {"record", "cleanup", "process", "unlock"}
LockComesBack ==
    calm =>
        /\ advisory.depth = Cardinality({c \in Cycles : Holding(c)}) + stray
        /\ stray > 0 => \E s, t \in pool : s # t /\ PoolOf[s] = PoolOf[t] /\ PoolOf[t] = PoolOf[advisory.conn]
=============================================================================
