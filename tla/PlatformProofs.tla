---------------------------- MODULE PlatformProofs ----------------------------
(***************************************************************************)
(* What the idempotency keys, the rate limit, the lock of the job runner   *)
(* and the queue of integration jobs promise, for any number of calls,     *)
(* keys, operations, processes, connections, cycles, jobs and workers.     *)
(***************************************************************************)
EXTENDS Platform, FiniteSetTheorems, TLAPS

-----------------------------------------------------------------------------
(* The lock.  In calm weather every cycle that has taken the lock and not  *)
(* given it up belongs to the process whose connection holds it, and the   *)
(* session has taken it at least once for each of them: an unlock on the   *)
(* wrong connection leaves the count too high, never too low.  No cycle    *)
(* finds its own lock record expired.                                      *)
Holders == {c \in Cycles : Holding(c)}

RunnerInv ==
    /\ RunnerTypeOK
    /\ calm =>
        /\ Cardinality(Holders) <= advisory.depth
        /\ \A c \in Cycles : Holding(c) => advisory.conn \in Conns /\ PoolOf[advisory.conn] = RunBy[c]
        /\ \A c \in Cycles : cycle[c] \notin {"unlockExpired", "dropExpired"}
        /\ \A c \in Cycles : cycle[c] = "cleanup" => ~lockRow.expired

(* The cycles that hold the lock are finitely many.                        *)
LEMMA HoldersFinite ==
    IsFiniteSet(Holders) /\ Cardinality(Holders) \in Nat
<1>1. Holders \subseteq Cycles
  BY DEF Holders
<1> QED
  BY <1>1, RunnerAssumption, FS_Subset, FS_CardinalityType

(* The type invariant, by the variables a step may change.                 *)
AdvisoryOK ==
    /\ advisory \in [conn : Conns \cup {NoConn}, depth : Nat]
    /\ advisory.conn = NoConn <=> advisory.depth = 0
LockRowOK == lockRow \in [by : Processes \cup {NoProcess}, expired : BOOLEAN]
CycleOK ==
    /\ pool \subseteq Conns
    /\ mutex \in [Processes -> BOOLEAN]
    /\ cycle \in [Cycles -> {"idle", "tryLock", "record", "cleanup", "unlockExpired", "dropExpired", "process", "unlock", "drop"}]
    /\ stray \in Nat

LEMMA TypeParts == (RunnerTypeOK <=> AdvisoryOK /\ LockRowOK /\ CycleOK) /\ (RunnerTypeOK' <=> AdvisoryOK' /\ LockRowOK' /\ CycleOK')
BY DEF RunnerTypeOK, AdvisoryOK, LockRowOK, CycleOK

(* The records of the lock that are written.                               *)
LEMMA LockRowTypes ==
    /\ NoLockRow \in [by : Processes \cup {NoProcess}, expired : BOOLEAN]
    /\ \A c \in Cycles : [by |-> RunBy[c], expired |-> FALSE] \in [by : Processes \cup {NoProcess}, expired : BOOLEAN]
BY RunnerAssumption DEF NoLockRow

(* Unlocking on a connection of the pool.                                  *)
LEMMA StrayType ==
    ASSUME RunnerTypeOK, NEW c \in Cycles, Unlock(c)
    PROVE  stray' \in Nat
BY DEF RunnerTypeOK, Unlock, Strays

LEMMA UnlockType ==
    ASSUME RunnerTypeOK, NEW c \in Cycles, Unlock(c)
    PROVE  AdvisoryOK'
<1>1. AdvisoryOK /\ CycleOK
  BY TypeParts
<1>2. PICK s \in Pool(c) : advisory' = IF advisory.conn # s THEN advisory ELSE OneLess
  BY DEF Unlock
<1>3. s # NoConn
  BY <1>1, RunnerAssumption DEF Pool, CycleOK
<1>4. CASE advisory.conn # s
  BY <1>1, <1>2, <1>4 DEF AdvisoryOK
<1>5. CASE advisory.conn = s
  <2>1. advisory.depth \in Nat \ {0}
    BY <1>1, <1>3, <1>5 DEF AdvisoryOK
  <2> QED
    BY <1>1, <1>2, <1>3, <1>5, <2>1 DEF AdvisoryOK, Free, OneLess
<1> QED
  BY <1>4, <1>5

(* A step of one cycle changes at most whether that cycle holds the lock.  *)
LEMMA HoldersChange ==
    ASSUME RunnerTypeOK, NEW c \in Cycles, NEW pc, Step(c, pc)
    PROVE  /\ pc \in {"record", "cleanup", "process", "unlock"} => Holders' = Holders \cup {c}
           /\ pc \notin {"record", "cleanup", "process", "unlock"} => Holders' = Holders \ {c}
BY DEF Step, Holders, Holding, RunnerTypeOK

LEMMA RunnerStarts == RunnerInit => RunnerInv
<1> SUFFICES ASSUME RunnerInit PROVE RunnerInv
  OBVIOUS
<1>1. RunnerTypeOK
  BY RunnerAssumption DEF RunnerInit, RunnerTypeOK, Free, NoLockRow
<1>2. Holders = {}
  BY DEF RunnerInit, Holders, Holding
<1>3. Cardinality(Holders) <= advisory.depth
  BY <1>2, FS_EmptySet DEF RunnerInit, Free
<1> QED
  BY <1>1, <1>3 DEF RunnerInit, RunnerInv, Holding

(* Taking the lock, and writing the record of it.                          *)
LEMMA TakesLock ==
    ASSUME RunnerInv, NEW c \in Cycles, CycleStart(c) \/ TryLock(c) \/ RecordLock(c) \/ AcquireFails(c), UNCHANGED <<pool, calm>>
    PROVE  RunnerInv'
<1> USE DEF RunnerInv
<1>1. RunnerTypeOK'
  <2>1. AdvisoryOK'
    <3>1. \A s \in Pool(c) : s \in Conns /\ s # NoConn
      BY RunnerAssumption, TypeParts DEF Pool, CycleOK
    <3> QED
      BY <3>1, TypeParts DEF CycleStart, TryLock, RecordLock, AcquireFails, AdvisoryOK
  <2>2. LockRowOK'
    <3>1. lockRow' = lockRow \/ lockRow' = [by |-> RunBy[c], expired |-> FALSE]
      BY DEF CycleStart, TryLock, RecordLock, AcquireFails
    <3> QED
      BY <3>1, TypeParts, LockRowTypes DEF LockRowOK
  <2>3. CycleOK'
    BY RunnerAssumption, TypeParts DEF CycleStart, TryLock, RecordLock, AcquireFails, Step, CycleOK
  <2> QED
    BY <2>1, <2>2, <2>3, TypeParts
<1>2. CASE ~calm
  BY <1>1, <1>2
<1>3. CASE calm /\ (CycleStart(c) \/ \E pc \in {"idle"} : Step(c, pc) /\ cycle[c] = "tryLock" /\ UNCHANGED <<advisory, lockRow>>)
  <2>1. Holders' = Holders
    BY <1>3, HoldersChange DEF CycleStart, Holders, Holding
  <2> QED
    BY <1>1, <1>3, <2>1 DEF CycleStart, Step, Holding, RunnerTypeOK
<1>4. ASSUME calm, NEW s \in Pool(c), advisory.conn \in {NoConn, s}, cycle[c] = "tryLock",
             advisory' = [conn |-> s, depth |-> advisory.depth + 1], Step(c, "record"), UNCHANGED lockRow
      PROVE  RunnerInv'
  <2>1. Holders' = Holders \cup {c}
    BY <1>4, HoldersChange
  <2>2. Cardinality(Holders') <= Cardinality(Holders) + 1
    BY <2>1, HoldersFinite, FS_AddElement
  <2>3. s \in Conns /\ PoolOf[s] = RunBy[c]
    BY DEF Pool, RunnerTypeOK
  <2>4. \A d \in Cycles : Holding(d) => RunBy[d] = RunBy[c]
    BY <1>4, <2>3, RunnerAssumption
  <2>5. Cardinality(Holders') <= advisory'.depth
    <3>1. IsFiniteSet(Holders')
      BY <2>1, HoldersFinite, FS_AddElement
    <3>2. Cardinality(Holders') \in Nat
      BY <3>1, FS_CardinalityType
    <3>3. advisory'.depth = advisory.depth + 1 /\ advisory.depth \in Nat
      BY <1>4, TypeParts DEF AdvisoryOK
    <3> QED
      BY <1>4, <2>2, HoldersFinite, <3>2, <3>3
  <2> QED
    BY <1>1, <1>4, <2>3, <2>4, <2>5 DEF Step, Holding, RunnerTypeOK
<1>5. CASE calm /\ RecordLock(c)
  <2>1. Holders' = Holders
    BY <1>5, HoldersChange DEF RecordLock, Holders, Holding
  <2> QED
    BY <1>1, <1>5, <2>1 DEF RecordLock, Step, Holding, RunnerTypeOK
<1> QED
  BY <1>2, <1>3, <1>4, <1>5 DEF TryLock, AcquireFails

(* The cycle's own steps under the lock.                                   *)
LEMMA WorksUnderLock ==
    ASSUME RunnerInv, NEW c \in Cycles,
           CleanupExpiredLock(c) \/ UnlockExpired(c) \/ DropExpired(c) \/ ProcessJobs(c), UNCHANGED <<pool, calm>>
    PROVE  RunnerInv'
<1> USE DEF RunnerInv
<1>1. RunnerTypeOK'
  <2>1. AdvisoryOK'
    BY TypeParts, UnlockType DEF CleanupExpiredLock, UnlockExpired, UnlockStep, DropExpired, ProcessJobs, AdvisoryOK
  <2>2. LockRowOK'
    <3>1. lockRow' = lockRow \/ lockRow' = NoLockRow
      BY DEF CleanupExpiredLock, UnlockExpired, UnlockStep, DropExpired, DropRow, ProcessJobs
    <3> QED
      BY <3>1, TypeParts, LockRowTypes DEF LockRowOK
  <2>3. CycleOK'
    BY TypeParts, StrayType DEF CleanupExpiredLock, UnlockExpired, UnlockStep, DropExpired, ProcessJobs, Step, CycleOK
  <2> QED
    BY <2>1, <2>2, <2>3, TypeParts
<1>2. CASE calm
  <2>1. cycle[c] \in {"cleanup", "process"} /\ Step(c, IF cycle[c] = "cleanup" THEN "process" ELSE "unlock") /\ UNCHANGED <<advisory, lockRow>>
    BY <1>2 DEF CleanupExpiredLock, UnlockExpired, UnlockStep, DropExpired, ProcessJobs
  <2>2. Holders' = Holders
    BY <2>1, HoldersChange DEF Holders, Holding
  <2> QED
    BY <1>1, <1>2, <2>1, <2>2 DEF Step, Holding, RunnerTypeOK
<1> QED
  BY <1>1, <1>2

(* Giving it up, on whichever connection of the pool.                      *)
LEMMA GivesLockUp ==
    ASSUME RunnerInv, NEW c \in Cycles, ReleaseUnlock(c) \/ ReleaseDrop(c) \/ ReleaseFails(c), UNCHANGED <<pool, calm>>
    PROVE  RunnerInv'
<1> USE DEF RunnerInv
<1>1. RunnerTypeOK'
  <2>1. AdvisoryOK'
    BY TypeParts, UnlockType DEF ReleaseUnlock, UnlockStep, ReleaseDrop, ReleaseFails, AdvisoryOK
  <2>2. LockRowOK'
    <3>1. lockRow' = lockRow \/ lockRow' = NoLockRow
      BY DEF ReleaseUnlock, UnlockStep, ReleaseDrop, DropRow, ReleaseFails
    <3> QED
      BY <3>1, TypeParts, LockRowTypes DEF LockRowOK
  <2>3. CycleOK'
    BY TypeParts, StrayType, RunnerAssumption DEF ReleaseUnlock, UnlockStep, ReleaseDrop, ReleaseFails, Step, CycleOK
  <2> QED
    BY <2>1, <2>2, <2>3, TypeParts
<1>2. CASE calm /\ ReleaseUnlock(c)
  <2>1. PICK s \in Pool(c) : advisory' = IF advisory.conn # s THEN advisory ELSE OneLess
    BY <1>2 DEF ReleaseUnlock, UnlockStep, Unlock
  <2>2. Holders' = Holders \ {c} /\ c \in Holders
    BY <1>2, HoldersChange DEF ReleaseUnlock, UnlockStep, Holders, Holding
  <2>3. Cardinality(Holders') = Cardinality(Holders) - 1
    BY <2>2, HoldersFinite, FS_RemoveElement
  <2>4. advisory'.depth \in {advisory.depth, advisory.depth - 1}
    BY <2>1 DEF Free, OneLess, RunnerTypeOK
  <2>5. Cardinality(Holders') <= advisory'.depth
    BY <1>1, <1>2, <2>3, <2>4, HoldersFinite DEF RunnerTypeOK
  <2>6. advisory'.depth = 0 => Holders' = {}
    <3>1. IsFiniteSet(Holders')
      BY <2>2, HoldersFinite, FS_RemoveElement
    <3>2. Cardinality(Holders') \in Nat
      BY <3>1, FS_CardinalityType
    <3> QED
      BY <2>5, <3>1, <3>2, FS_EmptySet
  <2>7. advisory'.depth # 0 => advisory'.conn = advisory.conn
    BY <2>1 DEF Free, OneLess, RunnerTypeOK
  <2>8. \A d \in Cycles : Holding(d)' => advisory'.conn = advisory.conn /\ Holding(d)
    BY <2>2, <2>6, <2>7 DEF Holders
  <2> QED
    BY <1>1, <1>2, <2>5, <2>8 DEF ReleaseUnlock, UnlockStep, Step, RunnerTypeOK
<1>3. CASE calm /\ ReleaseDrop(c)
  <2>1. Holders' = Holders
    BY <1>3, HoldersChange DEF ReleaseDrop, Holders, Holding
  <2> QED
    BY <1>1, <1>3, <2>1 DEF ReleaseDrop, DropRow, NoLockRow, Step, Holding, RunnerTypeOK
<1> QED
  BY <1>1, <1>2, <1>3 DEF ReleaseFails

(* Time, and what calm weather rules out.                                  *)
LEMMA LockMeanwhile ==
    ASSUME RunnerInv, UNCHANGED <<pool, calm>>,
           LockRowExpires \/ (\E s \in Conns : ConnectionLost(s)) \/ (\E p \in Processes : WorkerRestarts(p))
    PROVE  RunnerInv'
<1> USE DEF RunnerInv
<1>1. RunnerTypeOK'
  <2>1. AdvisoryOK'
    BY TypeParts DEF LockRowExpires, ConnectionLost, WorkerRestarts, Free, AdvisoryOK
  <2>2. LockRowOK'
    BY TypeParts DEF LockRowExpires, ConnectionLost, WorkerRestarts, LockRowOK
  <2>3. CycleOK'
    BY TypeParts DEF LockRowExpires, ConnectionLost, WorkerRestarts, CycleOK
  <2> QED
    BY <2>1, <2>2, <2>3, TypeParts
<1>2. CASE calm
  <2>1. LockRowExpires
    BY <1>2 DEF ConnectionLost, WorkerRestarts
  <2>2. Holders' = Holders
    BY <2>1 DEF LockRowExpires, Holders, Holding
  <2> QED
    BY <1>1, <1>2, <2>1, <2>2 DEF LockRowExpires, Holding
<1> QED
  BY <1>1, <1>2

LEMMA RunnerKeepsInv ==
    ASSUME RunnerInv, [RunnerNext /\ UNCHANGED calm]_<<runnerVars, calm>>
    PROVE  RunnerInv'
<1>1. CASE RunnerNext /\ UNCHANGED calm
  BY <1>1, TakesLock, WorksUnderLock, GivesLockUp, LockMeanwhile DEF RunnerNext, CycleStep
<1>2. CASE UNCHANGED <<runnerVars, calm>>
  <2>1. Holders' = Holders
    BY <1>2 DEF runnerVars, Holders, Holding
  <2> QED
    BY <1>2, <2>1 DEF runnerVars, RunnerInv, RunnerTypeOK, Holding
<1> QED
  BY <1>1, <1>2

(* In calm weather cycles of two worker processes never overlap, however   *)
(* many cycles one process runs at once and whichever connections of its   *)
(* pool the locking and the unlocking happen to use.                       *)
THEOREM OneInstanceAlways == RunnerSpec => []OneInstance
<1>1. RunnerInv => OneInstance
  BY DEF RunnerInv, OneInstance, Entered, Holding
<1> QED
  BY <1>1, RunnerStarts, RunnerKeepsInv, PTL DEF RunnerSpec

(* The lock, its record and the cycles keep to their types, whatever fails.*)
THEOREM RunnerTypeCorrect == RunnerSpec => []RunnerTypeOK
<1>1. RunnerInv => RunnerTypeOK
  BY DEF RunnerInv
<1> QED
  BY <1>1, RunnerStarts, RunnerKeepsInv, PTL DEF RunnerSpec

(* The count of the session, exactly: a release finds the session, or goes *)
(* astray, and then the process has another connection.                    *)
Roomy == \E s, t \in pool : s # t /\ PoolOf[s] = PoolOf[t] /\ PoolOf[t] = PoolOf[advisory.conn]
ExactCount ==
    calm =>
        /\ advisory.conn \in pool \cup {NoConn}
        /\ advisory.depth = Cardinality(Holders) + stray
        /\ stray > 0 => Roomy

LEMMA CountStaysExact ==
    ASSUME RunnerInv, ExactCount, RunnerNext /\ UNCHANGED calm
    PROVE  ExactCount'
<1> SUFFICES ASSUME calm
             PROVE  /\ advisory'.conn \in pool \cup {NoConn}
                    /\ advisory'.depth = Cardinality(Holders)' + stray'
                    /\ stray' > 0 => Roomy'
  BY DEF RunnerNext, ExactCount
<1> DEFINE Goal == /\ advisory'.conn \in pool \cup {NoConn}
                   /\ advisory'.depth = Cardinality(Holders)' + stray'
                   /\ stray' > 0 => Roomy'
<1>1. /\ advisory.conn \in pool \cup {NoConn} /\ advisory.depth = Cardinality(Holders) + stray /\ (stray > 0 => Roomy)
      /\ advisory.depth \in Nat /\ stray \in Nat /\ Cardinality(Holders) \in Nat
      /\ AdvisoryOK /\ pool \subseteq Conns /\ NoConn \notin Conns /\ UNCHANGED pool
  BY TypeParts, RunnerAssumption, HoldersFinite DEF RunnerInv, ExactCount, AdvisoryOK, CycleOK, RunnerNext
<1>2. ASSUME UNCHANGED <<advisory, stray>>, Holders' = Holders
      PROVE  Goal
  BY <1>1, <1>2 DEF Roomy
<1>3. ASSUME NEW c \in Cycles, CycleStep(c)
      PROVE  Goal
  <2>1. CASE TryLock(c)
    <3>1. PICK s \in Pool(c) : IF advisory.conn \in {NoConn, s}
                                THEN advisory' = [conn |-> s, depth |-> advisory.depth + 1] /\ Step(c, "record")
                                ELSE Step(c, "idle") /\ UNCHANGED advisory
      BY <2>1 DEF TryLock
    <3>2. c \notin Holders /\ IsFiniteSet(Holders) /\ UNCHANGED stray
      BY <2>1, HoldersFinite DEF TryLock, Holders, Holding
    <3>3. CASE advisory.conn \in {NoConn, s}
      <4>1. Holders' = Holders \cup {c}
        BY <3>1, <3>3, HoldersChange DEF RunnerInv
      <4>2. Cardinality(Holders)' = Cardinality(Holders) + 1
        BY <3>2, <4>1, FS_AddElement
      <4>3. advisory'.depth = Cardinality(Holders)' + stray' /\ advisory'.conn \in pool
        BY <1>1, <3>1, <3>2, <3>3, <4>2 DEF Pool
      <4>4. stray' > 0 => Roomy'
        <5>1. SUFFICES ASSUME stray > 0 PROVE Roomy'
          BY <3>2
        <5>2. advisory.depth # 0
          BY <1>1, <5>1
        <5>3. advisory.conn = s
          BY <1>1, <3>3, <5>2 DEF AdvisoryOK
        <5> QED
          BY <1>1, <3>1, <3>3, <5>1, <5>3 DEF Roomy
      <4> QED
        BY <4>3, <4>4
    <3>4. CASE advisory.conn \notin {NoConn, s}
      <4>1. Holders' = Holders \ {c}
        BY <3>1, <3>4, HoldersChange DEF RunnerInv
      <4> QED
        BY <1>2, <3>1, <3>2, <3>4, <4>1
    <3> QED
      BY <3>3, <3>4
  <2>2. CASE ReleaseUnlock(c)
    <3>1. PICK s \in Pool(c) : Strays(s) /\ advisory' = IF advisory.conn # s THEN advisory ELSE OneLess
      BY <2>2 DEF ReleaseUnlock, UnlockStep, Unlock
    <3>2. Holders' = Holders \ {c} /\ c \in Holders /\ IsFiniteSet(Holders)
      BY <2>2, HoldersChange, HoldersFinite DEF RunnerInv, ReleaseUnlock, UnlockStep, Holders, Holding
    <3>3. Cardinality(Holders)' = Cardinality(Holders) - 1
      BY <3>2, FS_RemoveElement
    <3>4. advisory.conn \in pool /\ PoolOf[advisory.conn] = RunBy[c]
      BY <1>1, <3>2 DEF RunnerInv, Holders
    <3>5. CASE advisory.conn = s
      <4>1. stray' = stray /\ advisory' = OneLess
        BY <3>1, <3>5 DEF Strays
      <4>2. CASE advisory.depth = 1
        <5>1. advisory' = Free
          BY <4>1, <4>2 DEF OneLess
        <5> QED
          BY <1>1, <3>3, <4>1, <4>2, <5>1, HoldersFinite, FS_CardinalityType, FS_RemoveElement, <3>2 DEF Free
      <4>3. CASE advisory.depth # 1
        BY <1>1, <3>3, <4>1, <4>3 DEF OneLess, AdvisoryOK, Roomy
      <4> QED
        BY <4>2, <4>3
    <3>6. CASE advisory.conn # s
      <4>1. stray' = stray + 1 /\ advisory' = advisory
        BY <3>1, <3>6 DEF Strays
      <4>2. Roomy'
        BY <1>1, <3>4, <3>6, <4>1 DEF Roomy, Pool
      <4> QED
        BY <1>1, <3>3, <4>1, <4>2
    <3> QED
      BY <3>5, <3>6
  <2>3. CASE CycleStart(c) \/ RecordLock(c) \/ CleanupExpiredLock(c) \/ ProcessJobs(c) \/ ReleaseDrop(c)
    <3>1. UNCHANGED <<advisory, stray>>
      BY <2>3 DEF CycleStart, RecordLock, CleanupExpiredLock, ProcessJobs, ReleaseDrop
    <3>2. Holders' = Holders
      BY <2>3, HoldersChange DEF RunnerInv, CycleStart, RecordLock, CleanupExpiredLock, ProcessJobs, ReleaseDrop, Holders, Holding
    <3> QED
      BY <1>2, <3>1, <3>2
  <2> QED
    BY <1>3, <2>1, <2>2, <2>3 DEF CycleStep, RunnerInv, AcquireFails, ReleaseFails, UnlockExpired, UnlockStep, DropExpired
<1>4. CASE LockRowExpires
  BY <1>2, <1>4 DEF LockRowExpires, Holders, Holding
<1> QED
  BY <1>3, <1>4 DEF RunnerNext, ConnectionLost, WorkerRestarts

(* In calm weather, for any pools, cycles and processes: the lock is kept  *)
(* by exactly the cycles that hold it and the releases that went astray.   *)
THEOREM LockAlwaysComesBack == RunnerSpec => []LockComesBack
<1> DEFINE LockInv == RunnerInv /\ ExactCount
<1>1. RunnerInit => LockInv
  <2> SUFFICES ASSUME RunnerInit PROVE LockInv
    OBVIOUS
  <2>1. Holders = {} /\ advisory = Free
    BY DEF RunnerInit, Holders, Holding
  <2> QED
    BY <2>1, RunnerStarts, FS_EmptySet DEF ExactCount, Free, RunnerInit
<1>2. LockInv /\ [RunnerNext /\ UNCHANGED calm]_<<runnerVars, calm>> => LockInv'
  <2> SUFFICES ASSUME LockInv, [RunnerNext /\ UNCHANGED calm]_<<runnerVars, calm>> PROVE LockInv'
    OBVIOUS
  <2>1. CASE UNCHANGED <<runnerVars, calm>>
    <3>1. Holders' = Holders
      BY <2>1 DEF runnerVars, Holders, Holding
    <3> QED
      BY <2>1, <3>1, RunnerKeepsInv DEF runnerVars, ExactCount, Roomy
  <2> QED
    BY <2>1, RunnerKeepsInv, CountStaysExact
<1>3. LockInv => LockComesBack
  <2>1. Holders = {c \in Cycles : Holding(c)}
    BY DEF Holders
  <2> QED
    BY <2>1 DEF LockComesBack, ExactCount, Roomy
<1> HIDE DEF LockInv
<1> QED
  BY <1>1, <1>2, <1>3, PTL DEF RunnerSpec

-----------------------------------------------------------------------------
(* The keys.  An answer, in a record or in a client's hands, is that of a  *)
(* call that has run under that very key.                                  *)
Ours(q, p, k) == q \in Callers /\ idem[q].ran /\ idem[q].key = k /\ NormalizePath(idem[q].op) = p

Guarded == Installed /\ OrgOnRequest
Asks(c) == idem[c].pc \in {"find", "delete", "insert", "reread"}
Settles(c) == idem[c].pc \in {"complete", "fail"}

(* A call that has asked about its key has one; it has run when it is to   *)
(* be completed, and not before.                                           *)
CallOK(c) ==
    /\ Asks(c) \/ Settles(c) => Guarded
    /\ Guarded /\ (Asks(c) \/ Settles(c) \/ idem[c].pc = "run" \/ idem[c].ran) => idem[c].key \in Keys
    /\ Asks(c) \/ idem[c].pc \in {"new", "run", "fail"} => ~idem[c].ran /\ idem[c].answer = NoCaller
    /\ idem[c].pc = "complete" => idem[c].ran /\ idem[c].answer = c
    /\ idem[c].answer = c <=> idem[c].ran
    /\ idem[c].pc = "new" => idem[c].key \notin Keys

AnswerOK(c) ==
    LET q == idem[c].answer IN
        q # NoCaller /\ q # c =>
            /\ idem[c].key \in Keys
            /\ Ours(q, NormalizePath(idem[c].op), idem[c].key)
            /\ idem[q].alone => RequestHash(idem[q].op) = RequestHash(idem[c].op)

RecordOK(p, k) ==
    LET rec == keyRow[p][k] IN
        /\ rec.state # "cached" => rec.answer = NoCaller
        /\ rec.answer # NoCaller =>
              Ours(rec.answer, p, k) /\ (idem[rec.answer].alone => rec.hash = RequestHash(idem[rec.answer].op))

(* A call that is alone finds its own record at every step, ...            *)
AloneRecord(c) ==
    /\ idem[c].pc # "reread"
    /\ idem[c].pc = "delete" => Exists(Record(c)) /\ Record(c).expired
    /\ idem[c].pc = "insert" => ~Exists(Record(c))
    /\ Settles(c) \/ idem[c].pc = "run" =>
          Record(c).state = "pending" /\ ~Record(c).expired /\ Record(c).hash = RequestHash(idem[c].op)
    /\ idem[c].ran /\ idem[c].pc = "over" => Record(c).state = "cached" /\ ~Record(c).expired

(* ... has the key to itself, and when it is over lets a later call get no *)
(* further than its first query.                                           *)
AloneAmong(c) ==
    \A d \in Callers \ {c} : SameKey(c, d) /\ InProgress(d) =>
        ~InProgress(c) /\ (idem[c].ran /\ idem[c].pc = "over" => idem[d].pc = "find")

Counts(c) == Guarded /\ idem[c].alone /\ idem[c].key \in Keys
AloneOK(c) == Counts(c) => AloneRecord(c) /\ AloneAmong(c)

IdemInv ==
    /\ IdemTypeOK
    /\ \A c \in Callers : CallOK(c) /\ AnswerOK(c) /\ AloneOK(c)
    /\ \A p \in Paths, k \in Keys : RecordOK(p, k)

(* What holds of calls and records, without the operators.                 *)
CallType == [pc : {"new", "find", "delete", "insert", "reread", "run", "complete", "fail", "over"},
             key : Keys \cup {NoKey}, op : Operations, ran : BOOLEAN, answer : Callers \cup {NoCaller}, alone : BOOLEAN]
RecordType == [state : {"none", "pending", "cached"}, hash : Hashes \cup {NoHash}, answer : Callers \cup {NoCaller}, expired : BOOLEAN]

LEMMA NewIdemType == NewIdem \in CallType /\ NewIdem.pc = "new" /\ ~NewIdem.ran /\ NewIdem.answer = NoCaller /\ NewIdem.key = NoKey
<1>1. (CHOOSE op \in Operations : TRUE) \in Operations
  BY IdemAssumption
<1> QED
  BY <1>1 DEF NewIdem, CallType

LEMMA IdemStarts == IdemInit => IdemInv
<1> SUFFICES ASSUME IdemInit PROVE IdemInv
  OBVIOUS
<1>1. NoRecord \in RecordType
  BY DEF NoRecord, RecordType
<1>2. IdemTypeOK
  BY <1>1, NewIdemType DEF IdemInit, IdemTypeOK, CallType, RecordType
<1>3. \A c \in Callers : idem[c].pc = "new" /\ ~idem[c].ran /\ idem[c].answer = NoCaller /\ idem[c].key \notin Keys
  BY NewIdemType, IdemAssumption DEF IdemInit
<1>4. \A p \in Paths, k \in Keys : keyRow[p][k].answer = NoCaller
  BY DEF IdemInit, NoRecord
<1> QED
  BY <1>2, <1>3, <1>4, IdemAssumption DEF IdemInv, CallOK, AnswerOK, RecordOK, AloneOK, Counts, Asks, Settles

(* A step of one call may only disturb the others; what is alone after a   *)
(* step was alone before.                                                  *)
Same(c) == idem'[c].key = idem[c].key /\ idem'[c].op = idem[c].op
Rests(d) ==
    /\ Same(d) /\ idem'[d].pc = idem[d].pc /\ idem'[d].ran = idem[d].ran /\ idem'[d].answer = idem[d].answer
    /\ idem'[d].alone => idem[d].alone
OthersRest(c) == \A d \in Callers \ {c} : Rests(d)
Keeps(c) == Same(c) /\ (idem[c].ran => idem'[c].ran) /\ (idem'[c].alone => idem[c].alone)

(* A step of one call keeps every answer that has been given, and what the *)
(* other calls know.                                                       *)
LEMMA AnswersStay ==
    ASSUME IdemInv, NEW c \in Callers, OthersRest(c), idem[c].pc = "new" \/ Keeps(c)
    PROVE  /\ \A q, p, k : Ours(q, p, k) =>
                 /\ Ours(q, p, k)' /\ RequestHash(idem'[q].op) = RequestHash(idem[q].op)
                 /\ idem'[q].alone => idem[q].alone
           /\ \A d \in Callers \ {c} : CallOK(d)' /\ AnswerOK(d)'
<1>1. ~idem[c].ran \/ idem[c].pc # "new"
  BY DEF IdemInv, CallOK
<1>2. \A q, p, k : Ours(q, p, k) =>
         /\ Ours(q, p, k)' /\ RequestHash(idem'[q].op) = RequestHash(idem[q].op)
         /\ idem'[q].alone => idem[q].alone
  BY <1>1 DEF Ours, OthersRest, Rests, Same, Keeps, RequestHash
<1>3. \A d \in Callers \ {c} : CallOK(d)'
  BY DEF IdemInv, OthersRest, Rests, Same, CallOK, Asks, Settles
<1>4. ASSUME NEW d \in Callers \ {c} PROVE AnswerOK(d)'
  <2>1. AnswerOK(d) /\ Rests(d)
    BY DEF IdemInv, OthersRest
  <2> QED
    BY <1>2, <2>1 DEF AnswerOK, Rests, Same
<1> QED
  BY <1>2, <1>3, <1>4

(* A record that is left alone stays right.                                *)
LEMMA RecordStays ==
    ASSUME IdemInv, NEW c \in Callers, OthersRest(c), idem[c].pc = "new" \/ Keeps(c),
           NEW p \in Paths, NEW k \in Keys, keyRow'[p][k] = keyRow[p][k]
    PROVE  RecordOK(p, k)'
BY AnswersStay DEF IdemInv, RecordOK

(* The calls that are alone, when another call of their key or of another  *)
(* one goes on.  Only a first query may meet a call that is over and alone *)
(* after it: it ends there, or disturbs.                                   *)
OwnOnly(c) ==
    \A p \in Paths, k \in Keys : keyRow'[p][k] = keyRow[p][k] \/ (p = NormalizePath(idem[c].op) /\ k = idem[c].key)
FindEnds(c) ==
    idem[c].pc = "find" =>
        /\ UNCHANGED keyRow
        /\ \/ idem'[c].pc = "over" \/ ~(Record(c).state = "cached" /\ ~Record(c).expired)
           \/ \A d \in Callers \ {c} : SameKey(c, d) => ~idem'[d].alone

LEMMA OthersAlone ==
    ASSUME IdemInv, NEW c \in Callers, InProgress(c), OthersRest(c), Keeps(c), OwnOnly(c), FindEnds(c)
    PROVE  \A d \in Callers \ {c} : AloneOK(d)'
<1> SUFFICES ASSUME NEW d \in Callers \ {c}, Counts(d)' PROVE AloneRecord(d)' /\ AloneAmong(d)'
  BY DEF AloneOK
<1>1. Rests(d) /\ Counts(d) /\ AloneRecord(d) /\ AloneAmong(d) /\ NormalizePath(idem[d].op) \in Paths
  BY DEF OthersRest, Rests, Same, Counts, IdemInv, AloneOK, IdemTypeOK, NormalizePath, Paths
<1>2. \A e \in Callers : SameKey(d, e)' <=> SameKey(d, e)
  BY DEF OthersRest, Rests, Same, Keeps, SameKey, NormalizePath
<1>3. \A e \in Callers \ {c} : (InProgress(e)' <=> InProgress(e)) /\ idem'[e].pc = idem[e].pc
  BY DEF OthersRest, Rests, InProgress
<1>4. CASE ~SameKey(d, c)
  <2>1. Record(d)' = Record(d)
    <3>1. ~(NormalizePath(idem[d].op) = NormalizePath(idem[c].op) /\ idem[d].key = idem[c].key)
      BY <1>1, <1>4, IdemAssumption DEF SameKey, Counts
    <3> QED
      BY <1>1, <3>1 DEF OwnOnly, Record, Rests, Same, Counts, NormalizePath
  <2>2. AloneRecord(d)'
    BY <1>1, <2>1 DEF AloneRecord, Rests, Same, Settles, RequestHash
  <2>3. AloneAmong(d)'
    BY <1>1, <1>2, <1>3, <1>4 DEF AloneAmong, Rests
  <2> QED
    BY <2>2, <2>3
<1>5. CASE SameKey(d, c)
  <2>1. ~InProgress(d) /\ (idem[d].ran /\ idem[d].pc = "over" => idem[c].pc = "find")
    BY <1>1, <1>5 DEF AloneAmong
  <2>2. CASE ~(idem[d].ran /\ idem[d].pc = "over")
    BY <1>1, <2>1, <2>2, <1>3 DEF AloneRecord, AloneAmong, Rests, Settles, InProgress
  <2>3. CASE idem[d].ran /\ idem[d].pc = "over"
    <3>1. Record(c) = Record(d) /\ SameKey(c, d)
      BY <1>5 DEF SameKey, Record
    <3>2. UNCHANGED keyRow /\ idem'[c].pc = "over"
      BY <1>1, <2>1, <2>3, <3>1 DEF FindEnds, AloneRecord, Counts
    <3>3. Record(d)' = Record(d)
      BY <1>1, <3>2 DEF Record, Rests, Same, NormalizePath
    <3>4. AloneRecord(d)'
      BY <1>1, <3>3 DEF AloneRecord, Rests, Same, Settles, RequestHash
    <3>5. AloneAmong(d)'
      BY <1>1, <1>2, <1>3, <3>2 DEF AloneAmong, Rests, InProgress
    <3> QED
      BY <3>4, <3>5
  <2> QED
    BY <2>2, <2>3
<1> QED
  BY <1>4, <1>5

(* The parts of the invariant for a step of one call.                      *)
LEMMA StepOfCall ==
    ASSUME IdemInv, NEW c \in Callers, InProgress(c), IdemTypeOK', OthersRest(c), Keeps(c), OwnOnly(c), FindEnds(c),
           CallOK(c)', AnswerOK(c)', Counts(c)' => AloneRecord(c)',
           \A p \in Paths, k \in Keys : keyRow'[p][k] = keyRow[p][k] \/ RecordOK(p, k)'
    PROVE  IdemInv'
<1>1. ASSUME Counts(c)' PROVE AloneAmong(c)'
  <2>1. AloneAmong(c)
    BY <1>1 DEF IdemInv, AloneOK, Counts, Keeps, Same
  <2> QED
    BY <2>1 DEF AloneAmong, OthersRest, Rests, Keeps, Same, SameKey, InProgress, NormalizePath
<1>2. \A d \in Callers : AloneOK(d)'
  BY <1>1, OthersAlone DEF AloneOK
<1>3. \A d \in Callers : CallOK(d)' /\ AnswerOK(d)'
  BY AnswersStay
<1>4. \A p \in Paths, k \in Keys : RecordOK(p, k)'
  BY RecordStays
<1> QED
  BY <1>2, <1>3, <1>4 DEF IdemInv

(* What a call knows of its record.                                        *)
LEMMA OwnRecord ==
    ASSUME IdemInv, NEW c \in Callers, idem[c].key \in Keys
    PROVE  /\ NormalizePath(idem[c].op) \in Paths /\ Record(c) \in RecordType /\ RequestHash(idem[c].op) \in Hashes
           /\ RecordOK(NormalizePath(idem[c].op), idem[c].key)
BY DEF IdemInv, IdemTypeOK, NormalizePath, Paths, Record, RecordType, RequestHash, Hashes

LEMMA DisturbedCalls ==
    ASSUME idem \in [Callers -> CallType], NEW S
    PROVE  /\ Disturbed(S) \in [Callers -> CallType]
           /\ \A d \in Callers :
                 /\ Disturbed(S)[d].pc = idem[d].pc /\ Disturbed(S)[d].key = idem[d].key /\ Disturbed(S)[d].op = idem[d].op
                 /\ Disturbed(S)[d].ran = idem[d].ran /\ Disturbed(S)[d].answer = idem[d].answer
                 /\ Disturbed(S)[d].alone => idem[d].alone /\ d \notin S
BY DEF Disturbed, CallType

(* Only where the call goes changes, and who is disturbed.                 *)
LEMMA GotoStep ==
    ASSUME IdemInv, NEW c \in Callers, idem[c].pc # "new",
           NEW pc \in {"delete", "insert", "reread", "run", "complete", "fail", "over"},
           NEW S, idem' = [Disturbed(S) EXCEPT ![c].pc = pc] \/ Goto(c, pc)
    PROVE  /\ idem' \in [Callers -> CallType] /\ OthersRest(c) /\ Keeps(c)
           /\ idem'[c].pc = pc /\ idem'[c].ran = idem[c].ran /\ idem'[c].answer = idem[c].answer
           /\ AnswerOK(c)'
<1>1. idem \in [Callers -> CallType]
  BY DEF IdemInv, IdemTypeOK, CallType
<1>3. /\ idem' \in [Callers -> CallType] /\ OthersRest(c) /\ Keeps(c)
      /\ idem'[c].pc = pc /\ idem'[c].ran = idem[c].ran /\ idem'[c].answer = idem[c].answer
  <2>1. CASE Goto(c, pc)
    BY <1>1, <2>1 DEF Goto, OthersRest, Rests, Keeps, Same, CallType
  <2>2. CASE idem' = [Disturbed(S) EXCEPT ![c].pc = pc]
    <3> QED
      BY <1>1, <2>2, DisturbedCalls DEF OthersRest, Rests, Keeps, Same, CallType
  <2> QED
    BY <2>1, <2>2
<1>4. AnswerOK(c)'
  <2>1. AnswerOK(c)
    BY DEF IdemInv
  <2> QED
    BY <1>3, <2>1, AnswersStay DEF AnswerOK, Keeps, Same
<1> QED
  BY <1>3, <1>4

(* begin: a call whose query finds nothing that settles the matter goes    *)
(* on, and so does one whose query fails, which disturbs its key.          *)
LEMMA BeginGoesOn ==
    ASSUME IdemInv, NEW c \in Callers, Asks(c), NEW pc \in {"delete", "insert", "reread", "run"}, UNCHANGED keyRow,
           \/ idem' = [Disturbed(OfKey(NormalizePath(idem[c].op), idem[c].key)) EXCEPT ![c].pc = pc]
           \/ /\ Goto(c, pc)
              /\ idem[c].pc = "find" => ~(Record(c).state = "cached" /\ ~Record(c).expired)
              /\ Counts(c) => \/ pc = "insert" /\ ~Exists(Record(c))
                              \/ pc = "delete" /\ Exists(Record(c)) /\ Record(c).expired
    PROVE  IdemInv'
<1>1. InProgress(c) /\ idem[c].pc # "new" /\ Guarded /\ idem[c].key \in Keys /\ ~idem[c].ran /\ idem[c].answer = NoCaller
  BY DEF IdemInv, CallOK, Asks, InProgress
<1>2. /\ idem' \in [Callers -> CallType] /\ OthersRest(c) /\ Keeps(c) /\ AnswerOK(c)'
      /\ idem'[c].pc = pc /\ idem'[c].ran = idem[c].ran /\ idem'[c].answer = idem[c].answer
  BY <1>1, GotoStep
<1>3. IdemTypeOK'
  BY <1>2 DEF IdemInv, IdemTypeOK, CallType
<1>4. CallOK(c)'
  BY IdemAssumption, <1>1, <1>2 DEF CallOK, Asks, Settles, Keeps, Same
<1>5. CASE Goto(c, pc) /\ (idem[c].pc = "find" => ~(Record(c).state = "cached" /\ ~Record(c).expired))
           /\ (Counts(c) => (pc = "insert" /\ ~Exists(Record(c))) \/ (pc = "delete" /\ Exists(Record(c)) /\ Record(c).expired))
  <2>1. FindEnds(c) /\ OwnOnly(c)
    BY <1>5 DEF FindEnds, OwnOnly
  <2>2. ASSUME Counts(c)' PROVE AloneRecord(c)'
    <3>1. Counts(c) /\ Record(c)' = Record(c)
      BY <1>2, <2>2 DEF Counts, Keeps, Same, Record, NormalizePath
    <3> QED
      BY <1>1, <1>2, <1>5, <3>1 DEF AloneRecord, Settles
  <2> QED
    BY <1>1, <1>2, <1>3, <1>4, <2>1, <2>2, StepOfCall
<1>6. CASE idem' = [Disturbed(OfKey(NormalizePath(idem[c].op), idem[c].key)) EXCEPT ![c].pc = pc]
  <2>1. idem \in [Callers -> CallType]
    BY DEF IdemInv, IdemTypeOK, CallType
  <2>2. \A d \in Callers : d = c \/ SameKey(c, d) => ~idem'[d].alone
    BY <1>6, <2>1 DEF Disturbed, OfKey, SameKey, CallType
  <2>3. FindEnds(c) /\ OwnOnly(c) /\ ~Counts(c)'
    BY <2>2 DEF FindEnds, OwnOnly, Counts
  <2> QED
    BY <1>1, <1>2, <1>3, <1>4, <2>3, StepOfCall
<1> QED
  BY <1>5, <1>6

(* begin: a record that has not expired decides.                           *)
LEMMA BeginDecides ==
    ASSUME IdemInv, NEW c \in Callers, Asks(c), Exists(Record(c)), ~Record(c).expired, Decide(c, Record(c)), UNCHANGED keyRow
    PROVE  IdemInv'
<1>1. InProgress(c) /\ idem[c].pc # "new" /\ Guarded /\ idem[c].key \in Keys /\ ~idem[c].ran /\ idem[c].answer = NoCaller
  BY DEF IdemInv, CallOK, Asks, InProgress
<1> DEFINE rec == Record(c)
           p == NormalizePath(idem[c].op)
<1>2. p \in Paths /\ rec \in RecordType /\ RecordOK(p, idem[c].key) /\ rec = keyRow[p][idem[c].key]
  BY <1>1, OwnRecord DEF Record
<1>3. /\ OthersRest(c) /\ Keeps(c) /\ idem'[c].ran = idem[c].ran /\ idem'[c].pc \in {"run", "over"}
      /\ idem'[c].answer \in {rec.answer, NoCaller}
      /\ idem'[c].answer # NoCaller => rec.hash = RequestHash(idem[c].op) /\ idem'[c].answer = rec.answer
      /\ idem'[c].pc = "run" => rec.state # "cached" /\ rec.hash = RequestHash(idem[c].op)
      /\ rec.state = "cached" => idem'[c].pc = "over"
  BY <1>2 DEF IdemInv, IdemTypeOK, Decide, OthersRest, Rests, Keeps, Same
<1>4. idem' \in [Callers -> CallType]
  <2>1. idem \in [Callers -> CallType]
    BY DEF IdemInv, IdemTypeOK, CallType
  <2>2. rec.answer \in Callers \cup {NoCaller}
    BY <1>2 DEF RecordType
  <2> HIDE DEF rec
  <2>3. PICK pc \in {"run", "over"}, a \in Callers \cup {NoCaller} : idem' = [idem EXCEPT ![c].pc = pc, ![c].answer = a]
    BY <2>2 DEF Decide, rec
  <2> QED
    BY <2>1, <2>3 DEF CallType
<1>5. IdemTypeOK'
  BY <1>4 DEF IdemInv, IdemTypeOK, CallType
<1>6. idem'[c].pc = "run" => idem'[c].answer = NoCaller
  BY <1>2, <1>3 DEF RecordOK
<1>7. CallOK(c)'
  <2>1. idem'[c].answer # c
    BY <1>1, <1>2, <1>3, IdemAssumption DEF RecordOK, Ours
  <2> QED
    BY <1>1, <1>3, <1>6, <2>1 DEF CallOK, Asks, Settles, Keeps, Same
<1>8. AnswerOK(c)'
  <2>1. PICK a, m, l, h : a = rec.answer /\ m = p /\ l = idem[c].key /\ h = RequestHash(idem[c].op)
    OBVIOUS
  <2>2. idem'[c].key = l /\ NormalizePath(idem'[c].op) = m /\ RequestHash(idem'[c].op) = h
    BY <1>3, <2>1 DEF Keeps, Same, NormalizePath, RequestHash
  <2>3. CASE idem'[c].answer # NoCaller
    <3>1. idem'[c].answer = a /\ a # NoCaller /\ rec.hash = h
      BY <1>3, <2>1, <2>3
    <3>2. Ours(a, m, l) /\ (idem[a].alone => h = RequestHash(idem[a].op))
      BY <1>2, <2>1, <3>1 DEF RecordOK
    <3>3. Ours(a, m, l)' /\ RequestHash(idem'[a].op) = RequestHash(idem[a].op) /\ (idem'[a].alone => idem[a].alone)
      BY <1>3, <3>2, AnswersStay
    <3> QED
      BY <1>1, <2>1, <2>2, <3>1, <3>2, <3>3 DEF AnswerOK
  <2> QED
    BY <2>3 DEF AnswerOK
<1>9. Counts(c)' => AloneRecord(c)'
  <2>1. Record(c)' = rec
    BY <1>3 DEF Record, Keeps, Same
  <2> QED
    BY <1>1, <1>2, <1>3, <2>1 DEF AloneRecord, Settles, Exists, RecordType, Keeps, Same
<1>10. FindEnds(c) /\ OwnOnly(c)
  BY <1>3 DEF FindEnds, OwnOnly
<1> QED
  BY <1>1, <1>3, <1>5, <1>7, <1>8, <1>9, <1>10, StepOfCall

(* The handler.                                                            *)
LEMMA HandlerStep ==
    ASSUME IdemInv, NEW c \in Callers, HandlerSucceeds(c) \/ HandlerThrows(c)
    PROVE  IdemInv'
<1>1. idem[c].pc = "run" /\ InProgress(c) /\ (Guarded => idem[c].key \in Keys) /\ ~idem[c].ran /\ idem[c].answer = NoCaller
  BY DEF IdemInv, CallOK, HandlerSucceeds, HandlerThrows, IdemAt, InProgress
<1>2. /\ OthersRest(c) /\ Keeps(c) /\ UNCHANGED keyRow
      /\ idem'[c].ran => idem'[c].pc = After(c, "complete") /\ idem'[c].answer = c
      /\ ~idem'[c].ran => idem'[c].pc = After(c, "fail") /\ idem'[c].answer = NoCaller
  BY <1>1 DEF IdemInv, IdemTypeOK, HandlerSucceeds, HandlerThrows, Goto, OthersRest, Rests, Keeps, Same
<1>3. idem' \in [Callers -> CallType]
  <2>1. idem \in [Callers -> CallType]
    BY DEF IdemInv, IdemTypeOK, CallType
  <2>2. After(c, "complete") \in {"complete", "over"} /\ After(c, "fail") \in {"fail", "over"}
    BY DEF After
  <2>3. CASE HandlerSucceeds(c)
    <3> DEFINE v == [idem[c] EXCEPT !.ran = TRUE, !.answer = c, !.pc = After(c, "complete")]
    <3>1. v \in CallType
      BY <2>1, <2>2 DEF CallType
    <3>2. idem' = [idem EXCEPT ![c] = v]
      BY <2>1, <2>3 DEF HandlerSucceeds
    <3> QED
      BY <2>1, <3>1, <3>2
  <2>4. CASE HandlerThrows(c)
    BY <2>1, <2>2, <2>4 DEF HandlerThrows, Goto, CallType
  <2> QED
    BY <2>3, <2>4
<1>4. IdemTypeOK'
  BY <1>2, <1>3 DEF IdemInv, IdemTypeOK, CallType
<1>5. CallOK(c)'
  BY IdemAssumption, <1>1, <1>2 DEF CallOK, Asks, Settles, Keeps, Same, After, Guarded
<1>6. AnswerOK(c)'
  BY <1>2 DEF AnswerOK
<1>7. ASSUME Counts(c)' PROVE AloneRecord(c)'
  <2>1. Counts(c) /\ Record(c)' = Record(c)
    BY <1>2, <1>7 DEF Counts, Keeps, Same, Record, NormalizePath
  <2>2. AloneRecord(c) /\ Settles(c)' /\ idem'[c].op = idem[c].op
    BY <1>2, <2>1 DEF IdemInv, AloneOK, After, Counts, Guarded, Settles, Keeps, Same
  <2> QED
    BY <1>1, <2>1, <2>2 DEF AloneRecord, Settles
<1>8. FindEnds(c) /\ OwnOnly(c)
  BY <1>1, <1>2 DEF FindEnds, OwnOnly
<1> QED
  BY <1>1, <1>2, <1>4, <1>5, <1>6, <1>7, <1>8, StepOfCall

(* The process dies, or the answer cannot be stored.                       *)
LEMMA CrashStep ==
    ASSUME IdemInv, NEW c \in Callers, IdemCrash(c)
    PROVE  IdemInv'
<1>1. InProgress(c) /\ idem[c].pc # "new" /\ idem' = [Disturbed({c}) EXCEPT ![c].pc = "over"] /\ UNCHANGED keyRow
  BY DEF IdemCrash, InProgress
<1>2. /\ idem' \in [Callers -> CallType] /\ OthersRest(c) /\ Keeps(c) /\ AnswerOK(c)'
      /\ idem'[c].pc = "over" /\ idem'[c].ran = idem[c].ran /\ idem'[c].answer = idem[c].answer
  BY <1>1, GotoStep
<1>3. IdemTypeOK'
  BY <1>1, <1>2 DEF IdemInv, IdemTypeOK, CallType
<1>4. CallOK(c)'
  BY <1>2 DEF IdemInv, CallOK, Asks, Settles, Keeps, Same
<1>5. ~Counts(c)' /\ FindEnds(c) /\ OwnOnly(c)
  <2>1. idem \in [Callers -> CallType]
    BY DEF IdemInv, IdemTypeOK, CallType
  <2>2. ~idem'[c].alone
    BY <1>1, <2>1 DEF Disturbed, CallType
  <2> QED
    BY <1>1, <1>2, <2>2 DEF Counts, FindEnds, OwnOnly
<1> QED
  BY <1>1, <1>2, <1>3, <1>4, <1>5, StepOfCall

(* The answer is stored, or the key is given up.                           *)
LEMMA SettleStep ==
    ASSUME IdemInv, NEW c \in Callers, Complete(c) \/ Fail(c)
    PROVE  IdemInv'
<1>1. Settles(c) /\ InProgress(c) /\ idem[c].pc # "new" /\ Guarded /\ idem[c].key \in Keys /\ Goto(c, "over")
  BY DEF IdemInv, CallOK, Settles, Complete, Fail, IdemAt, InProgress
<1>2. /\ idem' \in [Callers -> CallType] /\ OthersRest(c) /\ Keeps(c) /\ AnswerOK(c)'
      /\ idem'[c].pc = "over" /\ idem'[c].ran = idem[c].ran /\ idem'[c].answer = idem[c].answer
  BY <1>1, GotoStep
<1>3. CallOK(c)'
  BY <1>2 DEF IdemInv, CallOK, Asks, Settles, Keeps, Same
<1>4. PICK p \in Paths, k \in Keys :
        p = NormalizePath(idem[c].op) /\ k = idem[c].key /\ Record(c) \in RecordType /\ RecordOK(p, k) /\ Record(c) = keyRow[p][k]
  BY <1>1, OwnRecord DEF Record
<1>5. PICK rec \in RecordType :
        /\ keyRow' = [keyRow EXCEPT ![p][k] = rec]
        /\ idem[c].pc = "complete" => rec = Record(c) \/ rec = [Record(c) EXCEPT !.state = "cached", !.answer = c]
        /\ idem[c].pc = "complete" /\ Exists(Record(c)) => rec = [Record(c) EXCEPT !.state = "cached", !.answer = c]
        /\ idem[c].pc = "fail" => rec = NoRecord
  <2>1. CASE Complete(c) /\ Exists(Record(c))
    BY <1>4, <2>1 DEF Complete, IdemAt, SetRecord, RecordType
  <2>2. CASE Complete(c) /\ ~Exists(Record(c))
    <3>1. keyRow' = [keyRow EXCEPT ![p][k] = Record(c)]
      BY <1>1, <1>4, <2>2 DEF Complete, IdemInv, IdemTypeOK
    <3> QED
      BY <1>4, <2>2, <3>1 DEF Complete, IdemAt
  <2>3. CASE Fail(c)
    <3>1. NoRecord \in RecordType
      BY DEF NoRecord, RecordType
    <3> QED
      BY <1>4, <2>3, <3>1 DEF Fail, IdemAt, SetRecord
  <2> QED
    BY <2>1, <2>2, <2>3
<1>6. IdemTypeOK'
  <2>1. keyRow \in [Paths -> [Keys -> RecordType]]
    BY DEF IdemInv, IdemTypeOK, RecordType
  <2>2. keyRow' \in [Paths -> [Keys -> RecordType]]
    BY <1>5, <2>1
  <2> QED
    BY <1>2, <2>2 DEF IdemTypeOK, CallType, RecordType
<1>7. /\ \A q \in Paths, l \in Keys : keyRow'[q][l] = keyRow[q][l] \/ (q = p /\ l = k)
      /\ keyRow'[p][k] = rec
  BY <1>1, <1>4, <1>5 DEF IdemInv, IdemTypeOK
<1>8. idem[c].alone => AloneRecord(c)
  BY <1>1 DEF IdemInv, AloneOK, Counts
<1>9. keyRow'[p][k] = keyRow[p][k] \/ RecordOK(p, k)'
  <2>1. CASE idem[c].pc = "fail"
    <3>1. rec.state = "none" /\ rec.answer = NoCaller
      BY <1>5, <2>1 DEF NoRecord
    <3> QED
      BY <1>7, <3>1 DEF RecordOK
  <2>2. CASE rec = [Record(c) EXCEPT !.state = "cached", !.answer = c] /\ idem[c].pc = "complete"
    <3>1. rec.state = "cached" /\ rec.answer = c /\ rec.hash = Record(c).hash
      BY <1>4, <2>2 DEF RecordType
    <3>2. Ours(c, p, k)' /\ RequestHash(idem'[c].op) = RequestHash(idem[c].op) /\ (idem'[c].alone => idem[c].alone)
      BY <1>2, <1>4, <2>2 DEF IdemInv, CallOK, Ours, Keeps, Same
    <3>3. idem[c].alone => Record(c).hash = RequestHash(idem[c].op)
      BY <1>8, <2>2 DEF AloneRecord, Settles
    <3> QED
      BY <1>7, <3>1, <3>2, <3>3 DEF RecordOK
  <2> QED
    BY <1>1, <1>4, <1>5, <1>7, <2>1, <2>2 DEF Settles
<1>10. ASSUME Counts(c)' PROVE AloneRecord(c)'
  <2>2. idem[c].alone /\ Exists(Record(c)) /\ ~Record(c).expired
    BY <1>1, <1>2, <1>8, <1>10 DEF AloneRecord, Counts, Keeps, Exists
  <2>3. idem[c].pc = "complete" => rec.state = "cached" /\ ~rec.expired
    BY <1>4, <1>5, <2>2 DEF RecordType
  <2>4. Record(c)' = rec
    BY <1>2, <1>4, <1>7 DEF Record, Keeps, Same
  <2>5. idem[c].ran => idem[c].pc = "complete"
    BY <1>1 DEF IdemInv, CallOK, Settles
  <2> QED
    BY <1>2, <2>3, <2>4, <2>5 DEF AloneRecord, Settles
<1>11. FindEnds(c) /\ OwnOnly(c)
  BY <1>1, <1>4, <1>7 DEF FindEnds, OwnOnly, Settles
<1> QED
  <2>1. \A q \in Paths, l \in Keys : keyRow'[q][l] = keyRow[q][l] \/ RecordOK(q, l)'
    BY <1>7, <1>9
  <2> QED
    BY <1>1, <1>2, <1>3, <1>6, <1>10, <1>11, <2>1, StepOfCall

(* A new call disturbs those of its key that are in progress.              *)
LEMMA ArriveStep ==
    ASSUME IdemInv, NEW c \in Callers, Arrive(c)
    PROVE  IdemInv'
<1>1. PICK k \in Keys \cup {NoKey}, op \in Operations :
        LET met == {d \in OfKey(NormalizePath(op), k) : InProgress(d)}
        IN  idem' = [Disturbed(met) EXCEPT ![c] =
                [NewIdem EXCEPT !.key = k, !.op = op, !.alone = (met = {}),
                     !.pc = IF ~Installed THEN "run" ELSE IF k = NoKey THEN "over" ELSE IF ~OrgOnRequest THEN "run" ELSE "find"]]
  BY DEF Arrive
<1> DEFINE met == {d \in OfKey(NormalizePath(op), k) : InProgress(d)}
           pc == IF ~Installed THEN "run" ELSE IF k = NoKey THEN "over" ELSE IF ~OrgOnRequest THEN "run" ELSE "find"
           v == [NewIdem EXCEPT !.key = k, !.op = op, !.alone = (met = {}), !.pc = pc]
<1>2. idem[c].pc = "new" /\ ~idem[c].ran /\ idem[c].answer = NoCaller /\ UNCHANGED keyRow
  BY DEF Arrive, IdemAt, IdemInv, CallOK
<1>3. idem \in [Callers -> CallType]
  BY DEF IdemInv, IdemTypeOK, CallType
<1>4. v \in CallType /\ v.pc = pc /\ v.key = k /\ v.op = op /\ ~v.ran /\ v.answer = NoCaller /\ v.alone = (met = {})
  <2>1. (met = {}) \in BOOLEAN /\ pc \in {"run", "over", "find"}
    OBVIOUS
  <2> HIDE DEF met, pc
  <2> QED
    BY <2>1, NewIdemType DEF CallType
<1>5. /\ Disturbed(met) \in [Callers -> CallType]
      /\ \A d \in Callers : /\ Disturbed(met)[d].pc = idem[d].pc /\ Disturbed(met)[d].key = idem[d].key /\ Disturbed(met)[d].op = idem[d].op
                            /\ Disturbed(met)[d].ran = idem[d].ran /\ Disturbed(met)[d].answer = idem[d].answer
                            /\ Disturbed(met)[d].alone => idem[d].alone /\ d \notin met
  BY <1>3, DisturbedCalls
<1>6. idem' = [Disturbed(met) EXCEPT ![c] = v]
  BY <1>1
<1>7. /\ idem' \in [Callers -> CallType] /\ idem'[c] = v /\ OthersRest(c)
      /\ \A d \in Callers \ {c} : idem'[d].alone => d \notin met
  <2> HIDE DEF met, v
  <2> QED
    BY <1>4, <1>5, <1>6 DEF OthersRest, Rests, Same
<1>8. /\ idem'[c].pc \in {"find", "run", "over"} /\ (idem'[c].pc = "run" => ~Guarded) /\ (idem'[c].pc = "find" => Guarded /\ k \in Keys)
      /\ idem'[c].key = k /\ idem'[c].op = op /\ ~idem'[c].ran /\ idem'[c].answer = NoCaller
      /\ Guarded /\ k \in Keys => idem'[c].pc = "find"
      /\ idem'[c].alone => met = {}
  <2>1. /\ pc \in {"find", "run", "over"} /\ (pc = "run" => ~Guarded) /\ (pc = "find" => Guarded /\ k \in Keys)
        /\ Guarded /\ k \in Keys => pc = "find"
    BY IdemAssumption DEF Guarded
  <2> HIDE DEF met, v, pc
  <2> QED
    BY <1>4, <1>7, <2>1
<1> HIDE DEF v, pc
<1>9. IdemTypeOK'
  BY <1>2, <1>7 DEF IdemInv, IdemTypeOK, CallType
<1>10. CallOK(c)' /\ AnswerOK(c)'
  BY IdemAssumption, <1>8 DEF CallOK, AnswerOK, Asks, Settles
<1>11. AloneOK(c)'
  <2> SUFFICES ASSUME Counts(c)' PROVE AloneRecord(c)' /\ AloneAmong(c)'
    BY DEF AloneOK
  <2>1. idem'[c].pc = "find" /\ met = {}
    BY <1>8 DEF Counts
  <2>2. \A d \in Callers \ {c} : SameKey(c, d)' => ~InProgress(d)'
    BY <1>7, <1>8, <2>1 DEF SameKey, OthersRest, Rests, Same, OfKey, InProgress, NormalizePath
  <2> QED
    BY <1>8, <2>1, <2>2 DEF AloneRecord, AloneAmong, Settles
<1>12. ASSUME NEW d \in Callers \ {c} PROVE AloneOK(d)'
  <2> SUFFICES ASSUME Counts(d)' PROVE AloneRecord(d)' /\ AloneAmong(d)'
    BY DEF AloneOK
  <2>1. Rests(d) /\ Counts(d) /\ AloneRecord(d) /\ AloneAmong(d) /\ d \notin met
    BY <1>7 DEF OthersRest, Rests, Same, Counts, IdemInv, AloneOK
  <2>2. Record(d)' = Record(d)
    BY <1>2, <2>1 DEF Record, Rests, Same, NormalizePath
  <2>3. AloneRecord(d)'
    BY <2>1, <2>2 DEF AloneRecord, Rests, Same, Settles, RequestHash
  <2>4. ASSUME NEW e \in Callers \ {d}, SameKey(d, e)', InProgress(e)'
        PROVE  ~InProgress(d)' /\ (idem'[d].ran /\ idem'[d].pc = "over" => idem'[e].pc = "find")
    <3>1. CASE e # c
      BY <1>7, <2>1, <2>4, <3>1 DEF AloneAmong, OthersRest, Rests, Same, SameKey, InProgress, NormalizePath
    <3>2. CASE e = c
      <4>1. idem[d].key = k /\ NormalizePath(idem[d].op) = NormalizePath(op) /\ k \in Keys /\ Guarded
        BY <1>8, <2>1, <2>4, <3>2 DEF SameKey, Rests, Same, Counts, NormalizePath
      <4>2. ~InProgress(d)
        BY <2>1, <4>1 DEF OfKey
      <4> QED
        BY <1>8, <2>1, <3>2, <4>1, <4>2 DEF InProgress, Rests
    <3> QED
      BY <3>1, <3>2
  <2> QED
    BY <2>3, <2>4 DEF AloneAmong
<1> QED
  <2>1. \A d \in Callers : CallOK(d)' /\ AnswerOK(d)'
    BY <1>2, <1>7, <1>10, AnswersStay
  <2>2. \A p \in Paths, l \in Keys : RecordOK(p, l)'
    BY <1>2, <1>7, RecordStays
  <2> QED
    BY <1>9, <1>11, <1>12, <2>1, <2>2 DEF IdemInv

(* Keys grow old and are removed.                                          *)
LEMMA TimeStep ==
    ASSUME IdemInv, CleanupExpired \/ \E p \in Paths, k \in Keys : KeyExpires(p, k)
    PROVE  IdemInv'
<1>1. keyRow \in [Paths -> [Keys -> RecordType]] /\ idem \in [Callers -> CallType]
  BY DEF IdemInv, IdemTypeOK, RecordType, CallType
<1>2. PICK S : idem' = Disturbed(S)
  BY DEF CleanupExpired, KeyExpires
<1>3. idem' \in [Callers -> CallType] /\ \A d \in Callers : Rests(d) /\ (idem'[d].alone => d \notin S)
  BY <1>1, <1>2 DEF Disturbed, Rests, Same, CallType
<1>4. ASSUME NEW p \in Paths, NEW k \in Keys
      PROVE  keyRow'[p][k] \in {keyRow[p][k], NoRecord, [keyRow[p][k] EXCEPT !.expired = TRUE]}
  <2>1. CASE CleanupExpired
    BY <1>4, <2>1 DEF CleanupExpired
  <2>2. ASSUME NEW q \in Paths, NEW l \in Keys, KeyExpires(q, l) PROVE keyRow'[p][k] \in {keyRow[p][k], [keyRow[p][k] EXCEPT !.expired = TRUE]}
    BY <1>1, <1>4, <2>2 DEF KeyExpires
  <2> QED
    BY <2>1, <2>2
<1>5. IdemTypeOK'
  <2>1. NoRecord \in RecordType
    BY DEF NoRecord, RecordType
  <2>2. keyRow' \in [Paths -> [Keys -> RecordType]]
    <3>1. CASE CleanupExpired
      BY <1>1, <2>1, <3>1 DEF CleanupExpired
    <3>2. CASE \E p \in Paths, k \in Keys : KeyExpires(p, k)
      <4>1. PICK p \in Paths, k \in Keys : keyRow' = [keyRow EXCEPT ![p][k].expired = TRUE]
        BY <3>2 DEF KeyExpires
      <4>2. keyRow[p][k] \in RecordType
        BY <1>1
      <4>3. [keyRow[p][k] EXCEPT !.expired = TRUE] \in RecordType
        BY <4>2 DEF RecordType
      <4> QED
        BY <1>1, <4>1, <4>3
    <3> QED
      BY <3>1, <3>2
  <2> QED
    BY <1>3, <2>2 DEF IdemTypeOK, CallType, RecordType
<1>6. ASSUME NEW c \in Callers PROVE CallOK(c)' /\ AnswerOK(c)'
  <2>1. CallOK(c)'
    BY <1>3 DEF IdemInv, CallOK, Asks, Settles, Rests, Same
  <2>2. AnswerOK(c)'
    BY <1>3 DEF IdemInv, AnswerOK, Ours, Rests, Same
  <2> QED
    BY <2>1, <2>2
<1>7. \A p \in Paths, k \in Keys : RecordOK(p, k)'
  <2>1. ASSUME NEW p \in Paths, NEW k \in Keys PROVE RecordOK(p, k)'
    <3>1. keyRow[p][k] \in RecordType /\ RecordOK(p, k)
      BY <1>1 DEF IdemInv
    <3>2. CASE keyRow'[p][k] = NoRecord
      BY <3>2 DEF NoRecord, RecordOK
    <3>3. CASE keyRow'[p][k] \in {keyRow[p][k], [keyRow[p][k] EXCEPT !.expired = TRUE]}
      <4>1. /\ keyRow'[p][k].state = keyRow[p][k].state /\ keyRow'[p][k].answer = keyRow[p][k].answer
            /\ keyRow'[p][k].hash = keyRow[p][k].hash
        BY <3>1, <3>3 DEF RecordType
      <4> QED
        BY <1>3, <3>1, <4>1 DEF RecordOK, Ours, Rests, Same
    <3> QED
      BY <1>4, <3>2, <3>3
  <2> QED
    BY <2>1
<1>8. ASSUME NEW c \in Callers, Counts(c)' PROVE AloneRecord(c)' /\ AloneAmong(c)'
  <2>1. Rests(c) /\ Counts(c) /\ AloneRecord(c) /\ AloneAmong(c) /\ CallOK(c) /\ NormalizePath(idem[c].op) \in Paths
    BY <1>3, <1>8 DEF Rests, Same, Counts, IdemInv, AloneOK, IdemTypeOK, NormalizePath, Paths
  <2>2. AloneAmong(c)'
    BY <1>3, <2>1 DEF AloneAmong, Rests, Same, SameKey, InProgress, NormalizePath
  <2>3. InProgress(c) \/ (idem[c].ran /\ idem[c].pc = "over") => Record(c)' = Record(c)
    <3>1. CASE CleanupExpired
      <4>1. InProgress(c) => ~Record(c).expired
        BY <1>1, <1>8, <2>1, <3>1, IdemAssumption DEF CleanupExpired, Disturbed, Counts, CallType
      <4>2. idem[c].ran /\ idem[c].pc = "over" => ~Record(c).expired
        BY <2>1 DEF AloneRecord
      <4> QED
        BY <1>1, <2>1, <3>1, <4>1, <4>2 DEF CleanupExpired, Record, Rests, Same, Counts
    <3>2. ASSUME NEW p \in Paths, NEW k \in Keys, KeyExpires(p, k) PROVE Record(c)' = Record(c)
      <4>1. ~(NormalizePath(idem[c].op) = p /\ idem[c].key = k)
        BY <1>1, <1>8, <2>1, <3>2 DEF KeyExpires, Disturbed, OfKey, IdemAt, Counts, CallOK, CallType
      <4> QED
        BY <1>1, <2>1, <3>2, <4>1 DEF KeyExpires, Record, Rests, Same, Counts
    <3> QED
      BY <3>1, <3>2
  <2>4. AloneRecord(c)'
    BY <2>1, <2>3 DEF AloneRecord, Rests, Same, Settles, InProgress, RequestHash
  <2> QED
    BY <2>2, <2>4
<1> QED
  BY <1>5, <1>6, <1>7, <1>8 DEF IdemInv, AloneOK

(* begin writes a record: the expired one is deleted, or a new one is      *)
(* inserted where there is none.                                           *)
LEMMA BeginWrites ==
    ASSUME IdemInv, NEW c \in Callers,
           \/ IdemAt(c, "delete") /\ SetRecord(c, NoRecord) /\ Goto(c, "insert")
           \/ IdemAt(c, "insert") /\ SetRecord(c, Pending(idem[c].op)) /\ Goto(c, "run")
    PROVE  IdemInv'
<1>1. Asks(c) /\ InProgress(c) /\ idem[c].pc \in {"delete", "insert"} /\ Guarded /\ idem[c].key \in Keys /\ ~idem[c].ran /\ idem[c].answer = NoCaller
  BY DEF IdemInv, CallOK, IdemAt, Asks, InProgress
<1>2. /\ idem' \in [Callers -> CallType] /\ OthersRest(c) /\ Keeps(c) /\ AnswerOK(c)'
      /\ idem'[c].pc \in {"insert", "run"} /\ idem'[c].ran = idem[c].ran /\ idem'[c].answer = idem[c].answer
  BY <1>1, GotoStep
<1>3. CallOK(c)'
  BY IdemAssumption, <1>1, <1>2 DEF CallOK, Asks, Settles, Keeps, Same
<1>4. PICK p \in Paths, k \in Keys : p = NormalizePath(idem[c].op) /\ k = idem[c].key /\ Record(c) = keyRow[p][k] /\ RequestHash(idem[c].op) \in Hashes
  BY <1>1, OwnRecord DEF Record
<1>5. PICK rec \in RecordType :
        /\ keyRow' = [keyRow EXCEPT ![p][k] = rec] /\ rec.answer = NoCaller /\ ~rec.expired
        /\ idem[c].pc = "insert" => rec.state = "pending" /\ rec.hash = RequestHash(idem[c].op) /\ idem'[c].pc = "run"
        /\ idem[c].pc = "delete" => rec.state = "none" /\ idem'[c].pc = "insert"
  <2>1. CASE IdemAt(c, "delete")
    <3>1. NoRecord \in RecordType /\ NoRecord.answer = NoCaller /\ ~NoRecord.expired /\ NoRecord.state = "none"
      BY DEF NoRecord, RecordType
    <3>2. idem'[c].pc = "insert" /\ keyRow' = [keyRow EXCEPT ![p][k] = NoRecord]
      BY <1>4, <2>1 DEF SetRecord, IdemAt, Goto, IdemInv, IdemTypeOK
    <3> QED
      BY <2>1, <3>1, <3>2 DEF IdemAt
  <2>2. CASE IdemAt(c, "insert")
    <3> DEFINE r == Pending(idem[c].op)
    <3>1. r \in RecordType /\ r.answer = NoCaller /\ ~r.expired /\ r.state = "pending" /\ r.hash = RequestHash(idem[c].op)
      BY <1>4 DEF Pending, RecordType
    <3>2. idem'[c].pc = "run" /\ keyRow' = [keyRow EXCEPT ![p][k] = r]
      BY <1>4, <2>2 DEF SetRecord, IdemAt, Goto, IdemInv, IdemTypeOK
    <3> HIDE DEF r
    <3> QED
      BY <2>2, <3>1, <3>2 DEF IdemAt
  <2> QED
    BY <2>1, <2>2
<1>6. IdemTypeOK'
  <2>1. keyRow \in [Paths -> [Keys -> RecordType]]
    BY DEF IdemInv, IdemTypeOK, RecordType
  <2>2. keyRow' \in [Paths -> [Keys -> RecordType]]
    BY <1>5, <2>1
  <2> QED
    BY <1>2, <2>2 DEF IdemTypeOK, CallType, RecordType
<1>7. /\ \A q \in Paths, l \in Keys : keyRow'[q][l] = keyRow[q][l] \/ (q = p /\ l = k)
      /\ keyRow'[p][k] = rec
  BY <1>4, <1>5 DEF IdemInv, IdemTypeOK
<1>8. RecordOK(p, k)'
  BY <1>5, <1>7 DEF RecordOK
<1>9. AloneRecord(c)'
  <2>1. Record(c)' = rec
    BY <1>2, <1>4, <1>7 DEF Record, Keeps, Same
  <2> QED
    BY <1>1, <1>2, <1>5, <2>1 DEF AloneRecord, Settles, Keeps, Same, Exists
<1>10. FindEnds(c) /\ OwnOnly(c)
  BY <1>1, <1>4, <1>7 DEF FindEnds, OwnOnly
<1> QED
  <2>1. \A q \in Paths, l \in Keys : keyRow'[q][l] = keyRow[q][l] \/ RecordOK(q, l)'
    BY <1>7, <1>8
  <2> QED
    BY <1>1, <1>2, <1>3, <1>6, <1>9, <1>10, <2>1, StepOfCall

(* begin, query by query.                                                  *)
LEMMA BeginStep ==
    ASSUME IdemInv, NEW c \in Callers,
           BeginFind(c) \/ BeginDelete(c) \/ BeginInsert(c) \/ BeginReread(c) \/ BeginFails(c)
    PROVE  IdemInv'
<1>1. Asks(c) /\ idem[c].key \in Keys /\ Guarded /\ (Counts(c) => AloneRecord(c)) /\ Record(c) \in RecordType
  <2>1. Asks(c)
    BY DEF Asks, BeginFind, BeginDelete, BeginInsert, BeginReread, BeginFails, IdemAt
  <2> QED
    BY <2>1, OwnRecord DEF IdemInv, CallOK, AloneOK
<1>2. CASE BeginFind(c)
  <2>1. CASE Exists(Record(c)) /\ ~Record(c).expired
    BY <1>1, <1>2, <2>1, BeginDecides DEF BeginFind
  <2>2. CASE ~(Exists(Record(c)) /\ ~Record(c).expired)
    <3>1. PICK pc \in {"delete", "insert"} : Goto(c, pc) /\ pc = IF Exists(Record(c)) THEN "delete" ELSE "insert"
      BY <1>2, <2>2 DEF BeginFind
    <3>2. ~(Record(c).state = "cached" /\ ~Record(c).expired) /\ UNCHANGED keyRow
      BY <1>2, <2>2 DEF Exists, BeginFind
    <3>3. (pc = "insert" /\ ~Exists(Record(c))) \/ (pc = "delete" /\ Exists(Record(c)) /\ Record(c).expired)
      BY <2>2, <3>1
    <3> QED
      BY <1>1, <3>1, <3>2, <3>3, BeginGoesOn
  <2> QED
    BY <2>1, <2>2
<1>3. CASE BeginDelete(c)
  <2>1. CASE Exists(Record(c)) /\ Record(c).expired
    BY <1>3, <2>1, BeginWrites DEF BeginDelete
  <2>2. CASE ~(Exists(Record(c)) /\ Record(c).expired)
    <3>1. Goto(c, "run") /\ UNCHANGED keyRow /\ idem[c].pc = "delete" /\ ~Counts(c)
      BY <1>1, <1>3, <2>2 DEF BeginDelete, IdemAt, AloneRecord
    <3> QED
      BY <1>1, <3>1, BeginGoesOn
  <2> QED
    BY <2>1, <2>2
<1>4. CASE BeginInsert(c)
  <2>1. CASE ~Exists(Record(c))
    BY <1>4, <2>1, BeginWrites DEF BeginInsert
  <2>2. CASE Exists(Record(c))
    <3>1. Goto(c, "reread") /\ UNCHANGED keyRow /\ idem[c].pc = "insert" /\ ~Counts(c)
      BY <1>1, <1>4, <2>2 DEF BeginInsert, IdemAt, AloneRecord
    <3> QED
      BY <1>1, <3>1, BeginGoesOn
  <2> QED
    BY <2>1, <2>2
<1>5. CASE BeginReread(c)
  <2>1. idem[c].pc = "reread" /\ ~Counts(c) /\ UNCHANGED keyRow
    BY <1>1, <1>5 DEF BeginReread, IdemAt, AloneRecord
  <2>2. CASE Exists(Record(c)) /\ ~Record(c).expired
    BY <1>1, <1>5, <2>2, BeginDecides DEF BeginReread
  <2>3. CASE ~(Exists(Record(c)) /\ ~Record(c).expired)
    <3>1. Goto(c, "run")
      BY <1>5, <2>3 DEF BeginReread
    <3> QED
      BY <1>1, <2>1, <3>1, BeginGoesOn
  <2> QED
    BY <2>2, <2>3
<1>6. CASE BeginFails(c)
  BY <1>1, <1>6, BeginGoesOn DEF BeginFails
<1> QED
  BY <1>2, <1>3, <1>4, <1>5, <1>6

LEMMA IdemKeepsInv ==
    ASSUME IdemInv, [IdemNext /\ UNCHANGED calm]_<<idemVars, calm>>
    PROVE  IdemInv'
<1>1. CASE IdemNext
  BY <1>1, ArriveStep, BeginStep, HandlerStep, SettleStep, CrashStep, TimeStep DEF IdemNext, IdemStep
<1>2. CASE UNCHANGED <<idemVars, calm>>
  BY <1>2 DEF idemVars, IdemInv, IdemTypeOK, CallOK, AnswerOK, RecordOK, AloneOK, Counts, AloneRecord, AloneAmong,
              Asks, Settles, Ours, Record, InProgress, SameKey
<1> QED
  BY <1>1, <1>2

(* The invariant of the keys.                                              *)
THEOREM KeysInvariant == IdemSpec => []IdemInv
BY IdemKeepsInv, IdemStarts, PTL DEF IdemSpec

(* Whatever fails and expires, however many calls use one key: the answer  *)
(* of a call is its own, or that of a call that committed under its key,   *)
(* with the same hash if that call was alone.                              *)
THEOREM AnswersAlwaysOurs == IdemSpec => []AnswerIsOurs
<1>1. IdemInv => AnswerIsOurs
  <2> SUFFICES ASSUME IdemInv, NEW c \in Callers, idem[c].answer # NoCaller
               PROVE  LET q == idem[c].answer IN
                        /\ idem[q].ran /\ (q = c \/ SameKey(c, q))
                        /\ (idem[q].alone => RequestHash(idem[q].op) = RequestHash(idem[c].op))
    BY DEF AnswerIsOurs
  <2>1. CASE idem[c].answer = c
    <3>1. idem[c].ran
      BY <2>1, IdemAssumption DEF IdemInv, CallOK, AnswerOK, IdemTypeOK
    <3> QED
      BY <2>1, <3>1
  <2>2. CASE idem[c].answer # c
    BY <2>2, IdemAssumption DEF IdemInv, AnswerOK, Ours, SameKey
  <2> QED
    BY <2>1, <2>2
<1> QED
  BY <1>1, KeysInvariant, PTL

(* The interceptor, where it is installed and the organization is on the   *)
(* request: once a call has committed alone, no call of its key takes      *)
(* effect any more, however many race, crash or fail after it.             *)
THEOREM InterceptorKeepsOncePerKey == ASSUME Guarded PROVE IdemSpec => OncePerKey
<1>1. IdemInv /\ [IdemNext /\ UNCHANGED calm]_<<idemVars, calm>> =>
        [\A c, d \in Callers : c # d /\ SameKey(c, d) /\ idem[c].ran /\ idem[c].pc = "over" /\ idem[c].alone
            => idem'[d].ran = idem[d].ran]_idemVars
  <2> SUFFICES ASSUME IdemInv, IdemNext, NEW c \in Callers, NEW d \in Callers, c # d, SameKey(c, d),
                      idem[c].ran, idem[c].pc = "over", idem[c].alone
               PROVE  idem'[d].ran = idem[d].ran
    OBVIOUS
  <2>1. Counts(c) /\ (InProgress(d) => idem[d].pc = "find")
    BY DEF IdemInv, CallOK, AloneOK, AloneAmong, Counts
  <2>2. idem[d].pc # "new" /\ idem[d].pc # "run"
    BY <2>1 DEF InProgress, IdemInv, CallOK, Counts, SameKey
  <2>3. idem \in [Callers -> CallType]
    BY DEF IdemInv, IdemTypeOK, CallType
  <2>4. CASE CleanupExpired \/ \E p \in Paths, k \in Keys : KeyExpires(p, k)
    BY <2>3, <2>4 DEF CleanupExpired, KeyExpires, Disturbed, CallType
  <2>5. ASSUME NEW e \in Callers, IdemStep(e) PROVE idem'[d].ran = idem[d].ran
    <3>1. CASE Arrive(e)
      <4>1. d # e
        BY <2>2, <3>1 DEF Arrive, IdemAt
      <4> QED
        BY <2>3, <3>1, <4>1 DEF Arrive, Disturbed, CallType
    <3>2. CASE HandlerSucceeds(e)
      <4>1. d # e
        BY <2>2, <3>2 DEF HandlerSucceeds, IdemAt
      <4> QED
        BY <2>3, <3>2, <4>1 DEF HandlerSucceeds
    <3>3. CASE BeginFails(e) \/ IdemCrash(e)
      <4>1. PICK S, pc : idem' = [Disturbed(S) EXCEPT ![e].pc = pc]
        BY <3>3 DEF BeginFails, IdemCrash
      <4> QED
        BY <2>3, <4>1, DisturbedCalls
    <3>4. CASE BeginFind(e) \/ BeginReread(e)
      BY <2>3, <3>4 DEF BeginFind, BeginReread, Decide, Goto, CallType
    <3>5. CASE BeginDelete(e) \/ BeginInsert(e) \/ HandlerThrows(e) \/ Complete(e) \/ Fail(e)
      BY <2>3, <3>5 DEF BeginDelete, BeginInsert, HandlerThrows, Complete, Fail, Goto, CallType
    <3> QED
      BY <2>5, <3>1, <3>2, <3>3, <3>4, <3>5 DEF IdemStep
  <2> QED
    BY <2>4, <2>5 DEF IdemNext
<1> QED
  BY <1>1, KeysInvariant, PTL DEF IdemSpec, OncePerKey
-----------------------------------------------------------------------------
(* The rate limit.  A window is a multiple of Window, and times of one     *)
(* window are fewer than Window apart.                                     *)
LEMMA WindowOf ==
    ASSUME NEW t \in Nat
    PROVE  /\ WindowStart(t) \in Nat /\ WindowStart(t) <= t /\ t < WindowStart(t) + Window
           /\ \E k \in Nat : WindowStart(t) = Window * k
  <1> DEFINE W == Window
             k == t \div W
             r == t % W
  <1>1. W \in Nat /\ W > 0
    BY RateAssumption
  <1>2. k \in Nat /\ r \in 0..W-1 /\ t = W * k + r
    BY <1>1
  <1>3. WindowStart(t) = W * k
    BY <1>1, <1>2 DEF WindowStart
  <1>4. W * k \in Nat
    BY <1>1, <1>2
  <1> HIDE DEF k, r, W
  <1> QED
    BY <1>1, <1>2, <1>3, <1>4 DEF W

LEMMA WindowsApart ==
    ASSUME NEW s \in Nat, NEW t \in Nat, WindowStart(s) < WindowStart(t)
    PROVE  WindowStart(s) + Window <= WindowStart(t)
  <1>1. PICK j \in Nat : WindowStart(s) = Window * j
    BY WindowOf
  <1>2. PICK k \in Nat : WindowStart(t) = Window * k
    BY WindowOf
  <1>3. Window \in Nat
    BY RateAssumption
  <1>4. CASE j >= k
    <2>1. PICK d \in Nat : j = k + d
      BY <1>4
    <2>2. Window * j = Window * k + Window * d /\ Window * d \in Nat
      BY <1>3, <2>1
    <2> QED
      BY <1>1, <1>2, <1>3, <2>2
  <1>5. CASE j < k
    <2>1. PICK d \in Nat : k = j + 1 + d
      <3>1. k - j - 1 \in Nat /\ k = j + 1 + (k - j - 1)
        BY <1>5
      <3> QED
        BY <3>1
    <2>2. Window * k = Window * j + Window + Window * d /\ Window * d \in Nat
      BY <1>3, <2>1
    <2> QED
      BY <1>1, <1>2, <1>3, <2>2
  <1> QED
    BY <1>4, <1>5

(* The requests of window w that are past INCR, or never came to it, and   *)
(* those of them that passed.                                              *)
Counted(w) == {c \in Calls : check[c].pc \notin {"new", "incr"} /\ WindowStart(check[c].at) = w}
Passed(w) == {c \in Calls : check[c].pc = "allowed" /\ WindowStart(check[c].at) = w}

CheckType == [pc : {"new", "incr", "get", "allowed", "refused"}, server : Servers, at : Times]

(* A counter never shows more than the requests of its window, and in calm *)
(* weather no less: no request is so slow that it finds the key expired.   *)
(* So whoever passes finds at most Limit requests counted, among which are *)
(* all that passed before.                                                 *)
RateCalm ==
    /\ enabled = Servers
    /\ \A c \in Calls : check[c].pc \in {"incr", "get"} => now <= check[c].at + 1
    /\ \A w \in Starts : /\ Cardinality(Counted(w)) <= counter[w]
                         /\ counter[w] > 0 => ttl[w] > w + Window
                         /\ Cardinality(Passed(w)) <= Limit

RefusedOK(c) ==
    \A w \in Starts : check[c].pc = "refused" /\ WindowStart(check[c].at) = w => Cardinality(Counted(w)) > Limit

RateInv ==
    /\ RateTypeOK
    /\ \A c \in Calls : check[c].pc # "new" => check[c].at <= now
    /\ \A w \in Starts : counter[w] <= Cardinality(Counted(w))
    /\ \A c \in Calls : RefusedOK(c)
    /\ calm => RateCalm

LEMMA TimesAre ==
    /\ Times \subseteq Nat
    /\ \A t \in Times : WindowStart(t) \in Starts /\ WindowStart(t) <= t /\ t < WindowStart(t) + Window
    /\ \A w \in Starts : w \in Nat
  BY WindowOf, RateAssumption DEF Times, Starts

LEMMA CountedFinite ==
    ASSUME NEW w
    PROVE  /\ IsFiniteSet(Counted(w)) /\ Cardinality(Counted(w)) \in Nat /\ Cardinality(Counted(w)) <= Cardinality(Calls)
           /\ IsFiniteSet(Passed(w)) /\ Cardinality(Passed(w)) \in Nat /\ Cardinality(Passed(w)) <= Cardinality(Counted(w))
           /\ Cardinality(Calls) \in Nat
  <1>1. Counted(w) \subseteq Calls /\ Passed(w) \subseteq Counted(w)
    BY DEF Counted, Passed
  <1>2. IsFiniteSet(Calls)
    BY RateAssumption
  <1>3. IsFiniteSet(Counted(w)) /\ Cardinality(Counted(w)) <= Cardinality(Calls)
    BY <1>1, <1>2, FS_Subset
  <1>4. IsFiniteSet(Passed(w)) /\ Cardinality(Passed(w)) <= Cardinality(Counted(w))
    BY <1>1, <1>3, FS_Subset
  <1> QED
    BY <1>2, <1>3, <1>4, FS_CardinalityType

(* More requests are counted, none fewer.                                  *)
LEMMA CountedGrows ==
    ASSUME NEW w, Counted(w) \subseteq Counted(w)'
    PROVE  /\ IsFiniteSet(Counted(w)') /\ Cardinality(Counted(w)') \in Nat
           /\ Cardinality(Counted(w)') <= Cardinality(Calls)
           /\ Cardinality(Counted(w)) <= Cardinality(Counted(w)')
  <1>1. Counted(w)' \subseteq Calls
    BY DEF Counted
  <1>2. IsFiniteSet(Counted(w)') /\ Cardinality(Counted(w)') <= Cardinality(Calls)
    BY <1>1, RateAssumption, FS_Subset
  <1>3. Cardinality(Counted(w)) <= Cardinality(Counted(w)')
    BY <1>2, FS_Subset
  <1> QED
    BY <1>2, <1>3, FS_CardinalityType

LEMMA RateStarts == RateInit => RateInv
  <1> SUFFICES ASSUME RateInit PROVE RateInv
    OBVIOUS
  <1>1. now = 0 /\ \A c \in Calls : check[c] = NewCheck
    BY DEF RateInit
  <1>2. NewCheck \in CheckType /\ NewCheck.pc = "new"
    BY RateAssumption DEF NewCheck, CheckType, Times
  <1>3. \A w : Counted(w) = {} /\ Passed(w) = {}
    BY <1>1, <1>2 DEF Counted, Passed
  <1>4. Cardinality(Calls) \in Nat
    BY CountedFinite
  <1>5. RateTypeOK
    BY <1>1, <1>2, <1>4, RateAssumption DEF RateInit, RateTypeOK, CheckType, Times
  <1>6. \A w : Cardinality(Counted(w)) = 0 /\ Cardinality(Passed(w)) = 0
    BY <1>3, FS_EmptySet
  <1> QED
    BY <1>1, <1>2, <1>5, <1>6, RateAssumption DEF RateInit, RateInv, RateCalm, RefusedOK

(* The clock, and what calm weather rules out.                             *)
LEMMA RateTick ==
    ASSUME RateInv, UNCHANGED calm, Tick
    PROVE  RateInv'
  <1>1. UNCHANGED <<counter, ttl, enabled, check>> /\ now' = now + 1 /\ now' \in Times /\ now \in Nat
    BY RateAssumption DEF Tick, RateInv, RateTypeOK, Times
  <1>2. \A w : Counted(w)' = Counted(w) /\ Passed(w)' = Passed(w)
    BY <1>1 DEF Counted, Passed
  <1>3. RateTypeOK'
    BY <1>1 DEF RateInv, RateTypeOK
  <1>4. \A c \in Calls : check[c].at \in Nat
    BY TimesAre DEF RateInv, RateTypeOK
  <1>5. calm => RateCalm'
    BY <1>1, <1>2, <1>4 DEF RateInv, RateCalm, Tick
  <1> QED
    BY <1>1, <1>2, <1>3, <1>4, <1>5 DEF RateInv, RefusedOK

LEMMA RateFaults ==
    ASSUME RateInv, UNCHANGED calm,
           \/ ResetLimit \/ \E c \in Calls : CheckDisabled(c) \/ CommandTimesOut(c)
           \/ \E s \in Servers : RedisFails(s)
    PROVE  RateInv'
  <1>1. ~calm /\ UNCHANGED <<now, ttl>> /\ enabled' \subseteq enabled /\ (UNCHANGED counter \/ counter' = [w \in Starts |-> 0])
    BY DEF RateInv, RateCalm, ResetLimit, CheckDisabled, CommandTimesOut, RedisFails
  <1>2. \A c \in Calls : \/ check'[c] = check[c]
                         \/ /\ check[c].pc \notin {"allowed", "refused"} /\ check'[c].pc = "allowed"
                            /\ check[c].pc # "new" => check'[c].at = check[c].at
                            /\ check[c].pc = "new" => check'[c].at = now
    BY DEF RateInv, RateTypeOK, ResetLimit, CheckDisabled, CommandTimesOut, RedisFails
  <1>3. check' \in [Calls -> CheckType]
    BY DEF RateInv, RateTypeOK, CheckType, ResetLimit, CheckDisabled, CommandTimesOut, RedisFails
  <1>4. \A w : Counted(w) \subseteq Counted(w)'
    BY <1>2 DEF Counted
  <1>5. \A w : /\ Cardinality(Counted(w)') \in Nat /\ Cardinality(Counted(w)) \in Nat
               /\ Cardinality(Counted(w)) <= Cardinality(Counted(w)')
    BY <1>4, CountedGrows, CountedFinite
  <1>6. RateTypeOK'
    BY <1>1, <1>3, CountedFinite DEF RateInv, RateTypeOK, CheckType
  <1>7. \A c \in Calls : check'[c].pc # "new" => check'[c].at <= now'
    BY <1>1, <1>2, TimesAre DEF RateInv, RateTypeOK
  <1>8. \A w \in Starts : counter'[w] <= Cardinality(Counted(w)')
    BY <1>1, <1>5 DEF RateInv, RateTypeOK
  <1>9. \A c \in Calls : RefusedOK(c)'
    BY <1>2, <1>5, RateAssumption DEF RateInv, RefusedOK
  <1> QED
    BY <1>1, <1>6, <1>7, <1>8, <1>9 DEF RateInv

(* A request is checked.                                                   *)
LEMMA RateCheckStart ==
    ASSUME RateInv, UNCHANGED calm, NEW c \in Calls, CheckStart(c)
    PROVE  RateInv'
  <1>1. UNCHANGED <<now, counter, ttl, enabled>> /\ now \in Nat /\ check[c].pc = "new"
    BY RateAssumption DEF CheckStart, RateInv, RateTypeOK, Times
  <1>2. PICK s \in enabled : check' = [check EXCEPT ![c] = [pc |-> "incr", server |-> s, at |-> now]]
    BY DEF CheckStart
  <1>3. RateTypeOK'
    BY <1>1, <1>2 DEF RateInv, RateTypeOK
  <1>4. check'[c].pc = "incr" /\ check'[c].at = now /\ \A d \in Calls \ {c} : check'[d] = check[d]
    BY <1>2 DEF RateInv, RateTypeOK
  <1>5. \A w : Counted(w)' = Counted(w) /\ Passed(w)' = Passed(w)
    BY <1>1, <1>4 DEF Counted, Passed
  <1>6. calm => RateCalm'
    BY <1>1, <1>4, <1>5 DEF RateInv, RateCalm
  <1>7. \A d \in Calls : RefusedOK(d)'
    BY <1>4, <1>5 DEF RateInv, RefusedOK
  <1> QED
    BY <1>1, <1>3, <1>4, <1>5, <1>6, <1>7 DEF RateInv

(* In calm weather a request finds the key of its window.                  *)
LEMMA KeyIsThere ==
    ASSUME RateInv, NEW c \in Calls, check[c].pc \in {"incr", "get"}, NEW w, w = WindowStart(check[c].at)
    PROVE  /\ w \in Starts /\ w \in Nat /\ now \in Nat /\ w <= now /\ counter[w] \in Nat /\ ttl[w] \in Nat
           /\ Count(w) \in Nat /\ Count(w) <= counter[w]
           /\ calm => Count(w) = counter[w]
  <1>1. /\ w \in Starts /\ w \in Nat /\ w <= check[c].at /\ check[c].at < w + Window /\ check[c].at \in Nat
    BY TimesAre DEF RateInv, RateTypeOK
  <1>2. now \in Nat /\ counter[w] \in Nat /\ ttl[w] \in Nat /\ check[c].at <= now
    BY <1>1, TimesAre, CountedFinite, RateAssumption DEF RateInv, RateTypeOK
  <1>3. ASSUME calm, counter[w] > 0 PROVE ttl[w] > now
    <2>1. now <= check[c].at + 1 /\ ttl[w] > w + Window
      BY <1>1, <1>3 DEF RateInv, RateCalm
    <2> QED
      BY <1>1, <1>2, <2>1, RateAssumption
  <1> QED
    BY <1>1, <1>2, <1>3 DEF Count

LEMMA RateIncrement ==
    ASSUME RateInv, UNCHANGED calm, NEW c \in Calls, Increment(c)
    PROVE  RateInv'
  <1> PICK w : w = WindowStart(check[c].at)
    OBVIOUS
  <1>1. UNCHANGED <<now, enabled>> /\ check[c].pc = "incr"
    BY DEF Increment
  <1>2. /\ w \in Starts /\ w \in Nat /\ now \in Nat /\ w <= now /\ Count(w) \in Nat /\ Count(w) <= counter[w]
        /\ counter[w] \in Nat /\ (calm => Count(w) = counter[w])
    BY <1>1, KeyIsThere
  <1>3. counter' = [counter EXCEPT ![w] = Count(w) + 1] /\ ttl' = [ttl EXCEPT ![w] = now + Window + 1]
    BY DEF Increment
  <1>4. /\ check'[c].pc = "get" /\ check'[c].at = check[c].at /\ check'[c] \in CheckType
        /\ \A d \in Calls \ {c} : check'[d] = check[d]
    BY <1>1 DEF Increment, RateInv, RateTypeOK, CheckType
  <1>5. /\ Counted(w)' = Counted(w) \cup {c} /\ c \notin Counted(w)
        /\ \A v : v # w => Counted(v)' = Counted(v)
        /\ \A v : Passed(v)' = Passed(v)
    BY <1>1, <1>4 DEF Counted, Passed
  <1>6. /\ Cardinality(Counted(w)') = Cardinality(Counted(w)) + 1 /\ Cardinality(Counted(w)) \in Nat
        /\ Cardinality(Counted(w)') <= Cardinality(Calls) /\ Cardinality(Calls) \in Nat
    <2>1. IsFiniteSet(Counted(w)) /\ Cardinality(Counted(w)) \in Nat /\ Cardinality(Calls) \in Nat
      BY CountedFinite
    <2>2. Cardinality(Counted(w) \cup {c}) = Cardinality(Counted(w)) + 1
      BY <1>5, <2>1, FS_AddElement
    <2>3. Cardinality(Counted(w)') <= Cardinality(Calls)
      BY <1>5, CountedGrows
    <2> QED
      BY <1>5, <2>1, <2>2, <2>3
  <1>7. /\ counter'[w] = Count(w) + 1 /\ ttl'[w] = now + Window + 1
        /\ \A v \in Starts \ {w} : counter'[v] = counter[v] /\ ttl'[v] = ttl[v]
    BY <1>2, <1>3 DEF RateInv, RateTypeOK
  <1>8. counter'[w] <= Cardinality(Counted(w)')
    BY <1>2, <1>6, <1>7 DEF RateInv
  <1>9. RateTypeOK'
    <2>1. check' \in [Calls -> CheckType]
      <3>1. check \in [Calls -> CheckType] /\ check' = [check EXCEPT ![c].pc = "get"]
        BY DEF RateInv, RateTypeOK, CheckType, Increment
      <3>2. check' = [check EXCEPT ![c] = check'[c]]
        BY <3>1
      <3> QED
        BY <1>4, <3>1, <3>2
    <2>2. counter'[w] \in 0..Cardinality(Calls)
      BY <1>2, <1>6, <1>7, <1>8
    <2>3. counter' \in [Starts -> 0..Cardinality(Calls)]
      BY <1>2, <1>3, <1>7, <2>2 DEF RateInv, RateTypeOK
    <2>4. ttl'[w] \in 0..MaxTime + Window + 1
      BY <1>2, <1>7, RateAssumption DEF RateInv, RateTypeOK, Times
    <2>5. ttl' \in [Starts -> 0..MaxTime + Window + 1]
      BY <1>2, <1>3, <1>7, <2>4 DEF RateInv, RateTypeOK
    <2> QED
      BY <1>1, <2>1, <2>3, <2>5 DEF RateInv, RateTypeOK, CheckType
  <1>10. \A d \in Calls : check'[d].pc # "new" => check'[d].at <= now'
    BY <1>1, <1>4 DEF RateInv
  <1>11. \A v \in Starts : counter'[v] <= Cardinality(Counted(v)')
    BY <1>5, <1>7, <1>8 DEF RateInv
  <1>12. \A d \in Calls : RefusedOK(d)'
    <2>1. ASSUME NEW d \in Calls, NEW v \in Starts, check'[d].pc = "refused", WindowStart(check'[d].at) = v
          PROVE  Cardinality(Counted(v)') > Limit
      <3>1. check'[d] = check[d] /\ Cardinality(Counted(v)) > Limit
        BY <1>4, <2>1 DEF RateInv, RefusedOK
      <3> QED
        BY <1>5, <1>6, <3>1, RateAssumption
    <2> QED
      BY <2>1 DEF RefusedOK
  <1>13. ASSUME calm PROVE RateCalm'
    <2>1. \A d \in Calls : check'[d].pc \in {"incr", "get"} => now' <= check'[d].at + 1
      BY <1>1, <1>4, <1>13 DEF RateInv, RateCalm
    <2>2. Cardinality(Counted(w)') <= counter'[w] /\ ttl'[w] > w + Window
      <3>1. Cardinality(Counted(w)) <= counter[w]
        BY <1>2, <1>13 DEF RateInv, RateCalm
      <3> QED
        BY <1>2, <1>6, <1>7, <1>13, <3>1, RateAssumption
    <2>3. \A v \in Starts : /\ Cardinality(Counted(v)') <= counter'[v]
                            /\ counter'[v] > 0 => ttl'[v] > v + Window
                            /\ Cardinality(Passed(v)') <= Limit
      BY <1>5, <1>7, <1>13, <2>2 DEF RateInv, RateCalm
    <2>4. enabled' = Servers
      BY <1>1, <1>13 DEF RateInv, RateCalm
    <2> QED
      BY <2>1, <2>3, <2>4 DEF RateCalm
  <1> QED
    BY <1>9, <1>10, <1>11, <1>12, <1>13 DEF RateInv

LEMMA RateVerdict ==
    ASSUME RateInv, UNCHANGED calm, NEW c \in Calls, Verdict(c)
    PROVE  RateInv'
  <1> PICK w : w = WindowStart(check[c].at)
    OBVIOUS
  <1>1. UNCHANGED <<now, counter, ttl, enabled>> /\ check[c].pc = "get"
    BY DEF Verdict
  <1>2. /\ w \in Starts /\ Count(w) \in Nat /\ Count(w) <= counter[w] /\ counter[w] \in Nat
        /\ (calm => Count(w) = counter[w])
    BY <1>1, KeyIsThere
  <1>3. /\ check'[c].pc = (IF Count(w) <= Limit THEN "allowed" ELSE "refused") /\ check'[c].at = check[c].at
        /\ \A d \in Calls \ {c} : check'[d] = check[d]
    BY DEF Verdict, RateInv, RateTypeOK
  <1>4. RateTypeOK'
    BY <1>1 DEF Verdict, RateInv, RateTypeOK
  <1>5. \A v : Counted(v)' = Counted(v) /\ (v # w => Passed(v)' = Passed(v))
    BY <1>1, <1>3 DEF Counted, Passed
  <1>6. Count(w) > Limit => Passed(w)' = Passed(w)
    <2>1. Count(w) > Limit => check'[c].pc = "refused"
      BY <1>2, <1>3, RateAssumption
    <2> QED
      BY <1>1, <1>3, <2>1 DEF Passed
  <1>7. Count(w) <= Limit /\ calm => Cardinality(Passed(w)') <= Limit
    <2> SUFFICES ASSUME Count(w) <= Limit, calm PROVE Cardinality(Passed(w)') <= Limit
      OBVIOUS
    <2>1. Passed(w)' \subseteq Counted(w)
      BY <1>1, <1>3 DEF Passed, Counted
    <2>2. IsFiniteSet(Counted(w)) /\ Cardinality(Counted(w)) \in Nat /\ Cardinality(Counted(w)) <= counter[w]
      BY <1>2, CountedFinite DEF RateInv, RateCalm
    <2>3. IsFiniteSet(Passed(w)') /\ Cardinality(Passed(w)') <= Cardinality(Counted(w))
      BY <2>1, <2>2, FS_Subset
    <2>4. Cardinality(Passed(w)') \in Nat
      BY <2>3, FS_CardinalityType
    <2> QED
      BY <1>2, <2>2, <2>3, <2>4, RateAssumption
  <1>8. Count(w) > Limit => Cardinality(Counted(w)) > Limit
    <2>1. counter[w] <= Cardinality(Counted(w)) /\ Cardinality(Counted(w)) \in Nat
      BY <1>2, CountedFinite DEF RateInv
    <2> QED
      BY <1>2, <2>1, RateAssumption
  <1>9. \A d \in Calls : RefusedOK(d)'
    BY <1>2, <1>3, <1>5, <1>8, RateAssumption DEF RateInv, RefusedOK
  <1>10. calm => RateCalm'
    BY <1>1, <1>2, <1>3, <1>5, <1>6, <1>7, RateAssumption DEF RateInv, RateCalm
  <1> QED
    BY <1>1, <1>3, <1>4, <1>5, <1>9, <1>10 DEF RateInv

(* The invariant of the counters.                                          *)
THEOREM RateInvariant == RateSpec => []RateInv
  <1>1. RateInv /\ [RateNext /\ UNCHANGED calm]_<<rateVars, calm>> => RateInv'
    <2> SUFFICES ASSUME RateInv, [RateNext /\ UNCHANGED calm]_<<rateVars, calm>> PROVE RateInv'
      OBVIOUS
    <2>1. CASE RateNext /\ UNCHANGED calm
      BY <2>1, RateTick, RateFaults, RateCheckStart, RateIncrement, RateVerdict DEF RateNext
    <2>2. CASE UNCHANGED <<rateVars, calm>>
      <3>1. \A w : Counted(w)' = Counted(w) /\ Passed(w)' = Passed(w)
        BY <2>2 DEF rateVars, Counted, Passed
      <3> QED
        BY <2>2, <3>1 DEF rateVars, RateInv, RateTypeOK, RateCalm, RefusedOK
    <2> QED
      BY <2>1, <2>2
  <1> QED
    BY <1>1, RateStarts, PTL DEF RateSpec

(* Requests that passed in any stretch as long as a window belong to two   *)
(* windows at most.                                                        *)
LEMMA TwoWindows ==
    ASSUME RateInv, RateCalm, NEW t \in Times
    PROVE  Allowed(t..t + Window - 1) <= 2 * Limit
  <1> DEFINE A == {c \in Calls : check[c].pc = "allowed" /\ check[c].at \in t..t + Window - 1}
             w == WindowStart(t)
             v == w + Window
  <1>1. Window \in Nat \ {0} /\ Limit \in Nat /\ t \in Nat /\ w \in Starts /\ w \in Nat /\ w <= t /\ t < w + Window
    BY RateAssumption, TimesAre
  <1>2. A \subseteq Passed(w) \cup Passed(v)
    <2> SUFFICES ASSUME NEW c \in A PROVE c \in Passed(w) \cup Passed(v)
      OBVIOUS
    <2>1. check[c].at \in Times /\ check[c].at \in Nat /\ t <= check[c].at /\ check[c].at < t + Window
      BY <1>1, TimesAre DEF RateInv, RateTypeOK
    <2>2. PICK u : u = WindowStart(check[c].at)
      OBVIOUS
    <2>3. u \in Nat /\ u <= check[c].at /\ check[c].at < u + Window
      BY <2>1, <2>2, TimesAre
    <2>4. u < w => u + Window <= w
      BY <1>1, <2>1, <2>2, WindowsApart
    <2>5. w < u => w + Window <= u
      BY <1>1, <2>1, <2>2, WindowsApart
    <2>6. u = w \/ w + Window <= u
      BY <1>1, <2>1, <2>3, <2>4, <2>5
    <2>7. CASE u # w /\ u # v
      <3>1. v = w + Window /\ v \in Nat /\ v < u
        BY <1>1, <2>3, <2>6, <2>7
      <3>2. \E k \in Nat : w = Window * k
        BY <1>1, WindowOf
      <3>3. \E k \in Nat : u = Window * k
        BY <2>1, <2>2, WindowOf
      <3>4. v + Window <= u
        <4>1. PICK j \in Nat : w = Window * j
          BY <3>2
        <4>2. PICK k \in Nat : u = Window * k
          BY <3>3
        <4>3. v = Window * (j + 1)
          BY <1>1, <3>1, <4>1
        <4>4. CASE k <= j + 1
          <5>1. PICK d \in Nat : j + 1 = k + d
            <6>1. (j + 1) - k \in Nat /\ j + 1 = k + ((j + 1) - k)
              BY <4>4
            <6> QED
              BY <6>1
          <5>2. Window * (k + d) = Window * k + Window * d /\ Window * d \in Nat
            BY <1>1, <5>1
          <5> QED
            BY <1>1, <3>1, <4>2, <4>3, <5>1, <5>2, <2>3
        <4>5. CASE k > j + 1
          <5>1. PICK d \in Nat : k = (j + 1) + 1 + d
            <6>1. k - (j + 1) - 1 \in Nat /\ k = (j + 1) + 1 + (k - (j + 1) - 1)
              BY <4>5
            <6> QED
              BY <6>1
          <5>2. Window * ((j + 1) + 1 + d) = Window * (j + 1) + Window + Window * d /\ Window * d \in Nat
            BY <1>1, <5>1
          <5> QED
            BY <1>1, <3>1, <4>2, <4>3, <5>1, <5>2
        <4> QED
          BY <4>4, <4>5
      <3> QED
        BY <1>1, <2>1, <2>3, <3>1, <3>4
    <2> QED
      BY <2>2, <2>7 DEF Passed
  <1>3. Passed(v) = {} \/ v \in Starts
    BY TimesAre DEF Passed, RateInv, RateTypeOK
  <1>4. IsFiniteSet(Passed(w)) /\ IsFiniteSet(Passed(v)) /\ Cardinality(Passed(w)) <= Limit /\ Cardinality(Passed(v)) <= Limit
    BY <1>1, <1>3, CountedFinite, FS_EmptySet DEF RateCalm
  <1>5. Cardinality(Passed(w)) \in Nat /\ Cardinality(Passed(v)) \in Nat
    BY CountedFinite
  <1> HIDE DEF A, w, v
  <1>6. PICK P, Q : P = Passed(w) /\ Q = Passed(v)
    OBVIOUS
  <1>7. IsFiniteSet(P \cup Q) /\ Cardinality(P \cup Q) = Cardinality(P) + Cardinality(Q) - Cardinality(P \cap Q)
    BY <1>4, <1>6, FS_Union
  <1>8. Cardinality(P \cap Q) \in Nat
    <2>1. IsFiniteSet(P \cap Q)
      BY <1>4, <1>6, FS_Subset
    <2> QED
      BY <2>1, FS_CardinalityType
  <1>9. Cardinality(A) <= Cardinality(P \cup Q) /\ Cardinality(A) \in Nat
    <2>1. A \in SUBSET (P \cup Q)
      BY <1>2, <1>6
    <2>2. IsFiniteSet(A) /\ Cardinality(A) <= Cardinality(P \cup Q)
      BY <1>7, <2>1, FS_Subset
    <2> QED
      BY <2>2, FS_CardinalityType
  <1> QED
    BY <1>1, <1>4, <1>5, <1>6, <1>7, <1>8, <1>9 DEF Allowed, A

(* In calm weather a window admits at most Limit requests, for any number  *)
(* of servers and requests, and twice as many get through in any stretch   *)
(* as long as a window; and whatever fails, nobody is refused in a window  *)
(* that has seen no more than Limit.                                       *)
THEOREM WindowAlwaysLimited == RateSpec => []WindowLimit
  <1>1. RateInv => WindowLimit
    <2> SUFFICES ASSUME RateInv PROVE WindowLimit
      OBVIOUS
    <2>1. ASSUME calm, NEW w \in Starts PROVE Allowed(w..w + Window - 1) <= Limit
      <3>1. {c \in Calls : check[c].pc = "allowed" /\ check[c].at \in w..w + Window - 1} = Passed(w)
        <4>1. PICK s \in Times : w = WindowStart(s)
          BY DEF Starts
        <4>2. ASSUME NEW c \in Calls PROVE check[c].at \in w..w + Window - 1 <=> WindowStart(check[c].at) = w
          <5>1. PICK u : u = WindowStart(check[c].at)
            OBVIOUS
          <5>2. check[c].at \in Nat /\ s \in Nat /\ w \in Nat /\ u \in Nat /\ u <= check[c].at /\ check[c].at < u + Window
            BY <4>1, <5>1, TimesAre DEF RateInv, RateTypeOK
          <5>3. (u < w => u + Window <= w) /\ (w < u => w + Window <= u)
            BY <4>1, <5>1, <5>2, WindowsApart
          <5> QED
            BY <5>1, <5>2, <5>3, RateAssumption
        <4> QED
          BY <4>2 DEF Passed
      <3> QED
        BY <2>1, <3>1 DEF Allowed, RateInv, RateCalm
    <2>2. ASSUME calm, NEW t \in Times PROVE Allowed(t..t + Window - 1) <= 2 * Limit
      BY <2>2, TwoWindows DEF RateInv
    <2>3. ASSUME NEW c \in Calls, check[c].pc = "refused"
          PROVE  Cardinality({d \in Calls : check[d].pc # "new" /\ WindowStart(check[d].at) = WindowStart(check[c].at)}) > Limit
      <3> DEFINE w == WindowStart(check[c].at)
                 S == {d \in Calls : check[d].pc # "new" /\ WindowStart(check[d].at) = w}
      <3>1. Counted(w) \subseteq S /\ S \subseteq Calls /\ Cardinality(Counted(w)) > Limit /\ Cardinality(Counted(w)) \in Nat
        <4>1. w \in Starts
          BY TimesAre DEF RateInv, RateTypeOK
        <4> QED
          BY <2>3, <4>1, CountedFinite DEF Counted, RateInv, RefusedOK
      <3> HIDE DEF S, w
      <3>2. IsFiniteSet(S)
        BY <3>1, RateAssumption, FS_Subset
      <3>3. Cardinality(Counted(w)) <= Cardinality(S) /\ Cardinality(S) \in Nat
        BY <3>1, <3>2, FS_Subset, FS_CardinalityType
      <3> QED
        BY <3>1, <3>3, RateAssumption DEF S, w
    <2> QED
      BY <2>1, <2>2, <2>3 DEF WindowLimit
  <1> QED
    BY <1>1, RateInvariant, PTL

(* Counters, keys and requests keep to their types.                        *)
THEOREM RateTypeCorrect == RateSpec => []RateTypeOK
  BY RateInvariant, PTL DEF RateInv
-----------------------------------------------------------------------------
(* The jobs.  An entry has been taken once for every attempt BullMQ has    *)
(* ended, every stall, and the attempt that runs or was the last.  The row *)
(* counts no failure that no taking accounts for, and neither will those   *)
(* that are still to write one.                                            *)
Takes(e) == e.made + e.stalled + (IF e.state \in {"active", "completed"} THEN 1 ELSE 0)

Unsettled == {"mark", "work", "failRead", "failWrite"}
Unwritten(r) == {s \in Slots : slot[s].row = r /\ slot[s].pc \in Unsettled}

EntryOK(e) ==
    /\ e.state = "none" => e.made = 0 /\ e.stalled = 0
    /\ e.state \in {"waiting", "active"} => e.made <= MaxAttempts - 1 /\ e.stalled <= MaxStalled
    /\ e.owner \in Slots => e.state = "active"
    /\ e.state = "failed" => e.made >= MaxAttempts \/ e.stalled > MaxStalled
    /\ Takes(e) <= MaxAttempts + MaxStalled

RowCounts(r) ==
    /\ jobRow[r].attempts + Cardinality(Unwritten(r)) <= Takes(entry[r])
    /\ \A s \in Slots : slot[s].row = r /\ slot[s].pc = "failWrite" =>
          slot[s].seen + Cardinality(Unwritten(r)) <= Takes(entry[r])

(* An entry that never stalled has one worker at most, its owner; and when *)
(* its row has failed, the owner can only reject the last attempt.         *)
OneWorker(r) ==
    entry[r].stalled = 0 =>
        /\ \A s \in Slots : slot[s].row = r /\ slot[s].pc # "idle" =>
              entry[r].state = "active" /\ entry[r].owner = s
        /\ jobRow[r].status = "FAILED" =>
              /\ entry[r].made >= MaxAttempts - 1 /\ entry[r].state \in {"active", "failed"}
              /\ \A s \in Slots : slot[s].row = r /\ slot[s].pc # "idle" => slot[s].pc = "reject"

JobsInv ==
    /\ JobsTypeOK
    /\ \A r \in Rows : EntryOK(entry[r]) /\ RowCounts(r) /\ OneWorker(r)
    /\ \A q \in Requests : call[q].pc \in {"new", "add"} => entry[First(q)].state = "none"

EntryType == [state : {"none", "waiting", "active", "completed", "failed"}, made : 0..MaxAttempts,
              stalled : 0..MaxStalled + 1, owner : Slots \cup {NoSlot}]
RowType == [status : {"none", "PENDING", "PROCESSING", "DONE", "FAILED"}, attempts : Nat]
SlotType == [pc : {"idle", "mark", "work", "failRead", "failWrite", "resolve", "reject"}, row : Rows, seen : Nat]
EnqueueType == [pc : {"new", "refused", "rowOnly", "add", "queued", "deduped", "fallback", "lost"}, key : DedupeKeys \cup {NoDedupe}]

LEMMA JobsTypes ==
    JobsTypeOK <=> /\ jobRow \in [Rows -> RowType] /\ entry \in [Rows -> EntryType]
                   /\ call \in [Requests -> EnqueueType] /\ slot \in [Slots -> SlotType]
  BY DEF JobsTypeOK, RowType, EntryType, EnqueueType, SlotType

LEMMA UnwrittenFinite ==
    ASSUME NEW r
    PROVE  IsFiniteSet(Unwritten(r)) /\ Cardinality(Unwritten(r)) \in Nat
  <1>1. Unwritten(r) \subseteq Slots
    BY DEF Unwritten
  <1> QED
    BY <1>1, JobsAssumption, FS_Subset, FS_CardinalityType

LEMMA TakesType ==
    ASSUME NEW e \in EntryType
    PROVE  Takes(e) \in Nat
  <1>1. e.made \in Nat /\ e.stalled \in Nat
    BY JobsAssumption DEF EntryType
  <1> QED
    BY <1>1 DEF Takes

(* One worker moves.                                                       *)
LEMMA SlotMoves ==
    ASSUME slot \in [Slots -> SlotType], NEW s \in Slots, NEW x, slot' = [slot EXCEPT ![s] = x], NEW r
    PROVE  /\ slot'[s] = x /\ \A t \in Slots \ {s} : slot'[t] = slot[t]
           /\ Cardinality(Unwritten(r)') \in Nat /\ Cardinality(Unwritten(r)) \in Nat
           /\ s \in Unwritten(r) <=> slot[s].row = r /\ slot[s].pc \in Unsettled
           /\ s \in Unwritten(r)' <=> x.row = r /\ x.pc \in Unsettled
           /\ (s \in Unwritten(r) <=> s \in Unwritten(r)') => Unwritten(r)' = Unwritten(r)
           /\ s \in Unwritten(r) /\ s \notin Unwritten(r)' => Cardinality(Unwritten(r)') = Cardinality(Unwritten(r)) - 1
           /\ s \notin Unwritten(r) /\ s \in Unwritten(r)' => Cardinality(Unwritten(r)') = Cardinality(Unwritten(r)) + 1
  <1>1. slot'[s] = x /\ \A t \in Slots \ {s} : slot'[t] = slot[t]
    OBVIOUS
  <1>2. PICK A, B : A = Unwritten(r) /\ B = Unwritten(r)'
    OBVIOUS
  <1>3. A \subseteq Slots /\ B \subseteq Slots /\ \A t \in Slots \ {s} : t \in A <=> t \in B
    BY <1>1, <1>2 DEF Unwritten
  <1>4. IsFiniteSet(A) /\ IsFiniteSet(B)
    BY <1>3, JobsAssumption, FS_Subset
  <1>5. Cardinality(A) \in Nat /\ Cardinality(B) \in Nat
    BY <1>4, FS_CardinalityType
  <1>6. (s \in A <=> slot[s].row = r /\ slot[s].pc \in Unsettled) /\ (s \in B <=> x.row = r /\ x.pc \in Unsettled)
    BY <1>1, <1>2 DEF Unwritten
  <1>7. (s \in A <=> s \in B) => B = A
    BY <1>3
  <1>8. s \in A /\ s \notin B => Cardinality(B) = Cardinality(A) - 1
    <2>1. s \in A /\ s \notin B => B = A \ {s}
      BY <1>3
    <2> QED
      BY <1>4, <2>1, FS_RemoveElement
  <1>9. s \notin A /\ s \in B => Cardinality(B) = Cardinality(A) + 1
    <2>1. s \notin A /\ s \in B => B = A \cup {s}
      BY <1>3
    <2> QED
      BY <1>4, <2>1, FS_AddElement
  <1> QED
    BY <1>1, <1>2, <1>5, <1>6, <1>7, <1>8, <1>9

(* What keeps the facts about a row: no worker more, none that forgets a   *)
(* failure, and none that leaves the rejection but to be idle.             *)
LEMMA RowKept ==
    ASSUME JobsTypeOK, NEW r \in Rows, RowCounts(r), OneWorker(r),
           entry'[r] = entry[r], jobRow'[r].attempts = jobRow[r].attempts,
           jobRow'[r].status = "FAILED" => jobRow[r].status = "FAILED",
           \A t \in Slots : slot'[t].row = r /\ slot'[t].pc # "idle" =>
               /\ slot[t].row = r /\ slot[t].pc # "idle"
               /\ slot'[t].pc \in Unsettled => slot[t].pc \in Unsettled
               /\ slot[t].pc = "reject" => slot'[t].pc = "reject"
               /\ slot'[t].pc = "failWrite" =>
                     \/ slot[t].pc = "failWrite" /\ slot'[t].seen = slot[t].seen
                     \/ slot'[t].seen = jobRow[r].attempts
    PROVE  RowCounts(r)' /\ OneWorker(r)'
  <1>1. Unwritten(r)' \subseteq Unwritten(r)
    BY DEF Unwritten, Unsettled
  <1>2. PICK A, B : A = Unwritten(r) /\ B = Unwritten(r)'
    OBVIOUS
  <1>3. IsFiniteSet(A) /\ Cardinality(A) \in Nat
    BY <1>2, UnwrittenFinite
  <1>4. IsFiniteSet(B) /\ Cardinality(B) <= Cardinality(A)
    BY <1>1, <1>2, <1>3, FS_Subset
  <1>5. Cardinality(B) \in Nat
    BY <1>4, FS_CardinalityType
  <1>6. PICK n : n = Takes(entry[r])
    OBVIOUS
  <1>7. n \in Nat /\ Takes(entry'[r]) = n /\ jobRow[r].attempts \in Nat /\ \A t \in Slots : slot[t].seen \in Nat
    BY <1>6, JobsTypes, TakesType DEF RowType, SlotType
  <1>8. jobRow[r].attempts + Cardinality(A) <= n
    BY <1>2, <1>6 DEF RowCounts
  <1>9. \A t \in Slots : slot[t].row = r /\ slot[t].pc = "failWrite" => slot[t].seen + Cardinality(A) <= n
    BY <1>2, <1>6 DEF RowCounts
  <1>10. jobRow'[r].attempts + Cardinality(B) <= Takes(entry'[r])
    BY <1>3, <1>4, <1>5, <1>7, <1>8
  <1>11. ASSUME NEW t \in Slots, slot'[t].row = r, slot'[t].pc = "failWrite"
         PROVE  slot'[t].seen + Cardinality(B) <= Takes(entry'[r])
    <2>1. \/ slot[t].row = r /\ slot[t].pc = "failWrite" /\ slot'[t].seen = slot[t].seen
          \/ slot'[t].seen = jobRow[r].attempts
      BY <1>11
    <2> QED
      BY <1>3, <1>4, <1>5, <1>7, <1>8, <1>9, <2>1
  <1>12. RowCounts(r)'
    BY <1>2, <1>10, <1>11 DEF RowCounts
  <1>13. OneWorker(r)'
    BY DEF OneWorker
  <1> QED
    BY <1>12, <1>13

LEMMA FirstIsRow == \A q \in Requests : First(q) \in Rows /\ <<q, "fallback">> \in Rows
  BY DEF First, Rows

LEMMA JobsStart == JobsInit => JobsInv
  <1> SUFFICES ASSUME JobsInit PROVE JobsInv
    OBVIOUS
  <1>1. /\ \A r \in Rows : jobRow[r] = NoJob /\ entry[r] = NoEntry
        /\ \A q \in Requests : call[q] = [pc |-> "new", key |-> NoDedupe]
        /\ \A s \in Slots : slot[s].pc = "idle"
    BY DEF JobsInit, IdleSlot
  <1>2. JobsTypeOK
    <2>1. (CHOOSE r \in Rows : TRUE) \in Rows
      BY JobsAssumption, FirstIsRow
    <2> QED
      BY <2>1, JobsAssumption, JobsTypes DEF JobsInit, NoJob, NoEntry, IdleSlot, RowType, EntryType, EnqueueType, SlotType
  <1>3. \A r \in Rows : EntryOK(entry[r]) /\ RowCounts(r) /\ OneWorker(r)
    <2> TAKE r \in Rows
    <2>1. Unwritten(r) = {}
      BY <1>1 DEF Unwritten, Unsettled
    <2>2. EntryOK(entry[r])
      BY <1>1, JobsAssumption DEF EntryOK, NoEntry, Takes
    <2>3. RowCounts(r)
      BY <1>1, <2>1, FS_EmptySet DEF RowCounts, NoEntry, NoJob, Takes
    <2> QED
      BY <1>1, <2>2, <2>3 DEF OneWorker, NoJob
  <1> QED
    BY <1>1, <1>2, <1>3 DEF JobsInv, NoEntry, First, Rows

(* The calls that touch no entry.                                          *)
LEMMA CallsMove ==
    ASSUME JobsInv, UNCHANGED calm, NEW q \in Requests,
           ReceiveWebhook(q) \/ EnqueueDb(q) \/ EnqueueBull(q) \/ FallbackToDb(q) \/ EnqueuerDies(q)
    PROVE  JobsInv'
  <1>1. UNCHANGED <<entry, slot>> /\ \A p \in Requests \ {q} : call'[p] = call[p]
    BY JobsTypes DEF JobsInv, ReceiveWebhook, EnqueueDb, EnqueueBull, FallbackToDb, EnqueuerDies, CallGoes
  <1>2. PICK n \in Rows : jobRow' = jobRow \/ jobRow' = [jobRow EXCEPT ![n].status = "PENDING"]
    <2>1. CASE FallbackToDb(q)
      BY <2>1, FirstIsRow DEF FallbackToDb, CreateRow
    <2> QED
      BY <2>1, FirstIsRow DEF ReceiveWebhook, EnqueueDb, EnqueueBull, EnqueuerDies, CreateRow
  <1>3. /\ jobRow' \in [Rows -> RowType]
        /\ \A r \in Rows : jobRow'[r].attempts = jobRow[r].attempts /\ jobRow'[r].status \in {jobRow[r].status, "PENDING"}
    BY <1>2, JobsTypes DEF JobsInv, RowType
  <1>4. call' \in [Requests -> EnqueueType]
    BY JobsTypes DEF JobsInv, EnqueueType, ReceiveWebhook, EnqueueDb, EnqueueBull, FallbackToDb, EnqueuerDies, CallGoes
  <1>5. JobsTypeOK'
    BY <1>1, <1>3, <1>4 DEF JobsInv, JobsTypeOK, RowType, EnqueueType
  <1>6. \A r \in Rows : EntryOK(entry[r])' /\ RowCounts(r)' /\ OneWorker(r)'
    <2> TAKE r \in Rows
    <2>1. RowCounts(r)' /\ OneWorker(r)'
      BY <1>1, <1>3, RowKept DEF JobsInv
    <2> QED
      BY <1>1, <2>1 DEF JobsInv
  <1>7. \A p \in Requests : call'[p].pc \in {"new", "add"} => entry'[First(p)].state = "none"
    <2>1. call'[q].pc \in {"new", "add"} => call[q].pc = "new"
      BY JobsTypes DEF JobsInv, EnqueueType, ReceiveWebhook, EnqueueDb, EnqueueBull, FallbackToDb, EnqueuerDies, CallGoes
    <2> QED
      BY <1>1, <2>1 DEF JobsInv
  <1> QED
    BY <1>5, <1>6, <1>7 DEF JobsInv

(* An entry comes to the queue, or is dropped as a duplicate: it has never *)
(* been taken, and its row has no worker.                                  *)
LEMMA EntryAdded ==
    ASSUME JobsInv, UNCHANGED calm, NEW q \in Requests, QueueAdd(q) \/ QueueAddFails(q)
    PROVE  JobsInv'
  <1> DEFINE f == First(q)
  <1>1. f \in Rows /\ entry[f].state = "none" /\ call[q].pc = "add" /\ UNCHANGED <<jobRow, slot>>
    BY FirstIsRow DEF JobsInv, QueueAdd, QueueAddFails
  <1>2. PICK st \in {"none", "waiting"} : entry' = [entry EXCEPT ![f].state = st]
    <2>1. entry = [entry EXCEPT ![f].state = "none"]
      BY <1>1, JobsTypes DEF JobsInv, EntryType
    <2> QED
      BY <2>1 DEF QueueAdd, QueueAddFails, AddEntry, Duplicate
  <1>3. PICK to \in {"queued", "deduped", "fallback"} : call' = [call EXCEPT ![q].pc = to]
    BY DEF QueueAdd, QueueAddFails, CallGoes
  <1> HIDE DEF f
  <1>4. JobsTypeOK'
    <2>1. entry' \in [Rows -> EntryType] /\ call' \in [Requests -> EnqueueType]
      BY <1>1, <1>2, <1>3, JobsTypes DEF JobsInv, EntryType, EnqueueType
    <2> QED
      BY <1>1, <2>1 DEF JobsInv, JobsTypeOK, EntryType, EnqueueType
  <1>5. /\ entry'[f].state = st /\ entry'[f].made = 0 /\ entry'[f].stalled = 0 /\ entry'[f].owner = entry[f].owner
        /\ \A r \in Rows \ {f} : entry'[r] = entry[r]
        /\ Takes(entry[f]) = 0 /\ Takes(entry'[f]) = 0 /\ entry[f].stalled = 0
    BY <1>1, <1>2, JobsTypes DEF JobsInv, EntryOK, EntryType, Takes
  <1>6. EntryOK(entry'[f])
    BY <1>1, <1>2, <1>5, JobsAssumption DEF JobsInv, EntryOK
  <1>7. \A s \in Slots : slot[s].row = f => slot[s].pc = "idle"
    BY <1>1, <1>5 DEF JobsInv, OneWorker
  <1>8. RowCounts(f)' /\ OneWorker(f)'
    <2>1. Unwritten(f)' = Unwritten(f)
      BY <1>1 DEF Unwritten
    <2>2. jobRow[f].status # "FAILED"
      BY <1>1, <1>5 DEF JobsInv, OneWorker
    <2>3. RowCounts(f)'
      BY <1>1, <1>5, <1>7, <2>1 DEF JobsInv, RowCounts
    <2>4. OneWorker(f)'
      BY <1>1, <1>7, <2>2 DEF OneWorker
    <2> QED
      BY <2>3, <2>4
  <1>9. \A r \in Rows \ {f} : EntryOK(entry'[r]) /\ RowCounts(r)' /\ OneWorker(r)'
    <2> TAKE r \in Rows \ {f}
    <2>1. RowCounts(r)' /\ OneWorker(r)'
      BY <1>1, <1>5, RowKept DEF JobsInv
    <2> QED
      BY <1>5, <2>1 DEF JobsInv
  <1>10. \A p \in Requests : call'[p].pc \in {"new", "add"} => entry'[First(p)].state = "none"
    <2>1. \A p \in Requests \ {q} : call'[p] = call[p] /\ First(p) # f /\ First(p) \in Rows
      BY <1>3, FirstIsRow, JobsTypes DEF JobsInv, First, f
    <2>2. call'[q].pc = to
      BY <1>3, JobsTypes DEF JobsInv, EnqueueType
    <2> QED
      BY <1>5, <2>1, <2>2 DEF JobsInv
  <1> QED
    BY <1>4, <1>6, <1>8, <1>9, <1>10 DEF JobsInv

(* A worker takes the entry: no other has it, unless it has stalled.       *)
LEMMA JobTaken ==
    ASSUME JobsInv, UNCHANGED calm, NEW s \in Slots, NEW r \in Rows, TakeJob(s, r)
    PROVE  JobsInv'
  <1> DEFINE x == [pc |-> "mark", row |-> r, seen |-> 0]
  <1>1. slot[s].pc = "idle" /\ entry[r].state = "waiting" /\ UNCHANGED <<jobRow, call>> /\ slot' = [slot EXCEPT ![s] = x]
    BY DEF TakeJob
  <1>2. /\ entry'[r].state = "active" /\ entry'[r].owner = s /\ entry'[r].made = entry[r].made /\ entry'[r].stalled = entry[r].stalled
        /\ \A u \in Rows \ {r} : entry'[u] = entry[u]
        /\ entry' \in [Rows -> EntryType]
    BY JobsTypes DEF TakeJob, JobsInv, EntryType
  <1>3. x \in SlotType /\ slot' \in [Slots -> SlotType]
    BY <1>1, JobsTypes DEF SlotType, JobsInv
  <1>4. JobsTypeOK'
    BY <1>1, <1>2, <1>3 DEF JobsInv, JobsTypeOK, EntryType, SlotType
  <1>5. slot'[s] = x /\ \A t \in Slots \ {s} : slot'[t] = slot[t]
    BY <1>1, JobsTypes DEF JobsInv
  <1>6. Takes(entry'[r]) = Takes(entry[r]) + 1 /\ Takes(entry[r]) \in Nat /\ entry[r].made \in Nat /\ entry[r].stalled \in Nat
    BY <1>1, <1>2, JobsTypes, JobsAssumption DEF JobsInv, Takes, EntryType
  <1>7. EntryOK(entry'[r])
    <2>1. entry[r].made <= MaxAttempts - 1 /\ entry[r].stalled <= MaxStalled
      BY <1>1 DEF JobsInv, EntryOK
    <2> QED
      BY <1>2, <1>6, <2>1, JobsAssumption DEF EntryOK, Takes
  <1>8. RowCounts(r)'
    <2>1. s \notin Unwritten(r) /\ s \in Unwritten(r)'
      BY <1>1, <1>5 DEF Unwritten, Unsettled
    <2>2. Cardinality(Unwritten(r)') = Cardinality(Unwritten(r)) + 1 /\ Cardinality(Unwritten(r)) \in Nat
      BY <1>1, <2>1, SlotMoves, JobsTypes DEF JobsInv
    <2>3. jobRow'[r].attempts \in Nat /\ \A t \in Slots : slot[t].seen \in Nat
      BY <1>1, JobsTypes DEF JobsInv, RowType, SlotType
    <2>4. jobRow'[r].attempts + Cardinality(Unwritten(r)') <= Takes(entry'[r])
      BY <1>1, <1>6, <2>2, <2>3 DEF JobsInv, RowCounts
    <2>5. \A t \in Slots : slot'[t].row = r /\ slot'[t].pc = "failWrite" => slot'[t].seen + Cardinality(Unwritten(r)') <= Takes(entry'[r])
      BY <1>5, <1>6, <2>2, <2>3 DEF JobsInv, RowCounts
    <2> QED
      BY <2>4, <2>5 DEF RowCounts
  <1>9. OneWorker(r)'
    <2>1. entry[r].stalled = 0 => jobRow[r].status # "FAILED" /\ \A t \in Slots : slot[t].row = r => slot[t].pc = "idle"
      BY <1>1 DEF JobsInv, OneWorker
    <2> QED
      BY <1>1, <1>2, <1>5, <2>1 DEF OneWorker
  <1>10. \A u \in Rows \ {r} : EntryOK(entry'[u]) /\ RowCounts(u)' /\ OneWorker(u)'
    <2> TAKE u \in Rows \ {r}
    <2>1. RowCounts(u)' /\ OneWorker(u)'
      BY <1>1, <1>2, <1>5, RowKept DEF JobsInv
    <2> QED
      BY <1>2, <2>1 DEF JobsInv
  <1>11. \A p \in Requests : call'[p].pc \in {"new", "add"} => entry'[First(p)].state = "none"
    BY <1>1, <1>2, FirstIsRow DEF JobsInv
  <1> QED
    BY <1>4, <1>7, <1>8, <1>9, <1>10, <1>11 DEF JobsInv

(* A worker goes on without writing the count, or dies: no failure more is *)
(* counted or to be counted.                                               *)
LEMMA WorkerMoves ==
    ASSUME JobsInv, UNCHANGED calm, NEW s \in Slots,
           MarkProcessing(s) \/ MarkDone(s) \/ MarkFailedRead(s) \/ MarkFailedThrows(s) \/ SlotDies(s)
    PROVE  JobsInv'
  <1> PICK r \in Rows : r = slot[s].row
    BY JobsTypes DEF JobsInv, SlotType
  <1>1. /\ UNCHANGED <<entry, call>> /\ slot[s] \in SlotType /\ jobRow[r] \in RowType
        /\ slot[s].pc # "idle"
    BY JobsTypes DEF JobsInv, SlotAt, MarkProcessing, MarkDone, MarkFailedRead, MarkFailedThrows, SlotDies
  <1>0. ASSUME NEW pc \in {"work", "resolve", "failRead", "reject", "idle"}
        PROVE  LET x == [slot[s] EXCEPT !.pc = pc] IN x \in SlotType /\ x.pc = pc /\ x.row = r
    BY <1>1 DEF SlotType
  <1>2. PICK x \in SlotType :
           /\ slot' = [slot EXCEPT ![s] = x] /\ x.row = r
           /\ x.pc \in Unsettled => slot[s].pc \in Unsettled
           /\ slot[s].pc = "reject" => x.pc = "idle"
           /\ x.pc = "failWrite" => x.seen = jobRow[r].attempts
    <2>1. CASE MarkProcessing(s)
      <3>1. PICK pc \in {"work", "reject"} : slot' = [slot EXCEPT ![s] = [slot[s] EXCEPT !.pc = pc]]
        BY <2>1 DEF MarkProcessing, SlotGoes
      <3> QED
        BY <1>0, <2>1, <3>1 DEF MarkProcessing, SlotAt, Unsettled
    <2>2. CASE MarkDone(s)
      <3>1. PICK pc \in {"resolve", "failRead"} : slot' = [slot EXCEPT ![s] = [slot[s] EXCEPT !.pc = pc]]
        BY <2>2 DEF MarkDone, SlotGoes
      <3> QED
        BY <1>0, <2>2, <3>1 DEF MarkDone, SlotAt, Unsettled
    <2>3. CASE MarkFailedRead(s)
      <3>1. slot' = [slot EXCEPT ![s] = [slot[s] EXCEPT !.pc = "failWrite", !.seen = jobRow[r].attempts]]
        BY <2>3 DEF MarkFailedRead
      <3>2. [slot[s] EXCEPT !.pc = "failWrite", !.seen = jobRow[r].attempts] \in SlotType
        BY <1>1 DEF SlotType, RowType
      <3> QED
        BY <1>1, <2>3, <3>1, <3>2 DEF MarkFailedRead, SlotAt, SlotType, Unsettled
    <2>4. CASE MarkFailedThrows(s)
      <3>1. slot' = [slot EXCEPT ![s] = [slot[s] EXCEPT !.pc = "reject"]]
        BY <2>4 DEF MarkFailedThrows, SlotGoes
      <3> QED
        BY <1>0, <2>4, <3>1 DEF MarkFailedThrows, Unsettled
    <2>5. CASE SlotDies(s)
      <3>1. slot' = [slot EXCEPT ![s] = [slot[s] EXCEPT !.pc = "idle"]]
        BY <2>5 DEF SlotDies, SlotGoes
      <3> QED
        BY <1>0, <2>5, <3>1 DEF SlotDies, Unsettled
    <2> QED
      BY <2>1, <2>2, <2>3, <2>4, <2>5
  <1>3. slot'[s] = x /\ \A t \in Slots \ {s} : slot'[t] = slot[t]
    BY <1>2, JobsTypes DEF JobsInv
  <1>4. PICK st \in {jobRow[r].status, "PROCESSING", "DONE"} : jobRow' = [jobRow EXCEPT ![r].status = st]
    <2>1. jobRow = [jobRow EXCEPT ![r].status = jobRow[r].status]
      BY JobsTypes DEF JobsInv, RowType
    <2> QED
      BY <2>1 DEF MarkProcessing, MarkDone, MarkFailedRead, MarkFailedThrows, SlotDies, SetStatus
  <1>5. /\ jobRow' \in [Rows -> RowType] /\ jobRow'[r].status = st /\ jobRow'[r].attempts = jobRow[r].attempts
        /\ \A u \in Rows \ {r} : jobRow'[u] = jobRow[u]
    BY <1>1, <1>4, JobsTypes DEF JobsInv, RowType
  <1>6. JobsTypeOK'
    <2>1. slot' \in [Slots -> SlotType]
      BY <1>2, JobsTypes DEF JobsInv
    <2> QED
      BY <1>1, <1>5, <2>1 DEF JobsInv, JobsTypeOK, RowType, SlotType
  <1>7. \A u \in Rows : EntryOK(entry'[u]) /\ RowCounts(u)' /\ OneWorker(u)'
    <2> TAKE u \in Rows
    <2>1. jobRow'[u].attempts = jobRow[u].attempts /\ (jobRow'[u].status = "FAILED" => jobRow[u].status = "FAILED")
      BY <1>4, <1>5
    <2>2. \A t \in Slots : slot'[t].row = u /\ slot'[t].pc # "idle" =>
               /\ slot[t].row = u /\ slot[t].pc # "idle"
               /\ slot'[t].pc \in Unsettled => slot[t].pc \in Unsettled
               /\ slot[t].pc = "reject" => slot'[t].pc = "reject"
               /\ slot'[t].pc = "failWrite" =>
                     \/ slot[t].pc = "failWrite" /\ slot'[t].seen = slot[t].seen
                     \/ slot'[t].seen = jobRow[u].attempts
      BY <1>1, <1>2, <1>3
    <2>3. RowCounts(u)' /\ OneWorker(u)'
      BY <1>1, <2>1, <2>2, RowKept DEF JobsInv
    <2> QED
      BY <1>1, <2>3 DEF JobsInv
  <1> QED
    BY <1>1, <1>6, <1>7 DEF JobsInv

(* A failure is counted: by the only worker when the entry never stalled,  *)
(* so that the last attempt of BullMQ is what is about to be rejected.     *)
LEMMA FailureWritten ==
    ASSUME JobsInv, UNCHANGED calm, NEW s \in Slots, MarkFailedWrite(s)
    PROVE  JobsInv'
  <1> PICK r \in Rows : r = slot[s].row
    BY JobsTypes DEF JobsInv, SlotType
  <1> DEFINE x == [slot[s] EXCEPT !.pc = "reject"]
  <1>1. /\ UNCHANGED <<entry, call>> /\ slot[s] \in SlotType /\ jobRow[r] \in RowType /\ slot[s].pc = "failWrite"
        /\ slot' = [slot EXCEPT ![s] = x]
        /\ jobRow' = [jobRow EXCEPT ![r] = [status |-> StatusAfterFailure(s), attempts |-> slot[s].seen + 1]]
    BY JobsTypes DEF JobsInv, SlotAt, SlotGoes, MarkFailedWrite
  <1>2. x \in SlotType /\ x.pc = "reject" /\ x.row = r /\ slot[s].seen \in Nat
    BY <1>1 DEF SlotType
  <1> HIDE DEF x
  <1>3. /\ slot'[s] = x /\ \A t \in Slots \ {s} : slot'[t] = slot[t]
        /\ jobRow'[r].attempts = slot[s].seen + 1 /\ jobRow'[r].status = StatusAfterFailure(s)
        /\ \A u \in Rows \ {r} : jobRow'[u] = jobRow[u]
    BY <1>1, JobsTypes DEF JobsInv
  <1>5. JobsTypeOK'
    <2>1. slot' \in [Slots -> SlotType] /\ jobRow' \in [Rows -> RowType]
      BY <1>1, <1>2, JobsTypes DEF JobsInv, RowType, StatusAfterFailure
    <2> QED
      BY <1>1, <2>1 DEF JobsInv, JobsTypeOK, RowType, SlotType
  <1>6. /\ Cardinality(Unwritten(r)') = Cardinality(Unwritten(r)) - 1
        /\ Cardinality(Unwritten(r)') \in Nat /\ Cardinality(Unwritten(r)) \in Nat
    BY <1>1, <1>2, JobsTypes, SlotMoves DEF JobsInv, Unsettled
  <1>7. Takes(entry[r]) \in Nat /\ slot[s].seen + Cardinality(Unwritten(r)) <= Takes(entry[r]) /\ Takes(entry'[r]) = Takes(entry[r])
    BY <1>1, JobsTypes, TakesType DEF JobsInv, RowCounts
  <1>8. RowCounts(r)'
    <2>1. jobRow'[r].attempts + Cardinality(Unwritten(r)') <= Takes(entry'[r])
      BY <1>2, <1>3, <1>6, <1>7
    <2>2. ASSUME NEW t \in Slots, slot'[t].row = r, slot'[t].pc = "failWrite"
          PROVE  slot'[t].seen + Cardinality(Unwritten(r)') <= Takes(entry'[r])
      <3>1. slot'[t] = slot[t] /\ slot[t].seen \in Nat
        BY <1>2, <1>3, <2>2, JobsTypes DEF JobsInv, SlotType
      <3>2. slot[t].seen + Cardinality(Unwritten(r)) <= Takes(entry[r])
        BY <2>2, <3>1 DEF JobsInv, RowCounts
      <3> QED
        BY <1>6, <1>7, <3>1, <3>2
    <2> QED
      BY <2>1, <2>2 DEF RowCounts
  <1>9. OneWorker(r)'
    <2>1. ASSUME entry[r].stalled = 0
          PROVE  /\ entry[r].state = "active" /\ entry[r].owner = s
                 /\ \A t \in Slots : slot[t].row = r /\ slot[t].pc # "idle" => t = s
      BY <1>1, <2>1 DEF JobsInv, OneWorker
    <2>2. ASSUME entry[r].stalled = 0, StatusAfterFailure(s) = "FAILED"
          PROVE  entry[r].made >= MaxAttempts - 1
      <3>1. slot[s].seen + 1 >= MaxAttempts
        BY <2>2 DEF StatusAfterFailure
      <3>2. Takes(entry[r]) = entry[r].made + 1 /\ entry[r].made \in Nat
        BY <2>1, <2>2, JobsTypes, JobsAssumption DEF JobsInv, EntryType, Takes
      <3>3. Cardinality(Unwritten(r)) >= 1
        BY <1>6
      <3> QED
        BY <1>2, <1>6, <1>7, <3>1, <3>2, <3>3, JobsAssumption
    <2> QED
      BY <1>1, <1>2, <1>3, <2>1, <2>2 DEF OneWorker
  <1>10. \A u \in Rows \ {r} : RowCounts(u)' /\ OneWorker(u)'
    <2> TAKE u \in Rows \ {r}
    <2>1. \A t \in Slots : slot'[t].row = u => slot'[t] = slot[t]
      BY <1>2, <1>3
    <2> QED
      BY <1>1, <1>3, <2>1, RowKept DEF JobsInv
  <1> QED
    BY <1>1, <1>5, <1>8, <1>9, <1>10 DEF JobsInv

(* BullMQ ends the attempt, if the worker still owns the entry.            *)
LEMMA AttemptEnds ==
    ASSUME JobsInv, UNCHANGED calm, NEW s \in Slots, JobResolved(s) \/ JobRejected(s)
    PROVE  JobsInv'
  <1> PICK r \in Rows : r = slot[s].row
    BY JobsTypes DEF JobsInv, SlotType
  <1> DEFINE x == [slot[s] EXCEPT !.pc = "idle"]
  <1>1. /\ UNCHANGED <<jobRow, call>> /\ slot[s] \in SlotType /\ entry[r] \in EntryType
        /\ slot[s].pc \in {"resolve", "reject"}
        /\ slot' = [slot EXCEPT ![s] = x]
    BY JobsTypes DEF JobsInv, SlotAt, SlotGoes, JobResolved, JobRejected
  <1>2. x \in SlotType /\ x.pc = "idle" /\ x.row = r
    BY <1>1 DEF SlotType
  <1> HIDE DEF x
  <1>3. slot'[s] = x /\ \A t \in Slots \ {s} : slot'[t] = slot[t]
    BY <1>1, JobsTypes DEF JobsInv
  <1>4. PICK e : /\ entry' = [entry EXCEPT ![r] = e]
                 /\ \/ e = entry[r]
                    \/ entry[r].owner = s /\ slot[s].pc = "resolve" /\ e = [entry[r] EXCEPT !.state = "completed", !.owner = NoSlot]
                    \/ entry[r].owner = s /\ slot[s].pc = "reject" /\ e = EntryRejected(entry[r])
                 /\ entry[r].owner = s /\ slot[s].pc = "reject" => e = EntryRejected(entry[r])
    BY JobsTypes DEF JobsInv, JobResolved, JobRejected, SlotAt
  <1>5. /\ entry[r].made \in Nat /\ entry[r].stalled \in Nat
        /\ entry[r].owner = s => /\ entry[r].state = "active" /\ entry[r].made <= MaxAttempts - 1 /\ entry[r].stalled <= MaxStalled
    BY <1>1, JobsAssumption DEF JobsInv, EntryOK, EntryType
  <1>6. e \in EntryType /\ e.stalled = entry[r].stalled /\ Takes(e) = Takes(entry[r])
    <2>1. CASE e = [entry[r] EXCEPT !.state = "completed", !.owner = NoSlot] /\ entry[r].owner = s
      BY <1>1, <1>5, <2>1 DEF EntryType, Takes
    <2>2. CASE e = EntryRejected(entry[r]) /\ entry[r].owner = s
      <3>1. PICK st \in {"failed", "waiting"} : e = [entry[r] EXCEPT !.state = st, !.made = entry[r].made + 1, !.owner = NoSlot]
        BY <2>2 DEF EntryRejected
      <3>2. entry[r].made + 1 \in 0..MaxAttempts
        BY <1>5, <2>2, JobsAssumption
      <3>3. e \in EntryType /\ e.stalled = entry[r].stalled /\ e.made = entry[r].made + 1 /\ e.state = st
        BY <1>1, <3>1, <3>2 DEF EntryType
      <3> QED
        BY <1>5, <2>2, <3>3 DEF Takes
    <2> QED
      BY <1>1, <1>4, <2>1, <2>2
  <1>7. entry'[r] = e /\ entry' \in [Rows -> EntryType] /\ \A u \in Rows \ {r} : entry'[u] = entry[u]
    BY <1>4, <1>6, JobsTypes DEF JobsInv
  <1>8. JobsTypeOK'
    <2>1. slot' \in [Slots -> SlotType]
      BY <1>1, <1>2, JobsTypes DEF JobsInv
    <2> QED
      BY <1>1, <1>7, <2>1 DEF JobsInv, JobsTypeOK, EntryType, SlotType
  <1>9. EntryOK(e)
    <2>1. CASE e = [entry[r] EXCEPT !.state = "completed", !.owner = NoSlot] /\ entry[r].owner = s
      <3>1. e.state = "completed" /\ e.owner = NoSlot
        BY <1>1, <2>1 DEF EntryType
      <3> QED
        BY <1>6, <3>1, JobsAssumption DEF JobsInv, EntryOK
    <2>2. CASE e = EntryRejected(entry[r]) /\ entry[r].owner = s
      <3>1. /\ e.made = entry[r].made + 1 /\ e.owner = NoSlot
            /\ e.state = IF entry[r].made + 1 >= MaxAttempts THEN "failed" ELSE "waiting"
        BY <1>1, <2>2 DEF EntryRejected, EntryType
      <3>2. e.state = "waiting" => e.made <= MaxAttempts - 1
        BY <1>5, <3>1, JobsAssumption
      <3> QED
        BY <1>5, <1>6, <2>2, <3>1, <3>2, JobsAssumption DEF JobsInv, EntryOK
    <2> QED
      BY <1>4, <2>1, <2>2 DEF JobsInv
  <1>10. RowCounts(r)'
    <2>1. Unwritten(r)' = Unwritten(r)
      BY <1>1, <1>2, JobsTypes, SlotMoves DEF JobsInv, Unsettled
    <2>2. \A t \in Slots : slot'[t].pc = "failWrite" => slot'[t] = slot[t]
      BY <1>2, <1>3
    <2>3. jobRow'[r].attempts + Cardinality(Unwritten(r)') <= Takes(entry'[r])
      BY <1>1, <1>6, <1>7, <2>1 DEF JobsInv, RowCounts
    <2>4. \A t \in Slots : slot'[t].row = r /\ slot'[t].pc = "failWrite" => slot'[t].seen + Cardinality(Unwritten(r)') <= Takes(entry'[r])
      BY <1>6, <1>7, <2>1, <2>2 DEF JobsInv, RowCounts
    <2> QED
      BY <2>3, <2>4 DEF RowCounts
  <1>11. OneWorker(r)'
    <2> SUFFICES ASSUME entry[r].stalled = 0
                 PROVE  /\ \A t \in Slots : slot'[t].row = r => slot'[t].pc = "idle"
                        /\ jobRow[r].status = "FAILED" => e.made >= MaxAttempts - 1 /\ e.state \in {"active", "failed"}
      BY <1>1, <1>6, <1>7 DEF OneWorker
    <2>1. entry[r].owner = s /\ \A t \in Slots : slot[t].row = r /\ slot[t].pc # "idle" => t = s
      BY <1>1 DEF JobsInv, OneWorker
    <2>2. \A t \in Slots : slot'[t].row = r => slot'[t].pc = "idle"
      BY <1>2, <1>3, <2>1
    <2>3. ASSUME jobRow[r].status = "FAILED" PROVE e.made >= MaxAttempts - 1 /\ e.state \in {"active", "failed"}
      <3>1. slot[s].pc = "reject" /\ entry[r].made >= MaxAttempts - 1
        BY <1>1, <2>3 DEF JobsInv, OneWorker
      <3>2. e = EntryRejected(entry[r]) /\ entry[r].made + 1 >= MaxAttempts
        BY <1>4, <1>5, <2>1, <3>1, JobsAssumption
      <3>3. e.made = entry[r].made + 1 /\ e.state = "failed"
        BY <1>1, <3>2 DEF EntryRejected, EntryType
      <3> QED
        BY <1>5, <3>2, <3>3, JobsAssumption
    <2> QED
      BY <2>2, <2>3
  <1>12. \A u \in Rows \ {r} : EntryOK(entry'[u]) /\ RowCounts(u)' /\ OneWorker(u)'
    <2> TAKE u \in Rows \ {r}
    <2>1. \A t \in Slots : slot'[t].row = u => slot'[t] = slot[t]
      BY <1>2, <1>3
    <2>2. RowCounts(u)' /\ OneWorker(u)'
      BY <1>1, <1>7, <2>1, RowKept DEF JobsInv
    <2> QED
      BY <1>7, <2>2 DEF JobsInv
  <1>13. e.state = "none" <=> entry[r].state = "none"
    BY <1>1, <1>4, <1>5 DEF EntryRejected, EntryType
  <1>14. \A p \in Requests : call'[p].pc \in {"new", "add"} => entry'[First(p)].state = "none"
    BY <1>1, <1>7, <1>13, FirstIsRow DEF JobsInv
  <1> QED
    BY <1>7, <1>8, <1>9, <1>10, <1>11, <1>12, <1>14 DEF JobsInv

(* An entry stalls: from then on it may have two workers.                  *)
LEMMA EntryStalls ==
    ASSUME JobsInv, UNCHANGED calm, NEW r \in Rows, JobStalls(r)
    PROVE  JobsInv'
  <1>1. UNCHANGED <<jobRow, call, slot>> /\ entry[r].state = "active" /\ entry[r] \in EntryType
    BY JobsTypes DEF JobsInv, JobStalls
  <1>2. /\ entry'[r].state = IF entry[r].stalled >= MaxStalled THEN "failed" ELSE "waiting"
        /\ entry'[r].made = entry[r].made /\ entry'[r].stalled = entry[r].stalled + 1 /\ entry'[r].owner = NoSlot
        /\ entry[r].made \in Nat /\ entry[r].stalled \in Nat /\ entry[r].made <= MaxAttempts - 1 /\ entry[r].stalled <= MaxStalled
        /\ \A u \in Rows \ {r} : entry'[u] = entry[u]
    BY <1>1, JobsTypes, JobsAssumption DEF JobsInv, JobStalls, EntryOK, EntryType
  <1>3. Takes(entry'[r]) = Takes(entry[r])
    BY <1>1, <1>2 DEF Takes
  <1>4. JobsTypeOK'
    <2>1. entry' = [entry EXCEPT ![r] = entry'[r]] /\ entry'[r] \in EntryType
      <3>1. entry' = [entry EXCEPT ![r] = [entry[r] EXCEPT !.state = entry'[r].state, !.stalled = entry[r].stalled + 1, !.owner = NoSlot]]
        BY <1>1, <1>2, JobsTypes DEF JobsInv, JobStalls, EntryType
      <3>2. entry[r].stalled + 1 \in 0..MaxStalled + 1 /\ entry'[r].state \in {"failed", "waiting"}
        BY <1>2, JobsAssumption
      <3> QED
        BY <1>1, <3>1, <3>2, JobsTypes DEF JobsInv, EntryType
    <2>2. entry' \in [Rows -> EntryType]
      BY <2>1, JobsTypes DEF JobsInv
    <2> QED
      BY <1>1, <2>2 DEF JobsInv, JobsTypeOK, EntryType
  <1>5. EntryOK(entry'[r])
    <2>1. entry'[r].state = "waiting" => entry[r].stalled + 1 <= MaxStalled
      BY <1>2, JobsAssumption
    <2> QED
      BY <1>2, <1>3, <2>1, JobsAssumption DEF JobsInv, EntryOK
  <1>6. \A u \in Rows : Unwritten(u)' = Unwritten(u)
    BY <1>1 DEF Unwritten
  <1>7. RowCounts(r)' /\ OneWorker(r)'
    <2>1. RowCounts(r)'
      BY <1>1, <1>3, <1>6 DEF JobsInv, RowCounts
    <2>2. entry'[r].stalled # 0
      BY <1>2
    <2> QED
      BY <2>1, <2>2 DEF OneWorker
  <1>8. \A u \in Rows \ {r} : EntryOK(entry'[u]) /\ RowCounts(u)' /\ OneWorker(u)'
    <2> TAKE u \in Rows \ {r}
    <2>1. RowCounts(u)' /\ OneWorker(u)'
      BY <1>1, <1>2, RowKept DEF JobsInv
    <2> QED
      BY <1>2, <2>1 DEF JobsInv
  <1>9. \A p \in Requests : call'[p].pc \in {"new", "add"} => entry'[First(p)].state = "none"
    BY <1>1, <1>2, FirstIsRow DEF JobsInv
  <1> QED
    BY <1>1, <1>4, <1>5, <1>7, <1>8, <1>9 DEF JobsInv

LEMMA JobsKeepInv ==
    ASSUME JobsInv, [JobsNext /\ UNCHANGED calm]_<<jobsVars, calm>>
    PROVE  JobsInv'
  <1>1. CASE JobsNext /\ UNCHANGED calm
    BY <1>1, CallsMove, EntryAdded, JobTaken, WorkerMoves, FailureWritten, AttemptEnds, EntryStalls DEF JobsNext, CallStep, SlotStep
  <1>2. CASE UNCHANGED <<jobsVars, calm>>
    <2>1. \A r : Unwritten(r)' = Unwritten(r)
      BY <1>2 DEF jobsVars, Unwritten
    <2> QED
      BY <1>2, <2>1 DEF jobsVars, JobsInv, JobsTypeOK, RowCounts, OneWorker
  <1> QED
    BY <1>1, <1>2

(* The invariant of the two counts.                                        *)
THEOREM JobsInvariant == JobsSpec => []JobsInv
  <1>1. JobsInv /\ [JobsNext /\ UNCHANGED calm]_<<jobsVars, calm>> => JobsInv'
    BY JobsKeepInv
  <1> QED
    BY <1>1, JobsStart, PTL DEF JobsSpec

(* The row of a job counts its failures and BullMQ the attempts, and       *)
(* nothing but the order of the calls keeps them together: whatever query  *)
(* fails, the row is not FAILED before the last attempt, and no row counts *)
(* more failures than attempts and stalls.                                 *)
THEOREM FailedAlwaysExhausted == JobsSpec => []FailedMeansExhausted
  <1>1. JobsInv => FailedMeansExhausted
    <2> SUFFICES ASSUME JobsInv, NEW r \in Rows
                 PROVE  /\ jobRow[r].status = "FAILED" /\ entry[r].stalled = 0 =>
                              entry[r].made >= MaxAttempts - 1 /\ (entry[r].state = "failed" \/ Busy(r) \/ entry[r].state = "active")
                        /\ jobRow[r].attempts <= MaxAttempts + MaxStalled
      BY DEF FailedMeansExhausted
    <2>1. Takes(entry[r]) \in Nat /\ jobRow[r].attempts \in Nat /\ Cardinality(Unwritten(r)) \in Nat
      BY JobsTypes, TakesType, UnwrittenFinite DEF JobsInv, RowType
    <2>2. jobRow[r].attempts + Cardinality(Unwritten(r)) <= Takes(entry[r]) /\ Takes(entry[r]) <= MaxAttempts + MaxStalled
      BY DEF JobsInv, RowCounts, EntryOK
    <2>3. jobRow[r].attempts <= MaxAttempts + MaxStalled
      BY <2>1, <2>2, JobsAssumption
    <2> QED
      BY <2>3 DEF JobsInv, OneWorker
  <1> QED
    BY <1>1, JobsInvariant, PTL

(* The work of an entry that never stalled is in its row when it is over;  *)
(* entries are made for the first row of a call only, and never unmade; a  *)
(* call that is dropped has another one to be dropped for.                 *)
Finished(r) ==
    entry[r].stalled = 0 =>
        /\ entry[r].state = "completed" => jobRow[r].status = "DONE"
        /\ \A s \in Slots : slot[s].row = r /\ slot[s].pc = "resolve" => jobRow[r].status = "DONE"
Followed(q) ==
    /\ entry[<<q, "fallback">>].state = "none"
    /\ call[q].pc = "queued" => entry[First(q)].state # "none"
    /\ call[q].pc = "deduped" =>
          \E p \in Requests \ {q} :
              call[p].key = call[q].key /\ call[q].key # NoDedupe /\ entry[First(p)].state # "none"
JobsFollowed == (\A r \in Rows : Finished(r)) /\ (\A q \in Requests : Followed(q))

(* The calls, and the entries of the table, at one step.                   *)
LEMMA EntriesStay ==
    ASSUME JobsInv, JobsFollowed, JobsNext
    PROVE  \A q \in Requests : Followed(q)'
  <1>1. /\ entry \in [Rows -> EntryType] /\ call \in [Requests -> EnqueueType] /\ slot \in [Slots -> SlotType]
        /\ \A q \in Requests : First(q) \in Rows /\ <<q, "fallback">> \in Rows
    BY JobsTypes, FirstIsRow DEF JobsInv
  <1>2. ASSUME UNCHANGED call, \A r \in Rows : entry'[r].state = "none" <=> entry[r].state = "none"
        PROVE  \A q \in Requests : Followed(q)'
    BY <1>1, <1>2 DEF JobsFollowed, Followed
  <1>3. ASSUME NEW q \in Requests,
               ReceiveWebhook(q) \/ EnqueueDb(q) \/ EnqueueBull(q) \/ FallbackToDb(q) \/ EnqueuerDies(q)
        PROVE  \A p \in Requests : Followed(p)'
    <2>1. /\ UNCHANGED entry /\ \A p \in Requests \ {q} : call'[p] = call[p]
          /\ call'[q].pc \notin {"queued", "deduped"}
          /\ call'[q].key = call[q].key \/ call[q].pc = "new"
      BY <1>1, <1>3 DEF EnqueueType, ReceiveWebhook, EnqueueDb, EnqueueBull, FallbackToDb, EnqueuerDies, CallGoes
    <2>2. call[q].pc = "new" => entry[First(q)].state = "none"
      BY DEF JobsInv
    <2>3. \A o \in Requests : entry[First(o)].state # "none" => call'[o].key = call[o].key
      BY <2>1, <2>2
    <2> SUFFICES ASSUME NEW p \in Requests PROVE Followed(p)'
      OBVIOUS
    <2>4. entry[<<p, "fallback">>].state = "none" /\ (call'[p].pc = "queued" => entry[First(p)].state # "none")
      BY <2>1 DEF JobsFollowed, Followed
    <2>5. ASSUME call'[p].pc = "deduped"
          PROVE  \E o \in Requests \ {p} : call'[o].key = call'[p].key /\ call'[p].key # NoDedupe /\ entry'[First(o)].state # "none"
      <3>1. p # q /\ call'[p] = call[p]
        BY <2>1, <2>5
      <3>2. PICK o \in Requests \ {p} : call[o].key = call[p].key /\ call[p].key # NoDedupe /\ entry[First(o)].state # "none"
        BY <2>5, <3>1 DEF JobsFollowed, Followed
      <3> QED
        BY <2>1, <2>3, <3>1, <3>2
    <2> QED
      BY <2>1, <2>4, <2>5 DEF Followed
  <1>4. ASSUME NEW q \in Requests, QueueAdd(q) \/ QueueAddFails(q)
        PROVE  \A p \in Requests : Followed(p)'
    <2>1. /\ call'[q].key = call[q].key /\ \A p \in Requests \ {q} : call'[p] = call[p]
          /\ call'[q].pc \in {"fallback", "queued", "deduped"}
          /\ call'[q].pc = "deduped" => Duplicate(q)
          /\ call'[q].pc = "queued" => ~Duplicate(q) /\ AddEntry(q)
      BY <1>1, <1>4 DEF EnqueueType, QueueAdd, QueueAddFails, CallGoes
    <2>2. /\ call'[q].pc = "queued" => entry'[First(q)].state # "none"
          /\ \A r \in Rows \ {First(q)} : entry'[r] = entry[r]
          /\ entry[First(q)].state # "none" => entry'[First(q)].state # "none"
      <3>1. entry[First(q)].state = "none"
        BY <1>4 DEF JobsInv, QueueAdd, QueueAddFails
      <3> QED
        BY <1>1, <1>4, <2>1, <3>1 DEF QueueAdd, QueueAddFails, AddEntry, EntryType
    <2>3. \A p \in Requests : <<p, "fallback">> # First(q) /\ (p # q => First(p) # First(q))
      BY DEF First
    <2>4. ASSUME Duplicate(q)
          PROVE  \E p \in Requests \ {q} : call[p].key = call[q].key /\ call[q].key # NoDedupe /\ entry[First(p)].state # "none"
      <3>1. PICK p \in Requests : p # q /\ call[q].key # NoDedupe /\ call[p].key = call[q].key /\ InRedis(First(p))
        BY <2>4 DEF Duplicate
      <3>2. entry[First(p)].state # "none"
        BY <3>1 DEF InRedis
      <3> QED
        BY <3>1, <3>2
    <2>5. \A p \in Requests : entry'[<<p, "fallback">>].state = "none"
      <3> TAKE p \in Requests
      <3>1. <<p, "fallback">> \in Rows \ {First(q)} /\ entry[<<p, "fallback">>].state = "none"
        BY <1>1, <2>3 DEF JobsFollowed, Followed
      <3> QED
        BY <2>2, <3>1
    <2>6. \A p \in Requests : /\ call'[p].key = call[p].key
                              /\ entry[First(p)].state # "none" => entry'[First(p)].state # "none"
      BY <1>1, <2>1, <2>2, <2>3
    <2>7. \A p \in Requests : call'[p].pc = "queued" => entry'[First(p)].state # "none"
      BY <2>1, <2>2, <2>6 DEF JobsFollowed, Followed
    <2>8. \A p \in Requests : call'[p].pc = "deduped" =>
             \E o \in Requests \ {p} : call[o].key = call[p].key /\ call[p].key # NoDedupe /\ entry[First(o)].state # "none"
      <3> SUFFICES ASSUME NEW p \in Requests, call'[p].pc = "deduped"
                   PROVE  \E o \in Requests \ {p} : call[o].key = call[p].key /\ call[p].key # NoDedupe /\ entry[First(o)].state # "none"
        OBVIOUS
      <3>1. CASE p = q
        BY <2>1, <2>4, <3>1
      <3>2. CASE p # q
        BY <2>1, <3>2 DEF JobsFollowed, Followed
      <3> QED
        BY <3>1, <3>2
    <2> SUFFICES ASSUME NEW p \in Requests PROVE Followed(p)'
      OBVIOUS
    <2>9. ASSUME call'[p].pc = "deduped"
          PROVE  \E o \in Requests \ {p} : call'[o].key = call'[p].key /\ call'[p].key # NoDedupe /\ entry'[First(o)].state # "none"
      <3>1. PICK o \in Requests \ {p} : call[o].key = call[p].key /\ call[p].key # NoDedupe /\ entry[First(o)].state # "none"
        BY <2>8, <2>9
      <3> QED
        BY <2>6, <3>1
    <2> QED
      BY <2>5, <2>7, <2>9 DEF Followed
  <1>5. ASSUME NEW s \in Slots, NEW r \in Rows, TakeJob(s, r)
        PROVE  UNCHANGED call /\ \A u \in Rows : entry'[u].state = "none" <=> entry[u].state = "none"
    BY <1>1, <1>5 DEF TakeJob, EntryType
  <1>6. ASSUME NEW s \in Slots, JobResolved(s) \/ JobRejected(s)
        PROVE  UNCHANGED call /\ \A u \in Rows : entry'[u].state = "none" <=> entry[u].state = "none"
    <2>1. PICK r \in Rows : r = slot[s].row
      BY <1>1 DEF SlotType
    <2>2. entry[r].owner = s => entry[r].state = "active"
      BY <2>1 DEF JobsInv, EntryOK
    <2>3. entry'[r].state = "none" <=> entry[r].state = "none"
      <3>1. entry'[r] = entry[r] \/ (entry[r].owner = s /\ entry'[r].state \in {"completed", "failed", "waiting"})
        <4>1. entry[r] \in EntryType
          BY <1>1, <2>1
        <4>2. CASE JobResolved(s)
          BY <1>1, <2>1, <4>1, <4>2 DEF JobResolved, EntryType
        <4>3. CASE JobRejected(s)
          <5>1. entry' = [entry EXCEPT ![r] = IF entry[r].owner = s THEN EntryRejected(entry[r]) ELSE entry[r]]
            BY <2>1, <4>3 DEF JobRejected
          <5>2. EntryRejected(entry[r]).state \in {"failed", "waiting"}
            BY <4>1 DEF EntryRejected, EntryType
          <5> QED
            BY <1>1, <2>1, <5>1, <5>2
        <4> QED
          BY <1>6, <4>2, <4>3
      <3> QED
        BY <2>2, <3>1
    <2> QED
      BY <1>1, <1>6, <2>1, <2>3 DEF JobResolved, JobRejected
  <1>7. ASSUME NEW s \in Slots, SlotStep(s) \/ SlotDies(s), ~(JobResolved(s) \/ JobRejected(s))
        PROVE  UNCHANGED <<call, entry>>
    BY <1>7 DEF SlotStep, SlotDies, MarkProcessing, MarkDone, MarkFailedRead, MarkFailedWrite, MarkFailedThrows
  <1>8. ASSUME NEW r \in Rows, JobStalls(r)
        PROVE  UNCHANGED call /\ \A u \in Rows : entry'[u].state = "none" <=> entry[u].state = "none"
    BY <1>1, <1>8 DEF JobStalls, EntryType
  <1> QED
    BY <1>2, <1>3, <1>4, <1>5, <1>6, <1>7, <1>8 DEF JobsNext, CallStep

(* A row is written by the only worker of its entry, or before it has one. *)
LEMMA WorkIsWritten ==
    ASSUME JobsInv, JobsFollowed, JobsNext
    PROVE  \A r \in Rows : Finished(r)'
  <1>1. /\ jobRow \in [Rows -> RowType] /\ entry \in [Rows -> EntryType] /\ slot \in [Slots -> SlotType]
        /\ \A q \in Requests : First(q) \in Rows /\ <<q, "fallback">> \in Rows
        /\ \A r \in Rows : Finished(r) /\ OneWorker(r) /\ EntryOK(entry[r])
    BY JobsTypes, FirstIsRow DEF JobsInv, JobsFollowed
  <1>2. ASSUME NEW q \in Requests,
               ReceiveWebhook(q) \/ EnqueueDb(q) \/ EnqueueBull(q) \/ FallbackToDb(q) \/ EnqueuerDies(q)
        PROVE  \A r \in Rows : Finished(r)'
    <2>1. PICK n \in Rows : entry[n].state = "none" /\ \A r \in Rows \ {n} : jobRow'[r] = jobRow[r]
      BY <1>1, <1>2 DEF JobsInv, JobsFollowed, Followed, ReceiveWebhook, EnqueueDb, EnqueueBull, FallbackToDb, EnqueuerDies, CreateRow
    <2>2. UNCHANGED <<entry, slot>>
      BY <1>2 DEF ReceiveWebhook, EnqueueDb, EnqueueBull, FallbackToDb, EnqueuerDies
    <2> QED
      BY <1>1, <2>1, <2>2 DEF Finished, OneWorker, EntryOK
  <1>3. ASSUME NEW q \in Requests, QueueAdd(q) \/ QueueAddFails(q)
        PROVE  \A r \in Rows : Finished(r)'
    <2>1. UNCHANGED <<jobRow, slot>> /\ \A r \in Rows : /\ entry'[r].stalled = entry[r].stalled
                                                      /\ entry'[r].state \in {entry[r].state, "none", "waiting"}
      BY <1>1, <1>3 DEF QueueAdd, QueueAddFails, AddEntry, EntryType
    <2> QED
      BY <1>1, <2>1 DEF Finished
  <1>4. ASSUME NEW s \in Slots, NEW r \in Rows, TakeJob(s, r)
        PROVE  \A u \in Rows : Finished(u)'
    <2>1. /\ UNCHANGED jobRow /\ \A u \in Rows : /\ entry'[u].stalled = entry[u].stalled
                                                  /\ entry'[u].state \in {entry[u].state, "active"}
          /\ slot'[s].pc = "mark" /\ \A t \in Slots \ {s} : slot'[t] = slot[t]
      BY <1>1, <1>4 DEF TakeJob, EntryType
    <2> QED
      BY <1>1, <2>1 DEF Finished
  <1>5. ASSUME NEW s \in Slots, SlotStep(s) \/ SlotDies(s)
        PROVE  \A u \in Rows : Finished(u)'
    <2>1. PICK r \in Rows : r = slot[s].row
      BY <1>1 DEF SlotType
    <2>2. /\ \A u \in Rows \ {r} : jobRow'[u] = jobRow[u] /\ entry'[u] = entry[u]
          /\ slot'[s].row = r /\ \A t \in Slots \ {s} : slot'[t] = slot[t]
          /\ entry'[r].stalled = entry[r].stalled
          /\ slot[s].pc # "idle"
          /\ entry'[r].state = "completed" /\ entry[r].state = "active" => JobResolved(s)
      <3>1. slot[s] \in SlotType /\ entry[r] \in EntryType /\ jobRow[r] \in RowType
        BY <1>1, <2>1
      <3>2. CASE JobResolved(s)
        <4>1. entry' = [entry EXCEPT ![r] = IF entry[r].owner = s THEN [entry[r] EXCEPT !.state = "completed", !.owner = NoSlot] ELSE entry[r]]
          BY <2>1, <3>2 DEF JobResolved
        <4> QED
          BY <1>1, <2>1, <3>1, <3>2, <4>1 DEF JobResolved, SlotAt, SlotGoes, SlotType, EntryType
      <3>3. CASE JobRejected(s)
        <4>1. entry' = [entry EXCEPT ![r] = IF entry[r].owner = s THEN EntryRejected(entry[r]) ELSE entry[r]]
          BY <2>1, <3>3 DEF JobRejected
        <4>2. EntryRejected(entry[r]).state \in {"failed", "waiting"} /\ EntryRejected(entry[r]).stalled = entry[r].stalled
          BY <3>1 DEF EntryRejected, EntryType
        <4>3. entry'[r].stalled = entry[r].stalled /\ (entry[r].state = "active" => entry'[r].state # "completed")
          BY <1>1, <2>1, <4>1, <4>2
        <4> QED
          BY <1>1, <2>1, <3>1, <3>3, <4>1, <4>3 DEF JobRejected, SlotAt, SlotGoes, SlotType
      <3>4. CASE (SlotStep(s) \/ SlotDies(s)) /\ ~JobResolved(s) /\ ~JobRejected(s)
        <4>1. /\ UNCHANGED entry /\ slot[s].pc # "idle" /\ \A u \in Rows \ {r} : jobRow'[u] = jobRow[u]
          BY <1>1, <2>1, <3>4 DEF SlotStep, SlotDies, MarkProcessing, MarkDone, MarkFailedRead, MarkFailedWrite, MarkFailedThrows, SlotAt, SetStatus
        <4>2. slot'[s].row = r /\ \A t \in Slots \ {s} : slot'[t] = slot[t]
          BY <1>1, <2>1, <3>1, <3>4 DEF SlotStep, SlotDies, MarkProcessing, MarkDone, MarkFailedRead, MarkFailedWrite, MarkFailedThrows, SlotGoes, SlotType
        <4> QED
          BY <4>1, <4>2
      <3> QED
        BY <1>5, <3>2, <3>3, <3>4
    <2>3. \A u \in Rows \ {r} : Finished(u)'
      BY <1>1, <2>2 DEF Finished
    <2>4. ASSUME entry[r].stalled = 0
          PROVE  /\ entry[r].state = "active" /\ entry[r].owner = s
                 /\ \A t \in Slots \ {s} : slot[t].row = r => slot[t].pc = "idle"
      BY <1>1, <2>1, <2>2, <2>4 DEF OneWorker
    <2>5. ASSUME entry[r].stalled = 0, slot'[s].pc = "resolve"
          PROVE  jobRow'[r].status = "DONE"
      BY <1>1, <1>5, <2>1, <2>5 DEF SlotStep, SlotDies, MarkProcessing, MarkDone, MarkFailedRead, MarkFailedWrite, MarkFailedThrows,
           JobResolved, JobRejected, SlotAt, SlotGoes, SetStatus, SlotType, RowType
    <2>6. ASSUME entry[r].stalled = 0, entry'[r].state = "completed"
          PROVE  jobRow'[r].status = "DONE"
      <3>1. JobResolved(s)
        BY <2>2, <2>4, <2>6
      <3> QED
        BY <1>1, <2>1, <2>6, <3>1 DEF JobResolved, SlotAt, Finished
    <2>7. Finished(r)'
      BY <2>2, <2>4, <2>5, <2>6 DEF Finished
    <2> QED
      BY <2>3, <2>7
  <1>6. ASSUME NEW r \in Rows, JobStalls(r)
        PROVE  \A u \in Rows : Finished(u)'
    <2>1. /\ UNCHANGED <<jobRow, slot>> /\ entry'[r].stalled = entry[r].stalled + 1 /\ entry[r].stalled \in Nat
          /\ \A u \in Rows \ {r} : entry'[u] = entry[u]
      BY <1>1, <1>6, JobsAssumption DEF JobStalls, EntryType
    <2> QED
      BY <1>1, <2>1 DEF Finished
  <1> QED
    BY <1>2, <1>3, <1>4, <1>5, <1>6 DEF JobsNext, CallStep

(* No job that a worker process has put in the queue is lost, whatever     *)
(* fails, and none is dropped but for another job of its key.              *)
THEOREM JobAlwaysAccounted == JobsSpec => []JobAccounted
  <1> DEFINE Inv == JobsInv /\ JobsFollowed
  <1>1. JobsInit => Inv
    <2> SUFFICES ASSUME JobsInit PROVE JobsFollowed
      BY JobsStart
    <2> QED
      BY FirstIsRow DEF JobsInit, JobsFollowed, Finished, Followed, NoEntry, IdleSlot
  <1>2. Inv /\ [JobsNext /\ UNCHANGED calm]_<<jobsVars, calm>> => Inv'
    <2> SUFFICES ASSUME Inv, [JobsNext /\ UNCHANGED calm]_<<jobsVars, calm>> PROVE Inv'
      OBVIOUS
    <2>1. JobsInv'
      BY JobsKeepInv
    <2>2. CASE JobsNext
      BY <2>1, <2>2, EntriesStay, WorkIsWritten DEF JobsFollowed
    <2>3. CASE UNCHANGED <<jobsVars, calm>>
      BY <2>1, <2>3 DEF jobsVars, JobsFollowed, Finished, Followed
    <2> QED
      BY <2>2, <2>3
  <1>3. Inv => JobAccounted
    <2> SUFFICES ASSUME Inv, NEW q \in Requests
                 PROVE  /\ call[q].pc = "queued" => InHand(First(q))
                        /\ call[q].pc = "deduped" =>
                              \E p \in Requests \ {q} :
                                  call[p].key = call[q].key /\ call[q].key # NoDedupe /\ entry[First(p)].state # "none"
      BY DEF JobAccounted
    <2>1. ASSUME call[q].pc = "queued" PROVE InHand(First(q))
      <3>1. First(q) \in Rows /\ entry[First(q)] \in EntryType /\ entry[First(q)].state # "none"
        BY <2>1, FirstIsRow, JobsTypes DEF JobsInv, JobsFollowed, Followed
      <3>2. EntryOK(entry[First(q)]) /\ Finished(First(q)) /\ entry[First(q)].stalled \in Nat
        BY <3>1, JobsAssumption DEF JobsInv, JobsFollowed, EntryType
      <3> QED
        BY <3>1, <3>2 DEF InHand, EntryOK, Finished, EntryType
    <2> QED
      BY <2>1 DEF JobsFollowed, Followed
  <1> HIDE DEF Inv
  <1> QED
    BY <1>1, <1>2, <1>3, PTL DEF JobsSpec

(* Rows, entries, calls and workers keep to their types.                   *)
THEOREM JobsTypeCorrect == JobsSpec => []JobsTypeOK
  <1>1. JobsInv => JobsTypeOK
    BY DEF JobsInv
  <1> QED
    BY <1>1, JobsInvariant, PTL

-----------------------------------------------------------------------------
(* Side by side.  A behaviour of the platform is one of each service, so   *)
(* that every theorem above holds of it as well.                           *)
THEOREM PlatformRunsEach == PlatformSpec => IdemSpec /\ RateSpec /\ RunnerSpec /\ JobsSpec
  <1>1. PlatformInit => IdemInit /\ RateInit /\ RunnerInit /\ JobsInit
    BY DEF PlatformInit
  <1>2. [PlatformNext]_platformVars => /\ [IdemNext /\ UNCHANGED calm]_<<idemVars, calm>>
                                       /\ [RateNext /\ UNCHANGED calm]_<<rateVars, calm>>
                                       /\ [RunnerNext /\ UNCHANGED calm]_<<runnerVars, calm>>
                                       /\ [JobsNext /\ UNCHANGED calm]_<<jobsVars, calm>>
    BY DEF PlatformNext, platformVars, IdempotencyRuns, RateLimitRuns, RunnerRuns, JobsRun
  <1> QED
    BY <1>1, <1>2, PTL DEF PlatformSpec, IdemSpec, RateSpec, RunnerSpec, JobsSpec

(* Every variable of the four services keeps to its type, whatever fails.  *)
THEOREM PlatformTypeCorrect == PlatformSpec => []PlatformTypeOK
  <1>1. IdemInv /\ RateInv /\ RunnerTypeOK /\ JobsInv => PlatformTypeOK
    BY DEF IdemInv, RateInv, JobsInv, PlatformTypeOK
  <1> QED
    BY <1>1, PlatformRunsEach, KeysInvariant, RateInvariant, RunnerTypeCorrect, JobsInvariant, PTL
=============================================================================
