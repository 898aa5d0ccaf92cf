-------------------------- MODULE AttachedLocksProof --------------------------
(***************************************************************************)
(* The safety properties of the attached Mutex and Once, for any number of *)
(* threads, calls and yields.                                              *)
(***************************************************************************)
EXTENDS AttachedLocks, TLAPS

\* A thread is in a call of the Once only outside the calls of the mutex.
OneCallAtATime == \A t \in Threads : opc[t] # "out" => mpc[t] \in {"out", "critical"}

\* OneInitialiser, spelled out.
ClosureAlone ==
  /\ once = "running" => \E t \in Threads : opc[t] \in {"attach", "f"}
  /\ \A t \in Threads : opc[t] \in {"attach", "f"} =>
       /\ once = "running"
       /\ \A u \in Threads : opc[u] \in {"attach", "f"} => u = t

\* A thread that waits for the GIL to return from the Once saw it completed.
WaitersSawIt == \A t \in Threads : opc[t] = "return" => once_is_completed

LocksInv ==
  /\ LocksTypeOK
  /\ OneCallAtATime
  /\ ClosureAlone
  /\ WaitersSawIt
  /\ InitialisedOnReturn
  /\ PoisonReported

LEMMA InitLocks == LocksInit => LocksInv
<1> SUFFICES ASSUME LocksInit PROVE LocksInv
  OBVIOUS
<1>1. LocksTypes
  <2>1. forced \in [Threads -> BOOLEAN] /\ err \in [Threads -> BOOLEAN]
    BY Zenon DEF LocksInit
  <2>2. /\ mpc = [t \in Threads |-> "out"] /\ opc = [t \in Threads |-> "out"]
        /\ lockOps = [t \in Threads |-> 0]
        /\ gil = NoThread /\ mutex = NoThread /\ once = "incomplete" /\ seen = {}
    BY Zenon DEF LocksInit
  <2>3. mutex_poisoned \in BOOLEAN
    BY Zenon DEF LocksInit
  <2> QED
    BY <2>1, <2>2, <2>3, LocksAssumption DEF LocksTypes
<1>2. LocksTypeOK /\ OneCallAtATime /\ ClosureAlone /\ WaitersSawIt /\ InitialisedOnReturn /\ PoisonReported
  <2>1. \A t \in Threads : mpc[t] = "out" /\ opc[t] = "out"
    BY DEF LocksInit
  <2>2. mutex = NoThread /\ once = "incomplete" /\ seen = {}
    BY DEF LocksInit
  <2> QED
    BY <1>1, <2>1, <2>2, LocksAssumption DEF LocksTypeOK, OneCallAtATime, ClosureAlone, WaitersSawIt,
       InitialisedOnReturn, PoisonReported
<1> QED
  BY <1>2 DEF LocksInv

\* Unwinding releases the mutex of the thread that unwinds, if it has it, and
\* disturbs nobody else's.
LEMMA UnwindKeepsMutex ==
  ASSUME LocksInv, NEW t \in Threads, Unwind(t)
  PROVE  /\ mutex' \in Threads \cup {NoThread} /\ mutex_poisoned' \in BOOLEAN /\ err' = err
         /\ mpc' \in [Threads -> {"out", "suspend", "lock", "locked", "critical"}]
         /\ \A u \in Threads : mpc'[u] = mpc[u] \/ mpc'[u] = "out"
         /\ mpc[t] \notin {"suspend", "lock", "locked"} => mpc'[t] = "out"
         /\ \A u \in Threads : u # t => mpc'[u] = mpc[u]
         /\ \A u \in Threads : mutex' = u <=> mpc'[u] \in {"locked", "critical"}
         /\ PoisonReported'
<1>1. CASE mpc[t] = "critical"
  <2>1. /\ mutex = t /\ mutex' = NoThread /\ mutex_poisoned' = TRUE /\ err' = err
        /\ mpc' = [mpc EXCEPT ![t] = "out"]
    BY <1>1 DEF Unwind, LocksInv, LocksTypeOK
  <2>2. mpc' \in [Threads -> {"out", "suspend", "lock", "locked", "critical"}]
    BY <2>1 DEF LocksInv, LocksTypeOK, LocksTypes
  <2>3. \A u \in Threads : mpc'[u] \notin {"locked", "critical"}
    BY <2>1 DEF LocksInv, LocksTypeOK, LocksTypes
  <2>4. \A u \in Threads : mutex' # u
    BY <2>1, LocksAssumption
  <2> QED
    BY <2>1, <2>2, <2>3, <2>4 DEF PoisonReported, LocksInv, LocksTypeOK, LocksTypes
<1>2. CASE mpc[t] # "critical"
  <2>1. mutex' = mutex /\ mutex_poisoned' = mutex_poisoned /\ err' = err /\ mpc' = mpc
    BY <1>2 DEF Unwind, mutexVars
  <2> QED
    BY <2>1, <1>2 DEF PoisonReported, LocksInv, LocksTypeOK, LocksTypes
<1> QED
  BY <1>1, <1>2

LEMMA StepLocks == LocksInv /\ [LocksNext]_lockVars => LocksInv'
<1> SUFFICES ASSUME LocksInv, [LocksNext]_lockVars PROVE LocksInv'
  OBVIOUS
<1> USE LocksAssumption DEF LocksInv, LocksTypeOK, LocksTypes, OneCallAtATime, ClosureAlone, WaitersSawIt,
        InitialisedOnReturn, PoisonReported, once_is_completed, mutexVars, onceVars,
        GoMutex, GoOnce, SuspendGIL, RestoreGIL, LockOp
<1>1. ASSUME NEW t \in Threads, LocksEnter(t) PROVE LocksInv'
  BY <1>1 DEF LocksEnter
<1>2. ASSUME NEW t \in Threads, LocksLeave(t) PROVE LocksInv'
  BY <1>2 DEF LocksLeave
<1>3. ASSUME NEW t \in Threads, LocksYield(t) PROVE LocksInv'
  BY <1>3 DEF LocksYield, InUserCode
<1>4. ASSUME NEW t \in Threads, LocksResume(t) PROVE LocksInv'
  BY <1>4 DEF LocksResume, InUserCode
<1>5. ASSUME NEW t \in Threads, TryLock(t) PROVE LocksInv'
  BY <1>5 DEF TryLock, TakeMutex
<1>6. ASSUME NEW t \in Threads, SuspendForLock(t) PROVE LocksInv'
  BY <1>6 DEF SuspendForLock
<1>7. ASSUME NEW t \in Threads, Lock(t) PROVE LocksInv'
  BY <1>7 DEF Lock, TakeMutex
<1>8. ASSUME NEW t \in Threads, LockReturns(t) PROVE LocksInv'
  BY <1>8 DEF LockReturns
<1>9. ASSUME NEW t \in Threads, Unlock(t) PROVE LocksInv'
  BY <1>9 DEF Unlock
<1>10. ASSUME NEW t \in Threads, CriticalPanics(t) PROVE LocksInv'
  BY <1>10, UnwindKeepsMutex DEF CriticalPanics
<1>11. ASSUME NEW t \in Threads, CallOnce(t) PROVE LocksInv'
  BY <1>11 DEF CallOnce
<1>12. ASSUME NEW t \in Threads, SuspendForOnce(t) PROVE LocksInv'
  BY <1>12 DEF SuspendForOnce
<1>13. ASSUME NEW t \in Threads, OnceRuns(t) PROVE LocksInv'
  BY <1>13 DEF OnceRuns
<1>14. ASSUME NEW t \in Threads, OnceIsOver(t) PROVE LocksInv'
  BY <1>14 DEF OnceIsOver
<1>15. ASSUME NEW t \in Threads, OnceReturns(t) PROVE LocksInv'
  BY <1>15 DEF OnceReturns
<1>16. ASSUME NEW t \in Threads, OncePanics(t) PROVE LocksInv'
  BY <1>16, UnwindKeepsMutex DEF OncePanics
<1>17. ASSUME NEW t \in Threads, ClosureAttaches(t) PROVE LocksInv'
  BY <1>17 DEF ClosureAttaches
<1>18. ASSUME NEW t \in Threads, FReturns(t) PROVE LocksInv'
  BY <1>18 DEF FReturns
<1>19. ASSUME NEW t \in Threads, FPanics(t) PROVE LocksInv'
  BY <1>19, UnwindKeepsMutex DEF FPanics
<1>20. CASE UNCHANGED lockVars
  BY <1>20 DEF lockVars
<1> HIDE DEF LocksInv, LocksTypeOK, LocksTypes, OneCallAtATime, ClosureAlone, WaitersSawIt,
        InitialisedOnReturn, PoisonReported, once_is_completed, mutexVars, onceVars,
        GoMutex, GoOnce, SuspendGIL, RestoreGIL, LockOp
<1> QED
  BY <1>1, <1>2, <1>3, <1>4, <1>5, <1>6, <1>7, <1>8, <1>9, <1>10, <1>11, <1>12, <1>13, <1>14, <1>15, <1>16, <1>17, <1>18, <1>19, <1>20 DEF LocksNext, LocksStep, LocksContinue, LocksFinished

THEOREM LocksInvariant == LocksSpec => []LocksInv
  BY InitLocks, StepLocks, PTL DEF LocksSpec

\* Types, and the mutex is owned exactly while a guard exists
\* (sync.rs:615-639).
THEOREM LocksTypeCorrect == LocksSpec => []LocksTypeOK
<1>1. LocksInv => LocksTypeOK
  BY DEF LocksInv
<1> QED
  BY <1>1, LocksInvariant, PTL

\* One closure of the Once at a time (sync.rs:641-655).
THEOREM OneClosureRuns == LocksSpec => []OneInitialiser
<1>1. LocksInv => OneInitialiser
  BY DEF LocksInv, ClosureAlone, OneInitialiser
<1> QED
  BY <1>1, LocksInvariant, PTL

\* After a call of the Once, the Once is completed for good (sync.rs:582-598).
THEOREM CallsInitialise == LocksSpec => []InitialisedOnReturn
<1>1. LocksInv => InitialisedOnReturn
  BY DEF LocksInv
<1> QED
  BY <1>1, LocksInvariant, PTL

\* Whoever has the mutex was told whether it is poisoned (sync.rs:615-639).
THEOREM PoisonIsReported == LocksSpec => []PoisonReported
<1>1. LocksInv => PoisonReported
  BY DEF LocksInv
<1> QED
  BY <1>1, LocksInvariant, PTL
===============================================================================
