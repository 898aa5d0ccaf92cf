---------------------------- MODULE AttachedLocks ----------------------------
(***************************************************************************)
(* MutexExt::lock_py_attached and OnceExt::call_once_py_attached of        *)
(* pyo3-fork/src/sync.rs:515-699: taking a std Mutex, or running a std     *)
(* Once, on a thread that has the GIL.  The thread lets go of the GIL      *)
(* (SuspendGIL) before it may block and takes it back afterwards; in the   *)
(* case of a Once, inside the closure, if it is this thread's that runs.   *)
(*                                                                         *)
(* Threads share one mutex and one Once.  User code, in a critical section *)
(* or in a Once's closure f, may let other threads run (every Python call  *)
(* can), panic, and, in a critical section, run the Once.  It does not use *)
(* the mutex inside f or a Once inside itself: that deadlocks in std.      *)
(***************************************************************************)
EXTENDS Interpreter, Naturals

CONSTANT
  MaxLockOps   \* calls and yields of one thread (model bound)

ASSUME LocksAssumption == NoThread \notin Threads /\ MaxLockOps \in Nat

VARIABLES
  mutex,           \* the thread that has the mutex
  mutex_poisoned,  \* the mutex's poison flag
  once,            \* the state of the Once
  mpc,             \* each thread's step of lock_py_attached
  opc,             \* each thread's step of call_once_py_attached
  forced,          \* whether that is the _force variant (OnceLock uses it too)
  err,             \* the guard of the mutex came with a PoisonError
  seen,            \* the threads that a call of the Once returned to
  lockOps          \* calls and yields so far

lockVars == <<gil, mutex, mutex_poisoned, once, mpc, opc, forced, err, seen, lockOps>>
mutexVars == <<mutex, mutex_poisoned, mpc, err>>
onceVars == <<once, opc, forced, seen>>

LocksInit ==
  /\ gil = NoThread
  /\ mutex = NoThread
  /\ mutex_poisoned = FALSE
  /\ once = "incomplete"
  /\ mpc = [t \in Threads |-> "out"]
  /\ opc = [t \in Threads |-> "out"]
  /\ forced = [t \in Threads |-> FALSE]
  /\ err = [t \in Threads |-> FALSE]
  /\ seen = {}
  /\ lockOps = [t \in Threads |-> 0]

Outside(t) == mpc[t] = "out" /\ opc[t] = "out"
InUserCode(t) == opc[t] = "f" \/ (opc[t] = "out" /\ mpc[t] = "critical")
LockOp(t) == lockOps[t] < MaxLockOps /\ lockOps' = [lockOps EXCEPT ![t] = @ + 1]

GoMutex(t, from, to) == mpc[t] = from /\ mpc' = [mpc EXCEPT ![t] = to]
GoOnce(t, from, to) == opc[t] = from /\ opc' = [opc EXCEPT ![t] = to]

-----------------------------------------------------------------------------
(* The interpreter: threads attach and detach, and the code they run may   *)
(* yield the GIL to others.                                                *)

LocksEnter(t) ==
  /\ Outside(t)
  /\ RestoreGIL(t)
  /\ LockOp(t)
  /\ UNCHANGED <<mutexVars, onceVars>>

LocksLeave(t) ==
  /\ Outside(t)
  /\ SuspendGIL(t)
  /\ UNCHANGED <<mutexVars, onceVars, lockOps>>

LocksYield(t) ==
  /\ InUserCode(t)
  /\ SuspendGIL(t)
  /\ LockOp(t)
  /\ UNCHANGED <<mutexVars, onceVars>>

LocksResume(t) ==
  /\ InUserCode(t)
  /\ RestoreGIL(t)
  /\ UNCHANGED <<mutexVars, onceVars, lockOps>>

-----------------------------------------------------------------------------
(* lock_py_attached                                                        *)

\* Wrong: a poisoned guard is passed off as a good one.
TakeMutexUnpoisoned(t) ==
  /\ mutex = NoThread
  /\ mutex' = t
  /\ err' = [err EXCEPT ![t] = FALSE]
  /\ UNCHANGED mutex_poisoned

\* std's Mutex gives the guard out, poisoned or not.
TakeMutex(t) ==
  /\ mutex = NoThread
  /\ mutex' = t
  /\ err' = [err EXCEPT ![t] = mutex_poisoned]
  /\ UNCHANGED mutex_poisoned

TryLock(t) ==
  /\ opc[t] = "out" /\ gil = t
  /\ LockOp(t)
  /\ \/ GoMutex(t, "out", "critical") /\ TakeMutex(t)
     \/ /\ mutex # NoThread
        /\ GoMutex(t, "out", "suspend")
        /\ UNCHANGED <<mutex, mutex_poisoned, err>>
  /\ UNCHANGED <<gil, onceVars>>

\* Wrong: the thread blocks with the GIL.
BlockForLock(t) ==
  /\ GoMutex(t, "suspend", "lock")
  /\ gil = t
  /\ UNCHANGED <<gil, mutex, mutex_poisoned, err, onceVars, lockOps>>

SuspendForLock(t) ==
  /\ GoMutex(t, "suspend", "lock")
  /\ SuspendGIL(t)
  /\ UNCHANGED <<mutex, mutex_poisoned, err, onceVars, lockOps>>

Lock(t) ==
  /\ GoMutex(t, "lock", "locked")
  /\ TakeMutex(t)
  /\ UNCHANGED <<gil, onceVars, lockOps>>

\* drop(ts_guard)
LockReturns(t) ==
  /\ GoMutex(t, "locked", "critical")
  /\ RestoreGIL(t)
  /\ UNCHANGED <<mutex, mutex_poisoned, err, onceVars, lockOps>>

\* The user drops the guard.
Unlock(t) ==
  /\ opc[t] = "out" /\ gil = t
  /\ GoMutex(t, "critical", "out")
  /\ mutex' = NoThread
  /\ UNCHANGED <<gil, mutex_poisoned, err, onceVars, lockOps>>

\* A panic unwinds to the caller of the outermost call, through the critical
\* section if there is one, and the guard poisons the mutex.
Unwind(t) ==
  IF mpc[t] = "critical"
    THEN /\ mutex' = NoThread
         /\ mutex_poisoned' = TRUE
         /\ mpc' = [mpc EXCEPT ![t] = "out"]
         /\ UNCHANGED err
    ELSE UNCHANGED mutexVars

CriticalPanics(t) ==
  /\ mpc[t] = "critical" /\ opc[t] = "out" /\ gil = t
  /\ Unwind(t)
  /\ UNCHANGED <<gil, onceVars, lockOps>>

-----------------------------------------------------------------------------
(* call_once_py_attached and its _force variant                            *)

once_is_completed == once = "complete"

\* The fast path returns at once.
CallOnce(t) ==
  /\ opc[t] = "out" /\ mpc[t] \in {"out", "critical"} /\ gil = t
  /\ LockOp(t)
  /\ \/ /\ once_is_completed
        /\ seen' = seen \cup {t}
        /\ UNCHANGED <<opc, forced>>
     \/ /\ ~once_is_completed
        /\ GoOnce(t, "out", "suspend")
        /\ \E force \in BOOLEAN : forced' = [forced EXCEPT ![t] = force]
        /\ UNCHANGED seen
  /\ UNCHANGED <<gil, once, mutexVars>>

SuspendForOnce(t) ==
  /\ GoOnce(t, "suspend", "call")
  /\ SuspendGIL(t)
  /\ UNCHANGED <<once, forced, seen, mutexVars, lockOps>>

\* std's Once runs the closure; a poisoned Once only if forced.
OnceRuns(t) ==
  /\ once = "incomplete" \/ (once = "poisoned" /\ forced[t])
  /\ GoOnce(t, "call", "attach")
  /\ once' = "running"
  /\ UNCHANGED <<gil, forced, seen, mutexVars, lockOps>>

\* Wrong: the call also returns if another thread's closure panicked.
OnceIsOverAnyway(t) ==
  /\ once \in {"complete", "poisoned"}
  /\ GoOnce(t, "call", "return")
  /\ UNCHANGED <<gil, once, forced, seen, mutexVars, lockOps>>

\* The closure did not run: it is dropped, and ts_guard with it, as the call
\* returns or, on a poisoned Once, unwinds.
OnceIsOver(t) ==
  /\ \/ once_is_completed /\ GoOnce(t, "call", "return")
     \/ once = "poisoned" /\ ~forced[t] /\ GoOnce(t, "call", "unwind")
  /\ UNCHANGED <<gil, once, forced, seen, mutexVars, lockOps>>

OnceReturns(t) ==
  /\ GoOnce(t, "return", "out")
  /\ RestoreGIL(t)
  /\ seen' = seen \cup {t}
  /\ UNCHANGED <<once, forced, mutexVars, lockOps>>

OncePanics(t) ==
  /\ GoOnce(t, "unwind", "out")
  /\ RestoreGIL(t)
  /\ Unwind(t)
  /\ UNCHANGED <<once, forced, seen, lockOps>>

\* drop(ts_guard) in the closure
ClosureAttaches(t) ==
  /\ GoOnce(t, "attach", "f")
  /\ RestoreGIL(t)
  /\ UNCHANGED <<once, forced, seen, mutexVars, lockOps>>

FReturns(t) ==
  /\ gil = t
  /\ GoOnce(t, "f", "out")
  /\ once' = "complete"
  /\ seen' = seen \cup {t}
  /\ UNCHANGED <<gil, forced, mutexVars, lockOps>>

FPanics(t) ==
  /\ gil = t
  /\ GoOnce(t, "f", "out")
  /\ once' = "poisoned"
  /\ Unwind(t)
  /\ UNCHANGED <<gil, forced, seen, lockOps>>

-----------------------------------------------------------------------------
\* What a thread that is in a call, or has the GIL, does next by itself.
LocksContinue(t) ==
  \/ LocksLeave(t) \/ LocksResume(t)
  \/ SuspendForLock(t) \/ Lock(t) \/ LockReturns(t) \/ Unlock(t) \/ CriticalPanics(t)
  \/ SuspendForOnce(t) \/ OnceRuns(t) \/ OnceIsOver(t) \/ OnceReturns(t) \/ OncePanics(t)
  \/ ClosureAttaches(t) \/ FReturns(t) \/ FPanics(t)

LocksStep(t) == LocksEnter(t) \/ LocksYield(t) \/ TryLock(t) \/ CallOnce(t) \/ LocksContinue(t)

\* Every thread has left, with its operations used up.
LocksFinished == (\A t \in Threads : Outside(t) /\ gil # t /\ lockOps[t] = MaxLockOps) /\ UNCHANGED lockVars

LocksNext == (\E t \in Threads : LocksStep(t)) \/ LocksFinished

LocksSpec == LocksInit /\ [][LocksNext]_lockVars
LocksFairSpec == LocksSpec /\ \A t \in Threads : WF_lockVars(LocksContinue(t))

-----------------------------------------------------------------------------
LocksTypes ==
  /\ gil \in Threads \cup {NoThread}
  /\ mutex \in Threads \cup {NoThread}
  /\ mutex_poisoned \in BOOLEAN
  /\ once \in {"incomplete", "running", "poisoned", "complete"}
  /\ mpc \in [Threads -> {"out", "suspend", "lock", "locked", "critical"}]
  /\ opc \in [Threads -> {"out", "suspend", "call", "attach", "f", "return", "unwind"}]
  /\ forced \in [Threads -> BOOLEAN]
  /\ err \in [Threads -> BOOLEAN]
  /\ seen \subseteq Threads
  /\ lockOps \in [Threads -> 0..MaxLockOps]

\* The mutex is owned exactly while a guard of it exists, which no unwinding,
\* whatever it started from, leaves behind (sync.rs:615-639).
LocksTypeOK ==
  /\ LocksTypes
  /\ \A t \in Threads : mutex = t <=> mpc[t] \in {"locked", "critical"}

\* One thread at a time runs a closure of the Once, from the moment std picks
\* it until f is over, the wait for the GIL included (sync.rs:641-655).
OneInitialiser ==
  LET running == {t \in Threads : opc[t] \in {"attach", "f"}}
  IN  /\ once = "running" <=> running # {}
      /\ \A t, u \in running : t = u

\* A thread whose call returned, by whichever path, finds the Once completed
\* from then on, whatever other threads' initialisers do (sync.rs:582-598).
InitialisedOnReturn == seen # {} => once_is_completed

\* Code that has the mutex knows whether an earlier owner panicked, by an own
\* panic or one of the Once's, the waiting for the GIL notwithstanding
\* (sync.rs:615-639).
PoisonReported ==
  \A t \in Threads : mpc[t] \in {"locked", "critical"} => mutex = t /\ err[t] = mutex_poisoned

\* Neither call can deadlock with the interpreter: no matter who has the GIL,
\* the mutex or the Once, every call returns or unwinds and its thread
\* detaches ("cannot deadlock with the Python interpreter", sync.rs:569).
EveryCallReturns == \A t \in Threads : []<>(Outside(t) /\ gil # t)
=============================================================================
