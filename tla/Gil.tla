-------------------------------- MODULE Gil --------------------------------
(***************************************************************************)
(* The GIL bookkeeping of the PyO3 fork (pyo3-fork/src/gil.rs): the        *)
(* per-thread GIL_COUNT, the guards GILGuard, SuspendGIL and LockGIL that  *)
(* save and restore it, and the ReferencePool of decrefs registered by     *)
(* threads that do not hold the GIL.                                       *)
(*                                                                         *)
(* Guards are RAII values, so those alive in a thread form a stack, mixed  *)
(* with the interpreter activations between them.  A handle is one owned   *)
(* Py<T>; it can be moved to any thread, so a held handle has no owner.    *)
(***************************************************************************)
EXTENDS Integers, Sequences, FiniteSets

CONSTANTS
  Threads,     \* OS threads
  NoThread,    \* the GIL is free
  Handles,     \* identities of owned references
  Objects,     \* Python objects
  InitialOf,   \* the object each handle refers to at first, a function
  Initial,     \* the handles that exist at first
  MaxOps       \* optional operations each thread may start (model bound)

ASSUME GilAssumption ==
  /\ NoThread \notin Threads
  /\ IsFiniteSet(Handles)
  /\ InitialOf \in [Handles -> Objects]
  /\ Initial \subseteq Handles
  /\ MaxOps \in Nat

VARIABLES
  gil,      \* the thread the interpreter lets run, or NoThread
  count,    \* GIL_COUNT of each thread
  stack,    \* live guards and interpreter activations, innermost last
  pc,       \* where a thread is inside an acquire, a restore or a yield
  ops,      \* optional operations started, against MaxOps
  refcnt,   \* ob_refcnt of each object
  target,   \* the object a handle refers to
  place     \* where the owned reference of each handle is

gilVars == <<gil, count, stack, pc>>
refVars == <<refcnt, target, place>>
vars == <<gil, count, stack, pc, ops, refcnt, target, place>>

LockedDuringTraverse == -1

GuardKinds == {"ensured", "assumed", "suspend", "traverse"}
Frame == [kind : GuardKinds \cup {"python", "drain"}, saved : Int, nested : BOOLEAN]

(***************************************************************************)
(* saved is the count the frame restores: SuspendGIL and LockGIL keep it   *)
(* in a field, GILGuard restores it by subtracting one.  nested is the     *)
(* gstate of an Ensured guard: the thread already had the GIL.             *)
(***************************************************************************)
\* Wrong: every Ensured guard believes the thread had the GIL before.
NewFrameNested(t, kind) == [kind |-> kind, saved |-> count[t], nested |-> TRUE]

NewFrame(t, kind) == [kind |-> kind, saved |-> count[t], nested |-> gil = t]

Top(t) == stack[t][Len(stack[t])]
TopIs(t, kinds) == stack[t] # <<>> /\ Top(t).kind \in kinds
Below(t) == SubSeq(stack[t], 1, Len(stack[t]) - 1)

Nowhere == [at |-> "nowhere", by |-> NoThread, depth |-> 0]
Held == [at |-> "held", by |-> NoThread, depth |-> 0]
Pending == [at |-> "pending", by |-> NoThread, depth |-> 0]
Taken(t, depth) == [at |-> "taken", by |-> t, depth |-> depth]
Place == [at : {"nowhere", "held", "pending", "taken"},
          by : Threads \cup {NoThread}, depth : Nat]

Owned(o) == {h \in Handles : place[h] # Nowhere /\ target[h] = o}

\* Wrong: a thread outside every guard counts as attached.
AcquiredFromZero(t) == count[t] >= 0

gil_is_acquired(t) == count[t] > 0

\* Rust code of thread t is executing: inside a guard, or with none alive.
RustRuns(t) ==
  /\ pc[t] = "run"
  /\ stack[t] = <<>> \/ TopIs(t, GuardKinds)

\* The interpreter, or C code it called, is executing in thread t.
PythonRuns(t) ==
  /\ pc[t] = "run"
  /\ TopIs(t, {"python"})

\* An operation the program may or may not start.
Optional(t) ==
  /\ ops[t] < MaxOps
  /\ ops' = [ops EXCEPT ![t] = @ + 1]

Init ==
  /\ gil = NoThread
  /\ count = [t \in Threads |-> 0]
  /\ stack = [t \in Threads |-> <<>>]
  /\ pc = [t \in Threads |-> "run"]
  /\ ops = [t \in Threads |-> 0]
  /\ target = InitialOf
  /\ place = [h \in Handles |-> IF h \in Initial THEN Held ELSE Nowhere]
  /\ refcnt = [o \in Objects |-> Cardinality({h \in Initial : InitialOf[h] = o})]

-----------------------------------------------------------------------------
(* The interpreter, outside the fork: threads it starts, calls into it, and *)
(* the evaluation loop giving up the GIL without GIL_COUNT being touched.   *)

PyThreadStart(t) ==
  /\ pc[t] = "run"
  /\ stack[t] = <<>>
  /\ gil = NoThread
  /\ Optional(t)
  /\ gil' = t
  /\ stack' = [stack EXCEPT ![t] = Append(@, NewFrame(t, "python"))]
  /\ UNCHANGED <<count, pc, refVars>>

CallPython(t) ==
  /\ RustRuns(t)
  /\ gil_is_acquired(t)
  /\ Optional(t)
  /\ stack' = [stack EXCEPT ![t] = Append(@, NewFrame(t, "python"))]
  /\ UNCHANGED <<gil, count, pc, refVars>>

PyReturn(t) ==
  /\ PythonRuns(t)
  /\ stack' = [stack EXCEPT ![t] = Below(t)]
  /\ gil' = IF Len(stack[t]) = 1 THEN NoThread ELSE gil
  /\ UNCHANGED <<count, pc, ops, refVars>>

PyYield(t) ==
  /\ PythonRuns(t)
  /\ Optional(t)
  /\ gil' = NoThread
  /\ pc' = [pc EXCEPT ![t] = "yielded"]
  /\ UNCHANGED <<count, stack, refVars>>

PyResume(t) ==
  /\ pc[t] = "yielded"
  /\ gil = NoThread
  /\ gil' = t
  /\ pc' = [pc EXCEPT ![t] = "run"]
  /\ UNCHANGED <<count, stack, ops, refVars>>

-----------------------------------------------------------------------------
(* GILGuard.  Each of the acquiring paths ends in update_counts, the step   *)
(* UpdateCounts below; pc "update" stands between the two.                  *)

\* Wrong: no guard is taken off again.
DecrementForgotten(t) == UNCHANGED count

increment_gil_count(t) == count' = [count EXCEPT ![t] = @ + 1]
decrement_gil_count(t) == count' = [count EXCEPT ![t] = @ - 1]

\* GILGuard::assume, from a trampoline or from acquire with the GIL held.
Assume(t) ==
  /\ \/ PythonRuns(t)
     \/ RustRuns(t) /\ gil_is_acquired(t)
  /\ Optional(t)
  /\ increment_gil_count(t)
  /\ stack' = [stack EXCEPT ![t] = Append(@, NewFrame(t, "assumed"))]
  /\ pc' = [pc EXCEPT ![t] = "update"]
  /\ UNCHANGED <<gil, refVars>>

\* GILGuard::acquire finds the count at zero or below: PyGILState_Ensure is
\* called, also by C code the interpreter called without a trampoline.
Acquire(t) ==
  /\ RustRuns(t) \/ PythonRuns(t)
  /\ ~gil_is_acquired(t)
  /\ Optional(t)
  /\ pc' = [pc EXCEPT ![t] = "ensure"]
  /\ UNCHANGED <<gil, count, stack, refVars>>

Ensure(t) ==
  /\ pc[t] = "ensure"
  /\ gil \in {NoThread, t}
  /\ count[t] >= 0
  /\ gil' = t
  /\ increment_gil_count(t)
  /\ stack' = [stack EXCEPT ![t] = Append(@, NewFrame(t, "ensured"))]
  /\ pc' = [pc EXCEPT ![t] = "update"]
  /\ UNCHANGED <<ops, refVars>>

\* A negative count: increment_gil_count panics and _call_traverse catches
\* the panic, which ends the traversal.
EnsureBails(t) ==
  /\ pc[t] = "ensure"
  /\ gil \in {NoThread, t}
  /\ count[t] < 0
  /\ TopIs(t, {"traverse"})
  /\ count' = [count EXCEPT ![t] = Top(t).saved]
  /\ stack' = [stack EXCEPT ![t] = Below(t)]
  /\ pc' = [pc EXCEPT ![t] = "run"]
  /\ UNCHANGED <<gil, ops, refVars>>

DropGuard(t) ==
  /\ RustRuns(t)
  /\ TopIs(t, {"ensured", "assumed"})
  /\ gil' = IF Top(t).kind = "ensured" /\ ~Top(t).nested THEN NoThread ELSE gil
  /\ decrement_gil_count(t)
  /\ stack' = [stack EXCEPT ![t] = Below(t)]
  /\ UNCHANGED <<pc, ops, refVars>>

-----------------------------------------------------------------------------
(* SuspendGIL and LockGIL.                                                  *)

SuspendNew(t) ==
  /\ RustRuns(t)
  /\ gil_is_acquired(t)
  /\ Optional(t)
  /\ stack' = [stack EXCEPT ![t] = Append(@, NewFrame(t, "suspend"))]
  /\ count' = [count EXCEPT ![t] = 0]
  /\ gil' = NoThread
  /\ UNCHANGED <<pc, refVars>>

\* The count is set before the thread has the GIL again.
SuspendDrop(t) ==
  /\ RustRuns(t)
  /\ TopIs(t, {"suspend"})
  /\ count' = [count EXCEPT ![t] = Top(t).saved]
  /\ pc' = [pc EXCEPT ![t] = "restore"]
  /\ UNCHANGED <<gil, stack, ops, refVars>>

RestoreThread(t) ==
  /\ pc[t] = "restore"
  /\ gil = NoThread
  /\ gil' = t
  /\ stack' = [stack EXCEPT ![t] = Below(t)]
  /\ pc' = [pc EXCEPT ![t] = "update"]
  /\ UNCHANGED <<count, ops, refVars>>

\* The collector runs a class's __traverse__, or that one its superclass's.
TraverseBegin(t) ==
  /\ \/ PythonRuns(t)
     \/ RustRuns(t) /\ (gil_is_acquired(t) \/ TopIs(t, {"traverse"}))
  /\ Optional(t)
  /\ stack' = [stack EXCEPT ![t] = Append(@, NewFrame(t, "traverse"))]
  /\ count' = [count EXCEPT ![t] = LockedDuringTraverse]
  /\ UNCHANGED <<gil, pc, refVars>>

TraverseEnd(t) ==
  /\ RustRuns(t)
  /\ TopIs(t, {"traverse"})
  /\ count' = [count EXCEPT ![t] = Top(t).saved]
  /\ stack' = [stack EXCEPT ![t] = Below(t)]
  /\ UNCHANGED <<gil, pc, ops, refVars>>

-----------------------------------------------------------------------------
(* References.                                                              *)

\* Py_DECREF of the reference of handle h; the last one may run Python code.
Py_DECREF(t, h) ==
  /\ refcnt' = [refcnt EXCEPT ![target[h]] = @ - 1]
  /\ place' = [place EXCEPT ![h] = Nowhere]
  /\ \/ UNCHANGED stack
     \/ /\ refcnt[target[h]] = 1
        /\ stack' = [stack EXCEPT ![t] = Append(@, NewFrame(t, "python"))]

register_incref(t, h, new) ==
  /\ RustRuns(t)
  /\ gil_is_acquired(t)
  /\ place[h] = Held
  /\ place[new] = Nowhere
  /\ Optional(t)
  /\ refcnt' = [refcnt EXCEPT ![target[h]] = @ + 1]
  /\ target' = [target EXCEPT ![new] = target[h]]
  /\ place' = [place EXCEPT ![new] = Held]
  /\ UNCHANGED gilVars

\* Wrong: without the GIL the decref is queued and applied at once.
DecrefNowAndQueued(t, h) ==
  /\ RustRuns(t)
  /\ place[h] = Held
  /\ refcnt' = [refcnt EXCEPT ![target[h]] = @ - 1]
  /\ place' = [place EXCEPT ![h] = IF gil_is_acquired(t) THEN Nowhere ELSE Pending]
  /\ UNCHANGED <<gilVars, ops, target>>

register_decref(t, h) ==
  /\ RustRuns(t)
  /\ place[h] = Held
  /\ \/ /\ gil_is_acquired(t)
        /\ Py_DECREF(t, h)
     \/ /\ ~gil_is_acquired(t)
        /\ place' = [place EXCEPT ![h] = Pending]
        /\ UNCHANGED <<refcnt, stack>>
  /\ UNCHANGED <<gil, count, pc, ops, target>>

\* Wrong: the queue is left alone; the queue is cleared, nothing is applied.
UpdateCountsSkips(t) ==
  /\ pc[t] = "update"
  /\ pc' = [pc EXCEPT ![t] = "run"]
  /\ UNCHANGED <<gil, count, stack, ops, refVars>>

UpdateCountsLoses(t) ==
  /\ pc[t] = "update"
  /\ pc' = [pc EXCEPT ![t] = "run"]
  /\ place' = [h \in Handles |-> IF place[h] = Pending THEN Nowhere ELSE place[h]]
  /\ UNCHANGED <<gil, count, stack, ops, refcnt, target>>

\* ReferencePool::update_counts: the vector is taken under its mutex, and
\* the decrefs are applied from the local copy, one per DrainOne.
UpdateCounts(t) ==
  LET pending == {h \in Handles : place[h] = Pending}
  IN /\ pc[t] = "update"
     /\ pc' = [pc EXCEPT ![t] = "run"]
     /\ \/ /\ pending = {}
           /\ UNCHANGED <<stack, place>>
        \/ /\ pending # {}
           /\ stack' = [stack EXCEPT ![t] = Append(@, NewFrame(t, "drain"))]
           /\ place' = [h \in Handles |->
                          IF h \in pending THEN Taken(t, Len(stack[t]) + 1)
                                           ELSE place[h]]
     /\ UNCHANGED <<gil, count, ops, refcnt, target>>

DrainOne(t) ==
  /\ pc[t] = "run"
  /\ TopIs(t, {"drain"})
  /\ \E h \in Handles :
       /\ place[h] = Taken(t, Len(stack[t]))
       /\ Py_DECREF(t, h)
  /\ UNCHANGED <<gil, count, pc, ops, target>>

DrainEnd(t) ==
  /\ pc[t] = "run"
  /\ TopIs(t, {"drain"})
  /\ \A h \in Handles : place[h] # Taken(t, Len(stack[t]))
  /\ stack' = [stack EXCEPT ![t] = Below(t)]
  /\ UNCHANGED <<gil, count, pc, ops, refVars>>

-----------------------------------------------------------------------------
Interpreter(t) ==
  PyThreadStart(t) \/ CallPython(t) \/ PyReturn(t) \/ PyYield(t) \/ PyResume(t)

Guards(t) ==
  \/ Assume(t) \/ Acquire(t) \/ Ensure(t) \/ EnsureBails(t) \/ DropGuard(t)
  \/ SuspendNew(t) \/ SuspendDrop(t) \/ RestoreThread(t)
  \/ TraverseBegin(t) \/ TraverseEnd(t)

References(t) ==
  \/ \E h, new \in Handles : register_incref(t, h, new)
  \/ \E h \in Handles : register_decref(t, h)
  \/ UpdateCounts(t) \/ DrainOne(t) \/ DrainEnd(t)

Step(t) == Interpreter(t) \/ Guards(t) \/ References(t)

\* Every thread has left the fork and the interpreter.
Idle(t) == pc[t] = "run" /\ stack[t] = <<>>

Finished == (\A t \in Threads : Idle(t)) /\ UNCHANGED vars

Next == (\E t \in Threads : Step(t)) \/ Finished

Spec == Init /\ [][Next]_vars

\* The operating system runs every thread that can run.
FairSpec == Spec /\ \A t \in Threads : WF_vars(Step(t))

-----------------------------------------------------------------------------
Types ==
  /\ gil \in Threads \cup {NoThread}
  /\ count \in [Threads -> Int]
  /\ stack \in [Threads -> Seq(Frame)]
  /\ pc \in [Threads -> {"run", "ensure", "restore", "update", "yielded"}]
  /\ ops \in [Threads -> 0..MaxOps]
  /\ refcnt \in [Objects -> Int]
  /\ target \in [Handles -> Objects]
  /\ place \in [Handles -> Place]

\* A count is never negative but for the lock a traversal sets: guards that
\* nest, panic in a traversal or suspend each other never take one too many
\* off it (gil.rs:13-26, 399-424).
TypeOK ==
  /\ Types
  /\ \A t \in Threads : count[t] \in Nat \cup {LockedDuringTraverse}

\* Wherever Rust code runs, a positive count means the thread really has the
\* GIL: gil_is_acquired answers for the interpreter (gil.rs:28-37) through
\* every nesting of with_gil, allow_threads, traversals and callbacks.
CountImpliesGil ==
  \A t \in Threads :
    (RustRuns(t) \/ pc[t] = "update") /\ gil_is_acquired(t) => gil = t

\* When the outermost guard of a thread is gone its count is zero again and
\* it does not keep the GIL from the others (gil.rs:235-247, 309-322).
IdleIsDetached ==
  \A t \in Threads : Idle(t) => count[t] = 0 /\ gil # t

\* Each object's reference count is the number of handles to it that are
\* held, queued in the pool or taken by a thread applying them: no decref is
\* lost, none is applied twice, and no handle outlives its object, however
\* drops, clones and update_counts interleave (gil.rs:266-282, 365-397).
RefcountExact ==
  \A o \in Objects : refcnt[o] = Cardinality(Owned(o))

\* A thread changes a reference count only while it has the GIL itself, and
\* keeps it across the change: a count of its own that says it is attached must
\* be true of this thread, not of another (gil.rs:358-397).
RefcountUnderGil ==
  [][\A o \in Objects : refcnt'[o] # refcnt[o] =>
       \A t \in Threads : Step(t) => gil = t /\ gil' = t]_vars

\* An object whose last reference is gone is never referenced again: only a
\* held handle can be cloned, so a queued decref cannot be overtaken by a
\* clone of the same reference (gil.rs:358-371).
NoResurrection ==
  [][\A o \in Objects : refcnt[o] = 0 => refcnt'[o] = 0]_vars

\* A decref queued without the GIL is applied once some thread is on its way
\* into the interpreter (gil.rs:373-374, 210-213).
QueuedDecrefApplied ==
  \A h \in Handles :
    (place[h] = Pending /\ \E t \in Threads : pc[t] = "ensure" /\ count[t] >= 0)
      ~> place[h] = Nowhere

\* No thread waits for the GIL for ever: all of them get out of the guards
\* they are in, allow_threads inside with_gil inside allow_threads included.
EveryThreadLeaves == <>[](\A t \in Threads : Idle(t))
=============================================================================
