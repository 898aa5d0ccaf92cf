------------------------------ MODULE ErrState ------------------------------
(***************************************************************************)
(* PyErrState of pyo3-fork/src/err/err_state.rs: an error that threads     *)
(* share and that as_normalized makes, once and with the Python closure    *)
(* the error was raised from, into an exception it hands out references    *)
(* to.  A std Once picks the thread that normalizes; normalizing_thread    *)
(* (under a std Mutex) turns a call from inside the closure, which the     *)
(* Once would answer with a deadlock, into a panic; allow_threads releases *)
(* the GIL around the Once.  restore takes the error by value.             *)
(*                                                                         *)
(* The closure is user code: it may let other threads run, call            *)
(* as_normalized of the same error and survive that call's panic (an       *)
(* extension function turns it into a Python exception) or not, and panic. *)
(***************************************************************************)
EXTENDS Interpreter, Naturals

CONSTANT
  MaxOps      \* entries, calls and yields of one thread (model bound)

ASSUME ErrAssumption == NoThread \notin Threads /\ MaxOps \in Nat

VARIABLES
  normalized,           \* the state of the Once
  normalizing_thread,
  poisoned,             \* that mutex's poison flag
  inner,                \* "none" while it is taken; "moved" or "invalid" after restore
  pc,                   \* each thread's step of as_normalized
  nested,               \* threads in an as_normalized called from their closure
  refs,                 \* threads with a reference to the normalized state
  failed,               \* threads that had a call panic
  disturbed,            \* the closure has panicked or called as_normalized
  ops                   \* operations so far

vars == <<gil, normalized, normalizing_thread, poisoned, inner, pc, nested, refs,
          failed, disturbed, ops>>
errVars == <<normalized, normalizing_thread, poisoned, inner>>
threadVars == <<nested, refs, failed, disturbed>>

\* lazy, or normalized from the start with the Once completed.
Init ==
  /\ gil = NoThread
  /\ \/ normalized = "incomplete" /\ inner = "lazy"
     \/ normalized = "complete" /\ inner = "normalized"
  /\ normalizing_thread = NoThread
  /\ poisoned = FALSE
  /\ pc = [t \in Threads |-> "out"]
  /\ nested = {}
  /\ refs = {}
  /\ failed = {}
  /\ disturbed = FALSE
  /\ ops = [t \in Threads |-> 0]

\* Wrong: begun is taken for completed.
HasBegun == normalized # "incomplete"

is_completed == normalized = "complete"
Usable == inner \notin {"moved", "invalid"}

Go(t, from, to) == pc[t] = from /\ pc' = [pc EXCEPT ![t] = to]
Op(t) == ops[t] < MaxOps /\ ops' = [ops EXCEPT ![t] = @ + 1]

-----------------------------------------------------------------------------
(* The interpreter: threads attach ("py") and detach, and the code they    *)
(* run, the closure ("lazy") included, yields the GIL to others.           *)

Enter(t) ==
  /\ Go(t, "out", "py")
  /\ RestoreGIL(t)
  /\ Op(t)
  /\ UNCHANGED <<errVars, threadVars>>

Leave(t) ==
  /\ Go(t, "py", "out")
  /\ SuspendGIL(t)
  /\ UNCHANGED <<errVars, threadVars, ops>>

Yield(t) ==
  /\ pc[t] \in {"py", "lazy"}
  /\ SuspendGIL(t)
  /\ Op(t)
  /\ UNCHANGED <<errVars, pc, threadVars>>

Resume(t) ==
  /\ pc[t] \in {"py", "lazy"}
  /\ RestoreGIL(t)
  /\ UNCHANGED <<errVars, pc, threadVars, ops>>

-----------------------------------------------------------------------------
(* as_normalized and make_normalized                                       *)

\* Wrong: no fast path.
AlwaysMakeNormalized(t, from) == Go(t, from, "check")

\* The fast path goes straight to the match on inner.
as_normalized(t, from) == Go(t, from, IF is_completed THEN "match" ELSE "check")

Call(t) ==
  /\ gil = t /\ Usable
  /\ Op(t)
  /\ as_normalized(t, "py")
  /\ UNCHANGED <<gil, errVars, threadVars>>

Reenter(t) ==
  /\ gil = t
  /\ Op(t)
  /\ as_normalized(t, "lazy")
  /\ nested' = nested \cup {t}
  /\ disturbed' = TRUE
  /\ UNCHANGED <<gil, errVars, refs, failed>>

\* Where a call's panic comes out: of the closure it was made from, whose
\* caller catches it or unwinds too, or of the outermost call.
CallPanics(t) ==
  /\ failed' = failed \cup {t}
  /\ nested' = nested \ {t}
  /\ \/ t \notin nested /\ pc' = [pc EXCEPT ![t] = "py"] /\ UNCHANGED gil
     \/ t \in nested /\ pc' = [pc EXCEPT ![t] = "lazy"] /\ UNCHANGED gil
     \/ t \in nested /\ pc' = [pc EXCEPT ![t] = "unwind"] /\ SuspendGIL(t)

\* lock().unwrap() panics on a poisoned mutex; the assert's panic poisons it,
\* as the guard lives to the end of the if let.
Check(t) ==
  /\ pc[t] = "check"
  /\ \/ /\ ~poisoned /\ normalizing_thread # t
        /\ pc' = [pc EXCEPT ![t] = "suspend"]
        /\ UNCHANGED <<gil, poisoned, nested, failed>>
     \/ /\ poisoned \/ normalizing_thread = t
        /\ poisoned' = TRUE
        /\ CallPanics(t)
  /\ UNCHANGED <<normalized, normalizing_thread, inner, refs, disturbed, ops>>

\* Wrong: call_once is entered with the GIL held.
KeepGIL(t) ==
  /\ Go(t, "suspend", "call_once")
  /\ gil = t
  /\ UNCHANGED <<gil, errVars, threadVars, ops>>

\* py.allow_threads
Suspend(t) ==
  /\ Go(t, "suspend", "call_once")
  /\ SuspendGIL(t)
  /\ UNCHANGED <<errVars, threadVars, ops>>

\* Wrong: a lock, not a Once: whoever gets in normalizes again.
RunAgain(t) ==
  /\ normalized # "running"
  /\ Go(t, "call_once", "mark")
  /\ normalized' = "running"
  /\ UNCHANGED <<gil, normalizing_thread, poisoned, inner, threadVars, ops>>

\* Once::call_once runs the closure once ...
Begin(t) ==
  /\ normalized = "incomplete"
  /\ Go(t, "call_once", "mark")
  /\ normalized' = "running"
  /\ UNCHANGED <<gil, normalizing_thread, poisoned, inner, threadVars, ops>>

\* ... and afterwards returns, or panics if the closure panicked.
Over(t) ==
  /\ \/ is_completed /\ Go(t, "call_once", "regain")
     \/ normalized = "poisoned" /\ Go(t, "call_once", "unwound")
  /\ UNCHANGED <<gil, errVars, threadVars, ops>>

\* Wrong: the thread that normalizes is not recorded.
MarkForgotten(t) ==
  /\ Go(t, "mark", "take")
  /\ UNCHANGED <<gil, errVars, threadVars, ops>>

Mark(t) ==
  /\ \/ /\ ~poisoned
        /\ Go(t, "mark", "take")
        /\ normalizing_thread' = t
     \/ /\ poisoned
        /\ Go(t, "mark", "unwind")
        /\ UNCHANGED normalizing_thread
  /\ UNCHANGED <<gil, normalized, poisoned, inner, threadVars, ops>>

Take(t) ==
  /\ \/ /\ inner # "none"
        /\ Go(t, "take", "attach")
        /\ inner' = "none"
     \/ /\ inner = "none"
        /\ Go(t, "take", "unwind")
        /\ UNCHANGED inner
  /\ UNCHANGED <<gil, normalized, normalizing_thread, poisoned, threadVars, ops>>

\* Python::with_gil, and the closure in it
Attach(t) ==
  /\ Go(t, "attach", "lazy")
  /\ RestoreGIL(t)
  /\ UNCHANGED <<errVars, threadVars, ops>>

LazyReturns(t) ==
  /\ Go(t, "lazy", "write")
  /\ SuspendGIL(t)
  /\ UNCHANGED <<errVars, threadVars, ops>>

LazyPanics(t) ==
  /\ Go(t, "lazy", "unwind")
  /\ SuspendGIL(t)
  /\ disturbed' = TRUE
  /\ UNCHANGED <<errVars, nested, refs, failed, ops>>

Write(t) ==
  /\ Go(t, "write", "complete")
  /\ inner' = "normalized"
  /\ UNCHANGED <<gil, normalized, normalizing_thread, poisoned, threadVars, ops>>

Complete(t) ==
  /\ \/ Go(t, "complete", "regain") /\ normalized' = "complete"
     \/ Go(t, "unwind", "unwound") /\ normalized' = "poisoned"
  /\ UNCHANGED <<gil, normalizing_thread, poisoned, inner, threadVars, ops>>

\* The end of allow_threads
Regain(t) ==
  /\ RestoreGIL(t)
  /\ \/ Go(t, "regain", "match") /\ UNCHANGED failed
     \/ Go(t, "unwound", "py") /\ failed' = failed \cup {t}
  /\ UNCHANGED <<errVars, nested, refs, disturbed, ops>>

\* Some(Normalized(n)) => n, _ => unreachable!()
Match(t) ==
  /\ Go(t, "match", "py")
  /\ IF inner = "normalized"
       THEN refs' = refs \cup {t} /\ UNCHANGED failed
       ELSE failed' = failed \cup {t} /\ UNCHANGED refs
  /\ UNCHANGED <<gil, errVars, nested, disturbed, ops>>

-----------------------------------------------------------------------------
\* restore(self): nobody borrows the error, and nobody can afterwards.  A
\* lazy error's closure runs in restore, too, but cannot reach the error.
restore(t) ==
  /\ gil = t /\ pc[t] = "py" /\ Usable
  /\ \A u \in Threads : pc[u] \in {"out", "py"}
  /\ Op(t)
  /\ inner' = IF inner = "none" THEN "invalid" ELSE "moved"
  /\ refs' = {}
  /\ UNCHANGED <<gil, normalized, normalizing_thread, poisoned, pc, nested, failed, disturbed>>

\* What a thread that is in a call, or has the GIL, does next by itself.
Continue(t) ==
  \/ Leave(t) \/ Resume(t) \/ Check(t) \/ Suspend(t) \/ Begin(t) \/ Over(t)
  \/ Mark(t) \/ Take(t) \/ Attach(t) \/ LazyReturns(t) \/ LazyPanics(t)
  \/ Write(t) \/ Complete(t) \/ Regain(t) \/ Match(t)

Step(t) ==
  \/ Enter(t) \/ Yield(t) \/ Call(t) \/ Reenter(t) \/ restore(t)
  \/ Continue(t)

\* Every thread has left, with its operations used up.
Finished == (\A t \in Threads : pc[t] = "out" /\ ops[t] = MaxOps) /\ UNCHANGED vars

Next == (\E t \in Threads : Step(t)) \/ Finished

Spec == Init /\ [][Next]_vars
FairSpec == Spec /\ \A t \in Threads : WF_vars(Continue(t))

-----------------------------------------------------------------------------
\* The steps of the closure given to call_once; the ones that touch inner.
InClosure == {"mark", "take", "attach", "lazy", "write", "complete", "unwind"}
Closure == {t \in Threads : pc[t] \in InClosure \/ t \in nested}
Accessing == {t \in Threads : pc[t] \in {"take", "write", "match"}}

Types ==
  /\ gil \in Threads \cup {NoThread}
  /\ normalized \in {"incomplete", "running", "poisoned", "complete"}
  /\ normalizing_thread \in Threads \cup {NoThread}
  /\ poisoned \in BOOLEAN
  /\ inner \in {"lazy", "none", "normalized", "moved", "invalid"}
  /\ pc \in [Threads -> InClosure \cup
               {"out", "py", "check", "suspend", "call_once", "regain", "unwound", "match"}]
  /\ nested \subseteq Threads
  /\ refs \subseteq Threads
  /\ failed \subseteq Threads
  /\ disturbed \in BOOLEAN
  /\ ops \in [Threads -> 0..MaxOps]

\* Besides the types: the thread that runs the closure past its first step is
\* the one that normalizing_thread names (err_state.rs:103-106).
TypeOK ==
  /\ Types
  /\ \A t \in Closure : pc[t] # "mark" => normalizing_thread = t

\* A reference is only out while the state is normalized: neither a panic nor
\* a second normalization ever takes it back ("can only hand out references
\* when in the normalized state", err_state.rs:16-17).
ReferencesAreNormalized == refs # {} => inner = "normalized"

\* Accesses to the UnsafeCell never conflict, although the GIL is not held
\* while it is taken from and written ("no other thread can access the inner
\* value while we are normalizing it", err_state.rs:108, 118).
InnerIsExclusive ==
  \A t, u \in Accessing : pc[t] \in {"take", "write"} => u = t

\* A closure that comes back to its own error panics: it never gets to wait
\* for the Once it is running itself (err_state.rs:91-98).
ReentryIsDetected == \A t \in nested : pc[t] = "check"

\* No assert, unwrap, expect or unreachable of the calls fails unless the
\* error's own closure panicked or came back to the error.  Since
\* normalizing_thread is never reset, this needs the fast path.
PanicsOnlyIfDisturbed == failed # {} => disturbed

\* Normalization cannot deadlock with the interpreter: each call returns or
\* panics, and its thread detaches ("avoid deadlock of .call_once with the
\* GIL", err_state.rs:100).
EveryThreadLeaves == \A t \in Threads : []<>(pc[t] = "out")

\* What restore expects: "PyErr state should never be invalid outside of
\* normalization" (err_state.rs:58).
RestoreFindsTheState == inner # "invalid"
=============================================================================
