------------------------------ MODULE LazyType ------------------------------
(***************************************************************************)
(* LazyTypeObject of pyo3-fork/src/impl_/pyclass/lazy_type_object.rs: the  *)
(* type object of a #[pyclass], made on first use.  Its class attributes   *)
(* are user code that runs before the type's dictionary is filled: they    *)
(* may let other threads run, fail, and ask for the type object again.     *)
(*                                                                         *)
(* Several threads may compute the attributes; one fills the dictionary.   *)
(* The list initializing_threads is there to tell a call from inside an    *)
(* attribute, which gets the type as it is, from all others, which must    *)
(* not.  Setting the attributes is atomic, as the code assumes of the GIL, *)
(* but may fail on the way.                                                *)
(***************************************************************************)
EXTENDS Interpreter, Naturals, Sequences, SequencesExt

CONSTANTS
  Attrs,      \* the class attributes, in order
  MaxOps,     \* calls and yields of one thread (model bound)
  MaxCalls    \* nested calls of one thread (model bound)

ASSUME LazyAssumption ==
  /\ NoThread \notin Threads
  /\ Attrs \in Seq(ToSet(Attrs)) /\ IsInjective(Attrs)
  /\ MaxOps \in Nat /\ MaxCalls \in Nat \ {0}

VARIABLES
  value,                  \* the type object has been created
  initializing_threads,
  tp_dict_filled,
  tp_dict,                \* the attributes set, with the thread that computed each
  calls,                  \* each thread's calls of ensure_init: attributes computed so far
  served,                 \* threads to which an outermost call has returned the type
  ops                     \* calls and yields so far

vars == <<gil, value, initializing_threads, tp_dict_filled, tp_dict, calls, served, ops>>
typeVars == <<value, initializing_threads, tp_dict_filled, tp_dict>>

Init ==
  /\ gil = NoThread
  /\ value = FALSE
  /\ initializing_threads = {}
  /\ tp_dict_filled = FALSE
  /\ tp_dict = [a \in ToSet(Attrs) |-> NoThread]
  /\ calls = [t \in Threads |-> <<>>]
  /\ served = {}
  /\ ops = [t \in Threads |-> 0]

Op(t) == ops[t] < MaxOps /\ ops' = [ops EXCEPT ![t] = @ + 1]

\* User code runs outside the calls and in an attribute that is not computed yet.
Computed(t) == Last(calls[t])
InUserCode(t) == calls[t] # <<>> => Computed(t) < Len(Attrs)

-----------------------------------------------------------------------------
(* The interpreter                                                         *)

Yield(t) ==
  /\ InUserCode(t)
  /\ SuspendGIL(t)
  /\ UNCHANGED <<typeVars, calls, served, ops>>

Resume(t) ==
  /\ InUserCode(t)
  /\ RestoreGIL(t)
  /\ Op(t)
  /\ UNCHANGED <<typeVars, calls, served>>

-----------------------------------------------------------------------------
(* get_or_try_init                                                         *)

Return(t) ==
  /\ calls' = [calls EXCEPT ![t] = Front(@)]
  /\ served' = served \cup (IF Len(calls[t]) = 1 THEN {t} ELSE {})

\* Wrong: the error is dropped, and the call goes on without a type.
CreateFailsUnnoticed(t) ==
  /\ gil = t /\ calls[t] = <<>> /\ ~value
  /\ Op(t)
  /\ initializing_threads' = initializing_threads \cup {t}
  /\ calls' = [calls EXCEPT ![t] = Append(@, 0)]
  /\ UNCHANGED <<gil, value, tp_dict_filled, tp_dict, served>>

\* create_type_object fails.
CreateFails(t) ==
  /\ gil = t /\ InUserCode(t) /\ ~value
  /\ Op(t)
  /\ UNCHANGED <<gil, typeVars, calls, served>>

\* Wrong: any thread's initialization passes for the caller's own.
CallAnyInitializer(t) ==
  /\ gil = t /\ InUserCode(t)
  /\ Op(t)
  /\ value' = TRUE
  /\ \/ /\ tp_dict_filled \/ initializing_threads # {}
        /\ served' = served \cup (IF calls[t] = <<>> THEN {t} ELSE {})
        /\ UNCHANGED <<initializing_threads, calls>>
     \/ /\ ~tp_dict_filled /\ initializing_threads = {}
        /\ Len(calls[t]) < MaxCalls
        /\ initializing_threads' = initializing_threads \cup {t}
        /\ calls' = [calls EXCEPT ![t] = Append(@, 0)]
        /\ UNCHANGED served
  /\ UNCHANGED <<gil, tp_dict_filled, tp_dict>>

\* A call returns the type at once if its dictionary is filled, or if the
\* thread is on the list; else it goes on the list.
Call(t) ==
  /\ gil = t /\ InUserCode(t)
  /\ Op(t)
  /\ value' = TRUE
  /\ \/ /\ tp_dict_filled \/ t \in initializing_threads
        /\ served' = served \cup (IF calls[t] = <<>> THEN {t} ELSE {})
        /\ UNCHANGED <<initializing_threads, calls>>
     \/ /\ ~tp_dict_filled /\ t \notin initializing_threads
        /\ Len(calls[t]) < MaxCalls
        /\ initializing_threads' = initializing_threads \cup {t}
        /\ calls' = [calls EXCEPT ![t] = Append(@, 0)]
        /\ UNCHANGED served
  /\ UNCHANGED <<gil, tp_dict_filled, tp_dict>>

\* Wrong: no guard.
ForgetGuard(t) == UNCHANGED initializing_threads

\* Drop for InitializationGuard
DropGuard(t) == initializing_threads' = initializing_threads \ {t}

AttrReturns(t) ==
  /\ gil = t /\ calls[t] # <<>> /\ Computed(t) < Len(Attrs)
  /\ calls' = [calls EXCEPT ![t][Len(calls[t])] = @ + 1]
  /\ UNCHANGED <<gil, typeVars, served, ops>>

\* An attribute returns an error or panics: the guard is dropped.
AttrFails(t) ==
  /\ gil = t /\ calls[t] # <<>> /\ Computed(t) < Len(Attrs)
  /\ DropGuard(t)
  /\ calls' = [calls EXCEPT ![t] = Front(@)]
  /\ UNCHANGED <<gil, value, tp_dict_filled, tp_dict, served, ops>>

AttrsDone(t) == gil = t /\ calls[t] # <<>> /\ Computed(t) = Len(Attrs)

\* tp_dict_filled.get_or_try_init: another thread was faster ...
FoundFilled(t) ==
  /\ AttrsDone(t) /\ tp_dict_filled
  /\ DropGuard(t)
  /\ Return(t)
  /\ UNCHANGED <<gil, value, tp_dict_filled, tp_dict, ops>>

\* Wrong: a failed fill counts as one.
FillAnyway(t, n) ==
  /\ AttrsDone(t) /\ ~tp_dict_filled
  /\ tp_dict' = [a \in ToSet(Attrs) |-> IF \E i \in 1..n : Attrs[i] = a THEN t ELSE tp_dict[a]]
  /\ initializing_threads' = {}
  /\ tp_dict_filled' = TRUE
  /\ Return(t)
  /\ UNCHANGED <<gil, value, ops>>

\* Wrong: the dictionary is filled again if another thread was faster.
FillAgain(t, n) ==
  /\ AttrsDone(t)
  /\ tp_dict' = [a \in ToSet(Attrs) |-> IF \E i \in 1..n : Attrs[i] = a THEN t ELSE tp_dict[a]]
  /\ initializing_threads' = {}
  /\ tp_dict_filled' = TRUE
  /\ Return(t)
  /\ UNCHANGED <<gil, value, ops>>

\* ... or initialize_tp_dict sets the first n attributes, all of them or up
\* to the one that fails.  The list is cleared in both cases.
Fill(t, n) ==
  /\ AttrsDone(t) /\ ~tp_dict_filled
  /\ tp_dict' = [a \in ToSet(Attrs) |-> IF \E i \in 1..n : Attrs[i] = a THEN t ELSE tp_dict[a]]
  /\ initializing_threads' = {}
  /\ IF n = Len(Attrs)
       THEN tp_dict_filled' = TRUE /\ Return(t)
       ELSE /\ calls' = [calls EXCEPT ![t] = Front(@)]
            /\ UNCHANGED <<tp_dict_filled, served>>
  /\ UNCHANGED <<gil, value, ops>>

Step(t) ==
  \/ Yield(t) \/ Resume(t)
  \/ CreateFails(t) \/ Call(t)
  \/ AttrReturns(t) \/ AttrFails(t) \/ FoundFilled(t)
  \/ \E n \in 0..Len(Attrs) : Fill(t, n)

\* No thread runs, or can run again.
Finished ==
  /\ gil = NoThread
  /\ \A t \in Threads : ops[t] = MaxOps
  /\ UNCHANGED vars

Next == (\E t \in Threads : Step(t)) \/ Finished

Spec == Init /\ [][Next]_vars

-----------------------------------------------------------------------------
\* Besides the types: nothing happens before the type object exists.
TypeOK ==
  /\ ~value => \A t \in Threads : calls[t] = <<>>
  /\ gil \in Threads \cup {NoThread}
  /\ value \in BOOLEAN
  /\ initializing_threads \subseteq Threads
  /\ tp_dict_filled \in BOOLEAN
  /\ tp_dict \in [ToSet(Attrs) -> Threads \cup {NoThread}]
  /\ \A t \in Threads : calls[t] \in SeqOf(0..Len(Attrs), MaxCalls)
  /\ served \subseteq Threads
  /\ ops \in [Threads -> 0..MaxOps]

\* A thread is on the list only while one of its calls is running, however
\* the others end: a stale entry would pass its next call off as reentrant
\* (lazy_type_object.rs:119-144, 182-193).
NoStaleThread == \A t \in initializing_threads : calls[t] # <<>>

\* Only code that runs inside the initialization sees a type with an
\* unfilled dictionary: an outermost call returns it filled, or fails
\* (lazy_type_object.rs:103-117).
ServedIsFilled == served # {} => tp_dict_filled

\* All attributes of a filled type come from one thread's computation, no
\* matter how many threads computed them and how many fills failed
\* (lazy_type_object.rs:107-108, 146-149).
DictIsWhole ==
  tp_dict_filled => \E t \in Threads : \A a \in ToSet(Attrs) : tp_dict[a] = t

\* A filled dictionary never changes again (lazy_type_object.rs:182-193).
FilledIsFinal == [][tp_dict_filled => tp_dict_filled' /\ UNCHANGED tp_dict]_vars

\* "Reentrant call: just return the type object, even if the tp_dict is not
\* filled yet." (lazy_type_object.rs:123-125): a thread that is computing the
\* attributes does not start to compute them again.
ReentrantCallJustReturns == \A t \in Threads : Len(calls[t]) <= 1
=============================================================================
