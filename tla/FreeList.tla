------------------------------- MODULE FreeList -------------------------------
(***************************************************************************)
(* The free list of a #[pyclass(freelist = N)] (pyo3-fork/src/impl_/       *)
(* freelist.rs) and the two functions that use it, alloc_with_freelist and *)
(* free_with_freelist (impl_/pyclass.rs:935-1000).  The list is behind a   *)
(* mutex that both let go before they initialise an object or free memory, *)
(* so that on builds without a GIL the calls of several threads overlap    *)
(* there.  Every block of memory is somewhere: with the system, on its way *)
(* to an object, an object, on the list, or on its way to the system.      *)
(***************************************************************************)
EXTENDS Integers, Sequences, FiniteSets

CONSTANTS Blocks,        \* blocks of memory, each fit for one object
          MaxCapacity,   \* bound: the largest N
          Extended       \* some #[pyclass(extends = T)] has T for its base

ASSUME FreeListAssumption ==
  /\ IsFiniteSet(Blocks) /\ "empty" \notin Blocks
  /\ MaxCapacity \in Nat /\ Extended \in BOOLEAN

VARIABLES capacity,
          slots,     \* the entries of the list, from 1
          split,     \* how many of them are filled
          place,     \* where each block is
          class,     \* the type of the object in it: T, or a subclass of T
          missed     \* allocations that found the list empty and let go of it

freeVars == <<capacity, slots, split, place, class, missed>>

Empty == "empty"
Subclasses == {"python class"} \union (IF Extended THEN {"#[pyclass]"} ELSE {})
Classes == {"T"} \union Subclasses

Move(b, from, to) == place[b] = from /\ place' = [place EXCEPT ![b] = to]

\* PyObjectFreeList::with_capacity
FreeListInit ==
  /\ capacity \in 0..MaxCapacity
  /\ slots = [i \in 1..capacity |-> Empty]
  /\ split = 0
  /\ place = [b \in Blocks |-> "system"]
  /\ class = [b \in Blocks |-> "T"]
  /\ missed = 0

\* Wrong: the pointer is copied and stays on the list.
PopKeepsSplit(b) ==
  /\ split > 0
  /\ slots[split] = b
  /\ UNCHANGED <<slots, split>>

\* PyObjectFreeList::pop, which panics if the slot is empty.
pop(b) ==
  /\ split > 0
  /\ slots[split] = b
  /\ slots' = [slots EXCEPT ![split] = Empty]
  /\ split' = split - 1

Corrupt == split > 0 /\ slots[split] = Empty

\* alloc_with_freelist, for T itself: a block from the list,
AllocHit(b) ==
  /\ pop(b)
  /\ place' = [place EXCEPT ![b] = "popped"]
  /\ UNCHANGED <<capacity, class, missed>>

\* initialised when the lock is gone,
PyObject_Init(b) ==
  /\ Move(b, "popped", "object")
  /\ class' = [class EXCEPT ![b] = "T"]
  /\ UNCHANGED <<capacity, slots, split, missed>>

\* or none (bound: no more such calls than blocks),
AllocMiss ==
  /\ split = 0
  /\ missed + Cardinality({b \in Blocks : place[b] = "object"}) < Cardinality(Blocks)
  /\ missed' = missed + 1
  /\ UNCHANGED <<capacity, slots, split, place, class>>

\* and then one from the system.  An object of a subclass never asks the list.
PyType_GenericAlloc(b, c) ==
  /\ Move(b, "system", "object")
  /\ class' = [class EXCEPT ![b] = c]
  /\ IF c = "T" THEN missed > 0 /\ missed' = missed - 1 ELSE UNCHANGED missed
  /\ UNCHANGED <<capacity, slots, split>>

\* Whose tp_free is free_with_freelist.  A #[pyclass] without a tp_free of its
\* own inherits its base's; a class statement gives its type another.
FreesToList(b) == class[b] # "python class"

\* PyObjectFreeList::insert, when there is room
insert(b) ==
  /\ split + 1 < capacity
  /\ slots' = [slots EXCEPT ![split + 1] = b]
  /\ split' = split + 1

Full == split + 1 >= capacity

FreeToList(b) ==
  /\ FreesToList(b)
  /\ Move(b, "object", "list")
  /\ insert(b)
  /\ UNCHANGED <<capacity, class, missed>>

\* The list is full: the block goes back to the system when the lock is gone.
FreeRefused(b) ==
  /\ FreesToList(b)
  /\ Move(b, "object", "refused")
  /\ Full
  /\ UNCHANGED <<capacity, slots, split, class, missed>>

PyObject_Free(b) ==
  /\ \/ Move(b, "refused", "system")
     \/ Move(b, "object", "system") /\ ~FreesToList(b)
  /\ UNCHANGED <<capacity, slots, split, class, missed>>

FreeListNext ==
  \/ AllocMiss
  \/ \E b \in Blocks :
       \/ AllocHit(b) \/ PyObject_Init(b)
       \/ \E c \in Classes : PyType_GenericAlloc(b, c)
       \/ FreeToList(b) \/ FreeRefused(b) \/ PyObject_Free(b)

FreeListSpec == FreeListInit /\ [][FreeListNext]_freeVars
-----------------------------------------------------------------------------
Listed(b) == {i \in DOMAIN slots : slots[i] = b}

\* A block is handed out to one object at a time: it is in one slot while it is
\* on the list and in none while it is anywhere else, whichever threads allocate
\* and free meanwhile, and pop never finds the list corrupt.
NeverHandedOutTwice ==
  /\ \A b \in Blocks : Cardinality(Listed(b)) = (IF place[b] = "list" THEN 1 ELSE 0)
  /\ ~Corrupt

\* "obj must be a valid pointer to an instance of T (not a subclass)", which
\* free_with_freelist asserts (impl_/pyclass.rs:970-978): what is on T's list,
\* or was taken from it for a new T, was allocated as a T.
ListedAreInstancesOfT ==
  \A b \in Blocks : place[b] \in {"list", "popped"} => class[b] = "T"
=============================================================================
