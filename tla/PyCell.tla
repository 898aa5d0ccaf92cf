-------------------------------- MODULE PyCell --------------------------------
(***************************************************************************)
(* The borrow flag of a #[pyclass] object in the fork                      *)
(* (pyo3-fork/src/pycell/impl_.rs:56-175) and the PyRef and PyRefMut that  *)
(* move it (pyo3-fork/src/pycell.rs).  Without a GIL, threads race: the    *)
(* flag is read and then changed by compare_exchange in a loop.            *)
(*                                                                         *)
(* Each ref is one PyRef or PyRefMut that some thread tries to make, keeps *)
(* and drops, and may later make again; a dropped one is "none".           *)
(***************************************************************************)
EXTENDS Naturals, FiniteSets

CONSTANTS
  Refs,       \* the PyRefs and PyRefMuts of one object
  UsizeMax    \* usize::MAX

ASSUME CellAssumption == IsFiniteSet(Refs) /\ UsizeMax \in Nat \ {0}

VARIABLES
  flag,   \* BorrowFlag
  state,  \* the state of each ref
  value   \* the local variable of its increment loop

cellVars == <<flag, state, value>>

UNUSED == 0
HAS_MUTABLE_BORROW == UsizeMax

Shared == {r \in Refs : state[r] = "shared"}
Mutable == {r \in Refs : state[r] = "mutable"}

Go(r, from, to) == state[r] = from /\ state' = [state EXCEPT ![r] = to]

CellInit ==
  /\ flag = UNUSED
  /\ state = [r \in Refs |-> "none"]
  /\ value = [r \in Refs |-> 0]

\* Wrong: the count wraps around before it gets to HAS_MUTABLE_BORROW.
WrapAround(r) ==
  /\ value[r] # HAS_MUTABLE_BORROW
  /\ flag = value[r]
  /\ Go(r, "increment", "shared")
  /\ flag' = (flag + 1) % UsizeMax
  /\ UNCHANGED value

\* increment, from try_borrow: the load,
Load(r) ==
  /\ Go(r, "none", "increment")
  /\ value' = [value EXCEPT ![r] = flag]
  /\ UNCHANGED flag

\* the refusal of a mutably borrowed object,
Refuse(r) ==
  /\ value[r] = HAS_MUTABLE_BORROW
  /\ Go(r, "increment", "none")
  /\ UNCHANGED <<flag, value>>

\* and the compare_exchange, which succeeds
Exchange(r) ==
  /\ value[r] # HAS_MUTABLE_BORROW
  /\ flag = value[r]
  /\ Go(r, "increment", "shared")
  /\ flag' = flag + 1
  /\ UNCHANGED value

\* or yields the value that another thread wrote meanwhile.
Retry(r) ==
  /\ state[r] = "increment"
  /\ value[r] # HAS_MUTABLE_BORROW
  /\ flag # value[r]
  /\ value' = [value EXCEPT ![r] = flag]
  /\ UNCHANGED <<flag, state>>

release_borrow(r) ==
  /\ Go(r, "shared", "none")
  /\ flag' = IF flag = 0 THEN UsizeMax ELSE flag - 1
  /\ UNCHANGED value

\* try_borrow_mut, when it succeeds; it changes nothing when it fails.
try_borrow_mut(r) ==
  /\ flag = UNUSED
  /\ Go(r, "none", "mutable")
  /\ flag' = HAS_MUTABLE_BORROW
  /\ UNCHANGED value

release_borrow_mut(r) ==
  /\ Go(r, "mutable", "none")
  /\ flag' = UNUSED
  /\ UNCHANGED value

CellNext ==
  \E r \in Refs :
    \/ Load(r) \/ Refuse(r) \/ Exchange(r) \/ Retry(r) \/ release_borrow(r)
    \/ try_borrow_mut(r) \/ release_borrow_mut(r)

CellSpec == CellInit /\ [][CellNext]_cellVars

-----------------------------------------------------------------------------
CellTypeOK ==
  /\ flag \in 0..UsizeMax
  /\ state \in [Refs -> {"none", "increment", "shared", "mutable"}]
  /\ value \in [Refs -> 0..UsizeMax]

\* The flag says which borrows exist, also at the limit: a count that reaches
\* HAS_MUTABLE_BORROW refuses every borrow and comes down again, and no
\* decrement wraps around (impl_.rs:62-94).
FlagExact ==
  /\ Mutable # {} => flag = HAS_MUTABLE_BORROW
  /\ Mutable = {} => flag = Cardinality(Shared)

\* The borrows that the flag hands out are those of a readers-writer lock,
\* whatever a thread read before its compare_exchange (impl_.rs:145-174).
RW == INSTANCE ReadersWriter WITH readers <- Shared, writers <- Mutable
ImplementsReadersWriter == RW!RWSpec
=============================================================================
