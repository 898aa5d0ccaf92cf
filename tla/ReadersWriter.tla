---------------------------- MODULE ReadersWriter ----------------------------
(***************************************************************************)
(* What borrow checking promises for the contents of a #[pyclass] object:  *)
(* any number of shared borrows, or one mutable borrow and nothing else.   *)
(***************************************************************************)
CONSTANT Refs

VARIABLES
  readers,  \* shared borrows that exist
  writers   \* mutable borrows that exist

rwVars == <<readers, writers>>

RWInit == readers = {} /\ writers = {}

Read(r) ==
  /\ writers = {}
  /\ readers' = readers \cup {r}
  /\ UNCHANGED writers

Write(r) ==
  /\ readers = {} /\ writers = {}
  /\ writers' = {r}
  /\ UNCHANGED readers

Release(r) ==
  /\ readers' = readers \ {r}
  /\ writers' = writers \ {r}

RWNext == \E r \in Refs : Read(r) \/ Write(r) \/ Release(r)

RWSpec == RWInit /\ [][RWNext]_rwVars
=============================================================================
