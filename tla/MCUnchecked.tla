---------------------------- MODULE MCUnchecked -----------------------------
(***************************************************************************)
(* Six components that go through a raw pointer, or unwrap an option,      *)
(* without a check: the wrapper that reads its arguments, the list and the *)
(* dict iterator, the borrow flag of a #[pyclass] object, its free list,   *)
(* and the backend's pointer to the interpreter.  They share nothing but   *)
(* the question, so a behaviour is a behaviour of one of them, and the     *)
(* others rest in one of their initial states.                             *)
(***************************************************************************)
EXTENDS Arguments, ListIterator, DictIterator, PyCell, FreeList, VmContext

VARIABLE part   \* the component that runs

uncheckedVars == <<part, vars, listVars, dictVars, cellVars, freeVars, vmVars>>

UncheckedInit ==
  /\ part \in {"call", "list", "dict", "cell", "free", "vm"}
  /\ Init         /\ (part # "call" => items = <<>>)
  /\ ListInit     /\ (part # "list" => listLen = 0 /\ build = <<FALSE, FALSE>>)
  /\ DictInit     /\ (part # "dict" => entries = <<>>)
  /\ CellInit
  /\ FreeListInit /\ (part # "free" => capacity = 0)
  /\ VmInit       /\ (part # "vm" => ~pythread)

Calls == /\ part = "call" /\ Next
         /\ UNCHANGED <<part, listVars, dictVars, cellVars, freeVars, vmVars>>
Lists == /\ part = "list" /\ ListNext
         /\ UNCHANGED <<part, vars, dictVars, cellVars, freeVars, vmVars>>
Dicts == /\ part = "dict" /\ DictNext
         /\ UNCHANGED <<part, vars, listVars, cellVars, freeVars, vmVars>>
Cells == /\ part = "cell" /\ CellNext
         /\ UNCHANGED <<part, vars, listVars, dictVars, freeVars, vmVars>>
Frees == /\ part = "free" /\ FreeListNext
         /\ UNCHANGED <<part, vars, listVars, dictVars, cellVars, vmVars>>
Interpreters == /\ part = "vm" /\ VmNext
                /\ UNCHANGED <<part, vars, listVars, dictVars, cellVars, freeVars>>

UncheckedNext == Calls \/ Lists \/ Dicts \/ Cells \/ Frees \/ Interpreters

UncheckedSpec == UncheckedInit /\ [][UncheckedNext]_uncheckedVars
=============================================================================
