------------------------------ MODULE MCLazily ------------------------------
(***************************************************************************)
(* The two things that are made on first use, by user code that lets other *)
(* threads run, fails and comes back: a cell, and a type object.  Threads  *)
(* race to make one or the other; the one that is not made rests in its    *)
(* initial state.                                                          *)
(***************************************************************************)
EXTENDS GilOnceCell, MCLazyType, TLC

VARIABLE part   \* what is made

cellOwn == <<freeThreaded, once, data, pc, depth, hand, ref, dropped, taken, computed>>
typeOwn == <<typeVars, calls, served, ops>>
lazilyVars == <<part, gil, cellOwn, typeOwn>>

LazilyInit ==
  /\ part \in {"cell", "type"}
  /\ CellInit /\ (part # "cell" => ~freeThreaded)
  /\ Init

CellIsMade == part = "cell" /\ CellNext /\ UNCHANGED <<part, typeOwn>>
TypeIsMade == part = "type" /\ Next /\ UNCHANGED <<part, cellOwn>>

LazilyNext == CellIsMade \/ TypeIsMade

LazilySpec == LazilyInit /\ [][LazilyNext]_lazilyVars

Symmetry == Permutations(Threads) \cup Permutations(Values)
=============================================================================
