----------------------------- MODULE MCLazyType -----------------------------
(* A class with two class attributes. *)
EXTENDS LazyType

TwoAttrs == <<"A", "B">>
=============================================================================
