------------------------------ MODULE WriteOnce ------------------------------
(***************************************************************************)
(* What a GILOnceCell promises: a cell that is written at most once, whose *)
(* readers are all given the value that was written, and that is emptied   *)
(* only when nobody refers to its value.                                   *)
(***************************************************************************)
CONSTANTS Threads, Values, NoValue

VARIABLES
  cell,     \* the value, or NoValue
  answer    \* the value each thread has a reference to, or NoValue

cellVars == <<cell, answer>>

WInit ==
  /\ cell = NoValue
  /\ answer = [t \in Threads |-> NoValue]

Write(v) ==
  /\ cell = NoValue
  /\ cell' = v
  /\ UNCHANGED answer

Read(t) ==
  /\ cell # NoValue
  /\ answer' = [answer EXCEPT ![t] = cell]
  /\ UNCHANGED cell

Forget(t) ==
  /\ answer' = [answer EXCEPT ![t] = NoValue]
  /\ UNCHANGED cell

Empty ==
  /\ \A t \in Threads : answer[t] = NoValue
  /\ cell' = NoValue
  /\ UNCHANGED answer

WNext ==
  \/ \E v \in Values : Write(v)
  \/ \E t \in Threads : Read(t) \/ Forget(t)
  \/ Empty

WSpec == WInit /\ [][WNext]_cellVars
=============================================================================
