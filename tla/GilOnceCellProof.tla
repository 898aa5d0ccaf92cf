--------------------------- MODULE GilOnceCellProof ---------------------------
(***************************************************************************)
(* A GILOnceCell implements a write-once cell, for every number of threads *)
(* and of values and every depth of re-entrant initialisers.               *)
(***************************************************************************)
EXTENDS GilOnceCell, TLAPS

Steps == {"idle", "get", "f", "yielded", "set", "write", "unwrap", "answered"}

\* A running f is counted, and there is room for the next one.
Depths ==
  \A t \in Threads : /\ pc[t] = "get" => depth[t] < MaxDepth
                     /\ pc[t] \in {"f", "yielded"} => depth[t] > 0
                     /\ pc[t] = "idle" => depth[t] = 0

\* A written cell holds a value, an unwritten one nothing.
Written == data # NoValue <=> is_completed

\* A thread has a value in its hand exactly while set is under way.
HandsInSet == \A t \in Threads : hand[t] # NoValue <=> pc[t] \in {"set", "write"}

\* The thread inside the closure of call_once_force is alone, and the Once
\* is running.
ClosureAlone ==
  \A t \in Threads : pc[t] = "write" =>
    /\ once = "running"
    /\ \A u \in Threads : pc[u] = "write" => u = t

\* A reference is to the value of the cell, which is written.
RefsAreCurrent == \A t \in Threads : ref[t] # NoValue => is_completed /\ ref[t] = data

CellInv ==
  /\ CellTypeOK
  /\ Depths
  /\ Written
  /\ HandsInSet
  /\ ClosureAlone
  /\ UnwrapNeverFails
  /\ RefsAreCurrent
  /\ OneOwner

LEMMA InitCell == CellInit => CellInv
  BY CellAssumption DEF CellInit, CellInv, CellTypeOK, Depths, Written, HandsInSet, ClosureAlone,
     UnwrapNeverFails, RefsAreCurrent, OneOwner, is_completed


LEMMA StepCell == CellInv /\ [CellNext]_cellVars => CellInv'
<1> SUFFICES ASSUME CellInv, [CellNext]_cellVars PROVE CellInv'
  OBVIOUS
<1> USE CellAssumption DEF CellInv, CellTypeOK, Depths, Written, HandsInSet, ClosureAlone,
        UnwrapNeverFails, RefsAreCurrent, OneOwner, is_completed, Go, values
<1>1. ASSUME NEW t \in Threads, get_or_init(t) PROVE CellInv'
  BY <1>1 DEF get_or_init
<1>2. ASSUME NEW t \in Threads, get(t) PROVE CellInv'
  BY <1>2 DEF get
<1>3. ASSUME NEW t \in Threads, FYield(t) PROVE CellInv'
  BY <1>3 DEF FYield
<1>4. ASSUME NEW t \in Threads, FResume(t) PROVE CellInv'
  BY <1>4 DEF FResume
<1>5. ASSUME NEW t \in Threads, FReenters(t) PROVE CellInv'
  BY <1>5 DEF FReenters
<1>6. ASSUME NEW t \in Threads, FReturns(t) PROVE CellInv'
  BY <1>6 DEF FReturns, Fresh
<1>7. ASSUME NEW t \in Threads, FFails(t) PROVE CellInv'
  BY <1>7 DEF FFails
<1>8. ASSUME NEW t \in Threads, SetBegin(t) PROVE CellInv'
  BY <1>8 DEF SetBegin
<1>9. ASSUME NEW t \in Threads, SetWrite(t) PROVE CellInv'
  BY <1>9 DEF SetWrite
<1>10. ASSUME NEW t \in Threads, SetLoses(t) PROVE CellInv'
  BY <1>10 DEF SetLoses
<1>11. ASSUME NEW t \in Threads, Unwrap(t) PROVE CellInv'
  BY <1>11 DEF Unwrap
<1>12. ASSUME NEW t \in Threads, get_or_init_returns(t) PROVE CellInv'
  BY <1>12 DEF get_or_init_returns
<1>13. ASSUME NEW t \in Threads, Release(t) PROVE CellInv'
  BY <1>13 DEF Release
<1>14. CASE take
  BY <1>14 DEF take
<1>15. CASE replace
  BY <1>15 DEF replace
<1>16. CASE UNCHANGED cellVars
  BY <1>16 DEF cellVars
<1> QED
  BY <1>1, <1>2, <1>3, <1>4, <1>5, <1>6, <1>7, <1>8, <1>9, <1>10, <1>11, <1>12, <1>13, <1>14, <1>15, <1>16 DEF CellNext, Continue


\* Everything the proofs below need holds in every reachable state.
THEOREM CellInvariant == CellSpec => []CellInv
  BY InitCell, StepCell, PTL DEF CellSpec

\* The variables keep their types; in particular a nest of initialisers never
\* exceeds its bound.
THEOREM CellTypeCorrect == CellSpec => []CellTypeOK
<1>1. CellInv => CellTypeOK
  BY DEF CellInv
<1> QED
  BY <1>1, CellInvariant, PTL

\* The unwrap at the end of init never fails (sync.rs:228-231).
THEOREM InitNeverPanics == CellSpec => []UnwrapNeverFails
<1>1. CellInv => UnwrapNeverFails
  BY DEF CellInv
<1> QED
  BY <1>1, CellInvariant, PTL

\* Every value that was computed is in exactly one place, a hand, the cell or
\* the taker's, or has been dropped: the loser of a race drops its own, and
\* none is lost (sync.rs:249-284).
THEOREM ValuesHaveOneOwner == CellSpec => []OneOwner
<1>1. CellInv => OneOwner
  BY DEF CellInv
<1> QED
  BY <1>1, CellInvariant, PTL

\* One thread writes the cell's memory, while nobody reads it
\* (sync.rs:254-261).
THEOREM WritesAreExclusive == CellSpec => []OneWriter
<1>1. CellInv => OneWriter
  BY DEF CellInv, ClosureAlone, RefsAreCurrent, is_completed, OneWriter, CellTypeOK
<1> QED
  BY <1>1, CellInvariant, PTL

\* The initial states of the cell are those of the write-once cell.
LEMMA InitRefines == CellInit => WO!WInit
  BY DEF CellInit, WO!WInit, is_completed

\* Every step of the code is a step of the write-once cell, or changes
\* neither its value nor a reference to it.
LEMMA StepRefines == CellInv /\ [CellNext]_cellVars => [WO!WNext]_(WO!cellVars)
<1> SUFFICES ASSUME CellInv, [CellNext]_cellVars PROVE [WO!WNext]_(WO!cellVars)
  OBVIOUS
<1> DEFINE cell == IF is_completed THEN data ELSE NoValue
<1> USE DEF is_completed, Go, values
<1>0. data \in Values \cup {NoValue} /\ ref \in [Threads -> Values \cup {NoValue}]
  BY DEF CellInv, CellTypeOK
\* A reference is taken: by get and by Unwrap.
<1>1. ASSUME NEW t \in Threads, get(t) \/ Unwrap(t) PROVE [WO!WNext]_(WO!cellVars)
  <2>1. CASE UNCHANGED ref
    BY <1>1, <2>1 DEF get, Unwrap, WO!cellVars
  <2>2. CASE ref' # ref
    <3>1. is_completed /\ ref' = [ref EXCEPT ![t] = data] /\ UNCHANGED <<once, data>>
      BY <1>1, <2>2 DEF get, Unwrap
    <3>2. data # NoValue
      BY <3>1 DEF CellInv, Written
    <3> QED
      BY <3>1, <3>2 DEF WO!WNext, WO!Read
  <2> QED
    BY <2>1, <2>2
\* A reference is given up, by the user or by an outer f.
<1>2. ASSUME NEW t \in Threads, get_or_init_returns(t) \/ Release(t) PROVE [WO!WNext]_(WO!cellVars)
  <2>1. UNCHANGED <<once, data>> /\ (UNCHANGED ref \/ ref' = [ref EXCEPT ![t] = NoValue])
    BY <1>2 DEF get_or_init_returns, Release
  <2> QED
    BY <2>1 DEF WO!WNext, WO!Forget, WO!cellVars
\* The closure of call_once_force completes: the value appears.
<1>3. ASSUME NEW t \in Threads, SetWrite(t) PROVE [WO!WNext]_(WO!cellVars)
  <2>1. once = "running" /\ hand[t] \in Values
    BY <1>3 DEF SetWrite, CellInv, ClosureAlone, HandsInSet, CellTypeOK
  <2>2. once' = "complete" /\ data' = hand[t] /\ UNCHANGED ref
    BY <1>3 DEF SetWrite
  <2> QED
    BY <2>1, <2>2 DEF WO!WNext, WO!Write
\* take and the cell's Drop, when nobody has a reference.
<1>4. ASSUME take \/ replace PROVE [WO!WNext]_(WO!cellVars)
  BY <1>4 DEF take, replace, WO!WNext, WO!Empty
\* The closure begins: once changes, the value that can be seen does not.
<1>5. ASSUME NEW t \in Threads, SetBegin(t) PROVE [WO!WNext]_(WO!cellVars)
  BY <1>5 DEF SetBegin, WO!cellVars
<1>6. ASSUME NEW t \in Threads,
             \/ get_or_init(t) \/ FYield(t) \/ FResume(t) \/ FReenters(t)
             \/ FReturns(t) \/ FFails(t) \/ SetLoses(t)
      PROVE  [WO!WNext]_(WO!cellVars)
  BY <1>6 DEF get_or_init, FYield, FResume, FReenters, FReturns, FFails, SetLoses, WO!cellVars
<1>7. CASE UNCHANGED cellVars
  BY <1>7 DEF cellVars, WO!cellVars
<1> QED
  BY <1>1, <1>2, <1>3, <1>4, <1>5, <1>6, <1>7 DEF CellNext, Continue

\* A GILOnceCell implements a write-once cell: no reader is ever given
\* anything but the one value that was written, and the value does not change
\* while a reference to it is alive.
THEOREM CellImplementsWriteOnce == CellSpec => ImplementsWriteOnce
  BY InitRefines, StepRefines, CellInvariant, PTL DEF CellSpec, ImplementsWriteOnce, WO!WSpec
===============================================================================
