----------------------------- MODULE GilOnceCell -----------------------------
(***************************************************************************)
(* GILOnceCell (pyo3-fork/src/sync.rs:122-380): std's Once guards the      *)
(* cell's data, but the initialiser f runs outside it, so that threads may *)
(* race to compute a value and the losers drop theirs.  f is arbitrary: it *)
(* may fail, let other threads run, or initialise the same cell.           *)
(*                                                                         *)
(* The interpreter is built with a GIL, which a thread has while it is     *)
(* inside a call, or without one (Py_GIL_DISABLED).                        *)
(***************************************************************************)
EXTENDS Interpreter, Naturals, FiniteSets

CONSTANTS
  Values,      \* identities of the values initialisers compute
  NoValue,
  MaxDepth     \* initialisers of one thread that nest (model bound)

ASSUME CellAssumption ==
  /\ NoThread \notin Threads
  /\ NoValue \notin Values
  /\ MaxDepth \in Nat \ {0}

VARIABLES
  freeThreaded,  \* the build of the interpreter
  once,          \* the state of the cell's Once
  data,          \* what the cell's memory holds
  pc,            \* the step of the innermost call of each thread
  depth,         \* calls of each thread whose f is running
  hand,          \* the value a thread computed and has not disposed of
  ref,           \* the value a thread was given a reference to
  dropped,       \* values that were dropped
  taken,         \* values that take moved out of the cell
  computed       \* history: every value an initialiser returned so far

cellVars == <<freeThreaded, gil, once, data, pc, depth, hand, ref, dropped, taken,
              computed>>
values == <<data, hand, dropped, taken, computed>>

Runs(t) == freeThreaded \/ gil = t

Go(t, from, to) ==
  /\ pc[t] = from
  /\ Runs(t)
  /\ pc' = [pc EXCEPT ![t] = to]

\* Each run of f computes a value of its own.
Fresh == Values \ computed

CellInit ==
  /\ freeThreaded \in BOOLEAN
  /\ gil = NoThread
  /\ once = "incomplete"
  /\ data = NoValue
  /\ pc = [t \in Threads |-> "idle"]
  /\ depth = [t \in Threads |-> 0]
  /\ hand = [t \in Threads |-> NoValue]
  /\ ref = [t \in Threads |-> NoValue]
  /\ dropped = {}
  /\ taken = {}
  /\ computed = {}

\* A thread attaches and calls get_or_init or get_or_try_init.
get_or_init(t) ==
  /\ pc[t] = "idle"
  /\ ref[t] = NoValue
  /\ freeThreaded \/ gil = NoThread
  /\ gil' = IF freeThreaded THEN gil ELSE t
  /\ pc' = [pc EXCEPT ![t] = "get"]
  /\ UNCHANGED <<freeThreaded, once, depth, ref, values>>

is_completed == once = "complete"

\* get: the fast path, or on to init.
get(t) ==
  \/ /\ is_completed
     /\ Go(t, "get", "answered")
     /\ ref' = [ref EXCEPT ![t] = data]
     /\ UNCHANGED <<freeThreaded, gil, once, depth, values>>
  \/ /\ ~is_completed
     /\ Go(t, "get", "f")
     /\ depth' = [depth EXCEPT ![t] = @ + 1]
     /\ UNCHANGED <<freeThreaded, gil, once, ref, values>>

\* f lets other threads run, and runs again.
FYield(t) ==
  /\ Go(t, "f", "yielded")
  /\ gil' = NoThread
  /\ UNCHANGED <<freeThreaded, once, depth, ref, values>>

FResume(t) ==
  /\ pc[t] = "yielded"
  /\ freeThreaded \/ gil = NoThread
  /\ gil' = IF freeThreaded THEN gil ELSE t
  /\ pc' = [pc EXCEPT ![t] = "f"]
  /\ UNCHANGED <<freeThreaded, once, depth, ref, values>>

\* f calls get_or_init of the same cell.
FReenters(t) ==
  /\ depth[t] < MaxDepth
  /\ Go(t, "f", "get")
  /\ UNCHANGED <<freeThreaded, gil, once, depth, ref, values>>

FReturns(t) ==
  /\ Go(t, "f", "set")
  /\ \E v \in Fresh : /\ hand' = [hand EXCEPT ![t] = v]
                       /\ computed' = computed \cup {v}
  /\ depth' = [depth EXCEPT ![t] = @ - 1]
  /\ UNCHANGED <<freeThreaded, gil, once, data, ref, dropped, taken>>

\* f fails: the ? in init returns its error, here also to an outer f.
FFails(t) ==
  /\ Go(t, "f", "answered")
  /\ depth' = [depth EXCEPT ![t] = @ - 1]
  /\ UNCHANGED <<freeThreaded, gil, once, ref, values>>

\* Wrong: set does not ask whether the cell is written, or being written.
SetBeginAgain(t) ==
  /\ once # "running"
  /\ Go(t, "set", "write")
  /\ once' = "running"
  /\ UNCHANGED <<freeThreaded, gil, depth, ref, values>>

SetBeginTwice(t) ==
  /\ once # "complete"
  /\ Go(t, "set", "write")
  /\ once' = "running"
  /\ UNCHANGED <<freeThreaded, gil, depth, ref, values>>

\* set: call_once_force runs its closure unless the cell is written, and
\* blocks while another thread's closure runs.
SetBegin(t) ==
  /\ once = "incomplete"
  /\ Go(t, "set", "write")
  /\ once' = "running"
  /\ UNCHANGED <<freeThreaded, gil, depth, ref, values>>

SetWrite(t) ==
  /\ Go(t, "write", "unwrap")
  /\ data' = hand[t]
  /\ hand' = [hand EXCEPT ![t] = NoValue]
  /\ once' = "complete"
  /\ UNCHANGED <<freeThreaded, gil, depth, ref, dropped, taken, computed>>

\* Wrong: set gives up while another thread writes.
SetLosesEarly(t) ==
  /\ once # "incomplete"
  /\ Go(t, "set", "unwrap")
  /\ dropped' = dropped \cup {hand[t]}
  /\ hand' = [hand EXCEPT ![t] = NoValue]
  /\ UNCHANGED <<freeThreaded, gil, once, data, depth, ref, taken, computed>>

\* Wrong: the loser's value is neither dropped nor given back.
SetLosesForgets(t) ==
  /\ is_completed
  /\ Go(t, "set", "unwrap")
  /\ hand' = [hand EXCEPT ![t] = NoValue]
  /\ UNCHANGED <<freeThreaded, gil, once, data, depth, ref, dropped, taken, computed>>

\* Err(value): init drops the value it was given back.
SetLoses(t) ==
  /\ is_completed
  /\ Go(t, "set", "unwrap")
  /\ dropped' = dropped \cup {hand[t]}
  /\ hand' = [hand EXCEPT ![t] = NoValue]
  /\ UNCHANGED <<freeThreaded, gil, once, data, depth, ref, taken, computed>>

\* self.get(py).unwrap() at the end of init.
Unwrap(t) ==
  /\ is_completed
  /\ Go(t, "unwrap", "answered")
  /\ ref' = [ref EXCEPT ![t] = data]
  /\ UNCHANGED <<freeThreaded, gil, once, depth, values>>

\* The call returns: to an outer f, which has no use for its result, or to
\* the user, who detaches and keeps the reference.
get_or_init_returns(t) ==
  /\ \/ /\ depth[t] > 0
        /\ Go(t, "answered", "f")
        /\ ref' = [ref EXCEPT ![t] = NoValue]
        /\ UNCHANGED gil
     \/ /\ depth[t] = 0
        /\ Go(t, "answered", "idle")
        /\ gil' = NoThread
        /\ UNCHANGED ref
  /\ UNCHANGED <<freeThreaded, once, depth, values>>

\* The user's last use of the reference.
Release(t) ==
  /\ pc[t] = "idle"
  /\ ref[t] # NoValue
  /\ ref' = [ref EXCEPT ![t] = NoValue]
  /\ UNCHANGED <<freeThreaded, gil, once, pc, depth, values>>

\* take has &mut self: nobody is in a call or has a reference.
take ==
  /\ \A t \in Threads : pc[t] = "idle" /\ ref[t] = NoValue
  /\ is_completed
  /\ once' = "incomplete"
  /\ taken' = taken \cup {data}
  /\ data' = NoValue
  /\ UNCHANGED <<freeThreaded, gil, pc, depth, hand, ref, dropped, computed>>

\* The cell's Drop, and a new cell in its place.
replace ==
  /\ \A t \in Threads : pc[t] = "idle" /\ ref[t] = NoValue
  /\ is_completed
  /\ once' = "incomplete"
  /\ dropped' = dropped \cup {data}
  /\ data' = NoValue
  /\ UNCHANGED <<freeThreaded, gil, pc, depth, hand, ref, taken, computed>>

Continue(t) ==
  \/ get(t) \/ FYield(t) \/ FResume(t) \/ FReenters(t) \/ FReturns(t) \/ FFails(t)
  \/ SetBegin(t) \/ SetWrite(t) \/ SetLoses(t) \/ Unwrap(t) \/ get_or_init_returns(t)

CellNext ==
  \/ \E t \in Threads : get_or_init(t) \/ Continue(t) \/ Release(t)
  \/ take
  \/ replace

CellSpec == CellInit /\ [][CellNext]_cellVars

-----------------------------------------------------------------------------
CellTypeOK ==
  /\ freeThreaded \in BOOLEAN
  /\ gil \in Threads \cup {NoThread}
  /\ once \in {"incomplete", "running", "complete"}
  /\ data \in Values \cup {NoValue}
  /\ pc \in [Threads -> {"idle", "get", "f", "yielded", "set", "write", "unwrap", "answered"}]
  /\ depth \in [Threads -> 0..MaxDepth]
  /\ hand \in [Threads -> Values \cup {NoValue}]
  /\ ref \in [Threads -> Values \cup {NoValue}]
  /\ dropped \subseteq Values
  /\ taken \subseteq Values
  /\ computed \subseteq Values

\* The unwrap that ends init cannot fail, whichever thread won the race and
\* however deep the initialisers nest (sync.rs:228-231).
UnwrapNeverFails == \A t \in Threads : pc[t] = "unwrap" => is_completed

\* Every value an initialiser computed is in exactly one place, and nothing
\* else is: in the hand of the thread that computed it while set is under way,
\* in the cell, dropped once, or taken.  None is lost and none is owned twice,
\* whoever wins the race, whatever fails, and also when take or the cell's
\* Drop empties the cell (sync.rs:249-284).
OneOwner ==
  /\ computed = dropped \cup taken \cup
                 (({data} \cup {hand[t] : t \in Threads}) \ {NoValue})
  /\ \A t \in Threads :
       /\ hand[t] # NoValue <=> pc[t] \in {"set", "write"}
       /\ hand[t] \notin dropped \cup taken \cup ({data} \ {NoValue})
       /\ \A u \in Threads : hand[t] = hand[u] => t = u \/ hand[t] = NoValue
  /\ data \notin dropped \cup taken
  /\ dropped \cap taken = {}

\* At most one thread writes the memory of the cell, and nobody reads it
\* meanwhile (sync.rs:254-261).
OneWriter ==
  \A t \in Threads : pc[t] = "write" =>
    /\ once = "running"
    /\ \A u \in Threads \ {t} : pc[u] # "write" /\ ref[u] = NoValue

\* The promise of the cell, for the value and the references to it.
WO == INSTANCE WriteOnce WITH cell <- IF is_completed THEN data ELSE NoValue,
                              answer <- ref
ImplementsWriteOnce == WO!WSpec
=============================================================================
