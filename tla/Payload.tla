------------------------------- MODULE Payload -------------------------------
(***************************************************************************)
(* Who refers to the payload of a #[pyclass] object in the backend         *)
(* (crates/pyo3-rustpython), on one thread.  The generated wrappers give a *)
(* method a &T or, by way of PyRefMut, a &mut T, and a setter a &mut T;    *)
(* there is no borrow flag (compare PyCell).  A method may call Python     *)
(* code, a setter drops the value it replaces, whose destructor may be     *)
(* Python code, and Python code calls methods and setters.                 *)
(***************************************************************************)
EXTENDS Naturals, Sequences, SequencesExt

CONSTANTS Objects,    \* instances of the #[pyclass]
          MaxDepth    \* bound: nested calls

VARIABLE frames   \* the calls under way, the innermost last

\* What a call refers to while it runs: Python code to no payload.
Python == [object |-> "none", kind |-> "python"]
Frames == [object : Objects, kind : {"shared", "mutable", "setter"}] \union {Python}

PayloadInit == frames = <<Python>>

PythonRuns == frames # <<>> /\ Last(frames) = Python
Push(frame) == Len(frames) < MaxDepth /\ frames' = Append(frames, frame)

\* A method with &self or PyRef
CallShared(o) == PythonRuns /\ Push([object |-> o, kind |-> "shared"])

\* A method with &mut self or PyRefMut, or __next__: from_vm_ref, deref_mut
CallMutable(o) == PythonRuns /\ Push([object |-> o, kind |-> "mutable"])

\* #[pyo3(set)]
CallSetter(o) == PythonRuns /\ Push([object |-> o, kind |-> "setter"])

\* The method calls Python code; the setter's assignment runs a destructor.
CallPython == frames # <<>> /\ Last(frames) # Python /\ Push(Python)

Return == Len(frames) > 1 /\ frames' = Front(frames)

PayloadNext ==
  \/ \E o \in Objects : CallShared(o) \/ CallMutable(o) \/ CallSetter(o)
  \/ CallPython
  \/ Return

PayloadSpec == PayloadInit /\ [][PayloadNext]_frames
-----------------------------------------------------------------------------
\* "The PyRef is the sole accessor in this context" (instance.rs:956): no
\* other call refers to a payload that some call refers to mutably, whichever
\* of the two calls came first.
SoleAccessor ==
  \A i, j \in DOMAIN frames :
    frames[i].kind \in {"mutable", "setter"} /\ frames[j].object = frames[i].object => i = j
=============================================================================
