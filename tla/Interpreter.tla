----------------------------- MODULE Interpreter -----------------------------
(***************************************************************************)
(* The threads of a Python interpreter and its GIL, for the modules that   *)
(* only ask who has it.  Gil models what the library knows of that.        *)
(***************************************************************************)
CONSTANTS
  Threads,
  NoThread

VARIABLE gil     \* the thread that has the GIL

\* PyEval_SaveThread and PyEval_RestoreThread, as SuspendGIL calls them.
SuspendGIL(t) == gil = t /\ gil' = NoThread
RestoreGIL(t) == gil = NoThread /\ gil' = t
=============================================================================
