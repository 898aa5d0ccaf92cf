------------------------------- MODULE MCGil -------------------------------
(* Small instances of Gil: every handle refers to the one object at first,  *)
(* and one handle is left to be a clone.                                    *)
EXTENDS Gil

CONSTANTS o1, h1

MCObjects == {o1}
MCInitialOf == [h \in Handles |-> o1]
MCInitial == Handles \ {h1}
=============================================================================
