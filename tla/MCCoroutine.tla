---------------------------- MODULE MCCoroutine ----------------------------
(* Two threads post events to a coroutine that is cancelled meanwhile. *)
EXTENDS Coroutine

=============================================================================
