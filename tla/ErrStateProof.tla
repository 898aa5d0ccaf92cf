---------------------------- MODULE ErrStateProof ----------------------------
(***************************************************************************)
(* The safety properties of PyErrState, for any number of threads that     *)
(* normalize an error.                                                     *)
(***************************************************************************)
EXTENDS ErrState, TLAPS

\* One thread runs the closure of the Once, and only while the Once says so.
ClosureAlone ==
  /\ \A t, u \in Closure : t = u
  /\ Closure # {} => normalized = "running"

\* A call from the closure is at its check.
NestedAtCheck == ReentryIsDetected

\* What a thread finds in inner, from where it is: nobody moves the error
\* while a call borrows it.
InnerByStep ==
  /\ \A t \in Threads :
       /\ pc[t] \in {"mark", "take"} => inner = "lazy"
       /\ pc[t] \in {"attach", "lazy", "write"} \/ t \in nested => inner = "none"
       /\ pc[t] = "complete" => inner = "normalized"
       /\ pc[t] \in {"regain", "match"} => is_completed
       /\ pc[t] \notin {"out", "py"} => Usable
  /\ normalized = "incomplete" => inner \in {"lazy", "moved"}
  /\ is_completed => inner \in {"normalized", "moved"}
  /\ refs # {} => is_completed /\ inner = "normalized"

\* Every trace of a panic comes from the closure; the thread that normalized
\* without one never gets to the assert again.
PanicsHaveACause ==
  \/ disturbed
  \/ /\ ~poisoned /\ normalized # "poisoned" /\ failed = {} /\ nested = {}
     /\ \A t \in Threads :
          /\ pc[t] \notin {"unwind", "unwound"}
          /\ normalizing_thread = t =>
               \/ pc[t] \in {"take", "attach", "lazy", "write", "complete"}
               \/ is_completed /\ pc[t] # "check"

\* The mutex is untouched until the closure marks its thread.
CleanBeforeMark ==
  normalized = "incomplete" \/ (\E t \in Threads : pc[t] = "mark")
    => ~poisoned /\ normalizing_thread = NoThread

ErrInv ==
  /\ TypeOK
  /\ CleanBeforeMark
  /\ ClosureAlone
  /\ NestedAtCheck
  /\ InnerByStep
  /\ PanicsHaveACause

LEMMA InitErr == Init => ErrInv
<1> SUFFICES ASSUME Init PROVE ErrInv
  OBVIOUS
<1>1. Types
  <2>1. pc \in [Threads -> {"out"}] /\ ops \in [Threads -> {0}]
    BY DEF Init
  <2>2. disturbed \in BOOLEAN /\ poisoned \in BOOLEAN
    BY Zenon DEF Init
  <2> QED
    BY <2>1, <2>2, ErrAssumption DEF Init, Types
<1>2. Closure = {}
  BY DEF Init, Closure, InClosure
<1> QED
  BY <1>1, <1>2, ErrAssumption DEF Init, ErrInv, TypeOK, ClosureAlone, NestedAtCheck,
     ReentryIsDetected, InnerByStep, PanicsHaveACause, CleanBeforeMark, is_completed,
     Usable

LEMMA StepErr == ErrInv /\ [Next]_vars => ErrInv'
<1> SUFFICES ASSUME ErrInv, [Next]_vars PROVE ErrInv'
  OBVIOUS
<1> USE ErrAssumption DEF ErrInv, TypeOK, Types, ClosureAlone, NestedAtCheck, ReentryIsDetected,
        InnerByStep, PanicsHaveACause, CleanBeforeMark, Closure, InClosure, is_completed, Usable, errVars,
        threadVars, Go, Op, SuspendGIL, RestoreGIL
<1>1. ASSUME NEW t \in Threads, Enter(t) PROVE ErrInv'
  BY <1>1 DEF Enter
<1>2. ASSUME NEW t \in Threads, Leave(t) PROVE ErrInv'
  BY <1>2 DEF Leave
<1>3. ASSUME NEW t \in Threads, Yield(t) PROVE ErrInv'
  BY <1>3 DEF Yield
<1>4. ASSUME NEW t \in Threads, Resume(t) PROVE ErrInv'
  BY <1>4 DEF Resume
<1>5. ASSUME NEW t \in Threads, Call(t) PROVE ErrInv'
  BY <1>5 DEF Call, as_normalized
<1>6. ASSUME NEW t \in Threads, Reenter(t) PROVE ErrInv'
  BY <1>6 DEF Reenter, as_normalized
<1>7. ASSUME NEW t \in Threads, Check(t) PROVE ErrInv'
  <2>1. CASE pc' = [pc EXCEPT ![t] = "suspend"] /\ ~poisoned /\ normalizing_thread # t
             /\ UNCHANGED <<gil, poisoned, nested, failed>>
    BY <1>7, <2>1 DEF Check
  <2>2. CASE (poisoned \/ normalizing_thread = t) /\ poisoned' = TRUE /\ CallPanics(t)
    <3>1. disturbed
      BY <1>7, <2>2 DEF Check
    <3>2. t \notin nested => \A u \in Threads : u \in Closure' <=> u \in Closure
      BY <1>7, <2>2 DEF Check, CallPanics
    <3>3. t \in nested => \A u \in Threads : u \in Closure' <=> u \in Closure
      BY <1>7, <2>2 DEF Check, CallPanics
    <3> QED
      BY <1>7, <2>2, <3>1, <3>2, <3>3 DEF Check, CallPanics
  <2> QED
    BY <1>7, <2>1, <2>2 DEF Check
<1>8. ASSUME NEW t \in Threads, Suspend(t) PROVE ErrInv'
  BY <1>8 DEF Suspend
<1>9. ASSUME NEW t \in Threads, Begin(t) PROVE ErrInv'
  BY <1>9 DEF Begin
<1>10. ASSUME NEW t \in Threads, Over(t) PROVE ErrInv'
  BY <1>10 DEF Over
<1>11. ASSUME NEW t \in Threads, Mark(t) PROVE ErrInv'
  BY <1>11 DEF Mark
<1>12. ASSUME NEW t \in Threads, Take(t) PROVE ErrInv'
  BY <1>12 DEF Take
<1>13. ASSUME NEW t \in Threads, Attach(t) PROVE ErrInv'
  BY <1>13 DEF Attach
<1>14. ASSUME NEW t \in Threads, LazyReturns(t) PROVE ErrInv'
  BY <1>14 DEF LazyReturns
<1>15. ASSUME NEW t \in Threads, LazyPanics(t) PROVE ErrInv'
  BY <1>15 DEF LazyPanics
<1>16. ASSUME NEW t \in Threads, Write(t) PROVE ErrInv'
  BY <1>16 DEF Write
<1>17. ASSUME NEW t \in Threads, Complete(t) PROVE ErrInv'
  BY <1>17 DEF Complete
<1>18. ASSUME NEW t \in Threads, Regain(t) PROVE ErrInv'
  BY <1>18 DEF Regain
<1>19. ASSUME NEW t \in Threads, Match(t) PROVE ErrInv'
  BY <1>19 DEF Match
<1>20. ASSUME NEW t \in Threads, restore(t) PROVE ErrInv'
  BY <1>20 DEF restore
<1>21. CASE UNCHANGED vars
  BY <1>21 DEF vars
<1> QED
  BY <1>1, <1>2, <1>3, <1>4, <1>5, <1>6, <1>7, <1>8, <1>9, <1>10, <1>11, <1>12, <1>13,
     <1>14, <1>15, <1>16, <1>17, <1>18, <1>19, <1>20, <1>21
     DEF Next, Step, Continue, Finished

\* The inductive invariant of the error.
THEOREM ErrInvariant == Spec => []ErrInv
  BY InitErr, StepErr, PTL DEF Spec

\* The variables have their types, and normalizing_thread names the thread
\* that is normalizing (err_state.rs:103-106).
THEOREM ErrTypeCorrect == Spec => []TypeOK
<1>1. ErrInv => TypeOK
  BY DEF ErrInv
<1> QED
  BY <1>1, ErrInvariant, PTL

\* as_normalized only ever hands out the normalized state, and nothing takes
\* it back while a reference is out (err_state.rs:16-17, 70-83).
THEOREM NormalizedIsForever == Spec => []ReferencesAreNormalized
<1>1. ErrInv => ReferencesAreNormalized
  BY DEF ErrInv, InnerByStep, ReferencesAreNormalized
<1> QED
  BY <1>1, ErrInvariant, PTL

\* The accesses to the UnsafeCell never conflict (err_state.rs:108-131).
THEOREM InnerNeverRaces == Spec => []InnerIsExclusive
<1>1. ErrInv => InnerIsExclusive
  BY DEF ErrInv, ClosureAlone, InnerByStep, InnerIsExclusive, Accessing, Closure, InClosure,
     is_completed
<1> QED
  BY <1>1, ErrInvariant, PTL

\* A closure that calls as_normalized of its own error panics and never waits
\* for itself (err_state.rs:91-98).
THEOREM ReentryPanics == Spec => []ReentryIsDetected
<1>1. ErrInv => ReentryIsDetected
  BY DEF ErrInv, NestedAtCheck
<1> QED
  BY <1>1, ErrInvariant, PTL

\* No check of the code fails unless the closure misbehaved
\* (err_state.rs:77-78, 93-98, 103-112, 129-130).
THEOREM NoSpuriousPanic == Spec => []PanicsOnlyIfDisturbed
<1>1. ErrInv => PanicsOnlyIfDisturbed
  BY DEF ErrInv, PanicsHaveACause, PanicsOnlyIfDisturbed
<1> QED
  BY <1>1, ErrInvariant, PTL
=============================================================================
