----------------------------- MODULE MCBlocking -----------------------------
(***************************************************************************)
(* The two places where a thread that has the GIL may wait for another one *)
(* inside std: a mutex and a Once that are used attached, and an error     *)
(* that is normalized.  Threads meet at one or the other; the one they do  *)
(* not meet at rests in an initial state.                                  *)
(***************************************************************************)
EXTENDS AttachedLocks, ErrState

VARIABLE part   \* where the threads meet

locksOwn == <<mutexVars, onceVars, lockOps>>
errOwn == <<errVars, threadVars, pc, ops>>
blockingVars == <<part, gil, locksOwn, errOwn>>

BlockingInit ==
  /\ part \in {"locks", "error"}
  /\ LocksInit
  /\ Init /\ (part # "error" => inner = "lazy")

LocksAreUsed(A) == part = "locks" /\ A /\ UNCHANGED <<part, errOwn>>
ErrorIsUsed(A) == part = "error" /\ A /\ UNCHANGED <<part, locksOwn>>

BlockingNext == LocksAreUsed(LocksNext) \/ ErrorIsUsed(Next)

BlockingFairSpec ==
  /\ BlockingInit /\ [][BlockingNext]_blockingVars
  /\ \A t \in Threads : WF_blockingVars(LocksAreUsed(LocksContinue(t)))
  /\ \A t \in Threads : WF_blockingVars(ErrorIsUsed(Continue(t)))
=============================================================================
