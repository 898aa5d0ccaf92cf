----------------------------- MODULE Coroutine -----------------------------
(***************************************************************************)
(* A Coroutine (pyo3-fork/src/coroutine.rs) awaited by an asyncio task,    *)
(* with its AsyncioWaker (waker.rs) and CancelHandle (cancel.rs).          *)
(*                                                                         *)
(* The task, the loop and the Rust future are not part of the crate.  The  *)
(* future waits for events that other threads post: it is pending only     *)
(* when it has checked that there is none, with its waker left at the      *)
(* source.  A poll is several steps of the loop's thread, since the future *)
(* and asyncio may release the GIL, and a wake-up several steps of the     *)
(* thread that posted the event.                                           *)
(*                                                                         *)
(* Polls are numbered.  The asyncio future made for poll p is called p, at *)
(* most one per poll.  A clone of the waker is [waker, poll]: the          *)
(* AsyncioWaker it points to, and the poll that made the clone (the poll   *)
(* only serves to state properties).                                       *)
(***************************************************************************)
EXTENDS Integers, Functions

CONSTANTS
  Threads,    \* threads that post events
  MaxPolls,   \* numbers for polls and wakers; never reached
  MaxEvents,  \* events posted (model bound)
  MaxCancels, \* calls of Task.cancel (model bound)
  MaxYields,  \* wake-ups by the future itself (model bound)
  MaxAwaits   \* times that the coroutine is awaited again (model bound)

ASSUME CoroutineAssumption ==
  /\ {MaxPolls, MaxEvents, MaxCancels, MaxYields, MaxAwaits} \subseteq Nat
  /\ MaxPolls > 1 + MaxEvents + MaxCancels + MaxYields + MaxAwaits

Polls == 1..MaxPolls
Unset == -1     \* an AsyncioWaker whose cell is empty
NoFuture == 0   \* ... or holds None: woken before there was a future
NoClone == [waker |-> 0, poll |-> 0]
Clones == {NoClone} \cup [waker : Polls, poll : Polls]

VARIABLES
  \* the task and its loop (external)
  task,         \* "ready" to step, "running", "waiting" for a future, or "done"
  must_cancel,  \* the next step throws CancelledError
  open,         \* the loop is not closed
  futures,      \* the asyncio futures
  release,      \* calls of release_waiter in the loop's queue, for each future
  \* the source and its threads (external)
  available,    \* events posted and not yet taken by the Rust future
  source,       \* the clone left at the source
  hand,         \* the clone with which each thread wakes the Rust future
  setting,      \* the asyncio future a thread is about to set, or 0
  left,         \* what remains of the bounds
  \* Coroutine
  throw_callback, \* "none", or what the future does with its CancelHandle
  future,       \* self.future is Some
  waker,        \* the AsyncioWaker of self.waker, or 0
  cell,         \* what each AsyncioWaker's cell holds
  \* the CancelHandle's Inner
  exception,
  cancel_waker,
  \* the poll under way
  pc,
  poll

loopVars == <<task, must_cancel, open>>
sourceVars == <<available, source, hand, setting>>
coVars == <<throw_callback, future, waker>>
cancelVars == <<exception, cancel_waker>>
vars == <<loopVars, futures, release, sourceVars, left, coVars, cell, cancelVars, pc, poll>>

Init ==
  /\ task = "ready" /\ must_cancel = FALSE /\ open = TRUE
  /\ futures = [p \in Polls |-> "none"]
  /\ release = [p \in Polls |-> 0]
  /\ available = 0 /\ source = NoClone
  /\ hand = [t \in Threads |-> NoClone]
  /\ setting = [t \in Threads |-> 0]
  /\ left = [event |-> MaxEvents, cancel |-> MaxCancels, yield |-> MaxYields, await |-> MaxAwaits]
  /\ throw_callback \in {"none", "unused", "awaited"}
  /\ future = TRUE /\ waker = 0
  /\ cell = [w \in Polls |-> Unset]
  /\ exception = FALSE /\ cancel_waker = NoClone
  /\ pc = "idle" /\ poll = 0

Spend(what) == left[what] > 0 /\ left' = [left EXCEPT ![what] = @ - 1]

-----------------------------------------------------------------------------
(* wake_by_ref                                                             *)

\* Wrong: an empty cell is left empty.
PeekCell(w) == UNCHANGED cell

\* get_or_init(None)
WakeCell(w) == cell' = [cell EXCEPT ![w] = IF @ = Unset THEN NoFuture ELSE @]

\* set_result: the loop is asked to call release_waiter, unless it is closed.
CallSoon(p) == release' = IF open THEN [release EXCEPT ![p] = @ + 1] ELSE release

Wake(c) ==
  /\ WakeCell(c.waker)
  /\ IF cell[c.waker] \in Polls THEN CallSoon(cell[c.waker]) ELSE UNCHANGED release

-----------------------------------------------------------------------------
(* Coroutine::poll, called by the task's step                              *)

Step == task = "ready" /\ open /\ pc = "idle"

\* Wrong: a coroutine that is over is polled again.
NotCompletedUnchecked == TRUE

NotCompleted == future

StartPoll == Step /\ NotCompleted

Return(status) == pc' = "idle" /\ task' = status

\* "cannot reuse already awaited coroutine"
Reused ==
  /\ Step /\ ~NotCompleted
  /\ must_cancel' = FALSE
  /\ Return("done")
  /\ UNCHANGED <<open, futures, release, sourceVars, left, coVars, cell, cancelVars, poll>>

\* send, __next__
Send ==
  /\ StartPoll /\ ~must_cancel
  /\ task' = "running" /\ pc' = "waker"
  /\ UNCHANGED <<must_cancel, open, futures, release, sourceVars, left, coVars, cell, cancelVars, poll>>

\* throw, with a CancelHandle: ThrowCallback::throw wakes whoever waits for it.
Throw ==
  /\ StartPoll /\ must_cancel /\ throw_callback # "none"
  /\ must_cancel' = FALSE
  /\ task' = "running" /\ pc' = "waker"
  /\ exception' = TRUE
  /\ cancel_waker' = NoClone
  /\ IF cancel_waker = NoClone THEN UNCHANGED <<cell, release>> ELSE Wake(cancel_waker)
  /\ UNCHANGED <<open, futures, sourceVars, left, coVars, poll>>

\* throw, without: the future is dropped.
ThrowCloses ==
  /\ StartPoll /\ must_cancel /\ throw_callback = "none"
  /\ must_cancel' = FALSE
  /\ future' = FALSE
  /\ Return("done")
  /\ UNCHANGED <<open, futures, release, sourceVars, left, throw_callback, waker, cell, cancelVars, poll>>

\* The clones that are alive between polls.
Shared == {c.waker : c \in {source, cancel_waker} \cup Range(hand)}

\* Wrong: the waker is reset whoever else has it.
ResetInPlace == IF waker # 0 THEN waker ELSE poll + 1

\* Arc::get_mut gives the waker to reset if no clone is left; otherwise a new
\* one is made (its number, as the poll's, is one not used before).
NextWaker == IF waker # 0 /\ waker \notin Shared THEN waker ELSE poll + 1

NewWaker ==
  /\ pc = "waker" /\ poll < MaxPolls
  /\ poll' = poll + 1
  /\ waker' = NextWaker
  /\ cell' = [cell EXCEPT ![waker'] = Unset]
  /\ pc' = "poll"
  /\ UNCHANGED <<loopVars, futures, release, sourceVars, left, throw_callback, future, cancelVars>>

MyClone == [waker |-> waker, poll |-> poll]

\* poll_cancelled, Ready
PollCancelled ==
  /\ pc = "poll" /\ throw_callback = "awaited" /\ exception
  /\ exception' = FALSE
  /\ UNCHANGED <<loopVars, futures, release, sourceVars, left, coVars, cell, cancel_waker, pc, poll>>

\* The future takes an event and goes on.
PollEvent ==
  /\ pc = "poll" /\ available > 0
  /\ available' = available - 1
  /\ UNCHANGED <<loopVars, futures, release, source, hand, setting, left, coVars, cell, cancelVars, pc, poll>>

\* The future wakes its own waker, as a yield does.
PollWakes ==
  /\ pc = "poll"
  /\ Spend("yield")
  /\ Wake(MyClone)
  /\ UNCHANGED <<loopVars, futures, sourceVars, coVars, cancelVars, pc, poll>>

\* poll_cancelled, Pending
AwaitCancel ==
  cancel_waker' = IF throw_callback = "awaited" THEN MyClone ELSE cancel_waker

PollPending ==
  /\ pc = "poll" /\ ~(throw_callback = "awaited" /\ exception)
  /\ \/ available = 0 /\ source' = MyClone
     \/ cell[waker] = NoFuture /\ UNCHANGED source
  /\ AwaitCancel
  /\ pc' = "pending"
  /\ UNCHANGED <<loopVars, futures, release, available, hand, setting, left, coVars, cell, exception, poll>>

\* The future is done, or it panics: it is dropped.
PollReady ==
  /\ pc = "poll"
  /\ future' = FALSE
  /\ Return("done")
  /\ UNCHANGED <<must_cancel, open, futures, release, sourceVars, left, throw_callback, waker, cell, cancelVars, poll>>

\* initialize_future: the cell is empty, and LoopAndFuture::new calls Python.
InitializeFuture ==
  /\ pc = "pending" /\ cell[waker] = Unset
  /\ pc' = "create"
  /\ UNCHANGED <<loopVars, futures, release, sourceVars, left, coVars, cell, cancelVars, poll>>

CreateFuture ==
  /\ pc = "create"
  /\ futures' = [futures EXCEPT ![poll] = "pending"]
  /\ pc' = "set"
  /\ UNCHANGED <<loopVars, release, sourceVars, left, coVars, cell, cancelVars, poll>>

\* There is no running loop, or an error: the coroutine is left as it is.
CreateFails ==
  /\ pc = "create"
  /\ Return("done")
  /\ UNCHANGED <<must_cancel, open, futures, release, sourceVars, left, coVars, cell, cancelVars, poll>>

\* Wrong: the future replaces the None of a wake-up.
OverwriteCell == cell' = [cell EXCEPT ![waker] = poll]

\* get_or_try_init does not overwrite what was set in the meantime.
SetCell == cell' = [cell EXCEPT ![waker] = IF @ = Unset THEN poll ELSE @]

SetFuture ==
  /\ pc = "set"
  /\ SetCell
  /\ pc' = "yield"
  /\ UNCHANGED <<loopVars, futures, release, sourceVars, left, coVars, cancelVars, poll>>

\* The future is yielded; the task waits for it, or cancels it at once.
YieldFuture ==
  /\ pc \in {"pending", "yield"} /\ cell[waker] \in Polls
  /\ futures[cell[waker]] = "pending"
  /\ IF must_cancel
     THEN Return("ready") /\ futures' = [futures EXCEPT ![cell[waker]] = "cancelled"]
     ELSE Return("waiting") /\ UNCHANGED futures
  /\ UNCHANGED <<must_cancel, open, release, sourceVars, left, coVars, cell, cancelVars, poll>>

\* The waker was woken already, or the future is done: None is yielded.
YieldNone ==
  /\ pc \in {"pending", "yield"} /\ cell[waker] # Unset
  /\ cell[waker] \in Polls => futures[cell[waker]] # "pending"
  /\ Return("ready")
  /\ UNCHANGED <<must_cancel, open, futures, release, sourceVars, left, coVars, cell, cancelVars, poll>>

-----------------------------------------------------------------------------
(* The loop                                                                *)

\* The future the task waits for.
Waiter == cell[waker]

\* Wrong: the result is set even if the future is done.
SetResultAlways(p) == TRUE

NotDone(p) == futures[p] = "pending"

release_waiter(p) ==
  /\ open /\ pc = "idle" /\ release[p] > 0
  /\ release' = [release EXCEPT ![p] = @ - 1]
  /\ IF NotDone(p)
     THEN /\ futures' = [futures EXCEPT ![p] = "done"]
          /\ task' = IF task = "waiting" /\ Waiter = p THEN "ready" ELSE task
     ELSE UNCHANGED <<futures, task>>
  /\ UNCHANGED <<must_cancel, open, sourceVars, left, coVars, cell, cancelVars, pc, poll>>

\* Task.cancel: from another callback of the loop, or from within the poll.
Cancel ==
  /\ open /\ pc \in {"idle", "poll"} /\ task # "done"
  /\ Spend("cancel")
  /\ must_cancel' = TRUE
  /\ IF task = "waiting"
     THEN task' = "ready" /\ futures' = [futures EXCEPT ![Waiter] = "cancelled"]
     ELSE UNCHANGED <<task, futures>>
  /\ UNCHANGED <<open, release, sourceVars, coVars, cell, cancelVars, pc, poll>>

\* The coroutine is awaited again once its task is done.
Await ==
  /\ open /\ task = "done"
  /\ Spend("await")
  /\ task' = "ready" /\ must_cancel' = FALSE
  /\ UNCHANGED <<open, futures, release, sourceVars, coVars, cell, cancelVars, pc, poll>>

CloseLoop ==
  /\ open /\ pc = "idle"
  /\ open' = FALSE
  /\ release' = [p \in Polls |-> 0]
  /\ UNCHANGED <<task, must_cancel, futures, sourceVars, left, coVars, cell, cancelVars, pc, poll>>

-----------------------------------------------------------------------------
(* The threads                                                             *)

\* An event is posted, and the waker taken from the source to be woken.
Post(t) ==
  /\ hand[t] = NoClone
  /\ Spend("event")
  /\ available' = available + 1
  /\ hand' = [hand EXCEPT ![t] = source]
  /\ source' = NoClone
  /\ UNCHANGED <<loopVars, futures, release, setting, coVars, cell, cancelVars, pc, poll>>

\* The thread has the GIL: it finds the future to set, or none.
WakeByRef(t) ==
  /\ hand[t] # NoClone /\ setting[t] = 0
  /\ WakeCell(hand[t].waker)
  /\ IF cell[hand[t].waker] \in Polls
     THEN setting' = [setting EXCEPT ![t] = cell[hand[t].waker]] /\ UNCHANGED hand
     ELSE hand' = [hand EXCEPT ![t] = NoClone] /\ UNCHANGED setting
  /\ UNCHANGED <<loopVars, futures, release, available, source, left, coVars, cancelVars, pc, poll>>

SetResult(t) ==
  /\ setting[t] # 0
  /\ CallSoon(setting[t])
  /\ setting' = [setting EXCEPT ![t] = 0]
  /\ hand' = [hand EXCEPT ![t] = NoClone]
  /\ UNCHANGED <<loopVars, futures, available, source, left, coVars, cell, cancelVars, pc, poll>>

-----------------------------------------------------------------------------

Poll ==
  \/ Reused \/ Send \/ Throw \/ ThrowCloses \/ NewWaker
  \/ PollCancelled \/ PollEvent \/ PollPending \/ PollReady
  \/ InitializeFuture \/ CreateFuture \/ CreateFails \/ SetFuture
  \/ YieldFuture \/ YieldNone

Next ==
  \/ Poll
  \/ PollWakes
  \/ \E p \in Polls : release_waiter(p)
  \/ Cancel
  \/ Await
  \/ CloseLoop
  \/ \E t \in Threads : Post(t) \/ WakeByRef(t) \/ SetResult(t)

\* The loop runs what is ready; a poll goes on; a thread that wakes the future
\* gets the GIL in the end.
Fairness ==
  /\ WF_vars(Poll)
  /\ \A p \in Polls : WF_vars(release_waiter(p))
  /\ \A t \in Threads : WF_vars(WakeByRef(t)) /\ WF_vars(SetResult(t))

Spec == Init /\ [][Next]_vars /\ Fairness

-----------------------------------------------------------------------------

\* The variables have their types, and the task, the program counter
\* and the Rust future agree: one that is over is neither polled nor waited for.
TypeOK ==
  /\ task \in {"ready", "running", "waiting", "done"}
  /\ {must_cancel, open, future, exception} \subseteq BOOLEAN
  /\ futures \in [Polls -> {"none", "pending", "done", "cancelled"}]
  /\ release \in [Polls -> Nat]
  /\ available \in 0..MaxEvents
  /\ source \in Clones /\ cancel_waker \in Clones
  /\ hand \in [Threads -> Clones]
  /\ setting \in [Threads -> {0} \cup Polls]
  /\ throw_callback \in {"none", "unused", "awaited"}
  /\ poll \in 0..MaxPolls - 1 /\ waker \in 0..poll
  /\ cell \in [Polls -> {Unset, NoFuture} \cup 1..poll]
  /\ pc \in {"idle", "waker", "poll", "pending", "create", "set", "yield"}
  /\ pc = "idle" <=> task # "running"
  /\ pc # "idle" \/ task = "waiting" => future
  /\ task = "waiting" => Waiter \in Polls /\ futures[Waiter] = "pending"

\* A wake-up is never lost: while the task waits though there is an event, the
\* release of the very future it waits for is queued, or a thread is about to
\* queue it.  (wake_by_ref against initialize_future)
NoLostWakeUp ==
  task = "waiting" /\ open /\ available > 0 =>
    \/ release[Waiter] > 0
    \/ \E t \in Threads : hand[t] # NoClone /\ cell[hand[t].waker] = Waiter

\* A clone of the waker never gets to a future made for another poll than the
\* one that handed the clone out.  (Arc::get_mut before reset)
WakesOwnPoll ==
  /\ \A c \in ({source, cancel_waker} \cup Range(hand)) \ {NoClone} :
       cell[c.waker] \in {Unset, NoFuture, c.poll}
  /\ \A t \in Threads : setting[t] \in {0, hand[t].poll}

\* A future that was cancelled or has its result is not touched by the release
\* that comes late.  (release_waiter)
DoneIsFinal ==
  [][\A p \in Polls : futures[p] \in {"done", "cancelled"} => futures'[p] = futures[p]]_futures

\* An event is polled in the end, unless the task ends or the loop closes.
EventIsPolled ==
  available > 0 ~> (available = 0 \/ task = "done" \/ ~open)

=============================================================================
