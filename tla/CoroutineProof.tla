--------------------------- MODULE CoroutineProof ---------------------------
(***************************************************************************)
(* No wake-up of a coroutine is lost and none goes to a future made for    *)
(* another poll, for any threads, events, cancellations and yields.        *)
(*                                                                         *)
(* The argument has two parts.  Between polls a waker that somebody has a  *)
(* clone of is never reset, so that a clone of the current waker was made  *)
(* by the current poll, and what it finds in its cell is nothing, None or  *)
(* the future of that poll.  And from where the Rust future is pending,    *)
(* until the task goes on, the wake-up is on its way: at the source, in a  *)
(* thread's hand, as a None in the cell, or as a release in the queue.     *)
(*                                                                         *)
(* Nor is a poll made for nothing: each wake-up of the current waker makes *)
(* the same poll due (Due), whatever its way, and every step that makes    *)
(* one due is an event, a yield, a cancellation or a new await (Counted).  *)
(* That a wake-up of an earlier waker adds nothing rests on the numbers    *)
(* that cells and queue hold (Numbering).                                  *)
(***************************************************************************)
EXTENDS Coroutine, TLAPS

Held(c) == c # NoClone /\ (c = source \/ c = cancel_waker \/ \E t \in Threads : c = hand[t])

What == {"event", "cancel", "yield", "await"}

\* Type correctness, and how the task, the program counter and the Rust future
\* go together.
CoTypes ==
  /\ task \in {"ready", "running", "waiting", "done"}
  /\ must_cancel \in BOOLEAN /\ open \in BOOLEAN /\ future \in BOOLEAN /\ exception \in BOOLEAN
  /\ futures \in [Polls -> {"none", "pending", "done", "cancelled"}]
  /\ release \in [Polls -> Nat]
  /\ source \in Clones /\ cancel_waker \in Clones
  /\ hand \in [Threads -> Clones]
  /\ setting \in [Threads -> {NoFuture} \cup Polls]
  /\ throw_callback \in {"none", "unused", "awaited"}
  /\ poll \in 0..MaxPolls /\ waker \in 0..poll
  /\ cell \in [Polls -> {Unset, NoFuture} \cup 1..poll]
  /\ pc \in {"idle", "waker", "poll", "pending", "create", "set", "yield"}

Budget ==
  /\ left \in [What -> Nat]
  /\ available \in Nat
  /\ available + left["event"] <= MaxEvents

Control ==
  /\ pc = "idle" <=> task # "running"
  /\ pc # "idle" \/ task = "waiting" => future
  /\ task = "waiting" => Waiter \in Polls /\ futures[Waiter] = "pending"
  /\ pc \notin {"idle", "waker"} \/ task = "waiting" => waker # 0

\* No future is made twice: its poll has none before CreateFuture, and until
\* then its cell is empty or holds None.
Fresh ==
  /\ \A p \in Polls : p > poll => futures[p] = "none"
  /\ pc \in {"poll", "pending", "create"} => futures[poll] = "none"
  /\ pc \in {"poll", "pending", "create", "set"} => cell[waker] \in {Unset, NoFuture}

\* A clone of the current waker is of the current poll, and every clone leads to
\* the future of its own poll, or to none.
ClonesFit ==
  \A c \in Clones :
    Held(c) =>
      /\ c.waker \in 1..poll /\ c.poll \in 1..poll
      /\ cell[c.waker] \in {Unset, NoFuture, c.poll}
      /\ c.waker = waker => c.poll = poll

SettingFits ==
  \A t \in Threads :
    setting[t] # NoFuture =>
      hand[t] # NoClone /\ setting[t] = hand[t].poll /\ cell[hand[t].waker] = setting[t]

\* The wake-up of the poll that is pending.
Suspended == pc \in {"pending", "create", "set", "yield"} \/ task = "waiting"
OnItsWay ==
  \/ available = 0 /\ source = MyClone
  \/ \E t \in Threads : hand[t] = MyClone
  \/ cell[waker] = NoFuture
  \/ /\ cell[waker] \in Polls
     /\ release[cell[waker]] > 0 \/ futures[cell[waker]] # "pending" \/ ~open

WakeUp == Suspended => OnItsWay

CoInv == CoTypes /\ Budget /\ Control /\ Fresh /\ ClonesFit /\ SettingFits /\ WakeUp

-----------------------------------------------------------------------------
\* All that a wake-up does to the cells.
CellsOnlyWoken ==
  \A w \in Polls : cell'[w] = cell[w] \/ (cell[w] = Unset /\ cell'[w] = NoFuture)

\* And to the queue.
ReleaseOnlyGrows == \A p \in Polls : release'[p] >= release[p]

LEMMA Numbers == Unset = -1 /\ NoFuture = 0 /\ MaxPolls \in Nat /\ MaxPolls > 0
                 /\ Polls = 1..MaxPolls /\ Unset \notin Polls /\ NoFuture \notin Polls
  BY CoroutineAssumption DEF CoroutineAssumption, Unset, NoFuture, Polls

LEMMA WakeCellIs ==
  ASSUME CoTypes, NEW w, w \in 1..poll, WakeCell(w)
  PROVE  /\ cell' \in [Polls -> {Unset, NoFuture} \cup 1..poll]
         /\ CellsOnlyWoken
         /\ cell[w] \notin Polls => cell'[w] = NoFuture
  <1>1. w \in Polls /\ cell \in [Polls -> {Unset, NoFuture} \cup 1..poll]
        /\ \A v \in 1..poll : v \in Polls
    BY Numbers DEF CoTypes
  <1>2. cell' = [cell EXCEPT ![w] = IF @ = Unset THEN NoFuture ELSE @]
    BY DEF WakeCell
  <1>3. cell' \in [Polls -> {Unset, NoFuture} \cup 1..poll]
    BY <1>1, <1>2
  <1>4. CellsOnlyWoken
    <2>1. \A v \in Polls : cell'[v] = IF v = w /\ cell[v] = Unset THEN NoFuture ELSE cell[v]
      BY <1>1, <1>2
    <2>2. QED
      BY <2>1 DEF CellsOnlyWoken, NoFuture, Unset
  <1>5. cell[w] \notin Polls => cell'[w] = NoFuture
    BY <1>1, <1>2
  <1>6. QED
    BY <1>3, <1>4, <1>5

LEMMA CallSoonIs ==
  ASSUME CoTypes, NEW p \in Polls, CallSoon(p)
  PROVE  /\ release' \in [Polls -> Nat]
         /\ ReleaseOnlyGrows
         /\ open => release'[p] > 0
  BY DEF CoTypes, CallSoon, ReleaseOnlyGrows

LEMMA WakeIs ==
  ASSUME CoTypes, NEW c \in Clones, c.waker \in 1..poll, Wake(c)
  PROVE  /\ cell' \in [Polls -> {Unset, NoFuture} \cup 1..poll]
         /\ CellsOnlyWoken
         /\ release' \in [Polls -> Nat]
         /\ ReleaseOnlyGrows
  <1>1. cell' \in [Polls -> {Unset, NoFuture} \cup 1..poll] /\ CellsOnlyWoken
    BY WakeCellIs DEF Wake
  <1>2. CASE cell[c.waker] \in Polls
    BY <1>1, <1>2, CallSoonIs DEF Wake
  <1>3. CASE cell[c.waker] \notin Polls
    BY <1>1, <1>3 DEF Wake, ReleaseOnlyGrows, CoTypes
  <1>4. QED
    BY <1>2, <1>3

LEMMA MyCloneIs ==
  ASSUME CoTypes, Control, pc \notin {"idle", "waker"}
  PROVE  /\ waker \in 1..poll /\ poll \in 1..poll /\ waker \in Polls /\ poll \in Polls
         /\ MyClone \in Clones /\ MyClone.waker = waker /\ MyClone.poll = poll
         /\ MyClone # NoClone
  <1>1. waker \in 1..poll /\ poll \in 1..poll /\ waker \in Polls /\ poll \in Polls
    BY Numbers DEF CoTypes, Control
  <1>2. QED
    BY <1>1 DEF MyClone, Clones, NoClone

LEMMA InitCo == Init => CoInv
  <1>. SUFFICES ASSUME Init PROVE CoInv
    OBVIOUS
  <1>1. NoClone \in Clones
    BY DEF Clones
  <1>2. CoTypes
    <2>1. poll \in 0..MaxPolls /\ waker \in 0..poll
      BY Numbers DEF Init
    <2>2. /\ cell \in [Polls -> {Unset, NoFuture} \cup 1..poll]
          /\ futures \in [Polls -> {"none", "pending", "done", "cancelled"}]
          /\ release \in [Polls -> Nat]
          /\ hand \in [Threads -> Clones]
          /\ setting \in [Threads -> {NoFuture} \cup Polls]
      BY <1>1 DEF Init, NoFuture
    <2>3. QED
      BY <1>1, <2>1, <2>2 DEF Init, CoTypes
  <1>3. Budget
    <2>1. left \in [What -> Nat] /\ left["event"] = MaxEvents
      BY CoroutineAssumption DEF Init, What, CoroutineAssumption
    <2>2. QED
      BY <2>1, CoroutineAssumption DEF Init, Budget, CoroutineAssumption
  <1>4. Control /\ Fresh /\ WakeUp
    BY Numbers DEF Init, Control, Fresh, WakeUp, Suspended
  <1>5. ClonesFit /\ SettingFits
    BY DEF Init, ClonesFit, Held, SettingFits, NoFuture
  <1>6. QED
    BY <1>2, <1>3, <1>4, <1>5 DEF CoInv

\* The next waker is one that nobody has a clone of.
LEMMA NextWakerIsFree ==
  ASSUME CoInv, NewWaker
  PROVE  /\ poll + 1 \in Polls /\ poll' = poll + 1
         /\ waker' \in 1..poll' /\ waker' \in Polls
         /\ cell' = [cell EXCEPT ![waker'] = Unset]
         /\ \A c \in Clones : Held(c) => c.waker # waker'
  <1>1. poll + 1 \in Polls /\ poll' = poll + 1 /\ cell' = [cell EXCEPT ![waker'] = Unset]
    BY Numbers DEF NewWaker, CoInv, CoTypes
  <1>2. CASE waker # 0 /\ waker \notin Shared
    <2>1. waker' = waker
      BY <1>2 DEF NewWaker, NextWaker
    <2>2. \A c \in Clones : Held(c) => c.waker \in Shared
      BY DEF Held, Shared, Range, CoInv, CoTypes
    <2>3. waker' \in 1..poll' /\ waker' \in Polls
      BY <1>1, <1>2, <2>1, Numbers DEF CoInv, CoTypes
    <2>4. QED
      BY <1>1, <1>2, <2>1, <2>2, <2>3
  <1>3. CASE ~(waker # 0 /\ waker \notin Shared)
    <2>1. waker' = poll + 1
      BY <1>3 DEF NewWaker, NextWaker
    <2>2. \A c \in Clones : Held(c) => c.waker \in 1..poll
      BY DEF CoInv, ClonesFit
    <2>3. poll + 1 \notin 1..poll /\ poll + 1 \in 1..poll'
      BY <1>1 DEF CoInv, CoTypes
    <2>4. QED
      BY <1>1, <2>1, <2>2, <2>3
  <1>4. QED
    BY <1>2, <1>3

-----------------------------------------------------------------------------
(* Types                                                                   *)

LEMMA TypesKept == CoInv /\ Next => CoTypes'
  <1>. SUFFICES ASSUME CoInv, Next PROVE CoTypes'
    OBVIOUS
  <1>1. NoClone \in Clones /\ CoTypes /\ Control
    BY DEF Clones, CoInv
  <1>2. CASE \/ Reused \/ Send \/ ThrowCloses \/ PollCancelled \/ PollEvent
             \/ PollReady \/ InitializeFuture \/ CreateFails \/ YieldNone \/ Await
    <2>1. CASE Reused \/ ThrowCloses \/ PollReady \/ CreateFails \/ YieldNone
      BY <1>1, <2>1
         DEF Reused, ThrowCloses, PollReady, CreateFails, YieldNone, Return, loopVars, sourceVars,
             coVars, cancelVars, CoTypes
    <2>2. CASE Send \/ InitializeFuture \/ Await
      BY <1>1, <2>2
         DEF Send, InitializeFuture, Await, loopVars, sourceVars, coVars, cancelVars, CoTypes
    <2>3. CASE PollCancelled \/ PollEvent
      BY <1>1, <2>3 DEF PollCancelled, PollEvent, loopVars, sourceVars, coVars, cancelVars, CoTypes
    <2>4. QED
      BY <1>2, <2>1, <2>2, <2>3
  <1>3. CASE Throw
    <2>1. CASE cancel_waker = NoClone
      BY <1>1, <1>3, <2>1 DEF Throw, sourceVars, coVars, CoTypes
    <2>2. CASE cancel_waker # NoClone
      <3>1. cancel_waker \in Clones /\ cancel_waker.waker \in 1..poll
        BY <1>1, <2>2 DEF CoInv, ClonesFit, Held, CoTypes
      <3>2. Wake(cancel_waker)
        BY <1>3, <2>2 DEF Throw
      <3>3. /\ cell' \in [Polls -> {Unset, NoFuture} \cup 1..poll]
            /\ release' \in [Polls -> Nat]
        BY <1>1, <3>1, <3>2, WakeIs
      <3>4. QED
        BY <1>1, <1>3, <3>3 DEF Throw, sourceVars, coVars, CoTypes
    <2>3. QED
      BY <2>1, <2>2
  <1>4. CASE NewWaker
    <2>0. /\ poll + 1 \in Polls /\ poll' = poll + 1
          /\ waker' \in 1..poll' /\ cell' = [cell EXCEPT ![waker'] = Unset]
      BY <1>4, NextWakerIsFree
    <2>1. /\ poll' \in 0..MaxPolls /\ waker' \in 0..poll'
          /\ cell' \in [Polls -> {Unset, NoFuture} \cup 1..poll']
      <3>1. poll' \in 0..MaxPolls /\ waker' \in 0..poll' /\ \A v \in 1..poll : v \in 1..poll'
        BY <1>1, <2>0, Numbers DEF CoTypes
      <3>2. QED
        BY <1>1, <2>0, <3>1 DEF CoTypes
    <2>2. QED
      BY <1>1, <1>4, <2>1 DEF NewWaker, loopVars, sourceVars, cancelVars, CoTypes
  <1>5. CASE PollWakes
    <2>1. pc = "poll" /\ Wake(MyClone)
      BY <1>5 DEF PollWakes
    <2>2. MyClone \in Clones /\ MyClone.waker \in 1..poll
      BY <1>1, <2>1, MyCloneIs
    <2>3. /\ cell' \in [Polls -> {Unset, NoFuture} \cup 1..poll]
          /\ release' \in [Polls -> Nat]
      BY <1>1, <2>1, <2>2, WakeIs
    <2>4. QED
      BY <1>1, <1>5, <2>3 DEF PollWakes, loopVars, sourceVars, coVars, cancelVars, CoTypes
  <1>6. CASE PollPending
    <2>1. MyClone \in Clones
      BY <1>1, <1>6, MyCloneIs DEF PollPending
    <2>2. QED
      BY <1>1, <1>6, <2>1 DEF PollPending, AwaitCancel, loopVars, coVars, CoTypes
  <1>7. CASE CreateFuture
    BY <1>1, <1>7 DEF CreateFuture, loopVars, sourceVars, coVars, cancelVars, CoTypes
  <1>8. CASE SetFuture
    <2>1. poll \in 1..poll /\ waker \in Polls
      BY <1>1, <1>8, MyCloneIs DEF SetFuture
    <2>2. cell' \in [Polls -> {Unset, NoFuture} \cup 1..poll]
      BY <1>1, <1>8, <2>1 DEF SetFuture, SetCell, CoTypes
    <2>3. QED
      BY <1>1, <1>8, <2>2 DEF SetFuture, loopVars, sourceVars, coVars, cancelVars, CoTypes
  <1>9. CASE YieldFuture
    BY <1>1, <1>9 DEF YieldFuture, Return, sourceVars, coVars, cancelVars, CoTypes
  <1>10. ASSUME NEW p \in Polls, release_waiter(p) PROVE CoTypes'
    <2>1. release' \in [Polls -> Nat]
      BY <1>1, <1>10 DEF release_waiter, CoTypes
    <2>2. /\ task' \in {"ready", "running", "waiting", "done"}
          /\ futures' \in [Polls -> {"none", "pending", "done", "cancelled"}]
      BY <1>1, <1>10 DEF release_waiter, CoTypes
    <2>3. QED
      BY <1>1, <1>10, <2>1, <2>2 DEF release_waiter, sourceVars, coVars, cancelVars, CoTypes
  <1>11. CASE Cancel
    BY <1>1, <1>11 DEF Cancel, sourceVars, coVars, cancelVars, CoTypes
  <1>12. CASE CloseLoop
    BY <1>1, <1>12 DEF CloseLoop, sourceVars, coVars, cancelVars, CoTypes
  <1>13. ASSUME NEW t \in Threads, Post(t) PROVE CoTypes'
    BY <1>1, <1>13 DEF Post, loopVars, coVars, cancelVars, CoTypes
  <1>14. ASSUME NEW t \in Threads, WakeByRef(t) PROVE CoTypes'
    <2>1. hand[t] \in Clones /\ hand[t].waker \in 1..poll /\ WakeCell(hand[t].waker)
      BY <1>1, <1>14 DEF WakeByRef, CoInv, ClonesFit, Held, CoTypes
    <2>2. cell' \in [Polls -> {Unset, NoFuture} \cup 1..poll]
      BY <1>1, <2>1, WakeCellIs
    <2>3. hand' \in [Threads -> Clones] /\ setting' \in [Threads -> {NoFuture} \cup Polls]
      BY <1>1, <1>14 DEF WakeByRef, CoTypes
    <2>4. QED
      BY <1>1, <1>14, <2>2, <2>3 DEF WakeByRef, loopVars, coVars, cancelVars, CoTypes
  <1>15. ASSUME NEW t \in Threads, SetResult(t) PROVE CoTypes'
    <2>1. setting[t] \in Polls
      BY <1>1, <1>15 DEF SetResult, CoTypes, NoFuture
    <2>2. release' \in [Polls -> Nat]
      BY <1>1, <1>15, <2>1, CallSoonIs DEF SetResult
    <2>3. hand' \in [Threads -> Clones] /\ setting' \in [Threads -> {NoFuture} \cup Polls]
      BY <1>1, <1>15 DEF SetResult, CoTypes, NoFuture
    <2>4. QED
      BY <1>1, <1>15, <2>2, <2>3 DEF SetResult, loopVars, coVars, cancelVars, CoTypes
  <1>16. QED
    BY <1>2, <1>3, <1>4, <1>5, <1>6, <1>7, <1>8, <1>9, <1>10, <1>11, <1>12, <1>13, <1>14, <1>15
       DEF Next, Poll

LEMMA BudgetKept == CoInv /\ Next => Budget'
  <1>. SUFFICES ASSUME CoInv, Next PROVE Budget'
    OBVIOUS
  <1>1. Budget
    BY DEF CoInv
  <1>2. ASSUME NEW what \in What \ {"event"}, Spend(what), UNCHANGED available PROVE Budget'
    BY <1>1, <1>2 DEF Spend, Budget, What
  <1>3. CASE UNCHANGED <<left, available>>
    BY <1>1, <1>3 DEF Budget
  <1>4. CASE PollEvent
    <2>1. left["event"] \in Nat /\ available' = available - 1 /\ available > 0 /\ left' = left
      BY <1>1, <1>4 DEF PollEvent, Budget, What
    <2>2. MaxEvents \in Nat
      BY CoroutineAssumption DEF CoroutineAssumption
    <2>3. QED
      BY <1>1, <2>1, <2>2 DEF Budget
  <1>5. ASSUME NEW t \in Threads, Post(t) PROVE Budget'
    BY <1>1, <1>5 DEF Post, Spend, Budget, What
  <1>6. QED
    BY <1>2, <1>3, <1>4, <1>5
       DEF Next, Poll, Reused, Send, Throw, ThrowCloses, NewWaker, PollCancelled, PollPending,
           PollReady, InitializeFuture, CreateFuture, CreateFails, SetFuture, YieldFuture, YieldNone,
           PollWakes, release_waiter, Cancel, Await, CloseLoop, WakeByRef, SetResult, sourceVars, What

-----------------------------------------------------------------------------
(* The task and the poll                                                   *)

\* What a wake-up leaves alone.
LEMMA WokenCells ==
  ASSUME CoTypes, CellsOnlyWoken, NEW w \in Polls
  PROVE  /\ cell[w] \in Polls => cell'[w] = cell[w]
         /\ cell[w] \in {Unset, NoFuture} => cell'[w] \in {Unset, NoFuture}
         /\ cell[w] = NoFuture => cell'[w] = NoFuture
         /\ cell'[w] \in Polls => cell'[w] = cell[w]
  BY Numbers DEF CellsOnlyWoken

\* The steps that go from one point of the poll to the next, and the steps of
\* others that only wake.
LEMMA WakesOnly ==
  ASSUME CoInv, Throw \/ PollWakes \/ \E t \in Threads : WakeByRef(t)
  PROVE  CellsOnlyWoken /\ UNCHANGED <<futures, waker, poll, open, available, source>>
  <1>1. CoTypes /\ Control
    BY DEF CoInv
  <1>2. CASE Throw
    <2>1. CASE cancel_waker = NoClone
      <3>1. cell' = cell /\ UNCHANGED <<futures, waker, poll, open, available, source>>
        BY <1>2, <2>1 DEF Throw, sourceVars, coVars
      <3>2. QED
        BY <3>1 DEF CellsOnlyWoken
    <2>2. CASE cancel_waker # NoClone
      <3>1. cancel_waker \in Clones /\ cancel_waker.waker \in 1..poll /\ Wake(cancel_waker)
        BY <1>1, <1>2, <2>2 DEF CoInv, ClonesFit, Held, CoTypes, Throw
      <3>2. CellsOnlyWoken
        BY <1>1, <3>1, WakeIs
      <3>3. QED
        BY <1>2, <3>2 DEF Throw, sourceVars, coVars
    <2>3. QED
      BY <2>1, <2>2
  <1>3. CASE PollWakes
    <2>1. pc = "poll" /\ Wake(MyClone)
      BY <1>3 DEF PollWakes
    <2>2. MyClone \in Clones /\ MyClone.waker \in 1..poll
      BY <1>1, <2>1, MyCloneIs
    <2>3. CellsOnlyWoken
      BY <1>1, <2>1, <2>2, WakeIs
    <2>4. QED
      BY <1>3, <2>3 DEF PollWakes, loopVars, sourceVars, coVars
  <1>4. ASSUME NEW t \in Threads, WakeByRef(t)
        PROVE  CellsOnlyWoken /\ UNCHANGED <<futures, waker, poll, open, available, source>>
    <2>1. hand[t] \in Clones /\ hand[t].waker \in 1..poll /\ WakeCell(hand[t].waker)
      BY <1>1, <1>4 DEF WakeByRef, CoInv, ClonesFit, Held, CoTypes
    <2>2. CellsOnlyWoken
      BY <1>1, <2>1, WakeCellIs
    <2>3. QED
      BY <1>4, <2>2 DEF WakeByRef, loopVars, coVars
  <1>5. QED
    BY <1>2, <1>3, <1>4

LEMMA ControlKept == CoInv /\ Next => Control'
  <1>. SUFFICES ASSUME CoInv, Next PROVE Control'
    OBVIOUS
  <1>1. CoTypes /\ Control
    BY DEF CoInv
  <1>2. CASE Reused \/ Send \/ ThrowCloses \/ PollCancelled \/ PollEvent \/ PollPending \/ PollReady
             \/ InitializeFuture \/ CreateFails \/ YieldNone \/ Await \/ CloseLoop
    BY <1>1, <1>2
       DEF Reused, Send, ThrowCloses, PollCancelled, PollEvent, PollPending, PollReady,
           InitializeFuture, CreateFails, YieldNone, Await, CloseLoop, Return, Step, StartPoll,
           NotCompleted, loopVars, coVars, CoTypes, Control, Waiter
  <1>3. CASE Throw
    BY <1>1, <1>3 DEF Throw, StartPoll, Step, NotCompleted, coVars, Control
  <1>4. CASE NewWaker
    <2>1. waker' # 0
      BY <1>1, <1>4, NextWakerIsFree DEF CoTypes
    <2>2. QED
      BY <1>1, <1>4, <2>1 DEF NewWaker, loopVars, Control
  <1>5. CASE PollWakes \/ \E t \in Threads : WakeByRef(t)
    <2>1. UNCHANGED <<task, pc, waker, future, futures>>
      BY <1>5 DEF PollWakes, WakeByRef, loopVars, coVars
    <2>2. CASE task = "waiting"
      <3>1. waker \in Polls
        BY <1>1, <2>2, Numbers DEF CoTypes, Control, Waiter
      <3>2. cell'[waker] = cell[waker]
        BY <1>1, <1>5, <2>2, <3>1, WakesOnly, WokenCells DEF Control, Waiter
      <3>3. QED
        BY <1>1, <2>1, <3>2 DEF Control, Waiter
    <2>3. CASE task # "waiting"
      BY <1>1, <2>1, <2>3 DEF Control
    <2>4. QED
      BY <2>2, <2>3
  <1>6. CASE CreateFuture \/ SetFuture
    BY <1>1, <1>6 DEF CreateFuture, SetFuture, loopVars, coVars, Control
  <1>7. CASE YieldFuture
    BY <1>1, <1>7 DEF YieldFuture, Return, coVars, Control, Waiter
  <1>8. ASSUME NEW p \in Polls, release_waiter(p) PROVE Control'
    BY <1>1, <1>8 DEF release_waiter, NotDone, coVars, Control, Waiter, CoTypes
  <1>9. CASE Cancel
    BY <1>1, <1>9 DEF Cancel, coVars, Control, Waiter
  <1>10. ASSUME NEW t \in Threads, Post(t) \/ SetResult(t) PROVE Control'
    BY <1>1, <1>10 DEF Post, SetResult, loopVars, coVars, Control, Waiter
  <1>11. QED
    BY <1>2, <1>3, <1>4, <1>5, <1>6, <1>7, <1>8, <1>9, <1>10 DEF Next, Poll

LEMMA FreshKept == CoInv /\ Next => Fresh'
  <1>. SUFFICES ASSUME CoInv, Next PROVE Fresh'
    OBVIOUS
  <1>1. CoTypes /\ Control /\ Fresh
    BY DEF CoInv
  <1>2. CASE Reused \/ Send \/ ThrowCloses \/ PollCancelled \/ PollEvent \/ PollPending \/ PollReady
             \/ InitializeFuture \/ CreateFails \/ YieldNone \/ Await \/ CloseLoop
    BY <1>1, <1>2
       DEF Reused, Send, ThrowCloses, PollCancelled, PollEvent, PollPending, PollReady,
           InitializeFuture, CreateFails, YieldNone, Await, CloseLoop, Return, coVars, Fresh
  <1>3. CASE Throw \/ PollWakes \/ \E t \in Threads : WakeByRef(t)
    <2>1. CellsOnlyWoken /\ UNCHANGED <<futures, waker, poll>>
      BY <1>3, WakesOnly
    <2>2. pc' = pc \/ pc' = "waker"
      BY <1>3 DEF Throw, PollWakes, WakeByRef
    <2>3. pc \notin {"idle", "waker"} => waker \in Polls
      BY <1>1, MyCloneIs
    <2>4. QED
      BY <1>1, <2>1, <2>2, <2>3, WokenCells DEF Fresh
  <1>4. CASE NewWaker
    <2>1. /\ poll + 1 \in Polls /\ poll' = poll + 1 /\ waker' \in Polls
          /\ cell' = [cell EXCEPT ![waker'] = Unset] /\ UNCHANGED futures /\ pc' = "poll"
      BY <1>4, NextWakerIsFree DEF NewWaker
    <2>2. cell'[waker'] = Unset
      BY <1>1, <2>1 DEF CoTypes
    <2>3. \A p \in Polls : p > poll' => p > poll
      BY <1>1, <2>1, Numbers DEF CoTypes
    <2>4. futures'[poll'] = "none"
      BY <1>1, <2>1 DEF CoTypes, Fresh
    <2>5. QED
      BY <1>1, <2>1, <2>2, <2>3, <2>4 DEF Fresh
  <1>5. CASE CreateFuture
    <2>1. poll \in Polls
      BY <1>1, <1>5, MyCloneIs DEF CreateFuture
    <2>2. QED
      BY <1>1, <1>5, <2>1 DEF CreateFuture, coVars, CoTypes, Fresh
  <1>6. CASE SetFuture
    BY <1>6, <1>1 DEF SetFuture, Fresh, coVars
  <1>7. CASE YieldFuture
    BY <1>7, <1>1 DEF YieldFuture, Return, Fresh, CoTypes
  <1>8. ASSUME NEW p \in Polls, release_waiter(p) PROVE Fresh'
    <2>1. futures[p] = "pending" \/ UNCHANGED futures
      BY <1>8 DEF release_waiter, NotDone
    <2>2. \A q \in Polls : futures[q] = "none" => futures'[q] = "none"
      BY <1>1, <1>8, <2>1 DEF release_waiter, CoTypes
    <2>3. pc = "idle" /\ UNCHANGED <<pc, poll>>
      BY <1>8 DEF release_waiter
    <2>4. QED
      BY <1>1, <2>2, <2>3 DEF Fresh
  <1>9. CASE Cancel
    <2>1. \A q \in Polls : futures[q] = "none" => futures'[q] = "none"
      BY <1>1, <1>9 DEF Cancel, CoTypes, Control
    <2>2. pc \in {"idle", "poll"} /\ UNCHANGED <<pc, poll, waker, cell>>
      BY <1>9 DEF Cancel, coVars
    <2>3. pc = "poll" => poll \in Polls
      BY <1>1, MyCloneIs
    <2>4. QED
      BY <1>1, <2>1, <2>2, <2>3 DEF Fresh
  <1>10. ASSUME NEW t \in Threads, Post(t) \/ SetResult(t) PROVE Fresh'
    BY <1>1, <1>10 DEF Post, SetResult, coVars, Fresh
  <1>11. QED
    BY <1>2, <1>3, <1>4, <1>5, <1>6, <1>7, <1>8, <1>9, <1>10 DEF Next, Poll

-----------------------------------------------------------------------------
(* The clones                                                              *)

\* A step that makes no clone, and does no more to the cells than a wake-up.
LEMMA FewerClones ==
  ASSUME CoInv, CellsOnlyWoken, UNCHANGED <<waker, poll>>,
         \A c \in Clones : Held(c)' => Held(c)
  PROVE  ClonesFit'
  <1>. SUFFICES ASSUME NEW c \in Clones, Held(c)'
                PROVE  /\ c.waker \in 1..poll /\ c.poll \in 1..poll
                       /\ cell'[c.waker] \in {Unset, NoFuture, c.poll}
                       /\ c.waker = waker => c.poll = poll
    BY DEF ClonesFit
  <1>1. /\ c.waker \in 1..poll /\ c.poll \in 1..poll
        /\ cell[c.waker] \in {Unset, NoFuture, c.poll}
        /\ c.waker = waker => c.poll = poll
    BY DEF CoInv, ClonesFit
  <1>2. c.waker \in Polls /\ CoTypes
    BY <1>1, Numbers DEF CoInv, CoTypes
  <1>3. cell'[c.waker] \in {Unset, NoFuture, c.poll}
    BY <1>1, <1>2 DEF CellsOnlyWoken
  <1>4. QED
    BY <1>1, <1>3

LEMMA ClonesKept == CoInv /\ Next => ClonesFit'
  <1>. SUFFICES ASSUME CoInv, Next PROVE ClonesFit'
    OBVIOUS
  <1>1. CoTypes /\ Control /\ Fresh /\ ClonesFit
    BY DEF CoInv
  <1>2. ASSUME UNCHANGED <<cell, waker, poll, source, hand, cancel_waker>> PROVE ClonesFit'
    BY <1>1, <1>2 DEF ClonesFit, Held
  <1>3. CASE Throw \/ PollWakes \/ \E t \in Threads : WakeByRef(t)
    <2>1. CellsOnlyWoken /\ UNCHANGED <<waker, poll, source>>
      BY <1>3, WakesOnly
    <2>2. /\ cancel_waker' \in {cancel_waker, NoClone}
          /\ \A t \in Threads : hand'[t] \in {hand[t], NoClone}
      BY <1>1, <1>3 DEF Throw, PollWakes, WakeByRef, sourceVars, cancelVars, CoTypes
    <2>3. \A c \in Clones : Held(c)' => Held(c)
      BY <2>1, <2>2 DEF Held
    <2>4. QED
      BY <2>1, <2>3, FewerClones
  <1>4. ASSUME NEW t \in Threads, Post(t) \/ SetResult(t) PROVE ClonesFit'
    <2>1. UNCHANGED <<cell, waker, poll, cancel_waker>> /\ source' \in {source, NoClone}
      BY <1>4 DEF Post, SetResult, coVars, cancelVars
    <2>2. \A u \in Threads : hand'[u] \in {hand[u], source, NoClone}
      BY <1>1, <1>4 DEF Post, SetResult, CoTypes
    <2>3. \A c \in Clones : Held(c)' => Held(c)
      BY <2>1, <2>2 DEF Held
    <2>4. CellsOnlyWoken
      BY <2>1 DEF CellsOnlyWoken
    <2>5. QED
      BY <2>1, <2>3, <2>4, FewerClones
  <1>5. CASE NewWaker
    <2>1. /\ poll' = poll + 1 /\ waker' \in Polls /\ UNCHANGED <<source, hand, cancel_waker>>
          /\ cell' = [cell EXCEPT ![waker'] = Unset]
          /\ \A c \in Clones : Held(c) => c.waker # waker'
      BY <1>5, NextWakerIsFree DEF NewWaker, sourceVars, cancelVars
    <2>2. ASSUME NEW c \in Clones, Held(c)'
          PROVE  /\ c.waker \in 1..poll' /\ c.poll \in 1..poll'
                 /\ cell'[c.waker] \in {Unset, NoFuture, c.poll}
                 /\ c.waker # waker'
      <3>1. Held(c)
        BY <2>1, <2>2 DEF Held
      <3>2. c.waker \in 1..poll /\ c.poll \in 1..poll /\ cell[c.waker] \in {Unset, NoFuture, c.poll}
            /\ c.waker # waker'
        BY <1>1, <2>1, <3>1 DEF ClonesFit
      <3>3. c.waker \in 1..poll' /\ c.poll \in 1..poll' /\ c.waker \in Polls
        BY <1>1, <2>1, <3>2, Numbers DEF CoTypes
      <3>4. cell'[c.waker] = cell[c.waker]
        BY <1>1, <2>1, <3>2, <3>3 DEF CoTypes
      <3>5. QED
        BY <3>2, <3>3, <3>4
    <2>3. QED
      BY <2>2 DEF ClonesFit
  <1>6. CASE PollPending
    <2>1. /\ waker \in 1..poll /\ poll \in 1..poll
          /\ MyClone.waker = waker /\ MyClone.poll = poll
      BY <1>1, <1>6, MyCloneIs DEF PollPending
    <2>2. cell[waker] \in {Unset, NoFuture}
      BY <1>1, <1>6 DEF PollPending, Fresh
    <2>3. UNCHANGED <<cell, waker, poll, hand>>
      BY <1>6 DEF PollPending, coVars
    <2>4. source' \in {source, MyClone} /\ cancel_waker' \in {cancel_waker, MyClone}
      BY <1>6 DEF PollPending, AwaitCancel
    <2>5. \A c \in Clones : Held(c)' => Held(c) \/ c = MyClone
      BY <2>3, <2>4 DEF Held
    <2>6. QED
      BY <1>1, <2>1, <2>2, <2>3, <2>5 DEF ClonesFit
  <1>7. CASE SetFuture
    <2>1. waker \in Polls /\ cell' = [cell EXCEPT ![waker] = IF @ = Unset THEN poll ELSE @]
          /\ UNCHANGED <<waker, poll, source, hand, cancel_waker>>
      BY <1>1, <1>7, MyCloneIs DEF SetFuture, SetCell, coVars, sourceVars, cancelVars
    <2>2. ASSUME NEW c \in Clones, Held(c)'
          PROVE  cell'[c.waker] \in {Unset, NoFuture, c.poll} /\ Held(c)
      <3>1. Held(c)
        BY <2>1, <2>2 DEF Held
      <3>2. /\ c.waker \in 1..poll /\ cell[c.waker] \in {Unset, NoFuture, c.poll}
            /\ c.waker = waker => c.poll = poll
        BY <1>1, <3>1 DEF ClonesFit
      <3>3. c.waker \in Polls
        BY <1>1, <3>2, Numbers DEF CoTypes
      <3>4. CASE c.waker = waker
        BY <1>1, <2>1, <3>1, <3>2, <3>4 DEF CoTypes
      <3>5. CASE c.waker # waker
        BY <1>1, <2>1, <3>1, <3>2, <3>3, <3>5 DEF CoTypes
      <3>6. QED
        BY <3>4, <3>5
    <2>3. QED
      BY <1>1, <2>1, <2>2 DEF ClonesFit
  <1>8. QED
    BY <1>2, <1>3, <1>4, <1>5, <1>6, <1>7
       DEF Next, Poll, Reused, Send, ThrowCloses, PollCancelled, PollEvent, PollReady,
           InitializeFuture, CreateFuture, CreateFails, YieldFuture, YieldNone, release_waiter,
           Cancel, Await, CloseLoop, sourceVars, coVars, cancelVars

\* What a thread is about to set stays in the cell it was found in.
LEMMA SettingKept == CoInv /\ Next => SettingFits'
  <1>. SUFFICES ASSUME CoInv, Next, NEW t \in Threads, setting'[t] # NoFuture
                PROVE  /\ hand'[t] # NoClone /\ setting'[t] = hand'[t].poll
                       /\ cell'[hand'[t].waker] = setting'[t]
    BY DEF SettingFits
  <1>1. CoTypes /\ Control /\ Fresh /\ ClonesFit /\ SettingFits
    BY DEF CoInv
  <1>2. ASSUME setting'[t] = setting[t], hand'[t] = hand[t],
               cell[hand[t].waker] \in Polls /\ hand[t].waker \in Polls
                 => cell'[hand[t].waker] = cell[hand[t].waker]
        PROVE  /\ hand'[t] # NoClone /\ setting'[t] = hand'[t].poll
               /\ cell'[hand'[t].waker] = setting'[t]
    <2>1. hand[t] # NoClone /\ setting[t] = hand[t].poll /\ cell[hand[t].waker] = setting[t]
      BY <1>1, <1>2 DEF SettingFits
    <2>2. Held(hand[t]) /\ hand[t] \in Clones /\ setting[t] \in Polls
      BY <1>1, <1>2, <2>1 DEF Held, CoTypes
    <2>3. hand[t].waker \in Polls
      BY <1>1, <2>2, Numbers DEF ClonesFit, CoTypes
    <2>4. QED
      BY <1>2, <2>1, <2>2, <2>3
  <1>3. CASE UNCHANGED <<cell, hand, setting>>
    BY <1>2, <1>3
  <1>4. CASE Throw \/ PollWakes
    <2>1. CellsOnlyWoken /\ UNCHANGED <<hand, setting>>
      BY <1>4, WakesOnly DEF Throw, PollWakes, sourceVars
    <2>2. QED
      BY <1>1, <1>2, <2>1, WokenCells
  <1>5. CASE NewWaker
    <2>1. /\ waker' \in Polls /\ UNCHANGED <<hand, setting>>
          /\ cell' = [cell EXCEPT ![waker'] = Unset]
          /\ \A c \in Clones : Held(c) => c.waker # waker'
      BY <1>5, NextWakerIsFree DEF NewWaker, sourceVars
    <2>2. hand[t] # NoClone /\ hand[t] \in Clones
      BY <1>1, <2>1 DEF SettingFits, CoTypes
    <2>3. hand[t].waker # waker'
      BY <2>1, <2>2 DEF Held
    <2>4. QED
      BY <1>1, <1>2, <2>1, <2>3 DEF CoTypes
  <1>6. CASE SetFuture
    <2>1. waker \in Polls /\ cell' = [cell EXCEPT ![waker] = IF @ = Unset THEN poll ELSE @]
          /\ UNCHANGED <<hand, setting>>
      BY <1>1, <1>6, MyCloneIs DEF SetFuture, SetCell, sourceVars
    <2>2. \A w \in Polls : cell[w] \in Polls => cell'[w] = cell[w]
      BY <1>1, <2>1, Numbers DEF CoTypes
    <2>3. QED
      BY <1>2, <2>1, <2>2
  <1>7. ASSUME NEW u \in Threads, Post(u)
        PROVE  /\ hand'[t] # NoClone /\ setting'[t] = hand'[t].poll
               /\ cell'[hand'[t].waker] = setting'[t]
    <2>1. /\ hand[u] = NoClone /\ UNCHANGED <<setting, cell>>
          /\ hand' = [hand EXCEPT ![u] = source]
      BY <1>7 DEF Post
    <2>2. t # u
      BY <1>1, <2>1 DEF SettingFits
    <2>3. QED
      BY <1>1, <1>2, <2>1, <2>2 DEF CoTypes
  <1>8. ASSUME NEW u \in Threads, WakeByRef(u)
        PROVE  /\ hand'[t] # NoClone /\ setting'[t] = hand'[t].poll
               /\ cell'[hand'[t].waker] = setting'[t]
    <2>1. CellsOnlyWoken
      BY <1>8, WakesOnly
    <2>2. CASE t # u
      <3>1. setting'[t] = setting[t] /\ hand'[t] = hand[t]
        BY <1>1, <1>8, <2>2 DEF WakeByRef, CoTypes
      <3>2. QED
        BY <1>1, <1>2, <2>1, <3>1, WokenCells
    <2>3. CASE t = u
      <3>1. hand[t] # NoClone /\ setting[t] = NoFuture
        BY <1>8, <2>3 DEF WakeByRef, NoFuture
      <3>2. cell[hand[t].waker] \in Polls /\ setting' = [setting EXCEPT ![t] = cell[hand[t].waker]]
            /\ UNCHANGED hand
        BY <1>8, <2>3, <3>1 DEF WakeByRef
      <3>3. Held(hand[t]) /\ hand[t] \in Clones
        BY <1>1, <3>1 DEF Held, CoTypes
      <3>4. hand[t].waker \in Polls /\ cell[hand[t].waker] = hand[t].poll
        BY <1>1, <3>2, <3>3, Numbers DEF ClonesFit, CoTypes
      <3>5. setting'[t] = cell[hand[t].waker]
        BY <1>1, <3>2 DEF CoTypes
      <3>6. cell'[hand[t].waker] = cell[hand[t].waker]
        BY <1>1, <2>1, <3>2, <3>4, WokenCells
      <3>7. QED
        BY <3>1, <3>2, <3>4, <3>5, <3>6
    <2>4. QED
      BY <2>2, <2>3
  <1>9. ASSUME NEW u \in Threads, SetResult(u)
        PROVE  /\ hand'[t] # NoClone /\ setting'[t] = hand'[t].poll
               /\ cell'[hand'[t].waker] = setting'[t]
    <2>1. t # u
      BY <1>1, <1>9 DEF SetResult, CoTypes, NoFuture
    <2>2. setting'[t] = setting[t] /\ hand'[t] = hand[t] /\ UNCHANGED cell
      BY <1>1, <1>9, <2>1 DEF SetResult, CoTypes
    <2>3. QED
      BY <1>2, <2>2
  <1>10. QED
    BY <1>3, <1>4, <1>5, <1>6, <1>7, <1>8, <1>9
       DEF Next, Poll, Reused, Send, ThrowCloses, PollCancelled, PollEvent, PollReady, PollPending,
           InitializeFuture, CreateFuture, CreateFails, YieldFuture, YieldNone, release_waiter,
           Cancel, Await, CloseLoop, sourceVars

-----------------------------------------------------------------------------
(* The wake-up                                                             *)

LEMMA SuspendedWaker ==
  ASSUME CoTypes, Control, Suspended
  PROVE  /\ waker \in Polls /\ waker \in 1..poll
         /\ MyClone.waker = waker /\ MyClone # NoClone
  <1>1. waker # 0
    BY DEF Control, Suspended
  <1>2. waker \in Polls /\ waker \in 1..poll
    BY <1>1, Numbers DEF CoTypes
  <1>3. QED
    BY <1>2, Numbers DEF MyClone, NoClone

\* The steps after which the task is not suspended.
LEMMA NotSuspended ==
  ASSUME CoInv,
         \/ Reused \/ Send \/ Throw \/ ThrowCloses \/ NewWaker \/ PollCancelled \/ PollEvent
         \/ PollWakes \/ PollReady \/ CreateFails \/ YieldNone \/ Await \/ Cancel
  PROVE  ~Suspended'
  <1>1. Control
    BY DEF CoInv
  <1>2. QED
    BY <1>1
       DEF Control, Suspended, Reused, Send, Throw, ThrowCloses, NewWaker, PollCancelled, PollEvent,
           PollWakes, PollReady, CreateFails, YieldNone, Await, Cancel, Return, StartPoll, Step,
           loopVars

LEMMA WakeUpKept == CoInv /\ Next => WakeUp'
  <1>. SUFFICES ASSUME CoInv, Next, Suspended' PROVE OnItsWay'
    BY DEF WakeUp
  <1>1. CoTypes /\ Control /\ Fresh /\ ClonesFit /\ SettingFits /\ WakeUp
    BY DEF CoInv
  <1>2. CASE PollPending
    BY <1>2 DEF PollPending, coVars, OnItsWay, MyClone
  <1>3. CASE InitializeFuture \/ CreateFuture \/ SetFuture
    <2>1. Suspended /\ cell[waker] \in {Unset, NoFuture}
      BY <1>1, <1>3 DEF InitializeFuture, CreateFuture, SetFuture, Suspended, Fresh
    <2>2. /\ UNCHANGED <<waker, poll, available, source, hand>>
          /\ cell[waker] = NoFuture => cell'[waker] = NoFuture
      BY <1>1, <1>3, <2>1, SuspendedWaker, Numbers
         DEF InitializeFuture, CreateFuture, SetFuture, SetCell, sourceVars, coVars, CoTypes
    <2>3. OnItsWay
      BY <1>1, <2>1 DEF WakeUp
    <2>4. QED
      BY <2>1, <2>2, <2>3, Numbers DEF OnItsWay, MyClone
  <1>4. CASE YieldFuture
    <2>1. Suspended /\ UNCHANGED <<waker, poll, available, source, hand, cell, release, open>>
      BY <1>4 DEF YieldFuture, Suspended, sourceVars, coVars
    <2>2. UNCHANGED futures
      BY <1>4 DEF YieldFuture, Suspended, Return
    <2>3. QED
      BY <1>1, <2>1, <2>2 DEF WakeUp, OnItsWay, MyClone
  <1>5. ASSUME NEW p \in Polls, release_waiter(p) PROVE OnItsWay'
    <2>1. /\ task = "waiting" /\ task' = "waiting"
          /\ UNCHANGED <<waker, poll, available, source, hand, cell, open>>
          /\ release' = [release EXCEPT ![p] = @ - 1]
      BY <1>1, <1>5 DEF release_waiter, Suspended, sourceVars, coVars, Control
    <2>2. Suspended /\ OnItsWay /\ Waiter \in Polls /\ futures[Waiter] = "pending"
      BY <1>1, <2>1 DEF Suspended, WakeUp, Control
    <2>3. p # Waiter
      BY <1>5, <2>1, <2>2 DEF release_waiter, NotDone
    <2>4. release'[Waiter] = release[Waiter]
      BY <1>1, <2>1, <2>2, <2>3 DEF CoTypes
    <2>5. QED
      BY <2>1, <2>2, <2>4 DEF OnItsWay, MyClone, Waiter
  <1>6. CASE CloseLoop
    <2>1. Suspended /\ UNCHANGED <<waker, poll, available, source, hand, cell>> /\ ~open'
      BY <1>6 DEF CloseLoop, Suspended, sourceVars, coVars
    <2>2. QED
      BY <1>1, <2>1 DEF WakeUp, OnItsWay, MyClone
  <1>7. ASSUME NEW t \in Threads, Post(t) PROVE OnItsWay'
    <2>1. /\ Suspended /\ UNCHANGED <<waker, poll, cell, release, futures, open>>
          /\ hand[t] = NoClone /\ hand' = [hand EXCEPT ![t] = source]
      BY <1>7 DEF Post, Suspended, loopVars, coVars
    <2>2. OnItsWay /\ MyClone # NoClone
      BY <1>1, <2>1, SuspendedWaker DEF WakeUp
    <2>3. source = MyClone => hand'[t] = MyClone'
      BY <1>1, <2>1 DEF CoTypes, MyClone
    <2>4. \A u \in Threads : hand[u] = MyClone => hand'[u] = MyClone'
      BY <1>1, <2>1, <2>2 DEF CoTypes, MyClone
    <2>5. QED
      BY <2>1, <2>2, <2>3, <2>4 DEF OnItsWay
  <1>8. ASSUME NEW t \in Threads, WakeByRef(t) PROVE OnItsWay'
    <2>1. Suspended /\ UNCHANGED <<waker, poll, release, futures, open, available, source>>
      BY <1>8 DEF WakeByRef, Suspended, loopVars, coVars
    <2>2. /\ OnItsWay /\ waker \in Polls /\ waker \in 1..poll /\ MyClone.waker = waker
          /\ MyClone' = MyClone
      BY <1>1, <2>1, SuspendedWaker DEF WakeUp, MyClone
    <2>3. CellsOnlyWoken
      BY <1>8, WakesOnly
    <2>4. CASE available = 0 /\ source = MyClone
      BY <2>1, <2>2, <2>4 DEF OnItsWay
    <2>5. ASSUME NEW u \in Threads, hand[u] = MyClone PROVE OnItsWay'
      <3>1. CASE u = t /\ cell[waker] \notin Polls
        <4>1. WakeCell(waker)
          BY <1>8, <2>2, <2>5, <3>1 DEF WakeByRef
        <4>2. cell'[waker] = NoFuture
          BY <1>1, <2>2, <3>1, <4>1, WakeCellIs
        <4>3. QED
          BY <2>1, <4>2 DEF OnItsWay
      <3>2. CASE u # t \/ cell[waker] \in Polls
        <4>1. hand'[u] = hand[u]
          BY <1>1, <1>8, <2>2, <2>5, <3>2 DEF WakeByRef, CoTypes
        <4>2. QED
          BY <2>2, <2>5, <4>1 DEF OnItsWay
      <3>3. QED
        BY <3>1, <3>2
    <2>6. CASE cell[waker] = NoFuture \/ cell[waker] \in Polls
      <3>1. cell'[waker] = cell[waker]
        BY <1>1, <2>2, <2>3, <2>6, WokenCells
      <3>2. CASE cell[waker] = NoFuture
        BY <2>1, <3>1, <3>2 DEF OnItsWay
      <3>3. CASE cell[waker] \in Polls
        <4>1. CASE release[cell[waker]] > 0 \/ futures[cell[waker]] # "pending" \/ ~open
          BY <2>1, <3>1, <3>3, <4>1 DEF OnItsWay
        <4>2. CASE ~(release[cell[waker]] > 0 \/ futures[cell[waker]] # "pending" \/ ~open)
          BY <2>2, <2>4, <2>5, <3>3, <4>2, Numbers DEF OnItsWay
        <4>3. QED
          BY <4>1, <4>2
      <3>4. QED
        BY <2>6, <3>2, <3>3
    <2>7. QED
      BY <2>2, <2>4, <2>5, <2>6 DEF OnItsWay
  <1>9. ASSUME NEW t \in Threads, SetResult(t) PROVE OnItsWay'
    <2>1. /\ Suspended /\ UNCHANGED <<waker, poll, cell, futures, open, available, source>>
          /\ setting[t] # NoFuture /\ CallSoon(setting[t])
          /\ hand' = [hand EXCEPT ![t] = NoClone]
      BY <1>9 DEF SetResult, Suspended, loopVars, coVars, NoFuture
    <2>2. /\ OnItsWay /\ waker \in Polls /\ MyClone.waker = waker /\ MyClone' = MyClone
          /\ setting[t] \in Polls
      BY <1>1, <2>1, SuspendedWaker DEF WakeUp, MyClone, CoTypes
    <2>3. /\ release \in [Polls -> Nat] /\ release' \in [Polls -> Nat]
          /\ ReleaseOnlyGrows
          /\ open => release'[setting[t]] > 0
      BY <1>1, <2>1, <2>2, CallSoonIs DEF CoTypes
    <2>4. CASE hand[t] = MyClone
      <3>1. cell[waker] = setting[t]
        BY <1>1, <2>1, <2>2, <2>4 DEF SettingFits
      <3>2. QED
        BY <2>1, <2>2, <2>3, <3>1 DEF OnItsWay
    <2>5. CASE hand[t] # MyClone
      <3>1. \A u \in Threads : hand[u] = MyClone => hand'[u] = MyClone'
        BY <1>1, <2>1, <2>2, <2>5 DEF CoTypes
      <3>2. cell[waker] \in Polls /\ release[cell[waker]] > 0 => release'[cell[waker]] > 0
        BY <2>3 DEF ReleaseOnlyGrows
      <3>3. QED
        BY <2>1, <2>2, <3>1, <3>2 DEF OnItsWay
    <2>6. QED
      BY <2>4, <2>5
  <1>10. QED
    BY <1>2, <1>3, <1>4, <1>5, <1>6, <1>7, <1>8, <1>9, NotSuspended DEF Next, Poll

-----------------------------------------------------------------------------

LEMMA StutterCo == CoInv /\ UNCHANGED vars => CoInv'
  BY DEF vars, loopVars, sourceVars, coVars, cancelVars, CoInv, CoTypes, Budget, Control, Waiter,
         Fresh, ClonesFit, Held, SettingFits, WakeUp, Suspended, OnItsWay, MyClone

\* The inductive invariant.  (coroutine.rs, waker.rs and cancel.rs)
THEOREM CoInvariant == Spec => []CoInv
  <1>1. CoInv /\ [Next]_vars => CoInv'
    <2>1. CoInv /\ Next => CoInv'
      BY TypesKept, BudgetKept, ControlKept, FreshKept, ClonesKept, SettingKept, WakeUpKept
         DEF CoInv
    <2>2. QED
      BY <2>1, StutterCo
  <1>2. QED
    BY InitCo, <1>1, PTL DEF Spec

\* A wake-up is never lost, however the steps of wake_by_ref, of
\* initialize_future and of the loop interleave: while the task waits though
\* there is an event, the release of the very future it waits for is queued, or
\* a thread that is about to queue it has not finished.
THEOREM WakeUpIsNeverLost == Spec => []NoLostWakeUp
  <1>1. CoInv => NoLostWakeUp
    <2>. SUFFICES ASSUME CoInv, task = "waiting", open, available > 0
                  PROVE  \/ release[Waiter] > 0
                         \/ \E t \in Threads : hand[t] # NoClone /\ cell[hand[t].waker] = Waiter
      BY DEF NoLostWakeUp
    <2>1. CoTypes /\ Control /\ Suspended /\ OnItsWay
      BY DEF CoInv, WakeUp, Suspended
    <2>2. MyClone.waker = waker /\ MyClone # NoClone
      BY <2>1, SuspendedWaker
    <2>3. Waiter \in Polls /\ futures[Waiter] = "pending"
      BY <2>1 DEF Control
    <2>4. QED
      BY <2>1, <2>2, <2>3, Numbers DEF OnItsWay, Waiter, Budget, CoInv
  <1>2. QED
    BY <1>1, CoInvariant, PTL

\* A clone of the waker never gets to a future made for another poll than the
\* one that handed the clone out: the waker is reset only when Arc::get_mut
\* finds no clone of it.
THEOREM WakesItsOwnPoll == Spec => []WakesOwnPoll
  <1>1. CoInv => WakesOwnPoll
    <2>. SUFFICES ASSUME CoInv PROVE WakesOwnPoll
      OBVIOUS
    <2>1. ASSUME NEW c \in ({source, cancel_waker} \cup Range(hand)) \ {NoClone}
          PROVE  cell[c.waker] \in {Unset, NoFuture, c.poll}
      <3>1. c \in Clones /\ Held(c)
        BY <2>1 DEF Held, Range, CoInv, CoTypes
      <3>2. QED
        BY <3>1 DEF CoInv, ClonesFit
    <2>2. ASSUME NEW t \in Threads PROVE setting[t] \in {0, hand[t].poll}
      BY <2>2 DEF CoInv, SettingFits, NoFuture
    <2>3. QED
      BY <2>1, <2>2 DEF WakesOwnPoll
  <1>2. QED
    BY <1>1, CoInvariant, PTL

\* A future that was cancelled or has its result is not touched by the release
\* that comes late, nor made again.
THEOREM DoneStaysDone == Spec => DoneIsFinal
  <1>1. CoInv /\ [Next]_vars =>
          [\A p \in Polls : futures[p] \in {"done", "cancelled"} => futures'[p] = futures[p]]_futures
    <2>. SUFFICES ASSUME CoInv, Next, NEW p \in Polls, futures[p] \in {"done", "cancelled"}
                  PROVE  futures'[p] = futures[p]
      BY DEF vars
    <2>1. CoTypes /\ Control /\ Fresh
      BY DEF CoInv
    <2>2. CASE UNCHANGED futures
      BY <2>2
    <2>3. CASE CreateFuture
      BY <2>1, <2>3 DEF CreateFuture, Fresh, CoTypes
    <2>4. CASE YieldFuture
      BY <2>1, <2>4 DEF YieldFuture, CoTypes
    <2>5. ASSUME NEW q \in Polls, release_waiter(q) PROVE futures'[p] = futures[p]
      BY <2>1, <2>5 DEF release_waiter, NotDone, CoTypes
    <2>6. CASE Cancel
      BY <2>1, <2>6 DEF Cancel, Control, CoTypes
    <2>7. QED
      BY <2>2, <2>3, <2>4, <2>5, <2>6
         DEF Next, Poll, Reused, Send, Throw, ThrowCloses, NewWaker, PollCancelled, PollEvent,
             PollPending, PollReady, InitializeFuture, CreateFails, SetFuture, YieldNone, PollWakes,
             Await, CloseLoop, Post, WakeByRef, SetResult
  <1>2. QED
    BY <1>1, CoInvariant, PTL DEF Spec, DoneIsFinal

-----------------------------------------------------------------------------
(* How many polls there are                                                *)

\* Which numbers are where.
Numbering ==
  /\ \A p \in Polls : p > poll => release[p] = 0
  /\ \A v, w \in Polls : cell[v] = cell[w] /\ cell[v] \in Polls => v = w
  /\ pc \in {"poll", "pending", "create", "set"} =>
       release[poll] = 0 /\ \A w \in Polls : cell[w] # poll
  /\ pc = "set" => futures[poll] = "pending"
  /\ pc = "yield" =>
       \/ cell[waker] = NoFuture
       \/ cell[waker] = poll /\ futures[poll] = "pending"

\* Another poll is on its way.
Due ==
  \/ task = "ready" \/ pc = "waker" \/ must_cancel
  \/ /\ waker # 0
     /\ \/ \E t \in Threads : hand[t].waker = waker
        \/ cell[waker] = NoFuture
        \/ cell[waker] \in Polls /\ release[cell[waker]] > 0

Left == left["event"] + left["cancel"] + left["yield"] + left["await"]

Counted ==
  /\ pc = "waker" => ~must_cancel
  /\ poll + (IF Due THEN 1 ELSE 0) + Left <= 1 + MaxEvents + MaxCancels + MaxYields + MaxAwaits

PollsInv == Numbering /\ Counted

LEMMA PollNumbers ==
  ASSUME CoInv
  PROVE  /\ CoTypes /\ Control /\ Fresh /\ ClonesFit /\ SettingFits
         /\ poll \in Nat /\ Polls = 1..MaxPolls /\ MaxPolls \in Nat
         /\ \A w \in Polls : cell[w] \in Polls => cell[w] <= poll
         /\ pc \notin {"idle", "waker"} => waker \in Polls /\ poll \in Polls
  <1>1. CoTypes /\ Control /\ Fresh /\ ClonesFit /\ SettingFits
    BY DEF CoInv
  <1>2. pc \notin {"idle", "waker"} => waker \in Polls /\ poll \in Polls
    BY <1>1, MyCloneIs
  <1>3. \A w \in Polls : cell[w] \in Polls => cell[w] <= poll
    BY <1>1, Numbers DEF CoTypes
  <1>4. QED
    BY <1>1, <1>2, <1>3, Numbers DEF CoTypes

\* A release is queued only for a future that some cell holds.
QueuedFromCells ==
  \A p \in Polls : release'[p] = release[p] \/ \E w \in Polls : cell[w] = p

LEMMA CallSoonQueues ==
  ASSUME CoTypes, NEW p \in Polls, NEW w \in Polls, cell[w] = p, CallSoon(p)
  PROVE  QueuedFromCells
  BY DEF CoTypes, CallSoon, QueuedFromCells

LEMMA WakesKeepNumbering ==
  ASSUME CoInv, Numbering, CellsOnlyWoken, QueuedFromCells, UNCHANGED <<poll, waker>>,
         \/ pc' = "waker"
         \/ UNCHANGED <<pc, futures>>
  PROVE  Numbering'
  <1>1. /\ poll \in Nat /\ Polls = 1..MaxPolls /\ MaxPolls \in Nat
        /\ \A w \in Polls : cell[w] \in Polls => cell[w] <= poll
        /\ pc \notin {"idle", "waker"} => waker \in Polls /\ poll \in Polls
    BY PollNumbers
  <1>2. \A w \in Polls : cell'[w] \in Polls => cell'[w] = cell[w]
    BY Numbers DEF CellsOnlyWoken
  <1>3. \A p \in Polls : p > poll => release'[p] = 0
    BY <1>1 DEF Numbering, QueuedFromCells
  <1>4. \A v, w \in Polls : cell'[v] = cell'[w] /\ cell'[v] \in Polls => v = w
    BY <1>2 DEF Numbering
  <1>5. CASE pc' = "waker"
    BY <1>3, <1>4, <1>5 DEF Numbering
  <1>6. CASE UNCHANGED <<pc, futures>>
    <2>1. ASSUME pc \in {"poll", "pending", "create", "set"}
          PROVE  release'[poll] = 0 /\ \A w \in Polls : cell'[w] # poll
      <3>1. poll \in Polls /\ release[poll] = 0 /\ \A w \in Polls : cell[w] # poll
        BY <1>1, <2>1 DEF Numbering
      <3>2. QED
        BY <1>2, <3>1 DEF QueuedFromCells
    <2>2. ASSUME pc = "yield"
          PROVE  \/ cell'[waker] = NoFuture
                 \/ cell'[waker] = poll /\ futures[poll] = "pending"
      <3>1. waker \in Polls /\ poll \in Polls
        BY <1>1, <2>2
      <3>2. cell'[waker] = cell[waker]
        BY <2>2, <3>1, Numbers DEF Numbering, CellsOnlyWoken
      <3>3. QED
        BY <2>2, <3>2 DEF Numbering
    <2>3. QED
      BY <1>3, <1>4, <1>6, <2>1, <2>2 DEF Numbering
  <1>7. QED
    BY <1>5, <1>6

LEMMA WakeQueues ==
  ASSUME CoTypes, NEW c \in Clones, c.waker \in 1..poll, Wake(c)
  PROVE  CellsOnlyWoken /\ QueuedFromCells
  <1>1. c.waker \in Polls
    BY Numbers DEF CoTypes
  <1>2. CASE cell[c.waker] \in Polls
    BY <1>1, <1>2, WakeIs, CallSoonQueues DEF Wake
  <1>3. CASE cell[c.waker] \notin Polls
    BY <1>3, WakeIs DEF Wake, QueuedFromCells
  <1>4. QED
    BY <1>2, <1>3

LEMMA NumberingKept == CoInv /\ Numbering /\ Next => Numbering'
  <1>. SUFFICES ASSUME CoInv, Numbering, Next PROVE Numbering'
    OBVIOUS
  <1>1. /\ CoTypes /\ Control /\ Fresh /\ ClonesFit /\ SettingFits
        /\ poll \in Nat /\ Polls = 1..MaxPolls /\ MaxPolls \in Nat
        /\ \A w \in Polls : cell[w] \in Polls => cell[w] <= poll
        /\ pc \notin {"idle", "waker"} => waker \in Polls /\ poll \in Polls
    BY PollNumbers
  <1>2. CASE Reused \/ Send \/ ThrowCloses \/ PollCancelled \/ PollEvent \/ PollPending \/ PollReady
             \/ InitializeFuture \/ CreateFails \/ YieldFuture \/ YieldNone \/ Await
    BY <1>2 DEF Numbering, Reused, Send, ThrowCloses, PollCancelled, PollEvent, PollPending,
                PollReady, InitializeFuture, CreateFails, YieldFuture, YieldNone, Await, Return,
                coVars, loopVars
  <1>3. CASE Throw
    <2>1. /\ pc' = "waker" /\ UNCHANGED <<poll, waker>>
          /\ IF cancel_waker = NoClone THEN UNCHANGED <<cell, release>> ELSE Wake(cancel_waker)
      BY <1>3 DEF Throw, coVars
    <2>2. CASE cancel_waker = NoClone
      <3>1. CellsOnlyWoken /\ QueuedFromCells
        BY <2>1, <2>2 DEF CellsOnlyWoken, QueuedFromCells
      <3>2. QED
        BY <2>1, <3>1, WakesKeepNumbering
    <2>3. CASE cancel_waker # NoClone
      <3>1. cancel_waker \in Clones /\ cancel_waker.waker \in 1..poll
        BY <1>1, <2>3 DEF CoTypes, ClonesFit, Held
      <3>2. QED
        BY <1>1, <2>1, <2>3, <3>1, WakeQueues, WakesKeepNumbering
    <2>4. QED
      BY <2>2, <2>3
  <1>4. CASE PollWakes
    <2>1. /\ pc = "poll" /\ Wake(MyClone) /\ UNCHANGED <<poll, waker, pc, futures>>
      BY <1>4 DEF PollWakes, coVars
    <2>2. MyClone \in Clones /\ MyClone.waker \in 1..poll
      BY <1>1, <2>1, MyCloneIs
    <2>3. QED
      BY <1>1, <2>1, <2>2, WakeQueues, WakesKeepNumbering
  <1>5. ASSUME NEW t \in Threads, WakeByRef(t)
        PROVE  Numbering'
    <2>1. /\ hand[t] # NoClone /\ WakeCell(hand[t].waker)
          /\ UNCHANGED <<poll, waker, pc, futures, release>>
      BY <1>5 DEF WakeByRef, coVars
    <2>2. hand[t].waker \in 1..poll
      BY <1>1, <2>1 DEF CoTypes, ClonesFit, Held
    <2>3. CellsOnlyWoken /\ QueuedFromCells
      BY <1>1, <2>1, <2>2, WakeCellIs DEF QueuedFromCells
    <2>4. QED
      BY <2>1, <2>3, WakesKeepNumbering
  <1>6. ASSUME NEW t \in Threads, SetResult(t)
        PROVE  Numbering'
    <2>1. /\ setting[t] # NoFuture /\ CallSoon(setting[t])
          /\ UNCHANGED <<poll, waker, pc, futures, cell>>
      BY <1>6 DEF SetResult, coVars, NoFuture
    <2>2. /\ hand[t] # NoClone /\ cell[hand[t].waker] = setting[t] /\ setting[t] \in Polls
      BY <1>1, <2>1 DEF CoTypes, SettingFits
    <2>3. hand[t].waker \in Polls
      BY <1>1, <2>2 DEF CoTypes, ClonesFit, Held
    <2>4. CellsOnlyWoken /\ QueuedFromCells
      BY <1>1, <2>1, <2>2, <2>3, CallSoonQueues DEF CellsOnlyWoken
    <2>5. QED
      BY <2>1, <2>4, WakesKeepNumbering
  <1>7. CASE NewWaker
    <2>1. /\ poll' = poll + 1 /\ pc' = "poll" /\ release' = release
          /\ cell' = [cell EXCEPT ![waker'] = Unset] /\ poll < MaxPolls
      BY <1>7 DEF NewWaker
    <2>2. \A w \in Polls : cell'[w] = cell[w] \/ cell'[w] = Unset
      BY <1>1, <2>1 DEF CoTypes
    <2>3. \A w \in Polls : cell'[w] \in Polls => cell'[w] = cell[w] /\ cell'[w] <= poll
      BY <1>1, <2>2, Numbers
    <2>4. poll + 1 \in Polls
      BY <1>1, <2>1
    <2>5. \A w \in Polls : cell'[w] # poll + 1
      BY <1>1, <2>3, <2>4
    <2>6. \A v, w \in Polls : cell'[v] = cell'[w] /\ cell'[v] \in Polls => v = w
      <3>1. SUFFICES ASSUME NEW v \in Polls, NEW w \in Polls, cell'[v] = cell'[w], cell'[v] \in Polls
                     PROVE  v = w
        OBVIOUS
      <3>2. cell[v] = cell[w] /\ cell[v] \in Polls
        BY <2>3, <3>1
      <3>3. QED
        BY <3>2 DEF Numbering
    <2>7. \A p \in Polls : p > poll + 1 => release[p] = 0
      BY <1>1 DEF Numbering
    <2>8. release[poll + 1] = 0
      BY <1>1, <2>4 DEF Numbering
    <2>9. QED
      BY <2>1, <2>5, <2>6, <2>7, <2>8 DEF Numbering
  <1>8. CASE CreateFuture
    <2>1. /\ pc = "create" /\ pc' = "set" /\ UNCHANGED <<poll, waker, cell, release>>
          /\ futures' = [futures EXCEPT ![poll] = "pending"]
      BY <1>8 DEF CreateFuture, coVars
    <2>2. futures'[poll] = "pending"
      BY <1>1, <2>1 DEF CoTypes
    <2>3. QED
      BY <2>1, <2>2 DEF Numbering
  <1>9. CASE SetFuture
    <2>1. /\ pc = "set" /\ pc' = "yield" /\ UNCHANGED <<poll, waker, release, futures>>
          /\ cell' = [cell EXCEPT ![waker] = IF @ = Unset THEN poll ELSE @]
      BY <1>9 DEF SetFuture, SetCell, coVars
    <2>2. /\ waker \in Polls /\ cell[waker] \in {Unset, NoFuture} /\ futures[poll] = "pending"
          /\ \A w \in Polls : cell[w] # poll
      BY <1>1, <2>1 DEF Fresh, Numbering
    <2>3. /\ cell'[waker] = IF cell[waker] = Unset THEN poll ELSE NoFuture
          /\ \A w \in Polls : w # waker => cell'[w] = cell[w]
      BY <1>1, <2>1, <2>2 DEF CoTypes
    <2>4. \A v, w \in Polls : cell'[v] = cell'[w] /\ cell'[v] \in Polls => v = w
      BY <2>2, <2>3, Numbers DEF Numbering
    <2>5. QED
      BY <2>1, <2>2, <2>3, <2>4 DEF Numbering
  <1>10. ASSUME NEW p \in Polls, release_waiter(p)
         PROVE  Numbering'
    <2>1. /\ pc = "idle" /\ release[p] > 0 /\ UNCHANGED <<pc, poll, waker, cell>>
          /\ release' = [release EXCEPT ![p] = @ - 1]
      BY <1>10 DEF release_waiter, coVars
    <2>2. \A q \in Polls : q > poll => release'[q] = 0
      BY <1>1, <2>1 DEF CoTypes, Numbering
    <2>3. QED
      BY <2>1, <2>2 DEF Numbering
  <1>11. CASE Cancel
    BY <1>11 DEF Cancel, Numbering, coVars
  <1>12. CASE CloseLoop
    BY <1>12 DEF CloseLoop, Numbering, coVars
  <1>13. ASSUME NEW t \in Threads, Post(t)
         PROVE  Numbering'
    BY <1>13 DEF Post, Numbering, coVars
  <1>14. QED
    BY <1>2, <1>3, <1>4, <1>5, <1>6, <1>7, <1>8, <1>9, <1>10, <1>11, <1>12, <1>13 DEF Next, Poll

LEMMA NewPollIsNotDue ==
  ASSUME CoInv, Counted, NewWaker
  PROVE  pc = "waker" /\ poll' = poll + 1 /\ pc' = "poll" /\ UNCHANGED left /\ ~Due'
  <1>1. /\ pc = "waker" /\ poll' = poll + 1 /\ pc' = "poll" /\ waker' = NextWaker
        /\ cell' = [cell EXCEPT ![waker'] = Unset] /\ UNCHANGED <<task, must_cancel, hand, left>>
    BY DEF NewWaker, loopVars, sourceVars
  <1>2. CoTypes /\ Control /\ ClonesFit
    BY DEF CoInv
  <1>3. task # "ready" /\ ~must_cancel
    BY <1>1, <1>2 DEF Control, Counted
  <1>4. waker' \in Polls /\ \A t \in Threads : hand[t].waker # waker'
    <2>1. waker' \in Polls /\ waker' # 0 /\ \A c \in Clones : Held(c) => c.waker # waker'
      BY NextWakerIsFree, Numbers
    <2>2. ASSUME NEW t \in Threads PROVE hand[t].waker # waker'
      <3>1. CASE hand[t] = NoClone
        BY <2>1, <3>1 DEF NoClone
      <3>2. CASE hand[t] # NoClone
        BY <1>2, <2>1, <3>2 DEF Held, CoTypes
      <3>3. QED
        BY <3>1, <3>2
    <2>3. QED
      BY <2>1, <2>2
  <1>5. cell'[waker'] = Unset
    BY <1>1, <1>2, <1>4 DEF CoTypes
  <1>6. QED
    BY <1>1, <1>3, <1>4, <1>5, Numbers DEF Due

\* A thread's clone of the current waker makes another poll due.
LEMMA HandIsDue ==
  ASSUME CoInv, NEW t \in Threads, hand[t] # NoClone, hand[t].waker = waker
  PROVE  Due
  <1>1. waker # 0
    BY Numbers DEF CoInv, ClonesFit, Held, CoTypes
  <1>2. QED
    BY <1>1 DEF Due

\* Only what spends some of the budget makes a poll due.
LEMMA DueIsPaid ==
  ASSUME CoInv, Numbering, Next, ~NewWaker, UNCHANGED left, Due'
  PROVE  Due
  <1>1. /\ CoTypes /\ Control /\ Fresh /\ ClonesFit /\ SettingFits
        /\ poll \in Nat /\ Polls = 1..MaxPolls /\ MaxPolls \in Nat
        /\ pc \notin {"idle", "waker"} => waker \in Polls /\ poll \in Polls
    BY PollNumbers
  <1>2. CASE Reused \/ ThrowCloses \/ PollCancelled \/ PollEvent \/ PollPending
             \/ PollReady \/ InitializeFuture \/ CreateFuture \/ CreateFails
    BY <1>2 DEF Due, Reused, ThrowCloses, PollCancelled, PollEvent, PollPending, PollReady,
                InitializeFuture, CreateFuture, CreateFails, Return, coVars, loopVars, sourceVars
  <1>3. CASE Send \/ Throw
    BY <1>3 DEF Due, Send, Throw, StartPoll, Step
  <1>4. CASE SetFuture
    <2>1. /\ pc = "set" /\ pc' = "yield" /\ UNCHANGED <<task, must_cancel, waker, hand, release>>
          /\ cell' = [cell EXCEPT ![waker] = IF @ = Unset THEN poll ELSE @]
      BY <1>4 DEF SetFuture, SetCell, coVars, loopVars, sourceVars
    <2>2. /\ waker \in Polls /\ cell[waker] \in {Unset, NoFuture} /\ release[poll] = 0
          /\ poll \in Polls
      BY <1>1, <2>1 DEF Fresh, Numbering
    <2>3. cell'[waker] = IF cell[waker] = Unset THEN poll ELSE NoFuture
      BY <1>1, <2>1, <2>2 DEF CoTypes
    <2>4. QED
      BY <2>1, <2>2, <2>3, Numbers DEF Due
  <1>5. CASE YieldFuture
    <2>1. /\ must_cancel \/ task' = "waiting"
          /\ pc' = "idle" /\ UNCHANGED <<must_cancel, waker, hand, cell, release>>
      BY <1>5 DEF YieldFuture, Return, coVars, sourceVars
    <2>2. QED
      BY <2>1 DEF Due
  <1>6. CASE YieldNone
    <2>1. /\ pc \in {"pending", "yield"} /\ cell[waker] # Unset
          /\ cell[waker] \in Polls => futures[cell[waker]] # "pending"
      BY <1>6 DEF YieldNone
    <2>2. waker # 0 /\ cell[waker] = NoFuture
      BY <1>1, <2>1, Numbers DEF Fresh, Numbering
    <2>3. QED
      BY <2>2 DEF Due
  <1>7. ASSUME NEW p \in Polls, release_waiter(p)
        PROVE  Due
    <2>1. /\ release[p] > 0 /\ release' = [release EXCEPT ![p] = @ - 1]
          /\ UNCHANGED <<pc, must_cancel, waker, hand, cell>>
          /\ \/ task' = task
             \/ task = "waiting" /\ Waiter = p
      BY <1>7 DEF release_waiter, coVars, sourceVars
    <2>2. \A q \in Polls : release'[q] > 0 => release[q] > 0
      BY <1>1, <2>1 DEF CoTypes
    <2>3. CASE task' = task
      BY <2>1, <2>2, <2>3 DEF Due
    <2>4. CASE task = "waiting" /\ Waiter = p
      <3>1. waker # 0
        BY <1>1, <2>4 DEF Control
      <3>2. QED
        BY <2>1, <2>4, <3>1 DEF Due, Waiter
    <2>5. QED
      BY <2>1, <2>3, <2>4
  <1>8. CASE CloseLoop
    BY <1>8 DEF CloseLoop, Due, coVars, sourceVars
  <1>9. ASSUME NEW t \in Threads, WakeByRef(t)
        PROVE  Due
    <2>1. /\ hand[t] # NoClone /\ WakeCell(hand[t].waker)
          /\ UNCHANGED <<task, must_cancel, pc, waker, release>>
          /\ hand' = hand \/ hand' = [hand EXCEPT ![t] = NoClone]
      BY <1>9 DEF WakeByRef, coVars, loopVars
    <2>2. CASE hand[t].waker = waker
      BY <2>1, <2>2, HandIsDue
    <2>3. CASE hand[t].waker # waker
      <3>1. waker # 0 => waker \in Polls
        BY <1>1, Numbers DEF CoTypes
      <3>2. waker # 0 => cell'[waker] = cell[waker]
        BY <1>1, <2>1, <2>3, <3>1 DEF WakeCell, CoTypes
      <3>3. \A u \in Threads : hand'[u] = hand[u] \/ hand'[u].waker = 0
        BY <1>1, <2>1 DEF CoTypes, NoClone
      <3>4. QED
        BY <2>1, <3>2, <3>3 DEF Due
    <2>4. QED
      BY <2>2, <2>3
  <1>10. ASSUME NEW t \in Threads, SetResult(t)
         PROVE  Due
    <2>1. /\ setting[t] # NoFuture /\ CallSoon(setting[t])
          /\ UNCHANGED <<task, must_cancel, pc, waker, cell>>
          /\ hand' = [hand EXCEPT ![t] = NoClone]
      BY <1>10 DEF SetResult, coVars, loopVars, NoFuture
    <2>2. /\ hand[t] # NoClone /\ cell[hand[t].waker] = setting[t] /\ setting[t] \in Polls
      BY <1>1, <2>1 DEF CoTypes, SettingFits
    <2>3. hand[t].waker \in Polls
      BY <1>1, <2>2 DEF CoTypes, ClonesFit, Held
    <2>4. CASE hand[t].waker = waker
      BY <2>2, <2>4, HandIsDue
    <2>5. CASE hand[t].waker # waker
      <3>1. waker # 0 => waker \in Polls
        BY <1>1, Numbers DEF CoTypes
      <3>2. waker # 0 => cell[waker] # setting[t]
        BY <2>2, <2>3, <2>5, <3>1 DEF Numbering
      <3>3. \A q \in Polls : q # setting[t] => release'[q] = release[q]
        BY <1>1, <2>1, <2>2 DEF CallSoon, CoTypes
      <3>4. \A u \in Threads : hand'[u] = hand[u] \/ hand'[u].waker = 0
        BY <1>1, <2>1 DEF CoTypes, NoClone
      <3>5. QED
        BY <2>1, <3>2, <3>3, <3>4 DEF Due
    <2>6. QED
      BY <2>4, <2>5
  <1>11. ASSUME NEW what \in What PROVE ~Spend(what)
    BY <1>11 DEF Spend, CoInv, Budget
  <1>12. ~Cancel /\ ~Await /\ ~PollWakes /\ \A t \in Threads : ~Post(t)
    BY <1>11 DEF What, Cancel, Await, PollWakes, Post
  <1>13. QED
    BY <1>2, <1>3, <1>4, <1>5, <1>6, <1>7, <1>8, <1>9, <1>10, <1>12 DEF Next, Poll

LEMMA CountedKept == CoInv /\ Numbering /\ Counted /\ Next => Counted'
  <1>. SUFFICES ASSUME CoInv, Numbering, Counted, Next PROVE Counted'
    OBVIOUS
  <1> DEFINE D == IF Due THEN 1 ELSE 0
             Bound == 1 + MaxEvents + MaxCancels + MaxYields + MaxAwaits
  <1>1. /\ poll \in Nat /\ left \in [What -> Nat] /\ Left \in Nat /\ Bound \in Nat
        /\ D \in {0, 1} /\ D' \in {0, 1}
        /\ pc = "waker" => ~must_cancel /\ Due
    BY CoroutineAssumption DEF CoroutineAssumption, CoInv, CoTypes, Budget, What, Left, Counted, Due
  <1>2. poll + D + Left <= Bound
    BY DEF Counted
  <1>3. pc' = "waker" => ~must_cancel'
    BY <1>1 DEF Next, Poll, Reused, Send, Throw, ThrowCloses, NewWaker, PollCancelled, PollEvent,
                PollPending, PollReady, InitializeFuture, CreateFuture, CreateFails, SetFuture,
                YieldFuture, YieldNone, PollWakes, release_waiter, Cancel, Await, CloseLoop, Post,
                WakeByRef, SetResult, StartPoll, Return, loopVars
  <1>4. CASE NewWaker
    <2>1. poll' = poll + 1 /\ Left' = Left /\ D = 1 /\ D' = 0
      BY <1>1, <1>4, NewPollIsNotDue DEF Left
    <2>2. QED
      BY <1>1, <1>2, <1>3, <2>1 DEF Counted
  <1>5. CASE ~NewWaker
    <2>1. poll' = poll
      BY <1>5 DEF Next, Poll, Reused, Send, Throw, ThrowCloses, PollCancelled, PollEvent,
                PollPending, PollReady, InitializeFuture, CreateFuture, CreateFails, SetFuture,
                YieldFuture, YieldNone, PollWakes, release_waiter, Cancel, Await, CloseLoop, Post,
                WakeByRef, SetResult
    <2>2. CASE UNCHANGED left
      <3>1. Left' = Left /\ (D' = 1 => D = 1)
        BY <1>5, <2>2, DueIsPaid DEF Left
      <3>2. QED
        BY <1>1, <1>2, <1>3, <2>1, <3>1 DEF Counted
    <2>3. ASSUME NEW what \in What, Spend(what)
          PROVE  Counted'
      <3>1. Left' = Left - 1
        BY <1>1, <2>3 DEF Spend, Left, What
      <3>2. QED
        BY <1>1, <1>2, <1>3, <2>1, <3>1 DEF Counted
    <2>4. UNCHANGED left \/ \E what \in What : Spend(what)
      BY <1>5 DEF Next, Poll, Reused, Send, Throw, ThrowCloses, PollCancelled, PollEvent,
                PollPending, PollReady, InitializeFuture, CreateFuture, CreateFails, SetFuture,
                YieldFuture, YieldNone, PollWakes, release_waiter, Cancel, Await, CloseLoop, Post,
                WakeByRef, SetResult, What
    <2>5. QED
      BY <2>2, <2>3, <2>4
  <1>6. QED
    BY <1>4, <1>5

LEMMA InitPolls == Init => PollsInv
  <1>. SUFFICES ASSUME Init PROVE PollsInv
    OBVIOUS
  <1>1. Numbering
    BY Numbers DEF Init, Numbering
  <1>2. Left = MaxEvents + MaxCancels + MaxYields + MaxAwaits /\ poll = 0
    BY DEF Init, Left
  <1>3. QED
    BY <1>1, <1>2, CoroutineAssumption DEF CoroutineAssumption, Init, PollsInv, Counted

\* Every poll but the first is paid for by an event, a yield, a cancellation or a
\* new await: a wake-up makes the task step once (coroutine.rs, waker.rs).
THEOREM PollsArePaid == Spec => []PollsInv
  <1>1. CoInv /\ PollsInv /\ [Next]_vars => PollsInv'
    <2>1. CoInv /\ PollsInv /\ Next => PollsInv'
      BY NumberingKept, CountedKept DEF PollsInv
    <2>2. PollsInv /\ UNCHANGED vars => PollsInv'
      BY DEF vars, loopVars, sourceVars, coVars, cancelVars, PollsInv, Numbering, Counted, Due, Left
    <2>3. QED
      BY <2>1, <2>2
  <1>2. QED
    BY InitPolls, <1>1, CoInvariant, PTL DEF Spec

\* The variables have their types, and a poll always has a number left.
THEOREM CoTypeCorrect == Spec => []TypeOK
  <1>1. CoInv /\ PollsInv => TypeOK
    <2>. SUFFICES ASSUME CoInv, PollsInv PROVE TypeOK
      OBVIOUS
    <2>1. CoTypes /\ Budget /\ Control /\ Counted
      BY DEF CoInv, PollsInv
    <2>2. poll \in 0..MaxPolls - 1
      <3>1. Left \in Nat /\ poll \in Nat /\ (IF Due THEN 1 ELSE 0) \in {0, 1}
        BY <2>1 DEF CoTypes, Budget, What, Left
      <3>2. poll <= 1 + MaxEvents + MaxCancels + MaxYields + MaxAwaits
        BY <2>1, <3>1, CoroutineAssumption DEF Counted, CoroutineAssumption
      <3>3. QED
        BY <3>1, <3>2, CoroutineAssumption DEF CoroutineAssumption
    <2>3. available \in 0..MaxEvents
      BY <2>1, CoroutineAssumption DEF Budget, What, CoroutineAssumption
    <2>4. {must_cancel, open, future, exception} \subseteq BOOLEAN
      BY <2>1 DEF CoTypes
    <2>5. QED
      BY <2>1, <2>2, <2>3, <2>4 DEF CoTypes, Control, TypeOK, NoFuture
  <1>2. QED
    BY <1>1, CoInvariant, PollsArePaid, PTL

=============================================================================
