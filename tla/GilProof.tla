------------------------------ MODULE GilProof ------------------------------
(***************************************************************************)
(* Theorems about Gil, for any threads, handles, objects and bound.        *)
(*                                                                         *)
(* The argument for the GIL rests on the shape of a thread's stack: each   *)
(* frame saved the count its predecessor left (After), and only an Ensured *)
(* guard stands above a SuspendGIL.  Whether a thread has the GIL can then *)
(* be read off its innermost frame.                                        *)
(***************************************************************************)
EXTENDS Gil, TLAPS, FiniteSetTheorems, SequenceTheorems

\* The count a thread has while frame f is its innermost one.
After(f) ==
  CASE f.kind \in {"ensured", "assumed"} -> f.saved + 1
    [] f.kind = "suspend" -> 0
    [] f.kind = "traverse" -> LockedDuringTraverse
    [] f.kind \in {"python", "drain"} -> f.saved

\* What a frame of each kind may have saved.
SavedOK(f) ==
  /\ f.kind \in {"python", "ensured", "assumed"} => f.saved >= 0
  /\ f.kind \in {"suspend", "drain"} => f.saved > 0

\* Frame f as the outermost of a thread, and directly above frame g.
FirstOK(f) == f.kind \in {"python", "ensured"} /\ f.saved = 0 /\ ~f.nested
AboveOK(g, f) ==
  /\ f.saved = After(g)
  /\ f.nested <=> g.kind # "suspend"
  /\ g.kind = "suspend" => f.kind = "ensured"

Linked(s) ==
  /\ \A i \in 1..Len(s) : SavedOK(s[i])
  /\ Len(s) > 0 => FirstOK(s[1])
  /\ \A i \in 2..Len(s) : AboveOK(s[i-1], s[i])

Attached(t) == stack[t] # <<>> /\ Top(t).kind # "suspend" /\ pc[t] # "yielded"

CountOK(t) ==
  count[t] = IF stack[t] = <<>> THEN 0
             ELSE IF pc[t] = "restore" THEN Top(t).saved ELSE After(Top(t))

PcOK(t) ==
  /\ pc[t] = "restore" => TopIs(t, {"suspend"})
  /\ pc[t] = "yielded" => TopIs(t, {"python"})
  /\ pc[t] = "update" => stack[t] # <<>> /\ Top(t).kind # "suspend" /\ count[t] > 0

ThreadOK(t) == Linked(stack[t]) /\ CountOK(t) /\ PcOK(t) /\ (gil = t <=> Attached(t))

GilInv == Types /\ \A t \in Threads : ThreadOK(t)

-----------------------------------------------------------------------------
\* Pushing a frame that fits on a linked stack keeps it linked (the guards'
\* constructors in gil.rs).
LEMMA PushLinked ==
  ASSUME NEW s \in Seq(Frame), Linked(s), NEW f \in Frame, SavedOK(f),
         s = <<>> => FirstOK(f),
         s # <<>> => AboveOK(s[Len(s)], f)
  PROVE  /\ Append(s, f) \in Seq(Frame)
         /\ Linked(Append(s, f))
         /\ Append(s, f) # <<>>
         /\ Append(s, f)[Len(Append(s, f))] = f
  <1> DEFINE a == Append(s, f)
  <1>1. a \in Seq(Frame) /\ Len(a) = Len(s) + 1 /\ a[Len(s) + 1] = f
        /\ (\A i \in 1..Len(s) : a[i] = s[i]) /\ a # <<>>
    OBVIOUS
  <1>2. Len(s) \in Nat
    OBVIOUS
  <1> HIDE DEF a
  <1>3. \A i \in 1..Len(a) : SavedOK(a[i])
    BY <1>1, <1>2 DEF Linked
  <1>4. FirstOK(a[1])
    <2>1. CASE s = <<>>
      BY <1>1, <2>1
    <2>2. CASE s # <<>>
      <3>1. Len(s) >= 1
        BY <2>2, <1>2
      <3>2. QED
        BY <3>1, <1>1, <1>2 DEF Linked
    <2>3. QED
      BY <2>1, <2>2
  <1>5. \A i \in 2..Len(a) : AboveOK(a[i-1], a[i])
    <2> SUFFICES ASSUME NEW i \in 2..Len(a) PROVE AboveOK(a[i-1], a[i])
      OBVIOUS
    <2>1. CASE i \in 2..Len(s)
      <3>1. i - 1 \in 1..Len(s) /\ i \in 1..Len(s)
        BY <2>1, <1>2
      <3>2. QED
        BY <3>1, <2>1, <1>1 DEF Linked
    <2>2. CASE i = Len(s) + 1
      <3>1. s # <<>> /\ Len(s) \in 1..Len(s) /\ i - 1 = Len(s)
        BY <2>2, <1>1, <1>2
      <3>2. QED
        BY <3>1, <2>2, <1>1
    <2>3. QED
      BY <2>1, <2>2, <1>1, <1>2
  <1>6. QED
    BY <1>1, <1>3, <1>4, <1>5 DEF Linked, a

\* Popping the innermost frame of a linked stack: the frame below it, if
\* any, left the count that the popped one saved (the guards' Drop).
LEMMA PopLinked ==
  ASSUME NEW s \in Seq(Frame), Linked(s), s # <<>>
  PROVE  LET f == s[Len(s)]
             b == SubSeq(s, 1, Len(s) - 1)
         IN /\ f \in Frame
            /\ SavedOK(f)
            /\ b \in Seq(Frame)
            /\ Linked(b)
            /\ b = <<>> <=> Len(s) = 1
            /\ b = <<>> => FirstOK(f)
            /\ b # <<>> => /\ b[Len(b)] \in Frame
                           /\ SavedOK(b[Len(b)])
                           /\ AboveOK(b[Len(b)], f)
  <1>1. PICK n \in Nat : n = Len(s) /\ n >= 1
    OBVIOUS
  <1> DEFINE b == SubSeq(s, 1, n - 1)
  <1>2. b \in Seq(Frame) /\ Len(b) = n - 1 /\ \A i \in 1..(n-1) : b[i] = s[i]
    <2>1. n - 1 \in Int /\ \A i \in 1..(n-1) : s[i] \in Frame
      BY <1>1
    <2>2. /\ b \in Seq(Frame)
          /\ Len(b) = IF 1 <= n - 1 THEN (n-1) - 1 + 1 ELSE 0
          /\ \A i \in 1..((n-1) - 1 + 1) : b[i] = s[1 + i - 1]
      BY <2>1, SubSeqProperties
    <2> HIDE DEF b
    <2>3. (n-1) - 1 + 1 = n - 1 /\ \A i \in 1..(n-1) : 1 + i - 1 = i
      BY <1>1
    <2>4. Len(b) = n - 1
      BY <2>2, <1>1
    <2>5. QED
      BY <2>2, <2>3, <2>4
  <1>3. b = <<>> <=> n = 1
    <2> HIDE DEF b
    <2>1. b = <<>> <=> Len(b) = 0
      BY <1>2, EmptySeq
    <2>2. QED
      BY <2>1, <1>1, <1>2
  <1>4. s[n] \in Frame /\ SavedOK(s[n])
    BY <1>1 DEF Linked
  <1> HIDE DEF b
  <1>5. b # <<>> => n - 1 \in 1..(n-1) /\ n - 1 \in 1..n /\ n \in 2..n
    BY <1>1, <1>3
  <1>6. Linked(b)
    <2>1. \A i \in 1..Len(b) : SavedOK(b[i])
      <3>1. \A i \in 1..Len(b) : i \in 1..n
        BY <1>1, <1>2
      <3>2. QED
        BY <3>1, <1>1, <1>2 DEF Linked
    <2>2. Len(b) > 0 => FirstOK(b[1])
      BY <1>1, <1>2 DEF Linked
    <2>3. \A i \in 2..Len(b) : AboveOK(b[i-1], b[i])
      <3>1. \A i \in 2..Len(b) : i \in 2..n /\ i - 1 \in 1..(n-1) /\ i \in 1..(n-1)
        BY <1>1, <1>2
      <3>2. QED
        BY <3>1, <1>1, <1>2 DEF Linked
    <2>4. QED
      BY <2>1, <2>2, <2>3 DEF Linked
  <1>7. b = <<>> => FirstOK(s[n])
    <2> HAVE b = <<>>
    <2>1. n = 1
      BY <1>3
    <2>2. Len(s) = 1
      BY <2>1, <1>1
    <2>3. QED
      BY <2>1, <2>2 DEF Linked
  <1>8. b # <<>> => /\ b[Len(b)] \in Frame
                    /\ SavedOK(b[Len(b)])
                    /\ AboveOK(b[Len(b)], s[n])
    <2> HAVE b # <<>>
    <2>1. b[Len(b)] = s[n-1] /\ b[Len(b)] \in Frame
      BY <1>2, <1>5
    <2>2. SavedOK(s[n-1]) /\ AboveOK(s[n-1], s[n])
      BY <1>1, <1>5 DEF Linked
    <2>3. QED
      BY <2>1, <2>2
  <1>9. QED
    BY <1>1, <1>2, <1>3, <1>4, <1>6, <1>7, <1>8 DEF b

-----------------------------------------------------------------------------
\* What the typing and the invariant need of the stack operators.
LEMMA StackTyping ==
  ASSUME Types, NEW t \in Threads
  PROVE  /\ \A kind \in GuardKinds \cup {"python", "drain"} :
              /\ NewFrame(t, kind) \in Frame
              /\ Append(stack[t], NewFrame(t, kind)) \in Seq(Frame)
         /\ Below(t) \in Seq(Frame)
         /\ stack[t] # <<>> => Top(t) \in Frame /\ Top(t).saved \in Int
  <1>1. count[t] \in Int /\ stack[t] \in Seq(Frame) /\ (gil = t) \in BOOLEAN
    BY DEF Types
  <1>2. \A kind \in GuardKinds \cup {"python", "drain"} : NewFrame(t, kind) \in Frame
    BY <1>1 DEF NewFrame, Frame
  <1>3. Below(t) \in Seq(Frame)
    <2>1. Len(stack[t]) - 1 \in Int
          /\ \A i \in 1..(Len(stack[t]) - 1) : stack[t][i] \in Frame
      BY <1>1
    <2>2. QED
      BY <2>1, SubSeqProperties DEF Below
  <1>4. stack[t] # <<>> => Top(t) \in Frame /\ Top(t).saved \in Int
    <2>1. stack[t] # <<>> => Top(t) \in Frame
      BY <1>1 DEF Top
    <2>2. QED
      BY <2>1 DEF Frame
  <1>5. \A kind \in GuardKinds \cup {"python", "drain"} :
           Append(stack[t], NewFrame(t, kind)) \in Seq(Frame)
    BY <1>1, <1>2
  <1>6. QED
    BY <1>2, <1>3, <1>4, <1>5

\* The part of Types the references are in is preserved by Py_DECREF.
LEMMA DecrefTyping ==
  ASSUME Types, NEW t \in Threads, NEW h \in Handles, Py_DECREF(t, h)
  PROVE  /\ refcnt' \in [Objects -> Int]
         /\ place' \in [Handles -> Place]
         /\ stack' \in [Threads -> Seq(Frame)]
  <1>1. target[h] \in Objects /\ Nowhere \in Place
    BY DEF Types, Nowhere, Place
  <1>2. /\ refcnt' = [refcnt EXCEPT ![target[h]] = @ - 1]
        /\ place' = [place EXCEPT ![h] = Nowhere]
    BY DEF Py_DECREF
  <1>3. refcnt' \in [Objects -> Int] /\ place' \in [Handles -> Place]
    BY <1>1, <1>2 DEF Types
  <1>4. stack' \in [Threads -> Seq(Frame)]
    <2>1. \/ stack' = stack
          \/ stack' = [stack EXCEPT ![t] = Append(@, NewFrame(t, "python"))]
      BY DEF Py_DECREF
    <2>2. stack \in [Threads -> Seq(Frame)]
      BY DEF Types
    <2>3. Append(stack[t], NewFrame(t, "python")) \in Seq(Frame)
      BY StackTyping
    <2>4. QED
      BY <2>1, <2>2, <2>3
  <1>5. QED
    BY <1>3, <1>4

\* Every variable keeps its type (the data structures of gil.rs).
THEOREM TypesPreserved == Spec => []Types
  <1>1. Init => Types
    <2> SUFFICES ASSUME Init PROVE Types
      OBVIOUS
    <2> USE GilAssumption DEF Init
    <2>1. stack \in [Threads -> Seq(Frame)]
      OBVIOUS
    <2>2. place \in [Handles -> Place]
      BY DEF Place, Held, Nowhere
    <2>3. refcnt \in [Objects -> Int]
      <3>1. ASSUME NEW o \in Objects PROVE Cardinality({h \in Initial : InitialOf[h] = o}) \in Int
        <4>1. {h \in Initial : InitialOf[h] = o} \subseteq Handles
          OBVIOUS
        <4>2. QED
          BY <4>1, FS_Subset, FS_CardinalityType
      <3>2. QED
        BY <3>1
    <2>4. ops \in [Threads -> 0..MaxOps]
      OBVIOUS
    <2>5. QED
      BY <2>1, <2>2, <2>3, <2>4 DEF Types
  <1>2. Types /\ [Next]_vars => Types'
    <2> SUFFICES ASSUME Types, [Next]_vars PROVE Types'
      OBVIOUS
    <2>1. ASSUME NEW t \in Threads, Step(t) PROVE Types'
      <3> USE DEF gilVars, refVars
      <3>1. Optional(t) => ops' \in [Threads -> 0..MaxOps]
        BY GilAssumption DEF Optional, Types
      <3>2. CASE PyThreadStart(t)
        BY <3>1, <3>2, StackTyping DEF PyThreadStart, Types
      <3>3. CASE CallPython(t)
        BY <3>1, <3>3, StackTyping DEF CallPython, Types
      <3>4. CASE PyReturn(t)
        BY <3>4, StackTyping DEF PyReturn, Types
      <3>5. CASE PyYield(t)
        BY <3>1, <3>5 DEF PyYield, Types
      <3>6. CASE PyResume(t)
        BY <3>6 DEF PyResume, Types
      <3>7. CASE Assume(t)
        BY <3>1, <3>7, StackTyping DEF Assume, increment_gil_count, Types, GuardKinds
      <3>8. CASE Acquire(t)
        BY <3>1, <3>8 DEF Acquire, Types
      <3>9. CASE Ensure(t)
        BY <3>9, StackTyping DEF Ensure, increment_gil_count, Types, GuardKinds
      <3>10. CASE EnsureBails(t)
        BY <3>10, StackTyping DEF EnsureBails, TopIs, Types
      <3>11. CASE DropGuard(t)
        BY <3>11, StackTyping DEF DropGuard, decrement_gil_count, Types
      <3>12. CASE SuspendNew(t)
        BY <3>1, <3>12, StackTyping DEF SuspendNew, Types, GuardKinds
      <3>13. CASE SuspendDrop(t)
        BY <3>13, StackTyping DEF SuspendDrop, TopIs, Types
      <3>14. CASE RestoreThread(t)
        BY <3>14, StackTyping DEF RestoreThread, Types
      <3>15. CASE TraverseBegin(t)
        BY <3>1, <3>15, StackTyping
           DEF TraverseBegin, LockedDuringTraverse, Types, GuardKinds
      <3>16. CASE TraverseEnd(t)
        BY <3>16, StackTyping DEF TraverseEnd, TopIs, Types
      <3>17. ASSUME NEW h \in Handles, NEW new \in Handles, register_incref(t, h, new)
             PROVE Types'
        <4>1. target[h] \in Objects /\ Held \in Place
          BY DEF Types, Held, Place
        <4>2. QED
          BY <4>1, <3>1, <3>17 DEF register_incref, Types
      <3>18. ASSUME NEW h \in Handles, register_decref(t, h) PROVE Types'
        <4>1. Pending \in Place
          BY DEF Pending, Place
        <4>2. QED
          BY <4>1, <3>18, DecrefTyping DEF register_decref, Types
      <3>19. CASE UpdateCounts(t)
        <4>1. Taken(t, Len(stack[t]) + 1) \in Place
          BY DEF Taken, Place, Types
        <4>2. place' \in [Handles -> Place]
          <5>1. \/ place' = place
                \/ place' = [h \in Handles |->
                               IF h \in {g \in Handles : place[g] = Pending}
                               THEN Taken(t, Len(stack[t]) + 1) ELSE place[h]]
            BY <3>19 DEF UpdateCounts
          <5>2. place \in [Handles -> Place]
            BY DEF Types
          <5>3. QED
            BY <4>1, <5>1, <5>2
        <4>3. stack' \in [Threads -> Seq(Frame)]
          <5>1. \/ stack' = stack
                \/ stack' = [stack EXCEPT ![t] = Append(@, NewFrame(t, "drain"))]
            BY <3>19 DEF UpdateCounts
          <5>2. stack \in [Threads -> Seq(Frame)]
            BY DEF Types
          <5>3. Append(stack[t], NewFrame(t, "drain")) \in Seq(Frame)
            BY StackTyping
          <5>4. QED
            BY <5>1, <5>2, <5>3
        <4>4. QED
          BY <4>2, <4>3, <3>19 DEF UpdateCounts, Types
      <3>20. CASE DrainOne(t)
        BY <3>20, DecrefTyping DEF DrainOne, Types
      <3>21. CASE DrainEnd(t)
        BY <3>21, StackTyping DEF DrainEnd, Types
      <3>22. QED
        BY <2>1, <3>2, <3>3, <3>4, <3>5, <3>6, <3>7, <3>8, <3>9, <3>10, <3>11, <3>12,
           <3>13, <3>14, <3>15, <3>16, <3>17, <3>18, <3>19, <3>20, <3>21
           DEF Step, Interpreter, Guards, References
    <2>2. CASE Finished \/ UNCHANGED vars
      BY <2>2 DEF Finished, vars, Types
    <2>3. QED
      BY <2>1, <2>2 DEF Next
  <1>3. QED
    BY <1>1, <1>2, PTL DEF Spec

-----------------------------------------------------------------------------
\* A step of thread t that leaves the others' stacks, counts and positions
\* alone, and hands the GIL at most between t and nobody, preserves GilInv
\* once it preserves t's own part.
LEMMA LocalStep ==
  ASSUME GilInv, Types', NEW t \in Threads,
         \A u \in Threads \ {t} :
           stack'[u] = stack[u] /\ count'[u] = count[u] /\ pc'[u] = pc[u],
         gil' = gil \/ (gil \in {NoThread, t} /\ gil' \in {NoThread, t}),
         Linked(stack'[t]), CountOK(t)', PcOK(t)', (gil = t <=> Attached(t))'
  PROVE  GilInv'
  <1>1. ThreadOK(t)'
    BY DEF ThreadOK
  <1>2. ASSUME NEW u \in Threads \ {t} PROVE ThreadOK(u)'
    <2>1. ThreadOK(u) /\ u # t /\ u # NoThread
      BY GilAssumption DEF GilInv
    <2>2. stack'[u] = stack[u] /\ count'[u] = count[u] /\ pc'[u] = pc[u]
      OBVIOUS
    <2>3. gil' = u <=> gil = u
      BY <2>1
    <2>4. QED
      BY <2>1, <2>2, <2>3 DEF ThreadOK, CountOK, PcOK, Attached, TopIs, Top
  <1>3. QED
    BY <1>1, <1>2 DEF GilInv

\* The innermost frame after a push, and after a pop.
LEMMA Pushed ==
  ASSUME Types, NEW t \in Threads, ThreadOK(t),
         NEW kind \in GuardKinds \cup {"python", "drain"},
         stack' = [stack EXCEPT ![t] = Append(@, NewFrame(t, kind))],
         SavedOK(NewFrame(t, kind)),
         stack[t] = <<>> => FirstOK(NewFrame(t, kind)),
         stack[t] # <<>> => AboveOK(Top(t), NewFrame(t, kind))
  PROVE  /\ Linked(stack'[t])
         /\ stack'[t] # <<>>
         /\ Top(t)' = NewFrame(t, kind)
  <1>1. stack[t] \in Seq(Frame) /\ Linked(stack[t]) /\ NewFrame(t, kind) \in Frame
    BY StackTyping DEF Types, ThreadOK
  <1>2. stack'[t] = Append(stack[t], NewFrame(t, kind))
    BY DEF Types
  <1>3. stack[t] # <<>> => AboveOK(stack[t][Len(stack[t])], NewFrame(t, kind))
    BY DEF Top
  <1>4. QED
    BY <1>1, <1>2, <1>3, PushLinked DEF Top

LEMMA Popped ==
  ASSUME Types, NEW t \in Threads, ThreadOK(t), stack[t] # <<>>,
         stack' = [stack EXCEPT ![t] = Below(t)]
  PROVE  /\ Linked(stack'[t])
         /\ Top(t) \in Frame /\ SavedOK(Top(t))
         /\ stack'[t] = <<>> <=> Len(stack[t]) = 1
         /\ stack'[t] = <<>> => FirstOK(Top(t))
         /\ stack'[t] # <<>> => /\ Top(t)' \in Frame
                                /\ SavedOK(Top(t)')
                                /\ AboveOK(Top(t)', Top(t))
  <1>1. stack[t] \in Seq(Frame) /\ Linked(stack[t]) /\ stack'[t] = Below(t)
    BY DEF Types, ThreadOK
  <1>2. QED
    BY <1>1, PopLinked DEF Top, Below

\* What the innermost frame tells of a thread that satisfies the invariant.
LEMMA TopFacts ==
  ASSUME Types, NEW t \in Threads, ThreadOK(t)
  PROVE  /\ count[t] \in Int
         /\ stack[t] # <<>> => Top(t) \in Frame /\ SavedOK(Top(t))
         /\ count[t] > 0 /\ pc[t] \notin {"restore", "yielded"} => gil = t
         /\ count[t] > 0 => stack[t] # <<>>
         /\ count[t] < 0 /\ pc[t] # "restore" => TopIs(t, {"traverse"})
         /\ stack[t] # <<>> /\ pc[t] \notin {"restore", "yielded"} =>
              count[t] = After(Top(t)) /\ (gil = t <=> Top(t).kind # "suspend")
         /\ stack[t] = <<>> => count[t] = 0 /\ gil # t
  <1>1. count[t] \in Int /\ stack[t] \in Seq(Frame)
    BY DEF Types
  <1>2. stack[t] # <<>> => Top(t) \in Frame /\ SavedOK(Top(t))
    BY <1>1 DEF Top, ThreadOK, Linked
  <1>3. stack[t] = <<>> => count[t] = 0 /\ gil # t
    BY DEF ThreadOK, CountOK, Attached
  <1>4. stack[t] # <<>> /\ pc[t] \notin {"restore", "yielded"} =>
          count[t] = After(Top(t)) /\ (gil = t <=> Top(t).kind # "suspend")
    BY DEF ThreadOK, CountOK, Attached
  <1>5. count[t] > 0 /\ pc[t] \notin {"restore", "yielded"} => gil = t
    BY <1>1, <1>2, <1>3, <1>4 DEF After, Frame
  <1>6. count[t] < 0 /\ pc[t] # "restore" => TopIs(t, {"traverse"})
    <2> HAVE count[t] < 0 /\ pc[t] # "restore"
    <2>1. stack[t] # <<>> /\ count[t] = After(Top(t))
      BY <1>1, <1>3 DEF ThreadOK, CountOK
    <2>2. QED
      BY <2>1, <1>1, <1>2 DEF After, Frame, GuardKinds, SavedOK, TopIs
  <1>7. QED
    BY <1>1, <1>2, <1>3, <1>4, <1>5, <1>6

-----------------------------------------------------------------------------
\* The fields of a new frame, and the count while it is the innermost.
LEMMA NewFrameFields ==
  ASSUME NEW t, NEW kind
  PROVE  /\ NewFrame(t, kind).kind = kind
         /\ NewFrame(t, kind).saved = count[t]
         /\ NewFrame(t, kind).nested <=> gil = t
  BY DEF NewFrame

LEMMA AfterByKind ==
  ASSUME NEW f
  PROVE  /\ f.kind \in {"ensured", "assumed"} => After(f) = f.saved + 1
         /\ f.kind = "suspend" => After(f) = 0
         /\ f.kind = "traverse" => After(f) = -1
         /\ f.kind \in {"python", "drain"} => After(f) = f.saved
  BY DEF After, LockedDuringTraverse

\* Each step preserves the invariant: one lemma for the steps that push a
\* frame, one for those that pop one, one for the others.
LEMMA PushSteps ==
  ASSUME GilInv, Types', NEW t \in Threads,
         \/ PyThreadStart(t) \/ CallPython(t) \/ Assume(t) \/ Ensure(t)
         \/ SuspendNew(t) \/ TraverseBegin(t)
  PROVE  GilInv'
  <1> USE GilAssumption
  <1>1. Types /\ ThreadOK(t) /\ t # NoThread
    BY DEF GilInv
  <1>2. count \in [Threads -> Int] /\ stack \in [Threads -> Seq(Frame)]
        /\ pc \in [Threads -> {"run", "ensure", "restore", "update", "yielded"}]
    BY <1>1 DEF Types
  <1>3. CASE PyThreadStart(t)
    <2>1. FirstOK(NewFrame(t, "python")) /\ SavedOK(NewFrame(t, "python"))
      BY <1>1, <1>3, TopFacts, NewFrameFields DEF PyThreadStart, FirstOK, SavedOK
    <2>2. Linked(stack'[t]) /\ stack'[t] # <<>> /\ Top(t)' = NewFrame(t, "python")
      BY <1>1, <1>3, <2>1, Pushed DEF PyThreadStart
    <2>3. count'[t] = 0 /\ pc'[t] = "run" /\ gil' = t /\ gil = NoThread
      BY <1>1, <1>3, TopFacts DEF PyThreadStart
    <2>4. CountOK(t)' /\ PcOK(t)' /\ (gil = t <=> Attached(t))'
      BY <1>1, <1>3, <2>2, <2>3, TopFacts, NewFrameFields, AfterByKind
         DEF CountOK, PcOK, Attached, TopIs, PyThreadStart
    <2>5. QED
      BY <1>2, <1>3, <2>2, <2>3, <2>4, LocalStep DEF PyThreadStart
  <1>4. CASE CallPython(t)
    <2>1. count[t] > 0 /\ gil = t /\ stack[t] # <<>> /\ pc[t] = "run"
          /\ Top(t).kind # "suspend" /\ count[t] = After(Top(t))
      BY <1>1, <1>4, TopFacts DEF CallPython, RustRuns, gil_is_acquired
    <2>2. AboveOK(Top(t), NewFrame(t, "python")) /\ SavedOK(NewFrame(t, "python"))
      BY <2>1, <1>2, NewFrameFields DEF AboveOK, SavedOK
    <2>3. Linked(stack'[t]) /\ stack'[t] # <<>> /\ Top(t)' = NewFrame(t, "python")
      BY <1>1, <1>4, <2>1, <2>2, Pushed DEF CallPython
    <2>4. CountOK(t)' /\ PcOK(t)' /\ (gil = t <=> Attached(t))'
      BY <1>4, <2>1, <2>3, NewFrameFields, AfterByKind
         DEF CountOK, PcOK, Attached, TopIs, CallPython
    <2>5. QED
      BY <1>2, <1>4, <2>3, <2>4, LocalStep DEF CallPython
  <1>5. CASE Assume(t)
    <2>1. count[t] >= 0 /\ gil = t /\ stack[t] # <<>> /\ pc[t] = "run"
          /\ Top(t).kind # "suspend" /\ count[t] = After(Top(t))
      <3>1. CASE PythonRuns(t)
        BY <1>1, <3>1, TopFacts DEF PythonRuns, TopIs
      <3>2. CASE RustRuns(t) /\ gil_is_acquired(t)
        BY <1>1, <3>2, TopFacts DEF RustRuns, gil_is_acquired
      <3>3. QED
        BY <1>5, <3>1, <3>2 DEF Assume
    <2>2. AboveOK(Top(t), NewFrame(t, "assumed")) /\ SavedOK(NewFrame(t, "assumed"))
      BY <2>1, <1>2, NewFrameFields DEF AboveOK, SavedOK
    <2>3. Linked(stack'[t]) /\ stack'[t] # <<>> /\ Top(t)' = NewFrame(t, "assumed")
      BY <1>1, <1>5, <2>1, <2>2, Pushed DEF Assume, GuardKinds
    <2>4. count'[t] = count[t] + 1 /\ pc'[t] = "update" /\ gil' = t
      BY <1>2, <1>5, <2>1 DEF Assume, increment_gil_count
    <2>5. CountOK(t)' /\ PcOK(t)' /\ (gil = t <=> Attached(t))'
      BY <1>2, <2>1, <2>3, <2>4, NewFrameFields, AfterByKind DEF CountOK, PcOK, Attached, TopIs
    <2>6. QED
      BY <1>2, <1>5, <2>3, <2>4, <2>5, LocalStep DEF Assume, increment_gil_count
  <1>6. CASE Ensure(t)
    <2>1. count[t] >= 0 /\ gil \in {NoThread, t} /\ pc[t] = "ensure"
      BY <1>6 DEF Ensure
    <2>2. SavedOK(NewFrame(t, "ensured"))
          /\ (stack[t] = <<>> => FirstOK(NewFrame(t, "ensured")))
          /\ (stack[t] # <<>> => AboveOK(Top(t), NewFrame(t, "ensured")))
      BY <1>1, <2>1, TopFacts, NewFrameFields DEF AboveOK, SavedOK, FirstOK
    <2>3. Linked(stack'[t]) /\ stack'[t] # <<>> /\ Top(t)' = NewFrame(t, "ensured")
      BY <1>1, <1>6, <2>2, Pushed DEF Ensure, GuardKinds
    <2>4. count'[t] = count[t] + 1 /\ pc'[t] = "update" /\ gil' = t
      BY <1>2, <1>6 DEF Ensure, increment_gil_count
    <2>5. CountOK(t)' /\ PcOK(t)' /\ (gil = t <=> Attached(t))'
      BY <1>2, <2>1, <2>3, <2>4, NewFrameFields, AfterByKind DEF CountOK, PcOK, Attached, TopIs
    <2>6. QED
      BY <1>2, <1>6, <2>1, <2>3, <2>4, <2>5, LocalStep DEF Ensure, increment_gil_count
  <1>7. CASE SuspendNew(t)
    <2>1. count[t] > 0 /\ gil = t /\ stack[t] # <<>> /\ pc[t] = "run"
          /\ Top(t).kind # "suspend" /\ count[t] = After(Top(t))
      BY <1>1, <1>7, TopFacts DEF SuspendNew, RustRuns, gil_is_acquired
    <2>2. AboveOK(Top(t), NewFrame(t, "suspend")) /\ SavedOK(NewFrame(t, "suspend"))
      BY <2>1, <1>2, NewFrameFields DEF AboveOK, SavedOK
    <2>3. Linked(stack'[t]) /\ stack'[t] # <<>> /\ Top(t)' = NewFrame(t, "suspend")
      BY <1>1, <1>7, <2>1, <2>2, Pushed DEF SuspendNew, GuardKinds
    <2>4. count'[t] = 0 /\ pc'[t] = "run" /\ gil' = NoThread
      BY <1>2, <1>7, <2>1 DEF SuspendNew
    <2>5. CountOK(t)' /\ PcOK(t)' /\ (gil = t <=> Attached(t))'
      BY <1>1, <2>3, <2>4, NewFrameFields, AfterByKind DEF CountOK, PcOK, Attached, TopIs
    <2>6. QED
      BY <1>2, <1>7, <2>1, <2>3, <2>4, <2>5, LocalStep DEF SuspendNew
  <1>8. CASE TraverseBegin(t)
    <2>1. gil = t /\ stack[t] # <<>> /\ pc[t] = "run"
          /\ Top(t).kind # "suspend" /\ count[t] = After(Top(t))
      <3>1. CASE PythonRuns(t)
        BY <1>1, <3>1, TopFacts DEF PythonRuns, TopIs
      <3>2. CASE RustRuns(t) /\ (gil_is_acquired(t) \/ TopIs(t, {"traverse"}))
        BY <1>1, <3>2, TopFacts DEF RustRuns, gil_is_acquired, TopIs
      <3>3. QED
        BY <1>8, <3>1, <3>2 DEF TraverseBegin
    <2>2. AboveOK(Top(t), NewFrame(t, "traverse")) /\ SavedOK(NewFrame(t, "traverse"))
      BY <2>1, <1>2, NewFrameFields DEF AboveOK, SavedOK
    <2>3. Linked(stack'[t]) /\ stack'[t] # <<>> /\ Top(t)' = NewFrame(t, "traverse")
      BY <1>1, <1>8, <2>1, <2>2, Pushed DEF TraverseBegin, GuardKinds
    <2>4. count'[t] = LockedDuringTraverse /\ pc'[t] = "run" /\ gil' = t
      BY <1>2, <1>8, <2>1 DEF TraverseBegin
    <2>5. CountOK(t)' /\ PcOK(t)' /\ (gil = t <=> Attached(t))'
      BY <2>3, <2>4, NewFrameFields, AfterByKind
         DEF CountOK, PcOK, Attached, TopIs, LockedDuringTraverse
    <2>6. QED
      BY <1>2, <1>8, <2>1, <2>3, <2>4, <2>5, LocalStep DEF TraverseBegin
  <1>9. QED
    BY <1>3, <1>4, <1>5, <1>6, <1>7, <1>8

LEMMA PopSteps ==
  ASSUME GilInv, Types', NEW t \in Threads,
         \/ PyReturn(t) \/ EnsureBails(t) \/ DropGuard(t) \/ RestoreThread(t)
         \/ TraverseEnd(t) \/ DrainEnd(t)
  PROVE  GilInv'
  <1> USE GilAssumption
  <1>1. Types /\ ThreadOK(t) /\ t # NoThread
    BY DEF GilInv
  <1>2. count \in [Threads -> Int] /\ stack \in [Threads -> Seq(Frame)]
        /\ pc \in [Threads -> {"run", "ensure", "restore", "update", "yielded"}]
    BY <1>1 DEF Types
  <1>3. stack[t] # <<>> /\ stack' = [stack EXCEPT ![t] = Below(t)]
    BY <1>1 DEF PyReturn, EnsureBails, DropGuard, RestoreThread, TraverseEnd, DrainEnd,
                PythonRuns, TopIs, ThreadOK, PcOK
  <1>4. /\ Linked(stack'[t])
        /\ Top(t) \in Frame /\ SavedOK(Top(t))
        /\ stack'[t] = <<>> <=> Len(stack[t]) = 1
        /\ stack'[t] = <<>> => FirstOK(Top(t))
        /\ stack'[t] # <<>> => /\ Top(t)' \in Frame
                               /\ SavedOK(Top(t)')
                               /\ AboveOK(Top(t)', Top(t))
    BY <1>1, <1>3, Popped
  <1>5. stack'[t] = <<>> => Top(t).saved = 0
    BY <1>4 DEF FirstOK
  <1>6. stack'[t] # <<>> => After(Top(t)') = Top(t).saved
    BY <1>4 DEF AboveOK
  <1>7. stack'[t] # <<>> => (Top(t)'.kind # "suspend" <=> Top(t).nested)
                            /\ (Top(t)'.kind = "suspend" => Top(t).kind = "ensured")
    BY <1>4 DEF AboveOK
  <1>8. ASSUME count'[t] = Top(t).saved, pc'[t] = "run"
        PROVE  CountOK(t)' /\ PcOK(t)'
    BY <1>5, <1>6, <1>8 DEF CountOK, PcOK
  <1>9. CASE PyReturn(t)
    <2>1. Top(t).kind = "python" /\ pc[t] = "run" /\ gil = t /\ count[t] = Top(t).saved
      BY <1>1, <1>9, TopFacts, AfterByKind DEF PyReturn, PythonRuns, TopIs
    <2>2. CountOK(t)' /\ PcOK(t)'
      BY <1>8, <1>9, <2>1 DEF PyReturn
    <2>3. (gil = t <=> Attached(t))'
      BY <1>1, <1>4, <1>7, <1>9, <2>1 DEF PyReturn, Attached
    <2>4. QED
      BY <1>2, <1>4, <1>9, <2>1, <2>2, <2>3, LocalStep DEF PyReturn
  <1>10. CASE EnsureBails(t)
    <2>1. Top(t).kind = "traverse" /\ pc[t] = "ensure" /\ gil = t
      BY <1>1, <1>10, TopFacts DEF EnsureBails, TopIs
    <2>2. count'[t] = Top(t).saved /\ pc'[t] = "run" /\ gil' = t
      BY <1>2, <1>10, <2>1 DEF EnsureBails
    <2>3. (gil = t <=> Attached(t))'
      BY <1>4, <1>7, <2>1, <2>2 DEF Attached, FirstOK
    <2>4. QED
      BY <1>2, <1>4, <1>8, <1>10, <2>1, <2>2, <2>3, LocalStep DEF EnsureBails
  <1>11. CASE DropGuard(t)
    <2>1. /\ Top(t).kind \in {"ensured", "assumed"} /\ pc[t] = "run" /\ gil = t
          /\ count[t] = Top(t).saved + 1
      BY <1>1, <1>11, TopFacts, AfterByKind DEF DropGuard, TopIs, RustRuns
    <2>2. count'[t] = Top(t).saved /\ pc'[t] = "run"
      <3>1. Top(t).saved \in Int
        BY <1>4 DEF Frame
      <3>2. count'[t] = count[t] - 1 /\ pc' = pc
        BY <1>2, <1>11 DEF DropGuard, decrement_gil_count
      <3>3. QED
        BY <2>1, <3>1, <3>2
    <2>3. (gil = t <=> Attached(t))'
      <3>1. CASE Top(t).kind = "ensured" /\ ~Top(t).nested
        BY <1>1, <1>7, <1>11, <2>2, <3>1 DEF DropGuard, Attached
      <3>2. CASE ~(Top(t).kind = "ensured" /\ ~Top(t).nested)
        BY <1>4, <1>7, <1>11, <2>1, <2>2, <3>2 DEF DropGuard, Attached, FirstOK
      <3>3. QED
        BY <3>1, <3>2
    <2>4. QED
      BY <1>2, <1>4, <1>8, <1>11, <2>1, <2>2, <2>3, LocalStep
         DEF DropGuard, decrement_gil_count
  <1>12. CASE RestoreThread(t)
    <2>1. Top(t).kind = "suspend" /\ count[t] = Top(t).saved /\ count[t] > 0
      BY <1>1, <1>3, <1>4, <1>12 DEF RestoreThread, ThreadOK, PcOK, TopIs, CountOK, SavedOK
    <2>2. count'[t] = Top(t).saved /\ pc'[t] = "update" /\ gil' = t /\ gil = NoThread
      BY <1>2, <1>12, <2>1 DEF RestoreThread
    <2>3. stack'[t] # <<>> /\ Top(t)'.kind # "suspend"
      BY <1>4, <1>7, <2>1 DEF FirstOK
    <2>4. CountOK(t)' /\ PcOK(t)' /\ (gil = t <=> Attached(t))'
      BY <1>6, <2>1, <2>2, <2>3 DEF CountOK, PcOK, Attached
    <2>5. QED
      BY <1>2, <1>4, <1>12, <2>2, <2>4, LocalStep DEF RestoreThread
  <1>13. CASE TraverseEnd(t)
    <2>1. Top(t).kind = "traverse" /\ pc[t] = "run" /\ gil = t
      BY <1>1, <1>13, TopFacts DEF TraverseEnd, RustRuns, TopIs
    <2>2. count'[t] = Top(t).saved /\ pc'[t] = "run" /\ gil' = t
      BY <1>2, <1>13, <2>1 DEF TraverseEnd
    <2>3. (gil = t <=> Attached(t))'
      BY <1>4, <1>7, <2>1, <2>2 DEF Attached, FirstOK
    <2>4. QED
      BY <1>2, <1>4, <1>8, <1>13, <2>1, <2>2, <2>3, LocalStep DEF TraverseEnd
  <1>14. CASE DrainEnd(t)
    <2>1. Top(t).kind = "drain" /\ pc[t] = "run" /\ gil = t /\ count[t] = Top(t).saved
      BY <1>1, <1>14, TopFacts, AfterByKind DEF DrainEnd, TopIs
    <2>2. count'[t] = Top(t).saved /\ pc'[t] = "run" /\ gil' = t
      BY <1>14, <2>1 DEF DrainEnd
    <2>3. (gil = t <=> Attached(t))'
      BY <1>4, <1>7, <2>1, <2>2 DEF Attached, FirstOK
    <2>4. QED
      BY <1>2, <1>4, <1>8, <1>14, <2>1, <2>2, <2>3, LocalStep DEF DrainEnd
  <1>15. QED
    BY <1>9, <1>10, <1>11, <1>12, <1>13, <1>14

LEMMA ReferenceSteps ==
  ASSUME GilInv, Types', NEW t \in Threads, References(t)
  PROVE  GilInv'
  <1> USE GilAssumption
  <1>1. Types /\ ThreadOK(t) /\ t # NoThread
    BY DEF GilInv
  <1>2. count \in [Threads -> Int] /\ stack \in [Threads -> Seq(Frame)]
        /\ pc \in [Threads -> {"run", "ensure", "restore", "update", "yielded"}]
    BY <1>1 DEF Types
  <1>3. \* a frame pushed on an attached thread whose count is positive
        ASSUME NEW kind \in {"python", "drain"},
               count[t] > 0, pc[t] \in {"run", "update"}, pc'[t] = "run",
               gil' = gil, count' = count,
               \A u \in Threads \ {t} : pc'[u] = pc[u],
               stack' = [stack EXCEPT ![t] = Append(@, NewFrame(t, kind))]
        PROVE  GilInv'
    <2>1. gil = t /\ stack[t] # <<>> /\ Top(t).kind # "suspend"
          /\ count[t] = After(Top(t))
      BY <1>1, <1>3, TopFacts
    <2>2. AboveOK(Top(t), NewFrame(t, kind)) /\ SavedOK(NewFrame(t, kind))
      BY <1>2, <1>3, <2>1, NewFrameFields DEF AboveOK, SavedOK
    <2>3. Linked(stack'[t]) /\ stack'[t] # <<>> /\ Top(t)' = NewFrame(t, kind)
      BY <1>1, <1>3, <2>1, <2>2, Pushed
    <2>4. CountOK(t)' /\ PcOK(t)' /\ (gil = t <=> Attached(t))'
      BY <1>3, <2>1, <2>3, NewFrameFields, AfterByKind DEF CountOK, PcOK, Attached, TopIs
    <2>5. QED
      BY <1>2, <1>3, <2>3, <2>4, LocalStep
  <1>4. \* a position that returns to Rust code, or nothing at all
        ASSUME pc[t] \in {"run", "update"}, pc'[t] = "run", UNCHANGED <<gil, count, stack>>,
               \A u \in Threads \ {t} : pc'[u] = pc[u]
        PROVE  GilInv'
    <2>1. Linked(stack'[t]) /\ CountOK(t)' /\ PcOK(t)' /\ (gil = t <=> Attached(t))'
      BY <1>1, <1>4 DEF ThreadOK, CountOK, PcOK, Attached, TopIs, Top
    <2>2. QED
      BY <1>4, <2>1, LocalStep
  <1>5. ASSUME NEW h \in Handles, Py_DECREF(t, h), count[t] > 0, pc[t] = "run",
               UNCHANGED <<gil, count, pc>>
        PROVE  GilInv'
    <2>1. \/ UNCHANGED stack
          \/ stack' = [stack EXCEPT ![t] = Append(@, NewFrame(t, "python"))]
      BY <1>5 DEF Py_DECREF
    <2>2. QED
      BY <1>3, <1>4, <1>5, <2>1
  <1>6. ASSUME NEW h \in Handles, NEW new \in Handles, register_incref(t, h, new)
        PROVE  GilInv'
    BY <1>4, <1>6 DEF register_incref, gilVars, RustRuns
  <1>7. ASSUME NEW h \in Handles, register_decref(t, h)
        PROVE  GilInv'
    <2>1. CASE gil_is_acquired(t) /\ Py_DECREF(t, h)
      BY <1>5, <1>7, <2>1 DEF register_decref, RustRuns, gil_is_acquired
    <2>2. CASE UNCHANGED <<refcnt, stack>>
      BY <1>4, <1>7, <2>2 DEF register_decref, RustRuns
    <2>3. QED
      BY <1>7, <2>1, <2>2 DEF register_decref
  <1>8. CASE UpdateCounts(t)
    <2>1. /\ pc[t] = "update" /\ pc'[t] = "run" /\ gil' = gil /\ count' = count
          /\ \A u \in Threads \ {t} : pc'[u] = pc[u]
      BY <1>2, <1>8 DEF UpdateCounts
    <2>2. count[t] > 0
      BY <1>1, <2>1 DEF ThreadOK, PcOK
    <2>3. \/ stack' = stack
          \/ stack' = [stack EXCEPT ![t] = Append(@, NewFrame(t, "drain"))]
      BY <1>8 DEF UpdateCounts
    <2>4. QED
      BY <1>3, <1>4, <2>1, <2>2, <2>3
  <1>9. CASE DrainOne(t)
    <2>1. pc[t] = "run" /\ count[t] > 0
      BY <1>1, <1>9, TopFacts, AfterByKind DEF DrainOne, TopIs, SavedOK
    <2>2. QED
      BY <1>5, <1>9, <2>1 DEF DrainOne
  <1>10. CASE DrainEnd(t)
    BY <1>10, PopSteps
  <1>11. QED
    BY <1>6, <1>7, <1>8, <1>9, <1>10 DEF References

LEMMA PositionSteps ==
  ASSUME GilInv, Types', NEW t \in Threads,
         PyYield(t) \/ PyResume(t) \/ Acquire(t) \/ SuspendDrop(t)
  PROVE  GilInv'
  <1> USE GilAssumption
  <1>1. Types /\ ThreadOK(t) /\ t # NoThread
    BY DEF GilInv
  <1>2. count \in [Threads -> Int] /\ stack \in [Threads -> Seq(Frame)]
        /\ pc \in [Threads -> {"run", "ensure", "restore", "update", "yielded"}]
    BY <1>1 DEF Types
  <1>3. stack' = stack /\ Top(t)' = Top(t) /\ Linked(stack'[t])
    BY <1>1 DEF PyYield, PyResume, Acquire, SuspendDrop, Top, ThreadOK, refVars
  <1>4. CASE PyYield(t)
    <2>1. pc[t] = "run" /\ TopIs(t, {"python"}) /\ gil = t /\ stack[t] # <<>>
          /\ count[t] = Top(t).saved
      BY <1>1, <1>4, TopFacts, AfterByKind DEF PyYield, PythonRuns, TopIs
    <2>2. count' = count /\ pc'[t] = "yielded" /\ gil' = NoThread
      BY <1>2, <1>4 DEF PyYield
    <2>3. CountOK(t)' /\ PcOK(t)' /\ (gil = t <=> Attached(t))'
      BY <1>1, <1>3, <2>1, <2>2, AfterByKind DEF CountOK, PcOK, Attached, TopIs
    <2>4. QED
      BY <1>2, <1>3, <1>4, <2>1, <2>2, <2>3, LocalStep DEF PyYield
  <1>5. CASE PyResume(t)
    <2>1. pc[t] = "yielded" /\ TopIs(t, {"python"}) /\ gil = NoThread
          /\ count[t] = Top(t).saved
      BY <1>1, <1>5, AfterByKind DEF PyResume, ThreadOK, PcOK, CountOK, TopIs
    <2>2. count' = count /\ pc'[t] = "run" /\ gil' = t
      BY <1>2, <1>5 DEF PyResume
    <2>3. CountOK(t)' /\ PcOK(t)' /\ (gil = t <=> Attached(t))'
      BY <1>1, <1>3, <2>1, <2>2, AfterByKind DEF CountOK, PcOK, Attached, TopIs
    <2>4. QED
      BY <1>2, <1>3, <1>5, <2>1, <2>2, <2>3, LocalStep DEF PyResume
  <1>6. CASE Acquire(t)
    <2>1. pc[t] = "run" /\ count' = count /\ pc'[t] = "ensure" /\ gil' = gil
      BY <1>2, <1>6 DEF Acquire, RustRuns, PythonRuns, refVars
    <2>2. CountOK(t)' /\ PcOK(t)' /\ (gil = t <=> Attached(t))'
      BY <1>1, <1>3, <2>1 DEF ThreadOK, CountOK, PcOK, Attached
    <2>3. QED
      BY <1>2, <1>3, <1>6, <2>1, <2>2, LocalStep DEF Acquire
  <1>7. CASE SuspendDrop(t)
    <2>1. pc[t] = "run" /\ TopIs(t, {"suspend"}) /\ gil # t
      BY <1>1, <1>7, TopFacts DEF SuspendDrop, RustRuns, TopIs
    <2>2. count'[t] = Top(t).saved /\ pc'[t] = "restore" /\ gil' = gil
      BY <1>2, <1>7 DEF SuspendDrop
    <2>3. CountOK(t)' /\ PcOK(t)' /\ (gil = t <=> Attached(t))'
      BY <1>3, <2>1, <2>2 DEF CountOK, PcOK, Attached, TopIs
    <2>4. QED
      BY <1>2, <1>3, <1>7, <2>2, <2>3, LocalStep DEF SuspendDrop
  <1>8. QED
    BY <1>4, <1>5, <1>6, <1>7

\* The inductive invariant: the saved counts of a thread's frames form a
\* chain that ends in its GIL_COUNT, and its innermost frame tells whether
\* it has the GIL (gil.rs:146-247, 294-356).
THEOREM GilInvariant == Spec => []GilInv
  <1>1. Init /\ Types => GilInv
    <2> SUFFICES ASSUME Init, Types, NEW t \in Threads PROVE ThreadOK(t)
      BY DEF GilInv
    <2>1. stack[t] = <<>> /\ count[t] = 0 /\ pc[t] = "run" /\ gil # t
      BY GilAssumption DEF Init
    <2>2. Linked(stack[t])
      <3>1. Len(stack[t]) = 0
        BY <2>1
      <3>2. QED
        BY <3>1 DEF Linked
    <2>3. QED
      BY <2>1, <2>2 DEF ThreadOK, CountOK, PcOK, Attached
  <1>2. GilInv /\ Types' /\ [Next]_vars => GilInv'
    <2> SUFFICES ASSUME GilInv, Types', [Next]_vars PROVE GilInv'
      OBVIOUS
    <2>1. ASSUME NEW t \in Threads, Step(t) PROVE GilInv'
      BY <2>1, PushSteps, PopSteps, PositionSteps, ReferenceSteps
         DEF Step, Interpreter, Guards
    <2>2. CASE Finished \/ UNCHANGED vars
      BY <2>2 DEF Finished, vars, GilInv, Types, ThreadOK, CountOK, PcOK, Attached,
                  TopIs, Top
    <2>3. QED
      BY <2>1, <2>2 DEF Next
  <1>3. QED
    BY <1>1, <1>2, TypesPreserved, PTL DEF Spec

\* Rust code whose GIL_COUNT is positive has the GIL (gil.rs:28-37).
THEOREM CountIsSound == Spec => []CountImpliesGil
  <1>1. GilInv => CountImpliesGil
    <2> SUFFICES ASSUME GilInv, NEW t \in Threads, RustRuns(t) \/ pc[t] = "update",
                        gil_is_acquired(t)
                 PROVE  gil = t
      BY DEF CountImpliesGil
    <2>1. QED
      BY TopFacts DEF GilInv, RustRuns, gil_is_acquired
  <1>2. QED
    BY <1>1, GilInvariant, PTL

\* A thread that left its outermost guard has a zero count and not the GIL
\* (gil.rs:235-247, 309-322).
THEOREM IdleReleases == Spec => []IdleIsDetached
  <1>1. GilInv => IdleIsDetached
    BY TopFacts DEF GilInv, IdleIsDetached, Idle
  <1>2. QED
    BY <1>1, GilInvariant, PTL

\* No count but a traversal's is negative (gil.rs:13-26, 399-424).
THEOREM TypeCorrect == Spec => []TypeOK
  <1>1. GilInv => TypeOK
    <2> SUFFICES ASSUME GilInv, NEW t \in Threads
                 PROVE  count[t] \in Nat \cup {LockedDuringTraverse}
      BY DEF GilInv, TypeOK
    <2>1. CountOK(t) /\ count[t] \in Int
      BY DEF GilInv, ThreadOK, Types
    <2>2. CASE stack[t] = <<>>
      BY <2>1, <2>2 DEF CountOK
    <2>3. CASE stack[t] # <<>>
      <3>1. Top(t) \in Frame /\ SavedOK(Top(t))
        BY <2>3, TopFacts DEF GilInv
      <3>2. pc[t] = "restore" => Top(t).kind = "suspend"
        BY DEF GilInv, ThreadOK, PcOK, TopIs
      <3>3. Top(t).saved \in Int
        BY <3>1 DEF Frame
      <3>4. \/ count[t] = Top(t).saved /\ Top(t).kind = "suspend"
            \/ count[t] = After(Top(t))
        BY <2>1, <2>3, <3>2 DEF CountOK
      <3>5. Top(t).kind \in {"ensured", "assumed", "suspend", "traverse", "python", "drain"}
        BY <3>1 DEF Frame, GuardKinds
      <3>6. After(Top(t)) \in Nat \cup {LockedDuringTraverse}
        BY <3>1, <3>3, <3>5 DEF After, SavedOK
      <3>7. Top(t).kind = "suspend" => Top(t).saved \in Nat
        BY <3>1, <3>3 DEF SavedOK
      <3>8. QED
        BY <3>4, <3>6, <3>7
    <2>4. QED
      BY <2>2, <2>3
  <1>2. QED
    BY <1>1, GilInvariant, PTL
-----------------------------------------------------------------------------
(***************************************************************************)
(* References: the count of every object is the number of owned references *)
(* to it, wherever a registered decref happens to be.                      *)
(***************************************************************************)

LEMMA Places ==
  /\ Held # Nowhere
  /\ Pending # Nowhere
  /\ \A t, depth : Taken(t, depth) # Nowhere
  BY DEF Held, Pending, Nowhere, Taken

LEMMA OwnedFinite ==
  ASSUME NEW o PROVE IsFiniteSet(Owned(o)) /\ Cardinality(Owned(o)) \in Nat
  BY GilAssumption, FS_Subset, FS_CardinalityType DEF Owned

\* Applying the decref of one owned reference, and forgetting the reference,
\* keeps every count exact.
LEMMA DecrefExact ==
  ASSUME Types, RefcountExact, NEW t \in Threads, NEW h \in Handles,
         place[h] # Nowhere, Py_DECREF(t, h), target' = target
  PROVE  RefcountExact'
  <1>1. /\ refcnt' = [refcnt EXCEPT ![target[h]] = @ - 1]
        /\ place' = [place EXCEPT ![h] = Nowhere]
    BY DEF Py_DECREF
  <1>2. refcnt \in [Objects -> Int] /\ place \in [Handles -> Place]
        /\ target[h] \in Objects
    BY DEF Types
  <1>3. SUFFICES ASSUME NEW o \in Objects
                 PROVE  refcnt'[o] = Cardinality(Owned(o)')
    BY DEF RefcountExact
  <1>4. refcnt[o] = Cardinality(Owned(o))
    BY DEF RefcountExact
  <1>5. CASE o = target[h]
    <2>1. h \in Owned(o) /\ Owned(o)' = Owned(o) \ {h}
      BY <1>1, <1>2, <1>5 DEF Owned
    <2>2. Cardinality(Owned(o) \ {h}) = Cardinality(Owned(o)) - 1
      BY <2>1, OwnedFinite, FS_RemoveElement
    <2>3. refcnt'[o] = refcnt[o] - 1
      BY <1>1, <1>2, <1>5
    <2>4. QED
      BY <1>4, <2>1, <2>2, <2>3
  <1>6. CASE o # target[h]
    <2>1. Owned(o)' = Owned(o)
      BY <1>1, <1>2, <1>6 DEF Owned
    <2>2. refcnt'[o] = refcnt[o]
      BY <1>1, <1>2, <1>6
    <2>3. QED
      BY <1>4, <2>1, <2>2
  <1>7. QED
    BY <1>5, <1>6

LEMMA IncrefExact ==
  ASSUME Types, RefcountExact, NEW t \in Threads, NEW h \in Handles,
         NEW new \in Handles, register_incref(t, h, new)
  PROVE  RefcountExact'
  <1>1. /\ refcnt' = [refcnt EXCEPT ![target[h]] = @ + 1]
        /\ target' = [target EXCEPT ![new] = target[h]]
        /\ place' = [place EXCEPT ![new] = Held]
        /\ place[new] = Nowhere
    BY DEF register_incref
  <1>2. refcnt \in [Objects -> Int] /\ place \in [Handles -> Place]
        /\ target \in [Handles -> Objects] /\ target[h] \in Objects
    BY DEF Types
  <1>3. SUFFICES ASSUME NEW o \in Objects
                 PROVE  refcnt'[o] = Cardinality(Owned(o)')
    BY DEF RefcountExact
  <1>4. refcnt[o] = Cardinality(Owned(o)) /\ new \notin Owned(o)
    BY <1>1 DEF RefcountExact, Owned
  <1>5. CASE o = target[h]
    <2>1. Owned(o)' = Owned(o) \cup {new}
      BY <1>1, <1>2, <1>5, Places DEF Owned
    <2>2. Cardinality(Owned(o) \cup {new}) = Cardinality(Owned(o)) + 1
      BY <1>4, OwnedFinite, FS_AddElement
    <2>3. refcnt'[o] = refcnt[o] + 1
      BY <1>1, <1>2, <1>5
    <2>4. QED
      BY <1>4, <2>1, <2>2, <2>3
  <1>6. CASE o # target[h]
    <2>1. Owned(o)' = Owned(o)
      BY <1>1, <1>2, <1>6 DEF Owned
    <2>2. refcnt'[o] = refcnt[o]
      BY <1>1, <1>2, <1>6
    <2>3. QED
      BY <1>4, <2>1, <2>2
  <1>7. QED
    BY <1>5, <1>6

\* A reference that only moves - to the pool, or to the thread applying the
\* pool - is counted as before.
LEMMA MoveExact ==
  ASSUME RefcountExact, UNCHANGED <<refcnt, target>>,
         \A h \in Handles : place'[h] = Nowhere <=> place[h] = Nowhere
  PROVE  RefcountExact'
  <1>1. \A o : Owned(o)' = Owned(o)
    BY DEF Owned
  <1>2. QED
    BY <1>1 DEF RefcountExact

\* Reference counts are exact at all times: a decref registered without the
\* GIL is neither lost nor applied twice (gil.rs:266-282, 365-397).
THEOREM RefcountsAreExact == Spec => []RefcountExact
  <1>1. Init => RefcountExact
    <2> SUFFICES ASSUME Init, NEW o \in Objects
                 PROVE  refcnt[o] = Cardinality(Owned(o))
      BY DEF RefcountExact
    <2>1. Owned(o) = {h \in Initial : InitialOf[h] = o}
      BY GilAssumption, Places DEF Init, Owned
    <2>2. QED
      BY <2>1 DEF Init
  <1>2. Types /\ RefcountExact /\ [Next]_vars => RefcountExact'
    <2> SUFFICES ASSUME Types, RefcountExact, [Next]_vars PROVE RefcountExact'
      OBVIOUS
    <2>1. CASE UNCHANGED refVars
      BY <2>1, MoveExact DEF refVars
    <2>2. ASSUME NEW t \in Threads, References(t) PROVE RefcountExact'
      <3>1. ASSUME NEW h \in Handles, NEW new \in Handles, register_incref(t, h, new)
            PROVE  RefcountExact'
        BY <3>1, IncrefExact
      <3>2. ASSUME NEW h \in Handles, register_decref(t, h)
            PROVE  RefcountExact'
        <4>1. place[h] # Nowhere /\ target' = target
          BY <3>2, Places DEF register_decref
        <4>2. CASE Py_DECREF(t, h)
          BY <4>1, <4>2, DecrefExact
        <4>3. CASE place' = [place EXCEPT ![h] = Pending] /\ UNCHANGED <<refcnt, stack>>
          <5>1. \A g \in Handles : place'[g] = Nowhere <=> place[g] = Nowhere
            BY <4>1, <4>3, Places DEF Types
          <5>2. QED
            BY <4>1, <4>3, <5>1, MoveExact
        <4>4. QED
          BY <3>2, <4>2, <4>3 DEF register_decref
      <3>3. CASE UpdateCounts(t)
        <4>1. \/ place' = place
              \/ place' = [h \in Handles |->
                             IF h \in {g \in Handles : place[g] = Pending}
                             THEN Taken(t, Len(stack[t]) + 1) ELSE place[h]]
          BY <3>3 DEF UpdateCounts
        <4>2. \A g \in Handles : place'[g] = Nowhere <=> place[g] = Nowhere
          BY <4>1, Places
        <4>3. QED
          BY <3>3, <4>2, MoveExact DEF UpdateCounts
      <3>4. CASE DrainOne(t)
        <4>1. PICK h \in Handles : place[h] = Taken(t, Len(stack[t])) /\ Py_DECREF(t, h)
          BY <3>4 DEF DrainOne
        <4>2. place[h] # Nowhere /\ target' = target
          BY <3>4, <4>1, Places DEF DrainOne
        <4>3. QED
          BY <4>1, <4>2, DecrefExact
      <3>5. CASE DrainEnd(t)
        BY <2>1, <3>5 DEF DrainEnd
      <3>6. QED
        BY <2>2, <3>1, <3>2, <3>3, <3>4, <3>5 DEF References
    <2>3. ASSUME NEW t \in Threads, Interpreter(t) \/ Guards(t) PROVE RefcountExact'
      BY <2>1, <2>3
         DEF Interpreter, PyThreadStart, CallPython, PyReturn, PyYield, PyResume,
             Guards, Assume, Acquire, Ensure, EnsureBails, DropGuard, SuspendNew,
             SuspendDrop, RestoreThread, TraverseBegin, TraverseEnd
    <2>4. CASE Finished \/ UNCHANGED vars
      BY <2>1, <2>4 DEF Finished, vars, refVars
    <2>5. QED
      BY <2>2, <2>3, <2>4 DEF Next, Step
  <1>3. QED
    BY <1>1, <1>2, TypesPreserved, PTL DEF Spec

-----------------------------------------------------------------------------
\* Which thread changes a reference count, and what it had to do with it.
LEMMA CountChanges ==
  ASSUME GilInv, NEW t \in Threads, Step(t), NEW o \in Objects,
         refcnt'[o] # refcnt[o]
  PROVE  /\ gil = t /\ gil' = t
         /\ \/ \E h, new \in Handles : register_incref(t, h, new)
            \/ \E h \in Handles : Py_DECREF(t, h) /\ place[h] # Nowhere
  <1>1. Types /\ ThreadOK(t)
    BY DEF GilInv
  <1>2. ~UNCHANGED refcnt
    OBVIOUS
  <1>3. \/ \E h, new \in Handles : register_incref(t, h, new)
        \/ \E h \in Handles : register_decref(t, h) /\ gil_is_acquired(t) /\ Py_DECREF(t, h)
        \/ DrainOne(t)
    <2>1. ~Interpreter(t)
      BY <1>2 DEF Interpreter, PyThreadStart, CallPython, PyReturn, PyYield, PyResume,
                  refVars
    <2>2. ~Guards(t)
      BY <1>2 DEF Guards, Assume, Acquire, Ensure, EnsureBails, DropGuard, SuspendNew,
                  SuspendDrop, RestoreThread, TraverseBegin, TraverseEnd, refVars
    <2>3. ~UpdateCounts(t) /\ ~DrainEnd(t)
      BY <1>2 DEF UpdateCounts, DrainEnd, refVars
    <2>4. QED
      BY <1>2, <2>1, <2>2, <2>3 DEF Step, References, register_decref
  <1>4. CASE \E h, new \in Handles : register_incref(t, h, new)
    <2>1. RustRuns(t) /\ count[t] > 0 /\ gil' = gil
      BY <1>4 DEF register_incref, gilVars, gil_is_acquired
    <2>2. QED
      BY <1>1, <1>4, <2>1, TopFacts DEF RustRuns
  <1>5. CASE \E h \in Handles :
               register_decref(t, h) /\ gil_is_acquired(t) /\ Py_DECREF(t, h)
    <2>1. PICK h \in Handles :
            register_decref(t, h) /\ gil_is_acquired(t) /\ Py_DECREF(t, h)
      BY <1>5
    <2>2. RustRuns(t) /\ count[t] > 0 /\ gil' = gil /\ place[h] # Nowhere
      BY <2>1, Places DEF register_decref, gil_is_acquired
    <2>3. QED
      BY <1>1, <2>1, <2>2, TopFacts DEF RustRuns
  <1>6. CASE DrainOne(t)
    <2>1. PICK h \in Handles : place[h] = Taken(t, Len(stack[t])) /\ Py_DECREF(t, h)
      BY <1>6 DEF DrainOne
    <2>2. gil = t /\ gil' = gil /\ place[h] # Nowhere
      BY <1>1, <1>6, <2>1, TopFacts, Places DEF DrainOne, TopIs
    <2>3. QED
      BY <2>1, <2>2
  <1>7. QED
    BY <1>3, <1>4, <1>5, <1>6

\* The thread that changes a reference count has the GIL, before and after
\* (gil.rs:358-397).
THEOREM RefcountsNeedTheGil == Spec => RefcountUnderGil
  <1>1. GilInv /\ [Next]_vars =>
          [\A o \in Objects : refcnt'[o] # refcnt[o] =>
             \A t \in Threads : Step(t) => gil = t /\ gil' = t]_vars
    <2> SUFFICES ASSUME GilInv, NEW o \in Objects, refcnt'[o] # refcnt[o],
                        NEW t \in Threads, Step(t)
                 PROVE  gil = t /\ gil' = t
      OBVIOUS
    <2>1. QED
      BY CountChanges
  <1>2. QED
    BY <1>1, GilInvariant, PTL DEF Spec, RefcountUnderGil

\* An object no reference to which is left stays so (gil.rs:358-371).
THEOREM DeadObjectsStayDead == Spec => NoResurrection
  <1>1. GilInv /\ RefcountExact /\ [Next]_vars =>
          [\A o \in Objects : refcnt[o] = 0 => refcnt'[o] = 0]_vars
    <2> SUFFICES ASSUME GilInv, RefcountExact, [Next]_vars,
                        NEW o \in Objects, refcnt[o] = 0, refcnt'[o] # 0
                 PROVE  FALSE
      OBVIOUS
    <2>1. PICK t \in Threads : Step(t)
      BY DEF Next, Finished, vars
    <2>2. Owned(o) = {}
      <3>1. Cardinality(Owned(o)) = 0
        BY DEF RefcountExact
      <3>2. QED
        BY <3>1, OwnedFinite, FS_EmptySet
    <2>3. \A h \in Handles : place[h] # Nowhere => target[h] # o
      BY <2>2 DEF Owned
    <2>4. refcnt \in [Objects -> Int]
      BY DEF GilInv, Types
    <2>5. CASE \E h, new \in Handles : register_incref(t, h, new)
      <3>1. PICK h \in Handles : /\ refcnt' = [refcnt EXCEPT ![target[h]] = @ + 1]
                                 /\ place[h] # Nowhere
        BY <2>5, Places DEF register_incref
      <3>2. QED
        BY <2>3, <2>4, <3>1
    <2>6. CASE \E h \in Handles : Py_DECREF(t, h) /\ place[h] # Nowhere
      <3>1. PICK h \in Handles : /\ refcnt' = [refcnt EXCEPT ![target[h]] = @ - 1]
                                 /\ place[h] # Nowhere
        BY <2>6 DEF Py_DECREF
      <3>2. QED
        BY <2>3, <2>4, <3>1
    <2>7. QED
      BY <2>1, <2>5, <2>6, CountChanges
  <1>2. QED
    BY <1>1, GilInvariant, RefcountsAreExact, PTL DEF Spec, NoResurrection
=============================================================================
