---------------------------- MODULE LazyTypeProof ----------------------------
(***************************************************************************)
(* The type object of a #[pyclass], for any threads, any class attributes  *)
(* and any depth of calls.  Type correctness and what the list of          *)
(* initializing threads says are inductive together; that a served type is *)
(* filled needs the list, as a reentrant call is told by it.               *)
(***************************************************************************)
EXTENDS LazyType, TLAPS

\* Type correctness, with the calls as sequences of any length.
LazyTypes ==
  /\ gil \in Threads \cup {NoThread}
  /\ value \in BOOLEAN
  /\ initializing_threads \subseteq Threads
  /\ tp_dict_filled \in BOOLEAN
  /\ tp_dict \in [ToSet(Attrs) -> Threads \cup {NoThread}]
  /\ calls \in [Threads -> Seq(0..Len(Attrs))]
  /\ served \subseteq Threads
  /\ ops \in [Threads -> 0..MaxOps]

BoundedCalls == \A t \in Threads : Len(calls[t]) <= MaxCalls

CreatedFirst == ~value => \A t \in Threads : calls[t] = <<>>

LazyInv ==
  /\ LazyTypes
  /\ BoundedCalls
  /\ CreatedFirst
  /\ NoStaleThread
  /\ ServedIsFilled
  /\ DictIsWhole

\* One call more, one call less, and one attribute computed.
LEMMA CallStack ==
  ASSUME NEW s \in Seq(0..Len(Attrs))
  PROVE  /\ Len(s) \in Nat /\ 0 <= Len(Attrs)
         /\ Append(s, 0) \in Seq(0..Len(Attrs))
         /\ Len(Append(s, 0)) = Len(s) + 1 /\ Append(s, 0) # <<>>
         /\ s # <<>> =>
              /\ Front(s) \in Seq(0..Len(Attrs))
              /\ Len(Front(s)) = Len(s) - 1
              /\ Last(s) \in 0..Len(Attrs)
              /\ Last(s) < Len(Attrs) =>
                   LET s1 == [s EXCEPT ![Len(s)] = @ + 1]
                   IN  s1 \in Seq(0..Len(Attrs)) /\ Len(s1) = Len(s) /\ s1 # <<>>
  <1>1. Len(Attrs) \in Nat /\ Len(s) \in Nat
    BY LazyAssumption DEF LazyAssumption
  <1>2. /\ Append(s, 0) \in Seq(0..Len(Attrs))
        /\ Len(Append(s, 0)) = Len(s) + 1 /\ Append(s, 0) # <<>>
    BY <1>1
  <1>3. ASSUME s # <<>>
        PROVE  /\ Front(s) \in Seq(0..Len(Attrs)) /\ Len(Front(s)) = Len(s) - 1
               /\ Last(s) \in 0..Len(Attrs)
    <2>1. Len(s) \in 1..Len(s) /\ \A i \in 1..Len(s) : s[i] \in 0..Len(Attrs)
      BY <1>1, <1>3
    <2>2. ASSUME NEW n \in Nat, n <= Len(s)
          PROVE  SubSeq(s, 1, n) \in Seq(0..Len(Attrs)) /\ Len(SubSeq(s, 1, n)) = n
      BY <2>2
    <2>3. Len(s) - 1 \in Nat /\ Len(s) - 1 <= Len(s)
      BY <1>1, <2>1
    <2>4. QED
      BY <1>1, <2>1, <2>2, <2>3 DEF Front, Last
  <1>4. ASSUME s # <<>>, Last(s) < Len(Attrs)
        PROVE  LET s1 == [s EXCEPT ![Len(s)] = @ + 1]
               IN  s1 \in Seq(0..Len(Attrs)) /\ Len(s1) = Len(s) /\ s1 # <<>>
    <2>1. Len(s) \in 1..Len(s) /\ s[Len(s)] + 1 \in 0..Len(Attrs)
      BY <1>1, <1>3, <1>4 DEF Last
    <2>2. QED
      BY <1>1, <1>4, <2>1
  <1>5. QED
    BY <1>1, <1>2, <1>3, <1>4

LEMMA InitLazy == Init => LazyInv
  <1>. SUFFICES ASSUME Init PROVE LazyInv
    OBVIOUS
  <1>1. LazyTypes
    <2>1. calls \in [Threads -> Seq(0..Len(Attrs))]
      BY DEF Init
    <2>2. ops \in [Threads -> 0..MaxOps]
      BY LazyAssumption DEF Init, LazyAssumption
    <2>3. tp_dict \in [ToSet(Attrs) -> Threads \cup {NoThread}]
      BY DEF Init
    <2>4. QED
      BY <2>1, <2>2, <2>3 DEF Init, LazyTypes
  <1>2. BoundedCalls
    <2>1. \A t \in Threads : calls[t] = <<>>
      BY DEF Init
    <2>2. Len(<<>>) = 0 /\ 0 <= MaxCalls
      BY LazyAssumption DEF LazyAssumption
    <2>3. QED
      BY <2>1, <2>2 DEF BoundedCalls
  <1>3. QED
    BY <1>1, <1>2 DEF Init, LazyInv, CreatedFirst, NoStaleThread, ServedIsFilled, DictIsWhole

\* A step of one thread changes only its own calls: what the invariant says of
\* the others carries over.
LEMMA StackSteps ==
  ASSUME LazyTypes, BoundedCalls, NEW t \in Threads, NEW s \in Seq(0..Len(Attrs)),
         Len(s) <= MaxCalls, calls' = [calls EXCEPT ![t] = s]
  PROVE  /\ calls' \in [Threads -> Seq(0..Len(Attrs))]
         /\ BoundedCalls'
         /\ calls'[t] = s /\ \A u \in Threads \ {t} : calls'[u] = calls[u]
  BY DEF LazyTypes, BoundedCalls

\* The steps of user code and of the interpreter.
LEMMA UserKeeps ==
  ASSUME LazyInv, NEW t \in Threads, Yield(t) \/ Resume(t) \/ CreateFails(t)
  PROVE  LazyInv'
  <1>1. UNCHANGED <<typeVars, calls, served>> /\ gil' \in Threads \cup {NoThread}
    BY DEF Yield, Resume, CreateFails, SuspendGIL, RestoreGIL, LazyInv, LazyTypes
  <1>2. ops' \in [Threads -> 0..MaxOps]
    BY LazyAssumption DEF Yield, Resume, CreateFails, SuspendGIL, RestoreGIL, Op, LazyInv, LazyTypes, LazyAssumption
  <1>3. LazyTypes'
    BY <1>1, <1>2 DEF LazyInv, LazyTypes, typeVars
  <1>4. QED
    BY <1>1, <1>3 DEF LazyInv, BoundedCalls, CreatedFirst, NoStaleThread, ServedIsFilled,
                      DictIsWhole, typeVars

LEMMA CallKeeps ==
  ASSUME LazyInv, NEW t \in Threads, Call(t)
  PROVE  LazyInv'
  <1>1. ops' \in [Threads -> 0..MaxOps]
    BY LazyAssumption DEF Call, Op, LazyInv, LazyTypes, LazyAssumption
  <1>2. calls[t] \in Seq(0..Len(Attrs)) /\ value' = TRUE /\ UNCHANGED <<gil, tp_dict_filled, tp_dict>>
    BY DEF Call, LazyInv, LazyTypes
  <1>3. CASE tp_dict_filled \/ t \in initializing_threads
    <2>1. UNCHANGED <<initializing_threads, calls>>
          /\ served' = served \cup (IF calls[t] = <<>> THEN {t} ELSE {})
      BY <1>3 DEF Call
    <2>2. served' # {} => tp_dict_filled
      BY <1>3, <2>1 DEF LazyInv, NoStaleThread, ServedIsFilled
    <2>3. LazyTypes'
      BY <1>1, <1>2, <2>1 DEF LazyInv, LazyTypes
    <2>4. QED
      BY <1>2, <2>1, <2>2, <2>3 DEF LazyInv, BoundedCalls, CreatedFirst, NoStaleThread,
                                    ServedIsFilled, DictIsWhole
  <1>4. CASE ~(tp_dict_filled \/ t \in initializing_threads)
    <2>. DEFINE s == Append(calls[t], 0)
    <2>1. /\ Len(calls[t]) < MaxCalls
          /\ initializing_threads' = initializing_threads \cup {t}
          /\ calls' = [calls EXCEPT ![t] = s]
          /\ UNCHANGED served
      BY <1>4 DEF Call
    <2>2. s \in Seq(0..Len(Attrs)) /\ s # <<>> /\ Len(s) <= MaxCalls
      <3>1. /\ Len(calls[t]) \in Nat /\ s \in Seq(0..Len(Attrs))
            /\ Len(s) = Len(calls[t]) + 1 /\ s # <<>>
        BY <1>2, CallStack
      <3>. HIDE DEF s
      <3>2. QED
        BY <2>1, <3>1, LazyAssumption DEF LazyAssumption
    <2>. HIDE DEF s
    <2>3. /\ calls' \in [Threads -> Seq(0..Len(Attrs))] /\ BoundedCalls'
          /\ calls'[t] = s /\ \A u \in Threads \ {t} : calls'[u] = calls[u]
      BY <2>1, <2>2, StackSteps DEF LazyInv
    <2>4. NoStaleThread'
      BY <2>1, <2>2, <2>3 DEF LazyInv, LazyTypes, NoStaleThread
    <2>5. LazyTypes'
      BY <1>1, <1>2, <2>1, <2>3 DEF LazyInv, LazyTypes
    <2>6. QED
      BY <1>2, <2>1, <2>3, <2>4, <2>5 DEF LazyInv, CreatedFirst, ServedIsFilled, DictIsWhole
  <1>5. QED
    BY <1>3, <1>4

LEMMA AttrReturnsKeeps ==
  ASSUME LazyInv, NEW t \in Threads, AttrReturns(t)
  PROVE  LazyInv'
  <1>. DEFINE s == [calls[t] EXCEPT ![Len(calls[t])] = @ + 1]
  <1>1. /\ calls[t] \in Seq(0..Len(Attrs)) /\ Len(calls[t]) <= MaxCalls
        /\ calls[t] # <<>> /\ Last(calls[t]) < Len(Attrs)
        /\ calls' = [calls EXCEPT ![t] = s]
        /\ UNCHANGED <<gil, typeVars, served, ops>>
    BY DEF AttrReturns, Computed, LazyInv, LazyTypes, BoundedCalls
  <1>2. s \in Seq(0..Len(Attrs)) /\ Len(s) = Len(calls[t]) /\ s # <<>>
    BY <1>1, CallStack
  <1>. HIDE DEF s
  <1>3. /\ calls' \in [Threads -> Seq(0..Len(Attrs))] /\ BoundedCalls'
        /\ calls'[t] = s /\ \A u \in Threads \ {t} : calls'[u] = calls[u]
    BY <1>1, <1>2, StackSteps DEF LazyInv
  <1>4. LazyTypes' /\ NoStaleThread'
    BY <1>1, <1>2, <1>3 DEF LazyInv, LazyTypes, NoStaleThread, typeVars
  <1>5. value
    BY <1>1 DEF LazyInv, CreatedFirst
  <1>6. QED
    BY <1>1, <1>3, <1>4, <1>5 DEF LazyInv, CreatedFirst, ServedIsFilled, DictIsWhole, typeVars

\* A call that ends, in whatever way, leaves the list.
LEMMA PopKeeps ==
  ASSUME LazyInv, NEW t \in Threads, calls[t] # <<>>,
         calls' = [calls EXCEPT ![t] = Front(@)],
         initializing_threads' \subseteq initializing_threads \ {t},
         UNCHANGED <<gil, value, ops>>, served' \subseteq Threads,
         tp_dict_filled' \in BOOLEAN,
         tp_dict' \in [ToSet(Attrs) -> Threads \cup {NoThread}],
         ServedIsFilled', DictIsWhole'
  PROVE  LazyInv'
  <1>. DEFINE s == Front(calls[t])
  <1>1. calls[t] \in Seq(0..Len(Attrs)) /\ Len(calls[t]) <= MaxCalls
        /\ calls' = [calls EXCEPT ![t] = s]
    BY DEF LazyInv, LazyTypes, BoundedCalls
  <1>2. s \in Seq(0..Len(Attrs)) /\ Len(s) = Len(calls[t]) - 1 /\ Len(calls[t]) \in Nat
    BY <1>1, CallStack
  <1>. HIDE DEF s
  <1>3. Len(s) <= MaxCalls
    BY <1>1, <1>2, LazyAssumption DEF LazyAssumption
  <1>4. /\ calls' \in [Threads -> Seq(0..Len(Attrs))] /\ BoundedCalls'
        /\ calls'[t] = s /\ \A u \in Threads \ {t} : calls'[u] = calls[u]
    BY <1>1, <1>2, <1>3, StackSteps DEF LazyInv
  <1>5. LazyTypes' /\ NoStaleThread'
    BY <1>4 DEF LazyInv, LazyTypes, NoStaleThread
  <1>6. value
    BY DEF LazyInv, CreatedFirst
  <1>7. QED
    BY <1>4, <1>5, <1>6 DEF LazyInv, CreatedFirst

LEMMA FillKeeps ==
  ASSUME LazyInv, NEW t \in Threads, NEW n \in 0..Len(Attrs), Fill(t, n)
  PROVE  LazyInv'
  <1>1. /\ calls[t] # <<>> /\ ~tp_dict_filled
        /\ tp_dict' = [a \in ToSet(Attrs) |-> IF \E i \in 1..n : Attrs[i] = a THEN t ELSE tp_dict[a]]
        /\ initializing_threads' = {}
        /\ UNCHANGED <<gil, value, ops>>
    BY DEF Fill, AttrsDone
  <1>2. tp_dict' \in [ToSet(Attrs) -> Threads \cup {NoThread}] /\ served \subseteq Threads
    BY <1>1 DEF LazyInv, LazyTypes
  <1>3. CASE n = Len(Attrs)
    <2>1. /\ tp_dict_filled' = TRUE /\ calls' = [calls EXCEPT ![t] = Front(@)]
          /\ served' \subseteq Threads
      BY <1>2, <1>3 DEF Fill, Return
    <2>2. \A a \in ToSet(Attrs) : \E i \in 1..n : Attrs[i] = a
      BY <1>3, LazyAssumption DEF LazyAssumption, ToSet
    <2>3. DictIsWhole' /\ ServedIsFilled'
      BY <1>1, <2>1, <2>2 DEF DictIsWhole, ServedIsFilled
    <2>4. QED
      BY <1>1, <1>2, <2>1, <2>3, PopKeeps
  <1>4. CASE n # Len(Attrs)
    <2>1. calls' = [calls EXCEPT ![t] = Front(@)] /\ UNCHANGED <<tp_dict_filled, served>>
      BY <1>4 DEF Fill
    <2>2. DictIsWhole' /\ ServedIsFilled' /\ tp_dict_filled' \in BOOLEAN
      BY <1>1, <2>1 DEF DictIsWhole, ServedIsFilled, LazyInv, LazyTypes
    <2>3. QED
      BY <1>1, <1>2, <2>1, <2>2, PopKeeps
  <1>5. QED
    BY <1>3, <1>4

LEMMA StepLazy == LazyInv /\ [Next]_vars => LazyInv'
  <1>. SUFFICES ASSUME LazyInv, [Next]_vars PROVE LazyInv'
    OBVIOUS
  <1>1. CASE UNCHANGED vars
    BY <1>1 DEF vars, LazyInv, LazyTypes, BoundedCalls, CreatedFirst, NoStaleThread,
                ServedIsFilled, DictIsWhole
  <1>2. ASSUME NEW t \in Threads, AttrFails(t) PROVE LazyInv'
    <2>1. /\ calls[t] # <<>> /\ calls' = [calls EXCEPT ![t] = Front(@)]
          /\ initializing_threads' = initializing_threads \ {t}
          /\ UNCHANGED <<gil, value, tp_dict_filled, tp_dict, served, ops>>
      BY <1>2 DEF AttrFails, DropGuard
    <2>2. /\ served' \subseteq Threads /\ tp_dict_filled' \in BOOLEAN
          /\ tp_dict' \in [ToSet(Attrs) -> Threads \cup {NoThread}]
          /\ ServedIsFilled' /\ DictIsWhole'
      BY <2>1 DEF LazyInv, LazyTypes, ServedIsFilled, DictIsWhole
    <2>3. QED
      BY <2>1, <2>2, PopKeeps
  <1>3. ASSUME NEW t \in Threads, FoundFilled(t) PROVE LazyInv'
    <2>1. /\ calls[t] # <<>> /\ tp_dict_filled
          /\ calls' = [calls EXCEPT ![t] = Front(@)]
          /\ served' = served \cup (IF Len(calls[t]) = 1 THEN {t} ELSE {})
          /\ initializing_threads' = initializing_threads \ {t}
          /\ UNCHANGED <<gil, value, tp_dict_filled, tp_dict, ops>>
      BY <1>3 DEF FoundFilled, AttrsDone, DropGuard, Return
    <2>2. /\ served' \subseteq Threads /\ tp_dict_filled' \in BOOLEAN
          /\ tp_dict' \in [ToSet(Attrs) -> Threads \cup {NoThread}]
          /\ ServedIsFilled' /\ DictIsWhole'
      BY <2>1 DEF LazyInv, LazyTypes, ServedIsFilled, DictIsWhole
    <2>3. QED
      BY <2>1, <2>2, PopKeeps
  <1>4. QED
    BY <1>1, <1>2, <1>3, UserKeeps, CallKeeps, AttrReturnsKeeps, FillKeeps DEF Next, Step, Finished

-----------------------------------------------------------------------------
\* The inductive invariant holds, whichever threads initialize, yield, fail and
\* call again.
THEOREM LazyInvariant == Spec => []LazyInv
  BY InitLazy, StepLazy, PTL DEF Spec

\* The variables have their types, and nothing happens before the type object
\* exists.
THEOREM LazyTypeCorrect == Spec => []TypeOK
  <1>1. LazyInv => TypeOK
    <2>. SUFFICES ASSUME LazyInv PROVE TypeOK
      OBVIOUS
    <2>1. ASSUME NEW t \in Threads PROVE calls[t] \in SeqOf(0..Len(Attrs), MaxCalls)
      <3>1. calls[t] \in Seq(0..Len(Attrs)) /\ Len(calls[t]) <= MaxCalls
        BY DEF LazyInv, LazyTypes, BoundedCalls
      <3>2. Len(calls[t]) \in 0..MaxCalls /\ calls[t] \in [1..Len(calls[t]) -> 0..Len(Attrs)]
        BY <3>1, LazyAssumption DEF LazyAssumption
      <3>3. QED
        BY <3>2 DEF SeqOf
    <2>2. QED
      BY <2>1 DEF LazyInv, LazyTypes, CreatedFirst, TypeOK
  <1>2. QED
    BY <1>1, LazyInvariant, PTL

\* A thread is on the list only while one of its calls is running
\* (lazy_type_object.rs:119-144, 182-193).
THEOREM NobodyIsStale == Spec => []NoStaleThread
  BY LazyInvariant, PTL DEF LazyInv

\* An outermost call returns the type with its dictionary filled, or fails
\* (lazy_type_object.rs:103-117).
THEOREM OutermostCallsGetItFilled == Spec => []ServedIsFilled
  BY LazyInvariant, PTL DEF LazyInv

\* All attributes of a filled type come from one thread's computation
\* (lazy_type_object.rs:107-108, 146-149).
THEOREM DictIsOneThreads == Spec => []DictIsWhole
  BY LazyInvariant, PTL DEF LazyInv

\* A filled dictionary never changes again (lazy_type_object.rs:182-193).
THEOREM FilledStaysFilled == Spec => FilledIsFinal
  <1>1. [Next]_vars => [tp_dict_filled => tp_dict_filled' /\ UNCHANGED tp_dict]_vars
    BY DEF Next, Step, Finished, Yield, Resume, CreateFails, Call, AttrReturns, AttrFails,
           FoundFilled, Fill, AttrsDone, typeVars, vars
  <1>2. QED
    BY <1>1, PTL DEF Spec, FilledIsFinal
=============================================================================
