---------------------------- MODULE UncheckedProof ----------------------------
(***************************************************************************)
(* The list iterator, the borrow flag, the free list and the dict iterator *)
(* of the fork, each for every value of its constants.  They share nothing *)
(* but what is asked of them: that code without a check never meets what   *)
(* it assumes away.                                                        *)
(*                                                                         *)
(* The list iterator.  Until a sum wraps, which it never does in a build   *)
(* with overflow checks, the window index..length-1 lies within the first  *)
(* length of the list and what was returned or passed over lies outside    *)
(* it.  Every call is then one of four moves: take an item at or after the *)
(* front, take one at or before the back, pass over some at the front,     *)
(* pass over some at the back.                                             *)
(*                                                                         *)
(* The borrow flag.  The counting rests on the facts about Cardinality;    *)
(* what a thread read earlier (value) plays no part, because the exchange  *)
(* compares it with the flag.                                              *)
(*                                                                         *)
(* The free list.  The slots below split hold blocks, each of them one     *)
(* block and no two the same, and a block is in one of them exactly if its *)
(* place is the list: so what is popped was in use by nobody.              *)
(*                                                                         *)
(* The dict iterator.  What was returned and what the two counts say is    *)
(* left make up the dict the iterator was made for (DictCounts), and as    *)
(* long as nobody changed the dict, the keys from the position on are what *)
(* is left (StillWhole).  That the walk finds the next of them, whatever   *)
(* holes lie before it, is an induction over the table, on its least slot. *)
(***************************************************************************)
EXTENDS ListIterator, PyCell, FreeList, DictIterator, TLAPS, FiniteSetTheorems,
        SequenceTheorems, WellFoundedInduction

-----------------------------------------------------------------------------
(* The list iterator                                                      *)

Outside(position) == position \in 0..(first - 1) /\ position \notin index..(length - 1)

\* What the arithmetic keeps as long as it is exact.
WindowInv ==
  /\ ListTypeOK
  /\ index =< length
  /\ length =< first
  /\ \A i \in DOMAIN yielded : Outside(yielded[i])
  /\ \A p \in skipped : Outside(p)
  /\ still => listLen = first
  /\ ReadsAreInBounds
  /\ EachPositionOnce
  /\ LenIsABound

\* Once a sum wrapped, only the types are left, and this never happens where
\* overflow panics.
ListInv ==
  /\ ListTypeOK
  /\ overflow_checks => ~wrapped
  /\ ~wrapped => WindowInv

\* The four moves.
TakeFront(t) ==
  /\ t \in index..(CurrentLength - 1)
  /\ Yield(t)
  /\ index' = t + 1
  /\ skipped' = skipped \union index..(t - 1)
  /\ UNCHANGED <<length, wrapped>>
TakeBack(t) ==
  /\ t \in index..(CurrentLength - 1)
  /\ Yield(t)
  /\ length' = t
  /\ skipped' = skipped \union (t + 1)..(CurrentLength - 1)
  /\ UNCHANGED <<index, wrapped>>
PassFront(t) ==
  /\ t \in index..CurrentLength
  /\ read' = NoRead
  /\ index' = t
  /\ skipped' = skipped \union index..(t - 1)
  /\ UNCHANGED <<listLen, length, build, yielded, first, still, wrapped>>
PassBack(t) ==
  /\ t \in index..CurrentLength
  /\ read' = NoRead
  /\ length' = t
  /\ skipped' = skipped \union t..(CurrentLength - 1)
  /\ UNCHANGED <<listLen, index, build, yielded, first, still, wrapped>>

LEMMA WrappedStays ==
  ASSUME NEW n \in Usize PROVE Wrapped(n) = n
  BY ListIteratorAssumption DEF Wrapped, Usize

LEMMA CurrentLengthBounds ==
  ASSUME WindowInv
  PROVE  /\ CurrentLength \in Nat /\ CurrentLength =< length /\ CurrentLength =< listLen
         /\ still => CurrentLength = length
  BY DEF WindowInv, ListTypeOK, CurrentLength, Usize

LEMMA InitHolds == ListInit => ListInv
<1> SUFFICES ASSUME ListInit PROVE ListInv
  OBVIOUS
<1>1. ListTypeOK
  <2>1. 0..MaxLen \subseteq Usize /\ 0 \in Usize /\ <<>> \in Seq(Usize)
    BY ListIteratorAssumption DEF Usize
  <2> QED
    BY <2>1 DEF ListInit, ListTypeOK
<1>2. ReadsAreInBounds /\ LenIsABound
  BY ListIteratorAssumption DEF ListInit, ReadsAreInBounds, LenIsABound, IterLen, NoRead
<1>3. EachPositionOnce
  BY ListIteratorAssumption DEF ListInit, EachPositionOnce
<1> QED
  BY <1>1, <1>2, <1>3, ListIteratorAssumption DEF ListInit, ListInv, WindowInv, Usize

\* Which of the four moves a call is that leaves the arithmetic exact.
LEMMA CallsAreMoves ==
  ASSUME WindowInv, ~wrapped, ~wrapped',
         \/ next_unchecked \/ next_back_unchecked
         \/ \E n \in Usize : nth(n) \/ nth_back(n) \/ advance_by(n) \/ advance_back_by(n)
  PROVE  \/ \E t \in Int : TakeFront(t) \/ TakeBack(t) \/ PassFront(t) \/ PassBack(t)
         \/ YieldNone
<1> USE CurrentLengthBounds
<1>0. index \in Nat /\ length \in Nat /\ index =< length
  BY DEF WindowInv, ListTypeOK, Usize
<1>1. CASE next_unchecked
  <2>1. CASE index < CurrentLength
    <3>1. index..(index - 1) = {}
      BY <1>0
    <3>2. TakeFront(index)
      BY <1>0, <1>1, <2>1, <3>1 DEF next_unchecked, TakeFront
    <3> QED
      BY <1>0, <3>2
  <2>2. CASE ~(index < CurrentLength)
    BY <1>1, <2>2 DEF next_unchecked
  <2> QED
    BY <2>1, <2>2
<1>2. CASE next_back_unchecked
  <2>1. CASE index < CurrentLength
    <3>1. (CurrentLength - 1 + 1)..(CurrentLength - 1) = {}
      BY <1>0
    <3>2. TakeBack(CurrentLength - 1)
      BY <1>0, <1>2, <2>1, <3>1 DEF next_back_unchecked, TakeBack
    <3> QED
      BY <1>0, <3>2
  <2>2. CASE ~(index < CurrentLength)
    BY <1>2, <2>2 DEF next_back_unchecked
  <2> QED
    BY <2>1, <2>2
<1>3. ASSUME NEW n \in Usize, nth(n)
      PROVE  (\E t \in Int : TakeFront(t)) \/ YieldNone
  <2>1. CASE ~Overflows(index + n) /\ Wrapped(index + n) < CurrentLength
    <3>1. index + n \in Usize /\ UNCHANGED wrapped
      <4>1. wrapped' = (wrapped \/ index + n \notin Usize)
        BY <1>3, <2>1 DEF nth
      <4>2. wrapped = FALSE /\ wrapped' = FALSE
        BY <4>1 DEF WindowInv, ListTypeOK
      <4> QED
        BY <4>1, <4>2
    <3>2. Wrapped(index + n) = index + n
      BY <3>1, WrappedStays
    <3>3. TakeFront(index + n)
      BY <1>0, <1>3, <2>1, <3>1, <3>2 DEF nth, TakeFront, Usize
    <3> QED
      BY <1>0, <3>3 DEF Usize
  <2>2. CASE ~(~Overflows(index + n) /\ Wrapped(index + n) < CurrentLength)
    BY <1>3, <2>2 DEF nth
  <2> QED
    BY <2>1, <2>2
<1>4. ASSUME NEW n \in Usize, nth_back(n)
      PROVE  (\E t \in Int : TakeBack(t)) \/ YieldNone
  <2>1. CASE ~Overflows(index + n) /\ Wrapped(index + n) < CurrentLength
    <3>1. index + n \in Usize /\ UNCHANGED wrapped
      <4>1. wrapped' = (wrapped \/ index + n \notin Usize)
        BY <1>4, <2>1 DEF nth_back
      <4>2. wrapped = FALSE /\ wrapped' = FALSE
        BY <4>1 DEF WindowInv, ListTypeOK
      <4> QED
        BY <4>1, <4>2
    <3>2. index + n < CurrentLength
      BY <2>1, <3>1, WrappedStays
    <3>3. CurrentLength - n - 1 \in Usize
      BY <1>0, <3>2, ListIteratorAssumption DEF Usize, WindowInv, ListTypeOK
    <3>4. Wrapped(CurrentLength - n - 1) = CurrentLength - n - 1
      BY <3>3, WrappedStays
    <3>5. CurrentLength - n - 1 \in index..(CurrentLength - 1)
      BY <1>0, <3>2 DEF Usize
    <3>6. TakeBack(CurrentLength - n - 1)
      BY <1>4, <2>1, <3>1, <3>4, <3>5 DEF nth_back, TakeBack
    <3> QED
      BY <3>5, <3>6
  <2>2. CASE ~(~Overflows(index + n) /\ Wrapped(index + n) < CurrentLength)
    BY <1>4, <2>2 DEF nth_back
  <2> QED
    BY <2>1, <2>2
<1>5. ASSUME NEW n \in Usize, advance_by(n)
      PROVE  (\E t \in Int : PassFront(t)) \/ YieldNone
  <2>1. CASE index < CurrentLength
    <3> DEFINE t == index + Advanced(n, CurrentLength - index)
    <3>1. t \in index..CurrentLength
      BY <1>0, <2>1 DEF Advanced, Usize
    <3>2. /\ index' = t /\ skipped' = skipped \union index..(t - 1)
          /\ read' = NoRead
          /\ UNCHANGED <<listLen, length, build, yielded, first, still, wrapped>>
      <4>1. Advanced(n, CurrentLength - index) \in Nat
        BY <1>0, <2>1 DEF Advanced, Usize
      <4> QED
        BY <1>0, <1>5, <2>1, <4>1 DEF advance_by
    <3>3. PassFront(t)
      BY <3>1, <3>2 DEF PassFront
    <3> QED
      BY <3>1, <3>3
  <2>2. CASE ~(index < CurrentLength)
    BY <1>5, <2>2 DEF advance_by
  <2> QED
    BY <2>1, <2>2
<1>6. ASSUME NEW n \in Usize, advance_back_by(n)
      PROVE  (\E t \in Int : PassBack(t)) \/ YieldNone
  <2>1. CASE index < CurrentLength
    <3> DEFINE t == CurrentLength - Advanced(n, CurrentLength - index)
    <3>1. t \in index..CurrentLength
      BY <1>0, <2>1 DEF Advanced, Usize
    <3>2. PassBack(t)
      BY <1>6, <2>1, <3>1 DEF advance_back_by, PassBack
    <3> QED
      BY <3>1, <3>2
  <2>2. CASE ~(index < CurrentLength)
    BY <1>6, <2>2 DEF advance_back_by
  <2> QED
    BY <2>1, <2>2
<1> QED
  BY <1>1, <1>2, <1>3, <1>4, <1>5, <1>6

LEMMA TakeFrontKeepsInv ==
  ASSUME WindowInv, NEW t \in Int, TakeFront(t) PROVE WindowInv'
<1> USE CurrentLengthBounds
<1>0. /\ t \in Nat /\ index =< t /\ t < CurrentLength /\ t < length /\ t < listLen /\ t < first
      /\ index \in Nat /\ length \in Nat /\ first \in Nat
  BY DEF WindowInv, ListTypeOK, TakeFront, Usize
<1>1. /\ index' = t + 1 /\ length' = length /\ first' = first /\ still' = still
      /\ listLen' = listLen /\ build' = build /\ wrapped' = wrapped /\ read' = t
      /\ yielded' = Append(yielded, t) /\ skipped' = skipped \union index..(t - 1)
  BY DEF TakeFront, Yield
<1>2. yielded \in Seq(Usize) /\ Len(yielded) \in Nat /\ t \in Usize
  BY <1>0, ListIteratorAssumption DEF WindowInv, ListTypeOK, Usize
<1>3. /\ Len(yielded') = Len(yielded) + 1
      /\ \A i \in DOMAIN yielded' : (i \in DOMAIN yielded /\ yielded'[i] = yielded[i])
                                   \/ (i = Len(yielded) + 1 /\ yielded'[i] = t)
      /\ \A i \in DOMAIN yielded : i \in DOMAIN yielded' /\ yielded'[i] = yielded[i]
      /\ Len(yielded) + 1 \in DOMAIN yielded' /\ yielded'[Len(yielded) + 1] = t
  BY <1>1, <1>2
<1>4. ListTypeOK'
  BY <1>0, <1>1, <1>2, ListIteratorAssumption DEF WindowInv, ListTypeOK, Usize, build
<1>5. \A i \in DOMAIN yielded : Outside(yielded[i])
  BY DEF WindowInv
<1>6. (\A i \in DOMAIN yielded : Outside(yielded[i]))'
  BY <1>0, <1>1, <1>3, <1>5 DEF Outside
<1>7. (\A p \in skipped : Outside(p))'
  BY <1>0, <1>1 DEF Outside, WindowInv
<1>8. ReadsAreInBounds'
  BY <1>0, <1>1 DEF ReadsAreInBounds
<1>9. LenIsABound'
  BY <1>0, <1>1, <1>2, <1>3 DEF WindowInv, LenIsABound, IterLen
<1>10. EachPositionOnce'
  <2>1. \A i, j \in DOMAIN yielded' : yielded'[i] = yielded'[j] => i = j
    BY <1>0, <1>3, <1>5 DEF WindowInv, EachPositionOnce, Outside
  <2>2. \A i \in DOMAIN yielded' : yielded'[i] \notin skipped'
    <3>1. \A i \in DOMAIN yielded : yielded[i] \notin skipped /\ yielded[i] \notin index..(t - 1)
      BY <1>0, <1>5 DEF WindowInv, EachPositionOnce, Outside
    <3>2. t \notin skipped /\ t \notin index..(t - 1)
      BY <1>0 DEF WindowInv, Outside
    <3> QED
      BY <1>1, <1>3, <3>1, <3>2
  <2>3. \A i \in DOMAIN yielded' : yielded'[i] \notin index'..(length' - 1)
    BY <1>6 DEF Outside
  <2>4. still' => 0..(first' - 1) = skipped' \union index'..(length' - 1)
                                     \union {yielded'[i] : i \in DOMAIN yielded'}
    <3> SUFFICES ASSUME still'
                 PROVE  0..(first' - 1) = skipped' \union index'..(length' - 1)
                                     \union {yielded'[i] : i \in DOMAIN yielded'}
      OBVIOUS
    <3>1. 0..(first - 1) = skipped \union index..(length - 1)
                             \union {yielded[i] : i \in DOMAIN yielded}
      BY <1>1 DEF WindowInv, EachPositionOnce
    <3>2. {yielded'[i] : i \in DOMAIN yielded'}
            = {yielded[i] : i \in DOMAIN yielded} \union {t}
      BY <1>3
    <3>3. index..(length - 1) = index..(t - 1) \union {t} \union (t + 1)..(length - 1)
      BY <1>0
    <3> QED
      BY <1>1, <3>1, <3>2, <3>3
  <2> QED
    BY <2>1, <2>2, <2>3, <2>4 DEF EachPositionOnce
<1> QED
  BY <1>0, <1>1, <1>4, <1>6, <1>7, <1>8, <1>9, <1>10 DEF WindowInv

LEMMA TakeBackKeepsInv ==
  ASSUME WindowInv, NEW t \in Int, TakeBack(t) PROVE WindowInv'
<1> USE CurrentLengthBounds
<1>0. /\ t \in Nat /\ index =< t /\ t < CurrentLength /\ t < length /\ t < listLen /\ t < first
      /\ CurrentLength \in Nat /\ CurrentLength =< length
      /\ index \in Nat /\ length \in Nat /\ first \in Nat
  BY DEF WindowInv, ListTypeOK, TakeBack, Usize
<1>1. /\ index' = index /\ length' = t /\ first' = first /\ still' = still
      /\ listLen' = listLen /\ build' = build /\ wrapped' = wrapped /\ read' = t
      /\ yielded' = Append(yielded, t) /\ skipped' = skipped \union (t + 1)..(CurrentLength - 1)
  BY DEF TakeBack, Yield
<1>2. yielded \in Seq(Usize) /\ Len(yielded) \in Nat /\ t \in Usize
  BY <1>0, ListIteratorAssumption DEF WindowInv, ListTypeOK, Usize
<1>3. /\ Len(yielded') = Len(yielded) + 1
      /\ \A i \in DOMAIN yielded' : (i \in DOMAIN yielded /\ yielded'[i] = yielded[i])
                                   \/ (i = Len(yielded) + 1 /\ yielded'[i] = t)
      /\ \A i \in DOMAIN yielded : i \in DOMAIN yielded' /\ yielded'[i] = yielded[i]
      /\ Len(yielded) + 1 \in DOMAIN yielded' /\ yielded'[Len(yielded) + 1] = t
  BY <1>1, <1>2
<1>4. ListTypeOK'
  BY <1>0, <1>1, <1>2, ListIteratorAssumption DEF WindowInv, ListTypeOK, Usize, build
<1>5. \A i \in DOMAIN yielded : Outside(yielded[i])
  BY DEF WindowInv
<1>6. (\A i \in DOMAIN yielded : Outside(yielded[i]))'
  BY <1>0, <1>1, <1>3, <1>5 DEF Outside
<1>7. (\A p \in skipped : Outside(p))'
  BY <1>0, <1>1 DEF Outside, WindowInv
<1>8. ReadsAreInBounds'
  BY <1>0, <1>1 DEF ReadsAreInBounds
<1>9. LenIsABound'
  BY <1>0, <1>1, <1>2, <1>3 DEF WindowInv, LenIsABound, IterLen
<1>10. EachPositionOnce'
  <2>1. \A i, j \in DOMAIN yielded' : yielded'[i] = yielded'[j] => i = j
    BY <1>0, <1>3, <1>5 DEF WindowInv, EachPositionOnce, Outside
  <2>2. \A i \in DOMAIN yielded' : yielded'[i] \notin skipped'
    <3>1. \A i \in DOMAIN yielded : yielded[i] \notin skipped /\ yielded[i] \notin (t + 1)..(CurrentLength - 1)
      BY <1>0, <1>5 DEF WindowInv, EachPositionOnce, Outside
    <3>2. t \notin skipped /\ t \notin (t + 1)..(CurrentLength - 1)
      BY <1>0 DEF WindowInv, Outside
    <3> QED
      BY <1>1, <1>3, <3>1, <3>2
  <2>3. \A i \in DOMAIN yielded' : yielded'[i] \notin index'..(length' - 1)
    BY <1>6 DEF Outside
  <2>4. still' => 0..(first' - 1) = skipped' \union index'..(length' - 1)
                                     \union {yielded'[i] : i \in DOMAIN yielded'}
    <3> SUFFICES ASSUME still'
                 PROVE  0..(first' - 1) = skipped' \union index'..(length' - 1)
                                     \union {yielded'[i] : i \in DOMAIN yielded'}
      OBVIOUS
    <3>1. 0..(first - 1) = skipped \union index..(length - 1)
                             \union {yielded[i] : i \in DOMAIN yielded}
      BY <1>1 DEF WindowInv, EachPositionOnce
    <3>2. {yielded'[i] : i \in DOMAIN yielded'}
            = {yielded[i] : i \in DOMAIN yielded} \union {t}
      BY <1>3
    <3>3. index..(length - 1) = index..(t - 1) \union {t} \union (t + 1)..(CurrentLength - 1)
      BY <1>0, <1>1
    <3> QED
      BY <1>1, <3>1, <3>2, <3>3
  <2> QED
    BY <2>1, <2>2, <2>3, <2>4 DEF EachPositionOnce
<1> QED
  BY <1>0, <1>1, <1>4, <1>6, <1>7, <1>8, <1>9, <1>10 DEF WindowInv

LEMMA PassFrontKeepsInv ==
  ASSUME WindowInv, NEW t \in Int, PassFront(t) PROVE WindowInv'
<1> USE CurrentLengthBounds
<1>0. /\ t \in Nat /\ index =< t /\ t =< CurrentLength /\ t =< length /\ t =< first
      /\ CurrentLength \in Nat /\ CurrentLength =< length
      /\ index \in Nat /\ length \in Nat /\ first \in Nat
  BY DEF WindowInv, ListTypeOK, PassFront, Usize
<1>1. /\ index' = t /\ length' = length /\ first' = first /\ still' = still
      /\ listLen' = listLen /\ build' = build /\ wrapped' = wrapped /\ read' = NoRead
      /\ yielded' = yielded /\ skipped' = skipped \union index..(t - 1)
  BY DEF PassFront
<1>2. ListTypeOK'
  BY <1>0, <1>1, ListIteratorAssumption DEF WindowInv, ListTypeOK, Usize, build
<1>3. \A i \in DOMAIN yielded : Outside(yielded[i])
  BY DEF WindowInv
<1>4. (\A i \in DOMAIN yielded : Outside(yielded[i]))'
  BY <1>0, <1>1, <1>3 DEF Outside
<1>5. (\A p \in skipped : Outside(p))'
  BY <1>0, <1>1 DEF Outside, WindowInv
<1>6. ReadsAreInBounds' /\ LenIsABound'
  BY <1>0, <1>1 DEF WindowInv, ListTypeOK, ReadsAreInBounds, LenIsABound, IterLen
<1>7. EachPositionOnce'
  <2>1. \A i \in DOMAIN yielded' : yielded'[i] \notin skipped'
    BY <1>0, <1>1, <1>3 DEF WindowInv, EachPositionOnce, Outside
  <2>2. \A i \in DOMAIN yielded' : yielded'[i] \notin index'..(length' - 1)
    BY <1>4 DEF Outside
  <2>3. still' => index..(length - 1) = index..(t - 1) \union t..(length - 1)
    BY <1>0
  <2>4. still' => 0..(first' - 1) = skipped' \union index'..(length' - 1)
                                     \union {yielded'[i] : i \in DOMAIN yielded'}
    BY <1>1, <2>3 DEF WindowInv, EachPositionOnce
  <2> QED
    BY <1>1, <2>1, <2>2, <2>4 DEF EachPositionOnce, WindowInv
<1> QED
  BY <1>0, <1>1, <1>2, <1>4, <1>5, <1>6, <1>7 DEF WindowInv

LEMMA PassBackKeepsInv ==
  ASSUME WindowInv, NEW t \in Int, PassBack(t) PROVE WindowInv'
<1> USE CurrentLengthBounds
<1>0. /\ t \in Nat /\ index =< t /\ t =< CurrentLength /\ t =< length /\ t =< first
      /\ CurrentLength \in Nat /\ CurrentLength =< length
      /\ index \in Nat /\ length \in Nat /\ first \in Nat
  BY DEF WindowInv, ListTypeOK, PassBack, Usize
<1>1. /\ index' = index /\ length' = t /\ first' = first /\ still' = still
      /\ listLen' = listLen /\ build' = build /\ wrapped' = wrapped /\ read' = NoRead
      /\ yielded' = yielded /\ skipped' = skipped \union t..(CurrentLength - 1)
  BY DEF PassBack
<1>2. ListTypeOK'
  BY <1>0, <1>1, ListIteratorAssumption DEF WindowInv, ListTypeOK, Usize, build
<1>3. \A i \in DOMAIN yielded : Outside(yielded[i])
  BY DEF WindowInv
<1>4. (\A i \in DOMAIN yielded : Outside(yielded[i]))'
  BY <1>0, <1>1, <1>3 DEF Outside
<1>5. (\A p \in skipped : Outside(p))'
  BY <1>0, <1>1 DEF Outside, WindowInv
<1>6. ReadsAreInBounds' /\ LenIsABound'
  BY <1>0, <1>1 DEF WindowInv, ListTypeOK, ReadsAreInBounds, LenIsABound, IterLen
<1>7. EachPositionOnce'
  <2>1. \A i \in DOMAIN yielded' : yielded'[i] \notin skipped'
    BY <1>0, <1>1, <1>3 DEF WindowInv, EachPositionOnce, Outside
  <2>2. \A i \in DOMAIN yielded' : yielded'[i] \notin index'..(length' - 1)
    BY <1>4 DEF Outside
  <2>3. still' => index..(length - 1) = index..(t - 1) \union t..(CurrentLength - 1)
    BY <1>0, <1>1
  <2>4. still' => 0..(first' - 1) = skipped' \union index'..(length' - 1)
                                     \union {yielded'[i] : i \in DOMAIN yielded'}
    BY <1>1, <2>3 DEF WindowInv, EachPositionOnce
  <2> QED
    BY <1>1, <2>1, <2>2, <2>4 DEF EachPositionOnce, WindowInv
<1> QED
  BY <1>0, <1>1, <1>2, <1>4, <1>5, <1>6, <1>7 DEF WindowInv

LEMMA StillKeepsInv ==
  ASSUME WindowInv, YieldNone \/ ListMutates \/ UNCHANGED listVars PROVE WindowInv'
<1>1. /\ index' = index /\ length' = length /\ first' = first /\ build' = build /\ wrapped' = wrapped
      /\ yielded' = yielded /\ skipped' = skipped
      /\ listLen' \in 0..MaxLen
      /\ still' => still /\ listLen' = listLen
      /\ still' \in BOOLEAN
      /\ read' = NoRead \/ (read' = read /\ listLen' = listLen)
  <2>0. listLen \in 0..MaxLen /\ still \in BOOLEAN
    BY DEF WindowInv, ListTypeOK
  <2>1. CASE YieldNone
    BY <2>0, <2>1 DEF YieldNone
  <2>2. CASE ListMutates
    BY <2>0, <2>2 DEF ListMutates
  <2>3. CASE UNCHANGED listVars
    BY <2>0, <2>3 DEF listVars
  <2> QED
    BY <2>1, <2>2, <2>3
<1>2. ListTypeOK'
  BY <1>1 DEF WindowInv, ListTypeOK, build
<1>3. ReadsAreInBounds' /\ LenIsABound'
  BY <1>1 DEF WindowInv, ReadsAreInBounds, LenIsABound, IterLen
<1>4. EachPositionOnce'
  BY <1>1 DEF WindowInv, EachPositionOnce
<1> QED
  BY <1>1, <1>2, <1>3, <1>4 DEF WindowInv, Outside

\* Every step keeps the types, in every build.
LEMMA TypesStay ==
  ASSUME ListTypeOK, [ListNext]_listVars PROVE ListTypeOK'
<1> USE ListIteratorAssumption DEF ListTypeOK
<1>0. /\ 0..MaxLen \subseteq Usize /\ CurrentLength \in 0..MaxLen
      /\ \A k \in 0..MaxLen : k + 1 \in Usize
  BY DEF CurrentLength, Usize
<1>1. \A k \in Int : Wrapped(k) \in Usize
  BY DEF Wrapped, Usize
<1>2. \A a, b \in Int : a >= 0 /\ b < MaxLen => a..b \subseteq Usize
  BY DEF Usize
<1>3. ASSUME NEW k \in Usize, Yield(k)
      PROVE  /\ listLen' \in 0..MaxLen /\ nightly' \in BOOLEAN /\ overflow_checks' \in BOOLEAN
             /\ read' \in Usize \union {NoRead} /\ yielded' \in Seq(Usize)
             /\ first' \in 0..MaxLen /\ still' \in BOOLEAN
  BY <1>3 DEF Yield, build
<1>4. CASE YieldNone \/ ListMutates \/ UNCHANGED listVars
  BY <1>4 DEF YieldNone, ListMutates, listVars, build
<1>5. CASE next_unchecked /\ ~YieldNone
  <2>1. /\ index < CurrentLength /\ Yield(index) /\ index' = index + 1
        /\ UNCHANGED <<length, skipped, wrapped>>
    BY <1>5 DEF next_unchecked
  <2>2. index + 1 \in Usize
    BY <1>0, <2>1 DEF Usize
  <2> QED
    BY <1>3, <2>1, <2>2
<1>6. CASE next_back_unchecked /\ ~YieldNone
  <2>1. /\ index < CurrentLength /\ Yield(CurrentLength - 1) /\ length' = CurrentLength - 1
        /\ UNCHANGED <<index, skipped, wrapped>>
    BY <1>6 DEF next_back_unchecked
  <2>2. CurrentLength - 1 \in Usize
    BY <1>0, <2>1 DEF Usize
  <2> QED
    BY <1>3, <2>1, <2>2
<1>7. ASSUME NEW n \in Usize, nth(n), ~YieldNone PROVE ListTypeOK'
  <2> DEFINE target == Wrapped(index + n)
  <2>1. /\ target < CurrentLength /\ Yield(target) /\ index' = target + 1
        /\ skipped' = skipped \union index..(target - 1)
        /\ wrapped' = (wrapped \/ index + n \notin Usize)
        /\ UNCHANGED length
    BY <1>7 DEF nth
  <2>2. target \in Usize
    <3>1. index + n \in Int
      BY DEF Usize
    <3> QED
      BY <1>1, <3>1
  <2>3. target + 1 \in Usize /\ index..(target - 1) \subseteq Usize
    BY <1>0, <2>1, <2>2 DEF Usize
  <2>4. wrapped' \in BOOLEAN
    BY <2>1
  <2> HIDE DEF target
  <2> QED
    BY <1>3, <2>1, <2>2, <2>3, <2>4
<1>8. ASSUME NEW n \in Usize, nth_back(n), ~YieldNone PROVE ListTypeOK'
  <2> DEFINE target == Wrapped(CurrentLength - n - 1)
  <2>1. /\ Yield(target) /\ length' = target
        /\ skipped' = skipped \union (target + 1)..(CurrentLength - 1)
        /\ wrapped' = (wrapped \/ index + n \notin Usize)
        /\ UNCHANGED index
    BY <1>8 DEF nth_back
  <2>2. target \in Usize
    <3>1. CurrentLength - n - 1 \in Int
      BY <1>0 DEF Usize
    <3> QED
      BY <1>1, <3>1
  <2>3. (target + 1)..(CurrentLength - 1) \subseteq Usize
    BY <1>0, <2>2 DEF Usize
  <2>4. wrapped' \in BOOLEAN
    BY <2>1
  <2> HIDE DEF target
  <2> QED
    BY <1>3, <2>1, <2>2, <2>3, <2>4
<1>9. ASSUME NEW n \in Usize, advance_by(n), ~YieldNone PROVE ListTypeOK'
  <2> DEFINE passed == Advanced(n, CurrentLength - index)
  <2>1. /\ index < CurrentLength /\ index' = index + passed
        /\ skipped' = skipped \union index..(index + passed - 1)
        /\ read' = NoRead
        /\ UNCHANGED <<listLen, length, build, yielded, first, still, wrapped>>
    BY <1>9 DEF advance_by
  <2>2. passed \in 0..(CurrentLength - index)
    BY <1>0, <2>1 DEF Advanced, Usize
  <2>3. index + passed \in Usize /\ index..(index + passed - 1) \subseteq Usize
    BY <1>0, <2>1, <2>2 DEF Usize
  <2> QED
    BY <2>1, <2>3 DEF build
<1>10. ASSUME NEW n \in Usize, advance_back_by(n), ~YieldNone PROVE ListTypeOK'
  <2> DEFINE passed == Advanced(n, CurrentLength - index)
  <2>1. /\ index < CurrentLength /\ length' = CurrentLength - passed
        /\ skipped' = skipped \union (CurrentLength - passed)..(CurrentLength - 1)
        /\ read' = NoRead
        /\ UNCHANGED <<listLen, index, build, yielded, first, still, wrapped>>
    BY <1>10 DEF advance_back_by
  <2>2. passed \in 0..(CurrentLength - index)
    BY <1>0, <2>1 DEF Advanced, Usize
  <2>3. /\ CurrentLength - passed \in Usize
        /\ (CurrentLength - passed)..(CurrentLength - 1) \subseteq Usize
    BY <1>0, <2>1, <2>2 DEF Usize
  <2> QED
    BY <2>1, <2>3 DEF build
<1> QED
  BY <1>4, <1>5, <1>6, <1>7, <1>8, <1>9, <1>10 DEF ListNext

\* A sum that overflows is taken for a position only where it does not panic,
\* and what happened is not forgotten.
LEMMA WrapsOnlyUnchecked ==
  ASSUME ListTypeOK, [ListNext]_listVars
  PROVE  /\ overflow_checks' = overflow_checks
         /\ wrapped => wrapped'
         /\ wrapped' => wrapped \/ ~overflow_checks
  BY DEF ListTypeOK, ListNext, next_unchecked, next_back_unchecked, nth, nth_back, advance_by,
     advance_back_by, ListMutates, Yield, YieldNone, listVars, build, Overflows

LEMMA StepKeepsInv ==
  ASSUME ListInv, [ListNext]_listVars PROVE ListInv'
<1>1. ListTypeOK' /\ (overflow_checks' => ~wrapped')
  BY TypesStay, WrapsOnlyUnchecked DEF ListInv
<1>2. ASSUME ~wrapped' PROVE WindowInv'
  <2>1. WindowInv /\ ~wrapped
    BY <1>2, WrapsOnlyUnchecked DEF ListInv
  <2>2. CASE \/ next_unchecked \/ next_back_unchecked
             \/ \E n \in Usize : nth(n) \/ nth_back(n) \/ advance_by(n) \/ advance_back_by(n)
    BY <1>2, <2>1, <2>2, CallsAreMoves, TakeFrontKeepsInv, TakeBackKeepsInv, PassFrontKeepsInv,
       PassBackKeepsInv, StillKeepsInv
  <2>3. CASE ListMutates \/ UNCHANGED listVars
    BY <2>1, <2>3, StillKeepsInv
  <2> QED
    BY <2>2, <2>3 DEF ListNext
<1> QED
  BY <1>1, <1>2 DEF ListInv

\* In a build with overflow checks no sum ever wraps; and in every build, as
\* long as none did, the window stays inside the list's first length and what
\* was returned or passed over stays outside it, for every list, usize and
\* interleaving (list.rs:490-955).
THEOREM ListInvariant == ListSpec => []ListInv
<1>1. ListInv /\ [ListNext]_listVars => ListInv'
  BY StepKeepsInv
<1> QED
  BY <1>1, InitHolds, PTL DEF ListSpec

\* get_item_unchecked is given a position of the list, in a build with overflow
\* checks, and in one without them until a sum wraps (list.rs:526, 565, 606, 648).
THEOREM ListReadsAreInBounds == ListSpec => []ReadsAreInBoundsUnlessWrapped
<1>1. ListInv => ReadsAreInBoundsUnlessWrapped
  BY DEF ListInv, WindowInv, ReadsAreInBoundsUnlessWrapped, Exact
<1> QED
  BY <1>1, ListInvariant, PTL

\* Front and back share the list out without overlap and, while nobody resizes
\* it, without a gap, in a build with overflow checks, and in one without them
\* until a sum wraps (list.rs:517-664).
THEOREM ListIsSharedOut == ListSpec => []EachPositionOnceUnlessWrapped
<1>1. ListInv => EachPositionOnceUnlessWrapped
  BY DEF ListInv, WindowInv, EachPositionOnceUnlessWrapped, Exact
<1> QED
  BY <1>1, ListInvariant, PTL

\* No loop returns more than the list had, whatever its body appends, in a build
\* with overflow checks, and in one without them until a sum wraps
\* (list.rs:948-952).
THEOREM ListLenIsABound == ListSpec => []LenIsABoundUnlessWrapped
<1>1. ListInv => LenIsABoundUnlessWrapped
  BY DEF ListInv, WindowInv, LenIsABoundUnlessWrapped, Exact
<1> QED
  BY <1>1, ListInvariant, PTL

-----------------------------------------------------------------------------
(* The borrow flag                                                        *)

\* A mutable borrow is alone.
Alone == \A r \in Mutable : Shared = {} /\ Mutable = {r}

FlagInv == CellTypeOK /\ FlagExact /\ Alone

\* The shared borrows can be counted, and one more or less changes the count
\* by one.
LEMMA Counting ==
  /\ IsFiniteSet(Shared) /\ Cardinality(Shared) \in Nat
  /\ \A r \in Refs \ Shared : Cardinality(Shared \cup {r}) = Cardinality(Shared) + 1
  /\ \A r \in Shared : Cardinality(Shared \ {r}) = Cardinality(Shared) - 1
<1>1. IsFiniteSet(Shared)
  BY CellAssumption, FS_Subset DEF Shared
<1> QED
  BY <1>1, FS_CardinalityType, FS_AddElement, FS_RemoveElement

\* What each move of one ref does to the sets of borrows.
LEMMA Moves ==
  ASSUME state \in [Refs -> {"none", "increment", "shared", "mutable"}], NEW r \in Refs
  PROVE  /\ Go(r, "increment", "shared") =>
              Shared' = Shared \cup {r} /\ r \notin Shared /\ Mutable' = Mutable
         /\ Go(r, "shared", "none") =>
              Shared' = Shared \ {r} /\ r \in Shared /\ Mutable' = Mutable
         /\ Go(r, "none", "mutable") => Shared' = Shared /\ Mutable' = Mutable \cup {r}
         /\ Go(r, "mutable", "none") =>
              Shared' = Shared /\ r \in Mutable /\ Mutable' = Mutable \ {r}
         /\ Go(r, "none", "increment") \/ Go(r, "increment", "none") =>
              Shared' = Shared /\ Mutable' = Mutable
  BY DEF Go, Shared, Mutable

LEMMA InitFlag == CellInit => FlagInv
<1> SUFFICES ASSUME CellInit PROVE FlagInv
  OBVIOUS
<1>1. Shared = {} /\ Mutable = {}
  BY DEF CellInit, Shared, Mutable
<1> QED
  BY <1>1, CellAssumption, FS_EmptySet
     DEF CellInit, FlagInv, CellTypeOK, FlagExact, Alone, UNUSED

LEMMA StepFlag == FlagInv /\ [CellNext]_cellVars => FlagInv'
<1> SUFFICES ASSUME FlagInv, [CellNext]_cellVars PROVE FlagInv'
  OBVIOUS
<1> USE CellAssumption DEF FlagInv, HAS_MUTABLE_BORROW, UNUSED
<1>1. CellTypeOK'
  <2>1. ASSUME NEW r \in Refs, release_borrow(r) PROVE CellTypeOK'
    BY <2>1 DEF CellTypeOK, release_borrow, Go
  <2>2. ASSUME NEW r \in Refs, Exchange(r) PROVE CellTypeOK'
    BY <2>2 DEF CellTypeOK, Exchange, Go
  <2>3. ASSUME NEW r \in Refs, Load(r) \/ Refuse(r) \/ Retry(r) PROVE CellTypeOK'
    BY <2>3 DEF CellTypeOK, Load, Refuse, Retry, Go
  <2>4. ASSUME NEW r \in Refs, try_borrow_mut(r) \/ release_borrow_mut(r) PROVE CellTypeOK'
    BY <2>4 DEF CellTypeOK, try_borrow_mut, release_borrow_mut, Go
  <2> QED
    BY <2>1, <2>2, <2>3, <2>4 DEF CellNext, cellVars, CellTypeOK
<1>2. FlagExact' /\ Alone'
  <2> USE DEF FlagExact, Alone, CellTypeOK
  <2>1. ASSUME NEW r \in Refs, Load(r) \/ Refuse(r) PROVE FlagExact' /\ Alone'
    <3>1. Shared' = Shared /\ Mutable' = Mutable /\ flag' = flag
      BY <2>1, Moves DEF Load, Refuse
    <3> QED
      BY <3>1
  <2>2. ASSUME NEW r \in Refs, Exchange(r) PROVE FlagExact' /\ Alone'
    <3>1. /\ Shared' = Shared \cup {r} /\ r \notin Shared /\ Mutable' = Mutable
          /\ flag # UsizeMax /\ flag' = flag + 1
      BY <2>2, Moves DEF Exchange
    <3>2. Mutable = {}
      BY <3>1
    <3> QED
      BY <3>1, <3>2, Counting
  <2>3. ASSUME NEW r \in Refs, Retry(r) \/ UNCHANGED cellVars PROVE FlagExact' /\ Alone'
    <3>1. Shared' = Shared /\ Mutable' = Mutable /\ flag' = flag
      BY <2>3 DEF Retry, cellVars, Shared, Mutable
    <3> QED
      BY <3>1
  <2>4. ASSUME NEW r \in Refs, release_borrow(r) PROVE FlagExact' /\ Alone'
    <3>1. Shared' = Shared \ {r} /\ r \in Shared /\ Mutable' = Mutable
      BY <2>4, Moves DEF release_borrow
    <3>2. Mutable = {} /\ flag = Cardinality(Shared) /\ flag # 0
      BY <3>1, Counting, FS_EmptySet
    <3>3. flag' = flag - 1
      BY <2>4, <3>2 DEF release_borrow
    <3> QED
      BY <3>1, <3>2, <3>3, Counting
  <2>5. ASSUME NEW r \in Refs, try_borrow_mut(r) PROVE FlagExact' /\ Alone'
    <3>1. Shared' = Shared /\ Mutable' = Mutable \cup {r} /\ flag = 0 /\ flag' = UsizeMax
      BY <2>5, Moves DEF try_borrow_mut
    <3>2. Mutable = {} /\ Shared = {}
      BY <3>1, Counting, FS_EmptySet
    <3> QED
      BY <3>1, <3>2
  <2>6. ASSUME NEW r \in Refs, release_borrow_mut(r) PROVE FlagExact' /\ Alone'
    <3>1. Shared' = Shared /\ r \in Mutable /\ Mutable' = Mutable \ {r} /\ flag' = 0
      BY <2>6, Moves DEF release_borrow_mut
    <3>2. Shared' = {} /\ Mutable' = {}
      BY <3>1
    <3> QED
      BY <3>1, <3>2, FS_EmptySet
  <2>7. CASE UNCHANGED cellVars
    <3>1. Shared' = Shared /\ Mutable' = Mutable /\ flag' = flag
      BY <2>7 DEF cellVars, Shared, Mutable
    <3> QED
      BY <3>1
  <2> QED
    BY <2>1, <2>2, <2>3, <2>4, <2>5, <2>6, <2>7 DEF CellNext
<1> QED
  BY <1>1, <1>2

THEOREM FlagInvariant == CellSpec => []FlagInv
  BY InitFlag, StepFlag, PTL DEF CellSpec

\* The flag stays in the range of usize.
THEOREM PyCellTypeCorrect == CellSpec => []CellTypeOK
<1>1. FlagInv => CellTypeOK
  BY DEF FlagInv
<1> QED
  BY <1>1, FlagInvariant, PTL

\* The flag counts the borrows that exist, up to the limit of its type
\* (impl_.rs:62-94).
THEOREM FlagCounts == CellSpec => []FlagExact
<1>1. FlagInv => FlagExact
  BY DEF FlagInv
<1> QED
  BY <1>1, FlagInvariant, PTL

\* Every step of the flag is a step of a readers-writer lock
\* (impl_.rs:145-174).
THEOREM PyCellIsReadersWriter == CellSpec => ImplementsReadersWriter
<1>1. CellInit => RW!RWInit
  BY DEF CellInit, RW!RWInit, Shared, Mutable
<1>2. FlagInv /\ [CellNext]_cellVars => [RW!RWNext]_(RW!rwVars)
  <2> SUFFICES ASSUME FlagInv, [CellNext]_cellVars PROVE [RW!RWNext]_(RW!rwVars)
    OBVIOUS
  <2> USE CellAssumption DEF FlagInv, FlagExact, Alone, CellTypeOK, HAS_MUTABLE_BORROW, UNUSED
  <2>1. ASSUME NEW r \in Refs, Exchange(r) PROVE RW!Read(r)
    <3>1. /\ Shared' = Shared \cup {r} /\ Mutable' = Mutable /\ flag # UsizeMax
      BY <2>1, Moves DEF Exchange
    <3> QED
      BY <3>1 DEF RW!Read
  <2>2. ASSUME NEW r \in Refs, try_borrow_mut(r) PROVE RW!Write(r)
    <3>1. Shared' = Shared /\ Mutable' = Mutable \cup {r} /\ flag = 0
      BY <2>2, Moves DEF try_borrow_mut
    <3> QED
      BY <3>1, Counting, FS_EmptySet DEF RW!Write
  <2>3. ASSUME NEW r \in Refs, release_borrow(r) PROVE RW!Release(r)
    <3>1. Shared' = Shared \ {r} /\ r \in Shared /\ Mutable' = Mutable
      BY <2>3, Moves DEF release_borrow
    <3> QED
      BY <3>1 DEF RW!Release
  <2>4. ASSUME NEW r \in Refs, release_borrow_mut(r) PROVE RW!Release(r)
    <3>1. Shared' = Shared /\ r \in Mutable /\ Mutable' = Mutable \ {r}
      BY <2>4, Moves DEF release_borrow_mut
    <3> QED
      BY <3>1 DEF RW!Release
  <2>5. ASSUME NEW r \in Refs, Load(r) \/ Refuse(r) \/ Retry(r) PROVE UNCHANGED RW!rwVars
    <3>1. Shared' = Shared /\ Mutable' = Mutable
      BY <2>5, Moves DEF Load, Refuse, Retry, Shared, Mutable
    <3> QED
      BY <3>1 DEF RW!rwVars
  <2>6. CASE UNCHANGED cellVars
    BY <2>6 DEF cellVars, RW!rwVars, Shared, Mutable
  <2> QED
    BY <2>1, <2>2, <2>3, <2>4, <2>5, <2>6 DEF CellNext, RW!RWNext
<1> QED
  BY <1>1, <1>2, FlagInvariant, PTL DEF CellSpec, ImplementsReadersWriter, RW!RWSpec

-----------------------------------------------------------------------------
(* The free list                                                           *)

Places == {"system", "popped", "object", "list", "refused"}

\* The slots up to split are filled, the others empty; no block is in two; and
\* the blocks in them are those that are on the list.
FreeListInv ==
  /\ capacity \in Nat
  /\ split \in 0..capacity
  /\ slots \in [1..capacity -> Blocks \cup {Empty}]
  /\ place \in [Blocks -> Places]
  /\ \A i \in 1..capacity : slots[i] # Empty <=> i <= split
  /\ \A i, j \in 1..split : slots[i] = slots[j] => i = j
  /\ \A b \in Blocks : place[b] = "list" <=> \E i \in 1..split : slots[i] = b

\* A block that moves from one place to another, neither of them the list, can
\* be forgotten.
LEMMA MovesElsewhere ==
  ASSUME FreeListInv, NEW b \in Blocks, NEW to \in Places \ {"list"}, place[b] # "list",
         place' = [place EXCEPT ![b] = to], UNCHANGED <<capacity, split, slots>>
  PROVE  FreeListInv'
  BY DEF FreeListInv

LEMMA PopKeeps ==
  ASSUME FreeListInv, NEW b \in Blocks, AllocHit(b)
  PROVE  FreeListInv'
  <1>1. /\ split \in 1..capacity /\ slots[split] = b /\ split' = split - 1
        /\ slots' = [slots EXCEPT ![split] = Empty]
        /\ place' = [place EXCEPT ![b] = "popped"]
        /\ UNCHANGED capacity
    BY DEF AllocHit, pop, FreeListInv
  <1>2. /\ split' \in 0..capacity /\ split' = split - 1
        /\ slots' \in [1..capacity -> Blocks \cup {Empty}]
        /\ slots'[split] = Empty
        /\ \A i \in 1..capacity : i # split => slots'[i] = slots[i]
    BY <1>1 DEF FreeListInv
  <1>3. \A i \in 1..capacity : slots'[i] # Empty <=> i <= split'
    BY <1>1, <1>2 DEF FreeListInv
  <1>4. \A i \in 1..split' : i \in 1..split /\ i # split /\ i \in 1..capacity
    BY <1>1, <1>2 DEF FreeListInv
  <1>5. \A i, j \in 1..split' : slots'[i] = slots'[j] => i = j
    BY <1>2, <1>4 DEF FreeListInv
  <1>6. ASSUME NEW c \in Blocks
        PROVE  place'[c] = "list" <=> \E i \in 1..split' : slots'[i] = c
    <2>1. CASE c = b
      <3>1. place'[c] = "popped"
        BY <1>1, <2>1 DEF FreeListInv
      <3>2. \A i \in 1..split' : slots'[i] # b
        BY <1>1, <1>2, <1>4 DEF FreeListInv
      <3>3. QED
        BY <2>1, <3>1, <3>2
    <2>2. CASE c # b
      <3>1. place'[c] = place[c]
        BY <1>1, <2>2 DEF FreeListInv
      <3>2. \A i \in 1..split : slots[i] = c => i # split
        BY <1>1, <2>2
      <3>3. \A i \in 1..split : i # split => i \in 1..split'
        BY <1>1, <1>2 DEF FreeListInv
      <3>4. QED
        BY <1>2, <1>4, <3>1, <3>2, <3>3 DEF FreeListInv
    <2>3. QED
      BY <2>1, <2>2
  <1>7. place' \in [Blocks -> Places]
    BY <1>1 DEF FreeListInv, Places
  <1>8. QED
    BY <1>1, <1>2, <1>3, <1>5, <1>6, <1>7 DEF FreeListInv

LEMMA InsertKeeps ==
  ASSUME FreeListInv, NEW b \in Blocks, FreeToList(b)
  PROVE  FreeListInv'
  <1>1. /\ split + 1 < capacity /\ split' = split + 1 /\ place[b] = "object"
        /\ slots' = [slots EXCEPT ![split + 1] = b]
        /\ place' = [place EXCEPT ![b] = "list"]
        /\ UNCHANGED capacity
    BY DEF FreeToList, insert, Move
  <1>2. split + 1 \in 1..capacity /\ split' \in 0..capacity /\ split \in Nat /\ capacity \in Nat
    BY <1>1 DEF FreeListInv
  <1>3. /\ slots' \in [1..capacity -> Blocks \cup {Empty}]
        /\ slots'[split + 1] = b
        /\ \A i \in 1..capacity : i # split + 1 => slots'[i] = slots[i]
    BY <1>1, <1>2 DEF FreeListInv
  <1>4. b # Empty
    BY FreeListAssumption DEF FreeListAssumption, Empty
  <1>5. \A i \in 1..capacity : slots'[i] # Empty <=> i <= split'
    BY <1>1, <1>2, <1>3, <1>4 DEF FreeListInv
  <1>6. \A i \in 1..split : slots[i] # b
    BY <1>1 DEF FreeListInv
  <1>7. /\ \A i \in 1..split' : i = split + 1 \/ i \in 1..split
        /\ \A i \in 1..split : i # split + 1 /\ i \in 1..capacity /\ i \in 1..split'
        /\ split + 1 \in 1..split'
    BY <1>1, <1>2
  <1>8. \A i, j \in 1..split' : slots'[i] = slots'[j] => i = j
    BY <1>3, <1>6, <1>7 DEF FreeListInv
  <1>9. ASSUME NEW c \in Blocks
        PROVE  place'[c] = "list" <=> \E i \in 1..split' : slots'[i] = c
    <2>1. CASE c = b
      BY <1>1, <1>3, <1>7, <2>1 DEF FreeListInv
    <2>2. CASE c # b
      <3>1. place'[c] = place[c]
        BY <1>1, <2>2 DEF FreeListInv
      <3>2. QED
        BY <1>3, <1>7, <2>2, <3>1 DEF FreeListInv
    <2>3. QED
      BY <2>1, <2>2
  <1>10. place' \in [Blocks -> Places]
    BY <1>1 DEF FreeListInv, Places
  <1>11. QED
    BY <1>1, <1>2, <1>3, <1>5, <1>8, <1>9, <1>10 DEF FreeListInv

\* The list is what its entries say, whichever threads allocate and free.
THEOREM FreeListInvariant == FreeListSpec => []FreeListInv
  <1>1. FreeListInit => FreeListInv
    <2>. SUFFICES ASSUME FreeListInit PROVE FreeListInv
      OBVIOUS
    <2>1. capacity \in Nat /\ split = 0 /\ 1..split = {}
      BY FreeListAssumption DEF FreeListInit, FreeListAssumption
    <2>2. /\ slots \in [1..capacity -> Blocks \cup {Empty}] /\ place \in [Blocks -> Places]
          /\ \A i \in 1..capacity : slots[i] = Empty /\ ~(i <= split)
          /\ \A b \in Blocks : place[b] # "list"
      BY <2>1 DEF FreeListInit, Places
    <2>3. QED
      BY <2>1, <2>2 DEF FreeListInv
  <1>2. FreeListInv /\ [FreeListNext]_freeVars => FreeListInv'
    <2>. SUFFICES ASSUME FreeListInv, [FreeListNext]_freeVars PROVE FreeListInv'
      OBVIOUS
    <2>1. CASE UNCHANGED freeVars \/ AllocMiss
      BY <2>1 DEF freeVars, AllocMiss, FreeListInv
    <2>2. ASSUME NEW b \in Blocks,
                 PyObject_Init(b) \/ (\E c \in Classes : PyType_GenericAlloc(b, c))
                   \/ FreeRefused(b) \/ PyObject_Free(b)
          PROVE  FreeListInv'
      <3>1. \E to \in {"object", "refused", "system"} :
              place[b] # "list" /\ place' = [place EXCEPT ![b] = to]
        BY <2>2 DEF PyObject_Init, PyType_GenericAlloc, FreeRefused, PyObject_Free, Move
      <3>2. UNCHANGED <<capacity, split, slots>>
        BY <2>2 DEF PyObject_Init, PyType_GenericAlloc, FreeRefused, PyObject_Free
      <3>3. QED
        BY <3>1, <3>2, MovesElsewhere DEF Places
    <2>3. QED
      BY <2>1, <2>2, PopKeeps, InsertKeeps DEF FreeListNext
  <1>3. QED
    BY <1>1, <1>2, PTL DEF FreeListSpec

\* A block is handed out to one object at a time, and pop never finds the list
\* corrupt (impl_/freelist.rs:36-64, impl_/pyclass.rs:935-1000).
THEOREM NothingIsHandedOutTwice == FreeListSpec => []NeverHandedOutTwice
  <1>1. FreeListInv => NeverHandedOutTwice
    <2>. SUFFICES ASSUME FreeListInv PROVE NeverHandedOutTwice
      OBVIOUS
    <2>1. DOMAIN slots = 1..capacity /\ \A i \in 1..capacity : i <= split <=> i \in 1..split
      BY DEF FreeListInv
    <2>2. ~Corrupt
      BY <2>1 DEF Corrupt, FreeListInv
    <2>3. ASSUME NEW b \in Blocks
          PROVE  Cardinality(Listed(b)) = (IF place[b] = "list" THEN 1 ELSE 0)
      <3>1. b # Empty
        BY FreeListAssumption DEF FreeListAssumption, Empty
      <3>2. \A i \in Listed(b) : i \in 1..split /\ slots[i] = b
        BY <2>1, <3>1 DEF Listed, FreeListInv
      <3>3. CASE place[b] = "list"
        <4>1. PICK i \in 1..split : slots[i] = b
          BY <3>3 DEF FreeListInv
        <4>2. i \in 1..capacity
          BY <4>1 DEF FreeListInv
        <4>3. Listed(b) = {i}
          BY <2>1, <3>2, <4>1, <4>2 DEF Listed, FreeListInv
        <4>4. QED
          BY <3>3, <4>3, FS_Singleton
      <3>4. CASE place[b] # "list"
        <4>1. Listed(b) = {}
          BY <3>2, <3>4 DEF FreeListInv
        <4>2. QED
          BY <3>4, <4>1, FS_EmptySet
      <3>5. QED
        BY <3>3, <3>4
    <2>4. QED
      BY <2>2, <2>3 DEF NeverHandedOutTwice
  <1>2. QED
    BY <1>1, FreeListInvariant, PTL

-----------------------------------------------------------------------------
(* The dict iterator                                                       *)

\* A set of numbers has a smallest one: what the library states for relations
\* and sets serves for induction, which its theorems on predicates do not.
LEMMA Smallest ==
  ASSUME NEW S \in SUBSET Nat, S # {}
  PROVE  \E m \in S : \A n \in S : m <= n
  <1>. DEFINE R == {p \in Nat \X Nat : p[1] < p[2]}
  <1>1. IsWellFoundedOn(R, Nat)
    BY NatLessThanWellFounded DEF OpToRel
  <1>. HIDE DEF R
  <1>2. PICK x \in S : \A y \in S : ~ (<<y, x>> \in R)
    BY <1>1, WFMin
  <1>3. ASSUME NEW y \in S PROVE x <= y
    <2>1. <<y, x>> \notin R /\ <<y, x>> \in Nat \X Nat
      BY <1>2
    <2>2. ~(y < x)
      BY <2>1 DEF R
    <2>3. QED
      BY <2>2
  <1>4. QED
    BY <1>3

\* So what holds at the end of a table, and at a position if it holds at the
\* next, holds at every position.
LEMMA Backwards ==
  ASSUME NEW n \in Nat, NEW S \in SUBSET (0..n), n \in S,
         \A p \in 0..(n - 1) : p + 1 \in S => p \in S
  PROVE  S = 0..n
  <1>. SUFFICES ASSUME S # 0..n PROVE FALSE
    OBVIOUS
  <1>. DEFINE Gaps == {d \in 0..n : n - d \notin S}
  <1>1. PICK p \in 0..n : p \notin S
    OBVIOUS
  <1>2. n - p \in Gaps
    <2>1. n - p \in 0..n /\ n - (n - p) = p
      OBVIOUS
    <2>2. QED
      BY <1>1, <2>1
  <1>3. PICK d \in Gaps : \A e \in Gaps : d <= e
    <2>1. Gaps \in SUBSET Nat
      OBVIOUS
    <2>2. Gaps # {}
      BY <1>2
    <2>. HIDE DEF Gaps
    <2>3. QED
      BY <2>1, <2>2, Smallest
  <1>4. d \in 0..n /\ n - d \notin S /\ d # 0
    OBVIOUS
  <1>5. d - 1 \notin Gaps
    <2>1. ~(d <= d - 1)
      BY <1>4
    <2>. HIDE DEF Gaps
    <2>2. QED
      BY <1>3, <2>1
  <1>6. n - (d - 1) \in S
    BY <1>4, <1>5
  <1>7. n - d \in 0..(n - 1) /\ (n - d) + 1 = n - (d - 1)
    BY <1>4
  <1>8. QED
    BY <1>4, <1>6, <1>7

Entries == Keys \cup {Hole}

\* The equation of LiveAfter.
IsLive(f, table) ==
  f = [p \in 0..Len(table) |->
        IF p = Len(table) THEN <<>>
        ELSE (IF IsKey(table[p + 1]) THEN <<table[p + 1]>> ELSE <<>>) \o f[p + 1]]

LEMMA LiveExists ==
  ASSUME NEW table \in Seq(Entries)
  PROVE  \E f : IsLive(f, table)
  <1>. DEFINE n == Len(table)
              here(p) == IF IsKey(table[p + 1]) THEN <<table[p + 1]>> ELSE <<>>
              upto(f, m) == \A p \in m..n :
                              f[p] = IF p = n THEN <<>> ELSE here(p) \o f[p + 1]
              S == {m \in 0..n : \E f : upto(f, m)}
  <1>1. n \in Nat
    OBVIOUS
  <1>. HIDE DEF here
  <1>2. n \in S
    <2>. DEFINE g == [p \in {n} |-> <<>>]
    <2>1. \A p \in n..n : p = n
      BY <1>1
    <2>2. upto(g, n)
      BY <2>1
    <2>. HIDE DEF g, upto
    <2>3. QED
      BY <1>1, <2>2
  <1>3. ASSUME NEW m \in 0..(n - 1), m + 1 \in S PROVE m \in S
    <2>1. PICK f : upto(f, m + 1)
      BY <1>3
    <2>. DEFINE g == [p \in m..n |-> IF p = m THEN here(m) \o f[m + 1] ELSE f[p]]
    <2>2. upto(g, m)
      <3>1. ASSUME NEW p \in m..n
            PROVE  g[p] = IF p = n THEN <<>> ELSE here(p) \o g[p + 1]
        <4>1. CASE p = m
          <5>1. p # n /\ m + 1 \in m..n /\ m + 1 # m
            BY <1>1, <4>1
          <5>2. QED
            BY <4>1, <5>1
        <4>2. CASE p # m
          <5>1. p \in (m + 1)..n /\ (p # n => p + 1 \in m..n /\ p + 1 # m)
            BY <1>1, <4>2
          <5>2. f[p] = IF p = n THEN <<>> ELSE here(p) \o f[p + 1]
            BY <2>1, <5>1
          <5>3. QED
            BY <4>2, <5>1, <5>2
        <4>3. QED
          BY <4>1, <4>2
      <3>2. QED
        BY <3>1
    <2>. HIDE DEF g
    <2>3. m \in 0..n
      BY <1>1
    <2>4. QED
      BY <2>2, <2>3
  <1>4. 0 \in S
    <2>1. S \in SUBSET (0..n) /\ 0 \in 0..n
      BY <1>1
    <2>. HIDE DEF S
    <2>2. QED
      BY <1>1, <1>2, <1>3, <2>1, Backwards
  <1>5. PICK f : upto(f, 0)
    BY <1>4
  <1>6. IsLive([p \in 0..n |-> f[p]], table)
    <2>. DEFINE g == [p \in 0..n |-> f[p]]
    <2>1. ASSUME NEW p \in 0..n
          PROVE  g[p] = IF p = n THEN <<>> ELSE here(p) \o g[p + 1]
      <3>1. p # n => p + 1 \in 0..n
        BY <1>1
      <3>2. f[p] = IF p = n THEN <<>> ELSE here(p) \o f[p + 1]
        BY <1>5
      <3>3. QED
        BY <3>1, <3>2
    <2>2. QED
      BY <2>1 DEF IsLive, here
  <1>7. QED
    BY <1>6

\* The keys after a position are those after the next, with the entry between
\* them in front if it is one.
LEMMA LiveAfterIs ==
  ASSUME NEW table \in Seq(Entries)
  PROVE  /\ LiveAfter(table)[Len(table)] = <<>>
         /\ \A p \in 0..(Len(table) - 1) :
              LiveAfter(table)[p] =
                (IF IsKey(table[p + 1]) THEN <<table[p + 1]>> ELSE <<>>) \o LiveAfter(table)[p + 1]
         /\ LiveAfter(table) \in [0..Len(table) -> Seq(Keys)]
  <1>. DEFINE live == LiveAfter(table)
              n == Len(table)
  <1>1. live = CHOOSE f : IsLive(f, table)
    BY DEF LiveAfter, IsLive
  <1>2. IsLive(live, table)
    BY <1>1, LiveExists
  <1>. HIDE DEF live
  <1>3. n \in Nat
    OBVIOUS
  <1>4. /\ DOMAIN live = 0..n
        /\ live[n] = <<>>
        /\ live = [p \in 0..n |-> live[p]]
        /\ \A p \in 0..(n - 1) :
             live[p] = (IF IsKey(table[p + 1]) THEN <<table[p + 1]>> ELSE <<>>) \o live[p + 1]
    <2>1. \A p \in 0..(n - 1) : p \in 0..n /\ p # n
      BY <1>3
    <2>2. n \in 0..n
      BY <1>3
    <2>3. QED
      BY <1>2, <2>1, <2>2 DEF IsLive
  <1>5. \A p \in 0..n : live[p] \in Seq(Keys)
    <2>. DEFINE S == {p \in 0..n : live[p] \in Seq(Keys)}
    <2>1. n \in S
      BY <1>3, <1>4
    <2>2. ASSUME NEW p \in 0..(n - 1), p + 1 \in S PROVE p \in S
      <3>1. p \in 0..n /\ p + 1 \in 1..n
        BY <1>3
      <3>2. table[p + 1] \in Entries
        BY <3>1
      <3>3. (IF IsKey(table[p + 1]) THEN <<table[p + 1]>> ELSE <<>>) \in Seq(Keys)
        BY <3>2 DEF Entries, IsKey
      <3>4. live[p + 1] \in Seq(Keys)
        BY <2>2
      <3>5. live[p] \in Seq(Keys)
        BY <1>4, <3>3, <3>4, ConcatProperties
      <3>6. QED
        BY <3>1, <3>5
    <2>3. S \in SUBSET (0..n)
      OBVIOUS
    <2>. HIDE DEF S
    <2>4. S = 0..n
      BY <1>3, <2>1, <2>2, <2>3, Backwards
    <2>5. QED
      BY <2>4 DEF S
  <1>6. QED
    BY <1>4, <1>5 DEF live

\* If no entry between two positions is a key, the same keys come after both.
LEMMA HolesAreSkipped ==
  ASSUME NEW table \in Seq(Entries), NEW p \in 0..Len(table), NEW q \in p..Len(table),
         \A r \in (p + 1)..q : ~IsKey(table[r])
  PROVE  LiveAfter(table)[p] = LiveAfter(table)[q]
  <1>. DEFINE live == LiveAfter(table)
              S == {i \in 0..(q - p) : live[p + i] = live[q]}
  <1>1. Len(table) \in Nat /\ q - p \in Nat /\ p + (q - p) = q
    OBVIOUS
  <1>2. q - p \in S
    BY <1>1
  <1>3. ASSUME NEW i \in 0..((q - p) - 1), i + 1 \in S PROVE i \in S
    <2>1. /\ p + i \in 0..(Len(table) - 1) /\ (p + i) + 1 \in (p + 1)..q
          /\ p + (i + 1) = (p + i) + 1 /\ i \in 0..(q - p) /\ (p + i) + 1 \in 0..Len(table)
      BY <1>1
    <2>2. ~IsKey(table[(p + i) + 1])
      BY <2>1
    <2>3. live[p + i] = <<>> \o live[(p + i) + 1]
      BY <2>1, <2>2, LiveAfterIs
    <2>4. live[(p + i) + 1] \in Seq(Keys)
      BY <2>1, LiveAfterIs
    <2>5. live[p + i] = live[(p + i) + 1]
      BY <2>3, <2>4, ConcatEmptySeq
    <2>6. live[p + (i + 1)] = live[q]
      BY <1>3
    <2>7. QED
      BY <2>1, <2>5, <2>6
  <1>4. 0 \in S
    <2>1. S \in SUBSET (0..(q - p)) /\ 0 \in 0..(q - p)
      BY <1>1
    <2>. HIDE DEF S
    <2>2. QED
      BY <1>1, <1>2, <1>3, <2>1, Backwards
  <1>5. live[p + 0] = live[q] /\ p + 0 = p
    BY <1>4
  <1>6. QED
    BY <1>5

\* So where PyDict_Next finds an entry, it is the first of the keys to come.
LEMMA FoundIsFirst ==
  ASSUME entries \in Seq(Entries), ppos \in 0..Len(entries), NEW p, PyDict_Next(p)
  PROVE  /\ p \in 1..Len(entries) /\ entries[p] \in Keys
         /\ LiveAfter(entries)[ppos] = <<entries[p]>> \o LiveAfter(entries)[p]
  <1>1. /\ Len(entries) \in Nat /\ DOMAIN entries = 1..Len(entries)
        /\ p \in 1..Len(entries) /\ p > ppos /\ IsKey(entries[p])
        /\ \A q \in Ahead : p =< q
    BY DEF PyDict_Next, Ahead
  <1>2. entries[p] \in Keys
    BY <1>1 DEF Entries, IsKey
  <1>3. \A r \in (ppos + 1)..(p - 1) : ~IsKey(entries[r])
    <2>1. SUFFICES ASSUME NEW r \in (ppos + 1)..(p - 1), IsKey(entries[r]) PROVE FALSE
      OBVIOUS
    <2>2. r \in DOMAIN entries /\ r > ppos /\ ~(p =< r)
      BY <1>1
    <2>3. r \in Ahead
      BY <2>1, <2>2 DEF Ahead
    <2>4. QED
      BY <1>1, <2>2, <2>3
  <1>4. p - 1 \in ppos..Len(entries) /\ p - 1 \in 0..(Len(entries) - 1) /\ (p - 1) + 1 = p
    BY <1>1
  <1>5. LiveAfter(entries)[ppos] = LiveAfter(entries)[p - 1]
    BY <1>3, <1>4, HolesAreSkipped
  <1>6. LiveAfter(entries)[p - 1] = <<entries[p]>> \o LiveAfter(entries)[p]
    BY <1>1, <1>4, LiveAfterIs
  <1>7. QED
    BY <1>1, <1>2, <1>5, <1>6

\* What was returned and what remains make up the dict the iterator was made
\* for, which a change spoils but never the two counts; and a panic leaves a
\* size that no dict has.
DictCounts ==
  /\ entries \in Seq(Entries)
  /\ ppos \in Nat
  /\ start \in Seq(Keys) /\ got \in Seq(Keys)
  /\ remaining \in Int /\ remaining >= -1
  /\ Len(got) + remaining = Len(start)
  /\ outcome = "panic" => di_used = -1

StillWhole ==
  dictStill =>
    /\ ppos <= Len(entries)
    /\ di_used = dict_len
    /\ got \o LiveAfter(entries)[ppos] = start
    /\ outcome # "panic"

DictInv == DictCounts /\ StillWhole

\* The keys of a table are a sequence.
LEMMA LiveIsSeq ==
  ASSUME NEW table \in Seq(Entries)
  PROVE  Live(table) \in Seq(Keys) /\ Len(Live(table)) \in Nat
  <1>1. 0 \in 0..Len(table)
    OBVIOUS
  <1>2. Live(table) \in Seq(Keys)
    BY <1>1, LiveAfterIs DEF Live
  <1>3. QED
    BY <1>2

LEMMA InitDict == DictInit => DictInv
  <1>. SUFFICES ASSUME DictInit PROVE DictInv
    OBVIOUS
  <1>1. entries \in Seq(Entries)
    BY DictIteratorAssumption DEF DictInit, Tables, SeqOf, Entries, DictIteratorAssumption
  <1>2. /\ ppos = 0 /\ got = <<>> /\ start = Live(entries) /\ outcome = "none"
        /\ remaining = Len(start) /\ di_used = dict_len
    BY DEF DictInit, dict_len
  <1>3. Live(entries) \in Seq(Keys) /\ Len(Live(entries)) \in Nat
    BY <1>1, LiveIsSeq
  <1>4. got \o LiveAfter(entries)[ppos] = start
    BY <1>2, <1>3, ConcatEmptySeq DEF Live
  <1>5. Len(entries) \in Nat /\ got \in Seq(Keys) /\ Len(got) = 0
    BY <1>1, <1>2
  <1>6. QED
    BY <1>1, <1>2, <1>3, <1>4, <1>5 DEF DictInv, DictCounts, StillWhole

LEMMA FoundKeeps ==
  ASSUME DictInv, NEW p \in DOMAIN entries, Found(p), ~SizeChanged, ~KeysChanged
  PROVE  DictInv'
  <1>1. /\ entries \in Seq(Entries) /\ got \in Seq(Keys) /\ ppos \in Nat
        /\ p \in 1..Len(entries) /\ IsKey(entries[p]) /\ PyDict_Next(p)
        /\ ppos' = p /\ remaining' = remaining - 1 /\ got' = Append(got, entries[p])
        /\ outcome' = "some" /\ UNCHANGED <<entries, di_used, dictStill, start>>
    BY DEF Found, PyDict_Next, Ahead, DictInv, DictCounts
  <1>2. entries[p] \in Keys
    BY <1>1 DEF Entries, IsKey
  <1>3. got' \in Seq(Keys) /\ Len(got') = Len(got) + 1
    BY <1>1, <1>2
  <1>4. DictCounts'
    BY <1>1, <1>3 DEF DictInv, DictCounts, KeysChanged
  <1>5. ASSUME dictStill PROVE got' \o LiveAfter(entries)[p] = start
    <2>. DEFINE rest == LiveAfter(entries)[p]
    <2>1. ppos \in 0..Len(entries) /\ got \o LiveAfter(entries)[ppos] = start
      BY <1>1, <1>5 DEF DictInv, StillWhole
    <2>2. LiveAfter(entries)[ppos] = <<entries[p]>> \o rest
      BY <1>1, <2>1, FoundIsFirst
    <2>3. rest \in Seq(Keys)
      <3>1. p \in 0..Len(entries)
        BY <1>1
      <3>2. QED
        BY <1>1, <3>1, LiveAfterIs
    <2>. HIDE DEF rest
    <2>4. <<entries[p]>> \in Seq(Keys) /\ got' = got \o <<entries[p]>>
      BY <1>1, <1>2, AppendIsConcat
    <2>5. (got \o <<entries[p]>>) \o rest = got \o (<<entries[p]>> \o rest)
      BY <1>1, <2>3, <2>4, ConcatAssociative
    <2>6. QED
      BY <2>1, <2>2, <2>4, <2>5 DEF rest
  <1>6. StillWhole'
    <2>1. dictStill => p <= Len(entries) /\ di_used = dict_len /\ outcome' # "panic"
      BY <1>1 DEF DictInv, StillWhole
    <2>2. dict_len' = dict_len
      BY <1>1 DEF dict_len
    <2>3. QED
      BY <1>1, <1>5, <2>1, <2>2 DEF StillWhole
  <1>7. QED
    BY <1>4, <1>6 DEF DictInv

LEMMA PanicsKeeps ==
  ASSUME DictInv, SizeChanged \/ KeysChanged, Panics
  PROVE  DictInv'
  <1>1. ~dictStill
    <2>. SUFFICES ASSUME dictStill PROVE FALSE
      OBVIOUS
    <2>1. remaining = -1 /\ ppos \in 0..Len(entries) /\ got \o LiveAfter(entries)[ppos] = start
      BY DEF DictInv, DictCounts, StillWhole, SizeChanged, KeysChanged
    <2>2. LiveAfter(entries)[ppos] \in Seq(Keys) /\ got \in Seq(Keys)
      BY <2>1, LiveAfterIs DEF DictInv, DictCounts
    <2>3. /\ Len(LiveAfter(entries)[ppos]) \in Nat /\ Len(got) \in Nat
          /\ Len(start) = Len(got) + Len(LiveAfter(entries)[ppos])
      BY <2>1, <2>2, ConcatProperties, LenProperties
    <2>4. QED
      BY <2>1, <2>3 DEF DictInv, DictCounts
  <1>2. QED
    BY <1>1 DEF Panics, DictInv, DictCounts, StillWhole

LEMMA ChangeKeeps ==
  ASSUME DictInv, NEW table \in Seq(Entries), DictChanges(table)
  PROVE  DictInv'
  BY DEF DictChanges, DictInv, DictCounts, StillWhole

LEMMA StepDict == DictInv /\ [DictNext]_dictVars => DictInv'
  <1>. SUFFICES ASSUME DictInv, [DictNext]_dictVars PROVE DictInv'
    OBVIOUS
  <1>1. entries \in Seq(Entries) /\ DOMAIN entries = 1..Len(entries)
    BY DEF DictInv, DictCounts
  <1>2. CASE UNCHANGED dictVars
    BY <1>2 DEF dictVars, DictInv, DictCounts, StillWhole, dict_len
  <1>3. CASE Exhausted
    BY <1>3 DEF Exhausted, DictInv, DictCounts, StillWhole, dict_len
  <1>4. ASSUME NEW p \in DOMAIN entries, PyDict_DelItem(p) PROVE DictInv'
    <2>1. [entries EXCEPT ![p] = Hole] \in Seq(Entries)
      BY <1>1 DEF Entries
    <2>2. QED
      BY <1>4, <2>1, ChangeKeeps DEF PyDict_DelItem
  <1>5. ASSUME NEW key \in Keys, PyDict_SetItem(key) PROVE DictInv'
    <2>1. Append(entries, key) \in Seq(Entries)
      BY <1>1 DEF Entries
    <2>2. Append(Live(entries), key) \in Seq(Entries)
      <3>1. Live(entries) \in Seq(Entries)
        BY <1>1, LiveIsSeq, SeqMonotonic DEF Entries
      <3>2. QED
        BY <3>1 DEF Entries
    <2>3. QED
      BY <1>5, <2>1, <2>2, ChangeKeeps DEF PyDict_SetItem
  <1>6. QED
    BY <1>2, <1>3, <1>4, <1>5, FoundKeeps, PanicsKeeps DEF DictNext, dict_next_unchecked

\* The inductive invariant of the dict iterator.
THEOREM DictInvariant == DictSpec => []DictInv
  BY InitDict, StepDict, PTL DEF DictSpec

\* Whatever its body does to the dict, a loop over it returns at most one key
\* more than the dict had (dict.rs, next_unchecked).
THEOREM DictLoopsEnd == DictSpec => []DictLoopEnds
  <1>1. DictInv => DictLoopEnds
    BY DEF DictInv, DictCounts, DictLoopEnds
  <1>2. QED
    BY <1>1, DictInvariant, PTL

\* A dict nobody changed is returned whole, in order, and len() is exact.
THEOREM StillDictIsReturned == DictSpec => []StillDictIsWhole
  <1>1. DictInv => StillDictIsWhole
    BY DEF DictInv, DictCounts, StillWhole, StillDictIsWhole
  <1>2. QED
    BY <1>1, DictInvariant, PTL

\* After the panic that reports a change no call returns a key again.
THEOREM DictPanicIsFinal == DictSpec => PanicIsFinal
  <1>1. DictInv /\ [DictNext]_dictVars => [outcome = "panic" => got' = got]_dictVars
    <2>. SUFFICES ASSUME DictInv, DictNext, outcome = "panic" PROVE got' = got
      OBVIOUS
    <2>1. Len(Live(entries)) \in Nat
      BY LiveIsSeq DEF DictInv, DictCounts
    <2>2. SizeChanged
      BY <2>1 DEF SizeChanged, dict_len, DictInv, DictCounts
    <2>3. QED
      BY <2>2 DEF DictNext, dict_next_unchecked, Panics, PyDict_DelItem, PyDict_SetItem, DictChanges
  <1>2. QED
    BY <1>1, DictInvariant, PTL DEF DictSpec, PanicIsFinal
=============================================================================
