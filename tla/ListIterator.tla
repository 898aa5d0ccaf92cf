---------------------------- MODULE ListIterator ----------------------------
(***************************************************************************)
(* BoundListIterator of the fork (pyo3-fork/src/types/list.rs): a window   *)
(* index..length-1 over a list that other code may lengthen and shorten    *)
(* between two calls of the iterator, and inside one call of fold, any...  *)
(* while their closure runs.  The items are read without a check           *)
(* (get_item_unchecked), so the arithmetic on the window is all there is   *)
(* between the iterator and memory that is not the list's.  What the list  *)
(* holds is abstracted to its length: an item is its position.             *)
(***************************************************************************)
EXTENDS Integers, Sequences

CONSTANTS MaxLen,     \* bound: the longest list
          MaxUsize    \* the largest usize

ASSUME ListIteratorAssumption ==
  /\ MaxLen \in Nat
  /\ MaxUsize \in Nat
  /\ MaxLen < MaxUsize     \* a list takes eight bytes for each item

VARIABLES listLen,   \* list.len(), which other code changes
          index,     \* Index.0
          length,    \* Length.0
          nightly,   \* feature = "nightly": advance_by replaces nth
          overflow_checks,   \* the build panics when usize arithmetic overflows;
                             \* no profile asks for it, so release builds wrap
          read,      \* the position the last call read unchecked, or NoRead
          yielded,   \* the positions returned so far, in order
          skipped,   \* the positions nth and advance_by passed over
          first,     \* the length of the list when the iterator was made
          still,     \* no call has changed the length of the list since
          wrapped    \* history: nth or nth_back took a sum that wrapped for a
                     \* position

build == <<nightly, overflow_checks>>
listVars == <<listLen, index, length, build, read, yielded, skipped, first,
              still, wrapped>>

Usize == 0..MaxUsize
NoRead == -1

\* What usize arithmetic leaves in a build without overflow checks.
Wrapped(n) == n % (MaxUsize + 1)
Overflows(n) == overflow_checks /\ n \notin Usize

\* PyList::iter
ListInit ==
  /\ nightly \in BOOLEAN
  /\ overflow_checks \in BOOLEAN
  /\ listLen \in 0..MaxLen
  /\ index = 0
  /\ length = listLen
  /\ first = listLen
  /\ read = NoRead
  /\ yielded = <<>>
  /\ skipped = {}
  /\ still = TRUE
  /\ wrapped = FALSE

\* Wrong: the list may have become shorter.
LengthOnly == length

\* length.0.min(list.len()), at the head of every operation
CurrentLength == IF length < listLen THEN length ELSE listLen

\* What len(), size_hint and count answer.
IterLen == IF length < index THEN 0 ELSE length - index

Yield(position) ==
  /\ read' = position
  /\ yielded' = Append(yielded, position)
  /\ UNCHANGED <<listLen, build, first, still>>

YieldNone ==
  /\ read' = NoRead
  /\ UNCHANGED <<listLen, index, length, build, yielded, skipped, first, still,
                 wrapped>>

next_unchecked ==
  IF index < CurrentLength
  THEN /\ Yield(index)
       /\ index' = index + 1
       /\ UNCHANGED <<length, skipped, wrapped>>
  ELSE YieldNone

\* Where index.0 + n overflows in a build that checks, nth and nth_back panic
\* before they assign anything: the iterator is as it was.
nth(n) ==
  /\ ~nightly
  /\ IF ~Overflows(index + n) /\ Wrapped(index + n) < CurrentLength
     THEN LET target == Wrapped(index + n) IN
          /\ Yield(target)
          /\ index' = target + 1
          /\ skipped' = skipped \union index..(target - 1)
          /\ wrapped' = (wrapped \/ index + n \notin Usize)
          /\ UNCHANGED length
     ELSE YieldNone

next_back_unchecked ==
  IF index < CurrentLength
  THEN /\ Yield(CurrentLength - 1)
       /\ length' = CurrentLength - 1
       /\ UNCHANGED <<index, skipped, wrapped>>
  ELSE YieldNone

\* Wrong: the position returned stays in the window.
NthBackFromTheEnd(n) ==
  /\ ~nightly
  /\ IF ~Overflows(index + n) /\ Wrapped(index + n) < CurrentLength
     THEN LET target == Wrapped(CurrentLength - n - 1) IN
          /\ Yield(target)
          /\ length' = CurrentLength - n
          /\ skipped' = skipped \union (target + 1)..(CurrentLength - 1)
          /\ wrapped' = (wrapped \/ index + n \notin Usize)
          /\ UNCHANGED index
     ELSE YieldNone

nth_back(n) ==
  /\ ~nightly
  /\ IF ~Overflows(index + n) /\ Wrapped(index + n) < CurrentLength
     THEN LET target == Wrapped(CurrentLength - n - 1) IN
          /\ Yield(target)
          /\ length' = target
          /\ skipped' = skipped \union (target + 1)..(CurrentLength - 1)
          /\ wrapped' = (wrapped \/ index + n \notin Usize)
          /\ UNCHANGED index
     ELSE YieldNone

\* Where an advance by n ends that starts with the given number of items left.
Advanced(n, left) == IF n < left THEN n ELSE left

advance_by(n) ==
  /\ nightly
  /\ IF index < CurrentLength
     THEN LET passed == Advanced(n, CurrentLength - index) IN
          /\ index' = index + passed
          /\ skipped' = skipped \union index..(index + passed - 1)
          /\ read' = NoRead
          /\ UNCHANGED <<listLen, length, build, yielded, first, still, wrapped>>
     ELSE YieldNone

advance_back_by(n) ==
  /\ nightly
  /\ IF index < CurrentLength
     THEN LET passed == Advanced(n, CurrentLength - index) IN
          /\ length' = CurrentLength - passed
          /\ skipped' = skipped \union (CurrentLength - passed)..(CurrentLength - 1)
          /\ read' = NoRead
          /\ UNCHANGED <<listLen, index, build, yielded, first, still, wrapped>>
     ELSE YieldNone

\* Other code appends, removes, clears.
ListMutates ==
  /\ listLen' \in 0..MaxLen \ {listLen}
  /\ still' = FALSE
  /\ read' = NoRead
  /\ UNCHANGED <<index, length, build, yielded, skipped, first, wrapped>>

\* Bound: an iterator that wrapped may return items for ever; one that did not
\* never returns more than MaxLen (LenIsABound).
MayCall == Len(yielded) =< MaxLen

ListNext ==
  \/ MayCall /\ next_unchecked
  \/ MayCall /\ next_back_unchecked
  \/ MayCall /\ \E n \in Usize : nth(n)
  \/ MayCall /\ \E n \in Usize : nth_back(n)
  \/ MayCall /\ \E n \in Usize : advance_by(n)
  \/ MayCall /\ \E n \in Usize : advance_back_by(n)
  \/ ListMutates

ListSpec == ListInit /\ [][ListNext]_listVars
-----------------------------------------------------------------------------
ListTypeOK ==
  /\ listLen \in 0..MaxLen
  /\ index \in Usize
  /\ length \in Usize
  /\ nightly \in BOOLEAN
  /\ overflow_checks \in BOOLEAN
  /\ read \in Usize \union {NoRead}
  /\ yielded \in Seq(Usize)
  /\ skipped \subseteq Usize
  /\ first \in 0..MaxLen
  /\ still \in BOOLEAN
  /\ wrapped \in BOOLEAN

\* An item is read without a check only at a position the list has then,
\* whatever other code made of the list since the iterator was made and
\* whatever n nth and nth_back were given: what get_item_unchecked asks of its
\* caller (list.rs:181).  Only builds with overflow checks keep it.
ReadsAreInBounds == read # NoRead => read < listLen

\* Front and back never meet twice: no position is returned twice or returned
\* after it was passed over, and in a list nobody resizes every position was
\* returned, passed over, or is still ahead.  Only builds with overflow checks
\* keep it.
EachPositionOnce ==
  /\ \A i, j \in DOMAIN yielded : yielded[i] = yielded[j] => i = j
  /\ \A i \in DOMAIN yielded : yielded[i] \notin skipped
  /\ \A i \in DOMAIN yielded : yielded[i] \notin index..(length - 1)
  /\ still => 0..(first - 1) = skipped \union index..(length - 1)
                                 \union {yielded[i] : i \in DOMAIN yielded}

\* What len() promises never grows: what was returned and what len() still
\* promises never exceed the list the iterator was made for.  A loop that
\* appends to the list it walks ends.  Only builds with overflow checks keep it.
LenIsABound == Len(yielded) + IterLen =< first

\* The iterator's arithmetic did what it says: always in a build with overflow
\* checks; in one without them, as long as no index + n of nth or nth_back
\* wrapped to a position below the length (list.rs:561, 632).
Exact == overflow_checks \/ ~wrapped

\* In a build with overflow checks, and in one without them as long as no sum
\* wrapped, no unchecked read is outside the list (list.rs:525-648).
ReadsAreInBoundsUnlessWrapped == Exact => ReadsAreInBounds

\* In a build with overflow checks, and in one without them as long as no sum
\* wrapped, front and back share the list out (list.rs:517-650).
EachPositionOnceUnlessWrapped == Exact => EachPositionOnce

\* In a build with overflow checks, and in one without them as long as no sum
\* wrapped, len() is a bound on what is still to come (list.rs:949).
LenIsABoundUnlessWrapped == Exact => LenIsABound
=============================================================================
