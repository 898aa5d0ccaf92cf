---------------------------- MODULE DictIterator ----------------------------
(***************************************************************************)
(* BoundDictIterator of the fork (pyo3-fork/src/types/dict.rs): it walks   *)
(* the entry table of a dict with PyDict_Next while other code inserts and *)
(* removes keys between its steps.  The table is the interpreter's: keys   *)
(* in insertion order, a hole where one was removed, squeezed when an      *)
(* insertion finds it full.  The iterator notices a change by two counts,  *)
(* di_used and remaining, and panics; it must not walk on for ever and it  *)
(* must not take up again what it gave up.                                 *)
(***************************************************************************)
EXTENDS Integers, Sequences, FiniteSets, SequencesExt

CONSTANTS Keys,       \* keys a dict may hold
          TableSize   \* bound: the entries of a table, holes included

ASSUME DictIteratorAssumption ==
  /\ IsFiniteSet(Keys)
  /\ Cardinality(Keys) =< TableSize
  /\ TableSize \in Nat \ {0}

VARIABLES entries,     \* the dict's table
          ppos,        \* where PyDict_Next goes on
          di_used,     \* the size the dict should have, -1 after a panic
          remaining,   \* what len() answers
          got,         \* the keys returned so far, in order
          outcome,     \* of the last call: "some", "none", "panic"
          dictStill,   \* nobody changed the dict since the iterator was made
          start        \* the keys when it was made, in order

dictVars == <<entries, ppos, di_used, remaining, got, outcome, dictStill,
              start>>

Hole == "hole"
IsKey(entry) == entry # Hole

\* The keys of a table after each of its positions, in order.
LiveAfter(table) ==
  LET live[p \in 0..Len(table)] ==
        IF p = Len(table) THEN <<>>
        ELSE (IF IsKey(table[p + 1]) THEN <<table[p + 1]>> ELSE <<>>) \o live[p + 1]
  IN  live
Live(table) == LiveAfter(table)[0]
dict_len == Len(Live(entries))

\* Every table a dict may have, with the holes its past left.
Tables == {t \in SeqOf(Keys \union {Hole}, TableSize) : IsInjective(Live(t))}

\* BoundDictIterator::new
DictInit ==
  /\ entries \in Tables
  /\ ppos = 0
  /\ di_used = dict_len
  /\ remaining = dict_len
  /\ got = <<>>
  /\ outcome = "none"
  /\ dictStill = TRUE
  /\ start = Live(entries)

\* PyDict_Next finds the first entry from ppos on that is not a hole.
Ahead == {p \in DOMAIN entries : p > ppos /\ IsKey(entries[p])}
PyDict_Next(p) == p \in Ahead /\ \A q \in Ahead : p =< q

\* Wrong: the iterator is left as it was.
PanicsOnly ==
  /\ outcome' = "panic"
  /\ UNCHANGED <<entries, ppos, di_used, remaining, got, dictStill, start>>

\* Both panics leave the iterator with a size no dict has.
Panics ==
  /\ di_used' = -1
  /\ outcome' = "panic"
  /\ UNCHANGED <<entries, ppos, remaining, got, dictStill, start>>

SizeChanged == di_used # dict_len

\* Wrong: no check on remaining; one that comes a step too early.
NeverChanged == FALSE
NoneRemains == remaining = 0

KeysChanged == remaining = -1

\* next_unchecked after its two checks
Found(p) ==
  /\ PyDict_Next(p)
  /\ ppos' = p
  /\ remaining' = remaining - 1
  /\ got' = Append(got, entries[p])
  /\ outcome' = "some"
  /\ UNCHANGED <<entries, di_used, dictStill, start>>

Exhausted ==
  /\ Ahead = {}
  /\ outcome' = "none"
  /\ UNCHANGED <<entries, ppos, di_used, remaining, got, dictStill, start>>

dict_next_unchecked ==
  \/ (SizeChanged \/ KeysChanged) /\ Panics
  \/ ~SizeChanged /\ ~KeysChanged /\ Exhausted
  \/ ~SizeChanged /\ ~KeysChanged /\ \E p \in DOMAIN entries : Found(p)

\* Other code changes the dict.
DictChanges(table) ==
  /\ entries' = table
  /\ dictStill' = FALSE
  /\ UNCHANGED <<ppos, di_used, remaining, got, outcome, start>>

PyDict_DelItem(p) ==
  /\ IsKey(entries[p])
  /\ DictChanges([entries EXCEPT ![p] = Hole])

PyDict_SetItem(key) ==
  /\ key \notin Range(entries)
  /\ IF Len(entries) < TableSize
     THEN DictChanges(Append(entries, key))
     ELSE DictChanges(Append(Live(entries), key))

DictNext ==
  \/ dict_next_unchecked
  \/ \E p \in DOMAIN entries : PyDict_DelItem(p)
  \/ \E key \in Keys : PyDict_SetItem(key)

DictSpec == DictInit /\ [][DictNext]_dictVars
-----------------------------------------------------------------------------
\* A loop over a dict ends whatever its body does to the dict: at most one key
\* more is returned than the dict had when the iterator was made.
DictLoopEnds == Len(got) =< Len(start) + 1

\* A dict nobody changed is returned key by key, each once and in order, and
\* len() is at every step the number of keys still to come.
StillDictIsWhole ==
  dictStill =>
    /\ got \o LiveAfter(entries)[ppos] = start
    /\ remaining = Len(start) - Len(got)
    /\ outcome # "panic"

\* After the panic that reports a change no call returns a key again, not even
\* when the dict has its old size back.
PanicIsFinal == [][outcome = "panic" => got' = got]_dictVars

\* "If the dict is changed in such a way that the length remains constant then
\* this will panic at the end of iteration" (dict.rs:466): a loop that began
\* with the dict's first key and ends without a panic ends on the keys the
\* dict had when it began.
KeysChangePanics ==
  [][outcome = "some" /\ got[1] = start[1] /\ outcome' = "none"
       => Range(Live(entries)) = Range(start)]_dictVars
=============================================================================
