# A verification project for pyo3-rustpython

The repository holds two things that must agree about what a Python interpreter
is: `pyo3-fork/`, a fork of PyO3 0.24 whose core makes Rust code safe in a
multi-threaded CPython, and `crates/pyo3-rustpython` with
`crates/pyo3-rustpython-derive`, a second backend that offers the same interface
on top of the RustPython virtual machine. This directory models the parts of both
that keep state, checks them with TLC on small instances, and proves the most
important results with TLAPS for every value of the constants.

## 1. Inventory

### The fork (`pyo3-fork/src`)

| Part | State | Operations | What is hard | What makes it correct |
|---|---|---|---|---|
| GIL bookkeeping: `gil.rs`, `marker.rs`, `_call_traverse` of `impl_/pymethods.rs` | per thread `GIL_COUNT`, the guards alive on its stack (`GILGuard`, `SuspendGIL`, `LockGIL`); a global pool of deferred decrefs | acquire, assume, drop; suspend and restore; traverse; `register_incref`, `register_decref`, `update_counts` | guards nest with interpreter calls in any order; the evaluation loop gives the GIL away behind the count's back; the pool is applied by other threads than the ones that filled it | a positive count means the GIL is held; counts come back to zero; reference counts are exact |
| `GILOnceCell`: `sync.rs:122-380` | a `Once`, an uninitialised slot | get, get_or_init, get_or_try_init, set, take, drop | the initialiser runs outside the `Once`, yields, fails, re-enters; losers of the race discard their value | written at most once; everybody sees the same value; no value is lost or dropped twice; the final `unwrap` cannot fail |
| Attached locks: `sync.rs:515-699` | a std `Mutex`, a std `Once` | `lock_py_attached`, `call_once_py_attached`, `call_once_force_py_attached` | a lock order between the GIL and the lock; panics; poison | no deadlock with the interpreter; one initialiser; poison is reported |
| Borrow checking: `pycell.rs`, `pycell/impl_.rs` | one atomic word per object | `try_borrow`, `try_borrow_mut` and their releases | lock-free; two meanings in one word | a readers-writer discipline |
| Error state: `err/err_state.rs` | a `Once`, a mutex with a thread id, an `UnsafeCell` | `as_normalized`, `restore` | normalisation runs Python code inside a `Once`, without a lock on the cell | normalised once; references stay valid; re-entry panics instead of deadlocking |
| Type objects: `impl_/pyclass/lazy_type_object.rs` | two `GILOnceCell`s, a list of thread ids, the type's dictionary | `get_or_try_init`, `ensure_init` | class attributes are user code that may come back, yield or fail | nobody outside sees an unfilled type; the dictionary is filled once, from one computation |
| Coroutines: `coroutine.rs`, `coroutine/` | a Rust future, a waker that becomes an asyncio future, a pending exception | poll, wake, throw, cancel, close | wake-ups from any thread, before, during and after the asyncio future is made | no lost wake-up; none reaches a future of another poll; an event is polled in the end |
| Argument extraction: `pyo3-macros-backend/src/pyfunction/signature.rs`, `params.rs`, `impl_/extract_argument.rs` | at compile time `ParseState` and the `PythonSignature` it fills; in each call an array of options | `add_argument`, `add_varargs`, `add_kwargs`, `finish_*`; `extract_arguments_fastcall`, `extract_arguments_tuple_dict`, `handle_kwargs`, the checks for what is missing, the generated reads | three pieces of code, of which one runs in the compiler, agree on the index of every parameter; keywords come in any order | a call binds as in Python; a parameter without a default is set when it is read, which is undefined behaviour otherwise |
| Iteration: `types/list.rs`, `types/dict.rs` | a window over a list; a position in a dict and two counts | `next`, `next_back`, `nth`, `nth_back`, `advance_by`, `advance_back_by`, `len` | the list or dict changes between two calls, or inside `fold`; list items are read without a check | reads in bounds; every position once; loops end; a reported change is final |
| Free lists: `impl_/freelist.rs`, `impl_/pyclass.rs:935-1000` | a bounded stack of pointers behind a mutex | `alloc_with_freelist`, `free_with_freelist` | both let go of the mutex before they initialise or free; subclasses inherit `tp_free` | no block is handed out twice; only memory of the class is on its list |
| Module initialisation, trampolines, object initialisation | an interpreter id, a `GILOnceCell`; none; none | | small, sequential under the GIL, or a use of a part above | |
| Bindings and macros: `pyo3-ffi`, `pyo3-macros-backend` | none | | declarations and code generation | |

### The RustPython backend (`crates/`)

| Part | State | Operations | What is hard | What makes it correct |
|---|---|---|---|---|
| VM context: `python.rs`, and the wrappers that the derive crate generates | thread-local `CURRENT_VM`, a leaked `EMBEDDED_INTERPRETER` | `from_vm`, `with_gil`, `attach`, `assume_attached` | the wrappers use it in three different ways and nothing undoes `from_vm`; panics skip restores | code with a token finds a VM, the right one, and one that is alive |
| Objects: `instance.rs`, `pyclass.rs` | counted references of RustPython | `borrow`, `borrow_mut` | `PyRefMut` and setters have no borrow flag, and Python code may come back | sole access of a `&mut` |
| Closures, capsules, locks: `types/callable.rs`, `types/capsule.rs`, `sync.rs` | a `Mutex` around the user's closure or destructor | call, drop | re-entrant calls, panics | a call does not wait for itself |
| Errors, C API: `err.rs`, `ffi/` | thread-local `CURRENT_EXCEPTION` | `restore`, `fetch`, the `PyErr_*` shims | set by one call, fetched by another | an error is fetched by who raised it |
| Conversions, collections, buffers, slots | none of their own | | delegation to the interpreter | |

The parts interact through the GIL token (`Python<'py>`): everything in the fork
that may block or run Python code either has the token, or gives the GIL away with
`SuspendGIL` and takes it back. `LazyTypeObject` is made of two `GILOnceCell`s,
`PyErrState` of a `Once`, a mutex and `allow_threads`. In the RustPython backend the
token *is* a reference to a VM, and `CURRENT_VM` is how code without one gets it.

## 2. Plan

In this order; all of these are here.

1. `Gil` with the reference pool (everything else rests on it).
2. `GilOnceCell`, implementing the abstract `WriteOnce`.
3. `AttachedLocks`: the GIL against std's locks.
4. `PyCell`, implementing the abstract `ReadersWriter`.
5. `ErrState`: a `Once` with user code in it.
6. `LazyType`: user code between two `GILOnceCell`s.
7. `VmContext`: how the RustPython backend finds the VM.
8. `Coroutine` (`coroutine.rs`, `waker.rs`, `cancel.rs`): wake-ups, cancellation
   and re-polls.
9. `Arguments`: what the macro makes of a signature, and what a call makes of it.
10. `ListIterator` and `DictIterator`: iteration while the collection changes.
11. `FreeList`: memory between two objects.
12. `Payload`: the backend's references to a payload.
13. Proofs for `LazyType`, `Coroutine`, `FreeList`, `DictIterator`, and of
    `AnswersAsPython`.

What could come next: a model of the `PyCFunction` closures
(`types/callable.rs`) and of `CURRENT_EXCEPTION` (`err.rs`), the two hazards
without a property.

The components of 4, 7 and 9 to 11 have nothing to do with each other but the question
asked of them, what a raw pointer or an unwrapped option finds, and are small:
`MCUnchecked` runs them in turn. In the same way `MCLazily` runs 2 and 6, what is made on
first use, and `MCBlocking` 3 and 5, where a thread with the GIL waits inside std. The type
invariants of the modules that have a proof of it are proved and need no run.

## 3. The modules

Every module names the code it models in its header; `PROJECT.json` maps each
definition to its lines. Operators marked *Wrong:* are mutations of the definition
after them, used to see that a property notices; no specification uses them.
One action is one stretch of code in which no other thread can be observed: a guard
taken or dropped, one atomic operation, one critical section of a mutex, one piece
of user code between two points where it may yield.

**`Gil`** (`gil.rs`). `gil` is the interpreter's lock, `count[t]` is `GIL_COUNT`,
`stack[t]` are the RAII guards and interpreter activations of thread *t*: the
fields a guard stores are fields of its frame. `GILGuard::acquire` is `Acquire`
(the check), `Ensure` or `EnsureBails` (after `PyGILState_Ensure`), or `Assume`;
each ends in `UpdateCounts`, as in the code. `SuspendGIL` restores the count
*before* it has the GIL again (`SuspendDrop`, `RestoreThread`), as in the code.
`_call_traverse` is `TraverseBegin` and `TraverseEnd`. A handle is one owned
`Py<T>`; `place[h]` says whether somebody holds it, the pool has it, or a thread has
taken it out of the pool to apply it (`DrainOne`, one decref each, since a decref
may run Python code, which may drop more). The interpreter may start threads, call
back, and hand the GIL over whenever it runs.

**`Interpreter`** is the part of that which the next modules share: the threads, who has the
GIL, and how `SuspendGIL` gives it away and takes it back. What the library counts is
left to `Gil`.

**`GilOnceCell`** (`sync.rs`) has the build (`freeThreaded`) as a variable that never
changes, so that one run covers both. `pc[t]` is the step of the innermost call,
`depth[t]` the initialisers that are running, `hand[t]` a value that was computed
and is neither written nor dropped. `computed`, a history variable, are the values
that an initialiser has ever returned: it lets `OneOwner` say that none is lost, and not only
that none is in two places. `SetBegin`/`SetWrite` are the closure of
`call_once_force`, `SetLoses` the `Err(value)` that `init` drops. `take` and `replace`
(the cell's `Drop`) have `&mut self`, so nobody is in a call or has a reference.
**`WriteOnce`** is what it promises: written when empty, read when written, emptied
when nobody has a reference. The refinement maps the cell to its data while the
`Once` is complete and to nothing otherwise, and the answers to the references.

**`AttachedLocks`** (`sync.rs`). Its general names begin with `Locks`, those of `GilOnceCell`
with `Cell`, as each is run together with a second module. `mpc` and `opc` are the steps of the mutex's and the
`Once`'s calls, since the second may be inside the critical section of the first.
Panics unwind through the critical section (`Unwind`) and poison the mutex; a panic in
the closure poisons the `Once`, and the `force` variant runs on a poisoned one.

**`PyCell`** (`pycell/impl_.rs`). Each *ref* is a `PyRef` or `PyRefMut` that somebody
tries to make. `increment` is split at its load and at its `compare_exchange`.
`UsizeMax` is a constant, so that the limit is within TLC's reach.
**`ReadersWriter`** is the abstract discipline; the refinement maps readers and
writers to the refs that are shared and mutable.

**`ErrState`** (`err_state.rs`). `pc[t]` goes through `as_normalized` and
`make_normalized` statement by statement, `nested` are threads in a call that their
own closure made. A panic poisons the `Once` from inside and `normalizing_thread`'s
mutex from the `assert`; both are modelled, with what later calls make of it.

**`LazyType`** (`lazy_type_object.rs`). `calls[t]` are thread *t*'s calls of
`ensure_init` that are computing attributes, each with the number it has. The
creation of the type object is one step (it is a `GILOnceCell`, modelled on its own).
`Fill(t, n)` sets the first *n* attributes: all, or up to the one that fails.

**`VmContext`** (`python.rs`, `derive/src/*`). One thread: all of the state is
thread-local. A frame is an `Interpreter::enter`, Python code, or Rust code: with a
token from `from_vm` (`CallRust`), without one (`CallPlain`, a wrapper that needs
neither token nor conversion on the way in), with what `assume_attached` found, or, in a
method with `#[pyo3(signature)]`, with what `from_vm` makes of the VM that calls
(`CallMethod`), or in `with_gil`. The wrapper of a function may call `from_vm` once more for its
result (`Return`). A frame of `CallMethod` with no token is the panic of
`assume_attached`; it can only unwind.

**`Coroutine`** (`coroutine.rs`, `waker.rs`, `cancel.rs`). `pc` is the step of
`Coroutine::poll` on the loop's thread: `Send` or `Throw`, `NewWaker` (reset in place
or a new `Arc`), the Rust future's own steps, then `initialize_future` in three parts,
since `LoopAndFuture::new` calls Python between the check and the set. Polls are
numbered, and an asyncio future has its poll's number; `cell[w]` is the `GILOnceCell` of
waker *w*. A thread takes the clone from the source in the step that posts the event
(`Post`), finds the future when it has the GIL (`WakeByRef`), and queues
`release_waiter` (`SetResult`). The Rust future is any that registers its waker before
it is pending, or that yields by waking itself, and that may wait for its
`CancelHandle`; the asyncio task is what CPython's `Task.__step` and `cancel` do. A
future may release the GIL with `allow_threads`, so threads may wake it during a poll.

**`Arguments`** (`signature.rs`, `params.rs`, `extract_argument.rs`). The initial
states are all sequences of items, the `py` argument of the Rust function among them,
well formed or not. The first half of a behaviour is the macro: one action per method of
`ParseState`, `Bail` for their errors. The second half is a call with any number of
positional arguments, by one of the two conventions (`extract_arguments_fastcall`,
`extract_arguments_tuple_dict`), and then any distinct keywords, one step each, in any
order (`TakeKeywordOnly`, `TakePositional`, `TakePositionalOnly`, `TakeUnknown`, in the
order in which `handle_kwargs` tries them). `ReadArguments` is the generated code. A
parameter's name is its index among the items; a value is named after where it came
from. What Python makes of the same items and arguments is defined next to it from
the items alone (`Binds`, `Conflict`, `Lacks`, `Value`). Conversions of the values, the
texts of errors, and the checks that a signature names the function's arguments are left out.

**`ListIterator`** (`types/list.rs`) abstracts a list to its length and an item to its
position. Feature `nightly`, which replaces `nth` by `advance_by`, and `overflow_checks`, which
says whether `index.0 + n` panics or wraps, are variables that never change, so that one run
covers the four builds. `wrapped` is the history of it: a call has taken a sum that wrapped for
a position. From then on, in a build without the checks, positions come back, calls never end, and
`MayCall` bounds them. `ReadsAreInBounds`, `EachPositionOnce` and `LenIsABound` say what
the code promises without a condition, and `...UnlessWrapped` what it keeps.
`fold`, `any` and the like repeat `next` with user code in between, which is `ListMutates`.

**`DictIterator`** (`types/dict.rs`) has the interpreter's table of entries, with the
holes that removed keys leave, since `PyDict_Next` walks that table: a dict may have its
old size and other keys. `dict_next_unchecked` is the code, the rest is external.

**`FreeList`** (`impl_/freelist.rs`, `impl_/pyclass.rs`): where each block of memory is.
`AllocHit` and `PyObject_Init`, `FreeRefused` and `PyObject_Free` are separate steps, since
the mutex is free between them. `class[b]` is the type of the object in a block;
`Extended` adds a `#[pyclass(extends = T)]`.

**`Payload`** (`instance.rs`, `derive/src/pymethods.rs`, `derive/src/pyclass.rs`): the
stack of calls on one thread, each with the payload it refers to and how. Nothing in the
code refuses a call, and nothing does in the model.

**`MCUnchecked`** puts six of these together: `part` says which one runs, the others
stay in an initial state, so the states are the sum of the six and not their product.
**`MCLazily`** (`GilOnceCell`, `LazyType`) and **`MCBlocking`** (`AttachedLocks`, `ErrState`) do
the same for two each. The parts of a run share nothing but the interpreter, so that
a property of one says nothing of the others. In `MCBlocking` each part has its own fairness.

## 4. What the runs show

| Run | Instance | Shows |
|---|---|---|
| `gil` | 2 threads, 3 handles of one object, 4 operations each, fair | counts, GIL and reference counts agree in every nesting of guards; every thread gets out; a queued decref is applied |
| `lazily`: cells | 3 threads, 4 values, depth 2, both builds | `GILOnceCell` implements `WriteOnce`; every value that was computed is in exactly one place |
| `lazily`: types | 3 threads, 2 attributes, 4 operations, 2 nested calls | a returned type is filled, once, consistently |
| `blocking`: locks | 3 threads, 3 operations each, fair | no deadlock, no return before initialisation, poison reported |
| `blocking`: errors | 3 threads, 4 operations each, fair | one normalisation, no conflicting access, re-entry panics, no deadlock |
| `coroutine` | 2 threads, 2 events, a cancellation, a yield, a second await, fair | no wake-up is lost or goes to the wrong future; no future is set twice; an event is polled |
| `unchecked`: calls | signatures of up to 5 items, 4 positional arguments, 6 keywords | the macro compiles exactly the well-formed signatures; a call binds, or is refused, as in Python; required parameters are set |
| `unchecked`: lists | lists of up to 4 items, `usize::MAX` = 6 | unless a sum wrapped in a build without overflow checks: reads are in bounds; every position is returned once, passed over once, or still ahead |
| `unchecked`: dicts | 3 keys, tables of 4 entries | a loop ends; a dict nobody changed is returned whole; the panic is final |
| `unchecked`: borrows | 5 refs, `usize::MAX` = 3 | the flag implements `ReadersWriter`, at the limit too |
| `unchecked`: free lists | 4 blocks, capacities 0 to 3 | no block is handed out twice; the list is never corrupt |
| `unchecked`: interpreters | 2 interpreters and the embedded one, 5 nested calls, 6 calls | code with a token finds a VM; the embedded interpreter is bound once |
| `err_restore`, `lazy_reentry`, `vm_tokens`, `sole_accessor`, `freelist_subclass`, `list_wraps`, `dict_keys` | smaller instances | the seven disagreements below |

**Bounds.** Three threads are enough for a winner, a loser and a bystander (someone
who comes later, or holds what the loser waits for); with two, "another thread" and
"the one that holds it" coincide. `Gil` has two threads, as its threads meet only at
the GIL and at the pool, and spends its states on depth: four operations of each
thread reach a suspension under a callback under a guard, or a drain in which another
drain is started. Three handles of one object let one be queued, one
taken and one cloned. Five refs exceed `usize::MAX` = 3 twice over, so
the count reaches the mark of a mutable borrow and others are refused there. Two
attributes make a fill that stops half way. Five nested calls hold an interpreter, a
wrapper, a second interpreter, Python code and a method in it. The bounds on operations
(`MaxOps`, `MaxLockOps`, `MaxCalls`) only limit what users start: everything that was started can
finish, which is why `Finished` is the only state in which a run may stop. `unchecked` does
not check for deadlocks, since a caller, a loop or a thread may end at any point; nor does `coroutine`,
whose loop may wait for events that nobody posts, or be closed. There, two
events on two threads let one wake-up be under way from an earlier poll while
the next poll is woken by the other, and `MaxPolls` only names polls: `TypeOK`
shows that it is never reached. Five items hold a
required and an optional parameter, a separator, a parameter after it and `**kwargs`, in all
orders, and the same item twice; four positional arguments fill three parameters and leave
one over; six keywords are a name for each item and one for none. A `usize::MAX` of 6 over lists of 4 lets
`index + n` overflow and come out on both sides of the length, in builds with and without overflow
checks; `MayCall` lets an iterator return one item more than the longest list has, which is
one more than an iterator that did not wrap ever does (`LenIsABound`). Four entries for three keys
leave a hole to insert past and a table to squeeze. A capacity of 3 holds two
blocks, since `insert` refuses the last slot, so that blocks are on the list, refused and in use together.

**Fairness.** `gil` assumes that a thread that can take steps continually does
(`WF` on `Step(t)`); since operations are bounded, the optional ones run out.
`blocking` assumes it of `LocksContinue(t)` and `Continue(t)` only, which leaves out entering,
yielding and calling: what a thread in a call, or with the GIL, does next. That is what
the operating system's scheduler gives every thread, and it includes that a thread
which waits for the GIL or a lock gets it if it is continually free; a thread
that finds it taken again and again is not promised anything, and the bounded
operations are what ends that. `coroutine` assumes it of the poll's steps, of
the loop's queue, and of threads that have taken a waker; not of posting, cancelling
or closing. User code is assumed to end.

**What the disagreements are.**

- `err_restore`: `restore` expects that "PyErr state should never be invalid outside of
  normalization" (`err_state.rs:58`). A closure that panics in `make_normalized` leaves
  `inner` empty for good, and a later `restore` of the error panics.
- `lazy_reentry`: the list of initialising threads is cleared under the comment
  "Initialization successfully complete" (`lazy_type_object.rs:185`), but also after a
  failure. Another thread that is still computing attributes is forgotten, and its
  re-entrant call does not "just return the type object" (line 123) but computes again.
- `vm_tokens`: the pointer in `CURRENT_VM` should be "only read while the VM is alive"
  (plan of 2026-04-02, line 174) and "cleared on exit via an RAII `VmGuard`" (design of that
day, line 273). `from_vm` sets it for good: once the host has dropped the
  interpreter, `with_gil` on that thread uses it still.
- `sole_accessor`: "The PyRef is the sole accessor in this context" (`instance.rs:956`), and
  for setters "no other code holds a reference during the setter" (derive
  `pyclass.rs:355`). A method with `&self` calls Python code, which calls a method with `&mut self`
  of the same object, on the one thread there is: a `&mut` beside a reference in use.
- `freelist_subclass`: `free_with_freelist` needs "an instance of T (not a subclass)"
  (`impl_/pyclass.rs:970`) and asserts it in debug builds; a `#[pyclass(extends = T)]` inherits
  it as its `tp_free`. A block of the subclass ends on T's list, where T's next allocation may
  find it.
- `list_wraps`: for `get_item_unchecked` the "caller must verify that the index is within the bounds
  of the list" (`list.rs:181`, 317). `nth_back` verifies `index.0 + n < length` (`list.rs:632`), and
  no Cargo profile turns overflow checks on in release builds. There, after one `next()` on a
  list of one item, `nth_back(usize::MAX)` adds 1 and `usize::MAX`, gets 0, which is below the
  length, and reads at 1 - `usize::MAX` - 1, which wraps to 1: outside the list.
- `dict_keys`: "If the dict is changed in such a way that the length remains constant then this will
  panic at the end of iteration" (`dict.rs:466`). It panics only if one key more than the dict
  had is asked for: a key inserted into a table that is squeezed for it lands
  before the position, and the loop ends without a word.

## 5. What is proved

All theorems hold for any constants that satisfy the modules' assumptions (the
special values are not members of the sets they stand beside; bounds are natural
numbers; `Handles`, `Refs`, `Blocks` and `Keys` are finite; the attributes of a type are a
sequence without repetitions). The proofs are in the `...Proof` modules: one per component,
except that `UncheckedProof` and `CallProof` hold the small ones.

- **`GilProof`**: `Types`, `CountImpliesGil`, `IdleIsDetached`. None is inductive: what
  a guard restores was saved long ago. `GilInv` says of the stack that each frame
  saved exactly what its predecessor left (`Linked`, `After`), and that a thread has the
  GIL exactly if its innermost frame says so (`Attached`). Pushing a frame that fits and
  popping one keep a stack linked (`PushLinked`, `PopLinked`), and each
  action does one of the two or neither. In its second part, `RefcountExact` from the types
  alone, counting the handles of an object
  with the theorems on cardinality: each action moves one handle, or moves
  handles between places that count alike. `RefcountUnderGil` uses `GilInv` (a thread that
  changes a count is attached, so that the GIL is its own, not just somebody's), `NoResurrection` uses `RefcountExact` (a handle that
  is cloned counts).
- **`GilOnceCellProof`**: the cell implements `WriteOnce`. `CellInv` adds that the writer
  is alone and the `Once` running, that a written cell has a value, and that every
  reference is to the current value. `OneOwner` is about the set of computed values: the values
  that are dropped, taken, written or in a hand are these, no two of the places share one.
- **`AttachedLocksProof`**: all safety properties, from `LocksInv`: one call at a time,
  one closure, and a thread waiting to return has seen the `Once` completed.
- **`UncheckedProof`**, borrow flag: it counts the borrows and implements `ReadersWriter`, for any
  word size. The value that was read plays no part in the invariant, which is the
  reason why the loop is right.
- **`ErrStateProof`**: all safety properties, from `ErrInv`: the thread in the `Once` is
  alone and is the one recorded; what each step finds in `inner`; and every trace of
  a panic has the closure as its cause.

- **`UncheckedProof`**, list iterator: `ReadsAreInBoundsUnlessWrapped`, `EachPositionOnceUnlessWrapped` and
  `LenIsABoundUnlessWrapped`, for lists of any length, of any history, and for all builds.
  `ListInv` says that nothing wraps in a build with overflow checks, and that the window
  (`WindowInv`) is as it should be as long as nothing has wrapped. What happens after a sum wrapped,
  which only a release build can reach, is `list_wraps`.
- **`UncheckedProof`**, free list: `NeverHandedOutTwice`, for any number of blocks and any
  capacity. `FreeListInv` says that the slots below `split` hold blocks, no two the same,
  and that a block is in one of them exactly if its place is the list. The steps between
  the mutex and the interpreter's call move blocks between the other places only, which is
  why it is sound to let go of the mutex there.
- **`UncheckedProof`**, dict iterator: `DictLoopEnds`, `StillDictIsWhole`, `PanicIsFinal`, for
  tables of any size with any holes. What was returned and the count of what remains make up the
  size at the start, whatever the dict has become (`DictCounts`); while nobody changes the
  dict, the keys from the position on are what remains (`StillWhole`). The keys after a
  position are a recursive function (`LiveAfter`); that `PyDict_Next` finds the first of
  them behind any number of holes (`HolesAreSkipped`) is an induction over the table. The
  library's induction theorems cannot be instantiated here, so it is done on the least slot of
  a set of counterexamples, which exists because `<` is well-founded on the natural numbers.
- **`LazyTypeProof`**: all five properties, for any threads, attributes and depth of calls.
  `LazyInv` is the conjunction of them with the types of the calls (sequences of any
  length) and `CreatedFirst`: nobody computes attributes before the type object exists.
  Together they are inductive, one alone is not: that a served type is filled needs to
  know what the list of threads says, since a re-entrant call is told by it.
- **`CoroutineProof`**: `NoLostWakeUp`, `WakesOwnPoll` and `DoneIsFinal`, for any threads,
  events, cancellations and yields. The invariant has two parts. `ClonesFit`: a
  waker that somebody has a clone of is never reset, so a clone of the current waker is
  of the current poll, and what is in its cell is nothing, `None` or that poll's future.
  `WakeUp`: from where the Rust future is pending until the task goes on, the wake-up is at
  the source, in a thread's hand, a `None` in the cell, or a release in the queue. `DoneIsFinal`
  needs that a poll's future is made once (`Fresh`). The second half of the module shows that no
  poll is made for nothing (`PollsArePaid`): every poll but the first is paid for by an event, a yield,
  a cancellation or a new await, since all wake-ups of the current waker make one and the
  same poll due (`Due`), and those of an earlier one none. So `MaxPolls`, which must
  exceed the sum of these bounds by two, only names polls and never stops one; this is
  in `TypeOK`, which is proved with it.
- **`CallProof`**, arguments: `CompilesWellFormed`, `RequiredAreSet` and `AnswersAsPython`, for
  signatures and calls of any length. The macro numbers the parameters in the order in which the
  generated code reads them back (`Numbered`), what it counts as required is what has no
  default (`Counted`), and once the checks of a call have passed, the slots of the required
  parameters are set (`Checked`), because no keyword empties a slot. For `AnswersAsPython` the
  three pieces of code and Python's rules, which speak of the items alone, have to be
  related. `Placed` does so for the macro: a parameter is keyword-only exactly if its
  number is beyond the positional ones, positional-only exactly if it is at most
  the count taken at the `/`, and the number of a name in either list is its place there. `Answers` does so for a call: after
  any set of keywords, in whatever order they came, each option is what
  Python binds (`Options`), `*args` is what is left of the positional arguments (`Rest`), and
  what names no parameter is set aside. Each check that refuses a call is then shown to be
  one of Python's, and a call that passes them all to violate none.
- **`CallProof`**, VM: `AttachedFindsAVm` and `BoundOnce`, for any interpreters and any
  depth of calls. Neither is inductive, as a return from `with_vm_bound` clears the pointer
  whoever is below: `BoundIsFirst` says that nobody below has a token, because there was no
  VM when the frame was pushed, and `EmbeddedIsBound` that code on the embedded
  interpreter is above that frame, until a panic takes it away.

**Only model-checked**: liveness, as the prover has no fairness (`QueuedDecrefApplied` and
`EveryThreadLeaves` of `Gil`, `EveryThreadLeaves` of `ErrState`, `EveryCallReturns` of
`AttachedLocks`, `EventIsPolled` of `Coroutine`), and the absence of deadlock. Every invariant and every
action property of the passing runs is the statement of a theorem. The disagreements are traces.
**Only proved**: the type invariants of `Gil`, `GilOnceCell`, `AttachedLocks`, `PyCell`,
`ErrState`, `Arguments`, `VmContext` and what follows shortly from the invariants (`IdleIsDetached`,
`OneInitialiser`, `FlagExact`, `LenIsABoundUnlessWrapped`); TLC has agreed with each on the instances
above, and no run repeats what a theorem says in general.

## 6. Assumptions and limits

- `Gil` models the build with a GIL. In `EnsureBails`, the `PyGILState_Ensure`
  that came before the panic is never released, in the code as in the model; the
  interpreter's own counter is not modelled, so this cannot be seen.
- Users of `AttachedLocks` do not lock the mutex inside the `Once`'s closure, nor
  call the `Once` in it: std deadlocks there by its own documentation. `ErrState` has one
  error: closures of two errors that normalise each other can deadlock.
- In `ErrState`, a caught re-entry panic poisons the mutex, and calls of other threads
  panic on it from then on; `PanicsOnlyIfDisturbed` counts this as the closure's doing.
- `LazyType` takes filling the dictionary as atomic, as the comment in the code does;
  this needs that setting an attribute does not run Python code that yields.
- Memory ordering: the atomics are modelled as sequentially consistent; each is the
  only synchronisation on its word.
- `VmContext` has one thread. Where Python starts a thread, its first method call on
  an instance panics (`python.rs:81`), unless Rust code with a token ran on it before; this
  is in the model (`pythread`) and is what bounds `AttachedFindsAVm`.
- In `Coroutine`, the wake-up inside `throw` is one step, and the mutex of the
  `CancelHandle` is not a variable: only the loop's thread takes it. A future that hands
  its `CancelHandle` to another thread, which calls `is_cancelled` with the GIL while
  `throw` runs Python code under the mutex, is outside the model. Two tasks do not
  await one coroutine at the same time (the object's borrow flag refuses a poll in a poll).
- `ListIterator`: a build without overflow checks is covered by `list_wraps` and by the condition in
  the names of the other properties. `nth` wraps there as well (`list.rs:561`): after one `next()`,
  `nth(usize::MAX)` gets 0 and returns position 0 a second time, so that `EachPositionOnce` and
  `LenIsABound`, as they stand, fail there too. A read outside the list is
  undefined behaviour, and what comes after it is not modelled. The iterator declares itself
  fused (`list.rs:955`), but keeps its window when it returns `None` because the list has become
  short (`list.rs:529`), and goes on when the list grows back; that is in the model (`YieldNone`,
  `ListMutates`) and has no run of its own.
- `DictIterator`: `len()` is `remaining as usize`, which is `usize::MAX` when one key more than the
  dict had was returned. No property of the module speaks of `len()` of a changed dict.
- `FreeList`: a class statement in Python gives its type a `tp_free` of its own; a
  `#[pyclass]` without one inherits its base's. `PyObject_Init` is called twice (`impl_/pyclass.rs:958-959`),
  which takes two references to a heap type; the model has no reference counts of types. A list
  "of size N" (`guide/pyclass-parameters.md:11`) holds N - 1 blocks.
- In `Arguments`, the keywords of a call are distinct, as the interpreter sees to it. `*args`
  and `**kwargs` are not named by keyword. A name that is not UTF-8 is a name of no parameter.

**Not modelled**: everything listed as such in `PROJECT.json`, with the reason there. By lines
this is most of the repository: the examples vendor whole crates (JSON Schema and its
dependencies); `pyo3-ffi` declares CPython's functions; the macros generate text, and what
the generated code does is in `Arguments`, `VmContext` and `Payload`; the conversions and collection
types are one call of the interpreter each; the build scripts run before the program. None of these
keeps state from one call to the next or meets another thread, so a model of them
would only repeat its input.
