----------------------------- MODULE VmContext -----------------------------
(***************************************************************************)
(* How crates/pyo3-rustpython finds the interpreter (python.rs:6-97), on   *)
(* one thread, as all of this is thread-local: CURRENT_VM is set by the    *)
(* generated wrappers with the VM that the interpreter calls them with     *)
(* (from_vm) and read by with_gil and assume_attached.  Where it is not    *)
(* set, with_gil makes, and leaks, an embedded interpreter.                *)
(*                                                                         *)
(* The thread belongs to a host program, which makes, enters and drops     *)
(* interpreters, or was started by Python code.  The stack holds its       *)
(* nested calls: Interpreter::enter, Python code, and Rust code with a     *)
(* token Python<'py>.  The host's own code has no token.                   *)
(***************************************************************************)
EXTENDS Naturals, Sequences, SequencesExt

CONSTANTS
  VMs,          \* the host's interpreters
  Embedded,     \* EMBEDDED_INTERPRETER
  NoVM,
  MaxDepth,     \* nested calls (model bound)
  MaxCalls      \* calls (model bound)

ASSUME VmAssumption ==
  /\ Embedded \notin VMs /\ NoVM \notin VMs \cup {Embedded}
  /\ MaxDepth \in Nat \ {0} /\ MaxCalls \in Nat

VARIABLES
  made,         \* interpreters made so far
  dropped,      \* and dropped
  instances,    \* interpreters with instances of a #[pyclass]
  CURRENT_VM,
  stack,
  pythread,     \* Python started the thread
  unwound,      \* a panic has been caught
  calls         \* calls so far

vmVars == <<made, dropped, instances, CURRENT_VM, stack, pythread, unwound, calls>>
interpVars == <<made, dropped, pythread, unwound>>

Interps == VMs \cup {Embedded}

\* vm is what the frame runs on, token what its Python<'py> has.
Frame == [kind : {"enter", "python", "rust", "plain", "method", "gil", "bound"},
          vm : Interps, token : Interps \cup {NoVM}]
FrameOf(kind, vm, token) == [kind |-> kind, vm |-> vm, token |-> token]

VmInit ==
  /\ dropped = {}
  /\ CURRENT_VM = NoVM
  /\ unwound = FALSE
  /\ calls = 0
  /\ \/ pythread = FALSE /\ made = {} /\ instances = {} /\ stack = <<>>
     \/ /\ pythread = TRUE
        /\ \E vm \in VMs :
             /\ made = {vm}
             /\ instances \in SUBSET {vm}
             /\ stack = <<FrameOf("python", vm, NoVM)>>

Alive == made \ dropped
Tokened == {"rust", "method", "gil", "bound"}

\* Whose code is running: Python's, Rust code's called with a VM, the host's,
\* or nobody's, as assume_attached has panicked.
Runs(kinds) == stack # <<>> /\ Last(stack).kind \in kinds
Panicking == Runs({"method"}) /\ Last(stack).token = NoVM
RustRuns == Runs(Tokened \cup {"plain", "enter"}) /\ ~Panicking
HostRuns == stack = <<>> /\ ~pythread

Push(kind, vm, token) ==
  /\ calls < MaxCalls /\ Len(stack) < MaxDepth
  /\ calls' = calls + 1
  /\ stack' = Append(stack, FrameOf(kind, vm, token))

-----------------------------------------------------------------------------
(* The host and the interpreter                                            *)

Make(vm) ==
  /\ ~pythread /\ vm \notin made
  /\ made' = made \cup {vm}
  /\ UNCHANGED <<dropped, instances, CURRENT_VM, stack, pythread, unwound, calls>>

\* Interpreter::run, or the end of the owner's scope, when no code runs on it.
Drop(vm) ==
  /\ ~pythread /\ vm \in Alive
  /\ \A f \in ToSet(stack) : f.vm # vm
  /\ dropped' = dropped \cup {vm}
  /\ UNCHANGED <<made, instances, CURRENT_VM, stack, pythread, unwound, calls>>

Enter(vm) ==
  /\ HostRuns \/ RustRuns
  /\ ~pythread /\ vm \in Alive
  /\ Push("enter", vm, NoVM)
  /\ UNCHANGED <<interpVars, instances, CURRENT_VM>>

CallPython ==
  /\ RustRuns
  /\ Push("python", Last(stack).vm, NoVM)
  /\ UNCHANGED <<interpVars, instances, CURRENT_VM>>

-----------------------------------------------------------------------------
(* Rust code gets a token                                                  *)

\* Python::from_vm.  Nothing restores CURRENT_VM afterwards.
from_vm(vm) == CURRENT_VM' = vm

\* The wrappers of functions that need a token or a conversion, of constructors,
\* slots, getters, setters, class and static methods, and module initializers.
\* The code may make an instance.
CallRust ==
  /\ Runs({"python", "enter"})
  /\ LET vm == Last(stack).vm IN
       /\ Push("rust", vm, vm)
       /\ from_vm(vm)
       /\ instances' \in {instances, instances \cup {vm}}
  /\ UNCHANGED interpVars

\* A function or method that needs no token and no conversion on the way in.
\* If its result is converted, from_vm runs when it returns.
CallPlain ==
  /\ Runs({"python"})
  /\ Push("plain", Last(stack).vm, NoVM)
  /\ UNCHANGED <<interpVars, instances, CURRENT_VM>>

\* The wrapper of an instance method panics if assume_attached finds no VM; the
\* code runs on the VM it finds, whatever VM calls it.  With #[pyo3(signature)]
\* the arguments that need a token get theirs from the VM that calls.
CallMethod ==
  /\ Runs({"python"})
  /\ Last(stack).vm \in instances
  /\ \/ /\ CURRENT_VM = NoVM
        /\ Push("method", Last(stack).vm, NoVM)
        /\ UNCHANGED CURRENT_VM
     \/ /\ CURRENT_VM # NoVM
        /\ Push("method", CURRENT_VM, CURRENT_VM)
        /\ UNCHANGED CURRENT_VM
     \/ /\ CURRENT_VM # NoVM
        /\ Push("method", Last(stack).vm, Last(stack).vm)
        /\ from_vm(Last(stack).vm)
  /\ UNCHANGED <<interpVars, instances>>

\* Python::with_gil, which is also attach
with_gil ==
  /\ HostRuns \/ RustRuns
  /\ IF CURRENT_VM # NoVM
       THEN /\ Push("gil", CURRENT_VM, CURRENT_VM)
            /\ instances' \in {instances, instances \cup {CURRENT_VM}}
            /\ UNCHANGED CURRENT_VM
       ELSE /\ Push("bound", Embedded, Embedded)
            /\ instances' \in {instances, instances \cup {Embedded}}
            /\ CURRENT_VM' = Embedded
  /\ UNCHANGED interpVars

\* Wrong: the embedded interpreter stays bound.
ReturnKeepsBound ==
  /\ stack # <<>> /\ ~Panicking
  /\ stack' = Front(stack)
  /\ UNCHANGED <<interpVars, instances, CURRENT_VM, calls>>

\* Wrong: a guard in each wrapper clears CURRENT_VM.
ReturnClears ==
  /\ stack # <<>> /\ ~Panicking
  /\ stack' = Front(stack)
  /\ CURRENT_VM' = IF Last(stack).kind \in {"rust", "bound"} THEN NoVM ELSE CURRENT_VM
  /\ UNCHANGED <<interpVars, instances, calls>>

\* with_vm_bound puts back what with_gil found, which was nothing.  The wrapper
\* of a function may call from_vm to convert the result.
Return ==
  /\ stack # <<>> /\ ~Panicking
  /\ stack' = Front(stack)
  /\ CASE Last(stack).kind = "bound" -> CURRENT_VM' = NoVM
       [] Last(stack).kind \in {"plain", "rust"} -> from_vm(Last(stack).vm) \/ UNCHANGED CURRENT_VM
       [] OTHER -> UNCHANGED CURRENT_VM
  /\ UNCHANGED <<interpVars, instances, calls>>

\* A panic is caught by Rust code below, or ends a thread of Python's: no
\* with_vm_bound on the way puts anything back.
Unwind(n) ==
  /\ Runs(Tokened \cup {"plain", "enter"}) /\ n < Len(stack)
  /\ n > 0 => stack[n].kind # "python"
  /\ stack' = SubSeq(stack, 1, n)
  /\ unwound' = TRUE
  /\ UNCHANGED <<made, dropped, instances, CURRENT_VM, pythread, calls>>

VmNext ==
  \/ \E vm \in VMs : Make(vm) \/ Drop(vm) \/ Enter(vm)
  \/ CallPython \/ CallRust \/ CallPlain \/ CallMethod \/ with_gil
  \/ Return
  \/ \E n \in 0..MaxDepth : Unwind(n)

VmSpec == VmInit /\ [][VmNext]_vmVars

-----------------------------------------------------------------------------
Frames == ToSet(stack)

\* Besides the types: an entered interpreter is alive.
VmTypeOK ==
  /\ dropped \subseteq made /\ made \subseteq VMs
  /\ instances \subseteq Interps
  /\ stack \in Seq(Frame) /\ Len(stack) <= MaxDepth
  /\ CURRENT_VM \in made \cup {Embedded, NoVM}
  /\ pythread \in BOOLEAN /\ unwound \in BOOLEAN
  /\ calls \in 0..MaxCalls
  /\ \A f \in Frames : f.kind = "enter" => f.vm \in Alive

\* Under Rust code that was given a token the thread always finds a VM: no
\* return, unwinding or nested interpreter takes it away, so that with_gil
\* makes no second interpreter and assume_attached does not panic there
\* (python.rs:11-21, 43-63, 77-84).
AttachedFindsAVm ==
  (\E f \in Frames : f.kind \in Tokened /\ f.token # NoVM) => CURRENT_VM # NoVM

\* with_gil enters the embedded interpreter only once, however calls nest, and
\* unless a panic gets past with_vm_bound, it is unbound when that call ends
\* (python.rs:11-21, 43-63).
BoundOnce ==
  /\ \A i, j \in DOMAIN stack : stack[i].kind = "bound" /\ stack[j].kind = "bound" => i = j
  /\ CURRENT_VM = Embedded /\ ~unwound => \E f \in Frames : f.kind = "bound"

\* "The pointer is only read while the VM is alive (within call frames)"
\* (docs/superpowers/plans/2026-04-02-pyo3-rustpython-backend.md:174): the
\* interpreter that with_gil finds has not been dropped.
TokensAreAlive ==
  \A f \in Frames : f.kind = "gil" /\ ~unwound => f.token \notin dropped
=============================================================================
