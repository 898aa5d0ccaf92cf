------------------------------- MODULE Arguments -------------------------------
(***************************************************************************)
(* How a call from Python gets its arguments to a #[pyfunction]: the       *)
(* signature is parsed when the macro runs (ParseState in                  *)
(* pyo3-macros-backend/src/pyfunction/signature.rs), and the generated     *)
(* code fills one array of options from the positional and the keyword     *)
(* arguments of each call (impl_/extract_argument.rs) and reads it again,  *)
(* parameter by parameter (params.rs).  A parameter without a default is   *)
(* read by unwrap_required_argument, which is undefined behaviour on None. *)
(*                                                                         *)
(* A signature is the sequence of its items, the py argument of the Rust   *)
(* function included at its place; the name of a parameter is its index.   *)
(* Keywords are distinct and may also be names of no parameter, which      *)
(* stand for the names that are not UTF-8, too.  Indices start at 1.       *)
(***************************************************************************)
EXTENDS Naturals, Sequences, FiniteSets

CONSTANTS
  MaxItems,   \* bound: the items of a signature
  MaxArgs     \* bound: the positional arguments of a call

ASSUME ArgumentsAssumption == MaxItems \in Nat /\ MaxArgs \in Nat

Kinds == {"required", "optional", "/", "*", "*args", "**kwargs", "py"}

VARIABLES
  items,            \* the signature as written
  pc,               \* where macro and call are
  next,             \* parsing: the next item
  parse_state,      \* ParseState
  \* PythonSignature, and the constant FunctionDescription made of it
  positional_parameters, positional_only_parameters, required_positional_parameters,
  keyword_only_parameters, has_varargs, has_kwargs,
  nargs,            \* the call: how many positional arguments,
  given,            \* and which keywords, so far
  output,           \* the array of options
  varargs,          \* what *args gets
  varkeywords,      \* what **kwargs gets
  positional_only_keyword_arguments,
  taken             \* what each parameter reads

sigVars == <<positional_parameters, positional_only_parameters, required_positional_parameters,
             keyword_only_parameters, has_varargs, has_kwargs>>
parseVars == <<next, parse_state, sigVars>>
callVars == <<nargs, given, output, varargs, varkeywords, positional_only_keyword_arguments, taken>>
vars == <<items, pc, parseVars, callVars>>

Regular(i) == items[i] \in {"required", "optional"}

\* A slot of the array: empty, or the i-th positional argument, or a keyword's.
None == <<"none", 0>>
Positional(i) == <<"positional", i>>
Keyword(n) == <<"keyword", n>>
Slots == 1..(Len(positional_parameters) + Len(keyword_only_parameters))
Names == 1..(MaxItems + 1)

Init ==
  /\ items \in UNION {[1..n -> Kinds] : n \in 0..MaxItems}
  /\ pc = "parse" /\ next = 1 /\ parse_state = "Positional"
  /\ positional_parameters = <<>> /\ positional_only_parameters = 0
  /\ required_positional_parameters = 0 /\ keyword_only_parameters = <<>>
  /\ has_varargs = FALSE /\ has_kwargs = FALSE
  /\ nargs = 0 /\ given = {} /\ output = <<>> /\ varargs = <<>> /\ varkeywords = {}
  /\ positional_only_keyword_arguments = {} /\ taken = <<>>

-----------------------------------------------------------------------------
(* The macro: ParseState.                                                  *)

AcceptsPositional == parse_state \in {"Positional", "PositionalAfterPosargs"}

Item(kinds) ==
  /\ pc = "parse" /\ next \in DOMAIN items /\ items[next] \in kinds
  /\ next' = next + 1
  /\ UNCHANGED <<items, pc, callVars>>

\* Wrong: an optional parameter may be followed by a required one.
add_argument_anywhere ==
  /\ Item({"required", "optional"})
  /\ AcceptsPositional
  /\ positional_parameters' = Append(positional_parameters, next)
  /\ required_positional_parameters' =
       required_positional_parameters + (IF items[next] = "required" THEN 1 ELSE 0)
  /\ UNCHANGED <<parse_state, positional_only_parameters, keyword_only_parameters,
                 has_varargs, has_kwargs>>

add_argument ==
  /\ Item({"required", "optional"})
  /\ \/ /\ AcceptsPositional
        /\ positional_parameters' = Append(positional_parameters, next)
        /\ \/ /\ items[next] = "required"
              /\ required_positional_parameters = Len(positional_parameters)
              /\ required_positional_parameters' = required_positional_parameters + 1
           \/ items[next] = "optional" /\ UNCHANGED required_positional_parameters
        /\ UNCHANGED keyword_only_parameters
     \/ /\ parse_state = "Keywords"
        /\ keyword_only_parameters' =
             Append(keyword_only_parameters, [name |-> next, required |-> items[next] = "required"])
        /\ UNCHANGED <<positional_parameters, required_positional_parameters>>
  /\ UNCHANGED <<parse_state, positional_only_parameters, has_varargs, has_kwargs>>

add_varargs ==
  /\ Item({"*args"})
  /\ AcceptsPositional
  /\ has_varargs' = TRUE
  /\ parse_state' = "Keywords"
  /\ UNCHANGED <<positional_parameters, positional_only_parameters,
                 required_positional_parameters, keyword_only_parameters, has_kwargs>>

add_kwargs ==
  /\ Item({"**kwargs"})
  /\ parse_state # "Done"
  /\ has_kwargs' = TRUE
  /\ parse_state' = "Done"
  /\ UNCHANGED <<positional_parameters, positional_only_parameters,
                 required_positional_parameters, keyword_only_parameters, has_varargs>>

finish_pos_only_args ==
  /\ Item({"/"})
  /\ parse_state = "Positional"
  /\ positional_only_parameters' = Len(positional_parameters)
  /\ parse_state' = "PositionalAfterPosargs"
  /\ UNCHANGED <<positional_parameters, required_positional_parameters,
                 keyword_only_parameters, has_varargs, has_kwargs>>

finish_pos_args ==
  /\ Item({"*"})
  /\ AcceptsPositional
  /\ parse_state' = "Keywords"
  /\ UNCHANGED sigVars

\* py is an argument of the Rust function only.
SkipPy == Item({"py"}) /\ UNCHANGED <<parse_state, sigVars>>

\* Every other item is a compile error.
Bail ==
  /\ pc = "parse" /\ next \in DOMAIN items
  /\ \/ /\ items[next] = "required" /\ AcceptsPositional
        /\ required_positional_parameters # Len(positional_parameters)
     \/ Regular(next) /\ parse_state = "Done"
     \/ items[next] \in {"*", "*args"} /\ parse_state \in {"Keywords", "Done"}
     \/ items[next] = "**kwargs" /\ parse_state = "Done"
     \/ items[next] = "/" /\ parse_state # "Positional"
  /\ pc' = "bailed"
  /\ UNCHANGED <<items, parseVars, callVars>>

-----------------------------------------------------------------------------
(* A call: the two conventions fill output from the positional arguments.  *)

Call ==
  /\ pc = "parse" /\ next = Len(items) + 1
  /\ nargs' \in 0..MaxArgs
  /\ pc' = "positional"
  /\ UNCHANGED <<items, parseVars, given, output, varargs, varkeywords,
                 positional_only_keyword_arguments, taken>>

Fill(count) == output' = [k \in Slots |-> IF k <= count THEN Positional(k) ELSE None]

\* handle_varargs: *args takes the arguments from the first-th on.
HandleVarargs(first) ==
  /\ pc' = IF has_varargs \/ first > nargs THEN "keywords" ELSE "too many"
  /\ varargs' = IF has_varargs THEN [k \in 1..(nargs + 1 - first) |-> Positional(first + k - 1)]
                               ELSE <<>>

extract_arguments_fastcall ==
  /\ pc = "positional"
  /\ LET consumed == IF Len(positional_parameters) < nargs THEN Len(positional_parameters) ELSE nargs
     IN  Fill(consumed) /\ HandleVarargs(consumed + 1)
  /\ UNCHANGED <<items, parseVars, nargs, given, varkeywords,
                 positional_only_keyword_arguments, taken>>

\* get_slice is empty when it starts after the end of the tuple.
extract_arguments_tuple_dict ==
  /\ pc = "positional"
  /\ output' = [k \in Slots |-> IF k <= Len(positional_parameters) /\ k <= nargs
                                  THEN Positional(k) ELSE None]
  /\ pc' = IF has_varargs \/ nargs <= Len(positional_parameters) THEN "keywords" ELSE "too many"
  /\ varargs' = IF has_varargs /\ nargs > Len(positional_parameters)
                  THEN [k \in 1..(nargs - Len(positional_parameters)) |->
                          Positional(Len(positional_parameters) + k)]
                  ELSE <<>>
  /\ UNCHANGED <<items, parseVars, nargs, given, varkeywords,
                 positional_only_keyword_arguments, taken>>

-----------------------------------------------------------------------------
(* handle_kwargs: keyword by keyword, in the order of the caller.          *)

KeywordOnlyIndex(n) == {k \in DOMAIN keyword_only_parameters : keyword_only_parameters[k].name = n}
PositionalIndex(n) == {k \in DOMAIN positional_parameters : positional_parameters[k] = n}

NextKeyword(n) ==
  /\ pc = "keywords" /\ n \notin given
  /\ given' = given \cup {n}
  /\ UNCHANGED <<items, parseVars, nargs, varargs, taken>>

\* Wrong: a parameter that has a value already takes the keyword's.
ReplaceSilently(slot, n) ==
  /\ output' = [output EXCEPT ![slot] = Keyword(n)]
  /\ UNCHANGED <<pc, varkeywords, positional_only_keyword_arguments>>

Replace(slot, n) ==
  /\ output' = [output EXCEPT ![slot] = Keyword(n)]
  /\ pc' = IF output[slot] = None THEN "keywords" ELSE "multiple values"
  /\ UNCHANGED <<varkeywords, positional_only_keyword_arguments>>

TakeKeywordOnly(n) ==
  /\ NextKeyword(n)
  /\ \E k \in KeywordOnlyIndex(n) : Replace(Len(positional_parameters) + k, n)

TakePositional(n) ==
  /\ NextKeyword(n)
  /\ KeywordOnlyIndex(n) = {}
  /\ \E k \in PositionalIndex(n) : k > positional_only_parameters /\ Replace(k, n)

\* A keyword may have the name of a positional-only parameter if there is
\* **kwargs to take it; if not, the error waits for the other keywords.
TakePositionalOnly(n) ==
  /\ NextKeyword(n)
  /\ KeywordOnlyIndex(n) = {}
  /\ \E k \in PositionalIndex(n) : k <= positional_only_parameters
  /\ IF has_kwargs
       THEN /\ varkeywords' = varkeywords \cup {n}
            /\ UNCHANGED positional_only_keyword_arguments
       ELSE /\ positional_only_keyword_arguments' = positional_only_keyword_arguments \cup {n}
            /\ UNCHANGED varkeywords
  /\ UNCHANGED <<pc, output>>

\* handle_varkeyword
TakeUnknown(n) ==
  /\ NextKeyword(n)
  /\ KeywordOnlyIndex(n) = {} /\ PositionalIndex(n) = {}
  /\ IF has_kwargs
       THEN varkeywords' = varkeywords \cup {n} /\ UNCHANGED pc
       ELSE pc' = "unexpected keyword" /\ UNCHANGED varkeywords
  /\ UNCHANGED <<output, positional_only_keyword_arguments>>

\* Wrong: the last required parameter is not looked at.
MissingPositionalButLast ==
  \E k \in (nargs + 1)..required_positional_parameters :
    k # required_positional_parameters /\ output[k] = None

\* ensure_no_missing_required_{positional,keyword}_arguments
MissingPositional ==
  \E k \in (nargs + 1)..required_positional_parameters : output[k] = None
MissingKeyword ==
  \E k \in DOMAIN keyword_only_parameters :
    keyword_only_parameters[k].required /\ output[Len(positional_parameters) + k] = None

CheckRequired ==
  /\ pc = "keywords"
  /\ pc' = IF positional_only_keyword_arguments # {} THEN "positional-only"
           ELSE IF MissingPositional \/ MissingKeyword THEN "missing"
           ELSE "extracted"
  /\ UNCHANGED <<items, parseVars, callVars>>

\* The generated code: the k-th regular argument reads the k-th option.
option_pos(i) == Cardinality({j \in 1..i : Regular(j)})

ReadArguments ==
  /\ pc = "extracted"
  /\ taken' = [i \in {j \in DOMAIN items : Regular(j)} |-> output[option_pos(i)]]
  /\ pc' = "called"
  /\ UNCHANGED <<items, parseVars, nargs, given, output, varargs, varkeywords,
                 positional_only_keyword_arguments>>

Next ==
  \/ add_argument \/ add_varargs \/ add_kwargs \/ finish_pos_only_args \/ finish_pos_args
  \/ SkipPy \/ Bail
  \/ Call \/ extract_arguments_fastcall \/ extract_arguments_tuple_dict
  \/ \E n \in Names : \/ TakeKeywordOnly(n) \/ TakePositional(n)
                      \/ TakePositionalOnly(n) \/ TakeUnknown(n)
  \/ CheckRequired \/ ReadArguments

Spec == Init /\ [][Next]_vars

-----------------------------------------------------------------------------
(* Python's rules, read off the items of the signature.                    *)

Before(i, kinds) == \E j \in 1..(i - 1) : items[j] \in kinds
After(i, kinds) == \E j \in (i + 1)..Len(items) : items[j] \in kinds

KeywordOnly(i) == Regular(i) /\ Before(i, {"*", "*args"})
PositionalOnly(i) == Regular(i) /\ After(i, {"/"})
Has(kind) == \E i \in DOMAIN items : items[i] = kind

\* Python's rules on the order of the items: at most one "/", then at most one
\* "*" or "*args", "**kwargs" last, and no required positional parameter after
\* an optional one.  (Python also refuses a "/" with nothing before it and a "*"
\* with no parameter after it; the macro compiles both, and they mean nothing.)
WellFormed ==
  \A i \in DOMAIN items :
    /\ items[i] = "/" => ~Before(i, {"/", "*", "*args", "**kwargs"})
    /\ items[i] \in {"*", "*args"} => ~Before(i, {"*", "*args", "**kwargs"})
    /\ items[i] = "**kwargs" => ~Before(i, {"**kwargs"})
    /\ Regular(i) => ~Before(i, {"**kwargs"})
    /\ items[i] = "required" /\ ~KeywordOnly(i) => ~Before(i, {"optional"})

PositionOf(i) == Cardinality({j \in 1..i : Regular(j) /\ ~KeywordOnly(j)})
MaxPositional == Cardinality({j \in DOMAIN items : Regular(j) /\ ~KeywordOnly(j)})

GivenByPosition(i) == ~KeywordOnly(i) /\ PositionOf(i) <= nargs
Binds(n) == n \in DOMAIN items /\ Regular(n) /\ ~PositionalOnly(n)

\* What is wrong with a call, whatever other keywords it has,
Conflict ==
  \/ nargs > MaxPositional /\ ~Has("*args")
  \/ \E n \in given : Binds(n) /\ GivenByPosition(n)
  \/ \E n \in given : ~Binds(n) /\ ~Has("**kwargs")
\* and what it lacks.
Lacks(i) == items[i] = "required" /\ ~GivenByPosition(i) /\ ~(i \in given /\ Binds(i))

Value(i) == IF GivenByPosition(i) THEN Positional(PositionOf(i))
            ELSE IF i \in given /\ Binds(i) THEN Keyword(i) ELSE None

TypeOK ==
  /\ items \in Seq(Kinds)
  /\ next \in 1..(Len(items) + 1)
  /\ parse_state \in {"Positional", "PositionalAfterPosargs", "Keywords", "Done"}
  /\ positional_parameters \in Seq(1..Len(items))
  /\ positional_only_parameters \in 0..Len(positional_parameters)
  /\ required_positional_parameters \in 0..Len(positional_parameters)
  /\ keyword_only_parameters \in Seq([name : 1..Len(items), required : BOOLEAN])
  /\ has_varargs \in BOOLEAN /\ has_kwargs \in BOOLEAN
  /\ nargs \in 0..MaxArgs /\ given \subseteq Names
  /\ varkeywords \subseteq given /\ positional_only_keyword_arguments \subseteq given

\* The macro compiles a signature if and only if its items are in an order that
\* Python has, at whichever item it finds out (signature.rs:247-351).
CompilesWellFormed ==
  /\ pc = "bailed" => ~WellFormed
  /\ pc \notin {"parse", "bailed"} => WellFormed

\* A call is answered as Python does: every parameter, *args and **kwargs
\* get what the rules of the language say, and a call is refused if and only
\* if they refuse it, by both calling conventions and in whichever order the
\* keywords come (extract_argument.rs:263-491).
AnswersAsPython ==
  /\ pc = "called" =>
       /\ ~Conflict /\ \A i \in DOMAIN items : ~Lacks(i)
       /\ taken = [i \in {j \in DOMAIN items : Regular(j)} |-> Value(i)]
       /\ varargs = [k \in 1..(IF nargs > MaxPositional THEN nargs - MaxPositional ELSE 0) |->
                       Positional(MaxPositional + k)]
       /\ varkeywords = {n \in given : ~Binds(n)}
  /\ pc \in {"too many", "multiple values", "unexpected keyword", "positional-only"} => Conflict
  /\ pc = "missing" => \E i \in DOMAIN items : Lacks(i)

\* unwrap_required_argument never meets None: a parameter without a default
\* has a value in every call that gets to it (extract_argument.rs:217-228).
RequiredAreSet ==
  pc = "called" => \A i \in DOMAIN items : items[i] = "required" => taken[i] # None
=============================================================================
