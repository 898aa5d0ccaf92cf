------------------------------- MODULE CallProof -------------------------------
(***************************************************************************)
(* What generated code takes for granted when Python calls it, for every   *)
(* value of the constants: that the arguments are bound as in Python and   *)
(* the required ones set, and that there is a VM.  The two share nothing   *)
(* else.                                                                   *)
(*                                                                         *)
(* The arguments: unwrap_required_argument is sound for every signature    *)
(* that the macro compiles and every call of it.  The argument has three   *)
(* parts: the macro numbers the parameters in the order in which it reads  *)
(* them back (Numbered), what it calls required is what has no default     *)
(* (Counted), and once the checks of a call have passed, the options of    *)
(* the required parameters are set (Checked), because no keyword empties   *)
(* an option.  That a call is answered as in Python has two parts more: a  *)
(* signature that compiles says in its lists what its items say (Placed),  *)
(* and the options are at each point what Python binds to the keywords     *)
(* that were passed so far (Answers, Options, Rest), whatever their order. *)
(*                                                                         *)
(* The VM: for any interpreters and any nesting of calls and panics, the   *)
(* argument rests on where the frame of with_vm_bound is.  It is pushed    *)
(* when CURRENT_VM is not set, so that no frame below it has a token       *)
(* (BoundIsFirst), and code on the embedded interpreter is above it unless *)
(* a panic has taken it away (EmbeddedIsBound).                            *)
(***************************************************************************)
EXTENDS Arguments, VmContext, FiniteSetTheorems, TLAPS

-----------------------------------------------------------------------------
(* The arguments                                                          *)

\* How many of the first m items of s are parameters; option_pos(i) is
\* R(items, i).
R(s, m) == Cardinality({j \in 1..m : s[j] \in {"required", "optional"}})

Parameters == Len(positional_parameters) + Len(keyword_only_parameters)

\* The option of parameter i is the R(items, i)-th, in whichever list its name is.
InItsPlace(i) ==
  /\ R(items, i) \in 1..Parameters
  /\ R(items, i) <= Len(positional_parameters) => positional_parameters[R(items, i)] = i
  /\ R(items, i) > Len(positional_parameters) =>
       keyword_only_parameters[R(items, i) - Len(positional_parameters)].name = i

Numbered ==
  /\ Parameters = R(items, next - 1)
  /\ \A i \in 1..(next - 1) : Regular(i) => InItsPlace(i)
  /\ AcceptsPositional => keyword_only_parameters = <<>>

Counted ==
  /\ \A k \in DOMAIN positional_parameters :
       items[positional_parameters[k]] = "required" <=> k <= required_positional_parameters
  /\ \A k \in DOMAIN keyword_only_parameters :
       keyword_only_parameters[k].required <=> items[keyword_only_parameters[k].name] = "required"

Parsing == {"parse", "bailed"}

Filled ==
  pc \in {"keywords", "multiple values", "unexpected keyword", "positional-only", "missing",
          "extracted", "called", "too many"} =>
    /\ DOMAIN output = Slots
    /\ \A k \in Slots : k <= nargs /\ k <= Len(positional_parameters) => output[k] # None

Checked ==
  pc \in {"extracted", "called"} =>
    /\ \A k \in 1..required_positional_parameters : output[k] # None
    /\ \A k \in DOMAIN keyword_only_parameters :
         keyword_only_parameters[k].required => output[Len(positional_parameters) + k] # None

ArgumentsInv ==
  /\ TypeOK
  /\ Numbered
  /\ Counted
  /\ pc \notin Parsing => next = Len(items) + 1
  /\ Filled
  /\ Checked
  /\ RequiredAreSet

\* Counting the parameters: one more item adds itself if it is one.
LEMMA Counting ==
  ASSUME TypeOK
  PROVE  /\ R(items, 0) = 0
         /\ \A m \in Nat : R(items, m) \in Nat
         /\ \A m \in 1..Len(items) : R(items, m) = IF Regular(m) THEN R(items, m - 1) + 1 ELSE R(items, m - 1)
<1>1. \A m \in Nat : IsFiniteSet({j \in 1..m : items[j] \in {"required", "optional"}}) /\ R(items, m) \in Nat
  <2> TAKE m \in Nat
  <2>1. IsFiniteSet(1..m)
    BY FS_Interval
  <2> QED
    BY <2>1, FS_Subset, FS_CardinalityType DEF R, Regular
<1>2. R(items, 0) = 0
  <2>1. {j \in 1..0 : items[j] \in {"required", "optional"}} = {}
    OBVIOUS
  <2> QED
    BY <2>1, FS_EmptySet DEF R, Regular
<1>3. ASSUME NEW m \in 1..Len(items)
      PROVE  R(items, m) = IF Regular(m) THEN R(items, m - 1) + 1 ELSE R(items, m - 1)
  <2> DEFINE S == {j \in 1..(m - 1) : items[j] \in {"required", "optional"}}
  <2>1. m \in Nat /\ m - 1 \in Nat
    BY DEF TypeOK
  <2>2. CASE Regular(m)
    <3>1. {j \in 1..m : items[j] \in {"required", "optional"}} = S \cup {m} /\ m \notin S
      BY <2>1, <2>2 DEF Regular
    <3>2. Cardinality(S \cup {m}) = Cardinality(S) + 1
      BY <1>1, <2>1, <3>1, FS_AddElement
    <3> QED
      BY <2>2, <3>1, <3>2 DEF R, Regular
  <2>3. CASE ~Regular(m)
    <3>1. {j \in 1..m : items[j] \in {"required", "optional"}} = S
      BY <2>1, <2>3 DEF Regular
    <3> QED
      BY <2>3, <3>1 DEF R, Regular
  <2> QED
    BY <2>2, <2>3
<1> QED
  BY <1>1, <1>2, <1>3

LEMMA InitArguments == Init => ArgumentsInv
<1> SUFFICES ASSUME Init PROVE ArgumentsInv
  OBVIOUS
<1>1. items \in Seq(Kinds)
  <2>1. PICK n \in 0..MaxItems : items \in [1..n -> Kinds]
    BY DEF Init
  <2> QED
    BY <2>1, ArgumentsAssumption
<1>2. TypeOK
  <2>1. <<>> \in Seq(1..Len(items)) /\ <<>> \in Seq([name : 1..Len(items), required : BOOLEAN])
    OBVIOUS
  <2>2. Len(items) \in Nat /\ Len(<<>>) = 0
    BY <1>1
  <2>3. has_varargs \in BOOLEAN /\ has_kwargs \in BOOLEAN
    BY Zenon DEF Init
  <2> QED
    BY <1>1, <2>1, <2>2, <2>3, ArgumentsAssumption DEF Init, TypeOK
<1>3. Numbered
  BY <1>2, Counting DEF Init, Numbered, Parameters
<1> QED
  BY <1>2, <1>3 DEF Init, ArgumentsInv, Counted, Parsing, Filled, Checked, RequiredAreSet

\* The steps of a call leave the signature alone.
LEMMA SignatureKept ==
  ASSUME ArgumentsInv, UNCHANGED <<items, parseVars>>
  PROVE  Numbered' /\ Counted'
  BY DEF ArgumentsInv, Numbered, Counted, parseVars, sigVars, Parameters, InItsPlace, R,
         Regular, AcceptsPositional

\* A parameter is appended to one of the lists.
LEMMA ParameterAdded ==
  ASSUME ArgumentsInv, add_argument
  PROVE  TypeOK' /\ Numbered' /\ Counted'
<1> USE DEF ArgumentsInv
<1>1. /\ next \in 1..Len(items) /\ next' = next + 1 /\ Regular(next)
      /\ UNCHANGED <<items, pc, callVars, parse_state, positional_only_parameters,
                     has_varargs, has_kwargs>>
  BY DEF add_argument, Item, Regular, TypeOK
<1>2. AcceptsPositional' <=> AcceptsPositional
  BY <1>1 DEF AcceptsPositional
<1>3. R(items, next) = Parameters + 1 /\ \A m \in Nat : R(items, m) \in Nat
  BY <1>1, Counting DEF Numbered
<1>4. CASE AcceptsPositional
  <2>1. /\ positional_parameters' = Append(positional_parameters, next)
        /\ keyword_only_parameters = <<>> /\ UNCHANGED keyword_only_parameters
        /\ \/ /\ items[next] = "required"
              /\ required_positional_parameters = Len(positional_parameters)
              /\ required_positional_parameters' = required_positional_parameters + 1
           \/ items[next] = "optional" /\ UNCHANGED required_positional_parameters
    BY <1>1, <1>4 DEF add_argument, Numbered, AcceptsPositional
  <2>2. /\ Len(positional_parameters') = Len(positional_parameters) + 1
        /\ positional_parameters' \in Seq(1..Len(items))
        /\ \A k \in 1..Len(positional_parameters) :
              positional_parameters'[k] = positional_parameters[k]
        /\ positional_parameters'[Len(positional_parameters) + 1] = next
    BY <1>1, <2>1 DEF TypeOK
  <2>3. TypeOK'
    <3>1. required_positional_parameters' \in 0..Len(positional_parameters')
      BY <2>1, <2>2 DEF TypeOK
    <3>2. positional_only_parameters' \in 0..Len(positional_parameters')
      BY <1>1, <2>2 DEF TypeOK
    <3> QED
      BY <1>1, <2>1, <2>2, <3>1, <3>2 DEF TypeOK, callVars
  <2>4. Parameters' = Parameters + 1 /\ Parameters = Len(positional_parameters)
    BY <2>1, <2>2 DEF Parameters, TypeOK
  <2>5. ASSUME NEW i \in 1..(next - 1), Regular(i) PROVE InItsPlace(i)'
    <3>1. InItsPlace(i) /\ R(items, i) \in 1..Len(positional_parameters)
      BY <2>4, <2>5 DEF Numbered, InItsPlace
    <3> QED
      BY <1>1, <2>2, <2>4, <3>1 DEF InItsPlace, TypeOK
  <2>6. ASSUME NEW i, i = next PROVE InItsPlace(i)'
    <3>1. R(items', i) = Parameters + 1 /\ Parameters \in Nat
      BY <1>1, <1>3, <2>6 DEF Parameters, TypeOK
    <3> QED
      BY <1>1, <2>2, <2>4, <2>6, <3>1 DEF InItsPlace, TypeOK
  <2>7. Numbered'
    <3>1. \A i \in 1..(next' - 1) : Regular(i)' => InItsPlace(i)'
      <4> SUFFICES ASSUME NEW i \in 1..(next' - 1), Regular(i)' PROVE InItsPlace(i)'
        OBVIOUS
      <4>1. Regular(i) /\ (i = next \/ i \in 1..(next - 1))
        BY <1>1 DEF Regular, TypeOK
      <4> QED
        BY <4>1, <2>5, <2>6
    <3> QED
      BY <1>1, <1>2, <1>3, <2>1, <2>4, <3>1 DEF Numbered, TypeOK
  <2>8. Counted'
    BY <1>1, <2>1, <2>2 DEF Counted, TypeOK, Regular
  <2> QED
    BY <2>3, <2>7, <2>8
<1>5. CASE ~AcceptsPositional
  <2>1. /\ keyword_only_parameters' =
             Append(keyword_only_parameters, [name |-> next, required |-> items[next] = "required"])
        /\ UNCHANGED <<positional_parameters, required_positional_parameters>>
    BY <1>1, <1>5 DEF add_argument, AcceptsPositional
  <2>2. [name |-> next, required |-> items[next] = "required"]
          \in [name : 1..Len(items), required : BOOLEAN]
    BY <1>1
  <2>3. /\ Len(keyword_only_parameters') = Len(keyword_only_parameters) + 1
        /\ keyword_only_parameters' \in Seq([name : 1..Len(items), required : BOOLEAN])
        /\ \A k \in 1..Len(keyword_only_parameters) :
              keyword_only_parameters'[k] = keyword_only_parameters[k]
        /\ keyword_only_parameters'[Len(keyword_only_parameters) + 1]
             = [name |-> next, required |-> items[next] = "required"]
    BY <2>1, <2>2 DEF TypeOK
  <2>4. TypeOK'
    BY <1>1, <2>1, <2>3 DEF TypeOK, callVars
  <2>5. Parameters' = Parameters + 1
    BY <2>1, <2>3 DEF Parameters, TypeOK
  <2>6. ASSUME NEW i \in 1..(next - 1), Regular(i) PROVE InItsPlace(i)'
    <3> DEFINE positional == Len(positional_parameters)
               keywords == Len(keyword_only_parameters)
    <3>1. InItsPlace(i) /\ i \in Nat
      BY <2>6 DEF Numbered
    <3>2. /\ positional \in Nat /\ keywords \in Nat /\ Parameters = positional + keywords
          /\ R(items', i) = R(items, i) /\ UNCHANGED positional_parameters
      BY <1>1, <2>1 DEF Parameters, TypeOK
    <3>3. R(items, i) \in 1..Parameters'
      BY <2>5, <3>1, <3>2 DEF InItsPlace
    <3>4. ASSUME R(items, i) > positional
          PROVE  keyword_only_parameters'[R(items, i) - positional].name = i
      <4>1. R(items, i) - positional \in 1..keywords
        BY <3>1, <3>2, <3>4 DEF InItsPlace
      <4>2. QED
        BY <2>3, <3>1, <3>4, <4>1 DEF InItsPlace
    <3> QED
      BY <3>1, <3>2, <3>3, <3>4 DEF InItsPlace
  <2>7. ASSUME NEW i, i = next PROVE InItsPlace(i)'
    <3>1. R(items', i) = Parameters + 1 /\ Parameters \in Nat
      BY <1>1, <1>3, <2>7 DEF Parameters, TypeOK
    <3>2. /\ Len(positional_parameters) \in Nat /\ Len(keyword_only_parameters) \in Nat
          /\ Parameters = Len(positional_parameters) + Len(keyword_only_parameters)
      BY DEF Parameters, TypeOK
    <3>3. /\ R(items', i) > Len(positional_parameters)
          /\ R(items', i) - Len(positional_parameters) = Len(keyword_only_parameters) + 1
          /\ R(items', i) \in 1..(Parameters + 1)
      BY <3>1, <3>2
    <3> QED
      BY <2>1, <2>3, <2>5, <2>7, <3>2, <3>3 DEF InItsPlace
  <2>8. Numbered'
    <3>1. \A i \in 1..(next' - 1) : Regular(i)' => InItsPlace(i)'
      <4> SUFFICES ASSUME NEW i \in 1..(next' - 1), Regular(i)' PROVE InItsPlace(i)'
        OBVIOUS
      <4>1. Regular(i) /\ (i = next \/ i \in 1..(next - 1))
        BY <1>1 DEF Regular, TypeOK
      <4> QED
        BY <4>1, <2>6, <2>7
    <3> QED
      BY <1>1, <1>2, <1>3, <1>5, <2>5, <3>1 DEF Numbered, TypeOK
  <2>9. Counted'
    <3>1. \A k \in 1..Len(keyword_only_parameters') :
            keyword_only_parameters'[k].required
              <=> items[keyword_only_parameters'[k].name] = "required"
      <4> SUFFICES ASSUME NEW k \in 1..Len(keyword_only_parameters')
                   PROVE  keyword_only_parameters'[k].required
                            <=> items[keyword_only_parameters'[k].name] = "required"
        OBVIOUS
      <4>1. CASE k = Len(keyword_only_parameters) + 1
        <5> DEFINE e == keyword_only_parameters'[k]
        <5>1. e = [name |-> next, required |-> items[next] = "required"]
          BY <2>3, <4>1
        <5> SUFFICES e.required <=> items[e.name] = "required"
          OBVIOUS
        <5> HIDE DEF e
        <5>2. e.required <=> items[next] = "required"
          BY Zenon, <5>1
        <5>3. e.name = next
          BY <5>1
        <5> QED
          BY Zenon, <5>2, <5>3
      <4>2. CASE k # Len(keyword_only_parameters) + 1
        <5>1. k \in 1..Len(keyword_only_parameters)
          BY <2>3, <4>2 DEF TypeOK
        <5>2. keyword_only_parameters'[k] = keyword_only_parameters[k]
          BY <2>3, <5>1
        <5>3. keyword_only_parameters[k].required
                <=> items[keyword_only_parameters[k].name] = "required"
          BY <5>1 DEF Counted, TypeOK
        <5> QED
          BY Zenon, <5>2, <5>3
      <4> QED
        BY <4>1, <4>2
    <3> QED
      BY <1>1, <2>1, <2>3, <3>1 DEF Counted, TypeOK
  <2> QED
    BY <2>4, <2>8, <2>9
<1> QED
  BY <1>4, <1>5

\* The other items add no parameter.
LEMMA OtherItems ==
  ASSUME ArgumentsInv,
         add_varargs \/ add_kwargs \/ finish_pos_only_args \/ finish_pos_args \/ SkipPy
  PROVE  TypeOK' /\ Numbered' /\ Counted'
<1> USE DEF ArgumentsInv
<1>1. /\ next \in 1..Len(items) /\ next' = next + 1 /\ ~Regular(next)
      /\ UNCHANGED <<items, pc, callVars, positional_parameters,
                     required_positional_parameters, keyword_only_parameters>>
  BY DEF add_varargs, add_kwargs, finish_pos_only_args, finish_pos_args, SkipPy, Item,
         Regular, TypeOK, sigVars
<1>2. AcceptsPositional' => AcceptsPositional
  BY DEF add_varargs, add_kwargs, finish_pos_only_args, finish_pos_args, SkipPy,
         AcceptsPositional
<1>3. TypeOK'
  <2>1. /\ parse_state' \in {"Positional", "PositionalAfterPosargs", "Keywords", "Done"}
        /\ positional_only_parameters' \in 0..Len(positional_parameters)
    BY DEF add_varargs, add_kwargs, finish_pos_only_args, finish_pos_args, SkipPy, TypeOK, sigVars
  <2>2. has_varargs' \in BOOLEAN /\ has_kwargs' \in BOOLEAN
    BY DEF add_varargs, add_kwargs, finish_pos_only_args, finish_pos_args, SkipPy, TypeOK, sigVars
  <2> QED
    BY <1>1, <2>1, <2>2 DEF TypeOK, callVars
<1>4. R(items, next) = Parameters
  BY <1>1, Counting DEF Numbered
<1>5. Parameters' = Parameters
  BY <1>1 DEF Parameters
<1>6. Numbered'
  <2>1. \A i \in 1..(next' - 1) : Regular(i)' => InItsPlace(i)'
    <3> SUFFICES ASSUME NEW i \in 1..(next' - 1), Regular(i)' PROVE InItsPlace(i)'
      OBVIOUS
    <3>1. i \in 1..(next - 1) /\ Regular(i)
      BY <1>1 DEF Regular, TypeOK
    <3>2. InItsPlace(i)
      BY <3>1 DEF Numbered
    <3> QED
      BY <1>1, <1>5, <3>2 DEF InItsPlace
  <2> QED
    BY <1>1, <1>2, <1>4, <1>5, <2>1 DEF Numbered, TypeOK
<1>7. Counted'
  BY <1>1 DEF Counted
<1> QED
  BY <1>3, <1>6, <1>7

\* What the steps that follow a complete signature leave alone.
LEMMA Kept ==
  ASSUME ArgumentsInv, UNCHANGED <<items, parseVars>>
  PROVE  /\ Numbered' /\ Counted' /\ next' = next /\ Slots' = Slots
         /\ UNCHANGED <<items, positional_parameters, required_positional_parameters,
                        keyword_only_parameters>>
  BY SignatureKept DEF parseVars, sigVars, Slots

\* The steps of the macro keep the invariant: there is no call yet.
LEMMA MacroKeeps ==
  ASSUME ArgumentsInv,
         add_argument \/ add_varargs \/ add_kwargs \/ finish_pos_only_args \/ finish_pos_args
           \/ SkipPy \/ Bail
  PROVE  ArgumentsInv'
<1>1. pc = "parse" /\ pc' \in Parsing
  BY DEF add_argument, add_varargs, add_kwargs, finish_pos_only_args, finish_pos_args, SkipPy,
         Bail, Item, Parsing
<1>2. TypeOK' /\ Numbered' /\ Counted'
  <2>1. CASE Bail
    <3>1. UNCHANGED <<items, parseVars, callVars>>
      BY <2>1 DEF Bail
    <3>2. TypeOK'
      BY <3>1 DEF ArgumentsInv, TypeOK, parseVars, callVars, sigVars
    <3> QED
      BY <3>1, <3>2, Kept
  <2> QED
    BY <2>1, ParameterAdded, OtherItems
<1> QED
  BY <1>1, <1>2 DEF ArgumentsInv, Filled, Checked, RequiredAreSet, Parsing

LEMMA CallKeeps == ASSUME ArgumentsInv, Call PROVE ArgumentsInv'
<1>1. UNCHANGED <<items, parseVars>> /\ pc' = "positional" /\ next = Len(items) + 1
  BY DEF Call
<1>2. TypeOK'
  BY DEF ArgumentsInv, TypeOK, Call, parseVars, sigVars
<1> QED
  BY <1>1, <1>2, Kept DEF ArgumentsInv, Filled, Checked, RequiredAreSet

LEMMA PositionalKeeps ==
  ASSUME ArgumentsInv, extract_arguments_fastcall \/ extract_arguments_tuple_dict
  PROVE  ArgumentsInv'
<1> USE DEF ArgumentsInv
<1>1. /\ UNCHANGED <<items, parseVars, nargs, given, varkeywords,
                     positional_only_keyword_arguments>>
      /\ pc = "positional" /\ pc' \in {"keywords", "too many"}
  BY DEF extract_arguments_fastcall, extract_arguments_tuple_dict, HandleVarargs
<1>2. TypeOK'
  BY <1>1 DEF TypeOK, parseVars, sigVars
<1>3. /\ DOMAIN output' = Slots
      /\ \A k \in Slots : k <= nargs /\ k <= Len(positional_parameters) =>
           output'[k] = Positional(k)
  BY DEF extract_arguments_fastcall, extract_arguments_tuple_dict, Fill, Slots, TypeOK
<1>4. \A k : Positional(k) # None
  BY DEF Positional, None
<1>5. Filled'
  BY <1>1, <1>3, <1>4, Kept DEF Filled
<1> QED
  BY <1>1, <1>2, <1>5, Kept DEF Checked, RequiredAreSet, Parsing

\* A keyword may only set an option that was not set, or fail the call.
LEMMA KeywordKeeps ==
  ASSUME ArgumentsInv, NEW n \in Names,
         TakeKeywordOnly(n) \/ TakePositional(n) \/ TakePositionalOnly(n) \/ TakeUnknown(n)
  PROVE  ArgumentsInv'
<1> USE DEF ArgumentsInv
<1>1. /\ UNCHANGED <<items, parseVars, nargs, taken>> /\ given' = given \cup {n}
      /\ pc = "keywords" /\ pc' \in {"keywords", "multiple values", "unexpected keyword"}
      /\ varkeywords' \subseteq varkeywords \cup {n}
      /\ positional_only_keyword_arguments' \subseteq positional_only_keyword_arguments \cup {n}
  BY DEF TakeKeywordOnly, TakePositional, TakePositionalOnly, TakeUnknown, NextKeyword, Replace
<1>2. TypeOK'
  BY <1>1 DEF TypeOK, parseVars, sigVars
<1>3. output' = output \/ \E k : output' = [output EXCEPT ![k] = Keyword(n)]
  BY DEF TakeKeywordOnly, TakePositional, TakePositionalOnly, TakeUnknown, Replace
<1>4. Keyword(n) # None
  BY DEF Keyword, None
<1>5. Filled'
  BY <1>1, <1>3, <1>4, Kept DEF Filled
<1> QED
  BY <1>1, <1>2, <1>5, Kept DEF Checked, RequiredAreSet, Parsing

LEMMA CheckKeeps == ASSUME ArgumentsInv, CheckRequired PROVE ArgumentsInv'
<1> USE DEF ArgumentsInv
<1>1. /\ UNCHANGED <<items, parseVars, callVars>> /\ pc = "keywords"
      /\ pc' \in {"positional-only", "missing", "extracted"}
      /\ pc' = "extracted" => ~MissingPositional /\ ~MissingKeyword
  BY DEF CheckRequired
<1>2. TypeOK'
  BY <1>1 DEF TypeOK, parseVars, callVars, sigVars
<1>3. Filled'
  BY <1>1, Kept DEF Filled, callVars
<1>4. Checked'
  <2> SUFFICES ASSUME pc' = "extracted" PROVE Checked'
    BY <1>1 DEF Checked
  <2>1. \A k \in 1..required_positional_parameters : output[k] # None
    <3> SUFFICES ASSUME NEW k \in 1..required_positional_parameters PROVE output[k] # None
      OBVIOUS
    <3>1. k \in Slots /\ k <= Len(positional_parameters)
      BY DEF Slots, TypeOK
    <3>2. CASE k <= nargs
      BY <1>1, <3>1, <3>2 DEF Filled
    <3>3. CASE k > nargs
      BY <1>1, <3>3 DEF MissingPositional, TypeOK
    <3> QED
      BY <3>2, <3>3 DEF TypeOK
  <2>2. \A k \in DOMAIN keyword_only_parameters :
          keyword_only_parameters[k].required => output[Len(positional_parameters) + k] # None
    BY <1>1 DEF MissingKeyword
  <2> QED
    BY <1>1, <2>1, <2>2, Kept DEF Checked, callVars
<1> QED
  BY <1>1, <1>2, <1>3, <1>4, Kept DEF RequiredAreSet, Parsing

\* A required parameter is one of those that were checked, wherever it is.
LEMMA ReadKeeps == ASSUME ArgumentsInv, ReadArguments PROVE ArgumentsInv'
<1> USE DEF ArgumentsInv
<1>1. /\ UNCHANGED <<items, parseVars, nargs, given, output, varkeywords,
                     positional_only_keyword_arguments>>
      /\ pc = "extracted" /\ pc' = "called"
      /\ taken' = [i \in {j \in DOMAIN items : Regular(j)} |-> output[option_pos(i)]]
  BY DEF ReadArguments
<1>2. TypeOK'
  BY <1>1 DEF TypeOK, parseVars, sigVars
<1>3. ASSUME NEW i \in DOMAIN items, items[i] = "required" PROVE taken'[i] # None
  <2>1. Regular(i) /\ i \in 1..(next - 1)
    BY <1>1, <1>3 DEF Regular, TypeOK, Parsing
  <2>2. taken'[i] = output[R(items, i)]
    BY <1>1, <2>1 DEF option_pos, R, Regular
  <2>3. InItsPlace(i)
    BY <2>1 DEF Numbered
  <2>4. CASE R(items, i) <= Len(positional_parameters)
    <3>1. /\ R(items, i) \in DOMAIN positional_parameters
          /\ items[positional_parameters[R(items, i)]] = "required"
      BY <1>3, <2>3, <2>4 DEF InItsPlace, Parameters, TypeOK
    <3>2. R(items, i) \in 1..required_positional_parameters
      BY <3>1 DEF Counted, TypeOK
    <3> QED
      BY <1>1, <2>2, <3>2 DEF Checked
  <2>5. CASE R(items, i) > Len(positional_parameters)
    <3> DEFINE k == R(items, i) - Len(positional_parameters)
    <3>1. /\ k \in DOMAIN keyword_only_parameters
          /\ Len(positional_parameters) + k = R(items, i)
          /\ items[keyword_only_parameters[k].name] = "required"
      BY <1>3, <2>3, <2>5 DEF InItsPlace, Parameters, TypeOK
    <3>2. keyword_only_parameters[k].required
      BY <3>1 DEF Counted
    <3> QED
      BY <1>1, <2>2, <3>1, <3>2 DEF Checked
  <2> QED
    BY <2>3, <2>4, <2>5 DEF InItsPlace, Parameters, TypeOK
<1>4. RequiredAreSet'
  BY <1>1, <1>3 DEF RequiredAreSet
<1>5. Filled' /\ Checked'
  BY <1>1, Kept DEF Filled, Checked
<1> QED
  BY <1>1, <1>2, <1>4, <1>5, Kept DEF Parsing

LEMMA StepArguments == ArgumentsInv /\ [Next]_vars => ArgumentsInv'
<1> SUFFICES ASSUME ArgumentsInv, [Next]_vars PROVE ArgumentsInv'
  OBVIOUS
<1>1. CASE UNCHANGED vars
  <2>1. UNCHANGED <<items, pc, parseVars, callVars>>
    BY <1>1 DEF vars
  <2>2. TypeOK'
    BY <2>1 DEF ArgumentsInv, TypeOK, parseVars, callVars, sigVars
  <2>3. Filled' /\ Checked' /\ RequiredAreSet'
    BY <2>1, Kept DEF ArgumentsInv, Filled, Checked, RequiredAreSet, callVars
  <2> QED
    BY <2>1, <2>2, <2>3, Kept DEF ArgumentsInv
<1> QED
  BY <1>1, MacroKeeps, CallKeeps, PositionalKeeps, KeywordKeeps, CheckKeeps, ReadKeeps DEF Next

THEOREM ArgumentsInvariant == Spec => []ArgumentsInv
  BY InitArguments, StepArguments, PTL DEF Spec

\* Types: the lists of parameters, the count of the required ones and what is
\* left of the keywords stay what the debug assertions of a call say they are
\* (extract_argument.rs:279-284).
THEOREM ArgumentsTypeCorrect == Spec => []TypeOK
<1>1. ArgumentsInv => TypeOK
  BY DEF ArgumentsInv
<1> QED
  BY <1>1, ArgumentsInvariant, PTL

\* unwrap_required_argument never meets None, for signatures and calls of any
\* length (extract_argument.rs:217-228).
THEOREM RequiredArgumentsAreSet == Spec => []RequiredAreSet
<1>1. ArgumentsInv => RequiredAreSet
  BY DEF ArgumentsInv
<1> QED
  BY <1>1, ArgumentsInvariant, PTL

-----------------------------------------------------------------------------
(* The order of the items: the state of the parser says which separators   *)
(* it has seen, and the counts say whether an optional parameter was among *)
(* them; so it refuses exactly the item that breaks the rules.             *)

Fine(i) ==
  /\ items[i] = "/" => ~Before(i, {"/", "*", "*args", "**kwargs"})
  /\ items[i] \in {"*", "*args"} => ~Before(i, {"*", "*args", "**kwargs"})
  /\ items[i] = "**kwargs" => ~Before(i, {"**kwargs"})
  /\ Regular(i) => ~Before(i, {"**kwargs"})
  /\ items[i] = "required" /\ ~KeywordOnly(i) => ~Before(i, {"optional"})

Seen(kinds) == \E j \in 1..(next - 1) : items[j] \in kinds

StateSaysWhatWasSeen ==
  /\ parse_state = "Positional" <=> ~Seen({"/", "*", "*args", "**kwargs"})
  /\ parse_state = "PositionalAfterPosargs" <=> Seen({"/"}) /\ ~Seen({"*", "*args", "**kwargs"})
  /\ parse_state = "Keywords" <=> Seen({"*", "*args"}) /\ ~Seen({"**kwargs"})
  /\ parse_state = "Done" <=> Seen({"**kwargs"})
  /\ AcceptsPositional =>
       (required_positional_parameters # Len(positional_parameters) <=> Seen({"optional"}))

OrderInv ==
  /\ StateSaysWhatWasSeen
  /\ \A i \in 1..(next - 1) : Fine(i)
  /\ pc = "bailed" => ~WellFormed
  /\ pc \notin Parsing => next = Len(items) + 1

\* One more item is seen.
LEMMA SeenNext ==
  ASSUME TypeOK, next \in DOMAIN items, next' = next + 1, items' = items, NEW kinds
  PROVE  Seen(kinds)' <=> Seen(kinds) \/ items[next] \in kinds
  BY DEF Seen, TypeOK

LEMMA NextIsFine ==
  ASSUME TypeOK, OrderInv, pc = "parse", next \in DOMAIN items
  PROVE  Fine(next) <=>
           ~ \/ items[next] = "required" /\ AcceptsPositional
                /\ required_positional_parameters # Len(positional_parameters)
             \/ Regular(next) /\ parse_state = "Done"
             \/ items[next] \in {"*", "*args"} /\ parse_state \in {"Keywords", "Done"}
             \/ items[next] = "**kwargs" /\ parse_state = "Done"
             \/ items[next] = "/" /\ parse_state # "Positional"
<1>1. \A kinds : Before(next, kinds) <=> Seen(kinds)
  BY DEF Before, Seen
<1>2. /\ Seen({"*", "*args", "**kwargs"}) <=> Seen({"*", "*args"}) \/ Seen({"**kwargs"})
      /\ Seen({"/", "*", "*args", "**kwargs"}) <=> Seen({"/"}) \/ Seen({"*", "*args", "**kwargs"})
  BY DEF Seen
<1>3. KeywordOnly(next) <=> Regular(next) /\ Seen({"*", "*args"})
  BY <1>1 DEF KeywordOnly
<1>4. parse_state \in {"Positional", "PositionalAfterPosargs", "Keywords", "Done"}
  BY DEF TypeOK
<1> QED
  BY <1>1, <1>2, <1>3, <1>4 DEF Fine, OrderInv, StateSaysWhatWasSeen, AcceptsPositional, Regular

LEMMA InitOrder == Init => OrderInv
<1> SUFFICES ASSUME Init PROVE OrderInv
  OBVIOUS
<1>1. \A kinds : ~Seen(kinds)
  BY DEF Init, Seen
<1> QED
  BY <1>1 DEF Init, OrderInv, StateSaysWhatWasSeen, Parsing

\* An item that is taken was fine.
LEMMA ItemOrder ==
  ASSUME TypeOK, OrderInv,
         add_argument \/ add_varargs \/ add_kwargs \/ finish_pos_only_args \/ finish_pos_args
           \/ SkipPy
  PROVE  OrderInv'
<1>1. /\ pc = "parse" /\ pc' = "parse" /\ next \in DOMAIN items /\ next' = next + 1
      /\ items' = items /\ next \in 1..Len(items)
  BY DEF add_argument, add_varargs, add_kwargs, finish_pos_only_args, finish_pos_args, SkipPy,
         Item, TypeOK
<1>2. \A kinds : Seen(kinds)' <=> Seen(kinds) \/ items[next] \in kinds
  BY <1>1, SeenNext
<1>3. /\ Seen({"*", "*args", "**kwargs"}) <=> Seen({"*", "*args"}) \/ Seen({"**kwargs"})
      /\ Seen({"/", "*", "*args", "**kwargs"}) <=> Seen({"/"}) \/ Seen({"*", "*args", "**kwargs"})
  BY DEF Seen
<1>4. Fine(next)
  <2>1. Regular(next) => items[next] \in {"required", "optional"}
    BY DEF Regular
  <2> QED
    BY <1>1, <2>1, NextIsFine DEF add_argument, add_varargs, add_kwargs, finish_pos_only_args,
       finish_pos_args, SkipPy, Item, AcceptsPositional, TypeOK
<1>5. \A i \in 1..(next' - 1) : Fine(i)'
  <2> SUFFICES ASSUME NEW i \in 1..(next' - 1) PROVE Fine(i)'
    OBVIOUS
  <2>1. Fine(i)' <=> Fine(i)
    BY <1>1 DEF Fine, Before, KeywordOnly, Regular
  <2>2. i = next \/ i \in 1..(next - 1)
    BY <1>1 DEF TypeOK
  <2> QED
    BY <1>4, <2>1, <2>2 DEF OrderInv
<1>6. StateSaysWhatWasSeen'
  <2>1. CASE add_argument
    <3>1. /\ items[next] \in {"required", "optional"} /\ UNCHANGED parse_state
          /\ AcceptsPositional =>
               /\ Len(positional_parameters') = Len(positional_parameters) + 1
               /\ \/ /\ items[next] = "required"
                     /\ required_positional_parameters = Len(positional_parameters)
                     /\ required_positional_parameters' = required_positional_parameters + 1
                  \/ items[next] = "optional" /\ UNCHANGED required_positional_parameters
      BY <2>1 DEF add_argument, Item, AcceptsPositional, TypeOK
    <3> QED
      BY <1>2, <3>1 DEF StateSaysWhatWasSeen, OrderInv, AcceptsPositional, TypeOK
  <2>2. CASE add_varargs \/ finish_pos_args
    <3>1. /\ items[next] \in {"*", "*args"} /\ AcceptsPositional /\ parse_state' = "Keywords"
      BY <2>2 DEF add_varargs, finish_pos_args, Item
    <3> QED
      BY <1>2, <1>3, <3>1 DEF StateSaysWhatWasSeen, OrderInv, AcceptsPositional
  <2>3. CASE add_kwargs
    <3>1. items[next] = "**kwargs" /\ parse_state' = "Done"
      BY <2>3 DEF add_kwargs, Item
    <3> QED
      BY <1>2, <1>3, <3>1 DEF StateSaysWhatWasSeen, OrderInv, AcceptsPositional
  <2>4. CASE finish_pos_only_args
    <3>1. /\ items[next] = "/" /\ parse_state = "Positional"
          /\ parse_state' = "PositionalAfterPosargs"
          /\ UNCHANGED <<positional_parameters, required_positional_parameters>>
      BY <2>4 DEF finish_pos_only_args, Item
    <3> QED
      BY <1>2, <1>3, <3>1 DEF StateSaysWhatWasSeen, OrderInv, AcceptsPositional
  <2>5. CASE SkipPy
    <3>1. /\ items[next] = "py" /\ UNCHANGED parse_state
          /\ UNCHANGED <<positional_parameters, required_positional_parameters>>
      BY <2>5 DEF SkipPy, Item, sigVars
    <3> QED
      BY <1>2, <1>3, <3>1 DEF StateSaysWhatWasSeen, OrderInv, AcceptsPositional
  <2> QED
    BY <2>1, <2>2, <2>3, <2>4, <2>5
<1> QED
  BY <1>1, <1>5, <1>6 DEF OrderInv, Parsing

\* The item at which the macro bails is not, and so the signature is not.
LEMMA BailOrder == ASSUME TypeOK, OrderInv, Bail PROVE OrderInv'
<1>1. next \in DOMAIN items /\ ~Fine(next)
  BY NextIsFine DEF Bail
<1>2. ~WellFormed
  BY <1>1 DEF WellFormed, Fine
<1>3. UNCHANGED <<items, parseVars>> /\ pc' = "bailed"
  BY DEF Bail
<1> QED
  BY <1>2, <1>3 DEF OrderInv, StateSaysWhatWasSeen, Seen, Fine, Before, KeywordOnly, Regular,
     WellFormed, AcceptsPositional, parseVars, sigVars, Parsing

\* A call changes nothing of this.
LEMMA CallOrder ==
  ASSUME OrderInv, UNCHANGED <<items, parseVars>>, pc' # "bailed" \/ pc' = pc,
         pc \notin Parsing \/ pc' = pc \/ next = Len(items) + 1
  PROVE  OrderInv'
  BY DEF OrderInv, StateSaysWhatWasSeen, Seen, Fine, Before, KeywordOnly, Regular, WellFormed,
     AcceptsPositional, parseVars, sigVars, Parsing

LEMMA StepOrder == TypeOK /\ OrderInv /\ [Next]_vars => OrderInv'
<1> SUFFICES ASSUME TypeOK, OrderInv, [Next]_vars PROVE OrderInv'
  OBVIOUS
<1>1. CASE Call \/ extract_arguments_fastcall \/ extract_arguments_tuple_dict
             \/ CheckRequired \/ ReadArguments
  BY <1>1, CallOrder DEF Call, extract_arguments_fastcall, extract_arguments_tuple_dict,
     HandleVarargs, CheckRequired, ReadArguments, Parsing
<1>2. ASSUME NEW n \in Names,
             TakeKeywordOnly(n) \/ TakePositional(n) \/ TakePositionalOnly(n) \/ TakeUnknown(n)
      PROVE  OrderInv'
  BY <1>2, CallOrder DEF TakeKeywordOnly, TakePositional, TakePositionalOnly, TakeUnknown,
     NextKeyword, Replace, Parsing
<1>3. CASE UNCHANGED vars
  BY <1>3, CallOrder DEF vars
<1> QED
  BY <1>1, <1>2, <1>3, ItemOrder, BailOrder DEF Next

LEMMA OrderInvariant == Spec => []OrderInv
  BY InitOrder, StepOrder, ArgumentsTypeCorrect, PTL DEF Spec

\* The macro compiles a signature if and only if its items are in an order that
\* Python has, for signatures of any length (signature.rs:240-351).
THEOREM CompilesExactlyTheWellFormed == Spec => []CompilesWellFormed
<1>1. TypeOK /\ OrderInv => CompilesWellFormed
  <2> SUFFICES ASSUME TypeOK, OrderInv, pc \notin Parsing PROVE WellFormed
    BY DEF CompilesWellFormed, OrderInv, Parsing
  <2>1. \A i \in DOMAIN items : Fine(i)
    BY DEF OrderInv, TypeOK
  <2> QED
    BY <2>1 DEF WellFormed, Fine
<1> QED
  BY <1>1, OrderInvariant, ArgumentsTypeCorrect, PTL

-----------------------------------------------------------------------------
(* What a call is answered.  When the signature is complete, the lists and *)
(* counts of the macro say of every parameter what the items say of it     *)
(* (Placed); while the keywords are taken, the options are what Python     *)
(* binds given the keywords so far (Answers).                              *)

Placed ==
  /\ \A i \in 1..(next - 1) : Regular(i) =>
       /\ KeywordOnly(i) <=> R(items, i) > Len(positional_parameters)
       /\ (\E j \in (i + 1)..(next - 1) : items[j] = "/")
            <=> R(items, i) <= positional_only_parameters
  /\ \A k \in DOMAIN positional_parameters :
       /\ positional_parameters[k] \in 1..(next - 1) /\ Regular(positional_parameters[k])
       /\ R(items, positional_parameters[k]) = k
  /\ \A k \in DOMAIN keyword_only_parameters :
       LET n == keyword_only_parameters[k].name
       IN  n \in 1..(next - 1) /\ Regular(n) /\ R(items, n) = Len(positional_parameters) + k
  /\ Len(positional_parameters) = PositionOf(next - 1)
  /\ has_varargs <=> Seen({"*args"})
  /\ has_kwargs <=> Seen({"**kwargs"})

LEMMA Positions ==
  ASSUME TypeOK
  PROVE  /\ PositionOf(0) = 0
         /\ \A m \in 1..Len(items) :
              PositionOf(m) = IF Regular(m) /\ ~KeywordOnly(m) THEN PositionOf(m - 1) + 1
                                                               ELSE PositionOf(m - 1)
         /\ MaxPositional = PositionOf(Len(items))
         /\ \A i \in 1..Len(items) : Regular(i) /\ ~KeywordOnly(i) => PositionOf(i) = R(items, i)
<1> DEFINE S(m) == {j \in 1..m : Regular(j) /\ ~KeywordOnly(j)}
<1>0. Len(items) \in Nat /\ DOMAIN items = 1..Len(items)
  BY DEF TypeOK
<1>1. \A m \in Nat : IsFiniteSet(S(m)) /\ PositionOf(m) = Cardinality(S(m))
  <2> TAKE m \in Nat
  <2>1. IsFiniteSet(1..m)
    BY FS_Interval
  <2>2. IsFiniteSet(S(m))
    BY <2>1, FS_Subset
  <2> QED
    BY <2>2 DEF PositionOf
<1>2. PositionOf(0) = 0
  <2>1. S(0) = {}
    OBVIOUS
  <2> QED
    BY <1>1, <2>1, FS_EmptySet
<1>3. ASSUME NEW m \in 1..Len(items)
      PROVE  PositionOf(m) = IF Regular(m) /\ ~KeywordOnly(m) THEN PositionOf(m - 1) + 1
                                                              ELSE PositionOf(m - 1)
  <2>1. m \in Nat /\ m - 1 \in Nat
    BY <1>0
  <2>2. CASE Regular(m) /\ ~KeywordOnly(m)
    <3>1. S(m) = S(m - 1) \cup {m} /\ m \notin S(m - 1)
      BY <2>1, <2>2
    <3>2. Cardinality(S(m - 1) \cup {m}) = Cardinality(S(m - 1)) + 1
      BY <1>1, <2>1, <3>1, FS_AddElement
    <3> QED
      BY <1>1, <2>1, <2>2, <3>1, <3>2
  <2>3. CASE ~(Regular(m) /\ ~KeywordOnly(m))
    <3>1. S(m) = S(m - 1)
      BY <2>1, <2>3
    <3> QED
      BY <1>1, <2>1, <2>3, <3>1
  <2> QED
    BY <2>2, <2>3
<1>4. MaxPositional = PositionOf(Len(items))
  BY <1>0 DEF MaxPositional, PositionOf
<1>5. ASSUME NEW i \in 1..Len(items), Regular(i), ~KeywordOnly(i)
      PROVE  PositionOf(i) = R(items, i)
  <2>1. \A j \in 1..i : Regular(j) => ~KeywordOnly(j)
    BY <1>0, <1>5 DEF KeywordOnly, Before
  <2>2. S(i) = {j \in 1..i : items[j] \in {"required", "optional"}}
    BY <2>1 DEF Regular
  <2> QED
    BY <2>2 DEF PositionOf, R
<1> QED
  BY <1>2, <1>3, <1>4, <1>5

LEMMA InitPlaced == Init => Placed
<1> SUFFICES ASSUME Init PROVE Placed
  OBVIOUS
<1>1. TypeOK
  BY InitArguments DEF ArgumentsInv
<1>2. PositionOf(0) = 0
  BY <1>1, Positions
<1>3. next - 1 = 0 /\ has_varargs = FALSE /\ has_kwargs = FALSE
      /\ positional_parameters = <<>> /\ keyword_only_parameters = <<>>
  BY DEF Init
<1>4. \A kinds : ~Seen(kinds)
  BY <1>3 DEF Seen
<1> QED
  BY <1>2, <1>3, <1>4 DEF Placed

\* The item just taken is the last one.
LEMMA NextItem ==
  ASSUME TypeOK, OrderInv, next \in 1..Len(items), Regular(next)
  PROVE  KeywordOnly(next) <=> Seen({"*", "*args"})
  BY DEF KeywordOnly, Before, Seen

LEMMA ParameterPlaced ==
  ASSUME ArgumentsInv, OrderInv, Placed, add_argument
  PROVE  Placed'
<1> USE DEF ArgumentsInv
<1>1. /\ next \in 1..Len(items) /\ next' = next + 1 /\ Regular(next) /\ items[next] # "/"
      /\ UNCHANGED <<items, parse_state, positional_only_parameters, has_varargs, has_kwargs>>
      /\ next \in Nat /\ next' - 1 = next
  BY DEF add_argument, Item, Regular, TypeOK
<1>2. /\ R(items, next) = Parameters + 1 /\ R(items, next) \in Nat
      /\ \A m \in Nat : R(items, m) \in Nat
  BY <1>1, Counting DEF Numbered
<1>3. \A kinds : Seen(kinds)' <=> Seen(kinds) \/ items[next] \in kinds
  BY <1>1, SeenNext DEF TypeOK
<1>4. /\ has_varargs' <=> Seen({"*args"})'
      /\ has_kwargs' <=> Seen({"**kwargs"})'
  BY <1>1, <1>3 DEF Placed, Regular
<1>5. \A i : /\ Regular(i)' <=> Regular(i)
             /\ KeywordOnly(i)' <=> KeywordOnly(i)
             /\ PositionOf(i)' = PositionOf(i)
             /\ R(items', i) = R(items, i)
  BY <1>1 DEF Regular, KeywordOnly, Before, PositionOf
<1>6. \A i \in 1..(next' - 1) : i = next \/ i \in 1..(next - 1)
  BY <1>1 DEF TypeOK
<1>7. KeywordOnly(next) <=> Seen({"*", "*args"})
  BY <1>1, NextItem
<1>8. \A i \in 1..(next - 1) : R(items, i) \in Nat /\ (Regular(i) => R(items, i) <= Parameters)
  BY <1>2 DEF Numbered, InItsPlace
<1>9. /\ Len(positional_parameters) \in Nat /\ Len(keyword_only_parameters) \in Nat
      /\ Parameters = Len(positional_parameters) + Len(keyword_only_parameters)
      /\ positional_only_parameters <= Len(positional_parameters)
      /\ positional_only_parameters \in Nat
  BY DEF TypeOK, Parameters
\* No separator follows the new parameter, and it follows all those before it.
<1>10. \A i \in 1..(next' - 1) : Regular(i) =>
         ((\E j \in (i + 1)..(next' - 1) : items[j] = "/")
            <=> R(items, i) <= positional_only_parameters)
  <2> SUFFICES ASSUME NEW i \in 1..next, Regular(i)
               PROVE  (\E j \in (i + 1)..next : items[j] = "/")
                         <=> R(items, i) <= positional_only_parameters
    BY <1>1
  <2>1. CASE i = next
    <3>1. ~(R(items, next) <= positional_only_parameters)
      BY <1>2, <1>9
    <3>2. ~ \E j \in (next + 1)..next : items[j] = "/"
      BY <1>1
    <3> QED
      BY Zenon, <2>1, <3>1, <3>2
  <2>2. CASE i # next
    <3>1. i \in 1..(next - 1)
      BY <1>1, <2>2
    <3>2. (\E j \in (i + 1)..(next - 1) : items[j] = "/")
            <=> R(items, i) <= positional_only_parameters
      BY <3>1 DEF Placed
    <3>3. \A j \in (i + 1)..next : j = next \/ j \in (i + 1)..(next - 1)
      BY <1>1
    <3>4. \A j \in (i + 1)..(next - 1) : j \in (i + 1)..next
      BY <1>1
    <3> QED
      BY <1>1, <3>2, <3>3, <3>4
  <2> QED
    BY <2>1, <2>2
<1>11. CASE AcceptsPositional
  <2>1. /\ positional_parameters' = Append(positional_parameters, next)
        /\ keyword_only_parameters = <<>> /\ keyword_only_parameters' = <<>>
    BY <1>1, <1>11 DEF add_argument, Numbered, AcceptsPositional
  <2>2. /\ Len(positional_parameters') = Len(positional_parameters) + 1
        /\ DOMAIN positional_parameters' = 1..(Len(positional_parameters) + 1)
        /\ \A k \in 1..Len(positional_parameters) :
              positional_parameters'[k] = positional_parameters[k]
        /\ positional_parameters'[Len(positional_parameters) + 1] = next
    BY <1>1, <2>1 DEF TypeOK
  <2>3. ~KeywordOnly(next) /\ Len(keyword_only_parameters) = 0
    BY <1>7, <1>11, <2>1 DEF OrderInv, StateSaysWhatWasSeen, AcceptsPositional, Seen
  <2>4. \A i \in 1..(next - 1) : Regular(i) => ~KeywordOnly(i)
    BY <1>8, <1>9, <2>3 DEF Placed
  <2>5. ASSUME NEW i \in 1..(next' - 1), Regular(i)
        PROVE  KeywordOnly(i) <=> R(items, i) > Len(positional_parameters')
    <3>1. ~(R(items, next) > Len(positional_parameters'))
      BY <1>2, <1>9, <2>2, <2>3
    <3>2. CASE i = next
      BY Zenon, <2>3, <3>1, <3>2
    <3>3. CASE i \in 1..(next - 1)
      <4>1. ~(R(items, i) > Len(positional_parameters'))
        BY <1>8, <1>9, <2>2, <2>3, <2>5, <3>3
      <4> QED
        BY Zenon, <2>4, <2>5, <3>3, <4>1
    <3> QED
      BY <1>6, <3>2, <3>3
  <2>6. ASSUME NEW k \in DOMAIN positional_parameters'
        PROVE  /\ positional_parameters'[k] \in 1..(next' - 1)
               /\ Regular(positional_parameters'[k])
               /\ R(items, positional_parameters'[k]) = k
    <3>1. CASE k = Len(positional_parameters) + 1
      <4>1. positional_parameters'[k] = next /\ R(items, next) = k /\ next \in 1..(next' - 1)
        BY <1>1, <1>2, <1>9, <2>2, <2>3, <3>1
      <4> QED
        BY Zenon, <1>1, <4>1
    <3>2. CASE k # Len(positional_parameters) + 1
      <4>0. k \in 1..Len(positional_parameters)
        BY <1>9, <2>6, <2>2, <3>2
      <4>1. k \in DOMAIN positional_parameters /\ k \in 1..Len(positional_parameters)
        BY <4>0 DEF TypeOK
      <4>2. /\ positional_parameters[k] \in 1..(next - 1) /\ Regular(positional_parameters[k])
            /\ R(items, positional_parameters[k]) = k
        BY <4>1 DEF Placed
      <4> QED
        BY <1>1, <2>2, <4>1, <4>2
    <3> QED
      BY <3>1, <3>2
  <2>7. Len(positional_parameters') = PositionOf(next)
    BY <1>1, <2>2, <2>3, Positions DEF Placed
  <2> QED
    BY <1>1, <1>4, <1>5, <1>10, <2>1, <2>5, <2>6, <2>7 DEF Placed
<1>12. CASE ~AcceptsPositional
  <2>1. /\ keyword_only_parameters' =
             Append(keyword_only_parameters, [name |-> next, required |-> items[next] = "required"])
        /\ UNCHANGED positional_parameters /\ parse_state = "Keywords"
    BY <1>1, <1>12 DEF add_argument, AcceptsPositional
  <2>2. [name |-> next, required |-> items[next] = "required"]
          \in [name : 1..Len(items), required : BOOLEAN]
    BY <1>1
  <2>3. /\ DOMAIN keyword_only_parameters' = 1..(Len(keyword_only_parameters) + 1)
        /\ \A k \in 1..Len(keyword_only_parameters) :
              keyword_only_parameters'[k] = keyword_only_parameters[k]
        /\ keyword_only_parameters'[Len(keyword_only_parameters) + 1].name = next
    BY <2>1, <2>2 DEF TypeOK
  <2>4. KeywordOnly(next)
    BY <1>7, <2>1 DEF OrderInv, StateSaysWhatWasSeen
  <2>5. ASSUME NEW i \in 1..(next' - 1), Regular(i)
        PROVE  KeywordOnly(i) <=> R(items, i) > Len(positional_parameters)
    <3>1. R(items, next) > Len(positional_parameters)
      BY <1>2, <1>9
    <3>2. CASE i = next
      BY Zenon, <2>4, <3>1, <3>2
    <3>3. CASE i \in 1..(next - 1)
      BY <2>5, <3>3 DEF Placed
    <3> QED
      BY <1>6, <3>2, <3>3
  <2>6. ASSUME NEW k \in DOMAIN keyword_only_parameters'
        PROVE  /\ keyword_only_parameters'[k].name \in 1..(next' - 1)
               /\ Regular(keyword_only_parameters'[k].name)
               /\ R(items, keyword_only_parameters'[k].name) = Len(positional_parameters) + k
    <3>1. CASE k = Len(keyword_only_parameters) + 1
      <4>1. /\ keyword_only_parameters'[k].name = next /\ next \in 1..(next' - 1)
            /\ R(items, next) = Len(positional_parameters) + k
        BY <1>1, <1>2, <1>9, <2>3, <3>1
      <4> QED
        BY Zenon, <1>1, <4>1
    <3>2. CASE k # Len(keyword_only_parameters) + 1
      <4>0. k \in 1..Len(keyword_only_parameters)
        BY <1>9, <2>6, <2>3, <3>2
      <4>1. k \in DOMAIN keyword_only_parameters /\ k \in 1..Len(keyword_only_parameters)
        BY <4>0 DEF TypeOK
      <4>2. /\ keyword_only_parameters[k].name \in 1..(next - 1)
            /\ Regular(keyword_only_parameters[k].name)
            /\ R(items, keyword_only_parameters[k].name) = Len(positional_parameters) + k
        BY <4>1 DEF Placed
      <4>3. keyword_only_parameters[k].name \in 1..(next' - 1)
        BY <1>1, <4>2
      <4> QED
        BY <2>3, <4>1, <4>2, <4>3
    <3> QED
      BY <3>1, <3>2
  <2>7. Len(positional_parameters) = PositionOf(next)
    BY <1>1, <2>4, Positions DEF Placed
  <2>8. \A k \in DOMAIN positional_parameters : positional_parameters[k] \in 1..(next' - 1)
    BY <1>1 DEF Placed
  <2> QED
    BY <1>1, <1>4, <1>5, <1>10, <2>1, <2>5, <2>6, <2>7, <2>8 DEF Placed
<1> QED
  BY <1>11, <1>12

LEMMA OthersPlaced ==
  ASSUME ArgumentsInv, OrderInv, Placed,
         add_varargs \/ add_kwargs \/ finish_pos_only_args \/ finish_pos_args \/ SkipPy
  PROVE  Placed'
<1> USE DEF ArgumentsInv
<1>1. /\ next \in 1..Len(items) /\ next' = next + 1 /\ ~Regular(next) /\ next' - 1 = next
      /\ UNCHANGED <<items, positional_parameters, keyword_only_parameters>>
  BY DEF add_varargs, add_kwargs, finish_pos_only_args, finish_pos_args, SkipPy, Item,
         Regular, TypeOK, sigVars
<1>2. \A kinds : Seen(kinds)' <=> Seen(kinds) \/ items[next] \in kinds
  BY <1>1, SeenNext DEF TypeOK
<1>3. /\ has_varargs' <=> Seen({"*args"})'
      /\ has_kwargs' <=> Seen({"**kwargs"})'
  BY <1>2 DEF add_varargs, add_kwargs, finish_pos_only_args, finish_pos_args, SkipPy, Item, sigVars,
     Placed
<1>4. \A i : /\ Regular(i)' <=> Regular(i)
             /\ KeywordOnly(i)' <=> KeywordOnly(i)
             /\ PositionOf(i)' = PositionOf(i)
             /\ R(items', i) = R(items, i)
  BY <1>1 DEF Regular, KeywordOnly, Before, PositionOf
<1>5. \A i \in 1..(next' - 1) : Regular(i) => i \in 1..(next - 1)
  BY <1>1
<1>6. \A i \in 1..(next - 1) : i \in 1..(next' - 1)
  BY <1>1
<1>7. Len(positional_parameters) = PositionOf(next)
  BY <1>1, Positions DEF Placed
<1>8. \A i \in 1..(next' - 1) : Regular(i) =>
        ((\E j \in (i + 1)..(next' - 1) : items[j] = "/")
           <=> R(items, i) <= positional_only_parameters')
  <2> SUFFICES ASSUME NEW i \in 1..(next - 1), Regular(i)
               PROVE  (\E j \in (i + 1)..next : items[j] = "/")
                         <=> R(items, i) <= positional_only_parameters'
    BY <1>1, <1>5
  <2>1. CASE finish_pos_only_args
    <3>1. /\ items[next] = "/" /\ parse_state = "Positional"
          /\ positional_only_parameters' = Len(positional_parameters)
      BY <2>1 DEF finish_pos_only_args, Item
    <3>2. keyword_only_parameters = <<>>
      BY <3>1 DEF Numbered, AcceptsPositional
    <3>3. R(items, i) <= Len(positional_parameters)
      BY <3>2 DEF Numbered, InItsPlace, Parameters, TypeOK
    <3>4. next \in (i + 1)..next
      BY <1>1
    <3> QED
      BY <3>1, <3>3, <3>4
  <2>2. CASE ~finish_pos_only_args
    <3>1. items[next] # "/" /\ UNCHANGED positional_only_parameters
      BY <2>2 DEF add_varargs, add_kwargs, finish_pos_args, SkipPy, Item, sigVars
    <3>2. (\E j \in (i + 1)..(next - 1) : items[j] = "/")
            <=> R(items, i) <= positional_only_parameters
      BY DEF Placed
    <3>3. \A j \in (i + 1)..next : j = next \/ j \in (i + 1)..(next - 1)
      BY <1>1
    <3>4. \A j \in (i + 1)..(next - 1) : j \in (i + 1)..next
      BY <1>1
    <3> QED
      BY <3>1, <3>2, <3>3, <3>4
  <2> QED
    BY <2>1, <2>2
<1> QED
  BY <1>1, <1>3, <1>4, <1>5, <1>6, <1>7, <1>8 DEF Placed

LEMMA PlacedKept == ArgumentsInv /\ OrderInv /\ Placed /\ [Next]_vars => Placed'
<1> SUFFICES ASSUME ArgumentsInv, OrderInv, Placed, [Next]_vars PROVE Placed'
  OBVIOUS
<1>1. CASE UNCHANGED <<items, parseVars>>
  <2>1. UNCHANGED <<items, next, positional_parameters, keyword_only_parameters,
                    positional_only_parameters, has_varargs, has_kwargs>>
    BY <1>1 DEF parseVars, sigVars
  <2>2. \A i : /\ Regular(i)' <=> Regular(i)
               /\ KeywordOnly(i)' <=> KeywordOnly(i)
               /\ PositionOf(i)' = PositionOf(i)
               /\ Seen(i)' <=> Seen(i)
    BY <2>1 DEF Regular, KeywordOnly, Before, PositionOf, Seen
  <2> QED
    BY <2>1, <2>2 DEF Placed
<1>2. \/ UNCHANGED <<items, parseVars>>
      \/ add_argument \/ add_varargs \/ add_kwargs \/ finish_pos_only_args \/ finish_pos_args
      \/ SkipPy
  BY DEF Next, vars, Bail, Call, extract_arguments_fastcall, extract_arguments_tuple_dict,
     TakeKeywordOnly, TakePositional, TakePositionalOnly, TakeUnknown, NextKeyword,
     CheckRequired, ReadArguments
<1> QED
  BY <1>1, <1>2, ParameterPlaced, OthersPlaced

\* Of a complete signature: where the option of a parameter is,
LEMMA ParameterIs ==
  ASSUME ArgumentsInv, Placed, pc \notin Parsing, NEW i \in DOMAIN items, Regular(i)
  PROVE  /\ R(items, i) \in Slots
         /\ KeywordOnly(i) <=> R(items, i) > Len(positional_parameters)
         /\ PositionalOnly(i) <=> R(items, i) <= positional_only_parameters
         /\ ~KeywordOnly(i) =>
              /\ PositionOf(i) = R(items, i)
              /\ R(items, i) \in PositionalIndex(i)
              /\ items[i] = "required" => R(items, i) <= required_positional_parameters
         /\ KeywordOnly(i) =>
              /\ R(items, i) - Len(positional_parameters) \in KeywordOnlyIndex(i)
              /\ items[i] = "required" =>
                   keyword_only_parameters[R(items, i) - Len(positional_parameters)].required
<1> USE DEF ArgumentsInv
<1>1. i \in 1..(next - 1) /\ i \in 1..Len(items) /\ next - 1 = Len(items) /\ Len(items) \in Nat
  BY DEF TypeOK
<1>2. InItsPlace(i) /\ R(items, i) \in Slots
  BY <1>1 DEF Numbered, InItsPlace, Slots, Parameters
<1>3. /\ KeywordOnly(i) <=> R(items, i) > Len(positional_parameters)
      /\ (\E j \in (i + 1)..(next - 1) : items[j] = "/")
           <=> R(items, i) <= positional_only_parameters
  BY <1>1 DEF Placed
<1>4. PositionalOnly(i) <=> R(items, i) <= positional_only_parameters
  BY <1>1, <1>3 DEF PositionalOnly, After
<1>5. /\ Len(positional_parameters) \in Nat /\ Len(keyword_only_parameters) \in Nat
      /\ DOMAIN positional_parameters = 1..Len(positional_parameters)
      /\ DOMAIN keyword_only_parameters = 1..Len(keyword_only_parameters)
      /\ required_positional_parameters \in Nat
  BY DEF TypeOK
<1>6. ASSUME ~KeywordOnly(i)
      PROVE  /\ PositionOf(i) = R(items, i)
             /\ R(items, i) \in PositionalIndex(i)
             /\ items[i] = "required" => R(items, i) <= required_positional_parameters
  <2>1. /\ R(items, i) \in DOMAIN positional_parameters
        /\ positional_parameters[R(items, i)] = i
    BY <1>2, <1>3, <1>5, <1>6 DEF InItsPlace, Slots
  <2>2. PositionOf(i) = R(items, i)
    BY <1>1, <1>6, Positions
  <2>3. items[i] = "required" => R(items, i) <= required_positional_parameters
    BY <2>1 DEF Counted
  <2> QED
    BY <2>1, <2>2, <2>3 DEF PositionalIndex
<1>7. ASSUME KeywordOnly(i)
      PROVE  /\ R(items, i) - Len(positional_parameters) \in KeywordOnlyIndex(i)
             /\ items[i] = "required" =>
                  keyword_only_parameters[R(items, i) - Len(positional_parameters)].required
  <2> DEFINE k == R(items, i) - Len(positional_parameters)
  <2>1. k \in DOMAIN keyword_only_parameters /\ keyword_only_parameters[k].name = i
    BY <1>2, <1>3, <1>5, <1>7 DEF InItsPlace, Slots
  <2>2. keyword_only_parameters[k].required <=> items[keyword_only_parameters[k].name] = "required"
    BY <2>1 DEF Counted
  <2> HIDE DEF k
  <2>3. items[i] = "required" => keyword_only_parameters[k].required
    BY Zenon, <2>1, <2>2
  <2>4. k \in KeywordOnlyIndex(i)
    BY Zenon, <2>1 DEF KeywordOnlyIndex
  <2> QED
    BY Zenon, <2>3, <2>4 DEF k
<1> QED
  BY <1>2, <1>3, <1>4, <1>6, <1>7

\* which parameter is found by its name,
LEMMA FoundIs ==
  ASSUME ArgumentsInv, Placed, pc \notin Parsing, NEW n
  PROVE  /\ \A k \in PositionalIndex(n) :
              n \in DOMAIN items /\ Regular(n) /\ ~KeywordOnly(n) /\ k = R(items, n)
         /\ \A k \in KeywordOnlyIndex(n) :
              /\ n \in DOMAIN items /\ Regular(n) /\ KeywordOnly(n)
              /\ Len(positional_parameters) + k = R(items, n)
<1> USE DEF ArgumentsInv
<1>1. /\ next - 1 = Len(items) /\ DOMAIN items = 1..(next - 1)
      /\ Len(positional_parameters) \in Nat /\ Len(keyword_only_parameters) \in Nat
      /\ DOMAIN positional_parameters = 1..Len(positional_parameters)
      /\ DOMAIN keyword_only_parameters = 1..Len(keyword_only_parameters)
  BY DEF TypeOK
<1>2. ASSUME NEW k \in PositionalIndex(n)
      PROVE  n \in DOMAIN items /\ Regular(n) /\ ~KeywordOnly(n) /\ k = R(items, n)
  <2>1. k \in DOMAIN positional_parameters /\ positional_parameters[k] = n
    BY DEF PositionalIndex
  <2>2. n \in 1..(next - 1) /\ Regular(n) /\ R(items, n) = k
    BY <2>1 DEF Placed
  <2>3. ~(R(items, n) > Len(positional_parameters))
    BY <1>1, <2>1, <2>2
  <2>4. KeywordOnly(n) <=> R(items, n) > Len(positional_parameters)
    BY <2>2 DEF Placed
  <2> QED
    BY <1>1, <2>2, <2>3, <2>4
<1>3. ASSUME NEW k \in KeywordOnlyIndex(n)
      PROVE  /\ n \in DOMAIN items /\ Regular(n) /\ KeywordOnly(n)
             /\ Len(positional_parameters) + k = R(items, n)
  <2>1. k \in DOMAIN keyword_only_parameters /\ keyword_only_parameters[k].name = n
    BY DEF KeywordOnlyIndex
  <2>2. n \in 1..(next - 1) /\ Regular(n) /\ R(items, n) = Len(positional_parameters) + k
    BY <2>1 DEF Placed
  <2>3. R(items, n) > Len(positional_parameters)
    BY <1>1, <2>1, <2>2
  <2>4. KeywordOnly(n) <=> R(items, n) > Len(positional_parameters)
    BY <2>2 DEF Placed
  <2> QED
    BY <1>1, <2>2, <2>3, <2>4
<1> QED
  BY <1>2, <1>3

\* that no two parameters share an option,
LEMMA OptionsDiffer ==
  ASSUME ArgumentsInv, Placed, pc \notin Parsing,
         NEW i \in DOMAIN items, Regular(i), NEW j \in DOMAIN items, Regular(j),
         R(items, i) = R(items, j)
  PROVE  i = j
<1>1. CASE KeywordOnly(i)
  <2>1. KeywordOnly(j)
    BY <1>1, ParameterIs
  <2>2. /\ R(items, i) - Len(positional_parameters) \in KeywordOnlyIndex(i)
        /\ R(items, i) - Len(positional_parameters) \in KeywordOnlyIndex(j)
    BY <1>1, <2>1, ParameterIs
  <2> QED
    BY <2>2 DEF KeywordOnlyIndex
<1>2. CASE ~KeywordOnly(i)
  <2>1. ~KeywordOnly(j)
    BY <1>2, ParameterIs
  <2>2. R(items, i) \in PositionalIndex(i) /\ R(items, i) \in PositionalIndex(j)
    BY <1>2, <2>1, ParameterIs
  <2> QED
    BY <2>2 DEF PositionalIndex
<1> QED
  BY <1>1, <1>2

\* and what the signature has.
LEMMA SignatureHas ==
  ASSUME ArgumentsInv, Placed, pc \notin Parsing
  PROVE  /\ MaxPositional = Len(positional_parameters)
         /\ has_varargs <=> Has("*args")
         /\ has_kwargs <=> Has("**kwargs")
<1>1. TypeOK /\ next - 1 = Len(items) /\ DOMAIN items = 1..(next - 1)
  BY DEF ArgumentsInv, TypeOK
<1>2. MaxPositional = Len(positional_parameters)
  BY <1>1, Positions DEF Placed
<1>3. \A kind : Seen({kind}) <=> Has(kind)
  BY <1>1 DEF Seen, Has
<1> QED
  BY <1>2, <1>3 DEF Placed

-----------------------------------------------------------------------------
Options == \A i \in DOMAIN items : Regular(i) => output[R(items, i)] = Value(i)

Rest == [k \in 1..(IF nargs > MaxPositional THEN nargs - MaxPositional ELSE 0) |->
           Positional(MaxPositional + k)]

Answers ==
  /\ Options
  /\ varargs = Rest
  /\ nargs > MaxPositional => Has("*args")
  /\ \A n \in given : Binds(n) => ~GivenByPosition(n)
  /\ varkeywords \cup positional_only_keyword_arguments = {n \in given : ~Binds(n)}
  /\ IF Has("**kwargs") THEN positional_only_keyword_arguments = {} ELSE varkeywords = {}

NoKeywords == given = {} /\ varkeywords = {} /\ positional_only_keyword_arguments = {}

AnswersInv ==
  /\ pc \in {"parse", "bailed", "positional"} => NoKeywords
  /\ pc \in {"keywords", "extracted"} => Answers
  /\ pc = "extracted" => ~Conflict /\ \A i \in DOMAIN items : ~Lacks(i)
  /\ AnswersAsPython

\* The rules depend on the items and on how many arguments have a position.
LEMMA RulesKept ==
  ASSUME UNCHANGED <<items, nargs>>
  PROVE  /\ \A i : /\ Regular(i)' <=> Regular(i)
                   /\ KeywordOnly(i)' <=> KeywordOnly(i)
                   /\ PositionOf(i)' = PositionOf(i)
                   /\ GivenByPosition(i)' <=> GivenByPosition(i)
                   /\ Binds(i)' <=> Binds(i)
                   /\ Has(i)' <=> Has(i)
         /\ MaxPositional' = MaxPositional /\ Rest' = Rest
<1>1. \A i : /\ Regular(i)' <=> Regular(i)
             /\ KeywordOnly(i)' <=> KeywordOnly(i)
             /\ PositionalOnly(i)' <=> PositionalOnly(i)
             /\ Has(i)' <=> Has(i)
  BY DEF Regular, KeywordOnly, Before, PositionalOnly, After, Has
<1>2. \A i : PositionOf(i)' = PositionOf(i)
  BY <1>1 DEF PositionOf
<1>3. MaxPositional' = MaxPositional
  BY <1>1 DEF MaxPositional
<1>4. Rest' = Rest
  BY <1>3 DEF Rest, Positional
<1> QED
  BY <1>1, <1>2, <1>3, <1>4 DEF GivenByPosition, Binds

LEMMA PositionalAnswers ==
  ASSUME ArgumentsInv, Placed, AnswersInv,
         extract_arguments_fastcall \/ extract_arguments_tuple_dict
  PROVE  AnswersInv'
<1>1. /\ pc = "positional" /\ UNCHANGED <<items, parseVars, nargs, given, varkeywords,
                                           positional_only_keyword_arguments, taken>>
      /\ NoKeywords
  BY DEF extract_arguments_fastcall, extract_arguments_tuple_dict, AnswersInv
<1>2. /\ MaxPositional = Len(positional_parameters)
      /\ has_varargs <=> Has("*args")
      /\ nargs \in Nat /\ Len(positional_parameters) \in Nat
  BY <1>1, SignatureHas DEF ArgumentsInv, TypeOK, Parsing
<1>3. output' = [k \in Slots |-> IF k <= Len(positional_parameters) /\ k <= nargs
                                   THEN Positional(k) ELSE None]
  <2>1. CASE extract_arguments_tuple_dict
    BY <2>1 DEF extract_arguments_tuple_dict
  <2>2. CASE extract_arguments_fastcall
    <3> DEFINE consumed == IF Len(positional_parameters) < nargs THEN Len(positional_parameters)
                                                                ELSE nargs
    <3>1. output' = [k \in Slots |-> IF k <= consumed THEN Positional(k) ELSE None]
      BY <2>2 DEF extract_arguments_fastcall, Fill
    <3>2. Slots \subseteq Nat
      BY <1>1 DEF Slots, ArgumentsInv, TypeOK
    <3>3. \A k \in Slots :
            k <= consumed <=> k <= Len(positional_parameters) /\ k <= nargs
      BY <1>2, <3>2
    <3> HIDE DEF consumed
    <3> QED
      BY <3>1, <3>3
  <2> QED
    BY <2>1, <2>2
<1>4. pc' = IF Has("*args") \/ nargs <= MaxPositional THEN "keywords" ELSE "too many"
  <2>1. CASE extract_arguments_tuple_dict
    BY <1>2, <2>1 DEF extract_arguments_tuple_dict
  <2>2. CASE extract_arguments_fastcall
    <3> DEFINE consumed == IF Len(positional_parameters) < nargs THEN Len(positional_parameters)
                                                                ELSE nargs
    <3>1. pc' = IF has_varargs \/ consumed + 1 > nargs THEN "keywords" ELSE "too many"
      BY <2>2 DEF extract_arguments_fastcall, HandleVarargs
    <3>2. consumed + 1 > nargs <=> nargs <= MaxPositional
      BY <1>2
    <3> HIDE DEF consumed
    <3> QED
      BY <1>2, <3>1, <3>2
  <2> QED
    BY <2>1, <2>2
<1>5. pc' = "keywords" => varargs' = Rest
  <2> DEFINE positional == Len(positional_parameters)
  <2>1. CASE nargs > positional /\ has_varargs
    <3>1. Rest = [k \in 1..(nargs - positional) |-> Positional(positional + k)]
      BY <1>2, <2>1 DEF Rest
    <3>2. CASE extract_arguments_tuple_dict
      BY <2>1, <3>1, <3>2 DEF extract_arguments_tuple_dict
    <3>3. CASE extract_arguments_fastcall
      <4>1. varargs' = [k \in 1..(nargs + 1 - (positional + 1)) |->
                          Positional(positional + 1 + k - 1)]
        BY <1>2, <2>1, <3>3 DEF extract_arguments_fastcall, HandleVarargs
      <4>2. nargs + 1 - (positional + 1) = nargs - positional
        BY <1>2
      <4>3. \A k \in 1..(nargs - positional) : positional + 1 + k - 1 = positional + k
        BY <1>2
      <4> QED
        BY <3>1, <4>1, <4>2, <4>3
    <3> QED
      BY <3>2, <3>3
  <2>2. CASE nargs <= positional
    <3>1. Rest = <<>>
      BY <1>2, <2>2 DEF Rest
    <3>2. varargs' = <<>>
      <4>1. CASE extract_arguments_tuple_dict
        BY <1>2, <2>2, <4>1 DEF extract_arguments_tuple_dict
      <4>2. CASE extract_arguments_fastcall
        <5>1. HandleVarargs(nargs + 1)
          BY <1>2, <2>2, <4>2 DEF extract_arguments_fastcall
        <5>2. [k \in 1..(nargs + 1 - (nargs + 1)) |-> Positional(nargs + 1 + k - 1)] = <<>>
          <6>1. 1..(nargs + 1 - (nargs + 1)) = {}
            BY <1>2
          <6> QED
            BY <6>1
        <5> QED
          BY Zenon, <5>1, <5>2 DEF HandleVarargs
      <4> QED
        BY <4>1, <4>2
    <3> QED
      BY <3>1, <3>2
  <2> QED
    BY <1>2, <1>4, <2>1, <2>2
<1>6. ASSUME NEW i \in DOMAIN items, Regular(i)
      PROVE  output'[R(items, i)] = Value(i)
  <2>1. /\ R(items, i) \in Slots
        /\ KeywordOnly(i) <=> R(items, i) > Len(positional_parameters)
        /\ ~KeywordOnly(i) => PositionOf(i) = R(items, i)
    BY <1>1, <1>6, ParameterIs DEF Parsing
  <2>2. R(items, i) \in Nat
    BY <1>2, <2>1 DEF Slots
  <2>3. GivenByPosition(i) <=> R(items, i) <= Len(positional_parameters) /\ R(items, i) <= nargs
    BY <1>2, <2>1, <2>2 DEF GivenByPosition
  <2> QED
    BY <1>1, <1>3, <2>1, <2>3 DEF Value, NoKeywords, GivenByPosition
<1>7. Options'
  BY <1>1, <1>6, RulesKept DEF Options, Value, Positional, Keyword, None
<1>8. pc' = "keywords" => Answers'
  <2>1. /\ UNCHANGED <<MaxPositional, Rest>>
        /\ Has("*args")' <=> Has("*args")
    BY <1>1, RulesKept
  <2>2. pc' = "keywords" => varargs' = Rest' /\ (nargs' > MaxPositional' => Has("*args")')
    BY <1>1, <1>2, <1>4, <1>5, <2>1
  <2> QED
    BY <1>1, <1>7, <2>2 DEF Answers, NoKeywords
<1>9. pc' = "too many" => Conflict'
  <2>1. /\ UNCHANGED MaxPositional
        /\ Has("*args")' <=> Has("*args")
    BY <1>1, RulesKept
  <2>2. pc' = "too many" => nargs > MaxPositional /\ ~Has("*args")
    <3>1. nargs <= MaxPositional \/ nargs > MaxPositional
      BY <1>2
    <3>2. "keywords" # "too many"
      OBVIOUS
    <3> QED
      BY Zenon, <1>4, <3>1, <3>2
  <2>3. nargs > MaxPositional /\ ~Has("*args") => Conflict'
    BY <1>1, <2>1 DEF Conflict
  <2> QED
    BY <2>2, <2>3
<1> QED
  BY <1>4, <1>8, <1>9 DEF AnswersInv, AnswersAsPython

\* A keyword that is bound sets its parameter's option,
LEMMA OptionSet ==
  ASSUME ArgumentsInv, Placed, Options, NEW n \in DOMAIN items, NextKeyword(n),
         Regular(n), Binds(n), ~GivenByPosition(n),
         output' = [output EXCEPT ![R(items, n)] = Keyword(n)]
  PROVE  Options'
<1>1. /\ pc = "keywords" /\ pc \notin Parsing /\ given' = given \cup {n} /\ n \notin given
      /\ UNCHANGED <<items, nargs>>
  BY DEF NextKeyword, Parsing
<1>2. DOMAIN output = Slots
  BY <1>1 DEF ArgumentsInv, Filled
<1>3. ASSUME NEW i \in DOMAIN items, Regular(i)
      PROVE  output'[R(items, i)] = Value(i)'
  <2>1. R(items, i) \in Slots /\ output[R(items, i)] = Value(i)
    BY <1>1, <1>3, ParameterIs DEF Options
  <2>2. /\ GivenByPosition(i)' <=> GivenByPosition(i)
        /\ Binds(i)' <=> Binds(i)
        /\ PositionOf(i)' = PositionOf(i)
    BY <1>1, RulesKept
  <2>3. CASE i = n
    <3>1. output'[R(items, n)] = Keyword(n)
      BY <1>2, <2>1, <2>3
    <3>2. Value(n)' = Keyword(n)'
      BY <1>1, <2>2, <2>3 DEF Value
    <3> QED
      BY <2>3, <3>1, <3>2 DEF Keyword
  <2>4. CASE i # n
    <3>1. R(items, i) # R(items, n)
      BY <1>1, <1>3, <2>4, OptionsDiffer
    <3>2. output'[R(items, i)] = output[R(items, i)]
      BY <1>2, <2>1, <3>1
    <3>3. Value(i)' = Value(i)
      BY <1>1, <2>2, <2>4 DEF Value, Positional, Keyword, None
    <3> QED
      BY <2>1, <3>2, <3>3
  <2> QED
    BY <2>3, <2>4
<1> QED
  BY <1>1, <1>3, RulesKept DEF Options

\* and one that is not sets none.
LEMMA OptionsLeft ==
  ASSUME Options, NEW n, NextKeyword(n), ~Binds(n), UNCHANGED output
  PROVE  Options'
<1>1. given' = given \cup {n} /\ UNCHANGED <<items, nargs>>
  BY DEF NextKeyword
<1>2. ASSUME NEW i \in DOMAIN items PROVE Value(i)' = Value(i)
  <2>1. /\ GivenByPosition(i)' <=> GivenByPosition(i)
        /\ Binds(i)' <=> Binds(i)
        /\ PositionOf(i)' = PositionOf(i)
    BY <1>1, RulesKept
  <2> QED
    BY <1>1, <2>1 DEF Value, Positional, Keyword, None
<1> QED
  BY <1>1, <1>2, RulesKept DEF Options

\* What else there is to say when a keyword is accepted.
LEMMA KeywordAccepted ==
  ASSUME Answers, NEW n, NextKeyword(n), Options', Binds(n) => ~GivenByPosition(n),
         IF Binds(n) THEN UNCHANGED <<varkeywords, positional_only_keyword_arguments>>
         ELSE IF Has("**kwargs")
              THEN /\ varkeywords' = varkeywords \cup {n}
                   /\ UNCHANGED positional_only_keyword_arguments
              ELSE /\ positional_only_keyword_arguments' =
                        positional_only_keyword_arguments \cup {n}
                   /\ UNCHANGED varkeywords
  PROVE  Answers'
<1>1. given' = given \cup {n} /\ UNCHANGED <<items, nargs, varargs>>
  BY DEF NextKeyword
<1>2. /\ UNCHANGED <<MaxPositional, Rest>>
      /\ Has("*args")' <=> Has("*args")
      /\ Has("**kwargs")' <=> Has("**kwargs")
      /\ \A i : /\ GivenByPosition(i)' <=> GivenByPosition(i)
                /\ Binds(i)' <=> Binds(i)
  BY <1>1, RulesKept
<1>3. varargs' = Rest' /\ (nargs' > MaxPositional' => Has("*args")')
  BY <1>1, <1>2 DEF Answers
<1>4. \A i \in given' : Binds(i)' => ~GivenByPosition(i)'
  BY <1>1, <1>2 DEF Answers
<1>5. varkeywords' \cup positional_only_keyword_arguments' = {i \in given' : ~Binds(i)'}
  <2>1. {i \in given' : ~Binds(i)'} = {i \in given : ~Binds(i)} \cup (IF Binds(n) THEN {} ELSE {n})
    BY <1>1, <1>2
  <2>2. varkeywords' \cup positional_only_keyword_arguments'
          = (varkeywords \cup positional_only_keyword_arguments)
              \cup (IF Binds(n) THEN {} ELSE {n})
    OBVIOUS
  <2> QED
    BY <2>1, <2>2 DEF Answers
<1>6. IF Has("**kwargs")' THEN positional_only_keyword_arguments' = {} ELSE varkeywords' = {}
  <2>1. IF Has("**kwargs") THEN positional_only_keyword_arguments = {} ELSE varkeywords = {}
    BY DEF Answers
  <2> QED
    BY Zenon, <1>2, <2>1
<1> QED
  BY Zenon, <1>3, <1>4, <1>5, <1>6 DEF Answers

LEMMA KeywordAnswers ==
  ASSUME ArgumentsInv, Placed, AnswersInv, NEW n \in Names,
         TakeKeywordOnly(n) \/ TakePositional(n) \/ TakePositionalOnly(n) \/ TakeUnknown(n)
  PROVE  AnswersInv'
<1>1. /\ NextKeyword(n) /\ pc = "keywords" /\ pc \notin Parsing /\ n \notin given
      /\ given' = given \cup {n} /\ UNCHANGED <<items, nargs>>
  BY DEF TakeKeywordOnly, TakePositional, TakePositionalOnly, TakeUnknown, NextKeyword, Parsing
<1>2. Answers /\ Options
  BY <1>1 DEF AnswersInv, Answers
<1>3. /\ has_kwargs <=> Has("**kwargs")
      /\ Has("**kwargs")' <=> Has("**kwargs")
      /\ Binds(n)' <=> Binds(n)
      /\ GivenByPosition(n)' <=> GivenByPosition(n)
  BY <1>1, SignatureHas, RulesKept
<1>4. CASE TakeKeywordOnly(n)
  <2>1. PICK k \in KeywordOnlyIndex(n) : Replace(Len(positional_parameters) + k, n)
    BY <1>4 DEF TakeKeywordOnly
  <2>2. /\ n \in DOMAIN items /\ Regular(n) /\ KeywordOnly(n)
        /\ Replace(R(items, n), n)
    BY <1>1, <2>1, FoundIs
  <2>3. ~PositionalOnly(n)
    <3>1. /\ R(items, n) > Len(positional_parameters) /\ R(items, n) \in Slots
          /\ PositionalOnly(n) <=> R(items, n) <= positional_only_parameters
      BY <1>1, <2>2, ParameterIs
    <3> QED
      BY <3>1 DEF Slots, ArgumentsInv, TypeOK
  <2>4. Binds(n) /\ ~GivenByPosition(n)
    BY <2>2, <2>3 DEF Binds, GivenByPosition
  <2>5. output[R(items, n)] = None
    BY <1>1, <1>2, <2>2, <2>4 DEF Options, Value
  <2>6. /\ pc' = "keywords" /\ output' = [output EXCEPT ![R(items, n)] = Keyword(n)]
        /\ UNCHANGED <<varkeywords, positional_only_keyword_arguments>>
    BY <2>2, <2>5 DEF Replace
  <2>7. Options'
    BY <1>1, <1>2, <2>2, <2>4, <2>6, OptionSet
  <2>8. Answers'
    BY <1>1, <1>2, <2>4, <2>6, <2>7, KeywordAccepted
  <2> QED
    BY <2>6, <2>8 DEF AnswersInv, AnswersAsPython
<1>5. CASE TakePositional(n)
  <2>1. PICK k \in PositionalIndex(n) : k > positional_only_parameters /\ Replace(k, n)
    BY <1>5 DEF TakePositional
  <2>2. /\ n \in DOMAIN items /\ Regular(n) /\ ~KeywordOnly(n) /\ k = R(items, n)
        /\ Replace(R(items, n), n)
    BY <1>1, <2>1, FoundIs
  <2>3. ~PositionalOnly(n)
    <3>1. /\ R(items, n) \in Slots
          /\ PositionalOnly(n) <=> R(items, n) <= positional_only_parameters
      BY <1>1, <2>2, ParameterIs
    <3> QED
      BY <2>1, <2>2, <3>1 DEF Slots, ArgumentsInv, TypeOK
  <2>4. Binds(n)
    BY <2>2, <2>3 DEF Binds
  <2>5. output[R(items, n)] = IF GivenByPosition(n) THEN Positional(PositionOf(n)) ELSE None
    BY <1>1, <1>2, <2>2 DEF Options, Value
  <2>6. /\ output' = [output EXCEPT ![R(items, n)] = Keyword(n)]
        /\ pc' = IF output[R(items, n)] = None THEN "keywords" ELSE "multiple values"
        /\ UNCHANGED <<varkeywords, positional_only_keyword_arguments>>
    BY <2>2 DEF Replace
  <2>7. CASE GivenByPosition(n)
    <3>1. pc' = "multiple values"
      <4>1. Positional(PositionOf(n)) # None
        BY DEF Positional, None
      <4>2. output[R(items, n)] # None
        BY Zenon, <2>5, <2>7, <4>1
      <4> QED
        BY Zenon, <2>6, <4>2
    <3>2. Conflict'
      BY <1>1, <1>3, <2>4, <2>7 DEF Conflict
    <3> QED
      BY <3>1, <3>2 DEF AnswersInv, AnswersAsPython
  <2>8. CASE ~GivenByPosition(n)
    <3>1. pc' = "keywords"
      BY <2>5, <2>6, <2>8
    <3>2. Options'
      BY <1>1, <1>2, <2>2, <2>4, <2>6, <2>8, OptionSet
    <3>3. Answers'
      BY <1>1, <1>2, <2>4, <2>6, <2>8, <3>2, KeywordAccepted
    <3> QED
      BY <3>1, <3>3 DEF AnswersInv, AnswersAsPython
  <2> QED
    BY <2>7, <2>8
<1>6. CASE TakePositionalOnly(n)
  <2>1. PICK k \in PositionalIndex(n) : k <= positional_only_parameters
    BY <1>6 DEF TakePositionalOnly
  <2>2. n \in DOMAIN items /\ Regular(n) /\ R(items, n) <= positional_only_parameters
    BY <1>1, <2>1, FoundIs
  <2>3. ~Binds(n)
    BY <1>1, <2>2, ParameterIs DEF Binds
  <2>4. /\ pc' = "keywords" /\ UNCHANGED output
        /\ IF Has("**kwargs")
           THEN /\ varkeywords' = varkeywords \cup {n}
                /\ UNCHANGED positional_only_keyword_arguments
           ELSE /\ positional_only_keyword_arguments' = positional_only_keyword_arguments \cup {n}
                /\ UNCHANGED varkeywords
    BY <1>1, <1>3, <1>6 DEF TakePositionalOnly
  <2>5. Options'
    BY <1>1, <1>2, <2>3, <2>4, OptionsLeft
  <2>6. Answers'
    BY <1>1, <1>2, <2>3, <2>4, <2>5, KeywordAccepted
  <2> QED
    BY <2>4, <2>6 DEF AnswersInv, AnswersAsPython
<1>7. CASE TakeUnknown(n)
  <2>1. KeywordOnlyIndex(n) = {} /\ PositionalIndex(n) = {}
    BY <1>7 DEF TakeUnknown
  <2>2. ~Binds(n)
    BY <1>1, <2>1, ParameterIs DEF Binds
  <2>3. CASE Has("**kwargs")
    <3>1. /\ pc' = "keywords" /\ varkeywords' = varkeywords \cup {n}
          /\ UNCHANGED <<output, positional_only_keyword_arguments>>
      BY <1>1, <1>3, <1>7, <2>3 DEF TakeUnknown
    <3>2. Options'
      BY <1>1, <1>2, <2>2, <3>1, OptionsLeft
    <3>3. Answers'
      BY <1>1, <1>2, <2>2, <2>3, <3>1, <3>2, KeywordAccepted
    <3> QED
      BY <3>1, <3>3 DEF AnswersInv, AnswersAsPython
  <2>4. CASE ~Has("**kwargs")
    <3>1. pc' = "unexpected keyword"
      BY <1>3, <1>7, <2>4 DEF TakeUnknown
    <3>2. Conflict'
      BY <1>1, <1>3, <2>2, <2>4 DEF Conflict
    <3> QED
      BY <3>1, <3>2 DEF AnswersInv, AnswersAsPython
  <2> QED
    BY <2>3, <2>4
<1> QED
  BY <1>4, <1>5, <1>6, <1>7

\* A parameter that lacks a value is one of those the check looks at, and one
\* of these that has none lacks a value.
LEMMA LacksIsMissing ==
  ASSUME ArgumentsInv, Placed, pc = "keywords", Options
  PROVE  (MissingPositional \/ MissingKeyword) <=> \E i \in DOMAIN items : Lacks(i)
<1>1. /\ pc \notin Parsing /\ TypeOK /\ Counted /\ next - 1 = Len(items) /\ DOMAIN items = 1..(next - 1)
      /\ Len(positional_parameters) \in Nat /\ Len(keyword_only_parameters) \in Nat
      /\ DOMAIN positional_parameters = 1..Len(positional_parameters)
      /\ required_positional_parameters \in 0..Len(positional_parameters) /\ nargs \in Nat
  BY DEF ArgumentsInv, TypeOK, Parsing
<1>2. ASSUME NEW i \in DOMAIN items, items[i] = "required"
      PROVE  Lacks(i) <=> output[R(items, i)] = None
  <2>1. output[R(items, i)] = Value(i)
    BY <1>2 DEF Options, Regular
  <2> QED
    BY <1>2, <2>1 DEF Value, Lacks, Positional, Keyword, None
<1>3. ASSUME MissingPositional PROVE \E i \in DOMAIN items : Lacks(i)
  <2>1. PICK k \in (nargs + 1)..required_positional_parameters : output[k] = None
    BY <1>3 DEF MissingPositional
  <2>2. k \in DOMAIN positional_parameters /\ k <= required_positional_parameters
    BY <1>1, <2>1
  <2>3. /\ positional_parameters[k] \in 1..(next - 1) /\ R(items, positional_parameters[k]) = k
        /\ items[positional_parameters[k]] = "required"
    BY <1>1, <2>2 DEF Placed, Counted
  <2> QED
    BY <1>1, <1>2, <2>1, <2>3
<1>4. ASSUME MissingKeyword PROVE \E i \in DOMAIN items : Lacks(i)
  <2>1. PICK k \in DOMAIN keyword_only_parameters :
          keyword_only_parameters[k].required /\ output[Len(positional_parameters) + k] = None
    BY <1>4 DEF MissingKeyword
  <2>2. /\ keyword_only_parameters[k].name \in 1..(next - 1)
        /\ R(items, keyword_only_parameters[k].name) = Len(positional_parameters) + k
    BY <2>1 DEF Placed
  <2>3. items[keyword_only_parameters[k].name] = "required"
    BY <1>1, <2>1 DEF Counted
  <2> QED
    BY <1>1, <1>2, <2>1, <2>2, <2>3
<1>5. ASSUME NEW i \in DOMAIN items, Lacks(i) PROVE MissingPositional \/ MissingKeyword
  <2>1. items[i] = "required" /\ Regular(i) /\ ~GivenByPosition(i)
    BY <1>5 DEF Lacks, Regular
  <2>2. output[R(items, i)] = None
    BY <1>2, <1>5, <2>1
  <2>3. CASE KeywordOnly(i)
    <3> DEFINE k == R(items, i) - Len(positional_parameters)
    <3>1. k \in KeywordOnlyIndex(i) /\ keyword_only_parameters[k].required
          /\ R(items, i) \in Slots
      BY <1>1, <2>1, <2>3, ParameterIs
    <3>2. Len(positional_parameters) + k = R(items, i)
      BY <1>1, <3>1 DEF Slots
    <3>3. k \in DOMAIN keyword_only_parameters
      BY <3>1 DEF KeywordOnlyIndex
    <3> HIDE DEF k
    <3> QED
      BY <2>2, <3>1, <3>2, <3>3 DEF MissingKeyword
  <2>4. CASE ~KeywordOnly(i)
    <3>1. /\ PositionOf(i) = R(items, i) /\ R(items, i) <= required_positional_parameters
          /\ R(items, i) \in Slots
      BY <1>1, <2>1, <2>4, ParameterIs
    <3>2. ~(R(items, i) <= nargs)
      BY <2>1, <2>4, <3>1 DEF GivenByPosition
    <3>3. R(items, i) \in (nargs + 1)..required_positional_parameters
      BY <1>1, <3>1, <3>2 DEF Slots
    <3> QED
      BY <2>2, <3>3 DEF MissingPositional
  <2> QED
    BY <2>3, <2>4
<1> QED
  BY <1>3, <1>4, <1>5

LEMMA AnswersStand ==
  ASSUME UNCHANGED <<items, nargs, given, output, varargs, varkeywords,
                     positional_only_keyword_arguments>>
  PROVE  /\ \A i \in DOMAIN items : /\ Lacks(i)' <=> Lacks(i)
                                    /\ Value(i)' = Value(i)
         /\ Conflict' <=> Conflict
         /\ Answers' <=> Answers
<1>1. /\ UNCHANGED <<MaxPositional, Rest>>
      /\ Has("*args")' <=> Has("*args")
      /\ Has("**kwargs")' <=> Has("**kwargs")
      /\ \A i : /\ GivenByPosition(i)' <=> GivenByPosition(i)
                /\ Binds(i)' <=> Binds(i)
                /\ Regular(i)' <=> Regular(i)
                /\ PositionOf(i)' = PositionOf(i)
  BY RulesKept
<1>2. \A i \in DOMAIN items : /\ Lacks(i)' <=> Lacks(i)
                              /\ Value(i)' = Value(i)
  BY <1>1 DEF Lacks, Value, Positional, Keyword, None
<1>3. Conflict' <=> Conflict
  BY <1>1 DEF Conflict
<1>4. Options' <=> Options
  BY <1>1, <1>2 DEF Options
<1>5. Answers' <=> Answers
  BY Zenon, <1>1, <1>4 DEF Answers
<1> QED
  BY <1>2, <1>3, <1>5

LEMMA CheckAnswers ==
  ASSUME ArgumentsInv, Placed, AnswersInv, CheckRequired
  PROVE  AnswersInv'
<1>1. pc = "keywords" /\ UNCHANGED <<items, parseVars, callVars>> /\ Answers /\ Options
  BY DEF CheckRequired, AnswersInv, Answers
<1>2. /\ UNCHANGED <<items, nargs, given, output, varargs, varkeywords,
                     positional_only_keyword_arguments, taken>>
  BY <1>1 DEF callVars
<1>3. /\ \A i \in DOMAIN items : Lacks(i)' <=> Lacks(i)
      /\ Conflict' <=> Conflict
      /\ Answers' <=> Answers
  BY <1>2, AnswersStand
<1>4. pc' = IF positional_only_keyword_arguments # {} THEN "positional-only"
            ELSE IF MissingPositional \/ MissingKeyword THEN "missing" ELSE "extracted"
  BY DEF CheckRequired
<1>5. CASE positional_only_keyword_arguments # {}
  <2>1. PICK n \in positional_only_keyword_arguments : TRUE
    BY <1>5
  <2>2. n \in given /\ ~Binds(n) /\ ~Has("**kwargs")
    BY <1>1, <2>1 DEF Answers
  <2>3. Conflict'
    BY <1>3, <2>2 DEF Conflict
  <2> QED
    BY <1>4, <1>5, <2>3 DEF AnswersInv, AnswersAsPython
<1>6. CASE positional_only_keyword_arguments = {} /\ (MissingPositional \/ MissingKeyword)
  <2>1. \E i \in DOMAIN items : Lacks(i)
    BY <1>1, <1>6, LacksIsMissing
  <2>2. pc' = "missing"
    BY <1>4, <1>6
  <2>3. \E i \in DOMAIN items' : Lacks(i)'
    BY <1>2, <1>3, <2>1
  <2> QED
    BY <2>2, <2>3 DEF AnswersInv, AnswersAsPython
<1>7. CASE positional_only_keyword_arguments = {} /\ ~(MissingPositional \/ MissingKeyword)
  <2>1. \A i \in DOMAIN items : ~Lacks(i)
    BY <1>1, <1>7, LacksIsMissing
  <2>2. pc' = "extracted"
    BY <1>4, <1>7
  <2>3. ~Conflict
    <3>1. ~(nargs > MaxPositional /\ ~Has("*args"))
      BY <1>1 DEF Answers
    <3>2. ~ \E n \in given : Binds(n) /\ GivenByPosition(n)
      BY <1>1 DEF Answers
    <3>3. ~ \E n \in given : ~Binds(n) /\ ~Has("**kwargs")
      BY <1>1, <1>7 DEF Answers
    <3> QED
      BY <3>1, <3>2, <3>3 DEF Conflict
  <2> QED
    BY <1>1, <1>2, <1>3, <2>1, <2>2, <2>3 DEF AnswersInv, AnswersAsPython
<1> QED
  BY <1>5, <1>6, <1>7

LEMMA ReadAnswers ==
  ASSUME ArgumentsInv, Placed, AnswersInv, ReadArguments
  PROVE  AnswersInv'
<1>1. /\ pc = "extracted" /\ pc \notin Parsing /\ pc' = "called"
      /\ UNCHANGED <<items, parseVars, nargs, given, output, varargs, varkeywords,
                     positional_only_keyword_arguments>>
      /\ taken' = [i \in {j \in DOMAIN items : Regular(j)} |-> output[option_pos(i)]]
  BY DEF ReadArguments, Parsing
<1>2. Answers /\ Options /\ ~Conflict /\ \A i \in DOMAIN items : ~Lacks(i)
  BY <1>1 DEF AnswersInv, Answers
<1>3. /\ UNCHANGED <<MaxPositional, Rest>>
      /\ Has("*args")' <=> Has("*args")
      /\ Has("**kwargs")' <=> Has("**kwargs")
      /\ \A i : /\ GivenByPosition(i)' <=> GivenByPosition(i)
                /\ Binds(i)' <=> Binds(i)
                /\ Regular(i)' <=> Regular(i)
                /\ PositionOf(i)' = PositionOf(i)
  BY <1>1, RulesKept
<1>4. ~Conflict' /\ \A i \in DOMAIN items : ~Lacks(i)' /\ Value(i)' = Value(i)
  BY <1>1, <1>2, <1>3 DEF Conflict, Lacks, Value, Positional, Keyword, None
<1>5. \A i \in {j \in DOMAIN items : Regular(j)} : output[option_pos(i)] = Value(i)
  <2>1. \A i : option_pos(i) = R(items, i)
    BY DEF option_pos, R, Regular
  <2> QED
    BY <1>2, <2>1 DEF Options
<1>6. taken' = [i \in {j \in DOMAIN items : Regular(j)} |-> Value(i)]
  BY <1>1, <1>5
<1>7. taken' = [i \in {j \in DOMAIN items' : Regular(j)'} |-> Value(i)']
  <2>1. {j \in DOMAIN items' : Regular(j)'} = {j \in DOMAIN items : Regular(j)}
    BY <1>1, <1>3
  <2> QED
    BY <1>4, <1>6, <2>1
<1>8. varargs' = Rest'
  BY <1>1, <1>2, <1>3 DEF Answers
<1>9. varkeywords' = {n \in given' : ~Binds(n)'}
  <2>1. \A n \in given : ~Binds(n) => Has("**kwargs")
    BY <1>2 DEF Conflict
  <2>2. varkeywords = {n \in given : ~Binds(n)}
    BY <1>2, <2>1 DEF Answers
  <2> QED
    BY <1>1, <1>3, <2>2
<1>10. \A i \in DOMAIN items' : ~Lacks(i)'
  BY <1>1, <1>4
<1> QED
  BY <1>1, <1>4, <1>7, <1>8, <1>9, <1>10 DEF AnswersInv, AnswersAsPython, Rest

LEMMA AnswersKept == ArgumentsInv /\ Placed /\ AnswersInv /\ [Next]_vars => AnswersInv'
<1> SUFFICES ASSUME ArgumentsInv, Placed, AnswersInv, [Next]_vars PROVE AnswersInv'
  OBVIOUS
<1>1. CASE \/ add_argument \/ add_varargs \/ add_kwargs \/ finish_pos_only_args \/ finish_pos_args
           \/ SkipPy \/ Bail \/ Call
  <2>1. /\ pc \in {"parse", "bailed", "positional"} /\ pc' \in {"parse", "bailed", "positional"}
        /\ UNCHANGED <<given, varkeywords, positional_only_keyword_arguments>>
    BY <1>1 DEF add_argument, add_varargs, add_kwargs, finish_pos_only_args, finish_pos_args,
       SkipPy, Bail, Call, Item, callVars
  <2> QED
    BY <2>1 DEF AnswersInv, AnswersAsPython, NoKeywords
<1>2. CASE UNCHANGED vars
  <2>1. UNCHANGED <<items, pc, nargs, given, output, varargs, varkeywords,
                    positional_only_keyword_arguments, taken>>
    BY <1>2 DEF vars, callVars
  <2>2. /\ \A i \in DOMAIN items : /\ Lacks(i)' <=> Lacks(i)
                                   /\ Value(i)' = Value(i)
        /\ Conflict' <=> Conflict
        /\ Answers' <=> Answers
    BY <2>1, AnswersStand
  <2>3. /\ UNCHANGED Rest
        /\ \A i : /\ Binds(i)' <=> Binds(i)
                  /\ Regular(i)' <=> Regular(i)
    BY <2>1, RulesKept
  <2>4. AnswersAsPython'
    <3>1. CASE pc = "called"
      <4>1. /\ ~Conflict /\ \A i \in DOMAIN items : ~Lacks(i)
            /\ taken = [i \in {j \in DOMAIN items : Regular(j)} |-> Value(i)]
            /\ varargs = Rest
            /\ varkeywords = {n \in given : ~Binds(n)}
        BY <3>1 DEF AnswersInv, AnswersAsPython, Rest
      <4>2. taken' = [i \in {j \in DOMAIN items' : Regular(j)'} |-> Value(i)']
        <5>1. {j \in DOMAIN items' : Regular(j)'} = {j \in DOMAIN items : Regular(j)}
          BY <2>1, <2>3
        <5> QED
          BY <2>1, <2>2, <4>1, <5>1
      <4>3. varkeywords' = {n \in given' : ~Binds(n)'}
        BY <2>1, <2>3, <4>1
      <4>4. varargs' = Rest' /\ ~Conflict' /\ \A i \in DOMAIN items' : ~Lacks(i)'
        BY <2>1, <2>2, <2>3, <4>1
      <4> QED
        BY <2>1, <3>1, <4>2, <4>3, <4>4 DEF AnswersAsPython, Rest
    <3>2. CASE pc # "called"
      BY <2>1, <2>2, <3>2 DEF AnswersInv, AnswersAsPython
    <3> QED
      BY <3>1, <3>2
  <2> QED
    BY <2>1, <2>2, <2>4 DEF AnswersInv, NoKeywords
<1> QED
  BY <1>1, <1>2, PositionalAnswers, KeywordAnswers, CheckAnswers, ReadAnswers DEF Next

\* Every call is answered as Python answers it, for signatures and calls of any
\* length, by both conventions and in whichever order the keywords come
\* (extract_argument.rs:263-491).
THEOREM CallsAreAnsweredAsPython == Spec => []AnswersAsPython
<1>1. Init => Placed /\ AnswersInv
  <2>1. Init => AnswersInv
    BY DEF Init, AnswersInv, AnswersAsPython, NoKeywords
  <2> QED
    BY <2>1, InitPlaced
<1>2. AnswersInv => AnswersAsPython
  BY DEF AnswersInv
<1> QED
  BY <1>1, <1>2, PlacedKept, AnswersKept, OrderInvariant, ArgumentsInvariant, PTL DEF Spec

-----------------------------------------------------------------------------
(* The VM                                                                 *)

Attached(f) == f.kind \in Tokened /\ f.token # NoVM

\* Below a frame of with_vm_bound nobody has a token.
BoundIsFirst ==
  \A i, j \in DOMAIN stack :
    stack[j].kind = "bound" /\ i < j => ~Attached(stack[i])

\* A frame that runs on the embedded interpreter is that of with_vm_bound, or
\* above it.
EmbeddedIsBound ==
  ~unwound =>
    \A i \in DOMAIN stack :
      stack[i].vm = Embedded => \E j \in 1..i : stack[j].kind = "bound"

\* What a frame's kind says of its token.
TokensFit ==
  \A i \in DOMAIN stack :
    /\ stack[i].kind = "bound" => stack[i].token # NoVM
    /\ stack[i].token = Embedded => stack[i].vm = Embedded

BoundNow == CURRENT_VM = Embedded /\ ~unwound =>
              \E i \in DOMAIN stack : stack[i].kind = "bound"

StackAttached == \A i \in DOMAIN stack : Attached(stack[i]) => CURRENT_VM # NoVM

VmTypes ==
  /\ stack \in Seq(Frame)
  /\ CURRENT_VM \in Interps \cup {NoVM}
  /\ made \subseteq VMs
  /\ instances \subseteq Interps

VmInv == VmTypes /\ BoundIsFirst /\ EmbeddedIsBound /\ TokensFit /\ BoundNow /\ StackAttached

-----------------------------------------------------------------------------
LEMMA PushIs ==
  ASSUME VmTypes, NEW kind, NEW vm \in Interps, NEW token \in Interps \cup {NoVM},
         kind \in {"enter", "python", "rust", "plain", "method", "gil", "bound"},
         Push(kind, vm, token)
  PROVE  /\ stack' \in Seq(Frame)
         /\ Len(stack') = Len(stack) + 1
         /\ DOMAIN stack = 1..Len(stack) /\ DOMAIN stack' = 1..Len(stack')
         /\ \A i \in DOMAIN stack : stack'[i] = stack[i]
         /\ stack'[Len(stack) + 1] = FrameOf(kind, vm, token)
  <1>1. FrameOf(kind, vm, token) \in Frame
    BY DEF Frame, FrameOf
  <1>2. stack' = Append(stack, FrameOf(kind, vm, token))
    BY DEF Push
  <1>. QED
    BY <1>1, <1>2 DEF VmTypes

LEMMA CutIs ==
  ASSUME VmTypes, NEW n \in Nat, n <= Len(stack), stack' = SubSeq(stack, 1, n)
  PROVE  /\ stack' \in Seq(Frame) /\ Len(stack') = n
         /\ DOMAIN stack = 1..Len(stack) /\ DOMAIN stack' = 1..n
         /\ \A i \in DOMAIN stack' : stack'[i] = stack[i]
  BY DEF VmTypes

-----------------------------------------------------------------------------
\* Some frame is that of with_vm_bound.
Bound == \E i \in DOMAIN stack : stack[i].kind = "bound"

VmParts == BoundIsFirst /\ EmbeddedIsBound /\ TokensFit /\ BoundNow /\ StackAttached

\* What a call must be like to keep the invariant.
LEMMA PushKeeps ==
  ASSUME VmInv, UNCHANGED unwound,
         NEW kind \in {"enter", "python", "rust", "plain", "method", "gil", "bound"},
         NEW vm \in Interps, NEW token \in Interps \cup {NoVM},
         Push(kind, vm, token),
         kind = "bound" => CURRENT_VM = NoVM /\ token # NoVM,
         token = Embedded => vm = Embedded,
         CURRENT_VM # NoVM => CURRENT_VM' # NoVM,
         kind \in Tokened /\ token # NoVM => CURRENT_VM' # NoVM,
         vm = Embedded /\ ~unwound => kind = "bound" \/ Bound,
         CURRENT_VM' = Embedded /\ ~unwound => kind = "bound" \/ Bound
  PROVE  VmParts'
  <1>. DEFINE new == Len(stack) + 1
  <1>1. /\ Len(stack) \in Nat /\ Len(stack') = new
        /\ DOMAIN stack = 1..Len(stack) /\ DOMAIN stack' = 1..new
        /\ \A i \in DOMAIN stack : stack'[i] = stack[i]
        /\ stack'[new].kind = kind /\ stack'[new].vm = vm /\ stack'[new].token = token
    <2>1. VmTypes /\ Len(stack) \in Nat
      BY DEF VmInv, VmTypes
    <2>2. /\ Len(stack') = new
          /\ DOMAIN stack = 1..Len(stack) /\ DOMAIN stack' = 1..Len(stack')
          /\ \A i \in DOMAIN stack : stack'[i] = stack[i]
          /\ stack'[new] = FrameOf(kind, vm, token)
      BY <2>1, PushIs
    <2>3. QED
      BY <2>1, <2>2 DEF FrameOf
  <1>2. \A i \in DOMAIN stack' : i \in DOMAIN stack \/ i = new
    BY <1>1
  <1>. HIDE DEF new
  <1>3. BoundIsFirst'
    <2>. SUFFICES ASSUME NEW i \in DOMAIN stack', NEW j \in DOMAIN stack',
                         stack'[j].kind = "bound", i < j
                  PROVE  ~Attached(stack'[i])
      BY DEF BoundIsFirst, Attached, Tokened
    <2>1. i \in DOMAIN stack
      BY <1>1, <1>2 DEF new
    <2>2. CASE j = new
      BY <1>1, <2>1, <2>2 DEF VmInv, StackAttached
    <2>3. CASE j \in DOMAIN stack
      BY <1>1, <2>1, <2>3 DEF VmInv, BoundIsFirst
    <2>4. QED
      BY <1>2, <2>2, <2>3
  <1>4. EmbeddedIsBound'
    <2>. SUFFICES ASSUME ~unwound, NEW i \in DOMAIN stack', stack'[i].vm = Embedded
                  PROVE  \E j \in 1..i : stack'[j].kind = "bound"
      BY DEF EmbeddedIsBound
    <2>1. CASE i \in DOMAIN stack
      <3>1. PICK j \in 1..i : stack[j].kind = "bound"
        BY <1>1, <2>1 DEF VmInv, EmbeddedIsBound
      <3>2. j \in DOMAIN stack
        BY <1>1, <2>1
      <3>3. QED
        BY <1>1, <3>1, <3>2
    <2>2. CASE i = new /\ kind = "bound"
      BY <1>1, <2>2 DEF new
    <2>3. CASE i = new /\ Bound
      <3>1. PICK j \in DOMAIN stack : stack[j].kind = "bound"
        BY <2>3 DEF Bound
      <3>2. j \in 1..i
        BY <1>1, <2>3 DEF new
      <3>3. QED
        BY <1>1, <3>1, <3>2
    <2>4. QED
      BY <1>1, <1>2, <2>1, <2>2, <2>3
  <1>5. TokensFit'
    BY <1>1, <1>2 DEF VmInv, TokensFit
  <1>6. BoundNow'
    <2>. SUFFICES ASSUME CURRENT_VM' = Embedded, ~unwound
                  PROVE  \E i \in DOMAIN stack' : stack'[i].kind = "bound"
      BY DEF BoundNow
    <2>1. CASE kind = "bound"
      BY <1>1, <2>1 DEF new
    <2>2. CASE Bound
      <3>1. PICK i \in DOMAIN stack : stack[i].kind = "bound"
        BY <2>2 DEF Bound
      <3>2. i \in DOMAIN stack'
        BY <1>1 DEF new
      <3>3. QED
        BY <1>1, <3>1, <3>2
    <2>3. QED
      BY <2>1, <2>2
  <1>7. StackAttached'
    BY <1>1, <1>2 DEF VmInv, StackAttached, Attached
  <1>8. QED
    BY <1>3, <1>4, <1>5, <1>6, <1>7 DEF VmParts

\* A call that leaves CURRENT_VM and gives no token keeps it, too.
LEMMA PushesPlainly ==
  ASSUME VmInv, UNCHANGED <<unwound, CURRENT_VM>>,
         NEW kind \in {"enter", "python", "plain", "method"}, NEW vm \in Interps,
         Push(kind, vm, NoVM), vm = Embedded /\ ~unwound => Bound
  PROVE  VmParts'
  BY PushKeeps, VmAssumption DEF VmInv, VmTypes, BoundNow, Bound, VmAssumption

\* The frame on top runs on an interpreter, on the embedded one only when bound.
LEMMA LastFrame ==
  ASSUME VmInv, stack # <<>>
  PROVE  /\ Len(stack) \in DOMAIN stack
         /\ Last(stack) = stack[Len(stack)]
         /\ Last(stack) \in Frame
         /\ Last(stack).vm \in Interps
         /\ Last(stack).vm = Embedded /\ ~unwound => Bound
  <1>1. stack \in Seq(Frame) /\ Len(stack) \in DOMAIN stack
    BY DEF VmInv, VmTypes
  <1>2. stack[Len(stack)] \in Frame
    BY <1>1
  <1>3. Last(stack) = stack[Len(stack)]
    BY DEF Last
  <1>4. Last(stack).vm \in Interps
    BY <1>2, <1>3 DEF Frame
  <1>5. ASSUME Last(stack).vm = Embedded, ~unwound PROVE Bound
    <2>1. PICK j \in 1..Len(stack) : stack[j].kind = "bound"
      BY <1>1, <1>3, <1>5 DEF VmInv, EmbeddedIsBound
    <2>2. QED
      BY <1>1, <2>1 DEF Bound
  <1>6. QED
    BY <1>1, <1>2, <1>3, <1>4, <1>5

\* Frames are lost from the top.
LEMMA CutKeeps ==
  ASSUME VmInv, NEW n \in Nat, n <= Len(stack), stack' = SubSeq(stack, 1, n),
         ~unwound' => ~unwound
  PROVE  BoundIsFirst' /\ EmbeddedIsBound' /\ TokensFit'
  <1>1. /\ DOMAIN stack = 1..Len(stack) /\ DOMAIN stack' = 1..n
        /\ \A i \in DOMAIN stack' : stack'[i] = stack[i]
    BY CutIs DEF VmInv
  <1>2. DOMAIN stack' \subseteq DOMAIN stack
    <2>1. Len(stack) \in Nat
      BY DEF VmInv, VmTypes
    <2>2. QED
      BY <1>1, <2>1
  <1>3. BoundIsFirst'
    BY <1>1, <1>2 DEF VmInv, BoundIsFirst, Attached, Tokened
  <1>4. EmbeddedIsBound'
    <2>. SUFFICES ASSUME ~unwound', NEW i \in DOMAIN stack', stack'[i].vm = Embedded
                  PROVE  \E j \in 1..i : stack'[j].kind = "bound"
      BY DEF EmbeddedIsBound
    <2>1. PICK j \in 1..i : stack[j].kind = "bound"
      BY <1>1, <1>2 DEF VmInv, EmbeddedIsBound
    <2>2. j \in DOMAIN stack'
      BY <1>1
    <2>3. QED
      BY <1>1, <2>1, <2>2
  <1>5. TokensFit'
    BY <1>1, <1>2 DEF VmInv, TokensFit
  <1>6. QED
    BY <1>3, <1>4, <1>5

-----------------------------------------------------------------------------
LEMMA TypesKept ==
  ASSUME VmInv, VmNext
  PROVE  VmTypes'
  <1>1. stack \in Seq(Frame) /\ made \subseteq VMs /\ instances \subseteq Interps
        /\ CURRENT_VM \in Interps \cup {NoVM} /\ VmTypes
    BY DEF VmInv, VmTypes
  <1>2. ASSUME NEW vm \in VMs, Make(vm) PROVE VmTypes'
    BY <1>1, <1>2 DEF Make, VmTypes
  <1>3. ASSUME NEW vm \in VMs, Drop(vm) PROVE VmTypes'
    BY <1>1, <1>3 DEF Drop, VmTypes
  <1>4. ASSUME NEW vm \in VMs, Enter(vm) PROVE VmTypes'
    <2>1. stack' \in Seq(Frame)
      BY <1>1, <1>4, PushIs DEF Enter, Interps
    <2>2. QED
      BY <1>1, <1>4, <2>1 DEF Enter, VmTypes, interpVars
  <1>5. CASE CallPython
    <2>1. Last(stack).vm \in Interps
      BY <1>5, LastFrame DEF CallPython, RustRuns, Runs
    <2>2. stack' \in Seq(Frame)
      BY <1>1, <1>5, <2>1, PushIs DEF CallPython
    <2>3. QED
      BY <1>1, <1>5, <2>2 DEF CallPython, VmTypes, interpVars
  <1>6. CASE CallRust
    <2>1. Last(stack).vm \in Interps
      BY <1>6, LastFrame DEF CallRust, Runs
    <2>2. stack' \in Seq(Frame)
      BY <1>1, <1>6, <2>1, PushIs DEF CallRust
    <2>3. QED
      BY <1>1, <1>6, <2>1, <2>2 DEF CallRust, VmTypes, interpVars, from_vm
  <1>7. CASE CallPlain
    <2>1. Last(stack).vm \in Interps
      BY <1>7, LastFrame DEF CallPlain, Runs
    <2>2. stack' \in Seq(Frame)
      BY <1>1, <1>7, <2>1, PushIs DEF CallPlain
    <2>3. QED
      BY <1>1, <1>7, <2>2 DEF CallPlain, VmTypes, interpVars
  <1>8. CASE CallMethod
    <2>1. Last(stack).vm \in Interps
      BY <1>8, LastFrame DEF CallMethod, Runs
    <2>2. stack' \in Seq(Frame)
      <3>1. CASE CURRENT_VM = NoVM
        BY <1>1, <1>8, <2>1, <3>1, PushIs DEF CallMethod
      <3>2. CASE CURRENT_VM # NoVM /\ Push("method", CURRENT_VM, CURRENT_VM)
        BY <1>1, <3>2, PushIs
      <3>3. CASE Push("method", Last(stack).vm, Last(stack).vm)
        BY <1>1, <2>1, <3>3, PushIs
      <3>4. QED
        BY <1>8, <3>1, <3>2, <3>3 DEF CallMethod
    <2>3. CURRENT_VM' \in Interps \cup {NoVM}
      BY <1>1, <1>8, <2>1 DEF CallMethod, from_vm
    <2>4. QED
      BY <1>1, <1>8, <2>2, <2>3 DEF CallMethod, VmTypes, interpVars
  <1>9. CASE with_gil
    <2>1. Embedded \in Interps
      BY DEF Interps
    <2>2. CASE CURRENT_VM # NoVM
      <3>1. stack' \in Seq(Frame)
        BY <1>1, <1>9, <2>2, PushIs DEF with_gil
      <3>2. QED
        BY <1>1, <1>9, <2>2, <3>1 DEF with_gil, VmTypes, interpVars
    <2>3. CASE CURRENT_VM = NoVM
      <3>1. stack' \in Seq(Frame)
        BY <1>1, <1>9, <2>1, <2>3, PushIs DEF with_gil
      <3>2. QED
        BY <1>1, <1>9, <2>1, <2>3, <3>1 DEF with_gil, VmTypes, interpVars
    <2>4. QED
      BY <2>2, <2>3
  <1>10. CASE Return
    <2>1. Len(stack) - 1 \in Nat /\ stack' = SubSeq(stack, 1, Len(stack) - 1)
          /\ Last(stack).vm \in Interps
      BY <1>1, <1>10, LastFrame DEF Return, Front
    <2>2. stack' \in Seq(Frame)
      BY <1>1, <2>1, CutIs
    <2>3. CURRENT_VM' \in Interps \cup {NoVM}
      BY <1>1, <1>10, <2>1 DEF Return, from_vm
    <2>4. QED
      BY <1>1, <1>10, <2>2, <2>3 DEF Return, VmTypes, interpVars
  <1>11. ASSUME NEW n \in 0..MaxDepth, Unwind(n) PROVE VmTypes'
    <2>1. n \in Nat /\ n <= Len(stack) /\ stack' = SubSeq(stack, 1, n)
      BY <1>1, <1>11, VmAssumption DEF Unwind, VmAssumption
    <2>2. stack' \in Seq(Frame)
      BY <1>1, <2>1, CutIs
    <2>3. QED
      BY <1>1, <1>11, <2>2 DEF Unwind, VmTypes
  <1>12. QED
    BY <1>2, <1>3, <1>4, <1>5, <1>6, <1>7, <1>8, <1>9, <1>10, <1>11 DEF VmNext

\* Where nothing but the host's interpreters changes.
LEMMA StackIsKept ==
  ASSUME VmInv, UNCHANGED <<stack, CURRENT_VM, unwound>>
  PROVE  VmParts'
  BY DEF VmInv, VmParts, BoundIsFirst, EmbeddedIsBound, TokensFit, BoundNow,
         StackAttached, Attached

\* Every return and every panic keeps the invariant.
LEMMA ReturnKeeps ==
  ASSUME VmInv, Return
  PROVE  VmParts'
  <1>. DEFINE n == Len(stack) - 1
  <1>1. stack # <<>> /\ stack' = SubSeq(stack, 1, n) /\ UNCHANGED unwound
    BY DEF Return, Front, interpVars
  <1>2. /\ Len(stack) \in Nat /\ n \in Nat /\ n < Len(stack) /\ n <= Len(stack)
        /\ n + 1 = Len(stack) /\ VmTypes
    BY <1>1 DEF VmInv, VmTypes
  <1>. HIDE DEF n
  <1>3. /\ DOMAIN stack = 1..Len(stack) /\ DOMAIN stack' = 1..n
        /\ \A i \in DOMAIN stack' : stack'[i] = stack[i]
    BY <1>1, <1>2, CutIs
  <1>4. BoundIsFirst' /\ EmbeddedIsBound' /\ TokensFit'
    BY <1>1, <1>2, CutKeeps
  <1>5. /\ Last(stack) = stack[Len(stack)] /\ Last(stack).vm \in Interps
        /\ Last(stack).vm = Embedded /\ ~unwound => Bound
    BY <1>1, LastFrame
  <1>6. Last(stack).kind # "bound" /\ Bound => Bound'
    BY <1>2, <1>3, <1>5 DEF Bound
  <1>7. CASE Last(stack).kind = "bound"
    <2>1. CURRENT_VM' = NoVM
      BY <1>7 DEF Return
    <2>2. BoundNow'
      BY <2>1, VmAssumption DEF BoundNow, VmAssumption
    <2>3. ASSUME NEW i \in DOMAIN stack' PROVE ~Attached(stack'[i])
      BY <1>2, <1>3, <1>5, <1>7 DEF VmInv, BoundIsFirst
    <2>4. QED
      BY <1>4, <2>2, <2>3 DEF VmParts, StackAttached, Attached, Tokened
  <1>8. CASE Last(stack).kind # "bound"
    <2>1. CURRENT_VM' = CURRENT_VM \/ CURRENT_VM' = Last(stack).vm
      BY <1>8 DEF Return, from_vm
    <2>2. BoundNow'
      BY <1>1, <1>5, <1>6, <1>8, <2>1 DEF VmInv, BoundNow, Bound
    <2>3. CURRENT_VM # NoVM => CURRENT_VM' # NoVM
      BY <1>5, <2>1, VmAssumption DEF Interps, VmAssumption
    <2>4. StackAttached'
      BY <1>2, <1>3, <2>3 DEF VmInv, StackAttached, Attached, Tokened
    <2>5. QED
      BY <1>4, <2>2, <2>4 DEF VmParts
  <1>9. QED
    BY <1>7, <1>8

LEMMA UnwindKeeps ==
  ASSUME VmInv, NEW n \in 0..MaxDepth, Unwind(n)
  PROVE  VmParts'
  <1>1. /\ stack' = SubSeq(stack, 1, n) /\ unwound' = TRUE /\ UNCHANGED CURRENT_VM
        /\ n \in Nat /\ n < Len(stack) /\ n <= Len(stack) /\ Len(stack) \in Nat /\ VmTypes
    BY VmAssumption DEF Unwind, VmAssumption, VmInv, VmTypes
  <1>2. /\ DOMAIN stack = 1..Len(stack) /\ DOMAIN stack' = 1..n
        /\ \A i \in DOMAIN stack' : stack'[i] = stack[i]
    BY <1>1, CutIs
  <1>3. BoundIsFirst' /\ EmbeddedIsBound' /\ TokensFit'
    BY <1>1, CutKeeps
  <1>4. BoundNow'
    BY <1>1 DEF BoundNow
  <1>5. StackAttached'
    BY <1>1, <1>2 DEF VmInv, StackAttached, Attached, Tokened
  <1>6. QED
    BY <1>3, <1>4, <1>5 DEF VmParts

-----------------------------------------------------------------------------
LEMMA PartsKept ==
  ASSUME VmInv, VmNext
  PROVE  VmParts'
  <1>1. /\ CURRENT_VM \in Interps \cup {NoVM} /\ NoVM \notin Interps
        /\ Embedded \in Interps /\ VmTypes
    BY VmAssumption DEF VmInv, VmTypes, VmAssumption, Interps
  <1>2. ASSUME NEW vm \in VMs, Make(vm) PROVE VmParts'
    BY <1>2, StackIsKept DEF Make
  <1>3. ASSUME NEW vm \in VMs, Drop(vm) PROVE VmParts'
    BY <1>3, StackIsKept DEF Drop
  <1>4. ASSUME NEW vm \in VMs, Enter(vm) PROVE VmParts'
    <2>1. vm \in Interps /\ vm # Embedded
      BY <1>4, VmAssumption DEF Interps, VmAssumption
    <2>2. QED
      BY <1>4, <2>1, PushesPlainly DEF Enter, interpVars
  <1>5. CASE CallPython
    <2>1. stack # <<>> /\ Push("python", Last(stack).vm, NoVM) /\ UNCHANGED <<unwound, CURRENT_VM>>
      BY <1>5 DEF CallPython, RustRuns, Runs, interpVars
    <2>2. QED
      BY <2>1, LastFrame, PushesPlainly
  <1>6. CASE CallRust
    <2>. DEFINE vm == Last(stack).vm
    <2>1. stack # <<>> /\ Push("rust", vm, vm) /\ CURRENT_VM' = vm /\ UNCHANGED unwound
      BY <1>6 DEF CallRust, Runs, interpVars, from_vm
    <2>2. vm \in Interps /\ (vm = Embedded /\ ~unwound => Bound)
      BY <2>1, LastFrame
    <2>. HIDE DEF vm
    <2>3. vm # NoVM
      BY <1>1, <2>2
    <2>4. QED
      BY <2>1, <2>2, <2>3, PushKeeps
  <1>7. CASE CallPlain
    <2>1. stack # <<>> /\ Push("plain", Last(stack).vm, NoVM) /\ UNCHANGED <<unwound, CURRENT_VM>>
      BY <1>7 DEF CallPlain, Runs, interpVars
    <2>2. QED
      BY <2>1, LastFrame, PushesPlainly
  <1>8. CASE CallMethod
    <2>. DEFINE vm == Last(stack).vm
    <2>1. stack # <<>> /\ UNCHANGED unwound
      BY <1>8 DEF CallMethod, Runs, interpVars
    <2>2. CASE Push("method", vm, NoVM) /\ UNCHANGED CURRENT_VM
      BY <2>1, <2>2, LastFrame, PushesPlainly
    <2>3. CASE CURRENT_VM # NoVM /\ Push("method", CURRENT_VM, CURRENT_VM) /\ UNCHANGED CURRENT_VM
      <3>1. CURRENT_VM = Embedded /\ ~unwound => Bound
        BY DEF VmInv, BoundNow, Bound
      <3>2. QED
        BY <1>1, <2>1, <2>3, <3>1, PushKeeps
    <2>4. CASE Push("method", vm, vm) /\ CURRENT_VM' = vm
      <3>1. vm \in Interps /\ (vm = Embedded /\ ~unwound => Bound)
        BY <2>1, LastFrame
      <3>. HIDE DEF vm
      <3>2. vm # NoVM
        BY <1>1, <3>1
      <3>3. QED
        BY <2>1, <2>4, <3>1, <3>2, PushKeeps
    <2>5. QED
      BY <1>8, <2>2, <2>3, <2>4 DEF CallMethod, from_vm
  <1>9. CASE with_gil
    <2>1. UNCHANGED unwound
      BY <1>9 DEF with_gil, interpVars
    <2>2. CASE CURRENT_VM # NoVM
      <3>1. Push("gil", CURRENT_VM, CURRENT_VM) /\ UNCHANGED CURRENT_VM
        BY <1>9, <2>2 DEF with_gil
      <3>2. CURRENT_VM = Embedded /\ ~unwound => Bound
        BY DEF VmInv, BoundNow, Bound
      <3>3. QED
        BY <1>1, <2>1, <2>2, <3>1, <3>2, PushKeeps
    <2>3. CASE CURRENT_VM = NoVM
      <3>1. Push("bound", Embedded, Embedded) /\ CURRENT_VM' = Embedded
        BY <1>9, <2>3 DEF with_gil
      <3>2. QED
        BY <1>1, <2>1, <2>3, <3>1, PushKeeps
    <2>4. QED
      BY <2>2, <2>3
  <1>10. CASE Return
    BY <1>10, ReturnKeeps
  <1>11. ASSUME NEW n \in 0..MaxDepth, Unwind(n) PROVE VmParts'
    BY <1>11, UnwindKeeps
  <1>12. QED
    BY <1>2, <1>3, <1>4, <1>5, <1>6, <1>7, <1>8, <1>9, <1>10, <1>11 DEF VmNext

\* The invariant holds on every thread, however calls nest and panic.
THEOREM VmInvariant == VmSpec => []VmInv
  <1>1. VmInit => VmInv
    <2>. SUFFICES ASSUME VmInit PROVE VmInv
      OBVIOUS
    <2>1. CURRENT_VM = NoVM /\ NoVM \notin Interps /\ Embedded \in Interps
      BY VmAssumption DEF VmInit, VmAssumption, Interps
    <2>2. CASE stack = <<>> /\ made = {} /\ instances = {}
      BY <2>1, <2>2 DEF VmInv, VmTypes, BoundIsFirst, EmbeddedIsBound, TokensFit, BoundNow,
                        StackAttached
    <2>3. ASSUME NEW vm \in VMs, made = {vm}, instances \in SUBSET {vm},
                 stack = <<FrameOf("python", vm, NoVM)>>
          PROVE  VmInv
      <3>1. FrameOf("python", vm, NoVM) \in Frame
        BY DEF FrameOf, Frame, Interps
      <3>2. /\ stack \in Seq(Frame) /\ DOMAIN stack = {1} /\ stack[1].kind = "python"
            /\ stack[1].vm = vm /\ stack[1].token = NoVM
        BY <2>3, <3>1 DEF FrameOf
      <3>3. vm \in Interps /\ vm # Embedded
        BY VmAssumption DEF VmAssumption, Interps
      <3>4. VmTypes
        BY <2>1, <2>3, <3>2, <3>3 DEF VmTypes
      <3>5. BoundIsFirst /\ EmbeddedIsBound /\ TokensFit
        BY <2>1, <3>2, <3>3 DEF BoundIsFirst, EmbeddedIsBound, TokensFit
      <3>6. BoundNow /\ StackAttached
        BY <2>1, <3>2 DEF BoundNow, StackAttached, Attached
      <3>7. QED
        BY <3>4, <3>5, <3>6 DEF VmInv
    <2>4. QED
      BY <2>2, <2>3 DEF VmInit
  <1>2. VmInv /\ [VmNext]_vmVars => VmInv'
    <2>. SUFFICES ASSUME VmInv, [VmNext]_vmVars PROVE VmInv'
      OBVIOUS
    <2>1. CASE VmNext
      BY <2>1, TypesKept, PartsKept DEF VmInv, VmParts
    <2>2. CASE UNCHANGED vmVars
      <3>1. VmParts'
        BY <2>2, StackIsKept DEF vmVars
      <3>2. VmTypes'
        BY <2>2 DEF vmVars, VmInv, VmTypes
      <3>3. QED
        BY <3>1, <3>2 DEF VmInv, VmParts
    <2>3. QED
      BY <2>1, <2>2
  <1>3. QED
    BY <1>1, <1>2, PTL DEF VmSpec

-----------------------------------------------------------------------------
\* Every frame runs on an interpreter that was made, an entered one on one that
\* is not dropped.
FramesFit ==
  \A i \in DOMAIN stack :
    /\ stack[i].vm \in made \cup {Embedded}
    /\ stack[i].kind = "enter" => stack[i].vm \in Alive

VmBounds ==
  /\ FramesFit
  /\ dropped \subseteq made
  /\ Len(stack) <= MaxDepth
  /\ CURRENT_VM \in made \cup {Embedded, NoVM}
  /\ pythread \in BOOLEAN /\ unwound \in BOOLEAN
  /\ calls \in 0..MaxCalls

LEMMA PushFits ==
  ASSUME VmTypes, VmBounds, UNCHANGED interpVars,
         NEW kind \in {"enter", "python", "rust", "plain", "method", "gil", "bound"},
         NEW vm \in Interps, NEW token \in Interps \cup {NoVM}, Push(kind, vm, token),
         vm \in made \cup {Embedded}, kind = "enter" => vm \in Alive,
         CURRENT_VM' \in made \cup {Embedded, NoVM}
  PROVE  VmBounds'
  <1>1. /\ Len(stack') = Len(stack) + 1
        /\ DOMAIN stack = 1..Len(stack) /\ DOMAIN stack' = 1..Len(stack')
        /\ \A i \in DOMAIN stack : stack'[i] = stack[i]
        /\ stack'[Len(stack) + 1] = FrameOf(kind, vm, token)
    BY PushIs
  <1>2. Len(stack) \in Nat /\ Len(stack) < MaxDepth /\ calls' \in 0..MaxCalls
    BY VmAssumption DEF VmTypes, VmBounds, Push, VmAssumption
  <1>3. \A i \in DOMAIN stack' : i \in DOMAIN stack \/ i = Len(stack) + 1
    BY <1>1, <1>2
  <1>4. UNCHANGED <<made, dropped, Alive>>
    BY DEF interpVars, Alive
  <1>5. FramesFit'
    BY <1>1, <1>3, <1>4 DEF VmBounds, FramesFit, FrameOf
  <1>6. Len(stack') <= MaxDepth
    BY <1>1, <1>2, VmAssumption DEF VmAssumption
  <1>7. QED
    BY <1>2, <1>4, <1>5, <1>6 DEF VmBounds, interpVars

LEMMA CutFits ==
  ASSUME VmTypes, VmBounds, UNCHANGED <<made, dropped, pythread, calls>>, unwound' \in BOOLEAN,
         NEW n \in Nat, n <= Len(stack), stack' = SubSeq(stack, 1, n),
         CURRENT_VM' \in made \cup {Embedded, NoVM}
  PROVE  VmBounds'
  <1>1. /\ Len(stack') = n /\ DOMAIN stack = 1..Len(stack) /\ DOMAIN stack' = 1..n
        /\ \A i \in DOMAIN stack' : stack'[i] = stack[i]
    BY CutIs
  <1>2. Len(stack) \in Nat /\ Len(stack) <= MaxDepth
    BY DEF VmTypes, VmBounds
  <1>3. Len(stack') <= MaxDepth /\ DOMAIN stack' \subseteq DOMAIN stack
    BY <1>1, <1>2, VmAssumption DEF VmAssumption
  <1>4. FramesFit'
    BY <1>1, <1>3 DEF VmBounds, FramesFit, Alive
  <1>5. QED
    BY <1>3, <1>4 DEF VmBounds

LEMMA LastFits ==
  ASSUME VmInv, VmBounds, stack # <<>>
  PROVE  Last(stack).vm \in Interps /\ Last(stack).vm \in made \cup {Embedded}
  BY LastFrame DEF VmBounds, FramesFit

LEMMA BoundsKept ==
  ASSUME VmInv, VmBounds, VmNext
  PROVE  VmBounds'
  <1>1. /\ VmTypes /\ CURRENT_VM \in made \cup {Embedded, NoVM} /\ NoVM \notin Interps
        /\ CURRENT_VM \in Interps \cup {NoVM} /\ Embedded \in Interps /\ made \subseteq Interps
        /\ Len(stack) \in Nat
    BY VmAssumption DEF VmInv, VmTypes, VmBounds, VmAssumption, Interps
  <1>2. ASSUME NEW vm \in VMs, Make(vm) PROVE VmBounds'
    BY <1>2 DEF Make, VmBounds, FramesFit, Alive
  <1>3. ASSUME NEW vm \in VMs, Drop(vm) PROVE VmBounds'
    <2>1. \A i \in DOMAIN stack : stack[i].vm # vm
      BY <1>3 DEF Drop, ToSet
    <2>2. QED
      BY <1>3, <2>1 DEF Drop, VmBounds, FramesFit, Alive
  <1>4. ASSUME NEW vm \in VMs, Enter(vm) PROVE VmBounds'
    <2>1. vm \in Interps /\ vm \in made
      BY <1>4 DEF Enter, Alive, Interps
    <2>2. QED
      BY <1>1, <1>4, <2>1, PushFits DEF Enter
  <1>5. CASE CallPython
    <2>1. stack # <<>> /\ Push("python", Last(stack).vm, NoVM) /\ UNCHANGED <<interpVars, CURRENT_VM>>
      BY <1>5 DEF CallPython, RustRuns, Runs
    <2>2. QED
      BY <1>1, <2>1, LastFits, PushFits
  <1>6. CASE CallRust
    <2>. DEFINE vm == Last(stack).vm
    <2>1. stack # <<>> /\ Push("rust", vm, vm) /\ CURRENT_VM' = vm /\ UNCHANGED interpVars
      BY <1>6 DEF CallRust, Runs, from_vm
    <2>2. vm \in Interps /\ vm \in made \cup {Embedded}
      BY <2>1, LastFits
    <2>. HIDE DEF vm
    <2>3. QED
      BY <1>1, <2>1, <2>2, PushFits
  <1>7. CASE CallPlain
    <2>1. stack # <<>> /\ Push("plain", Last(stack).vm, NoVM) /\ UNCHANGED <<interpVars, CURRENT_VM>>
      BY <1>7 DEF CallPlain, Runs
    <2>2. QED
      BY <1>1, <2>1, LastFits, PushFits
  <1>8. CASE CallMethod
    <2>. DEFINE vm == Last(stack).vm
    <2>1. stack # <<>> /\ UNCHANGED interpVars
      BY <1>8 DEF CallMethod, Runs
    <2>2. vm \in Interps /\ vm \in made \cup {Embedded}
      BY <2>1, LastFits
    <2>3. \/ Push("method", vm, NoVM) /\ UNCHANGED CURRENT_VM
          \/ CURRENT_VM # NoVM /\ Push("method", CURRENT_VM, CURRENT_VM) /\ UNCHANGED CURRENT_VM
          \/ Push("method", vm, vm) /\ CURRENT_VM' = vm
      BY <1>8 DEF CallMethod, from_vm
    <2>. HIDE DEF vm
    <2>4. CASE Push("method", vm, NoVM) /\ UNCHANGED CURRENT_VM
      BY <1>1, <2>1, <2>2, <2>4, PushFits
    <2>5. CASE CURRENT_VM # NoVM /\ Push("method", CURRENT_VM, CURRENT_VM) /\ UNCHANGED CURRENT_VM
      BY <1>1, <2>1, <2>5, PushFits
    <2>6. CASE Push("method", vm, vm) /\ CURRENT_VM' = vm
      BY <1>1, <2>1, <2>2, <2>6, PushFits
    <2>7. QED
      BY <2>3, <2>4, <2>5, <2>6
  <1>9. CASE with_gil
    <2>1. UNCHANGED interpVars
      BY <1>9 DEF with_gil
    <2>2. CASE CURRENT_VM # NoVM
      <3>1. Push("gil", CURRENT_VM, CURRENT_VM) /\ UNCHANGED CURRENT_VM
        BY <1>9, <2>2 DEF with_gil
      <3>2. QED
        BY <1>1, <2>1, <2>2, <3>1, PushFits
    <2>3. CASE CURRENT_VM = NoVM
      <3>1. Push("bound", Embedded, Embedded) /\ CURRENT_VM' = Embedded
        BY <1>9, <2>3 DEF with_gil
      <3>2. QED
        BY <1>1, <2>1, <3>1, PushFits
    <2>4. QED
      BY <2>2, <2>3
  <1>10. CASE Return
    <2>1. /\ stack # <<>> /\ stack' = SubSeq(stack, 1, Len(stack) - 1)
          /\ UNCHANGED <<made, dropped, pythread, calls, unwound>>
      BY <1>10 DEF Return, Front, interpVars
    <2>2. Len(stack) - 1 \in Nat /\ Len(stack) - 1 <= Len(stack)
      BY <1>1, <2>1 DEF VmTypes
    <2>3. CURRENT_VM' \in made \cup {Embedded, NoVM}
      BY <1>1, <1>10, <2>1, LastFits DEF Return, from_vm
    <2>4. unwound' \in BOOLEAN
      BY <2>1 DEF VmBounds
    <2>5. QED
      BY <1>1, <2>1, <2>2, <2>3, <2>4, CutFits
  <1>11. ASSUME NEW n \in 0..MaxDepth, Unwind(n) PROVE VmBounds'
    <2>1. n \in Nat /\ n <= Len(stack)
      BY <1>1, <1>11, VmAssumption DEF Unwind, VmAssumption
    <2>2. QED
      BY <1>1, <1>11, <2>1, CutFits DEF Unwind
  <1>12. QED
    BY <1>2, <1>3, <1>4, <1>5, <1>6, <1>7, <1>8, <1>9, <1>10, <1>11 DEF VmNext

\* Type correctness of the backend's context, and whatever interpreter is
\* entered has not been dropped.
THEOREM VmTypeCorrect == VmSpec => []VmTypeOK
  <1>1. VmInit => VmBounds
    <2>. SUFFICES ASSUME VmInit PROVE VmBounds
      OBVIOUS
    <2>1. dropped \subseteq made /\ CURRENT_VM \in made \cup {Embedded, NoVM}
      BY DEF VmInit
    <2>2. calls \in 0..MaxCalls
      BY VmAssumption DEF VmInit, VmAssumption
    <2>3. pythread \in BOOLEAN /\ unwound \in BOOLEAN
      BY Zenon DEF VmInit
    <2>4. CASE stack = <<>>
      <3>1. Len(stack) = 0 /\ DOMAIN stack = {}
        BY <2>4
      <3>2. Len(stack) <= MaxDepth
        BY <3>1, VmAssumption DEF VmAssumption
      <3>3. FramesFit
        BY <3>1, Zenon DEF FramesFit
      <3>4. QED
        BY <2>1, <2>2, <2>3, <3>2, <3>3, Zenon DEF VmBounds
    <2>5. ASSUME NEW vm \in VMs, made = {vm}, stack = <<FrameOf("python", vm, NoVM)>>
          PROVE  VmBounds
      <3>1. Len(stack) = 1 /\ DOMAIN stack = {1} /\ stack[1].vm = vm /\ stack[1].kind = "python"
        BY <2>5 DEF FrameOf
      <3>2. Len(stack) <= MaxDepth
        BY <3>1, VmAssumption DEF VmAssumption
      <3>3. FramesFit
        BY <2>5, <3>1 DEF FramesFit
      <3>4. QED
        BY <2>1, <2>2, <2>3, <3>2, <3>3, Zenon DEF VmBounds
    <2>6. QED
      BY <2>4, <2>5, Zenon DEF VmInit
  <1>2. VmInv /\ VmBounds /\ [VmNext]_vmVars => VmBounds'
    <2>1. VmInv /\ VmBounds /\ UNCHANGED vmVars => VmBounds'
      BY DEF vmVars, VmBounds, FramesFit, Alive
    <2>2. QED
      BY <2>1, BoundsKept
  <1>3. VmInv /\ VmBounds => VmTypeOK
    BY DEF VmInv, VmTypes, VmBounds, FramesFit, VmTypeOK, Frames, ToSet
  <1>4. QED
    BY <1>1, <1>2, <1>3, VmInvariant, PTL DEF VmSpec

\* Under Rust code that was given a token the thread finds a VM, so that
\* assume_attached does not panic there (python.rs:11-21, 77-84).
THEOREM TokensFindAVm == VmSpec => []AttachedFindsAVm
  <1>1. VmInv => AttachedFindsAVm
    BY DEF VmInv, StackAttached, Attached, AttachedFindsAVm, Frames, ToSet
  <1>2. QED
    BY <1>1, VmInvariant, PTL

\* with_gil enters the embedded interpreter once, and unless a panic gets past
\* with_vm_bound, unbinds it at the end (python.rs:11-21, 43-63).
THEOREM EmbeddedIsBoundOnce == VmSpec => []BoundOnce
  <1>1. VmInv => BoundOnce
    <2>. SUFFICES ASSUME VmInv PROVE BoundOnce
      OBVIOUS
    <2>1. stack \in Seq(Frame) /\ DOMAIN stack \subseteq Nat
      BY DEF VmInv, VmTypes
    <2>2. ASSUME NEW i \in DOMAIN stack, NEW j \in DOMAIN stack,
                 stack[i].kind = "bound", stack[j].kind = "bound"
          PROVE  ~(i < j)
      BY <2>2 DEF VmInv, BoundIsFirst, TokensFit, Attached, Tokened
    <2>3. \A i, j \in DOMAIN stack : stack[i].kind = "bound" /\ stack[j].kind = "bound" => i = j
      BY <2>1, <2>2
    <2>4. CURRENT_VM = Embedded /\ ~unwound => \E f \in Frames : f.kind = "bound"
      BY DEF VmInv, BoundNow, Frames, ToSet
    <2>5. QED
      BY <2>3, <2>4 DEF BoundOnce
  <1>2. QED
    BY <1>1, VmInvariant, PTL
=============================================================================
