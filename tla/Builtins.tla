------------------------------ MODULE Builtins ------------------------------
(***************************************************************************)
(* What the two engines share beside the operators: the checks a call      *)
(* makes before its arguments are evaluated (ref_params.rs), the built-in  *)
(* functions and methods (builtins.rs, methods.rs), and the shape checks   *)
(* of declared types.                                                      *)
(***************************************************************************)
EXTENDS Values

-----------------------------------------------------------------------------
(* What a call requires of its arguments, before any is evaluated *)

\* required_arity, accepts_arity: a final rest parameter takes any number.
RequiredArity(modes) ==
  Len(modes) - (IF modes # <<>> /\ Last(modes) = "rest" THEN 1 ELSE 0)
AcceptsArity(modes, n) ==
  IF modes # <<>> /\ Last(modes) = "rest" THEN n >= RequiredArity(modes)
  ELSE n = RequiredArity(modes)

\* validate_call_modes: the call site writes `ref` exactly where the
\* parameter is one; the arguments a rest parameter collects are values.
ModesAgree(expected, actual) ==
  \A i \in 1..Len(actual) :
    IF i <= RequiredArity(expected) THEN actual[i] = expected[i] ELSE actual[i] = "value"
ValueOnly(actual) == \A i \in 1..Len(actual) : actual[i] = "value"

\* Collect the arguments beyond the required ones for the rest parameter.
PackRest(modes, args) ==
  LET n == RequiredArity(modes)
  IN IF modes # <<>> /\ Last(modes) = "rest"
     THEN Append(SubSeq(args, 1, n), Array(SubSeq(args, n + 1, Len(args))))
     ELSE args

\* validate_builtin_arity: the number of arguments a built-in function takes.
BuiltinNames == {"range", "print", "try_call", "panic"}
BuiltinArityOk(name, n) ==
  CASE name \in {"try_call", "panic"} -> n = 1
    [] name = "range" -> n \in 1..3
    [] OTHER -> TRUE

\* builtin_method_arity, for the built-in methods that are modelled; -1 is
\* "not a built-in method".
BuiltinMethodArity(m) ==
  CASE m \in {"len", "pop", "reverse", "is_ok", "is_err", "unwrap", "iter", "next", "is_none"} -> 0
    [] m \in {"push", "unwrap_or", "map", "map_err", "and_then"} -> 1
    [] OTHER -> -1

-----------------------------------------------------------------------------
(* Built-in functions and methods *)

Ok(v) == <<"enum", "Result", "Ok", <<"tuple", <<v>> >> >>
ErrOf(v) == <<"enum", "Result", "Err", <<"tuple", <<v>> >> >>
\* make_try_call_err: a caught error as a value.  Its line is left out.
CaughtError(err) ==
  ErrOf(<<"struct", "RuntimeError", << <<"message", Str(<<err[2]>>)>>, <<"line", Int2(0)>> >> >>)
IterNextValue(v) == <<"enum", "Iter", "Next", <<"tuple", <<v>> >> >>
IterDone == <<"enum", "Iter", "Done", <<"unit", <<>> >> >>

BuiltinTypes == {"Result", "RuntimeError", "Iter"}

\* range_cardinality: how many items a range has.
RangeCardinality(from, to, step) ==
  IF step > 0 /\ from < to THEN 1 + (to - from - 1) \div step
  ELSE IF step < 0 /\ from > to THEN 1 + (from - to - 1) \div (-step)
  ELSE 0

Range2(args) ==
  LET from == IF Len(args) = 1 THEN 0 ELSE args[1][2]
      to == IF Len(args) = 1 THEN args[1][2] ELSE args[2][2]
      step == IF Len(args) = 3 THEN args[3][2] ELSE IF from <= to THEN 1 ELSE -1
      n == RangeCardinality(from, to, step)
  IN CASE \E i \in 1..Len(args) : Tag(args[i]) # "int" -> Error("expects an int")
       [] Len(args) = 3 /\ args[3][2] = 0 -> Error("range step")
       [] n > RangeLimit -> FatalError("range limit")
       [] OTHER -> Array([i \in 1..n |-> Int2(from + (i - 1) * step)])

Panic(args) == Error(IF Tag(args[1]) = "str" THEN ToString(args[1][2]) ELSE "panic")

\* The methods that change the array they are called on.
IsMutatingMethod(m) == m \in {"push", "pop", "reverse"}
IsMutatingReceiver(v, m) == Tag(v) = "array" /\ IsMutatingMethod(m)

\* transactional_collection_method: <<result, the array afterwards>>, or
\* <<error, unchanged>> when the receiver is no longer an array.
CollectionMethod(v, m, args) ==
  CASE Tag(v) # "array" -> <<Error("no longer an array"), v>>
    [] m = "push" -> <<None, Array(Append(v[2], args[1]))>>
    [] m = "pop" -> IF v[2] = <<>> THEN <<None, v>> ELSE <<Last(v[2]), Array(Front(v[2]))>>
    [] m = "reverse" -> <<None, Array(Reverse(v[2]))>>

IsBuiltinResult(v) == IF Tag(v) = "enum" THEN v[2] = "Result" ELSE FALSE
TakesCallable(m) == m \in {"map", "map_err", "and_then"}

\* call_method: the built-in methods that neither change a receiver nor call
\* back.  A detached array (one that is not a place) changes without trace.
CallMethod(v, m, args) ==
  CASE m = "is_none" -> Bool(v = None)
    [] IsBuiltinResult(v) /\ m = "is_ok" -> Bool(v[3] = "Ok")
    [] IsBuiltinResult(v) /\ m = "is_err" -> Bool(v[3] = "Err")
    [] IsBuiltinResult(v) /\ m = "unwrap" ->
         IF v[3] = "Ok" THEN v[4][2][1] ELSE Error("unwrap on Err")
    [] IsBuiltinResult(v) /\ m = "unwrap_or" ->
         IF v[3] = "Ok" THEN v[4][2][1] ELSE args[1]
    [] Tag(v) \in {"array", "str", "dict"} /\ m = "len" -> Int2(Len(v[2]))
    [] IsMutatingReceiver(v, m) -> CollectionMethod(v, m, args)[1]
    [] OTHER -> Error("no such method")

\* What a Result combinator does: <<"call", how to wrap the answer>> when the
\* variant is the one it maps, else <<"value", the receiver rebuilt>>.
ResultCallable(v, m) ==
  LET payload == v[4][2][1]
      ok == v[3] = "Ok"
  IN CASE m = "map" -> IF ok THEN <<"call", "Ok">> ELSE <<"value", ErrOf(payload)>>
       [] m = "map_err" -> IF ok THEN <<"value", Ok(payload)>> ELSE <<"call", "Err">>
       [] m = "and_then" -> IF ok THEN <<"call", "as is">> ELSE <<"value", ErrOf(payload)>>
WrapAnswer(how, v) ==
  CASE how = "Ok" -> Ok(v) [] how = "Err" -> ErrOf(v) [] OTHER -> v

\* Iterators share their cursor: the value is <<"iter", its index in the list
\* of iterators>>, an iterator the items it has left.  A list of iterators and
\* a method give <<answer, list afterwards>>.
IterItems(v) ==
  CASE Tag(v) = "array" -> v[2]
    [] Tag(v) = "str" -> [i \in 1..Len(v[2]) |-> Str(<<v[2][i]>>)]
    [] Tag(v) = "dict" -> [i \in 1..Len(v[2]) |-> Str(v[2][i][1])]
IsIterMethod(v, m) ==
  \/ Tag(v) \in {"array", "str", "dict"} /\ m = "iter"
  \/ Tag(v) = "iter" /\ m \in {"iter", "next"}
IterMethod(iters, v, m) ==
  CASE Tag(v) # "iter" -> << <<"iter", Len(iters) + 1>>, Append(iters, IterItems(v))>>
    [] m = "iter" -> <<v, iters>>
    [] OTHER -> IF iters[v[2]] = <<>> THEN <<IterDone, iters>>
                ELSE <<IterNextValue(Head(iters[v[2]])), [iters EXCEPT ![v[2]] = Tail(@)]>>

\* unwrap_iter_result: what a `for` makes of an answer of next: <<"next", v>>,
\* <<"done">> or <<"bad">>.
IterStep(v) ==
  IF Tag(v) # "enum" THEN <<"bad">>
  ELSE IF v[2] # "Iter" THEN <<"bad">>
  ELSE IF v[3] = "Next" /\ Len(v[4][2]) = 1 THEN <<"next", v[4][2][1]>>
  ELSE IF v[3] = "Done" THEN <<"done">> ELSE <<"bad">>

\* A field read outside a place: structs and variants with named fields.
FieldRead(v, field) ==
  CASE Tag(v) = "struct" -> FieldGet(v, field)
    [] Tag(v) = "enum" ->
         LET found == IF v[4][1] = "fields" THEN EntryOf(v[4][2], field) ELSE <<>>
         IN IF found = <<>> THEN Error("variant has no such field") ELSE found[1][2]
    [] OTHER -> Error("cannot read field")

\* try: <<"value", v>> to go on with, <<"return", v>> from the function, or
\* an error.  It looks at the variant's name only, not at its type.
TryUnwrap(v) ==
  CASE Tag(v) # "enum" -> Error("try expected a Result")
    [] v[3] = "Ok" -> CASE v[4][1] = "unit" -> <<"value", None>>
                        [] v[4][1] = "tuple" /\ Len(v[4][2]) = 1 -> <<"value", v[4][2][1]>>
                        [] OTHER -> Error("try: Ok must carry one value")
    [] v[3] = "Err" -> <<"return", v>>
    [] OTHER -> Error("try expected a Result")

-----------------------------------------------------------------------------
(* Declared types *)

\* A struct literal names every declared field exactly once.
FieldsFit(declared, provided) ==
  /\ \A i, j \in 1..Len(provided) : provided[i] = provided[j] => i = j
  /\ {provided[i] : i \in 1..Len(provided)} = {declared[i] : i \in 1..Len(declared)}

\* The values in the order of the declaration.
InDeclaredOrder(declared, entries) ==
  [i \in 1..Len(declared) |-> <<declared[i], EntryOf(entries, declared[i])[1][2]>>]

NoDuplicates(s) == \A i, j \in 1..Len(s) : s[i] = s[j] => i = j

\* An enum declaration is a sequence of <<variant, shape, fields>>.
VariantOf(declared, variant) == SelectSeq(declared, LAMBDA d : d[1] = variant)
PayloadFits(decl, shape, provided) ==
  /\ decl[2] = shape
  /\ CASE shape = "tuple" -> Len(provided) = Len(decl[3])
       [] shape = "fields" -> FieldsFit(decl[3], provided)
       [] OTHER -> TRUE
EnumDeclFits(variants) ==
  /\ NoDuplicates([i \in 1..Len(variants) |-> variants[i][1]])
  /\ \A i \in 1..Len(variants) : NoDuplicates(variants[i][3])

BuiltinStructs == [t \in {"RuntimeError"} |-> <<"message", "line">>]
BuiltinEnums ==
  [t \in {"Result", "Iter"} |->
     IF t = "Result" THEN << <<"Ok", "tuple", <<"value">> >>, <<"Err", "tuple", <<"error">> >> >>
     ELSE << <<"Next", "tuple", <<"value">> >>, <<"Done", "unit", <<>> >> >>]

-----------------------------------------------------------------------------
(* Scopes: the variables of a block and the types it declares *)

EmptyScope == [vars |-> <<>>, types |-> {}]
Put(vars, n, v) == [x \in DOMAIN vars \cup {n} |-> IF x = n THEN v ELSE vars[x]]

\* The innermost of the scopes 1..i that binds the name, or 0.
RECURSIVE InnermostScope(_, _, _)
InnermostScope(scopes, n, i) ==
  IF i = 0 THEN 0 ELSE IF n \in DOMAIN scopes[i].vars THEN i ELSE InnermostScope(scopes, n, i - 1)
VisibleIn(scopes) == UNION {scopes[i].types : i \in 1..Len(scopes)}
=============================================================================
