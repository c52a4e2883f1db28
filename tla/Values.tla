------------------------------- MODULE Values -------------------------------
(***************************************************************************)
(* Run-time values and the pure operations both engines share: operators,  *)
(* indexing, place projection and pattern matching (ops.rs, builtins.rs,   *)
(* value.rs, evaluator.rs).                                                *)
(*                                                                         *)
(* A value is a tuple that starts with its tag, so that values of          *)
(* different types are never compared component by component:              *)
(*    <<"none">>  <<"bool", b>>  <<"int", n>>  <<"str", sequence of chars>> *)
(*    <<"array", items>>         <<"dict", sequence of <<key, value>> >>    *)
(*    <<"struct", type, sequence of <<field, value>> >>                     *)
(*    <<"enum", type, variant, <<shape, parts>> >>                          *)
(*    <<"fn", function id, captured names -> values, self name>>            *)
(* A failed operation is <<"error", kind, fatal>>: the wording of a message *)
(* is its kind.  Floating-point numbers, and with them `/`, are left out.   *)
(* An integer has the width MaxInt gives it instead of 64 bits.             *)
(***************************************************************************)
EXTENDS Integers, Sequences, SequencesExt, FiniteSets

CONSTANTS MaxInt,     \* the largest integer; the least is -MaxInt - 1
          RangeLimit  \* RANGE_MAX_ITEMS

ASSUME MaxIntAssumption == MaxInt \in Nat /\ RangeLimit \in Nat

None == <<"none">>
Bool(b) == <<"bool", b>>
Int2(n) == <<"int", n>>
Str(s) == <<"str", s>>
Array(items) == <<"array", items>>
Error(kind) == <<"error", kind, FALSE>>
FatalError(kind) == <<"error", kind, TRUE>>

Tag(v) == v[1]
Failed(v) == Tag(v) = "error"

IsTruthy(v) ==
  CASE Tag(v) = "bool" -> v[2]
    [] Tag(v) = "none" -> FALSE
    [] Tag(v) = "int" -> v[2] # 0
    [] Tag(v) \in {"str", "array", "dict"} -> v[2] # <<>>
    [] OTHER -> TRUE

\* What print shows of a value.  A struct, an enum and a function print
\* their name, a container its items, quoted (Inspected) or not.
RECURSIVE Display(_)
Display(v) ==
  LET Parts(items) == FlattenSeq([i \in 1..Len(items) |-> Display(items[i]) \o <<",">>])
      Fields(fs) == FlattenSeq([i \in 1..Len(fs) |-> <<fs[i][1], ":">> \o Display(fs[i][2])])
  IN CASE Tag(v) = "str" -> v[2]
       [] Tag(v) = "array" -> <<"[">> \o Parts(v[2]) \o <<"]">>
       [] Tag(v) = "dict" -> <<"{">> \o Fields(v[2]) \o <<"}">>
       [] Tag(v) = "struct" -> <<v[2], "{">> \o Fields(v[3]) \o <<"}">>
       [] Tag(v) = "enum" ->
            <<v[2], v[3]>> \o (IF v[4][1] = "fields" THEN Fields(v[4][2]) ELSE Parts(v[4][2]))
       [] Tag(v) = "fn" -> <<"<fn>">>
       [] Tag(v) = "none" -> <<"none">>
       [] OTHER -> <<ToString(v[2])>>

\* Two entries lists with the same keys, each key with equal values.
EntryOf(entries, key) == SelectSeq(entries, LAMBDA e : e[1] = key)

\* values_equal: structural, except that a function equals only itself.  The
\* model's function values have no identity; a comparison of two of them is
\* not among the programs.
RECURSIVE ValuesEqual(_, _)
ValuesEqual(a, b) ==
  LET AllEqual(x, y) ==
        Len(x) = Len(y) /\ \A i \in 1..Len(x) : ValuesEqual(x[i], y[i])
      FieldsEqual(x, y) ==
        Len(x) = Len(y) /\ \A i \in 1..Len(x) : x[i][1] = y[i][1] /\ ValuesEqual(x[i][2], y[i][2])
  IN /\ Tag(a) = Tag(b)
     /\ CASE Tag(a) = "none" -> TRUE
          [] Tag(a) \in {"bool", "int", "str"} -> a[2] = b[2]
          [] Tag(a) = "array" -> AllEqual(a[2], b[2])
          [] Tag(a) = "dict" ->
               /\ Len(a[2]) = Len(b[2])
               /\ \A i \in 1..Len(a[2]) :
                    LET other == EntryOf(b[2], a[2][i][1])
                    IN other # <<>> /\ ValuesEqual(a[2][i][2], other[1][2])
          [] Tag(a) = "struct" -> a[2] = b[2] /\ FieldsEqual(a[3], b[3])
          [] Tag(a) = "enum" ->
               /\ a[2] = b[2] /\ a[3] = b[3] /\ a[4][1] = b[4][1]
               /\ IF a[4][1] = "fields" THEN FieldsEqual(a[4][2], b[4][2])
                  ELSE AllEqual(a[4][2], b[4][2])
          [] OTHER -> FALSE

-----------------------------------------------------------------------------
(* Operators *)

\* checked_add, checked_sub, ...: an integer that leaves its width is an error.
CheckedInt(n) == IF n \in (-MaxInt - 1)..MaxInt THEN Int2(n) ELSE Error("overflow")

BothInts(a, b) == Tag(a) = "int" /\ Tag(b) = "int"

Add(a, b) ==
  CASE BothInts(a, b) -> CheckedInt(a[2] + b[2])
    [] Tag(a) = "str" \/ Tag(b) = "str" -> Str(Display(a) \o Display(b))
    [] Tag(a) = "array" /\ Tag(b) = "array" -> Array(a[2] \o b[2])
    [] OTHER -> Error("cannot add")

Sub(a, b) == IF BothInts(a, b) THEN CheckedInt(a[2] - b[2]) ELSE Error("cannot subtract")

Mul(a, b) ==
  LET Repeated(s, n) == IF n < 0 THEN Error("cannot repeat")
                        ELSE Str(FlattenSeq([i \in 1..n |-> s]))
  IN CASE BothInts(a, b) -> CheckedInt(a[2] * b[2])
       [] Tag(a) = "str" /\ Tag(b) = "int" -> Repeated(a[2], b[2])
       [] Tag(a) = "int" /\ Tag(b) = "str" -> Repeated(b[2], a[2])
       [] OTHER -> Error("cannot multiply")

\* The remainder takes the sign of the dividend.
Rem(a, b) ==
  CASE ~BothInts(a, b) -> Error("cannot take remainder")
    [] b[2] = 0 -> Error("modulo by zero")
    [] OTHER -> LET Abs(n) == IF n < 0 THEN -n ELSE n
                    r == Abs(a[2]) % Abs(b[2])
                IN IF a[2] = -MaxInt - 1 /\ b[2] = -1 THEN Error("overflow")
                   ELSE Int2(IF a[2] < 0 THEN -r ELSE r)

Compare(op, a, b) ==
  CASE ~BothInts(a, b) -> Error("cannot compare")
    [] op = "<" -> Bool(a[2] < b[2])
    [] op = ">" -> Bool(a[2] > b[2])
    [] op = "<=" -> Bool(a[2] <= b[2])
    [] op = ">=" -> Bool(a[2] >= b[2])

Binary(op, a, b) ==
  CASE op = "+" -> Add(a, b)
    [] op = "-" -> Sub(a, b)
    [] op = "*" -> Mul(a, b)
    [] op = "%" -> Rem(a, b)
    [] op = "==" -> Bool(ValuesEqual(a, b))
    [] op = "!=" -> Bool(~ValuesEqual(a, b))
    [] OTHER -> Compare(op, a, b)

Negate(a) == IF Tag(a) = "int" THEN CheckedInt(-a[2]) ELSE Error("cannot negate")

Unary(op, a) == IF op = "-" THEN Negate(a) ELSE Bool(~IsTruthy(a))

-----------------------------------------------------------------------------
(* Indexing and places *)

\* A negative index counts from the end; 0 is "no such element" here, since
\* the positions of a TLA+ sequence start at 1.
SignedPosition(i, len) == IF i < 0 THEN len + i ELSE i
NormalizeIndex(i, len) ==
  LET p == SignedPosition(i, len) IN IF p \in 0..(len - 1) THEN p + 1 ELSE 0

IndexGet(obj, idx) ==
  LET At(items) == items[NormalizeIndex(idx[2], Len(items))]
  IN CASE Tag(obj) \in {"array", "str"} ->
            IF Tag(idx) # "int" THEN Error("cannot index")
            ELSE IF NormalizeIndex(idx[2], Len(obj[2])) = 0 THEN Error("out of bounds")
            ELSE IF Tag(obj) = "array" THEN At(obj[2]) ELSE Str(<<At(obj[2])>>)
       [] Tag(obj) = "dict" /\ Tag(idx) = "str" ->
            LET found == EntryOf(obj[2], idx[2])
            IN IF found = <<>> THEN None ELSE found[1][2]
       [] OTHER -> Error("cannot index")

\* Replace the value of a key, or add the key at the end.
SetEntry(entries, key, v) ==
  IF EntryOf(entries, key) = <<>> THEN Append(entries, <<key, v>>)
  ELSE [i \in 1..Len(entries) |-> IF entries[i][1] = key THEN <<key, v>> ELSE entries[i]]

IndexSet(obj, idx, v) ==
  CASE Tag(obj) = "array" ->
         IF Tag(idx) # "int" THEN Error("cannot set index")
         ELSE LET p == NormalizeIndex(idx[2], Len(obj[2]))
              IN IF p = 0 THEN Error("out of bounds")
                 ELSE Array([obj[2] EXCEPT ![p] = v])
    [] Tag(obj) = "dict" /\ Tag(idx) = "str" -> <<"dict", SetEntry(obj[2], idx[2], v)>>
    [] OTHER -> Error("cannot set index")

FieldGet(obj, field) ==
  IF Tag(obj) # "struct" THEN Error("no fields")
  ELSE LET found == EntryOf(obj[3], field)
       IN IF found = <<>> THEN Error("no such field") ELSE found[1][2]

FieldSet(obj, field, v) ==
  IF Tag(obj) # "struct" THEN Error("no fields")
  ELSE IF EntryOf(obj[3], field) = <<>> THEN Error("no such field")
       ELSE <<"struct", obj[2], SetEntry(obj[3], field, v)>>

\* A resolved place is a binding and a path: <<"index", value>> or
\* <<"field", name>> steps.
StepGet(obj, step) ==
  IF step[1] = "index" THEN IndexGet(obj, step[2]) ELSE FieldGet(obj, step[2])
StepSet(obj, step, v) ==
  IF step[1] = "index" THEN IndexSet(obj, step[2], v) ELSE FieldSet(obj, step[2], v)

PlaceValueFrom(root, path) ==
  FoldLeft(LAMBDA v, step : IF Failed(v) THEN v ELSE StepGet(v, step), root, path)

RECURSIVE WritePlaceValue(_, _, _)
WritePlaceValue(root, path, v) ==
  IF path = <<>> THEN v
  ELSE IF Len(path) = 1 THEN StepSet(root, path[1], v)
  ELSE LET child == StepGet(root, path[1])
           written == WritePlaceValue(child, Tail(path), v)
       IN CASE Failed(child) -> child
            [] Failed(written) -> written
            [] OTHER -> StepSet(root, path[1], written)

-----------------------------------------------------------------------------
(* Patterns *)

NoMatch == <<"no match">>
Matched(bindings) == <<"match", bindings>>

\* The bindings a pattern makes of a value, in the order it makes them, or
\* NoMatch.  A pattern is a tuple: <<"wild">>, <<"bind", name>>,
\* <<"lit", value>>, <<"enum", type, variant, shape, parts>>,
\* <<"struct", type, fields>>, <<"array", patterns, rest>> with a rest that is
\* <<>> (none), <<"..">> (ignored) or <<"..", name>>, or <<"or", patterns>>.
\* `types` are the type names the place of the pattern can see.
RECURSIVE PatternMatches(_, _, _)
PatternMatches(p, v, types) ==
  LET All(patterns, values) ==
        FoldLeft(LAMBDA acc, i :
                   IF acc = NoMatch THEN NoMatch
                   ELSE LET m == PatternMatches(patterns[i], values[i], types)
                        IN IF m = NoMatch THEN NoMatch ELSE Matched(acc[2] \o m[2]),
                 Matched(<<>>), [i \in 1..Len(patterns) |-> i])
      Fields(fields, entries) ==
        IF \E i \in 1..Len(fields) : EntryOf(entries, fields[i][1]) = <<>> THEN NoMatch
        ELSE All([i \in 1..Len(fields) |-> fields[i][2]],
                 [i \in 1..Len(fields) |-> EntryOf(entries, fields[i][1])[1][2]])
  IN CASE p[1] = "wild" -> Matched(<<>>)
       [] p[1] = "bind" -> Matched(<< <<p[2], v>> >>)
       [] p[1] = "lit" -> IF ValuesEqual(p[2], v) THEN Matched(<<>>) ELSE NoMatch
       [] p[1] = "enum" ->
            IF Tag(v) # "enum" \/ p[2] \notin types THEN NoMatch
            ELSE IF v[2] # p[2] \/ v[3] # p[3] \/ v[4][1] # p[4] THEN NoMatch
            ELSE IF p[4] = "fields" THEN Fields(p[5], v[4][2])
            ELSE IF Len(p[5]) # Len(v[4][2]) THEN NoMatch ELSE All(p[5], v[4][2])
       [] p[1] = "struct" ->
            IF Tag(v) # "struct" \/ p[2] \notin types THEN NoMatch
            ELSE IF v[2] # p[2] THEN NoMatch ELSE Fields(p[3], v[3])
       [] p[1] = "array" ->
            IF Tag(v) # "array" THEN NoMatch
            ELSE LET n == Len(p[2])
                     head == All(p[2], SubSeq(v[2], 1, n))
                 IN IF Len(v[2]) < n \/ (p[3] = <<>> /\ Len(v[2]) # n) THEN NoMatch
                    ELSE IF head = NoMatch \/ Len(p[3]) < 2 THEN head
                    ELSE Matched(Append(head[2], <<p[3][2], Array(SubSeq(v[2], n + 1, Len(v[2])))>>))
       [] p[1] = "or" ->
            LET tries == {i \in 1..Len(p[2]) : PatternMatches(p[2][i], v, types) # NoMatch}
            IN IF tries = {} THEN NoMatch
               ELSE PatternMatches(p[2][CHOOSE i \in tries : \A j \in tries : i <= j], v, types)

\* The bindings as a scope: a name bound twice keeps the later value.
ScopeOf(bindings) ==
  FoldLeft(LAMBDA scope, b : [n \in DOMAIN scope \cup {b[1]} |->
                                IF n = b[1] THEN b[2] ELSE scope[n]],
           <<>>, bindings)
=============================================================================
