------------------------------ MODULE MCAdvice -------------------------------
(***************************************************************************)
(* Programs of several modules with matches, for the static checks; and    *)
(* shorthands to write programs with.                                      *)
(***************************************************************************)
EXTENDS Receivers

\* Shorthands.
X == Id("x")
XS == Id("xs")
P == Id("p")
T == Lit(Bool(TRUE))
V(n) == Param(n, "value")
R(n) == Param(n, "ref")
Say(es) == DoS(CallE(Id("print"), [i \in 1..Len(es) |-> Arg(es[i])]))
Do0(f) == CallE(Id(f), <<>>)
Do1(f, e) == CallE(Id(f), <<Arg(e)>>)
Ref1(f, e) == CallE(Id(f), <<RefArg(e)>>)
Meth(o, m, es) == MethodCallE(o, m, [i \in 1..Len(es) |-> Arg(es[i])])
Lam(ps, body) == LambdaE(ps, body)
Ret(e) == ReturnS(<<e>>)
Set(t, e) == AssignS(t, "=", e)
Inc(t, e) == AssignS(t, "+", e)
If1(c, body) == IfS(<< <<c, body>> >>, <<>>)
At(e, i) == IndexE(e, I(i))
Err(e) == EnumE("Result", "Err", "tuple", <<e>>)
OkE(e) == EnumE("Result", "Ok", "tuple", <<e>>)

-----------------------------------------------------------------------------
(* Programs of several modules, with matches *)

Plain(variants) == [i \in 1..Len(variants) |-> <<variants[i], "unit", <<>> >>]
EnumOf(n, variants) == EnumS(n, Plain(variants))
Use(path) == UseS(<<path>>, <<>>, <<>>)
UseAs(path, alias) == UseS(<<path>>, <<>>, <<alias>>)
UseItem(path, item) == UseS(<<path>>, << <<item>> >>, <<>>)

\* a and b have an enum of one name; c passes on a's and has one of its own,
\* d an alias m, v a value m; p reads the circle of x and y.
Library ==
  (<<"a">> :> <<EnumOf("E", <<"A", "B">>), EnumOf("_H", <<"A", "B">>)>>) @@
  (<<"b">> :> <<EnumOf("E", <<"A">>), EnumOf("_H", <<"A">>), LetS("k", I(0))>>) @@
  (<<"c">> :> <<Use("a"), If1(T, <<EnumOf("E", <<"C">>)>>), EnumOf("F", <<"A", "B">>)>>) @@
  (<<"d">> :> <<UseAs("a", "m"), If1(T, <<LetS("m", I(0))>>)>>) @@
  (<<"v">> :> <<LetS("m", I(0)), FnS("n", <<>>, <<>>), StructS("E", <<>>)>>) @@
  (<<"p">> :> <<Use("a"), Use("x")>>) @@ (<<"x">> :> <<Use("y")>>) @@ (<<"y">> :> <<Use("x")>>)
Names == INSTANCE TypeNames WITH ModuleSources <- Library, PrivateNames <- {"_H"}

Unit(type, variant) == <<"enum", type, variant, "unit", <<>> >>
Behind(ns, p) == <<"in", ns, p>>
\* Matches are told apart by what their arms answer.
MatchOf(patterns, n) == DoS(MatchE(X, [i \in 1..Len(patterns) |-> Arm(patterns[i], <<>>, I(n))]))
OnlyA(n) == <<MatchOf(<<Unit("E", "A")>>, n), MatchOf(<<Behind("m", Unit("E", "A"))>>, n)>>
Mixed(n) ==
  <<MatchOf(<< <<"or", <<Unit("E", "A"), Behind("m", Unit("E", "A"))>> >> >>, n),
    MatchOf(<<Unit("F", "A"), Unit("E", "C")>>, n), MatchOf(<<Behind("m", Unit("_H", "A"))>>, n),
    DoS(MatchE(X, <<Arm(Unit("F", "A"), <<>>, I(n)), Arm(Unit("F", "B"), <<X>>, I(n)), Arm(<<"wild">>, <<X>>, I(n))>>)),
    DoS(MatchE(X, <<Arm(<<"bind", "m">>, <<X>>, MatchE(X, <<Arm(Behind("m", Unit("E", "A")), <<>>, I(n))>>)),
                    Arm(Unit("E", "A"), <<>>, Lam(<<V("m")>>, OnlyA(n)))>>))>>

\* What a program declares and imports; then it matches, at the top, in a
\* block and in functions called last.
Steps ==
  <<Use("a"), Use("b"), Use("c"), Use("d"), Use("v"), Use("p"), UseAs("a", "m"), UseAs("b", "m"), UseItem("b", "E"),
    UseItem("d", "m"), UseItem("nowhere", "E"), LetS("m", I(0)), LetS("m", Id("n")), Set(Id("m"), Id("n")),
    EnumOf("E", <<"A", "C">>), StructS("E", <<>>), FnS("m", <<>>, <<>>)>>
Matching ==
  OnlyA(1) \o Mixed(2) \o <<If1(T, OnlyA(3)), ForS("m", XS, OnlyA(4)), FnS("f", <<>>, OnlyA(5)), FnS("g", <<V("m")>>, OnlyA(7)),
     DoS(Do0("f")), DoS(Do0("g"))>>
InTurn(one, two) ==
  << <<one, two>>, <<one, If1(X, <<two>> \o OnlyA(8))>>, <<one, IfS(<< <<X, <<two>> >> >>, <<OnlyA(8)>>)>>,
     <<If1(X, <<one, WhileS(X, <<ForS("i", X, <<two>>)>>)>> \o OnlyA(8))>> >>
StepPairs ==
  LET n == Len(Steps) IN [k \in 1..n * n |-> <<Steps[(k - 1) \div n + 1], Steps[((k - 1) % n) + 1]>>]
AdvisingOf(pair) ==
  LET bodies == InTurn(pair[1], pair[2])
      hold == \A i \in 1..Len(bodies) : Names!AdviceHolds(<<UseAs("b", "n")>> \o bodies[i] \o Matching)
  IN hold
=============================================================================
