------------------------------ MODULE MCMachine ------------------------------
(***************************************************************************)
(* Programs for the virtual machine, and the walker's answers to compare   *)
(* with.  Most are made of a context (where code runs) and a payload (what *)
(* it does there); a payload works on the variables of the Prelude, which  *)
(* the Epilogue prints.                                                    *)
(***************************************************************************)
EXTENDS Machine, Validator, MCAdvice

CONSTANTS MaxWalkerSteps, Walk(_, _), \* the walker's answer to a body and a host
          MaxParseDepth, Reading(_), Nesting(_), \* what the parser makes of texts
          Advising(_), \* whether the advice on programs holds
          Native(_, _) \* the emitted program's answer to a body and a host

W == INSTANCE Walker WITH MaxDepth <- MaxCallDepth, MaxSteps <- MaxWalkerSteps
A == INSTANCE Aot WITH MaxDepth <- MaxCallDepth, MaxSteps <- MaxWalkerSteps
Text == INSTANCE SourceText

Prelude ==
  << LetS("x", I(1)),
     LetS("xs", ArrayE(<<I(1), ArrayE(<<I(2), I(3)>>)>>)),
     StructS("P", <<"a", "b">>),
     LetS("p", StructE("P", << <<"a", I(4)>>, <<"b", ArrayE(<<I(5)>>)>> >>)),
     FnS("inc", <<R("n")>>, <<Inc(Id("n"), I(1)), Ret(Id("n"))>>),
     FnS("swap", <<R("l"), R("r")>>, <<LetS("t", Id("l")), Set(Id("l"), Id("r")), Set(Id("r"), Id("t"))>>),
     FnS("fails", <<R("n")>>, <<Set(Id("n"), I(0)), DoS(Do1("panic", Id("n")))>>),
     FnS("get", <<>>, <<Inc(X, I(1)), Ret(X)>>),
     FnS("mk", <<>>, <<LetS("c", I(0)), Ret(Lam(<<>>, <<Inc(Id("c"), I(1)), Ret(Id("c"))>>))>>),
     FnS("fact", <<V("n")>>, <<If1(Bin(Id("n"), "<", I(2)), <<Ret(I(1))>>), Ret(Bin(Id("n"), "*", Do1("fact", Bin(Id("n"), "-", I(1)))))>>),
     FnS("rest", <<V("h"), Param("t", "rest")>>, <<Ret(Id("t"))>>),
     FnS("twice", <<V("n"), V("n")>>, <<Ret(Id("n"))>>),
     FnS("first", <<V("s")>>, <<ForS("i", Id("s"), <<RepeatS(I(1), <<Ret(Id("i"))>>)>>)>>),
     FnS("boom", <<V("k")>>, <<ForS("i", XS, <<RepeatS(I(2), <<DoS(Do1("panic", Lit(Str(<<"b">>))))>>)>>)>>),
     FnS("risky", <<V("k")>>, <<LetS("v", TryE(IfE(Id("k"), OkE(Id("k")), Err(Id("k"))))), Ret(OkE(Bin(Id("v"), "+", I(1))))>>),
     MethodS("P", "bump", <<R("self"), V("k")>>,
             <<Inc(FieldE(Id("self"), "a"), Id("k")), Set(X, FieldE(Id("self"), "a")), Ret(Id("k"))>>),
     MethodS("P", "sum", <<V("self")>>, <<Ret(FieldE(Id("self"), "a"))>>),
     MethodS("P", "take", <<R("self"), R("k")>>,
             <<Inc(FieldE(Id("self"), "a"), Id("k")), Set(Id("k"), I(0))>>),
     StructS("Cnt", <<"n">>),
     MethodS("Cnt", "iter", <<V("self")>>, <<Ret(Id("self"))>>),
     MethodS("Cnt", "next", <<V("self")>>,
             <<LetS("v", Do0("get")), If1(Bin(Id("v"), ">", I(4)), <<Ret(EnumE("Iter", "Done", "unit", <<>>))>>),
               Ret(EnumE("Iter", "Next", "tuple", <<Id("v")>>))>>) >>

Epilogue == <<Say(<<X, XS, P>>)>>

\* Reference arguments, places and their write-backs.
Places ==
  << <<DoS(Ref1("inc", X))>>,
     <<Say(<<Ref1("inc", At(At(XS, 1), 1))>>)>>,
     <<DoS(Ref1("inc", FieldE(P, "a")))>>,
     <<DoS(Do1("inc", X))>>,
     <<DoS(CallE(Id("get"), <<RefArg(X)>>))>>,
     <<DoS(CallE(Id("swap"), <<RefArg(At(XS, 0)), RefArg(X)>>))>>,
     <<DoS(CallE(Id("swap"), <<RefArg(X), RefArg(I(1))>>))>>,
     <<DoS(CallE(Id("swap"), <<RefArg(FieldE(P, "b")), RefArg(IndexE(XS, Do0("get")))>>))>>,
     <<DoS(Ref1("inc", IndexE(XS, X)))>>,
     <<DoS(Meth(P, "bump", <<I(2)>>))>>,
     <<DoS(Meth(P, "bump", <<Ref1("inc", X)>>))>>,
     <<DoS(Meth(StructE("P", << <<"b", I(0)>>, <<"a", I(1)>> >>), "bump", <<I(1)>>))>>,
     <<DoS(MethodCallE(P, "take", <<RefArg(FieldE(P, "a"))>>))>>,
     <<DoS(MethodCallE(P, "take", <<RefArg(X)>>))>>,
     <<LetS("q", ArrayE(<<P>>)), DoS(Meth(At(Id("q"), 0), "bump", <<I(1)>>)), Say(<<Id("q")>>)>>,
     <<LetS("q", ArrayE(<<P>>)), Say(<<Meth(At(Id("q"), 0), "sum", <<>>)>>)>>,
     <<DoS(Meth(XS, "push", <<X>>)), Say(<<Meth(XS, "len", <<>>)>>)>>,
     <<Say(<<Meth(XS, "pop", <<>>), Meth(XS, "pop", <<>>), Meth(XS, "pop", <<>>)>>)>>,
     <<DoS(Meth(XS, "push", <<Meth(XS, "pop", <<>>)>>))>>,
     <<LetS("q", ArrayE(<<ArrayE(<<>>)>>)), DoS(Meth(At(Id("q"), 0), "push", <<Do0("get")>>)),
       Say(<<Id("q")>>)>>,
     <<DoS(Meth(ArrayE(<<X>>), "push", <<X>>))>>,
     <<Set(At(XS, 0), Bin(X, "+", I(4))), Inc(At(At(XS, 1), 0), At(XS, 0))>>,
     <<Set(At(XS, 9), I(1))>>,
     <<Inc(At(XS, 9), Do0("get"))>>,
     <<Set(IndexE(XS, Do0("get")), Do0("get"))>>,
     <<Inc(FieldE(P, "a"), I(1)), Set(At(FieldE(P, "b"), 0), I(7))>>,
     <<Set(FieldE(P, "c"), I(1))>>,
     <<Set(FieldE(X, "a"), I(1))>>,
     <<Inc(X, Do0("get"))>>,
     <<Inc(X, Lit(Str(<<"s">>)))>>,
     <<Inc(X, I(127))>>,
     <<LetS("d", DictE(<< <<<<"k">>, X>> >>)), Set(IndexE(Id("d"), Lit(Str(<<"j">>))), I(2)),
       Inc(IndexE(Id("d"), Lit(Str(<<"k">>))), I(1)), Say(<<Id("d"), Meth(Id("d"), "len", <<>>)>>)>> >>

\* Two places of one variable are refused by both engines when the call runs,
\* but where the variable has a slot the validator refuses the whole program:
\* these run only where it has none.
SharedRoots == <<DoS(CallE(Id("swap"), <<RefArg(At(XS, 0)), RefArg(At(XS, 1))>>))>>
Slotless(body) == <<body, <<If1(T, body)>>, <<FnS("f0", <<>>, body), DoS(Do0("f0"))>> >>

\* Calls refused for their shape.  On a captured receiver the two engines
\* name different reasons: these run only where the variables are not captured.
Refusals ==
  << <<DoS(MethodCallE(P, "bump", <<RefArg(X)>>))>>,
     <<DoS(Meth(P, "bump", <<>>))>> >>

\* Refused by all, but in other words by the emitted program, which looks for
\* a captured receiver before it counts the arguments, and calls every name
\* that it does not find a variable not found.
Worded ==
  << <<DoS(Meth(XS, "push", <<>>))>>,
     <<DoS(Ref1("inc", Id("nope")))>>,
     <<Set(Id("y"), I(2))>> >>

\* Expressions and control flow.
Count(n) == WhileS(Bin(Id("i"), "<", I(n)), <<Inc(Id("i"), I(1)), If1(Bin(Id("i"), "==", I(2)), <<ContinueS>>), Inc(X, Id("i"))>>)
Flow ==
  << <<LetS("i", I(0)), Count(3), Say(<<Id("i")>>)>>,
     <<LetS("i", I(0)), WhileS(T, <<Set(Id("i"), Bin(Id("i"), "+", I(1))), If1(Bin(Id("i"), ">", I(2)), <<BreakS>>)>>),
       Say(<<Id("i")>>)>>,
     <<ForS("i", Do1("range", I(3)), <<If1(Bin(Id("i"), "==", I(1)), <<ContinueS>>), Inc(X, Id("i"))>>)>>,
     <<ForS("i", XS, <<RepeatS(I(2), <<LetS("y", X), If1(Bin(Id("y"), ">", I(3)), <<BreakS>>), Inc(X, I(1))>>), Say(<<Id("i")>>)>>)>>,
     <<RepeatS(I(2), <<ForS("c", Lit(Str(<<"a", "b">>)), <<Say(<<Id("c")>>), BreakS>>)>>)>>,
     <<RepeatS(Un("-", I(1)), <<Inc(X, I(1))>>), RepeatS(Lit(None), <<>>)>>,
     <<ForS("i", X, <<>>)>>,
     <<ForS("i", ArrayE(<<X, X>>), <<DoS(Meth(XS, "push", <<Id("i")>>)), Inc(X, I(1))>>)>>,
     <<ForS("i", StructE("Cnt", << <<"n", I(2)>> >>), <<Say(<<Id("i")>>)>>)>>,
     <<ForS("i", Meth(XS, "iter", <<>>), <<Say(<<Id("i")>>)>>)>>,
     <<LetS("it", Meth(XS, "iter", <<>>)), DoS(Meth(Id("it"), "next", <<>>)),
       ForS("i", Id("it"), <<Say(<<Id("i"), Meth(Id("it"), "next", <<>>)>>)>>)>>,
     <<ForS("i", P, <<>>)>>,
     <<IfS(<< <<Bin(X, ">", I(100)), <<Say(<<I(1)>>)>> >>, <<Bin(X, ">", I(0)), <<LetS("x", I(9)), Say(<<X>>)>> >> >>,
           << <<Say(<<I(3)>>)>> >>)>>,
     <<LetS("i", I(2)), LetS("j", Bin(IfE(T, Id("i"), X), "+", I(1))), Say(<<Id("j")>>)>>,
     <<LetS("i", I(2)), LetS("j", Bin(X, "+", IfE(Lit(Bool(FALSE)), X, Id("i")))), Say(<<Id("j"), Bin(Id("i"), "<", Id("j"))>>)>>,
     <<LetS("i", I(2)), Set(Id("i"), Bin(Id("i"), "+", I(3))), Set(Id("i"), Bin(Id("i"), "-", I(1))),
       Inc(Id("i"), Id("i")), Say(<<Id("i"), Bin(Id("i"), "<", I(9))>>)>>,
     <<LetS("i", I(126)), RepeatS(I(3), <<Inc(Id("i"), I(1))>>)>>,
     <<Say(<<Bin(Bin(X, ">", I(0)), "and", Do0("get")), Bin(I(0), "or", Bin(I(0), "and", Do0("get")))>>)>>,
     <<Say(<<Bin(XS, "==", ArrayE(<<X, ArrayE(<<I(2), I(3)>>)>>)), Un("not", X), Un("-", X), Bin(X, "*", Lit(Str(<<"z">>)))>>)>>,
     <<Say(<<Bin(X, "-", P)>>)>>,
     <<Say(<<Bin(Bin(Un("-", I(7)), "%", I(4)), "+", I(1)), Bin(X, "%", I(0))>>)>>,
     <<Say(<<Interp(<< <<"text", <<"v">> >>, <<"var", "x">>, <<"var", "xs">> >>)>>), Say(<<Interp(<< <<"var", "nope">> >>)>>)>>,
     <<Say(<<IndexE(XS, Un("-", I(1))), FieldE(P, "b"), At(FieldE(P, "b"), 3)>>)>>,
     <<LetS("y", I(1)), If1(T, <<LetS("y", I(2)), LetS("y", Bin(Id("y"), "+", I(1))), Set(Id("y"), Bin(Id("y"), "+", Id("y"))), Say(<<Id("y")>>)>>), Say(<<Id("y")>>)>>,
     <<If1(T, <<LetS("y", I(2))>>), Say(<<Id("y")>>)>>,
     <<If1(T, <<StructS("S", <<"v">>), Say(<<StructE("S", << <<"v", X>> >>)>>)>>), Say(<<StructE("S", << <<"v", X>> >>)>>)>>,
     <<StructS("P", <<"a">>)>>,
     <<Say(<<StructE("P", << <<"a", Do0("get")>> >>)>>)>>,
     <<EnumS("E", << <<"A", "unit", <<>> >>, <<"B", "tuple", <<"v">> >>, <<"C", "fields", <<"s", "t">> >> >>),
       LetS("e", EnumE("E", "C", "fields", << <<"t", I(1)>>, <<"s", X>> >>)),
       Say(<<Id("e"), FieldE(Id("e"), "t"), EnumE("E", "A", "unit", <<>>), EnumE("E", "B", "tuple", <<X>>)>>),
       Say(<<EnumE("E", "B", "unit", <<>>)>>)>>,
     <<Say(<<MatchE(XS, << Arm(<<"array", << <<"bind", "h">> >>, <<"..", "r">> >>, <<Bin(Id("h"), "<", I(1))>>, I(0)),
                          Arm(<<"array", << <<"lit", Int2(1)>>, <<"bind", "x">> >>, <<>> >>, <<T>>, Bin(X, "+", X)),
                          Arm(<<"wild">>, <<>>, X) >>), X>>)>>,
     <<Say(<<MatchE(X, <<Arm(<<"lit", Int2(99)>>, <<>>, X)>>)>>)>>,
     <<Say(<<MatchE(P, <<Arm(<<"struct", "P", << <<"a", <<"bind", "q">> >> >> >>, <<Bin(Id("q"), ">", I(1))>>,
                            MatchE(Id("q"), <<Arm(<<"or", << <<"array", << <<"bind", "x">> >>, <<>> >>, <<"bind", "x">> >> >>, <<>>, Bin(X, "+", Id("q")))>>)),
                        Arm(<<"wild">>, <<>>, I(0))>>)>>)>>,
     <<Say(<<MatchE(OkE(X), <<Arm(<<"enum", "Result", "Err", "tuple", << <<"wild">> >> >>, <<>>, I(0)),
                             Arm(<<"enum", "Result", "Ok", "tuple", << <<"bind", "v">> >> >>, <<>>, CallE(Lam(<<>>, <<Ret(Bin(Id("v"), "+", X))>>), <<>>))>>)>>)>> >>

\* Functions, closures, errors.
Calling ==
  << <<LetS("f", Lam(<<V("k")>>, <<Ret(Bin(Id("k"), "+", X))>>)), Set(X, I(10)), Say(<<Do1("f", I(1))>>)>>,
     <<LetS("f", Do0("mk")), Say(<<Do0("f"), Do0("f")>>)>>,
     <<LetS("f", Lam(<<>>, <<Inc(X, I(1)), Ret(Lam(<<>>, <<Inc(X, I(1)), Ret(X)>>))>>)), Say(<<CallE(Do0("f"), <<>>)>>)>>,
     <<LetS("f", Lam(<<V("g")>>, <<Ret(CallE(Id("g"), <<Arg(X)>>))>>)), Say(<<Do1("f", Lam(<<V("x")>>, <<Ret(Bin(X, "*", X))>>))>>)>>,
     <<LetS("f", Id("get")), Say(<<CallE(Id("f"), <<>>), Id("f")>>)>>,
     <<LetS("fs", ArrayE(<<Lam(<<V("k")>>, <<Ret(Id("k"))>>)>>)), Say(<<CallE(At(Id("fs"), 0), <<Arg(X)>>)>>)>>,
     <<Say(<<Do1("fact", I(3))>>), Say(<<Do1("fact", I(9))>>)>>,
     <<Say(<<CallE(Id("rest"), <<Arg(X), Arg(XS), Arg(I(2))>>), Do1("rest", X)>>), Say(<<Do0("rest")>>)>>,
     <<Say(<<CallE(Id("twice"), <<Arg(I(1)), Arg(I(2))>>)>>)>>,
     <<Say(<<Do1("first", XS)>>)>>,
     <<Say(<<Do1("nope", X)>>)>>,
     <<Say(<<Do1("x", X)>>)>>,
     <<Say(<<CallE(At(XS, 0), <<>>)>>)>>,
     <<Say(<<CallE(Id("get"), <<Arg(X)>>)>>)>>,
     <<FnS("get", <<>>, <<Ret(I(70))>>), Say(<<Do0("get")>>)>>,
     <<FnS("g", <<V("k")>>, <<FnS("h", <<>>, <<Ret(I(5))>>), Ret(Bin(Do0("h"), "+", Id("k")))>>), Say(<<Do1("g", X), Do0("h")>>)>>,
     <<Say(<<Do1("try_call", Lam(<<>>, <<Ret(Do1("boom", I(1)))>>)), X>>)>>,
     <<ForS("i", ArrayE(<<I(1), I(2)>>), <<Say(<<Do1("try_call", Lam(<<>>, <<ForS("j", XS, <<DoS(Do1("boom", Id("i")))>>)>>)), Id("i")>>)>>)>>,
     <<Say(<<Do1("try_call", Lam(<<>>, <<Ret(Do1("try_call", Lam(<<>>, <<DoS(Do0("get")), DoS(Do1("panic", I(1)))>>)))>>))>>)>>,
     <<Say(<<Do1("try_call", Id("inc")), Do1("try_call", X)>>)>>,
     <<Say(<<Do1("try_call", Lam(<<V("k")>>, <<>>)), Do1("try_call", Lam(<<>>, <<DoS(TryE(Err(X)))>>))>>)>>,
     <<DoS(Do1("try_call", Lam(<<>>, <<DoS(Do1("range", I(99)))>>)))>>,
     <<Say(<<Do1("risky", I(0)), Do1("risky", I(1))>>)>>,
     <<LetS("v", TryE(OkE(X))), Say(<<Id("v")>>), LetS("w", TryE(Err(X))), Say(<<Id("w")>>)>>,
     <<DoS(TryE(X))>>,
     <<Say(<<Meth(OkE(X), "map", <<Lam(<<V("k")>>, <<Ret(Bin(Id("k"), "+", I(1)))>>)>>), Meth(Err(X), "map", <<I(0)>>),
             Meth(Err(X), "map_err", <<Id("boom")>>)>>)>>,
     <<Say(<<Meth(OkE(X), "and_then", <<Lam(<<V("k")>>, <<Ret(Err(Id("k")))>>)>>), Meth(OkE(X), "unwrap_or", <<I(0)>>),
             Meth(Err(X), "is_ok", <<>>), Meth(Err(I(0)), "unwrap", <<>>)>>)>>,
     <<ForS("i", XS, <<DoS(Meth(P, "bump", <<Do1("first", XS)>>))>>)>>,
     <<LetS("f", Lam(<<R("n")>>, <<Inc(Id("n"), X)>>)), DoS(CallE(Id("f"), <<RefArg(X)>>)), DoS(CallE(Id("f"), <<RefArg(At(XS, 0))>>))>>,
     <<DoS(Ref1("fails", X))>>,
     <<Say(<<Do1("try_call", Lam(<<>>, <<LetS("y", I(1)), DoS(Ref1("fails", Id("y"))), Ret(Id("y"))>>))>>)>> >>

\* Where a payload runs: at top level, in a block, in a function on the
\* module's variables, in a function on parameters and locals of these names,
\* in a loop over x, in a method, on ref parameters; then in closures, which
\* capture the variables: a lambda, one below try_call, one made in a function.
Locals == <<LetS("xs", Bin(XS, "+", ArrayE(<<I(8)>>))), LetS("p", P)>>
Show == <<Say(<<X, XS, P>>)>>
OpenContexts(body) ==
  << body,
     <<If1(T, body)>>,
     <<FnS("f0", <<>>, body), DoS(Do0("f0"))>>,
     <<FnS("f0", <<V("x")>>, Locals \o body \o Show), DoS(Do1("f0", I(3)))>>,
     <<ForS("x", ArrayE(<<I(6), I(0)>>), body)>>,
     <<MethodS("P", "go", <<R("p"), V("x")>>, body), Say(<<Meth(P, "go", <<I(2)>>)>>)>>,
     <<FnS("f0", <<R("x"), R("xs")>>, body), DoS(CallE(Id("f0"), <<RefArg(X), RefArg(XS)>>))>> >>
ClosureContexts(body) ==
  << <<LetS("f0", Lam(<<>>, body \o Show)), DoS(Do0("f0"))>>,
     <<Say(<<Do1("try_call", Lam(<<>>, body))>>)>>,
     <<FnS("f0", <<V("x")>>, Locals \o <<LetS("g0", Lam(<<>>, body \o Show)), DoS(Do0("g0"))>> \o Show),
       DoS(Do1("f0", I(3)))>> >>

RECURSIVE FlatMap(_, _)
FlatMap(Op(_), s) == IF s = <<>> THEN <<>> ELSE Op(s[1]) \o FlatMap(Op, Tail(s))

\* Functions of the host, by name: what each answers.  The host is asked
\* before a named function with value parameters, and after the built-ins.
NoHost == <<>>
Hosts == [f \in {"nope", "get", "print", "fact"} |-> IF f = "fact" THEN Error("refused") ELSE Int2(70)]
Hosted ==
  << <<Say(<<Do1("nope", X), Do0("get")>>), Say(<<Do1("fact", I(2))>>)>>,
     <<Say(<<Do1("nope", Do0("get"))>>), DoS(Ref1("nope", X))>>,
     <<LetS("f", Id("get")), Say(<<CallE(Id("f"), <<>>)>>), FnS("nope", <<R("n")>>, <<Ret(I(5))>>), Say(<<Ref1("nope", X)>>)>> >>

\* Programs that only the step limit ends; try_call does not catch it.
Idle(v) == [i \in 1..12 |-> Set(v, Bin(v, "*", I(1)))]
Endless ==
  << <<WhileS(T, Idle(X))>>,
     <<FnS("spin", <<V("k")>>, <<WhileS(Id("k"), Idle(Id("k")))>>),
       Say(<<Do1("try_call", Lam(<<>>, <<DoS(Do1("spin", I(1)))>>))>>)>> >>

\* A method whose body names a variable of the module: the emitted program does
\* not find it there (ident_value_src), the two interpreters do.
LooksOutside(body) ==
  \E i \in 1..Len(body) :
    /\ body[i].kind = "methoddecl"
    /\ {"x", "xs", "p"} \cap FreeVariables(body[i].params, body[i].body) # {}

\* Programs, and whether the emitted one is to be compared with the others.
With(bodies, host) ==
  [i \in 1..Len(bodies) |-> [body |-> Prelude \o bodies[i] \o Epilogue, host |-> host,
                             emitted |-> ~LooksOutside(bodies[i])]]
NotEmitted(programs) == [i \in 1..Len(programs) |-> [programs[i] EXCEPT !.emitted = FALSE]]
InOpen(body) == OpenContexts(body)
InAll(body) == OpenContexts(body) \o ClosureContexts(body)

Corpus ==
  LET working == FlatMap(InAll, Places \o Flow \o Calling)
      refused == FlatMap(InOpen, Refusals) \o Slotless(SharedRoots)
  IN With(working \o refused \o Endless, NoHost) \o With(Hosted, Hosts)
     \o NotEmitted(With(FlatMap(InAll, Worded), NoHost))

\* A function called from a block that has a variable y: what does y name?
Leaking ==
  LET body == <<FnS("f0", <<>>, <<Say(<<Id("y")>>)>>), If1(T, <<LetS("y", I(2)), DoS(Do0("f0"))>>)>>
  IN With(<<body>>, NoHost) \o <<>>

\* What the walker makes of the programs.
WalkerRun(body, host) == LET ended == W!Run(body, host) IN ended
\* What the emitted program makes of them.
NativeRun(body, host) == LET ended == A!Run(body, host) IN ended
RECURSIVE Answers(_, _)
Answers(Ask(_, _), programs) ==
  LET half == Len(programs) \div 2
  IN IF half = 0 THEN <<Ask(programs[1].body, programs[1].host)>>
     ELSE Answers(Ask, SubSeq(programs, 1, half)) \o Answers(Ask, SubSeq(programs, half + 1, Len(programs)))
Reference == Answers(Walk, Programs)
Emitted == Answers(Native, Programs)

Result == IF vm.status = "done" THEN <<"ok">> ELSE vm.err
OutOfSteps(r) == r = FatalError("too many steps")

\* What the compiler makes passes the validator.
ChunksAreValid == vm.err # InvalidChunk

\* Of two engines, one prints what the other prints and ends as it ends.  They
\* count different things as steps: out of steps, both are, and one has
\* printed more than the other.
Alike(one, other) ==
  /\ one.result = other.result
  /\ IF OutOfSteps(one.result) THEN IsPrefix(one.out, other.out) \/ IsPrefix(other.out, one.out)
     ELSE one.out = other.out

\* The three engines agree: the machine on the compiled chunks (vm.rs), the
\* walker on the tree (evaluator.rs), and the Rust program that is emitted for
\* the tree (emit.rs) do the same with every program of the corpus.
SameBehaviour ==
  vm.status # "running" =>
    LET walked == Reference[program]
    IN /\ Alike([out |-> vm.out, result |-> Result], walked)
       /\ Programs[program].emitted => Alike(Emitted[program], walked)

\* What only the parser knows, or is easy to read wrongly.
Texts ==
  << <<UseS(<<"std", "math">>, <<>>, <<>>), UseS(<<"m">>, << <<"a", "P">> >>, <<"k">>), PublicS(<<"f", "g">>)>>,
     <<PubS(FnS("f", <<V("a"), R("b"), Param("c", "rest")>>, <<Ret(X), ReturnS(<<>>)>>)), ConstS("MAX_1", I(-128)), Set(X, I(-128))>>,
     <<LetS("y", InE("m", StructE("P", << <<"a", I(1)>> >>))), Say(<<InE("m", EnumE("E", "A", "unit", <<>>)), InE("m", EnumE("E", "C", "fields", << <<"s", X>> >>))>>)>>,
     <<If1(StructE("P", << <<"a", X>> >>), <<BreakS>>), WhileS(Meth(StructE("P", <<>>), "go", <<>>), <<ContinueS>>),
       ForS("i", InE("m", EnumE("E", "C", "fields", << <<"s", StructE("P", <<>>)>> >>)), <<>>),
       If1(CallE(Id("f"), <<Arg(StructE("P", <<>>))>>), <<>>), If1(IndexE(XS, StructE("P", <<>>)), <<>>),
       If1(CallE(Lam(<<>>, <<Ret(StructE("P", <<>>))>>), <<>>), <<>>)>>,
     <<Say(<<Bin(Bin(X, "-", I(1)), "-", Bin(X, "-", I(2))), Un("-", Bin(X, "*", Un("-", X))), TryE(Bin(X, "+", X)), Un("not", TryE(Do0("f")))>>)>>,
     <<Say(<<Bin(X, "or", Bin(X, "or", X)), Bin(Bin(X, "or", X), "and", Bin(X, "==", Bin(X, "==", X))), Meth(I(1), "len", <<>>)>>)>>,
     <<DoS(CallE(FieldE(P, "f"), <<Arg(X)>>)), DoS(CallE(EnumE("E", "A", "unit", <<>>), <<>>)), DoS(CallE(Lam(<<>>, <<>>), <<>>))>>,
     <<DoS(CallE(Lam(<<>>, <<Set(X, Id("y")), DoS(Bin(IfE(X, I(1), I(2)), "+", X)), Set(X, Id("y")), DoS(ArrayE(<<>>))>>), <<>>))>>,
     <<DoS(IfE(X, IfE(X, DictE(<<>>), I(1)), MatchE(X, <<>>))), Set(At(IfE(X, XS, XS), 0), X)>>,
     <<Say(<<Lit(Str(<<"{", "x", "}", "\"", "\\", "\n", "/", "/", "\t", "\r">>)), Interp(<< <<"var", "x">>, <<"text", <<"{", "y">>>> >>), Lit(<<"number", "1.25">>)>>)>>,
     <<DoS(MatchE(IfE(X, P, P), << Arm(<<"or", << <<"lit", Int2(-128)>>, <<"lit", Int2(-3)>>, <<"lit", Bool(TRUE)>> >> >>, <<>>, DictE(<< <<<<"k">>, DictE(<<>>)>> >>)),
             Arm(<<"or", << <<"array", << <<"bind", "x">> >>, <<"..", "y">> >>, <<"struct", "P", << <<"a", <<"bind", "x">> >>, <<"b", <<"bind", "y">> >> >> >> >> >>, <<StructE("P", <<>>)>>, Lam(<<>>, <<>>)),
             Arm(<<"in", "m", <<"enum", "E", "C", "fields", << <<"s", <<"array", <<>>, <<"..">> >> >> >> >> >>, <<>>, StructE("P", <<>>)),
             Arm(<<"in", "m", <<"struct", "P", <<>> >> >>, <<>>, X), Arm(<<"enum", "E", "A", "unit", <<>> >>, <<T>>, X),
             Arm(<<"lit", <<"-", "number", "0.5">> >>, <<>>, X), Arm(<<"lit", None>>, <<>>, X), Arm(<<"lit", Str(<<"a">>)>>, <<>>, X) >>))>> >>

\* The texts the parser reads: these, and the parts of the programs.
Pieces == Texts \o [i \in 1..Len(Prelude) |-> <<Prelude[i]>>] \o Places \o Flow \o Calling \o Refusals \o Worded
ReadingOf(body) == LET read == [back |-> Text!ReadBack(body), whole |-> Text!NothingIgnored(body)] IN read
Readings == [i \in 1..Len(Pieces) |-> Reading(Pieces[i])]

\* Ways to nest: what comes before, a text to start from, what comes after.
Nests ==
  << <<"(", "x", ")">>, <<"[", "x", "]">>, <<"x(", "x", ")">>, <<"x.m(", "x", ")">>, <<"x[", "x", "]">>, <<"-", "x", "">>,
    <<"!", "x", "">>, <<"try ", "x", "">>, <<"x + (", "x", ")">>, <<"P { a: ", "x", "}">>, <<"E::A(", "x", ")">>,
    <<"E::A{ a: ", "x", "}">>, <<"Ok(", "x", ")">>, <<"{ \"k\": ", "x", "}">>, <<"x + if x { ", "x", "} else { x }">>,
    <<"x + if x { x } else { ", "x", "}">>, <<"x + if ", "x", " { x } else { x }">>, <<"match ", "x", " {}">>,
    <<"match x { x => ", "x", "}">>, <<"match x { x if ", "x", " => x }">>, <<"fn() { ", "x", "}">>, <<"if x { ", "x", "}">>,
    <<"if x {} else { ", "x", "}">>, <<"while x { ", "x", "}">>, <<"repeat x { ", "x", "}">>, <<"for x in x { ", "x", "}">>,
    <<"fn f() { ", "x", "}">>, <<"fn P.f() { ", "x", "}">>, <<"fn() { return ", "x", "}">> >>
PatternNests == << <<"[", "x", "]">>, <<"E::A(", "x", ")">>, <<"P { a: ", "x", "}">>, <<"Ok(", "x", ")">>, <<"x | [", "x", "]">> >>
NestingOf(nest) == LET kept == Text!DepthKept(nest) IN kept
Nestings ==
  LET Kept(nests, before, after) == [i \in 1..Len(nests) |-> Nesting(<<before, nests[i], after>>)]
  IN Kept(Nests, "", "") \o Kept(PatternNests, "match x { ", " => x }")

\* Texts are no part of a run: each is looked at beside the program of its
\* number, so that a failure is reported with the number.
Beside(results) == IF program \in DOMAIN results THEN {results[program]} ELSE {}

\* What the author of a program of several modules is told.
Advice == [i \in 1..Len(StepPairs) |-> Advising(StepPairs[i])]

\* What the lexer and the parser read is what was written, however the text is
\* laid out: in few lines, one statement to a line, or with a line end and a
\* comment wherever they mean nothing.
ReadsBack == \A read \in Beside(Readings) : read.back

\* No token is passed over: with any one missing, a text is refused, or the
\* tree holds all the others.
EveryTokenCounts == \A read \in Beside(Readings) : read.whole

\* The parser's recursion is bounded, whatever is nested in itself.
DeepTextsAreRefused == \A kept \in Beside(Nestings) : kept

\* Whoever is told that a match leaves variants of an enum out is told so of
\* the enum that the match's patterns mean, whenever it runs and on whatever
\* path, and of variants that none of its arms takes.
NoFalseAdvice == \A holds \in Beside(Advice) : holds
=============================================================================
