-------------------------------- MODULE Parser --------------------------------
(***************************************************************************)
(* From tokens to the syntax tree (parser.rs).  A parse function takes the *)
(* context                                                                 *)
(*    toks    the tokens                                                   *)
(*    allow   allow_struct_literal: `Name {' starts a struct literal       *)
(*    blocks  block_depth                                                  *)
(*    depth   of the calls that guard against deep nesting                 *)
(* which holds until the function returns, and a state                     *)
(*    pos     the next token                                               *)
(*    v       what the last function made                                  *)
(*    err     why the text is refused, or ""                               *)
(* that it hands on unchanged once the text is refused.                    *)
(***************************************************************************)
EXTENDS Receivers, Lexer

CONSTANTS MaxParseDepth \* MAX_PARSE_DEPTH

\* classify: by the letters after leading underscores.
Classify(name) ==
  LET chars == Characters(name)
      core == EndOf(chars, 1, {"_"})
  IN IF core > Len(chars) THEN "wildcard"
     ELSE IF chars[core] \notin Capitals THEN "value"
     ELSE IF \E i \in core..Len(chars) : chars[i] \in SmallLetters THEN "type" ELSE "constant"

IsTypeName(n) == Classify(n) \in {"type", "constant"}
IsConstantName(n) == Classify(n) = "constant"
IsValueName(n) == Classify(n) \in {"value", "wildcard"}

-----------------------------------------------------------------------------
(* Steps *)

PeekAt(cx, s, k) == IF s.pos + k <= Len(cx.toks) THEN cx.toks[s.pos + k][1] ELSE "eof"
Peek(cx, s) == PeekAt(cx, s, 0)
Token(cx, s) == cx.toks[s.pos][2]
Advance(s) == [s EXCEPT !.pos = @ + 1]
Refused(s) == s.err # ""
Refuse(s, why) == IF Refused(s) THEN s ELSE [s EXCEPT !.err = why]
Give(s, node) == IF Refused(s) THEN s ELSE [s EXCEPT !.v = node]
RefuseIf(s, test, why) == IF Refused(s) THEN s ELSE IF test THEN Refuse(s, why) ELSE s

Allowing(cx, allowed) == [cx EXCEPT !.allow = allowed]
\* Mutant: the calls are not counted.
EnteredUncounted(cx) == cx
\* enter; leave is the end of the function that passes the deeper context on.
Entered(cx) == [cx EXCEPT !.depth = @ + 1]
Enter(cx, s) == RefuseIf(s, cx.depth >= MaxParseDepth, "nested too deeply")

\* Mutant: whatever stands there is taken for the token expected.
ExpectAny(cx, s, t) == IF Refused(s) THEN s ELSE Advance(s)
Expect(cx, s, t) == IF Refused(s) THEN s ELSE IF Peek(cx, s) = t THEN Advance(s) ELSE Refuse(s, "expected")

ExpectIdent(cx, s) ==
  IF Refused(s) THEN s
  ELSE IF Peek(cx, s) = "ident" THEN Give(Advance(s), Token(cx, s))
  ELSE Refuse(s, IF Peek(cx, s) \in Keywords THEN "reserved word" ELSE "expected a name")

\* ensure_value_name, ensure_type_name: of the name just read.
ValueName(cx, s) == LET n == ExpectIdent(cx, s) IN RefuseIf(n, ~IsValueName(n.v), "not a value name")
TypeName(cx, s) == LET n == ExpectIdent(cx, s) IN RefuseIf(n, ~IsTypeName(n.v), "not a type name")

RECURSIVE SkipSemicolons(_, _)
SkipSemicolons(cx, s) ==
  IF Refused(s) THEN s ELSE IF Peek(cx, s) = ";" THEN SkipSemicolons(cx, Advance(s)) ELSE s

RECURSIVE ParseExpr(_, _), ParseBinary(_, _, _), ParseUnary(_, _), ParsePattern(_, _), ParseBlock(_, _)

-----------------------------------------------------------------------------
(* Lists *)

ParseCallArg(cx, s) ==
  LET isRef == Peek(cx, s) = "ref"
      e == ParseExpr(Allowing(cx, TRUE), IF isRef THEN Advance(s) ELSE s)
  IN Give(e, IF isRef THEN RefArg(e.v) ELSE Arg(e.v))

RECURSIVE ListFrom(_, _, _, _, _)
Items(cx, s, close, kind) ==
  IF Refused(s) THEN s ELSE IF Peek(cx, s) = close THEN Give(s, <<>>) ELSE ListFrom(cx, s, close, kind, <<>>)
Enclosed(cx, s, open, close, kind) ==
  Expect(cx, Items(cx, Expect(cx, s, open), close, kind), close)

\* The fields or items of a declared variant.
ParseVariantDecl(cx, s) ==
  LET n == TypeName(cx, s)
      shape == IF Peek(cx, n) = "(" THEN "tuple" ELSE "fields"
      fields == Enclosed(cx, n, Peek(cx, n), CloserOf[Peek(cx, n)], "field")
  IN IF Refused(n) THEN n
     ELSE IF Peek(cx, n) \in {"(", "{"} THEN Give(fields, <<n.v, shape, fields.v>>)
     ELSE Give(n, <<n.v, "unit", <<>> >>)

ParseEntry(cx, s) ==
  LET n == ExpectIdent(cx, s)
      e == ParseExpr(cx, Expect(cx, n, ":"))
  IN Give(e, <<n.v, e.v>>)

ParseDictEntry(cx, s) ==
  LET key == IF Peek(cx, s) = "str" THEN Give(Advance(s), Token(cx, s)) ELSE Refuse(s, "dict key")
      e == ParseExpr(Allowing(cx, TRUE), Expect(cx, key, ":"))
  IN Give(e, <<key.v, e.v>>)

ListItem(cx, s, kind) ==
  CASE kind = "expr" -> ParseExpr(Allowing(cx, TRUE), s)
    [] kind = "arg" -> ParseCallArg(cx, s)
    [] kind = "entry" -> ParseEntry(cx, s)
    [] kind = "dict entry" -> ParseDictEntry(cx, s)
    [] kind = "pattern" -> ParsePattern(cx, s)
    [] kind = "field" -> ValueName(cx, s)
    [] kind = "variant" -> ParseVariantDecl(cx, s)
    [] kind = "name" -> ExpectIdent(cx, s)

\* All lists but those of arguments may end with a comma.
ListFrom(cx, s, close, kind, got) ==
  LET item == ListItem(cx, s, kind)
      after == Advance(item)
      all == Append(got, item.v)
  IN IF Refused(item) THEN item
     ELSE IF Peek(cx, item) # "," THEN Give(item, all)
     ELSE IF kind # "arg" /\ Peek(cx, after) = close THEN Give(after, all)
     ELSE ListFrom(cx, after, close, kind, all)

\* parse_parameters.
RECURSIVE ParamsFrom(_, _, _)
ParamsFrom(cx, s, got) ==
  LET mode == CASE Peek(cx, s) = ".." -> "rest" [] Peek(cx, s) = "ref" -> "ref" [] OTHER -> "value"
      n == ValueName(cx, IF mode = "value" THEN s ELSE Advance(s))
      p == RefuseIf(n, mode = "rest" /\ n.v \in ParamNames(got), "rest name")
      all == Append(got, Param(p.v, mode))
  IN IF Refused(p) THEN p
     ELSE IF Peek(cx, p) # "," THEN Give(p, all)
     ELSE IF mode = "rest" THEN Refuse(p, "rest is last")
     ELSE ParamsFrom(cx, Advance(p), all)
ParseParameters(cx, s) ==
  LET open == Expect(cx, s, "(")
  IN IF Refused(open) THEN open
     ELSE Expect(cx, IF Peek(cx, open) = ")" THEN Give(open, <<>>) ELSE ParamsFrom(cx, open, <<>>), ")")

-----------------------------------------------------------------------------
(* Expressions *)

\* parse_or down to parse_multiply: the operators of a level, loosest first.
Operators == << {"||"}, {"&&"}, {"==", "!="}, {"<", ">", "<=", ">="}, {"+", "-"}, {"*", "/", "%"} >>
OpName(t) == CASE t = "||" -> "or" [] t = "&&" -> "and" [] OTHER -> t

\* Mutant: operators of one level group to the right.
RECURSIVE MoreOperandsRight(_, _, _)
MoreOperandsRight(cx, s, level) ==
  LET right == ParseBinary(cx, Advance(s), level)
  IN IF Refused(s) \/ Peek(cx, s) \notin Operators[level] THEN s
     ELSE IF Refused(right) THEN right
     ELSE MoreOperandsRight(cx, Give(right, Bin(s.v, OpName(Peek(cx, s)), right.v)), level)

RECURSIVE MoreOperands(_, _, _)
MoreOperands(cx, s, level) ==
  LET right == ParseBinary(cx, Advance(s), level + 1)
  IN IF Refused(s) \/ Peek(cx, s) \notin Operators[level] THEN s
     ELSE IF Refused(right) THEN right
     ELSE MoreOperands(cx, Give(right, Bin(s.v, OpName(Peek(cx, s)), right.v)), level)

\* An operand, and what follows it on every level down to this one.
RECURSIVE Levels(_, _, _, _)
Levels(cx, s, tight, level) ==
  IF Refused(s) \/ tight < level THEN s ELSE Levels(cx, MoreOperands(cx, s, tight), tight - 1, level)
ParseBinary(cx, s, level) == Levels(cx, ParseUnary(cx, s), Len(Operators), level)

ParseExpr(cx, s) == LET e == ParseBinary(cx, s, 1) IN RefuseIf(e, Peek(cx, e) = "..", "no ranges")

\* What is named after `namespace.', or alone.
Namespaced(namespace, node) == IF namespace = <<>> THEN node ELSE InE(namespace[1], node)
NamespacedPattern(namespace, p) == IF namespace = <<>> THEN p ELSE <<"in", namespace[1], p>>

\* parse_enum_variant_tail: after the type's name.
ParseEnumVariantTail(cx, s, type, namespace) ==
  LET n == ExpectIdent(cx, Advance(s))
      in == Enter(cx, n)
      Payload(shape, parts) == Give(parts, Namespaced(namespace, EnumE(type, n.v, shape, parts.v)))
  IN IF Peek(cx, n) = "(" THEN Payload("tuple", Enclosed(Entered(cx), in, "(", ")", "expr"))
     ELSE IF Peek(cx, n) = "{" /\ cx.allow THEN Payload("fields", Enclosed(Entered(cx), in, "{", "}", "entry"))
     ELSE Payload("unit", Give(n, <<>>))

ParseResultShorthand(cx, s, variant) ==
  LET parts == Enclosed(Entered(cx), Enter(cx, s), "(", ")", "expr")
  IN Give(parts, EnumE("Result", variant, "tuple", parts.v))

ParseStructLiteral(cx, s, type, namespace) ==
  LET fields == Enclosed(Entered(cx), Enter(cx, s), "{", "}", "entry")
  IN Give(fields, Namespaced(namespace, StructE(type, fields.v)))

\* parse_if_expr_branch: semicolons may follow the expression.
ParseBranch(cx, s) ==
  LET e == ParseExpr(Allowing(cx, TRUE), Expect(cx, s, "{")) IN Expect(cx, SkipSemicolons(cx, e), "}")

ParseIfExpr(cx, s) ==
  LET c == ParseExpr(Allowing(cx, FALSE), Advance(s))
      yes == ParseBranch(cx, c)
      no == ParseBranch(cx, Expect(cx, yes, "else"))
  IN IF Refused(c) THEN c ELSE IF Refused(yes) THEN yes ELSE Give(no, IfE(c.v, yes.v, no.v))

\* A brace after => is a dictionary, empty or starting with a quoted key.
ParseMatchArm(cx, s) ==
  LET p == ParsePattern(cx, s)
      guarded == Peek(cx, p) = "if"
      g == ParseExpr(Allowing(cx, TRUE), Advance(p))
      arrow == Expect(cx, IF guarded THEN g ELSE p, "=>")
      dictionary == PeekAt(cx, arrow, 1) = "}" \/ (PeekAt(cx, arrow, 1) = "str" /\ PeekAt(cx, arrow, 2) = ":")
      body == ParseExpr(Allowing(cx, TRUE), RefuseIf(arrow, Peek(cx, arrow) = "{" /\ ~dictionary, "a block"))
  IN IF Refused(p) THEN p ELSE IF Refused(arrow) THEN arrow
     ELSE Give(body, Arm(p.v, IF guarded THEN <<g.v>> ELSE <<>>, body.v))

RECURSIVE SkipSeparators(_, _), ArmsFrom(_, _, _)
SkipSeparators(cx, s) ==
  IF Refused(s) THEN s ELSE IF Peek(cx, s) \in {",", ";"} THEN SkipSeparators(cx, Advance(s)) ELSE s
ArmsFrom(cx, s, got) ==
  IF Refused(s) THEN s
  ELSE IF Peek(cx, s) \in {"}", "eof"} THEN Give(s, got)
  ELSE LET arm == ParseMatchArm(cx, s) IN IF Refused(arm) THEN arm ELSE ArmsFrom(cx, SkipSeparators(cx, arm), Append(got, arm.v))
ParseMatchExpr(cx, s) ==
  LET e == ParseExpr(Allowing(cx, FALSE), Advance(s))
      arms == Expect(cx, ArmsFrom(cx, SkipSemicolons(cx, Expect(cx, e, "{")), <<>>), "}")
  IN IF Refused(e) THEN e ELSE Give(arms, MatchE(e.v, arms.v))

ParseLambda(cx, s) ==
  LET params == ParseParameters(cx, Advance(s))
      body == ParseBlock(cx, params)
  IN IF Refused(params) THEN params ELSE Give(body, LambdaE(params.v, body.v))

\* A name in an expression, alone or at the start of a literal.
ParseNamed(cx, s) ==
  LET n == Token(cx, s)
      after == Advance(s)
      t == Peek(cx, after)
  IN CASE n \in {"Ok", "Err"} /\ t = "(" -> ParseResultShorthand(cx, after, n)
       [] t = "::" -> ParseEnumVariantTail(cx, after, n, <<>>)
       [] t = "{" /\ cx.allow -> ParseStructLiteral(cx, after, n, <<>>)
       [] OTHER -> Give(after, Id(n))

\* parse_primary.
ParsePrimary(cx, s) ==
  LET t == Peek(cx, s)
      Constant(v) == Give(Advance(s), Lit(v))
      items == Enclosed(cx, s, t, CloserOf[t], IF t = "[" THEN "expr" ELSE "dict entry")
  IN IF Refused(s) THEN s
     ELSE CASE t = "int" -> Constant(Int2(Token(cx, s)))
            [] t = "number" -> Constant(cx.toks[s.pos])
            [] t = "str" -> Constant(Str(Token(cx, s)))
            [] t = "interp" -> Give(Advance(s), Interp(Token(cx, s)))
            [] t \in {"true", "false"} -> Constant(Bool(t = "true"))
            [] t = "none" -> Constant(None)
            [] t = "ident" -> ParseNamed(cx, s)
            [] t = "(" ->
                 LET e == ParseExpr(Allowing(Entered(cx), TRUE), Advance(Enter(cx, s))) IN Expect(cx, e, ")")
            [] t = "[" -> Give(items, ArrayE(items.v))
            [] t = "{" -> Give(items, DictE(items.v))
            [] t = "if" -> ParseIfExpr(cx, s)
            [] t = "fn" -> ParseLambda(cx, s)
            [] t = "match" -> ParseMatchExpr(cx, s)
            [] OTHER -> Refuse(s, "not an expression")

\* After `receiver.': a type of the module that the receiver names, a method
\* call or a field.
ParseMember(cx, s) ==
  LET n == ExpectIdent(cx, Advance(s))
      t == Peek(cx, n)
      args == Expect(cx, Items(cx, Advance(n), ")", "arg"), ")")
      alias == s.v.kind = "ident" /\ IsTypeName(n.v)
  IN IF Refused(n) THEN n
     ELSE CASE alias /\ t = "::" -> ParseEnumVariantTail(cx, n, n.v, <<s.v.name>>)
            [] alias /\ t = "{" /\ cx.allow -> ParseStructLiteral(cx, n, n.v, <<s.v.name>>)
            [] t = "(" -> Give(args, MethodCallE(s.v, n.v, args.v))
            [] OTHER -> Give(n, FieldE(s.v, n.v))

\* parse_postfix, from the expression so far.
RECURSIVE ParsePostfix(_, _)
ParsePostfix(cx, s) ==
  LET t == Peek(cx, s)
      args == Expect(cx, Items(cx, Advance(s), ")", "arg"), ")")
      index == Expect(cx, ParseExpr(Allowing(cx, TRUE), Advance(s)), "]")
  IN IF Refused(s) THEN s
     ELSE CASE t = "(" -> ParsePostfix(cx, Give(args, CallE(s.v, args.v)))
            [] t = "[" -> ParsePostfix(cx, Give(index, IndexE(s.v, index.v)))
            [] t = "." -> ParsePostfix(cx, ParseMember(cx, s))
            [] OTHER -> s

\* The magnitude of the least integer is a token of its own, and has a value
\* only after a minus.
ParseUnary(cx, s) ==
  LET in == Enter(cx, s)
      t == Peek(cx, in)
      inner == ParseUnary(Entered(cx), Advance(in))
      least == t = "-" /\ PeekAt(cx, in, 1) = "intmin"
  IN IF Refused(in) THEN in
     ELSE CASE least -> Give(Advance(Advance(in)), I(-MaxInt - 1))
            [] t = "-" /\ ~least -> Give(inner, Un("-", inner.v))
            [] t = "!" -> Give(inner, Un("not", inner.v))
            [] t = "try" -> Give(inner, TryE(inner.v))
            [] OTHER -> ParsePostfix(Entered(cx), ParsePrimary(Entered(cx), in))

-----------------------------------------------------------------------------
(* Patterns *)

\* parse_pattern_field_list: `..' must come last; a field alone binds its name.
RECURSIVE PatternFields(_, _, _)
PatternFields(cx, s, got) ==
  LET n == ExpectIdent(cx, s)
      p == IF Peek(cx, n) = ":" THEN ParsePattern(cx, Advance(n))
           ELSE Give(RefuseIf(n, ~IsValueName(n.v), "not a value name"), <<"bind", n.v>>)
      all == Append(got, <<n.v, p.v>>)
  IN IF Refused(s) THEN s
     ELSE IF Peek(cx, s) = "}" THEN Give(Advance(s), got)
     ELSE IF Peek(cx, s) = ".." THEN Give(Expect(cx, Advance(s), "}"), got)
     ELSE IF Refused(n) THEN n
     ELSE IF Refused(p) THEN p
     ELSE IF Peek(cx, p) = "," THEN PatternFields(cx, Advance(p), all)
     ELSE Give(Expect(cx, p, "}"), all)

ParsePatternVariantTail(cx, s, type, namespace) ==
  LET n == ExpectIdent(cx, Advance(s))
      Payload(shape, parts) == Give(parts, NamespacedPattern(namespace, <<"enum", type, n.v, shape, parts.v>>))
  IN IF Refused(n) THEN n
     ELSE IF Peek(cx, n) = "(" THEN Payload("tuple", Enclosed(cx, n, "(", ")", "pattern"))
     ELSE IF Peek(cx, n) = "{" THEN Payload("fields", PatternFields(cx, Advance(n), <<>>))
     ELSE Payload("unit", Give(n, <<>>))

ParsePatternStruct(cx, s, type, namespace) ==
  LET fields == PatternFields(cx, Advance(s), <<>>)
  IN Give(fields, NamespacedPattern(namespace, <<"struct", type, fields.v>>))

\* The type pattern after its name, which may be `namespace.Type'.
ParsePatternNamed(cx, s) ==
  LET n == Token(cx, s)
      after == Advance(s)
      t == Peek(cx, after)
      items == Enclosed(cx, after, "(", ")", "pattern")
      type == ExpectIdent(cx, Advance(after))
      namespace == <<n>>
  IN CASE n \in {"Ok", "Err"} /\ t = "(" -> Give(items, <<"enum", "Result", n, "tuple", items.v>>)
       [] t = "::" -> ParsePatternVariantTail(cx, after, n, <<>>)
       [] t = "{" -> ParsePatternStruct(cx, after, n, <<>>)
       [] t = "." /\ IsValueName(n) ->
            IF Refused(type) THEN type
            ELSE IF ~IsTypeName(type.v) THEN Refuse(type, "not a type name")
            ELSE IF Peek(cx, type) = "::" THEN ParsePatternVariantTail(cx, type, type.v, namespace)
            ELSE IF Peek(cx, type) = "{" THEN ParsePatternStruct(cx, type, type.v, namespace)
            ELSE Refuse(type, "expected a variant or fields")
       [] OTHER -> Give(RefuseIf(after, ~IsValueName(n), "not a value name"), <<"bind", n>>)

\* parse_pattern_array, after its bracket: `..' and its name must come last.
RECURSIVE PatternItems(_, _, _)
PatternItems(cx, s, got) ==
  LET after == Advance(s)
      p == ParsePattern(cx, s)
      n == ValueName(cx, after)
      named == Peek(cx, after) = "ident" /\ Token(cx, after) # "_"
  IN IF Refused(s) THEN s
     ELSE IF Peek(cx, s) = "]" THEN Give(after, <<"array", got, <<>> >>)
     ELSE IF Peek(cx, s) = ".." THEN
            IF Peek(cx, after) \in Keywords THEN Refuse(after, "reserved word")
            ELSE IF named THEN Give(Expect(cx, n, "]"), <<"array", got, <<"..", n.v>> >>)
            ELSE Give(Expect(cx, after, "]"), <<"array", got, <<"..">> >>)
     ELSE IF Refused(p) THEN p
     ELSE IF Peek(cx, p) = "," THEN PatternItems(cx, Advance(p), Append(got, p.v))
     ELSE Give(Expect(cx, p, "]"), <<"array", Append(got, p.v), <<>> >>)

\* parse_pattern_single, which guards against deep nesting.
ParsePatternSingle(cx, s) ==
  LET in == Enter(cx, s)
      t == Peek(cx, in)
      after == Advance(in)
      deeper == Entered(cx)
      Constant(v) == Give(after, <<"lit", v>>)
  IN IF Refused(in) THEN in
     ELSE CASE t = "int" -> Constant(Int2(Token(cx, in)))
            [] t = "number" -> Constant(cx.toks[in.pos])
            [] t = "str" -> Constant(Str(Token(cx, in)))
            [] t \in {"true", "false"} -> Constant(Bool(t = "true"))
            [] t = "none" -> Constant(None)
            [] t = "-" ->
                 IF Peek(cx, after) = "int" THEN Give(Advance(after), <<"lit", Int2(-Token(cx, after))>>)
                 ELSE IF Peek(cx, after) = "number" THEN Give(Advance(after), <<"lit", <<"-">> \o cx.toks[after.pos]>>)
                 ELSE IF Peek(cx, after) = "intmin" THEN Give(Advance(after), <<"lit", Int2(-MaxInt - 1)>>)
                 ELSE Refuse(after, "expected a number")
            [] t = "[" -> PatternItems(deeper, after, <<>>)
            [] t = "ident" -> IF Token(cx, in) = "_" THEN Give(after, <<"wild">>) ELSE ParsePatternNamed(deeper, in)
            [] OTHER -> Refuse(in, IF t \in Keywords THEN "reserved word" ELSE "expected a pattern")

\* `|' joins patterns that bind the same names.
RECURSIVE Alternatives(_, _, _)
Alternatives(cx, s, got) ==
  LET p == ParsePatternSingle(cx, Advance(s))
      same == RefuseIf(p, BindingNames(p.v) # BindingNames(got[1]), "different bindings")
  IN IF Peek(cx, s) # "|" THEN Give(s, IF Len(got) = 1 THEN got[1] ELSE <<"or", got>>)
     ELSE IF Refused(same) THEN same ELSE Alternatives(cx, same, Append(got, p.v))
ParsePattern(cx, s) ==
  LET first == ParsePatternSingle(cx, s) IN IF Refused(first) THEN first ELSE Alternatives(cx, first, <<first.v>>)

-----------------------------------------------------------------------------
(* Statements *)

\* Names of `pub {...}' lists.
PublicNames(stmts) == UNION {ToSet(stmts[i].names) : i \in {j \in 1..Len(stmts) : stmts[j].kind = "public"}}

RECURSIVE ParseStatement(_, _), StatementsFrom(_, _, _, _)
StatementsFrom(cx, s, stop, got) ==
  LET st == ParseStatement(cx, s)
      again == RefuseIf(st, PublicNames(got) \cap PublicNames(<<st.v>>) # {}, "public twice")
  IN IF Refused(s) THEN s
     ELSE IF Peek(cx, s) \in stop THEN Give(s, got)
     ELSE IF Refused(again) THEN again
     ELSE StatementsFrom(cx, SkipSemicolons(cx, again), stop, Append(got, st.v))

ParseBlock(cx, s) ==
  LET inside == [Entered(Allowing(cx, TRUE)) EXCEPT !.blocks = @ + 1]
      open == Expect(cx, Enter(cx, s), "{")
  IN Expect(cx, StatementsFrom(inside, SkipSemicolons(cx, open), {"}", "eof"}, <<>>), "}")

\* `let' and `const', from the name on.
ParseBinding(cx, s) == LET e == ParseExpr(cx, Expect(cx, s, "=")) IN Give(e, <<s.v, e.v>>)
ConstName(cx, s) == LET n == ExpectIdent(cx, s) IN RefuseIf(n, ~IsConstantName(n.v), "not a constant name")

\* An expression before a block, and the block.
HeadAndBody(cx, s) ==
  LET head == ParseExpr(Allowing(cx, FALSE), s)
      body == ParseBlock(cx, head)
  IN IF Refused(head) THEN head ELSE Give(body, <<head.v, body.v>>)

\* parse_if_stmt.
RECURSIVE BranchesFrom(_, _, _)
BranchesFrom(cx, s, got) ==
  LET branch == HeadAndBody(cx, Advance(s))
      all == Append(got, branch.v)
      after == Advance(branch)
      last == ParseBlock(cx, after)
  IN IF Refused(branch) THEN branch
     ELSE IF Peek(cx, branch) # "else" THEN Give(branch, IfS(all, <<>>))
     ELSE IF Peek(cx, after) = "if" THEN BranchesFrom(cx, after, all)
     ELSE Give(last, IfS(all, <<last.v>>))

ParseWhile(cx, s) == LET b == HeadAndBody(cx, Advance(s)) IN Give(b, WhileS(b.v[1], b.v[2]))
ParseRepeat(cx, s) == LET b == HeadAndBody(cx, Advance(s)) IN Give(b, RepeatS(b.v[1], b.v[2]))
ParseFor(cx, s) ==
  LET n == ValueName(cx, Advance(s))
      b == HeadAndBody(cx, Expect(cx, n, "in"))
  IN Give(b, ForS(n.v, b.v[1], b.v[2]))

\* The method after `fn Type'.
ParseMethodDecl(cx, s, type) ==
  LET n == ValueName(cx, Advance(s))
      params == ParseParameters(cx, n)
      body == ParseBlock(cx, RefuseIf(params, params.v # <<>> /\ params.v[1].mode = "rest", "rest receiver"))
      m == MethodS(type, n.v, params.v, body.v)
      mutates == \E r \in ReceiverOf(m, "value") : MutatesReceiver(m.body, r, {})
  IN RefuseIf(Give(body, m), mutates, "value receiver changes")

ParseFnDecl(cx, s, public) ==
  LET n == ExpectIdent(cx, Advance(s))
      params == ParseParameters(cx, RefuseIf(n, ~IsValueName(n.v), "not a value name"))
      body == ParseBlock(cx, params)
      isMethod == Peek(cx, n) = "."
      typed == RefuseIf(RefuseIf(n, public, "public method"), ~IsTypeName(n.v), "not a type name")
      decl == FnS(n.v, params.v, body.v)
  IN IF Refused(n) THEN n
     ELSE IF ~isMethod THEN Give(body, IF public THEN PubS(decl) ELSE decl)
     ELSE IF Refused(typed) THEN typed ELSE ParseMethodDecl(cx, n, n.v)

\* `fn' starts a declaration when a name, or a word reserved, follows it.
NameFollows(cx, s) == PeekAt(cx, s, 1) \in {"ident"} \cup Keywords
ParsePublicFnDecl(cx, s) ==
  LET f == Advance(s)
      at == RefuseIf(s, cx.blocks # 0, "not at the root")
      fn == RefuseIf(at, Peek(cx, f) # "fn", "not a function")
      named == RefuseIf(fn, ~NameFollows(cx, f), "not a named function")
  IN IF Refused(named) THEN named ELSE ParseFnDecl(cx, f, TRUE)

\* `pub {...}', each name once.
ParsePublicSurface(cx, s) ==
  LET names == Enclosed(cx, Advance(RefuseIf(s, cx.blocks # 0, "not at the root")), "{", "}", "name")
  IN IF Refused(names) THEN names
     ELSE RefuseIf(Give(names, PublicS(names.v)), ~IsInjective(names.v), "public twice")

\* The dotted path of a `use', up to `.{'.
RECURSIVE PathFrom(_, _, _)
PathFrom(cx, s, got) ==
  LET n == ValueName(cx, s)
      all == Append(got, n.v)
  IN IF Refused(n) THEN n
     ELSE IF Peek(cx, n) # "." \/ PeekAt(cx, n, 1) = "{" THEN Give(n, all)
     ELSE PathFrom(cx, Advance(n), all)
ParseUse(cx, s) ==
  LET path == PathFrom(cx, Advance(s), <<>>)
      selects == Peek(cx, path) = "."
      items == IF selects THEN Enclosed(cx, Advance(path), "{", "}", "name") ELSE Give(path, <<>>)
      renames == Peek(cx, items) = "as"
      alias == IF renames THEN ValueName(cx, Advance(items)) ELSE items
  IN IF Refused(items) THEN items
     ELSE Give(alias, UseS(path.v, IF selects THEN <<items.v>> ELSE <<>>, IF renames THEN <<alias.v>> ELSE <<>>))

ParseStructDecl(cx, s) ==
  LET n == TypeName(cx, Advance(s))
      fields == Enclosed(cx, n, "{", "}", "field")
  IN Give(fields, StructS(n.v, fields.v))
ParseEnumDecl(cx, s) ==
  LET n == TypeName(cx, Advance(s))
      variants == Enclosed(cx, n, "{", "}", "variant")
  IN Give(variants, EnumS(n.v, variants.v))

ParseReturn(cx, s) ==
  LET e == ParseExpr(cx, Advance(s))
  IN IF PeekAt(cx, s, 1) \in {";", "}", "eof"} THEN Give(Advance(s), ReturnS(<<>>))
     ELSE Give(e, ReturnS(<<e.v>>))

\* expr_to_assign_target: what may be on the left of an assignment.
RefuseTarget(s, e) ==
  LET root == DecomposePlace(e).root
  IN RefuseIf(RefuseIf(s, root # "" /\ IsConstantName(root), "constant"),
              e.kind \notin {"ident", "index", "field"}, "not a place")

AssignOps == [t \in {"=", "+=", "-=", "*=", "/=", "%="} |->
                CASE t = "=" -> "=" [] t = "+=" -> "+" [] t = "-=" -> "-"
                  [] t = "*=" -> "*" [] t = "/=" -> "/" [] t = "%=" -> "%"]
ParseExprOrAssign(cx, s) ==
  LET e == ParseExpr(cx, s)
      op == Peek(cx, e)
      value == ParseExpr(cx, RefuseTarget(Advance(e), e.v))
  IN IF Refused(e) THEN e
     ELSE IF op \in DOMAIN AssignOps THEN Give(value, AssignS(e.v, AssignOps[op], value.v))
     ELSE Give(e, DoS(e.v))

ParseStatement(cx, s) ==
  LET t == Peek(cx, s)
      after == Advance(s)
      bound == ParseBinding(cx, IF t = "let" THEN ValueName(cx, after) ELSE ConstName(cx, after))
  IN IF Refused(s) THEN s
     ELSE CASE t = "let" -> Give(bound, LetS(bound.v[1], bound.v[2]))
            [] t = "const" -> Give(bound, ConstS(bound.v[1], bound.v[2]))
            [] t = "if" -> BranchesFrom(cx, s, <<>>)
            [] t = "while" -> ParseWhile(cx, s)
            [] t = "for" -> ParseFor(cx, s)
            [] t = "repeat" -> ParseRepeat(cx, s)
            [] t = "fn" /\ NameFollows(cx, s) -> ParseFnDecl(cx, s, FALSE)
            [] t = "pub" -> IF Peek(cx, after) = "{" THEN ParsePublicSurface(cx, s) ELSE ParsePublicFnDecl(cx, s)
            [] t = "return" -> ParseReturn(cx, s)
            [] t = "break" -> Give(after, BreakS)
            [] t = "continue" -> Give(after, ContinueS)
            [] t = "use" -> ParseUse(cx, s)
            [] t = "struct" -> ParseStructDecl(cx, s)
            [] t = "enum" -> ParseEnumDecl(cx, s)
            [] OTHER -> ParseExprOrAssign(cx, s)

\* parse: the whole text.
Parse(toks) ==
  LET cx == [toks |-> toks, allow |-> TRUE, blocks |-> 0, depth |-> 0]
      start == [pos |-> 1, v |-> <<>>, err |-> ""]
      all == StatementsFrom(cx, SkipSemicolons(cx, start), {"eof"}, <<>>)
  IN IF Refused(all) THEN all ELSE RefuseIf(all, CallsRefMethods(all.v), "value receiver changes")
=============================================================================
