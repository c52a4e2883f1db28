----------------------------- MODULE SourceText ------------------------------
(***************************************************************************)
(* How a program is written: the reference the lexer and the parser are    *)
(* compared with.  A tree is written with the parentheses it needs and no  *)
(* others, as tokens in which <<"sep">> separates statements and arms; a   *)
(* layout says where the lines end, and the tokens are spelled out.        *)
(***************************************************************************)
EXTENDS Parser

\* The words and symbols of a string of tokens, one blank between them.
Sym(t) == << <<t>> >>
Name(n) == << <<"ident", n>> >>
Separator == << <<"sep">> >>
InParens(toks) == Sym("(") \o toks \o Sym(")")
InBraces(toks) == Sym("{") \o toks \o Sym("}")

\* The parts with a separator between them.
RECURSIVE Interspersed(_, _)
Interspersed(parts, sep) ==
  IF parts = <<>> THEN <<>>
  ELSE IF Len(parts) = 1 THEN parts[1] ELSE parts[1] \o sep \o Interspersed(Tail(parts), sep)
Listed(parts) == Interspersed(parts, Sym(","))
Lines(parts) == Interspersed(parts, Separator)
Mapped(Write(_), s) == [i \in 1..Len(s) |-> Write(s[i])]

-----------------------------------------------------------------------------
(* Expressions *)

Spelling(op) == CASE op = "or" -> "||" [] op = "and" -> "&&" [] OTHER -> op
\* How tightly an expression binds: a binary one as its operator.
UnaryLevel == Len(Operators) + 1
Tightest == UnaryLevel + 1
Tightness(e) ==
  CASE e.kind = "binary" -> CHOOSE i \in 1..Len(Operators) : Spelling(e.op) \in Operators[i]
    [] e.kind \in {"unary", "try"} \/ e = I(-MaxInt - 1) -> UnaryLevel
    [] OTHER -> Tightest

RECURSIVE Written(_, _, _), Bare(_, _), WrittenBlock(_), WrittenPattern(_)

WrittenParam(p) == (IF p.mode = "ref" THEN Sym("ref") ELSE IF p.mode = "rest" THEN Sym("..") ELSE <<>>) \o Name(p.name)
WrittenParams(params) == InParens(Listed(Mapped(WrittenParam, params)))
Whole(e) == Written(e, 1, FALSE)
WrittenArgs(args) ==
  LET One(a) == (IF a.mode = "ref" THEN Sym("ref") ELSE <<>>) \o Whole(a.expr)
  IN InParens(Listed(Mapped(One, args)))
WrittenEntries(entries) == LET One(f) == Name(f[1]) \o Sym(":") \o Whole(f[2]) IN InBraces(Listed(Mapped(One, entries)))

Literal(v) ==
  CASE v[1] = "int" -> IF v[2] = -MaxInt - 1 THEN Sym("-") \o Sym("intmin")
                       ELSE IF v[2] < 0 THEN Sym("-") \o << <<"int", -v[2]>> >> ELSE <<v>>
    [] v[1] = "bool" -> Sym(IF v[2] THEN "true" ELSE "false")
    [] v = None -> Sym("none")
    [] v[1] = "-" -> Sym("-") \o <<Tail(v)>>
    [] OTHER -> <<v>>

\* A variant of Result is written without the type if it has a tuple.
Variant(type, variant, shape) ==
  IF type = "Result" /\ shape = "tuple" THEN Name(variant) ELSE Name(type) \o Sym("::") \o Name(variant)

Braced(e) == e.kind = "struct" \/ (e.kind = "enum" /\ e.shape = "fields")

\* Without parentheses around it; head says that `{' would start a block.
Bare(e, head) ==
  LET Postfixed(o) == Written(o, Tightest, head)
      Branch(b) == InBraces(Whole(b))
      WrittenArm(arm) ==
        WrittenPattern(arm.pattern)
        \o (IF arm.guard = <<>> THEN <<>> ELSE Sym("if") \o Whole(arm.guard[1]))
        \o Sym("=>") \o Whole(arm.body)
      Quoted(f) == << <<"str", f[1]>> >> \o Sym(":") \o Whole(f[2])
      \* A call of a field, or of a variant without a payload, would read as
      \* another expression.
      callee == IF e.callee.kind = "field" \/ (e.callee.kind = "enum" /\ e.callee.shape = "unit")
                THEN InParens(Whole(e.callee)) ELSE Postfixed(e.callee)
  IN CASE e.kind = "lit" -> Literal(e.value)
       [] e.kind = "interp" -> << <<"interp", e.parts>> >>
       [] e.kind = "ident" -> Name(e.name)
       [] e.kind = "binary" -> Written(e.left, Tightness(e), head) \o Sym(Spelling(e.op))
                               \o Written(e.right, Tightness(e) + 1, head)
       [] e.kind = "unary" -> Sym(IF e.op = "not" THEN "!" ELSE "-") \o Written(e.inner, UnaryLevel, head)
       [] e.kind = "try" -> Sym("try") \o Written(e.inner, UnaryLevel, head)
       [] e.kind = "call" -> callee \o WrittenArgs(e.args)
       [] e.kind = "method" -> Postfixed(e.object) \o Sym(".") \o Name(e.method) \o WrittenArgs(e.args)
       [] e.kind = "field" -> Postfixed(e.object) \o Sym(".") \o Name(e.field)
       [] e.kind = "index" -> Postfixed(e.object) \o Sym("[") \o Whole(e.index) \o Sym("]")
       [] e.kind = "array" -> Sym("[") \o Listed(Mapped(Whole, e.items)) \o Sym("]")
       [] e.kind = "dict" -> InBraces(Listed(Mapped(Quoted, e.entries)))
       [] e.kind = "struct" -> Name(e.type) \o WrittenEntries(e.entries)
       [] e.kind = "enum" ->
            Variant(e.type, e.variant, e.shape)
            \o (CASE e.shape = "unit" -> <<>>
                  [] e.shape = "tuple" -> InParens(Listed(Mapped(Whole, e.parts)))
                  [] e.shape = "fields" -> WrittenEntries(e.parts))
       [] e.kind = "in" -> Name(e.namespace) \o Sym(".") \o Bare(e.node, head)
       [] e.kind = "if" -> Sym("if") \o Written(e.cond, 1, TRUE) \o Branch(e.then) \o Sym("else") \o Branch(e.otherwise)
       [] e.kind = "lambda" -> Sym("fn") \o WrittenParams(e.params) \o WrittenBlock(e.body)
       [] e.kind = "match" -> Sym("match") \o Written(e.scrutinee, 1, TRUE) \o InBraces(Lines(Mapped(WrittenArm, e.arms)))

Written(e, least, head) ==
  IF Tightness(e) < least \/ (head /\ Braced(IF e.kind = "in" THEN e.node ELSE e))
  THEN InParens(Bare(e, FALSE)) ELSE Bare(e, head)

-----------------------------------------------------------------------------
(* Patterns and statements *)

WrittenPattern(p) ==
  LET All(ps) == Listed(Mapped(WrittenPattern, ps))
      Field(f) == Name(f[1]) \o Sym(":") \o WrittenPattern(f[2])
      Fields(fs) == InBraces(Listed(Mapped(Field, fs)))
  IN CASE p[1] = "bind" -> Name(p[2])
       [] p[1] = "wild" -> Name("_")
       [] p[1] = "lit" -> Literal(p[2])
       [] p[1] = "or" -> Interspersed(Mapped(WrittenPattern, p[2]), Sym("|"))
       [] p[1] = "in" -> Name(p[2]) \o Sym(".") \o WrittenPattern(p[3])
       [] p[1] = "struct" -> Name(p[2]) \o Fields(p[3])
       [] p[1] = "enum" ->
            Variant(p[2], p[3], p[4])
            \o (CASE p[4] = "unit" -> <<>> [] p[4] = "tuple" -> InParens(All(p[5])) [] p[4] = "fields" -> Fields(p[5]))
       [] p[1] = "array" ->
            Sym("[") \o All(p[2]) \o (IF p[3] = <<>> THEN <<>> ELSE IF p[2] = <<>> THEN Sym("..") ELSE Sym(",") \o Sym(".."))
            \o (IF Len(p[3]) = 2 THEN Name(p[3][2]) ELSE <<>>) \o Sym("]")

WrittenVariantDecl(v) ==
  Name(v[1]) \o (CASE v[2] = "unit" -> <<>>
                   [] v[2] = "tuple" -> InParens(Listed(Mapped(Name, v[3])))
                   [] v[2] = "fields" -> InBraces(Listed(Mapped(Name, v[3]))))

\* At the start of a statement `if' is the statement.
Leading(toks) == IF toks[1] = <<"if">> THEN InParens(toks) ELSE toks
HeadText(e) == Written(e, 1, TRUE)

RECURSIVE WrittenStmt(_)
WrittenStmt(st) ==
  LET Branch(b) == Sym("if") \o HeadText(b[1]) \o WrittenBlock(b[2])
      else == IF st.otherwise = <<>> THEN <<>> ELSE Sym("else") \o WrittenBlock(st.otherwise[1])
      alias == IF st.alias = <<>> THEN <<>> ELSE Sym("as") \o Name(st.alias[1])
      items == IF st.items = <<>> THEN <<>> ELSE Sym(".") \o InBraces(Listed(Mapped(Name, st.items[1])))
  IN CASE st.kind = "let" -> Sym("let") \o Name(st.name) \o Sym("=") \o Whole(st.value)
       [] st.kind = "const" -> Sym("const") \o Name(st.name) \o Sym("=") \o Whole(st.value)
       [] st.kind = "assign" -> Leading(Whole(st.target)) \o Sym(IF st.op = "=" THEN "=" ELSE st.op \o "=") \o Whole(st.value)
       [] st.kind = "ifs" -> Interspersed(Mapped(Branch, st.branches), Sym("else")) \o else
       [] st.kind = "while" -> Sym("while") \o HeadText(st.cond) \o WrittenBlock(st.body)
       [] st.kind = "repeat" -> Sym("repeat") \o HeadText(st.count) \o WrittenBlock(st.body)
       [] st.kind = "for" -> Sym("for") \o Name(st.var) \o Sym("in") \o HeadText(st.iterable) \o WrittenBlock(st.body)
       [] st.kind = "fndecl" -> Sym("fn") \o Name(st.name) \o WrittenParams(st.params) \o WrittenBlock(st.body)
       [] st.kind = "pub" -> Sym("pub") \o WrittenStmt(st.decl)
       [] st.kind = "methoddecl" ->
            Sym("fn") \o Name(st.type) \o Sym(".") \o Name(st.name) \o WrittenParams(st.params) \o WrittenBlock(st.body)
       [] st.kind = "return" -> Sym("return") \o (IF st.value = <<>> THEN <<>> ELSE Whole(st.value[1]))
       [] st.kind \in {"break", "continue"} -> Sym(st.kind)
       [] st.kind = "structdecl" -> Sym("struct") \o Name(st.name) \o InBraces(Listed(Mapped(Name, st.fields)))
       [] st.kind = "enumdecl" -> Sym("enum") \o Name(st.name) \o InBraces(Listed(Mapped(WrittenVariantDecl, st.variants)))
       [] st.kind = "use" -> Sym("use") \o Interspersed(Mapped(Name, st.path), Sym(".")) \o items \o alias
       [] st.kind = "public" -> Sym("pub") \o InBraces(Listed(Mapped(Name, st.names)))
       [] st.kind = "expr" -> Leading(Whole(st.value))

WrittenBody(body) == Lines(Mapped(WrittenStmt, body))
WrittenBlock(body) == InBraces(WrittenBody(body))

-----------------------------------------------------------------------------
(* Layouts *)

Laid(toks, separator) == FoldLeft(LAMBDA out, t : out \o (IF t = <<"sep">> THEN separator ELSE <<t>>), <<>>, toks)
Tight(toks) == Laid(toks, Sym(";"))
OnLines(toks) == Laid(toks, Sym("nl"))

\* Line ends wherever they mean nothing: in parentheses and brackets, before a
\* closer, an `else' or a point, and after what cannot end a statement.
MayEnd(t) ==
  t[1] \in {"ident", "int", "intmin", "number", "str", "interp", "true", "false", "none",
            "break", "continue", "return", ")", "]", "}"}
Free(before, t, open) ==
  \/ open # <<>> /\ Last(open) \in {")", "]"}
  \/ t[1] \in {")", "]", "}", ".", "else"}
  \/ before # <<>> /\ ~MayEnd(Last(before))
RECURSIVE Widened(_, _, _)
Widened(toks, done, open) ==
  IF toks = <<>> THEN done
  ELSE LET t == toks[1]
           here == IF t = <<"sep">> THEN Sym("nl") \o Sym("nl") ELSE <<t>>
       IN Widened(Tail(toks), done \o (IF Free(done, t, open) THEN Sym("nl") ELSE <<>>) \o here, Delimiters(open, t))
Wide(toks) == Widened(toks, <<>>, <<>>)

-----------------------------------------------------------------------------
(* Characters *)

SpelledChar(c) ==
  CASE c = "\n" -> <<"\\", "n">> [] c = "\t" -> <<"\\", "t">> [] c = "\r" -> <<"\\", "r">>
    [] c \in {"\"", "\\", "{"} -> <<"\\", c>> [] OTHER -> <<c>>
SpelledText(chars) == FoldLeft(LAMBDA out, c : out \o SpelledChar(c), <<>>, chars)
SpelledPart(part) == IF part[1] = "text" THEN SpelledText(part[2]) ELSE Characters("{" \o part[2] \o "}")
Quote(chars) == <<"\"">> \o chars \o <<"\"">>

\* A line may end in a comment.
SpelledToken(t, lineEnd) ==
  CASE t[1] \in {"ident", "number"} -> Characters(t[2])
    [] t[1] = "int" -> Characters(ToString(t[2]))
    [] t[1] = "intmin" -> Characters(ToString(MaxInt + 1))
    [] t[1] = "str" -> Quote(SpelledText(t[2]))
    [] t[1] = "interp" -> Quote(FoldLeft(LAMBDA out, part : out \o SpelledPart(part), <<>>, t[2]))
    [] t[1] = "nl" -> Characters(lineEnd)
    [] OTHER -> Characters(t[1])

\* A blank only where two tokens would run together.
Spelled(toks, lineEnd) ==
  FoldLeft(LAMBDA out, t :
             LET chars == SpelledToken(t, lineEnd)
             IN out \o (IF out # <<>> /\ {Last(out), chars[1]} \subseteq WordChars THEN <<" ">> ELSE <<>>) \o chars,
           <<>>, toks)

-----------------------------------------------------------------------------
(* Comparisons *)

\* What a text means besides grouping and separation.
Essence(toks) == SelectSeq(toks, LAMBDA t : t[1] \notin {"(", ")", ",", ";"})
Accepted(read) == read.err = ""

\* Every way to write the body is read as the body.
ReadBack(body) ==
  LET toks == WrittenBody(body)
  IN \A raw \in {<<Tight(toks), "">>, <<OnLines(toks), "\n">>, <<Wide(toks), "\t// \"{\r\n">>} :
       LET read == Parse(Lex(Spelled(raw[1], raw[2])))
       IN Accepted(read) /\ read.v = body

\* With one token missing the text is refused, or read as what remains.
NothingIgnored(body) ==
  LET toks == Tight(WrittenBody(body))
  IN \A i \in 1..Len(toks) :
       LET rest == SubSeq(toks, 1, i - 1) \o SubSeq(toks, i + 1, Len(toks))
           read == Parse(rest)
       IN Accepted(read) => Essence(Tight(WrittenBody(read.v))) = Essence(rest)

\* A text in which one part is nested in itself.
RECURSIVE Nested(_, _)
Nested(nest, n) == IF n = 0 THEN nest[2] ELSE nest[1] \o Nested(nest, n - 1) \o nest[3]
NestingRead(nest, n) == Parse(Lex(Characters(nest[1] \o Nested(nest[2], n) \o nest[3])))

\* One level is read, and more than MaxParseDepth are refused.
DepthKept(nest) ==
  /\ Accepted(NestingRead(nest, 1))
  /\ NestingRead(nest, MaxParseDepth + 1).err = "nested too deeply"
=============================================================================
