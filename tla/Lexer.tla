-------------------------------- MODULE Lexer --------------------------------
(***************************************************************************)
(* From characters to tokens (lexer.rs).  A text is a sequence of strings  *)
(* of one character.  A token is a tuple that starts with its kind: a word *)
(* or an operator is its own spelling, and the others are                  *)
(*    <<"int", n>>       <<"intmin">>, the magnitude of the least integer  *)
(*    <<"number", text>> a literal with a fraction                         *)
(*    <<"str", chars>>   <<"interp", parts>>, of <<"text", chars>> and     *)
(*    <<"ident", name>>                       <<"var", name>>              *)
(*    <<"nl">>           a line end, which the second half of the lexer    *)
(*                       turns into <<";">> or drops.                      *)
(***************************************************************************)
EXTENDS Values

Characters(text) == [i \in 1..Len(text) |-> SubSeq(text, i, i)]
Joined(chars) == FoldLeft(LAMBDA word, c : word \o c, "", chars)

Keywords == {"let", "const", "fn", "pub", "return", "if", "else", "while", "for", "in", "repeat", "break",
             "continue", "use", "as", "struct", "enum", "match", "try", "ref", "true", "false", "none"}
Digits == ToSet(Characters("0123456789"))
SmallLetters == ToSet(Characters("abcdefghijklmnopqrstuvwxyz"))
Capitals == ToSet(Characters("ABCDEFGHIJKLMNOPQRSTUVWXYZ"))
Letters == SmallLetters \cup Capitals \cup {"_"}
WordChars == Digits \cup Letters
Symbols == ToSet(Characters("+-*/%=!<>|()[]{},:.;"))
LongSymbols == {"+=", "-=", "*=", "/=", "%=", "==", "=>", "!=", "<=", ">=", "&&", "||", "::", ".."}

-----------------------------------------------------------------------------
(* Tokens.  A function of a position returns the token and the position     *)
(* after it; the token is <<"error", why>> where the text is refused.       *)

CharAt(text, i) == IF i <= Len(text) THEN text[i] ELSE ""
Refusal(why) == <<"error", why>>
Read1(token, after) == [token |-> token, after |-> after]

\* The first position from i on that holds none of these characters.
RECURSIVE EndOf(_, _, _)
EndOf(text, i, chars) == IF CharAt(text, i) \in chars THEN EndOf(text, i + 1, chars) ELSE i
Between(text, i, j) == SubSeq(text, i, j - 1)

\* parse::<u64> of a run of digits, up to a value that no integer has.
DigitValue(d) == CHOOSE n \in 0..9 : Characters("0123456789")[n + 1] = d
Decimal(digits) ==
  FoldLeft(LAMBDA n, d : IF n > MaxInt + 1 THEN n ELSE n * 10 + DigitValue(d), 0, digits)

\* Mutant: a point after digits always starts a fraction.
LexNumberGreedy(text, i) ==
  LET stop == EndOf(text, i, Digits)
      last == EndOf(text, stop + 1, Digits)
      n == Decimal(Between(text, i, stop))
  IN IF CharAt(text, stop) = "." THEN Read1(<<"number", Joined(Between(text, i, last))>>, last)
     ELSE IF n > MaxInt + 1 THEN Read1(Refusal("out of range"), stop)
     ELSE Read1(IF n = MaxInt + 1 THEN <<"intmin">> ELSE <<"int", n>>, stop)

LexNumber(text, i) ==
  LET stop == EndOf(text, i, Digits)
      last == EndOf(text, stop + 1, Digits)
      n == Decimal(Between(text, i, stop))
  IN IF CharAt(text, stop) = "." /\ CharAt(text, stop + 1) \in Digits
     THEN Read1(<<"number", Joined(Between(text, i, last))>>, last)
     ELSE IF n > MaxInt + 1 THEN Read1(Refusal("out of range"), stop)
     ELSE Read1(IF n = MaxInt + 1 THEN <<"intmin">> ELSE <<"int", n>>, stop)

LexIdentOrKeyword(text, i) ==
  LET stop == EndOf(text, i, WordChars)
      word == Joined(Between(text, i, stop))
  IN Read1(IF word \in Keywords THEN <<word>> ELSE <<"ident", word>>, stop)

\* What a backslash and a character stand for.
Escapes == [c \in {"\"", "\\", "{", "}", "n", "t", "r"} |->
              CASE c = "n" -> "\n" [] c = "t" -> "\t" [] c = "r" -> "\r" [] OTHER -> c]

WithText(parts, current) == IF current = <<>> THEN parts ELSE Append(parts, <<"text", current>>)
StringToken(parts, current) ==
  IF parts = <<>> THEN <<"str", current>> ELSE <<"interp", WithText(parts, current)>>

\* A string from position i on, after its opening quote; a brace before a
\* letter holds the name of a variable.
RECURSIVE LexString(_, _, _, _)
LexString(text, i, parts, current) ==
  LET c == CharAt(text, i)
      next == CharAt(text, i + 1)
      stop == EndOf(text, i + 1, WordChars)
      var == <<"var", Joined(Between(text, i + 1, stop))>>
  IN IF c \in {"", "\n"} THEN Read1(Refusal("no closing quote"), i)
     ELSE IF c = "\"" THEN Read1(StringToken(parts, current), i + 1)
     ELSE IF c = "\\" THEN
            IF next \notin DOMAIN Escapes THEN Read1(Refusal("no such escape"), i)
            ELSE LexString(text, i + 2, parts, Append(current, Escapes[next]))
     ELSE IF c = "{" /\ next \in Letters THEN
            IF CharAt(text, stop) # "}" THEN Read1(Refusal("no closing brace"), i)
            ELSE LexString(text, stop + 1, Append(WithText(parts, current), var), <<>>)
     ELSE LexString(text, i + 1, parts, Append(current, c))

\* The token at position i; <<"">> stands for none.
LexToken(text, i) ==
  LET c == text[i]
      long == c \o CharAt(text, i + 1)
  IN IF c \in {" ", "\t", "\r"} THEN Read1(<<"">>, i + 1)
     ELSE IF c = "\n" THEN Read1(<<"nl">>, i + 1)
     ELSE IF c = "\"" THEN LexString(text, i + 1, <<>>, <<>>)
     ELSE IF c \in Digits THEN LexNumber(text, i)
     ELSE IF c \in Letters THEN LexIdentOrKeyword(text, i)
     ELSE IF long = "//" THEN Read1(<<"">>, EndOf(text, i, ToSet(text) \ {"\n"}))
     ELSE IF long \in LongSymbols THEN Read1(<<long>>, i + 2)
     ELSE IF c \in Symbols THEN Read1(<<c>>, i + 1)
     ELSE Read1(Refusal("no such character"), i)

\* lex_all: the tokens, of a text that is refused up to the error.
RECURSIVE LexFrom(_, _, _)
LexFrom(text, i, got) ==
  LET read == LexToken(text, i)
  IN IF (got # <<>> /\ Last(got)[1] = "error") \/ i > Len(text) THEN got
     ELSE LexFrom(text, read.after, IF read.token = <<"">> THEN got ELSE Append(got, read.token))
LexAll(text) == LexFrom(text, 1, <<>>)

-----------------------------------------------------------------------------
(* Line ends *)

Literals == {"int", "intmin", "number", "str", "interp", "true", "false", "none"}
Closers == {")", "]", "}"}
SupportsDotContinuation(t) == t[1] \in {"ident"} \cup Literals \cup Closers
TriggersSemicolon(t) == SupportsDotContinuation(t) \/ t[1] \in {"break", "continue", "return"}

\* The closer of an opening token.
CloserOf == "(" :> ")" @@ "[" :> "]" @@ "{" :> "}"

\* What a token does to the closers of the delimiters open before it.
Delimiters(open, t) ==
  IF t[1] \in DOMAIN CloserOf THEN Append(open, CloserOf[t[1]])
  ELSE IF open # <<>> /\ t[1] = Last(<<"">> \o open) THEN Front(open) ELSE open

\* Mutant: any open delimiter keeps a line end from ending a statement.
EndsStatementOutermost(before, next, open) ==
  /\ ToSet(open) \cap {")", "]"} = {}
  /\ next[1] \notin Closers
  /\ ~(Last(before)[1] = "}" /\ next[1] = "else")
  /\ ~(next[1] = "." /\ SupportsDotContinuation(Last(before)))
  /\ TriggersSemicolon(Last(before))

\* Whether a line end between these tokens ends the statement.  The innermost
\* delimiter decides.
EndsStatement(before, next, open) ==
  /\ Last(<<"">> \o open) \notin {")", "]"}
  /\ next[1] \notin Closers
  /\ ~(Last(before)[1] = "}" /\ next[1] = "else")
  /\ ~(next[1] = "." /\ SupportsDotContinuation(Last(before)))
  /\ TriggersSemicolon(Last(before))

\* The i-th token, or line end, after the tokens kept so far.
Separated(raw, so, i) ==
  LET next == IF i = Len(raw) THEN <<"eof">> ELSE raw[i + 1]
  IN IF raw[i][1] # "nl" THEN [kept |-> Append(so.kept, raw[i]), open |-> Delimiters(so.open, raw[i])]
     ELSE IF next[1] # "nl" /\ so.kept # <<>> /\ EndsStatement(so.kept, next, so.open)
     THEN [so EXCEPT !.kept = Append(@, <<";">>)]
     ELSE so

\* insert_semicolons: a run of line ends is one.
InsertSemicolons(raw) ==
  FoldLeft(LAMBDA so, i : Separated(raw, so, i), [kept |-> <<>>, open |-> <<>>], [i \in 1..Len(raw) |-> i]).kept

\* lex.
Lex(text) == InsertSemicolons(LexAll(text))
=============================================================================
