------------------------------- MODULE Parser -------------------------------
(***************************************************************************)
(* The parser (runtime/parser.cpp), which asks for one token at a time.    *)
(* Its state is the C++ stack: one frame per form that is being read, each *)
(* with one parenthesis of its own that is still open.  parseExpr,         *)
(* parseStatement and what they call at their end share a frame.           *)
(*                                                                         *)
(* Two exceptions steer it.  A closing parenthesis where parseStatement    *)
(* wants a statement throws UnexpectedClosingParen, which is how a list of *)
(* statements ends, in whichever of the callers catches it first; the end  *)
(* of the text throws UnexpectedEOF, which ends parse.                     *)
(*                                                                         *)
(* The tokens come from an environment that may send any; module Reader    *)
(* puts the lexer in its place.                                            *)
(***************************************************************************)
EXTENDS Syntax, FiniteSetsExt

CONSTANTS
  Tokens,        \* the tokens lex may return, records of tok and buf
  MaxTokens,     \* how many are read at most
  MaxInteger,    \* the greatest integer, 2147483647 in the code
  MaxDigits,     \* the digits of a float before the dot, or zeros behind it, some 308
  Words          \* the glyphs that stand for several letters

VARIABLES
  token,         \* what lex has returned, Pending while it runs
  stack,         \* the frames, the innermost last; the first is parse itself
  quoting,       \* TRUE between a quote and the token parseQuoted reads
  mode,          \* "read", "done", "error" or "undefined"
  read,          \* ghost: the tokens read so far
  cut            \* ghost: how many forms a closing parenthesis has cut short

parser == << stack, quoting, mode, read, cut >>
pvars == << token, parser >>

Token(tok, buf) == [tok |-> tok, buf |-> buf]
Pending == Token("PENDING", <<>>)

-----------------------------------------------------------------------------
(* Frames *)

\* form    which function reads it; "expr" until parseExpr knows
\* stage   what has to come before its statements: "head" the first token of an
\*         expression, "name" a symbol, "open" a parenthesis, "body" nothing
\* name    the name read
\* header  argument names, bindings, or << what is applied >>
\* parts   the trees read so far
Frame(form, stage) ==
  [form |-> form, stage |-> stage, name |-> <<>>, header |-> <<>>, parts |-> <<>>]

\* Forms that end with any number of statements, in a try block.
Lists == {"top", "begin", "namespace", "or", "and", "recur", "let", "let-mut", "lambda",
          "defn", "case"}

\* Forms of a fixed number of statements, behind which they expect a parenthesis.
Arity == [f \in {"if", "def", "def-mut", "set", "binding", "delay", "stream-cons"} |->
            CASE f = "if" -> 3 [] f = "stream-cons" -> 2 [] OTHER -> 1]

Stage(word) ==
  CASE word \in {"def", "def-mut", "defn", "set", "namespace"} -> "name"
    [] word \in {"lambda", "let", "let-mut"} -> "open"
    [] OTHER -> "body"

SpecialForms ==
  {"def", "def-mut", "defn", "lambda", "let", "let-mut", "if", "cond", "begin",
   "namespace", "or", "and", "set", "recur", "delay", "stream-cons"}

Top == stack[Len(stack)]
InForm(forms) == Top.stage = "body" /\ Top.form \in forms

\* The innermost function is in parseStatement, or in the loop of parseExpr, which
\* reads the same things.
WantsStatement ==
  \/ InForm(Lists \union {"apply"})
  \/ InForm(DOMAIN Arity) /\ Len(Top.parts) < Arity[Top.form]

\* expect<RPAREN>
WantsParen == InForm(DOMAIN Arity) /\ Len(Top.parts) = Arity[Top.form]

-----------------------------------------------------------------------------
(* Values *)

DigitValue == [d \in {"0", "1", "2", "3", "4", "5", "6", "7", "8", "9"} |->
                 CHOOSE n \in 0..9 : ToString(n) = d]

\* std::stoi of digits, at most one more than the greatest integer.
Value(digits) ==
  FoldLeft(LAMBDA n, d : IF n > (MaxInteger - DigitValue[d]) \div 10 THEN MaxInteger + 1
                         ELSE 10 * n + DigitValue[d],
           0, digits)

\* std::stod, as the digits that matter on each side of the dot.
Without0(digits, S) ==
  IF S = {} THEN <<>> ELSE SubSeq(digits, 1, Max(S))
FloatValue(buf) ==
  LET dot   == CHOOSE i \in DOMAIN buf : buf[i] = "."
      whole == SubSeq(buf, 1, dot - 1)
      part  == SubSeq(buf, dot + 1, Len(buf))
  IN  [kind  |-> "float",
       whole |-> Reverse(Without0(Reverse(whole), {i \in DOMAIN whole : Reverse(whole)[i] # "0"})),
       part  |-> Without0(part, {i \in DOMAIN part : part[i] # "0"})]

\* parseValue
ParseValue(name) ==
  CASE name = << "null" >>  -> NullLit
    [] name = << "true" >>  -> TrueLit
    [] name = << "false" >> -> FalseLit
    [] OTHER -> LValue(name)

\* parseLiteral: what may be quoted, and be in a quoted list.
QuotedTokens == {"INTEGER", "FLOAT", "STRING", "SYMBOL"}

\* Beyond the range of a double, or closer to zero than it gets.
OutOfRange(f) ==
  \/ Len(f.whole) > MaxDigits
  \/ /\ f.whole = <<>> /\ Len(f.part) > MaxDigits
     /\ \A i \in 1..MaxDigits : f.part[i] = "0"

\* std::stoi and std::stod throw, and a character is exactly one glyph.
ValueThrows(t) ==
  \/ t.tok = "INTEGER" /\ Value(t.buf) > MaxInteger
  \/ t.tok = "FLOAT" /\ OutOfRange(FloatValue(t.buf))
  \/ t.tok = "CHAR" /\ ~(Len(t.buf) = 1 /\ t.buf[1] \notin Words)

ParseLiteral(t) ==
  CASE t.tok = "INTEGER" -> Number(Value(t.buf))
    [] t.tok = "FLOAT"   -> Literal(FloatValue(t.buf))
    [] t.tok = "STRING"  -> Quoted("str", t.buf)
    [] t.tok = "SYMBOL"  -> Quoted("sym", t.buf)
    [] t.tok = "CHAR"    -> Literal([kind |-> "char", glyph |-> t.buf[1]])

\* A token that is a statement.
Statements == {"SYMBOL", "INTEGER", "FLOAT", "STRING", "CHAR"}
ParseStatement(t) == IF t.tok = "SYMBOL" THEN ParseValue(t.buf) ELSE ParseLiteral(t)

-----------------------------------------------------------------------------
(* What a frame becomes when it ends *)

\* Mutant: any string in front of a body is a docstring.
AlwaysDocumented(args, sts) ==
  IF Len(sts) > 0 /\ sts[1].k = "Literal" /\ sts[1].value.kind = "str"
  THEN DocLambda(args, sts[1].value.s, Tail(sts))
  ELSE Lambda(args, sts)

\* The first statement is a docstring if it is a string and others follow.
MakeLambda(args, sts) ==
  IF Len(sts) > 1 /\ sts[1].k = "Literal" /\ sts[1].value.kind = "str"
  THEN DocLambda(args, sts[1].value.s, Tail(sts))
  ELSE Lambda(args, sts)

Values(trees) == [i \in DOMAIN trees |-> trees[i].value]

Build(f) ==
  LET p == f.parts IN
  CASE f.form = "begin"       -> Begin(p)
    [] f.form = "or"          -> Or(p)
    [] f.form = "and"         -> And(p)
    [] f.form = "recur"       -> Recur(p)
    [] f.form = "namespace"   -> Namespace(f.name, p)
    [] f.form = "let"         -> Let(f.header, p)
    [] f.form = "let-mut"     -> LetMut(f.header, p)
    [] f.form = "lambda"      -> MakeLambda(f.header, p)
    [] f.form = "defn"        -> Def(f.name, MakeLambda(f.header, p))
    [] f.form = "def"         -> Def(f.name, p[1])
    [] f.form = "def-mut"     -> DefMut(f.name, p[1])
    [] f.form = "set"         -> Set(f.name, p[1])
    [] f.form = "binding"     -> Binding(f.name, p[1])
    [] f.form = "if"          -> If(p[1], p[2], IF Len(p) = 3 THEN p[3] ELSE NullLit)
    [] f.form = "delay"       -> Delay(p[1])
    [] f.form = "stream-cons" -> StreamCons(p[1], p[2])
    [] f.form = "cond"        -> Cond(p)
    [] f.form = "case"        -> Case(p[1], Tail(p))
    [] f.form = "apply"       -> Application(f.header[1], p)
    [] f.form = "list"        -> ListLit(Values(p))
    [] f.form = "pair"        -> PairLit(p[1].value, p[2].value)
    [] f.form \in {"args", "bindings"} -> p

\* The caller gets a tree: as what it applies, its arguments or bindings, or as one
\* more of its parts.
Given(f, tree) ==
  CASE f.stage = "head" -> [f EXCEPT !.form = "apply", !.stage = "body", !.header = << tree >>]
    [] f.stage = "open" -> [f EXCEPT !.stage = "body", !.header = tree]
    [] OTHER -> [f EXCEPT !.parts = Append(@, tree)]

-----------------------------------------------------------------------------
(* Steps *)

Init ==
  /\ token = Pending
  /\ stack = << Frame("top", "body") >>
  /\ quoting = FALSE /\ mode = "read"
  /\ read = <<>> /\ cut = 0

\* lexer.lex() returns.
Receive ==
  /\ mode = "read" /\ token = Pending /\ Len(read) < MaxTokens
  /\ token' \in Tokens
  /\ UNCHANGED parser

Is(toks) == mode = "read" /\ token.tok \in toks

Take == token' = Pending /\ read' = Append(read, token)

\* The innermost frame goes on as f, after the token.
Continue(f) ==
  /\ stack' = [stack EXCEPT ![Len(stack)] = f]
  /\ Take /\ UNCHANGED << quoting, mode, cut >>

\* A function is called that reads on.
Enter(f) ==
  /\ stack' = Append(stack, f)
  /\ quoting' = FALSE
  /\ Take /\ UNCHANGED << mode, cut >>

\* The function of frame i returns to its caller; the frames above it are gone.
ReturnFrom(i) ==
  LET rest == SubSeq(stack, 1, i - 1) IN
  stack' = [rest EXCEPT ![i - 1] = Given(rest[i - 1], Build(stack[i]))]

Return ==
  /\ ReturnFrom(Len(stack))
  /\ Take /\ UNCHANGED << quoting, mode, cut >>

Stop(how) == mode' = how /\ Take /\ UNCHANGED << stack, quoting, cut >>

\* parseStatement and the loop of parseExpr
OpenStatement ==
  Is({"LPAREN"}) /\ ~quoting /\ WantsStatement /\ Enter(Frame("expr", "head"))

ReadStatement ==
  /\ Is(Statements) /\ ~quoting /\ WantsStatement /\ ~ValueThrows(token)
  /\ Continue(Given(Top, ParseStatement(token)))

ReadQuote ==
  /\ Is({"QUOTE"}) /\ ~quoting /\ WantsStatement
  /\ quoting' = TRUE
  /\ Take /\ UNCHANGED << stack, mode, cut >>

\* parseQuoted
QuoteLiteral ==
  /\ Is(QuotedTokens) /\ quoting /\ ~ValueThrows(token)
  /\ stack' = [stack EXCEPT ![Len(stack)] = Given(Top, ParseLiteral(token))]
  /\ quoting' = FALSE
  /\ Take /\ UNCHANGED << mode, cut >>

QuoteList == Is({"LPAREN"}) /\ quoting /\ Enter(Frame("list", "body"))

\* parseExpr: the first token tells which function reads the rest.
ReadHead ==
  /\ Is({"SYMBOL"}) /\ Top.stage = "head"
  /\ LET s == token.buf IN
     Continue(IF Len(s) = 1 /\ s[1] \in SpecialForms THEN Frame(s[1], Stage(s[1]))
              ELSE Given(Top, ParseValue(s)))

\* Mutant: the expression to apply is read in the frame of the application.
OpenHeadInPlace == Is({"LPAREN"}) /\ Top.stage = "head" /\ Continue(Top)

OpenHead == Is({"LPAREN"}) /\ Top.stage = "head" /\ Enter(Frame("expr", "head"))

\* expect<SYMBOL>
ReadName ==
  /\ Is({"SYMBOL"}) /\ Top.stage = "name"
  /\ Continue([Top EXCEPT !.name = token.buf,
                          !.stage = IF Top.form = "defn" THEN "open" ELSE "body"])

\* expect<LPAREN> before argument names and bindings.
OpenHeader ==
  /\ Is({"LPAREN"}) /\ Top.stage = "open"
  /\ Enter(Frame(IF Top.form \in {"let", "let-mut"} THEN "bindings" ELSE "args", "body"))

ReadArgument ==
  /\ Is({"SYMBOL"}) /\ InForm({"args"})
  /\ Continue([Top EXCEPT !.parts = Append(@, token.buf)])

OpenBinding == Is({"LPAREN"}) /\ InForm({"bindings"}) /\ Enter(Frame("binding", "name"))

OpenCase == Is({"LPAREN"}) /\ InForm({"cond"}) /\ Enter(Frame("case", "body"))

\* parseListLiteral
ReadElement ==
  /\ Is(QuotedTokens) /\ InForm({"list"}) /\ ~ValueThrows(token)
  /\ Continue(Given(Top, ParseLiteral(token)))

OpenElement == Is({"LPAREN"}) /\ InForm({"list"}) /\ Enter(Frame("list", "body"))

\* The dot of a pair, behind its first element.
ReadDot ==
  /\ Is({"DOT"}) /\ InForm({"list"}) /\ Len(Top.parts) = 1
  /\ Continue([Top EXCEPT !.form = "pair"])

\* front() of a vector that is empty.
DotFirst == Is({"DOT"}) /\ InForm({"list"}) /\ Top.parts = <<>> /\ Stop("undefined")

\* Mutant: no parenthesis is expected behind a pair.
SecondEnds ==
  /\ Is(QuotedTokens) /\ InForm({"pair"}) /\ Len(Top.parts) = 1 /\ ~ValueThrows(token)
  /\ stack' = [SubSeq(stack, 1, Len(stack) - 1) EXCEPT
                 ![Len(stack) - 1] = Given(@, Build(Given(Top, ParseLiteral(token))))]
  /\ Take /\ UNCHANGED << quoting, mode, cut >>

ReadSecond ==
  /\ Is(QuotedTokens) /\ InForm({"pair"}) /\ Len(Top.parts) = 1 /\ ~ValueThrows(token)
  /\ Continue(Given(Top, ParseLiteral(token)))

\* A parenthesis that ends the innermost form and is not an exception.
Complete ==
  \/ WantsParen
  \/ InForm({"apply", "list", "args", "bindings"})
  \/ InForm({"cond"}) /\ Top.parts # <<>>
  \/ InForm({"pair"}) /\ Len(Top.parts) = 2

CloseForm == Is({"RPAREN"}) /\ ~quoting /\ Complete /\ Return

\* Frames that catch UnexpectedClosingParen: if only for its third statement.
Catches(f) ==
  /\ f.stage = "body"
  /\ \/ f.form \in Lists
     \/ f.form = "if" /\ Len(f.parts) = 2

Catcher == Max({i \in DOMAIN stack : Catches(stack[i])})

\* parseStatement throws UnexpectedClosingParen; the forms between it and the one
\* that catches it are given up.  A parenthesis that parse catches ends the text.
\* An empty case of cond throws once more.
ThrowClosing ==
  /\ Is({"RPAREN"}) /\ ~quoting /\ WantsStatement /\ Top.form # "apply"
  /\ cut' = cut + (Len(stack) - Catcher)
  /\ IF Catcher = 1
     THEN mode' = "done" /\ stack' = << stack[1] >>
     ELSE IF stack[Catcher].form = "case" /\ stack[Catcher].parts = <<>>
     THEN mode' = "error" /\ UNCHANGED stack
     ELSE mode' = "read" /\ ReturnFrom(Catcher)
  /\ Take /\ UNCHANGED quoting

\* parseStatement throws UnexpectedEOF, and parse returns what is complete.
ThrowEOF ==
  /\ Is({"NONE"}) /\ ~quoting /\ WantsStatement /\ Top.form # "apply"
  /\ mode' = "done" /\ stack' = << stack[1] >>
  /\ Take /\ UNCHANGED << quoting, cut >>

\* What the innermost function can go on with.
Expected(t) ==
  IF quoting THEN t.tok \in QuotedTokens \union {"LPAREN"} /\ ~ValueThrows(t)
  ELSE
  \/ WantsStatement /\ t.tok \in Statements \union {"LPAREN", "QUOTE"} /\ ~ValueThrows(t)
  \/ WantsStatement /\ t.tok \in {"RPAREN", "NONE"} /\ Top.form # "apply"
  \/ Complete /\ t.tok = "RPAREN"
  \/ Top.stage = "head" /\ t.tok \in {"SYMBOL", "LPAREN"}
  \/ Top.stage = "name" /\ t.tok = "SYMBOL"
  \/ Top.stage = "open" /\ t.tok = "LPAREN"
  \/ InForm({"args"}) /\ t.tok = "SYMBOL"
  \/ InForm({"bindings", "cond"}) /\ t.tok = "LPAREN"
  \/ InForm({"list"}) /\ t.tok = "LPAREN"
  \/ InForm({"list"}) /\ t.tok \in QuotedTokens /\ ~ValueThrows(t)
  \/ InForm({"list"}) /\ t.tok = "DOT" /\ Len(Top.parts) < 2
  \/ InForm({"pair"}) /\ Len(Top.parts) = 1 /\ t.tok \in QuotedTokens /\ ~ValueThrows(t)

\* std::runtime_error, which nothing catches: lex or parse throws it.
ThrowError == mode = "read" /\ token # Pending /\ ~Expected(token) /\ Stop("error")

Parse ==
  \/ OpenStatement \/ ReadStatement \/ ReadQuote \/ QuoteLiteral \/ QuoteList
  \/ ReadHead \/ OpenHead \/ ReadName \/ OpenHeader \/ ReadArgument \/ OpenBinding
  \/ OpenCase \/ ReadElement \/ OpenElement \/ ReadDot \/ DotFirst \/ ReadSecond
  \/ CloseForm \/ ThrowClosing \/ ThrowEOF \/ ThrowError

Next == Receive \/ Parse

Spec == Init /\ [][Next]_pvars /\ WF_pvars(Parse)

-----------------------------------------------------------------------------
(* Properties *)

Count(tok) == Cardinality({i \in DOMAIN read : read[i].tok = tok})

\* How many of the parentheses read are still open; negative when there were more
\* closing ones.
Depth == Count("LPAREN") - Count("RPAREN")

\* A frame has one open parenthesis, parse has none, and the parentheses of forms
\* that were cut short are those of others by now.  The code has no such count: it
\* relies on each function to read as many closing parentheses as it was called
\* behind opening ones, and on the exceptions to make up for the rest.
Nesting ==
  /\ mode = "read" => Depth = Len(stack) - 1 + cut
  /\ mode = "done" /\ Last(read).tok = "RPAREN" => Depth = cut - 1

\* parse returns silently in the middle of a text, or without the forms it is in
\* (parser.cpp:589), only if the parentheses it has read do not match or an incomplete
\* form took the parenthesis of another.
NothingLost ==
  [][mode' = "done" /\ Depth' = 0 /\ cut' = 0 => token.tok = "NONE" /\ Len(stack) = 1]_pvars
=============================================================================
