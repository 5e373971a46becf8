------------------------------- MODULE Grammar -------------------------------
(***************************************************************************)
(* What a text says: its words, the data they form, parenthesis by         *)
(* parenthesis and before anything is known of forms, and the trees the    *)
(* data stand for.  A reference for the parser, which does all of this at  *)
(* once, without looking ahead and with exceptions for control.            *)
(***************************************************************************)
EXTENDS Parser

-----------------------------------------------------------------------------
(* Words *)

Marks == "(" :> "LPAREN" @@ "[" :> "LPAREN" @@ ")" :> "RPAREN" @@ "]" :> "RPAREN"
           @@ "'" :> "QUOTE"
Blanks == {" ", "\n", "\r"}
IsDigit(g) == g \in DOMAIN DigitValue
Escaped == "n" :> "\n" @@ "r" :> "\r" @@ "t" :> "\t" @@ "\"" :> "\"" @@ "\\" :> "\\"

\* The longest beginning of s without glyphs of G.
Before(s, G) ==
  SubSeq(s, 1, Min({i \in DOMAIN s : s[i] \in G} \union {Len(s) + 1}) - 1)
From(s, n) == SubSeq(s, n, Len(s))

Classify(w) ==
  LET dots == {i \in DOMAIN w : w[i] = "."} IN
  IF w = << "." >> THEN "DOT"
  ELSE IF ~IsDigit(w[1]) \/ \E i \in DOMAIN w : ~IsDigit(w[i]) /\ i \notin dots THEN "SYMBOL"
  ELSE CASE dots = {} -> "INTEGER"
         [] Cardinality(dots) = 1 -> "FLOAT"
         [] OTHER -> "SYMBOL"

\* A dot is a word of its own unless another follows.
WordAt(s) ==
  IF s[1] = "." /\ ~(Len(s) > 1 /\ s[2] = ".") THEN << "." >>
  ELSE Before(s, (DOMAIN Marks \ {"'"}) \union Blanks)

\* The contents of a string that begins s, as far as they go, and how many glyphs
\* of s they take, one more than there are if the string does not end.
RECURSIVE Contents(_, _)
Contents(s, n) ==
  CASE n > Len(s)  -> [buf |-> <<>>, len |-> n, ok |-> TRUE]
    [] s[n] = "\"" -> [buf |-> <<>>, len |-> n, ok |-> TRUE]
    [] s[n] = "\\" /\ n < Len(s) ->
         IF s[n + 1] \notin DOMAIN Escaped THEN [buf |-> <<>>, len |-> n, ok |-> FALSE]
         ELSE LET r == Contents(s, n + 2) IN [r EXCEPT !.buf = << Escaped[s[n + 1]] >> \o @]
    [] OTHER -> LET r == Contents(s, n + 1) IN [r EXCEPT !.buf = << s[n] >> \o @]

\* The tokens of a text; "UNFINISHED" for a string or comment the text ends in.
RECURSIVE TokensOf(_)
TokensOf(s) ==
  IF s = <<>> THEN <<>>
  ELSE CASE s[1] \in Blanks -> TokensOf(Tail(s))
         [] s[1] \in DOMAIN Marks -> << Token(Marks[s[1]], <<>>) >> \o TokensOf(Tail(s))
         [] s[1] = ";" ->
              LET line == Before(s, {"\n", "\r"}) IN
              IF line = s THEN << Token("UNFINISHED", <<>>) >> ELSE TokensOf(From(s, Len(line) + 1))
         [] s[1] = "\"" ->
              LET c == Contents(s, 2) IN
              IF ~c.ok THEN << Token("INVALID", <<>>) >>
              ELSE IF c.len > Len(s) THEN << Token("UNFINISHED", <<>>) >>
              ELSE << Token("STRING", c.buf) >> \o TokensOf(From(s, c.len + 1))
         [] s[1] = "\\" ->
              LET w == Before(Tail(s), (DOMAIN Marks \ {"'"}) \union Blanks) IN
              << Token("CHAR", w) >> \o TokensOf(From(s, Len(w) + 2))
         [] OTHER ->
              << Token(Classify(WordAt(s)), WordAt(s)) >> \o TokensOf(From(s, Len(WordAt(s)) + 1))

-----------------------------------------------------------------------------
(* Data: a word, a quoted datum, or a list of data *)

NoDatum == [d |-> "none"]

\* The data at the beginning of toks up to the first closing parenthesis that is not
\* theirs, and the tokens that follow them.
RECURSIVE DataOf(_)
DataOf(toks) ==
  IF toks = <<>> \/ toks[1].tok = "RPAREN" THEN [items |-> <<>>, rest |-> toks]
  ELSE LET inner == DataOf(Tail(toks)) IN
       CASE toks[1].tok = "LPAREN" ->
              IF inner.rest = <<>> THEN [items |-> << NoDatum >>, rest |-> <<>>]
              ELSE LET after == DataOf(Tail(inner.rest)) IN
                   [after EXCEPT !.items = << [d |-> "list", items |-> inner.items] >> \o @]
         [] toks[1].tok = "QUOTE" ->
              IF inner.items = <<>> THEN [inner EXCEPT !.items = << NoDatum >>]
              ELSE [inner EXCEPT !.items = << [d |-> "quote", of |-> Head(@)] >> \o Tail(@)]
         [] OTHER -> [inner EXCEPT !.items = << [d |-> "word", t |-> toks[1]] >> \o @]

-----------------------------------------------------------------------------
(* Trees *)

None == [k |-> "None"]
IsSymbol(d) == d.d = "word" /\ d.t.tok = "SYMBOL"
IsListOf(d, P(_)) == d.d = "list" /\ \A i \in DOMAIN d.items : P(d.items[i])
Bufs(items) == [i \in DOMAIN items |-> items[i].t.buf]

\* What may follow a quote.
RECURSIVE QuotedValue(_)
QuotedValue(d) ==
  CASE d.d = "word" /\ d.t.tok \in QuotedTokens /\ ~ValueThrows(d.t) -> ParseLiteral(d.t)
    [] d.d = "list" ->
         LET n     == Len(d.items)
             dots  == {i \in 1..n : d.items[i].d = "word" /\ d.items[i].t.tok = "DOT"}
             parts == [i \in (1..n) \ dots |-> QuotedValue(d.items[i])]
         IN  IF \E i \in DOMAIN parts : parts[i].k = "None" THEN None
             ELSE IF dots = {} THEN ListLit([i \in 1..n |-> parts[i].value])
             ELSE IF n = 3 /\ dots = {2} /\ d.items[3].d = "word"
             THEN PairLit(parts[1].value, parts[3].value) ELSE None
    [] OTHER -> None

\* The words of special forms.
Word(d) == IF IsSymbol(d) /\ Len(d.t.buf) = 1 THEN d.t.buf[1] ELSE "none"

Body(args, sts) ==
  IF Len(sts) >= 2 /\ sts[1].k = "Literal" /\ sts[1].value.kind = "str"
  THEN DocLambda(args, sts[1].value.s, Tail(sts)) ELSE Lambda(args, sts)

RECURSIVE Elaborate(_)

ElaborateAll(items) == [i \in DOMAIN items |-> Elaborate(items[i])]
AllFine(trees) == \A i \in DOMAIN trees : trees[i].k # "None"

\* A form, its parts p elaborated as expressions where they are such.
ElaborateForm(items, p) ==
  LET w    == Word(items[1])
      n    == Len(items)
      Fine(from) == AllFine(From(p, from))
      IsBinding(d) == d.d = "list" /\ Len(d.items) = 2 /\ IsSymbol(d.items[1])
                        /\ Elaborate(d.items[2]).k # "None"
      IsCase(d)    == d.d = "list" /\ d.items # <<>> /\ AllFine(ElaborateAll(d.items))
      binds == [i \in DOMAIN items[2].items |->
                  Binding(items[2].items[i].items[1].t.buf, Elaborate(items[2].items[i].items[2]))]
      cases == [i \in 1..n - 1 |->
                  LET c == ElaborateAll(items[i + 1].items) IN
                  Case(c[1], Tail(c))]
      name == items[2].t.buf
  IN  CASE w \in {"begin", "or", "and", "recur"} ->
             IF ~Fine(2) THEN None
             ELSE CASE w = "begin" -> Begin(Tail(p)) [] w = "or" -> Or(Tail(p))
                    [] w = "and" -> And(Tail(p)) [] OTHER -> Recur(Tail(p))
        [] w = "namespace" ->
             IF n < 2 \/ ~IsSymbol(items[2]) \/ ~Fine(3) THEN None ELSE Namespace(name, From(p, 3))
        [] w \in {"def", "def-mut", "set"} ->
             IF n # 3 \/ ~IsSymbol(items[2]) \/ ~Fine(3) THEN None
             ELSE CASE w = "def" -> Def(name, p[3]) [] w = "set" -> Set(name, p[3])
                    [] OTHER -> DefMut(name, p[3])
        [] w = "defn" ->
             IF n < 3 \/ ~IsSymbol(items[2]) \/ ~IsListOf(items[3], IsSymbol) \/ ~Fine(4) THEN None
             ELSE Def(name, Body(Bufs(items[3].items), From(p, 4)))
        [] w = "lambda" ->
             IF n < 2 \/ ~IsListOf(items[2], IsSymbol) \/ ~Fine(3) THEN None
             ELSE Body(Bufs(items[2].items), From(p, 3))
        [] w \in {"let", "let-mut"} ->
             IF n < 2 \/ ~IsListOf(items[2], IsBinding) \/ ~Fine(3) THEN None
             ELSE IF w = "let" THEN Let(binds, From(p, 3)) ELSE LetMut(binds, From(p, 3))
        [] w = "if" ->
             IF n \notin {3, 4} \/ ~Fine(2) THEN None
             ELSE If(p[2], p[3], IF n = 3 THEN NullLit ELSE p[4])
        [] w = "cond" ->
             IF n < 2 \/ \E i \in 2..n : ~IsCase(items[i]) THEN None ELSE Cond(cases)
        [] w = "delay" -> IF n # 2 \/ ~Fine(2) THEN None ELSE Delay(p[2])
        [] w = "stream-cons" -> IF n # 3 \/ ~Fine(2) THEN None ELSE StreamCons(p[2], p[3])
        [] OTHER ->
             IF Fine(1) /\ (IsSymbol(items[1]) \/ items[1].d = "list")
             THEN Application(p[1], Tail(p)) ELSE None

Elaborate(d) ==
  CASE d.d = "word" /\ d.t.tok \in Statements /\ ~ValueThrows(d.t) -> ParseStatement(d.t)
    [] d.d = "quote" -> QuotedValue(d.of)
    [] d.d = "list" /\ d.items # <<>> -> ElaborateForm(d.items, ElaborateAll(d.items))
    [] OTHER -> None

\* The statements of a text; ok if it is a sequence of statements, open if it ends in
\* a comment or a string.
ReadingOf(s) ==
  LET toks  == TokensOf(s)
      data  == DataOf(toks)
      trees == ElaborateAll(data.items)
  IN  [ok    |-> data.rest = <<>> /\ AllFine(trees),
       open  |-> toks # <<>> /\ Last(toks).tok = "UNFINISHED",
       trees |-> trees]
=============================================================================
