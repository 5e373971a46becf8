---------------------------- MODULE ParserProofs ----------------------------
(***************************************************************************)
(* What holds of parse for any sequence of tokens of any length: the       *)
(* parentheses read match the frames, and the end of parse in the middle   *)
(* of something is foretold by them.  And that parse with its lexer reads  *)
(* such a sequence, so that the same holds for any text.                   *)
(***************************************************************************)
EXTENDS Reader, FiniteSetTheorems, WellFoundedInduction, TLAPS

-----------------------------------------------------------------------------
(* The greatest of a set of numbers *)

\* The order of the naturals has no infinite descent.
LEMMA LessIsWellFounded ==
  IsWellFoundedOn({ss \in Nat \X Nat : ss[1] < ss[2]}, Nat)
BY NatLessThanWellFounded, Zenon DEF OpToRel

\* A set of naturals that is not empty has a least element.
LEMMA LeastExists ==
  ASSUME NEW T \in SUBSET Nat, T # {}
  PROVE  \E x \in T : \A y \in T : x <= y
<1> DEFINE R == {ss \in Nat \X Nat : ss[1] < ss[2]}
<1>1. \E x \in T : \A y \in T : << y, x >> \notin R
  BY LessIsWellFounded, WFMin, Zenon
<1>2. ASSUME NEW x \in T, NEW y \in T, << y, x >> \notin R  PROVE x <= y
  BY <1>2
<1> QED  BY <1>1, <1>2, Zenon

\* Max of numbers below a bound is one of them and none is greater.
LEMMA MaxIsGreatest ==
  ASSUME NEW n \in Nat, NEW S \in SUBSET 1..n, S # {}
  PROVE  Max(S) \in S /\ \A y \in S : y <= Max(S)
<1> DEFINE T == {n - x : x \in S}
<1>0. T \in SUBSET Nat /\ T # {}
  <2>1. \A x \in S : n - x \in Nat
    OBVIOUS
  <2> QED  BY <2>1
<1>1. PICK z \in T : \A y \in T : z <= y
  BY <1>0, LeastExists, Zenon
<1>2. \A y \in S : y <= n - z
  BY <1>1
<1>3. n - z \in S
  BY <1>1
<1>4. \E x \in S : \A y \in S : x >= y
  BY <1>2, <1>3
<1> QED  BY <1>4 DEF Max
-----------------------------------------------------------------------------
(* Sequences of anything *)

IsSeq(s) == s \in Seq({s[i] : i \in DOMAIN s})

\* What is a sequence of elements of some set is a sequence.
LEMMA SeqIsSeq ==
  ASSUME NEW S, NEW s \in Seq(S)
  PROVE  IsSeq(s)
BY DEF IsSeq

\* The indices of a sequence.
LEMMA SeqDomain ==
  ASSUME NEW s, IsSeq(s)
  PROVE  Len(s) \in Nat /\ DOMAIN s = 1..Len(s)
BY DEF IsSeq

\* One more frame, or token, behind those that stay.
LEMMA AppendIsSeq ==
  ASSUME NEW s, IsSeq(s), NEW e
  PROVE  /\ IsSeq(Append(s, e))
         /\ Len(Append(s, e)) = Len(s) + 1
         /\ \A i \in DOMAIN s : Append(s, e)[i] = s[i]
         /\ Append(s, e)[Len(s) + 1] = e
         /\ Len(s) \in Nat /\ DOMAIN s = 1..Len(s)
<1> DEFINE S == {s[i] : i \in DOMAIN s} \union {e}
<1>1. s \in Seq(S) /\ e \in S
  BY DEF IsSeq
<1> HIDE DEF S
<1>2. Append(s, e) \in Seq(S)
  BY <1>1
<1>3. IsSeq(Append(s, e))
  BY <1>2, SeqIsSeq
<1> QED  BY <1>1, <1>3

\* One frame replaced.
LEMMA ExceptIsSeq ==
  ASSUME NEW s, IsSeq(s), NEW i \in 1..Len(s), NEW e
  PROVE  /\ IsSeq([s EXCEPT ![i] = e])
         /\ Len([s EXCEPT ![i] = e]) = Len(s)
         /\ \A j \in DOMAIN s : [s EXCEPT ![i] = e][j] = IF j = i THEN e ELSE s[j]
<1> DEFINE S == {s[j] : j \in DOMAIN s} \union {e}
<1>1. s \in Seq(S) /\ e \in S
  BY DEF IsSeq
<1> HIDE DEF S
<1>2. [s EXCEPT ![i] = e] \in Seq(S)
  BY <1>1
<1>3. IsSeq([s EXCEPT ![i] = e])
  BY <1>2, SeqIsSeq
<1> QED  BY <1>1, <1>3

\* The frames below one that is left.
LEMMA PrefixIsSeq ==
  ASSUME NEW s, IsSeq(s), NEW n \in 0..Len(s)
  PROVE  /\ IsSeq(SubSeq(s, 1, n))
         /\ Len(SubSeq(s, 1, n)) = n
         /\ \A j \in 1..n : SubSeq(s, 1, n)[j] = s[j]
<1> DEFINE S == {s[j] : j \in DOMAIN s}
<1>1. s \in Seq(S)
  BY DEF IsSeq
<1> HIDE DEF S
<1>2. SubSeq(s, 1, n) \in Seq(S)
  BY <1>1
<1>3. IsSeq(SubSeq(s, 1, n))
  BY <1>2, SeqIsSeq
<1> QED  BY <1>1, <1>3

-----------------------------------------------------------------------------
(* Counting tokens *)

CountIn(s, tok) == Cardinality({i \in DOMAIN s : s[i].tok = tok})

\* One more token counts for one of its kind and for no other.
LEMMA CountAppend ==
  ASSUME NEW s, IsSeq(s), NEW t, NEW tok
  PROVE  /\ CountIn(s, tok) \in Nat
         /\ CountIn(Append(s, t), tok) = CountIn(s, tok) + (IF t.tok = tok THEN 1 ELSE 0)
<1> DEFINE A == {i \in DOMAIN s : s[i].tok = tok}
           B == {i \in DOMAIN Append(s, t) : Append(s, t)[i].tok = tok}
           n == Len(s) + 1
<1>1. /\ Len(s) \in Nat /\ DOMAIN s = 1..Len(s) /\ DOMAIN Append(s, t) = 1..n
      /\ \A i \in 1..Len(s) : Append(s, t)[i] = s[i]
      /\ Append(s, t)[n] = t
  BY AppendIsSeq DEF IsSeq
<1>2. IsFiniteSet(A)
  <2>1. IsFiniteSet(1..Len(s))
    BY <1>1, FS_Interval
  <2>2. A \in SUBSET (1..Len(s))
    BY <1>1
  <2> QED  BY <2>1, <2>2, FS_Subset
<1>3. Cardinality(A) \in Nat
  BY <1>2, FS_CardinalityType
<1>4. n \notin A
  BY <1>1
<1>5. B = IF t.tok = tok THEN A \union {n} ELSE A
  BY <1>1
<1>6. Cardinality(A \union {n}) = Cardinality(A) + 1
  BY <1>2, <1>4, FS_AddElement
<1>7. CountIn(s, tok) = Cardinality(A) /\ CountIn(Append(s, t), tok) = Cardinality(B)
  BY DEF CountIn
<1> HIDE DEF A, B
<1> QED  BY <1>3, <1>5, <1>6, <1>7

-----------------------------------------------------------------------------
(* The invariant *)

IsTop(f) ==
  /\ "form" \in DOMAIN f /\ "stage" \in DOMAIN f
  /\ f.form = "top" /\ f.stage = "body"

\* There is always the frame of parse itself, which catches every parenthesis, and
\* what follows a quote is read in the innermost frame.
Framed ==
  /\ IsSeq(stack) /\ Len(stack) >= 1
  /\ IsTop(stack[1])

Counted == IsSeq(read) /\ cut \in Int

\* Depth, with the tokens an argument.
DepthOf(s) == CountIn(s, "LPAREN") - CountIn(s, "RPAREN")

Inv == Framed /\ Counted /\ Nesting

\* What one more token does to the count of open parentheses.
LEMMA DepthAppend ==
  ASSUME NEW s, IsSeq(s), NEW t
  PROVE  /\ DepthOf(s) \in Int
         /\ DepthOf(Append(s, t)) = CASE t.tok = "LPAREN" -> DepthOf(s) + 1
                                      [] t.tok = "RPAREN" -> DepthOf(s) - 1
                                      [] OTHER -> DepthOf(s)
         /\ IsSeq(Append(s, t)) /\ Last(Append(s, t)) = t
<1>1. /\ CountIn(s, "LPAREN") \in Nat /\ CountIn(s, "RPAREN") \in Nat
      /\ CountIn(Append(s, t), "LPAREN")
           = CountIn(s, "LPAREN") + (IF t.tok = "LPAREN" THEN 1 ELSE 0)
      /\ CountIn(Append(s, t), "RPAREN")
           = CountIn(s, "RPAREN") + (IF t.tok = "RPAREN" THEN 1 ELSE 0)
  BY CountAppend, Zenon
<1>2. IsSeq(Append(s, t)) /\ Last(Append(s, t)) = t
  BY AppendIsSeq DEF Last
<1> QED  BY <1>1, <1>2 DEF DepthOf

\* The count, of the tokens read so far.
LEMMA DepthIs == Depth = DepthOf(read)
BY Zenon DEF Depth, Count, DepthOf, CountIn

\* The same after a step.
LEMMA DepthIsNext == Depth' = DepthOf(read')
BY Zenon DEF Depth, Count, DepthOf, CountIn

\* What taking the token does to the count.
LEMMA TakeCounts ==
  ASSUME Counted, Take
  PROVE  /\ Depth \in Int
         /\ Depth' = CASE token.tok = "LPAREN" -> Depth + 1
                       [] token.tok = "RPAREN" -> Depth - 1
                       [] OTHER -> Depth
         /\ IsSeq(read') /\ Last(read') = token
BY DepthIs, DepthIsNext, DepthAppend, Zenon DEF Counted, Take

\* A frame that gets one more tree is the frame of the same form.
LEMMA GivenKeeps ==
  ASSUME NEW f, NEW tree, IsTop(f)
  PROVE  IsTop(Given(f, tree))
BY DEF Given, IsTop

\* A frame that is not that of parse itself has one below it.
LEMMA TopIs ==
  ASSUME Framed, ~IsTop(Top)
  PROVE  Len(stack) > 1
BY DEF Framed, Top

\* The innermost frame goes on, as itself with one tree more or as another form.
LEMMA ContinueKeeps ==
  ASSUME Inv, mode = "read", NEW f, IsTop(Top) => IsTop(f),
         stack' = [stack EXCEPT ![Len(stack)] = f],
         Take, token.tok \notin {"LPAREN", "RPAREN"}, UNCHANGED << mode, cut >>
  PROVE  Inv'
<1> USE DEF Inv
<1>0. IsSeq(stack) /\ Len(stack) \in 1..Len(stack) /\ DOMAIN stack = 1..Len(stack)
  BY SeqDomain DEF Framed
<1>3. /\ IsSeq(stack') /\ Len(stack') = Len(stack)
      /\ \A j \in DOMAIN stack : stack'[j] = IF j = Len(stack) THEN f ELSE stack[j]
  BY <1>0, ExceptIsSeq, Zenon
<1>1. Framed'
  BY <1>0, <1>3 DEF Framed, Top
<1>2. Counted' /\ Depth' = Depth
  BY TakeCounts DEF Counted
<1> QED  BY <1>1, <1>2, <1>3 DEF Nesting

\* A function is called behind a parenthesis.
LEMMA EnterKeeps ==
  ASSUME Inv, mode = "read", NEW f, Enter(f), token.tok = "LPAREN"
  PROVE  Inv'
<1> USE DEF Inv, Enter
<1>1. Framed' /\ Len(stack') = Len(stack) + 1
  BY AppendIsSeq DEF Framed, IsSeq
<1>2. Counted' /\ Depth' = Depth + 1 /\ Depth \in Int
  BY TakeCounts DEF Counted
<1> QED  BY <1>1, <1>2 DEF Nesting, Counted

\* The function of frame i returns.
LEMMA ReturnShrinks ==
  ASSUME Framed, NEW i \in 2..Len(stack), ReturnFrom(i)
  PROVE  Framed' /\ Len(stack') = i - 1
<1> DEFINE rest == SubSeq(stack, 1, i - 1)
           g    == Given(rest[i - 1], Build(stack[i]))
<1>0. IsSeq(stack) /\ Len(stack) \in Nat /\ i - 1 \in 0..Len(stack)
  BY SeqDomain DEF Framed
<1>1. IsSeq(rest) /\ Len(rest) = i - 1 /\ \A j \in 1..i - 1 : rest[j] = stack[j]
  BY <1>0, PrefixIsSeq, Zenon
<1>2. stack' = [rest EXCEPT ![i - 1] = g]
  BY DEF ReturnFrom
<1>3. i = 2 => IsTop(g)
  BY <1>0, <1>1, GivenKeeps DEF Framed
<1> HIDE DEF rest, g
<1>4. i - 1 \in 1..Len(rest) /\ 1 \in DOMAIN rest
  BY <1>0, <1>1, SeqDomain
<1>5. /\ IsSeq(stack') /\ Len(stack') = Len(rest)
      /\ \A j \in DOMAIN rest : stack'[j] = IF j = i - 1 THEN g ELSE rest[j]
  <2>1. \A k \in 1..Len(rest) :
          /\ IsSeq([rest EXCEPT ![k] = g]) /\ Len([rest EXCEPT ![k] = g]) = Len(rest)
          /\ \A j \in DOMAIN rest : [rest EXCEPT ![k] = g][j] = IF j = k THEN g ELSE rest[j]
    BY <1>1, ExceptIsSeq, Zenon
  <2> QED  BY <1>2, <1>4, <2>1, Zenon
<1>6. IsTop(stack'[1])
  BY <1>0, <1>1, <1>3, <1>4, <1>5 DEF Framed
<1> QED  BY <1>1, <1>4, <1>5, <1>6 DEF Framed

-----------------------------------------------------------------------------
(* Every step keeps the invariant *)

\* Some frame catches the exception of a closing parenthesis: that of parse, if no other.
LEMMA CatcherIs ==
  ASSUME Framed
  PROVE  /\ Catcher \in 1..Len(stack)
         /\ Catches(stack[Catcher])
<1>1. Len(stack) \in Nat /\ DOMAIN stack = 1..Len(stack)
  BY SeqDomain DEF Framed
<1> DEFINE S == {i \in DOMAIN stack : Catches(stack[i])}
<1>2. S \in SUBSET (1..Len(stack)) /\ S # {}
  <2>1. 1 \in S
    BY <1>1 DEF Framed, IsTop, Catches, Lists
  <2> QED  BY <1>1, <2>1
<1>3. Max(S) \in S
  BY <1>1, <1>2, MaxIsGreatest, Zenon
<1> QED  BY <1>2, <1>3, Zenon DEF Catcher

\* parse begins with its own frame and no token.
LEMMA InitHolds == Init => Inv
<1> SUFFICES ASSUME Init PROVE Inv
  OBVIOUS
<1>1. stack = << Frame("top", "body") >> /\ read = <<>> /\ cut = 0 /\ mode = "read"
  BY DEF Init
<1>2. IsTop(Frame("top", "body"))
  BY DEF IsTop, Frame
<1>3. Framed
  BY <1>1, <1>2 DEF Framed, IsSeq
<1>4. IsSeq(read)
  BY <1>1 DEF IsSeq
<1>5. Depth = 0
  <2>1. \A tok : {i \in DOMAIN read : read[i].tok = tok} = {}
    BY <1>1
  <2>2. \A tok : Count(tok) = 0
    BY <2>1, FS_EmptySet, Zenon DEF Count
  <2> QED  BY <2>2 DEF Depth
<1> QED  BY <1>1, <1>3, <1>4, <1>5 DEF Inv, Counted, Nesting

\* A step of parse that takes a token and does not end.
LEMMA ContinueActions ==
  ASSUME Inv,
         \/ ReadStatement \/ QuoteLiteral \/ ReadHead \/ ReadName \/ ReadArgument
         \/ ReadElement \/ ReadDot \/ ReadSecond
  PROVE  Inv'
<1> USE DEF Is, Continue, IsTop
<1>1. CASE ReadStatement
  <2>1. IsTop(Top) => IsTop(Given(Top, ParseStatement(token)))
    BY GivenKeeps
  <2> QED  BY <1>1, <2>1, ContinueKeeps DEF ReadStatement, Statements
<1>2. CASE QuoteLiteral
  <2>1. IsTop(Top) => IsTop(Given(Top, ParseLiteral(token)))
    BY GivenKeeps
  <2> QED  BY <1>2, <2>1, ContinueKeeps DEF QuoteLiteral, QuotedTokens
<1>3. CASE ReadHead
  BY <1>3, ContinueKeeps DEF ReadHead
<1>4. CASE ReadName
  BY <1>4, ContinueKeeps DEF ReadName
<1>5. CASE ReadArgument
  BY <1>5, ContinueKeeps DEF ReadArgument, InForm
<1>6. CASE ReadElement
  BY <1>6, ContinueKeeps DEF ReadElement, InForm, QuotedTokens
<1>7. CASE ReadDot
  BY <1>7, ContinueKeeps DEF ReadDot, InForm
<1>8. CASE ReadSecond
  BY <1>8, ContinueKeeps DEF ReadSecond, InForm, QuotedTokens
<1> QED  BY <1>1, <1>2, <1>3, <1>4, <1>5, <1>6, <1>7, <1>8

\* An opening parenthesis, or a quote, that begins a form.
LEMMA EnterActions ==
  ASSUME Inv,
         \/ OpenStatement \/ QuoteList \/ OpenHead \/ OpenHeader \/ OpenBinding
         \/ OpenCase \/ OpenElement
  PROVE  Inv'
BY EnterKeeps, Zenon
   DEF Is, OpenStatement, QuoteList, OpenHead, OpenHeader, OpenBinding, OpenCase, OpenElement

\* The closing parenthesis of a form that is complete.
LEMMA CloseActions ==
  ASSUME Inv, CloseForm
  PROVE  Inv'
<1>1. ~IsTop(Top)
  BY DEF CloseForm, Complete, WantsParen, InForm, IsTop, Arity
<1>2. Len(stack) \in 2..Len(stack)
  BY <1>1, TopIs, SeqDomain DEF Inv, Framed
<1>3. Framed' /\ Len(stack') = Len(stack) - 1
  BY <1>2, ReturnShrinks DEF Inv, CloseForm, Return
<1>4. Counted' /\ Depth' = Depth - 1 /\ Depth \in Int
  BY TakeCounts DEF Inv, Counted, CloseForm, Return, Is
<1> QED  BY <1>2, <1>3, <1>4 DEF Inv, Counted, Nesting, CloseForm, Return, Is

\* A closing parenthesis where a statement should be.
LEMMA ClosingActions ==
  ASSUME Inv, ThrowClosing
  PROVE  Inv' /\ (mode' = "done" => Depth' = cut' - 1)
<1>1. Catcher \in 1..Len(stack) /\ Len(stack) \in Nat
  BY CatcherIs, SeqDomain DEF Inv, Framed
<1>2. Counted' /\ Depth' = Depth - 1 /\ Depth \in Int /\ Last(read') = token
  BY <1>1, TakeCounts DEF Inv, Counted, ThrowClosing, Is
<1>3. Depth = Len(stack) - 1 + cut /\ cut' = cut + (Len(stack) - Catcher) /\ cut \in Int
  BY DEF Inv, Counted, Nesting, ThrowClosing, Is
<1>4. CASE Catcher = 1
  <2>1. mode' = "done" /\ stack' = << stack[1] >>
    BY <1>4 DEF ThrowClosing
  <2>2. Framed'
    BY <2>1 DEF Inv, Framed, IsSeq
  <2>3. Depth' = cut' - 1
    BY <1>1, <1>2, <1>3, <1>4
  <2> QED  BY <1>2, <2>1, <2>2, <2>3 DEF Inv, Nesting
<1>5. CASE Catcher # 1 /\ mode' = "error"
  BY <1>2, <1>5 DEF Inv, Nesting, ThrowClosing, Framed
<1>6. CASE Catcher # 1 /\ mode' = "read" /\ ReturnFrom(Catcher)
  <2>1. Framed' /\ Len(stack') = Catcher - 1
    BY <1>1, <1>6, ReturnShrinks DEF Inv
  <2> QED  BY <1>1, <1>2, <1>3, <1>6, <2>1 DEF Inv, Nesting
<1> QED  BY <1>4, <1>5, <1>6 DEF ThrowClosing

\* The end of the text.
LEMMA EOFActions ==
  ASSUME Inv, ThrowEOF
  PROVE  Inv' /\ Depth' = Depth
<1>1. Counted' /\ Depth' = Depth /\ Last(read') = token
  BY TakeCounts DEF Inv, Counted, ThrowEOF, Is
<1>2. Framed'
  BY DEF Inv, Framed, IsSeq, ThrowEOF
<1> QED  BY <1>1, <1>2 DEF Inv, Nesting, ThrowEOF, Is

\* Steps that change no frame: a token comes, a quote is read, parse throws.
LEMMA OtherActions ==
  ASSUME Inv, Receive \/ ReadQuote \/ DotFirst \/ ThrowError \/ UNCHANGED pvars
  PROVE  Inv' /\ (mode' = "done" => mode = "done")
<1>1. CASE Receive \/ UNCHANGED pvars
  <2>1. UNCHANGED << stack, mode, read, cut >>
    BY <1>1 DEF Receive, pvars, parser
  <2>2. Depth' = Depth
    BY <2>1 DEF Depth, Count
  <2> QED  BY <2>1, <2>2 DEF Inv, Framed, Counted, Nesting
<1>2. CASE ReadQuote
  <2>1. Take /\ UNCHANGED << stack, mode, cut >> /\ mode = "read" /\ token.tok = "QUOTE"
    BY <1>2 DEF ReadQuote, Is
  <2>2. Counted' /\ Depth' = Depth
    BY <2>1, TakeCounts DEF Inv, Counted
  <2> QED  BY <2>1, <2>2 DEF Inv, Framed, Nesting
<1>3. CASE DotFirst \/ ThrowError
  <2>1. Take /\ UNCHANGED << stack, cut >> /\ mode' \in {"error", "undefined"}
    BY <1>3 DEF DotFirst, ThrowError, Stop
  <2>2. Counted'
    BY <2>1, TakeCounts DEF Inv, Counted
  <2> QED  BY <2>1, <2>2 DEF Inv, Framed, Nesting
<1> QED  BY <1>1, <1>2, <1>3

\* The invariant is inductive.
LEMMA NextKeeps == Inv /\ [Next]_pvars => Inv'
BY ContinueActions, EnterActions, CloseActions, ClosingActions, EOFActions, OtherActions,
   Zenon DEF Next, Parse

\* Where parse returns in silence.
Silent == mode' = "done" /\ Depth' = 0 /\ cut' = 0
Whole  == token.tok = "NONE" /\ Len(stack) = 1

\* It does so at the end of the text, and between statements.
LEMMA SilentStep == Inv /\ [Next]_pvars => [Silent => Whole]_pvars
<1> SUFFICES ASSUME Inv, Next, Silent, ~(UNCHANGED pvars)  PROVE Whole
  BY Zenon
<1>1. CASE ThrowClosing
  BY <1>1, ClosingActions DEF Silent, Whole
<1>2. CASE ThrowEOF
  <2>1. Depth = Len(stack) - 1 + cut /\ cut' = cut /\ token.tok = "NONE"
    BY <1>2 DEF Inv, Nesting, ThrowEOF, Is
  <2>2. Depth = 0 /\ cut' = 0
    BY <1>2, EOFActions DEF Silent
  <2>3. Len(stack) \in Nat
    BY SeqDomain DEF Inv, Framed
  <2>4. Len(stack) = 1
    BY <2>1, <2>2, <2>3
  <2> QED  BY <2>1, <2>4 DEF Whole
<1>3. CASE ~ThrowClosing /\ ~ThrowEOF
  <2>1. mode = "read"
    BY <1>3 DEF Next, Parse, Receive, ThrowError, Is, OpenStatement, ReadStatement, ReadQuote,
       QuoteLiteral, QuoteList, ReadHead, OpenHead, ReadName, OpenHeader, ReadArgument,
       OpenBinding, OpenCase, ReadElement, OpenElement, ReadDot, DotFirst, ReadSecond, CloseForm
  <2>2. mode' # "done"
    BY <1>3, <2>1 DEF Next, Parse, Receive, ThrowError, OpenStatement, ReadStatement, ReadQuote,
       QuoteLiteral, QuoteList, ReadHead, OpenHead, ReadName, OpenHeader, ReadArgument,
       OpenBinding, OpenCase, ReadElement, OpenElement, ReadDot, DotFirst, ReadSecond, CloseForm,
       Continue, Enter, Return, Stop, parser
  <2> QED  BY <2>2 DEF Silent
<1> QED  BY <1>1, <1>2, <1>3

-----------------------------------------------------------------------------
(* Theorems *)

\* At every token parse has as many frames as there are open parentheses, but for those
\* that a closing parenthesis cut short.
THEOREM ParenthesesNest == Spec => []Nesting
<1>1. Inv => Nesting
  BY DEF Inv
<1> QED  BY <1>1, InitHolds, NextKeeps, PTL DEF Spec

\* When the parentheses match and none was taken by another form than its own, parse
\* returns only at the end of the text and between statements.
THEOREM NothingIsLost == Spec => NothingLost
<1>1. Inv /\ [Next]_pvars => [Silent => Whole]_pvars
  BY SilentStep
<1> QED  BY <1>1, InitHolds, NextKeeps, PTL DEF Spec, NothingLost, Silent, Whole

-----------------------------------------------------------------------------
(* The parser with the lexer in the place of any tokens *)

\* The lexer's variables; it has passed a glyph for each token that was read, the
\* end of the text excepted, behind which parse reads nothing.
LexInv ==
  /\ text \in Texts /\ position \in 1..Len(text) + 2
  /\ inputBuffer \in Seq(Alphabet) /\ inString \in BOOLEAN
  /\ token \in AnyToken \union {Pending} /\ read \in Seq(AnyToken)
  /\ mode = "read" =>
       Len(read) + (IF token = Pending \/ token.tok = "NONE" THEN 0 ELSE 1) < position

\* The least of a set of numbers.
LEMMA MinIsLeast ==
  ASSUME NEW S \in SUBSET Nat, S # {}
  PROVE  L!Min(S) \in S
<1>1. \E x \in S : \A y \in S : x <= y
  BY LeastExists
<1> QED  BY <1>1 DEF L!Min

\* A word is of glyphs, and ends behind the glyph it begins with.
LEMMA WordIs ==
  ASSUME text \in Seq(Alphabet), NEW p \in 1..Len(text) + 1
  PROVE  /\ L!WordEnd(p) \in p..Len(text) + 1
         /\ L!Word(p) \in Seq(Alphabet)
         /\ p <= Len(text) /\ ~L!Terminates(text[p]) => L!WordEnd(p) > p
<1> DEFINE S == {q \in p..Len(text) : L!Terminates(text[q])} \union {Len(text) + 1}
<1>1. L!WordEnd(p) = L!Min(S)
  BY DEF L!WordEnd
<1>2. Len(text) \in Nat /\ S \in SUBSET Nat /\ S # {} /\ S \subseteq p..Len(text) + 1
  OBVIOUS
<1>3. L!WordEnd(p) \in S
  BY <1>1, <1>2, MinIsLeast
<1>4. L!WordEnd(p) \in p..Len(text) + 1
  BY <1>2, <1>3
<1>5. p <= Len(text) /\ ~L!Terminates(text[p]) => L!WordEnd(p) # p
  BY <1>2, <1>3
<1>6. PICK e : e = L!WordEnd(p) - 1
  OBVIOUS
<1>7. e \in Int /\ e <= Len(text) /\ L!Word(p) = SubSeq(text, p, e)
  BY <1>2, <1>4, <1>6 DEF L!Word
<1>8. SubSeq(text, p, e) \in Seq(Alphabet)
  BY <1>2, <1>7
<1> QED  BY <1>2, <1>4, <1>5, <1>7, <1>8

\* What a step of lex returns, and where it is then.
Returned(t, p) ==
  /\ token' = t /\ t \in AnyToken /\ position' = p /\ inString' = FALSE
  /\ p \in 1..Len(text) + 2 /\ p >= position /\ (t.tok # "NONE" => p > position)

Skipped(p) ==
  /\ token' = Pending /\ position' = p /\ inString' \in BOOLEAN
  /\ p \in 1..Len(text) + 2 /\ p >= position

\* The glyph at the position.
LEMMA AtGlyph ==
  ASSUME LexInv, L!Lexing \/ L!InString, ~L!AtEnd
  PROVE  /\ token = Pending /\ text \in Seq(Alphabet) /\ Len(text) \in Nat
         /\ position \in 1..Len(text) /\ text[position] \in Alphabet
         /\ position + 1 \in position..Len(text) + 2 /\ position + 1 > position
         /\ position + 1 \in 1..Len(text) + 1
<1>1. token = Pending
  BY DEF L!Lexing, L!InString, L!Pending, L!Token, Pending, Token
<1>2. text \in Seq(Alphabet) /\ position \in 1..Len(text) + 2
  BY TextsAssumption DEF LexInv
<1>3. Len(text) \in Nat /\ position \in 1..Len(text)
  BY <1>2 DEF L!AtEnd
<1> QED  BY <1>1, <1>2, <1>3

\* A step of lex returns a token and has passed a glyph, or has come to the end; or
\* it goes on.
Lexed ==
  /\ token = Pending /\ text' = text /\ inputBuffer' \in Seq(Alphabet)
  /\ (\E t, p : Returned(t, p)) \/ (\E p : Skipped(p))

\* lex returns a token without text, and has passed it or is at the end.
LEMMA MarkReturned ==
  ASSUME LexInv, token = Pending, NEW tok \in TokenKinds,
         NEW p, p \in position..Len(text) + 2, tok # "NONE" => p > position,
         L!ReturnMark(tok, p)
  PROVE  Lexed
<1>1. Returned([tok |-> tok, buf |-> <<>>], p)
  BY TextsAssumption
  DEF LexInv, L!ReturnMark, L!Return, L!Token, Returned, AnyToken, TokenKinds, Pending, Token
<1> QED  BY <1>1 DEF Lexed, LexInv, L!ReturnMark, L!Return

\* lex returns a token with its text.
LEMMA BufferReturned ==
  ASSUME LexInv, token = Pending, NEW tok \in TokenKinds \ {"NONE"},
         NEW b \in Seq(Alphabet), NEW p, p \in position + 1..Len(text) + 2,
         L!ReturnBuffer(tok, b, p)
  PROVE  Lexed
<1>1. Returned([tok |-> tok, buf |-> b], p)
  BY TextsAssumption
  DEF LexInv, L!ReturnBuffer, L!Return, L!Token, Returned, AnyToken, TokenKinds, Pending, Token
<1> QED  BY <1>1 DEF Lexed, L!ReturnBuffer, L!Return

\* A token of one glyph.
LEMMA MarkLexed ==
  ASSUME LexInv, L!LexParen \/ L!LexQuote \/ L!CommentAtEnd
  PROVE  Lexed
<1>1. L!Lexing /\ ~L!AtEnd
  BY DEF L!LexParen, L!LexQuote, L!CommentAtEnd, L!At
<1>2. ASSUME NEW tok \in {"LPAREN", "RPAREN", "QUOTE"}, L!ReturnMark(tok, position + 1)
      PROVE  Lexed
  <2>1. PICK p : p = position + 1
    OBVIOUS
  <2>2. token = Pending /\ p \in position..Len(text) + 2 /\ p > position
    BY <1>1, <2>1, AtGlyph
  <2>3. tok \in TokenKinds /\ L!ReturnMark(tok, p)
    BY <1>2, <2>1 DEF TokenKinds
  <2> QED  BY <2>2, <2>3, MarkReturned
<1>3. CASE L!LexParen \/ L!LexQuote
  BY <1>2, <1>3 DEF L!LexParen, L!LexQuote
<1>4. CASE L!CommentAtEnd
  <2>1. PICK p : p = Len(text) + 2
    OBVIOUS
  <2>2. token = Pending /\ p \in position..Len(text) + 2 /\ p > position
    BY <1>1, <2>1, AtGlyph
  <2>3. L!ReturnMark("DOT", p) /\ "DOT" \in TokenKinds
    BY <1>4, <2>1 DEF L!CommentAtEnd, TokenKinds
  <2> QED  BY <2>2, <2>3, MarkReturned
<1> QED  BY <1>3, <1>4

\* A word that begins with the glyph at the position.
LEMMA WordLexed ==
  ASSUME LexInv, L!Lexing, ~L!AtEnd, ~L!Terminates(text[position]),
         NEW tok \in {"SYMBOL", "INTEGER", "FLOAT"},
         L!ReturnBuffer(tok, L!Word(position), L!WordEnd(position))
  PROVE  Lexed
<1>1. PICK b, p, q : b = L!Word(q) /\ p = L!WordEnd(q) /\ q = position
  OBVIOUS
<1>2. /\ token = Pending /\ q \in 1..Len(text) + 1 /\ q <= Len(text)
      /\ text \in Seq(Alphabet) /\ Len(text) \in Nat /\ ~L!Terminates(text[q])
  BY <1>1, AtGlyph
<1>3. b \in Seq(Alphabet) /\ p \in q + 1..Len(text) + 2
  BY <1>1, <1>2, WordIs
<1>4. tok \in TokenKinds \ {"NONE"} /\ L!ReturnBuffer(tok, b, p)
  BY <1>1 DEF TokenKinds
<1> QED  BY <1>1, <1>2, <1>3, <1>4, BufferReturned

\* A token of several glyphs.
LEMMA WordsLexed ==
  ASSUME LexInv, L!LexDot \/ L!LexNumber \/ L!LexSymbol \/ L!LexCharacter
  PROVE  Lexed
<1>1. L!Lexing /\ ~L!AtEnd
  BY DEF L!LexDot, L!LexNumber, L!LexSymbol, L!LexCharacter, L!At
<1>2. CASE L!LexDot
  <2>1. ~L!Terminates(text[position])
    BY <1>2 DEF L!LexDot, L!At, L!Current, L!Terminates, L!Opening, L!Closing, L!Blank
  <2>2. CASE L!ReturnBuffer("SYMBOL", L!Word(position), L!WordEnd(position))
    BY <1>1, <2>1, <2>2, WordLexed
  <2>3. CASE L!ReturnMark("DOT", position + 1)
    <3>1. PICK p : p = position + 1
      OBVIOUS
    <3>2. token = Pending /\ p \in position..Len(text) + 2 /\ p > position
      BY <1>1, <3>1, AtGlyph
    <3>3. "DOT" \in TokenKinds /\ L!ReturnMark("DOT", p)
      BY <2>3, <3>1 DEF TokenKinds
    <3> QED  BY <3>2, <3>3, MarkReturned
  <2> QED  BY <1>2, <2>2, <2>3 DEF L!LexDot
<1>3. CASE L!LexNumber
  <2>1. ~L!Terminates(text[position])
    BY <1>3
    DEF L!LexNumber, L!At, L!Current, L!Terminates, L!Opening, L!Closing, L!Blank, L!Digits
  <2>2. PICK tok : tok = L!NumberToken(L!Word(position))
    OBVIOUS
  <2>3. tok \in {"SYMBOL", "INTEGER", "FLOAT"}
    BY <2>2 DEF L!NumberToken
  <2> QED  BY <1>1, <1>3, <2>1, <2>2, <2>3, WordLexed DEF L!LexNumber
<1>4. CASE L!LexSymbol
  <2>1. ~L!Terminates(text[position])
    BY <1>4 DEF L!LexSymbol, L!Current, L!Terminates
  <2> QED  BY <1>1, <1>4, <2>1, WordLexed DEF L!LexSymbol
<1>5. CASE L!LexCharacter
  <2>1. PICK b, p, q : b = L!Word(q) /\ p = L!WordEnd(q) /\ q = position + 1
    OBVIOUS
  <2>2. /\ token = Pending /\ position \in Nat /\ q \in 1..Len(text) + 1
        /\ text \in Seq(Alphabet) /\ Len(text) \in Nat
    BY <1>1, <2>1, AtGlyph
  <2>3. b \in Seq(Alphabet) /\ p \in q..Len(text) + 1
    BY <2>1, <2>2, WordIs
  <2>4. p \in position + 1..Len(text) + 2
    BY <2>1, <2>2, <2>3
  <2>5. L!ReturnBuffer("CHAR", b, p) /\ "CHAR" \in TokenKinds \ {"NONE"}
    BY <1>5, <2>1 DEF L!LexCharacter, TokenKinds
  <2> QED  BY <2>2, <2>3, <2>4, <2>5, BufferReturned
<1> QED  BY <1>2, <1>3, <1>4, <1>5

\* Blanks and comments.
LEMMA BlankLexed ==
  ASSUME LexInv, L!SkipBlank \/ L!SkipComment
  PROVE  Lexed
<1>1. L!Lexing /\ ~L!AtEnd
  BY DEF L!SkipBlank, L!SkipComment, L!At
<1>2. /\ token = Pending /\ position \in 1..Len(text) /\ Len(text) \in Nat
      /\ position + 1 \in position..Len(text) + 2
  BY <1>1, AtGlyph
<1>3. ASSUME NEW p \in position..Len(text) + 2, L!Skip(p) PROVE Lexed
  <2>1. Skipped(p)
    BY <1>2, <1>3 DEF LexInv, L!Skip, Skipped
  <2> QED  BY <1>2, <1>3, <2>1 DEF LexInv, L!Skip, Lexed
<1>4. CASE L!SkipBlank
  <2>1. PICK p : p = position + 1
    OBVIOUS
  <2>2. p \in position..Len(text) + 2 /\ L!Skip(p)
    BY <1>2, <1>4, <2>1 DEF L!SkipBlank
  <2> QED  BY <1>3, <2>2
<1>5. CASE L!SkipComment
  <2>1. PICK S, m, p : S = L!LineEnds /\ m = L!Min(S) /\ p = m + 1
    OBVIOUS
  <2>2. S # {} /\ L!Skip(p)
    BY <1>5, <2>1 DEF L!SkipComment
  <2>3. S \subseteq position + 1..Len(text)
    BY <2>1 DEF L!LineEnds
  <2>4. S \in SUBSET Nat
    BY <1>2, <2>3
  <2>5. m \in S
    BY <2>1, <2>2, <2>4, MinIsLeast
  <2>6. p \in position..Len(text) + 2
    BY <1>2, <2>1, <2>3, <2>5
  <2> QED  BY <1>3, <2>2, <2>6
<1> QED  BY <1>4, <1>5

\* The end of the text.
LEMMA EndLexed ==
  ASSUME LexInv, L!LexEnd \/ L!StringUnfinished
  PROVE  Lexed
<1>1. /\ token = Pending /\ position \in position..Len(text) + 2 /\ position \in 1..Len(text) + 2
      /\ inputBuffer \in Seq(Alphabet)
  BY TextsAssumption
  DEF LexInv, L!LexEnd, L!StringUnfinished, L!Lexing, L!InString, L!Pending, L!Token, Pending, Token
<1>2. CASE L!LexEnd
  <2>1. Returned([tok |-> "NONE", buf |-> <<>>], position)
    BY <1>1, <1>2
    DEF L!LexEnd, L!Return, L!Token, Returned, AnyToken, TokenKinds, Pending, Token
  <2>2. inputBuffer' \in Seq(Alphabet) /\ text' = text
    BY <1>1, <1>2 DEF L!LexEnd, L!Return
  <2> QED  BY <1>1, <2>1, <2>2 DEF Lexed
<1>3. CASE L!StringUnfinished
  <2>1. L!ReturnMark("NONE", position) /\ "NONE" \in TokenKinds
    BY <1>3 DEF L!StringUnfinished, TokenKinds
  <2> QED  BY <1>1, <2>1, MarkReturned
<1> QED  BY <1>2, <1>3

\* Strings.
LEMMA StringLexed ==
  ASSUME LexInv,
         L!StringBegin \/ L!StringGlyph \/ L!StringEscape \/ L!InvalidEscape \/ L!StringEnd
  PROVE  Lexed
<1>1. (L!Lexing \/ L!InString) /\ ~L!AtEnd
  BY DEF L!StringBegin, L!StringGlyph, L!StringEscape, L!InvalidEscape, L!StringEnd, L!At
<1>2. /\ token = Pending /\ position \in 1..Len(text) /\ text \in Seq(Alphabet)
      /\ text[position] \in Alphabet /\ Len(text) \in Nat
      /\ position + 1 \in position..Len(text) + 2 /\ position + 1 > position
  BY <1>1, AtGlyph
<1>3. inputBuffer \in Seq(Alphabet) /\ inString \in BOOLEAN
  BY DEF LexInv
<1>4. CASE L!StringBegin
  <2>1. PICK p : p = position + 1
    OBVIOUS
  <2>2. /\ inputBuffer' = <<>> /\ inString' = TRUE /\ position' = p
        /\ text' = text /\ token' = token
    BY <1>4, <2>1 DEF L!StringBegin
  <2>3. p \in 1..Len(text) + 2 /\ p >= position
    BY <1>2, <2>1
  <2>4. Skipped(p)
    BY <1>2, <2>2, <2>3 DEF Skipped
  <2> QED  BY <1>2, <2>2, <2>4 DEF Lexed
<1>5. ASSUME NEW g \in Alphabet, NEW p \in position..Len(text) + 2, L!Push(g, p) PROVE Lexed
  <2>1. Skipped(p)
    BY <1>2, <1>3, <1>5 DEF L!Push, Skipped
  <2> QED  BY <1>2, <1>3, <1>5, <2>1 DEF L!Push, Lexed
<1>6. CASE L!StringGlyph
  <2>1. PICK g, p : g = text[position] /\ p = position + 1
    OBVIOUS
  <2>2. g \in Alphabet /\ p \in position..Len(text) + 2 /\ L!Push(g, p)
    BY <1>2, <1>6, <2>1 DEF L!StringGlyph, L!Current
  <2> QED  BY <1>5, <2>2
<1>7. CASE L!StringEscape
  <2>1. PICK e, g, p : e = text[position + 1] /\ g = L!Escapes[e] /\ p = position + 2
    OBVIOUS
  <2>2. L!Push(g, p) /\ position < Len(text)
    BY <1>7, <2>1 DEF L!StringEscape, L!Escaping
  <2>3. e \in Alphabet
    <3>1. PICK i : i = position + 1
      OBVIOUS
    <3>2. i \in 1..Len(text) /\ e = text[i]
      BY <1>2, <2>1, <2>2, <3>1
    <3> QED  BY <1>2, <3>2
  <2>4. g \in Alphabet
    <3>0. e \in {"n", "r", "t", "\"", "\\"}
      BY <1>7, <2>1 DEF L!StringEscape, L!Escapes
    <3>1. e \in {"n", "r", "t"} => g \in EscapedGlyphs
      BY <2>1 DEF L!Escapes, EscapedGlyphs
    <3>2. e \in {"\"", "\\"} => g = e
      BY <2>1 DEF L!Escapes
    <3>3. EscapedGlyphs \subseteq Alphabet
      BY DEF Alphabet
    <3> QED  BY <2>3, <3>0, <3>1, <3>2, <3>3, Zenon
  <2>5. p \in position..Len(text) + 2
    BY <1>2, <2>1
  <2> QED  BY <1>5, <2>2, <2>4, <2>5
<1>8. CASE L!InvalidEscape
  <2>1. PICK p : p = position + 1
    OBVIOUS
  <2>2. L!ReturnMark("THROWS", p) /\ "THROWS" \in TokenKinds
    BY <1>8, <2>1 DEF L!InvalidEscape, TokenKinds
  <2>3. p \in position..Len(text) + 2 /\ p > position
    BY <1>2, <2>1
  <2> QED  BY <1>2, <2>2, <2>3, MarkReturned
<1>9. CASE L!StringEnd
  <2>1. PICK p : p = position + 1
    OBVIOUS
  <2>2. L!ReturnBuffer("STRING", inputBuffer, p) /\ "STRING" \in TokenKinds \ {"NONE"}
    BY <1>9, <2>1 DEF L!StringEnd, TokenKinds
  <2>3. p \in position + 1..Len(text) + 2
    BY <1>2, <2>1
  <2> QED  BY <1>2, <1>3, <2>2, <2>3, BufferReturned
<1> QED  BY <1>4, <1>6, <1>7, <1>8, <1>9

\* All of them.
LEMMA LexReturns == ASSUME LexInv, L!Lex PROVE Lexed
BY MarkLexed, WordsLexed, BlankLexed, EndLexed, StringLexed, Zenon DEF L!Lex

\* A step of parse takes a token, and is its last if the token is the end of the text.
LEMMA ParseTakes ==
  ASSUME Parse
  PROVE  /\ mode = "read" /\ Take /\ token # Pending
         /\ token.tok = "NONE" => mode' # "read"
<1>1. CASE ThrowEOF \/ ThrowError \/ DotFirst
  BY <1>1 DEF ThrowEOF, ThrowError, DotFirst, Is, Stop, Pending, Token
<1>2. CASE ~(ThrowEOF \/ ThrowError \/ DotFirst)
  BY <1>2 DEF Parse, OpenStatement, ReadStatement, ReadQuote, QuoteLiteral, QuoteList, ReadHead,
     OpenHead, ReadName, OpenHeader, ReadArgument, OpenBinding, OpenCase, ReadElement, OpenElement,
     ReadDot, ReadSecond, CloseForm, ThrowClosing, Is, Statements, QuotedTokens, Continue, Enter,
     Return, Pending, Token
<1> QED  BY <1>1, <1>2

\* The reader reads what it is to read.
LEMMA ReaderKeeps ==
  ASSUME LexInv, [ReaderNext]_<< pvars, lexer >>, AnyToken \subseteq Tokens
  PROVE  LexInv' /\ [Next]_pvars
<1>1. CASE UNCHANGED << pvars, lexer >>
  BY <1>1 DEF LexInv, pvars, lexer, parser
<1>2. CASE ReadToken
  <2>1. Lexed /\ mode = "read" /\ UNCHANGED << stack, quoting, mode, read, cut >>
    BY <1>2, LexReturns DEF ReadToken, parser
  <2>2. Len(read) \in Nat /\ Len(read) < position /\ Len(text) \in Nat
    BY <2>1, TextsAssumption DEF Lexed, LexInv
  <2>3. CASE \E p : Skipped(p)
    <3>1. PICK p : Skipped(p)
      BY <2>3
    <3>2. LexInv'
      BY <2>1, <2>2, <3>1 DEF Lexed, LexInv, Skipped
    <3>3. UNCHANGED pvars
      BY <2>1, <3>1 DEF Lexed, Skipped, pvars, parser
    <3> QED  BY <3>2, <3>3
  <2>4. CASE \E t, p : Returned(t, p)
    <3>1. PICK t, p : Returned(t, p)
      BY <2>4
    <3>2. LexInv'
      <4>1. /\ text' \in Texts /\ position' \in 1..Len(text') + 2
            /\ inputBuffer' \in Seq(Alphabet) /\ inString' \in BOOLEAN
            /\ token' \in AnyToken /\ read' \in Seq(AnyToken) /\ Len(read') = Len(read)
        BY <2>1, <3>1 DEF Lexed, LexInv, Returned
      <4>2. position \in Nat /\ position' \in Nat /\ position' >= position
        BY <3>1, <4>1 DEF LexInv, Returned
      <4>3. token'.tok # "NONE" => position' > position
        BY <3>1 DEF Returned
      <4>4. Len(read') + (IF token' = Pending \/ token'.tok = "NONE" THEN 0 ELSE 1) < position'
        BY <2>2, <4>1, <4>2, <4>3
      <4> QED  BY <4>1, <4>4 DEF LexInv, Pending, Token
    <3>3. Len(read) < MaxTokens
      BY <2>1, <2>2, TextsAssumption DEF LexInv
    <3>4. Receive
      BY <2>1, <3>1, <3>3 DEF Lexed, Returned, Receive, parser
    <3> QED  BY <3>2, <3>4 DEF Next
  <2> QED  BY <2>1, <2>3, <2>4 DEF Lexed
<1>3. CASE ReadTree
  <2>1. /\ mode = "read" /\ token' = Pending /\ token # Pending /\ read' = Append(read, token)
        /\ token.tok = "NONE" => mode' # "read"
        /\ UNCHANGED << text, position, inputBuffer, inString >>
    BY <1>3, ParseTakes DEF ReadTree, Take, lexer
  <2>2. LexInv'
    BY <2>1 DEF LexInv
  <2> QED  BY <1>3, <2>2 DEF ReadTree, Next
<1> QED  BY <1>1, <1>2, <1>3 DEF ReaderNext

\* It begins with its first glyph.
LEMMA ReaderStarts == ReaderInit => LexInv
<1> SUFFICES ASSUME ReaderInit PROVE LexInv
  OBVIOUS
<1>1. /\ text \in Texts /\ position = 1 /\ inputBuffer = <<>> /\ inString = FALSE
      /\ token = Pending /\ read = <<>>
  BY DEF ReaderInit, L!LexInit, Init
<1>2. Len(text) \in Nat
  BY <1>1, TextsAssumption
<1>3. position \in 1..Len(text) + 2 /\ Len(read) = 0
  BY <1>1, <1>2
<1>4. read \in Seq(AnyToken) /\ inputBuffer \in Seq(Alphabet)
  BY <1>1
<1>6. inString \in BOOLEAN
  BY <1>1
<1>5. Len(read) + (IF token = Pending \/ token.tok = "NONE" THEN 0 ELSE 1) < position
  BY <1>1, <1>3
<1> QED  BY <1>1, <1>3, <1>4, <1>5, <1>6 DEF LexInv

\* parse with its lexer is parse with some tokens, whatever the text.
\* Code: Lexer::lex returns to parse at each token, and has passed a glyph by then or is
\* at the end of the text, which ends parse.
THEOREM ReaderImplementsParser ==
  ASSUME AnyToken \subseteq Tokens
  PROVE  ReaderSpec => ReadsTokens
<1>1. LexInv /\ [ReaderNext]_<< pvars, lexer >> => LexInv' /\ [Next]_pvars
  BY ReaderKeeps
<1>2. ReaderInit => Init
  BY DEF ReaderInit
<1> QED  BY <1>1, <1>2, ReaderStarts, PTL DEF ReaderSpec, ReadsTokens

\* So of every text: at every token there is a frame for each parenthesis that is open,
\* but for those that were cut short.
\* Code: parse(code).
THEOREM TextsNest ==
  ASSUME AnyToken \subseteq Tokens
  PROVE  ReaderSpec => []Nesting
<1>1. Inv => Nesting
  BY DEF Inv
<1>2. ReaderSpec => ReadsTokens
  BY ReaderImplementsParser
<1> QED  BY <1>1, <1>2, InitHolds, NextKeeps, PTL DEF ReadsTokens

\* And of a text whose parentheses match, and none of which was taken by another form
\* than its own, parse drops nothing.
\* Code: parse(code).
THEOREM TextsAreReadWhole ==
  ASSUME AnyToken \subseteq Tokens
  PROVE  ReaderSpec => NothingLost
<1>1. Inv /\ [Next]_pvars => [Silent => Whole]_pvars
  BY SilentStep
<1>2. ReaderSpec => ReadsTokens
  BY ReaderImplementsParser
<1> QED  BY <1>1, <1>2, InitHolds, NextKeeps, PTL DEF ReadsTokens, NothingLost, Silent, Whole
=============================================================================
