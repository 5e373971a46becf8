-------------------------------- MODULE Lexer --------------------------------
(***************************************************************************)
(* The lexer (runtime/lexer.cpp): one action per case of lex's switch,     *)
(* each glyph that is skipped and each glyph of a string a step of its     *)
(* own.  What goto RETRY goes back to is the next step.                    *)
(*                                                                         *)
(* A text is a sequence of glyphs; the letters of a word may come as one   *)
(* glyph.  Positions are one more than the position_ of the code.          *)
(***************************************************************************)
EXTENDS Naturals, Sequences, FiniteSetsExt

VARIABLES
  text,          \* Lexer::input_
  position,      \* Lexer::position_ + 1
  inputBuffer,   \* Lexer::inputBuffer_
  inString,      \* TRUE while lex is in the loop of a string
  token          \* what lex has returned, Pending while the parser waits for it

lexer == << text, position, inputBuffer, inString >>

Opening == {"(", "["}
Closing == {")", "]"}
Blank   == {" ", "\n", "\r"}
Digits  == {"0", "1", "2", "3", "4", "5", "6", "7", "8", "9"}

\* A token and rdbuf(), which means something only for those with a buffer.
Token(tok, buf) == [tok |-> tok, buf |-> buf]
Pending == Token("PENDING", <<>>)

\* The escapes of a string and what they stand for.
Escapes == [g \in {"n", "r", "t", "\"", "\\"} |->
              CASE g = "n" -> "\n" [] g = "r" -> "\r" [] g = "t" -> "\t" [] OTHER -> g]

\* checkTermCond: where the word at p ends.
Terminates(g) == g \in Opening \union Closing \union Blank
WordEnd(p) == Min({q \in p..Len(text) : Terminates(text[q])} \union {Len(text) + 1})
Word(p) == SubSeq(text, p, WordEnd(p) - 1)

LexInit ==
  /\ position = 1 /\ inputBuffer = <<>> /\ inString = FALSE
  /\ token = Pending

-----------------------------------------------------------------------------
(* lex *)

AtEnd == position > Len(text)
Current == text[position]

\* Mutant: lex goes on before the parser has used the token.
LexingAhead == ~inString

\* lex is running, at the first glyph of something.
Lexing == token = Pending /\ ~inString

At(glyphs) == Lexing /\ ~AtEnd /\ Current \in glyphs

\* lex returns the token and goes on at position p next time.
Return(t, p) ==
  /\ token' = t /\ position' = p /\ inString' = FALSE
  /\ UNCHANGED text

ReturnBuffer(tok, buf, p) == inputBuffer' = buf /\ Return(Token(tok, buf), p)

ReturnMark(tok, p) == UNCHANGED inputBuffer /\ Return(Token(tok, <<>>), p)

LexParen ==
  \/ At(Opening) /\ ReturnMark("LPAREN", position + 1)
  \/ At(Closing) /\ ReturnMark("RPAREN", position + 1)

LexQuote == At({"'"}) /\ ReturnMark("QUOTE", position + 1)

Skip(p) == position' = p /\ UNCHANGED << text, inputBuffer, inString, token >>

\* Mutant: a blank is tried again.
SkipNothing == At(Blank) /\ Skip(position)

SkipBlank == At(Blank) /\ Skip(position + 1)

\* The ends of lines after position.
LineEnds == {q \in position + 1..Len(text) : text[q] \in {"\n", "\r"}}

SkipComment == At({";"}) /\ LineEnds # {} /\ Skip(Min(LineEnds) + 1)

\* A comment that the text ends with falls through to the case of the dot, one
\* glyph further than the end.
CommentAtEnd == At({";"}) /\ LineEnds = {} /\ ReturnMark("DOT", Len(text) + 2)

LexDot ==
  /\ At({"."})
  /\ IF position < Len(text) /\ text[position + 1] = "."
     THEN ReturnBuffer("SYMBOL", Word(position), WordEnd(position))
     ELSE ReturnMark("DOT", position + 1)

\* What a word that begins with a digit is: digits, perhaps with one dot behind the
\* first of them, or else a symbol.
NumberToken(w) ==
  LET marks == {i \in DOMAIN w : w[i] \notin Digits} IN
  IF marks = {} THEN "INTEGER"
  ELSE IF \E i \in marks : w[i] = "." /\ marks = {i} THEN "FLOAT" ELSE "SYMBOL"

LexNumber ==
  /\ At(Digits)
  /\ ReturnBuffer(NumberToken(Word(position)), Word(position), WordEnd(position))

\* The glyphs behind a backslash, none if a parenthesis or a blank follows.
LexCharacter ==
  /\ At({"\\"})
  /\ ReturnBuffer("CHAR", Word(position + 1), WordEnd(position + 1))

LexSymbol ==
  /\ Lexing /\ ~AtEnd
  /\ Current \notin Opening \union Closing \union Blank \union Digits
                      \union {";", ".", "'", "\\", "\""}
  /\ ReturnBuffer("SYMBOL", Word(position), WordEnd(position))

\* lex clears the buffer if it has skipped something to get here.
LexEnd ==
  /\ Lexing /\ AtEnd
  /\ inputBuffer' = IF \E p \in DOMAIN text : p = position - 1 /\ text[p] \in Blank
                    THEN <<>> ELSE inputBuffer
  /\ Return(Token("NONE", <<>>), position)

-----------------------------------------------------------------------------
(* Strings *)

StringBegin ==
  /\ At({"\""})
  /\ inputBuffer' = <<>> /\ inString' = TRUE /\ position' = position + 1
  /\ UNCHANGED << text, token >>

InString == token = Pending /\ inString

Push(g, p) ==
  /\ inputBuffer' = Append(inputBuffer, g) /\ position' = p
  /\ UNCHANGED << text, inString, token >>

\* A backslash begins an escape unless the text ends with it.
Escaping == Current = "\\" /\ position < Len(text)

StringGlyph ==
  InString /\ ~AtEnd /\ Current # "\"" /\ ~Escaping /\ Push(Current, position + 1)

StringEscape ==
  /\ InString /\ ~AtEnd /\ Escaping /\ text[position + 1] \in DOMAIN Escapes
  /\ Push(Escapes[text[position + 1]], position + 2)

\* lex throws.
InvalidEscape ==
  /\ InString /\ ~AtEnd /\ Escaping /\ text[position + 1] \notin DOMAIN Escapes
  /\ ReturnMark("THROWS", position + 1)

StringEnd ==
  InString /\ ~AtEnd /\ Current = "\"" /\ ReturnBuffer("STRING", inputBuffer, position + 1)

\* A string that does not end is the end of the text.
StringUnfinished == InString /\ AtEnd /\ ReturnMark("NONE", position)

Lex ==
  \/ LexParen \/ LexQuote \/ SkipBlank \/ SkipComment \/ CommentAtEnd \/ LexDot
  \/ LexNumber \/ LexCharacter \/ LexSymbol \/ LexEnd
  \/ StringBegin \/ StringGlyph \/ StringEscape \/ InvalidEscape \/ StringEnd
  \/ StringUnfinished
=============================================================================
