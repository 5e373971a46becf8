------------------------------- MODULE Reader -------------------------------
(***************************************************************************)
(* parse(code): the parser with the lexer it owns, reading a text.         *)
(***************************************************************************)
EXTENDS Parser

CONSTANT Texts       \* the texts to read

\* What a token may have in its buffer: glyphs of a text, and those that only
\* escapes stand for.
EscapedGlyphs == {"\n", "\r", "\t"}
Alphabet == (UNION {ToSet(t) : t \in Texts}) \union EscapedGlyphs

\* What lex may return or throw.
TokenKinds ==
  {"NONE", "LPAREN", "RPAREN", "SYMBOL", "QUOTE", "DOT", "INTEGER", "FLOAT", "STRING", "CHAR",
   "THROWS"}
AnyToken == [tok : TokenKinds, buf : Seq(Alphabet)]

\* MaxTokens, a bound of the tokens that are read, is no bound for a text.
ASSUME TextsAssumption ==
  /\ Texts \subseteq Seq(Alphabet)
  /\ MaxTokens \in Nat
  /\ \A t \in Texts : Len(t) + 2 <= MaxTokens

VARIABLES
  text, position, inputBuffer, inString    \* the lexer's

lexer == << text, position, inputBuffer, inString >>

L == INSTANCE Lexer

ReaderInit == text \in Texts /\ L!LexInit /\ Init

ReadToken == mode = "read" /\ L!Lex /\ UNCHANGED parser

ReadTree == Parse /\ UNCHANGED lexer

\* One thread: lex runs while parse waits for its token.
ReaderNext == ReadToken \/ ReadTree

ReaderSpec == ReaderInit /\ [][ReaderNext]_<< pvars, lexer >> /\ WF_<< pvars, lexer >>(ReaderNext)

-----------------------------------------------------------------------------
(* Properties *)

\* parse reads some sequence of tokens, for which the properties of Parser hold.
ReadsTokens == Init /\ [][Next]_pvars

\* parse returns or throws, whatever the text is (the loops of parser.cpp and
\* lexer.cpp end only at a token or a glyph, and RETRY is a goto).
ReadingEnds == <>(mode # "read")
=============================================================================
