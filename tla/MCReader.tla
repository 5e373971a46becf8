------------------------------ MODULE MCReader ------------------------------
(***************************************************************************)
(* Texts for the parser: every short text over the glyphs that mean        *)
(* something to the lexer, and every short sequence of words behind the    *)
(* beginning of each form.                                                 *)
(***************************************************************************)
EXTENDS Reader, Grammar

CONSTANTS
  MaxGlyphs,     \* the length of a short text
  MaxRest,       \* the words behind the beginning of a form
  MaxItems       \* the words behind the beginning of a quoted list

MCWords == SpecialForms \union {"abc"}

Glyphs == {"(", ")", " ", "\n", ";", "\"", "\\", "'", ".", "1", "n"}

ShortTexts == UNION {[1..n -> Glyphs] : n \in 0..MaxGlyphs}

\* A form begins, in parentheses of its own or in those of another.
Beginnings(f) == {<< "(", f >>, << "(", "begin", " ", "(", f >>}

Written(words) == FlattenSeq([i \in DOMAIN words |-> << words[i], " " >>])

FormTexts ==
  {b \o << " " >> \o Written(w) :
     b \in UNION {Beginnings(f) : f \in SpecialForms \union {"abc"}},
     w \in [1..MaxRest -> {"(", ")", "n"}]}

\* Quoted data.
ListTexts ==
  {<< "'", "(" >> \o Written(w) : w \in [1..MaxItems -> {"(", ")", ".", "1", "n", "'"}]}

\* Bodies that begin with a string, of functions and of lets; with characters and
\* floats among their statements.
StringTexts ==
  {<< "(" >> \o b \o << "(", ")", "\"", "n", "\"" >> \o r :
     b \in {<< "lambda", " " >>, << "defn", " ", "n" >>, << "let", " " >>},
     r \in {<< ")" >>, << "n", ")" >>, << "\"", "\"", ")", ")" >>,
            << "\\", "n", " ", "0", "1", ".", "1", "0", ")" >>,
            << "0", ".", "1", ")" >>, << "0", ".", "0", "1", ")" >>,
            << "\\", "abc", " ", ")" >>, << "(", ".", ".", ".", " ", "\\", ")", ")" >>}}

MCTexts == ShortTexts \union FormTexts \union ListTexts \union StringTexts

\* What the parser makes of a text is what the text says, unless the text ends in a
\* comment or a string; and it takes for a program only what is one, unless an
\* incomplete form or a parenthesis without a partner misled it.
FollowsGrammar ==
  mode # "read" =>
    LET r == ReadingOf(text) IN
    r.open \/ /\ r.ok => mode = "done" /\ stack[1].parts = r.trees /\ cut = 0
              /\ mode = "done" /\ cut = 0 /\ Depth = 0 => r.ok
=============================================================================
