------------------------------- MODULE Values -------------------------------
(***************************************************************************)
(* The objects of the heap, and what the builtins that only compute make   *)
(* of their arguments (runtime/builtins.cpp): a value they are given, a    *)
(* new object, an exception, or undefined behaviour.                       *)
(*                                                                         *)
(* A heap h is a sequence of objects, records whose field kind names the   *)
(* class; a value is the index of an object.  Floats are compared, each of  *)
(* them written in one way only, and stored, but not computed with.        *)
(***************************************************************************)
EXTENDS Integers, Sequences, FiniteSetsExt, SequencesExt

CONSTANT MaxInteger       \* the greatest integer, 2147483647 in the code

ASSUME IntegerRange == MaxInteger \in Nat

False == 1     \* Context::booleans_ and nullValue_, the first allocations
True  == 2
Null  == 3

Pair(a, d) == [kind |-> "pair", car |-> a, cdr |-> d]
Integer(n) == [kind |-> "int", n |-> n]
Character(g) == [kind |-> "char", glyph |-> g]

Is(h, v, kind) == h[v].kind = kind

\* Integer::Rep
Integers == (-MaxInteger - 1)..MaxInteger

-----------------------------------------------------------------------------
(* Results *)

Given(v)    == [how |-> "given", v |-> v]
New(o)      == [how |-> "new", o |-> o]
Throws      == [how |-> "throws"]
Overflows   == [how |-> "undefined"]

Truth(b) == Given(IF b THEN True ELSE False)

\* Signed overflow is undefined.
Result(n) == IF n \in Integers THEN New(Integer(n)) ELSE Overflows

-----------------------------------------------------------------------------
(* Lists *)

\* The n-th cdr of v, 0 behind something that is no pair.
NthCdr(h, v, n) ==
  LET cdr[k \in 0..n] ==
        IF k = 0 THEN v
        ELSE IF cdr[k - 1] = 0 THEN 0
        ELSE IF Is(h, cdr[k - 1], "pair") THEN h[cdr[k - 1]].cdr ELSE 0
  IN  cdr[n]

PairAt(h, v, n) == LET p == NthCdr(h, v, n) IN p \in DOMAIN h /\ Is(h, p, "pair")

\* length: dolist throws for a list that does not end with null.
Length(h, v) ==
  LET pairs == Min({n \in 0..Len(h) : ~PairAt(h, v, n)}) IN
  CASE Is(h, v, "pair") -> IF NthCdr(h, v, pairs) = Null THEN Result(pairs) ELSE Throws
    [] Is(h, v, "str")  -> Result(Len(h[v].s))
    [] OTHER -> Throws

\* get: a negative index is taken for a very great one.  The character of a string
\* stands as an object of its own.
Get(h, v, i) ==
  IF ~Is(h, i, "int") THEN Throws ELSE
  CASE Is(h, v, "str") ->
         IF h[i].n \in 0..Len(h[v].s) - 1 THEN New(Character(h[v].s[h[i].n + 1])) ELSE Throws
    [] Is(h, v, "pair") ->
         IF h[i].n \in 0..Len(h) /\ PairAt(h, v, h[i].n)
         THEN Given(h[NthCdr(h, v, h[i].n)].car) ELSE Throws
    [] OTHER -> Throws

-----------------------------------------------------------------------------
(* Predicates and comparisons *)

Kind == [p \in {"null?", "pair?", "boolean?", "integer?", "float?", "string?", "character?",
                "symbol?", "function?"} |->
           CASE p = "null?" -> "null" [] p = "pair?" -> "pair" [] p = "boolean?" -> "bool"
             [] p = "integer?" -> "int" [] p = "float?" -> "float" [] p = "string?" -> "str"
             [] p = "character?" -> "char" [] p = "symbol?" -> "sym" [] OTHER -> "fn"]

\* EqualTo: symbols and booleans are the same object if they are equal.
Equal(h, v, w) ==
  IF h[v].kind # h[w].kind THEN Truth(FALSE) ELSE
  CASE h[v].kind \in {"int", "float", "str", "char"} -> Truth(h[v] = h[w])
    [] h[v].kind \in {"bool", "sym"} -> Truth(v = w)
    [] OTHER -> Throws

Compare(name, h, v, w) ==
  IF Is(h, v, "int") /\ Is(h, w, "int")
  THEN Truth(IF name = "<" THEN h[v].n < h[w].n ELSE h[v].n > h[w].n) ELSE Throws

-----------------------------------------------------------------------------
(* Arithmetic *)

\* Division rounds towards zero.
Magnitude(n) == IF n < 0 THEN -n ELSE n
Quotient(m, n) ==
  LET q == Magnitude(m) \div Magnitude(n) IN IF (m < 0) = (n < 0) THEN q ELSE -q
Remainder(m, n) == m - n * Quotient(m, n)

\* The numbers among the values.
Numbers(h, vs) ==
  LET ints == SelectSeq(vs, LAMBDA v : Is(h, v, "int")) IN [i \in DOMAIN ints |-> h[ints[i]].n]

\* "+" throws at the first value that is no number.  A sum or a product overflows as
\* soon as a partial result does.
Sum(h, vs) ==
  LET fit   == Min({k \in 1..Len(vs) : ~Is(h, vs[k], "int")} \union {Len(vs) + 1}) - 1
      total == FoldLeft(LAMBDA t, n : IF t \in Integers THEN t + n ELSE t, 0,
                        Numbers(h, SubSeq(vs, 1, fit)))
  IN  IF total \in Integers /\ fit < Len(vs) THEN Throws ELSE Result(total)

\* "*" passes over it.
Product(h, vs) ==
  Result(FoldLeft(LAMBDA t, n : IF t \in Integers THEN t * n ELSE t, 1, Numbers(h, vs)))

\* incr, decr and abs; abs gives back what is positive.
OfOne(name, h, v) ==
  LET n == h[v].n IN
  IF ~Is(h, v, "int") THEN Throws ELSE
  CASE name = "incr" -> Result(n + 1)
    [] name = "decr" -> Result(n - 1)
    [] OTHER -> IF n > 0 THEN Given(v) ELSE Result(-n)

\* -, / and mod
OfTwo(name, h, v, w) ==
  LET m == h[v].n
      n == h[w].n
  IN  IF ~(Is(h, v, "int") /\ Is(h, w, "int")) THEN Throws ELSE
      CASE name = "-" -> Result(m - n)
        [] OTHER -> IF n = 0 \/ Quotient(m, n) \notin Integers THEN Overflows
                    ELSE Result(IF name = "/" THEN Quotient(m, n) ELSE Remainder(m, n))

-----------------------------------------------------------------------------

Arithmetic == {"incr", "decr", "abs", "+", "*", "-", "/", "mod", "<", ">"}

\* The builtins that only compute, and how many arguments they require.
Computing ==
  [n \in DOMAIN Kind \union Arithmetic
           \union {"cons", "car", "cdr", "error", "not", "equal?", "arity", "length", "get"} |->
     CASE n \in {"+", "*"} -> 0
       [] n \in {"cons", "equal?", "get", "-", "/", "mod", "<", ">"} -> 2
       [] OTHER -> 1]

\* What a builtin makes of the values vs.
Computed(name, h, vs) ==
  CASE name = "cons"   -> New(Pair(vs[1], vs[2]))
    [] name = "car"    -> IF Is(h, vs[1], "pair") THEN Given(h[vs[1]].car) ELSE Throws
    [] name = "cdr"    -> IF Is(h, vs[1], "pair") THEN Given(h[vs[1]].cdr) ELSE Throws
    [] name = "error"  -> Throws
    [] name \in DOMAIN Kind -> Truth(Is(h, vs[1], Kind[name]))
    [] name = "not"    -> Truth(vs[1] = False)
    [] name = "equal?" -> Equal(h, vs[1], vs[2])
    [] name \in {"<", ">"} -> Compare(name, h, vs[1], vs[2])
    [] name = "arity"  -> IF Is(h, vs[1], "fn") THEN Result(h[vs[1]].argc) ELSE Throws
    [] name = "length" -> Length(h, vs[1])
    [] name = "get"    -> Get(h, vs[1], vs[2])
    [] name = "+"      -> Sum(h, vs)
    [] name = "*"      -> Product(h, vs)
    [] name \in {"incr", "decr", "abs"} -> OfOne(name, h, vs[1])
    [] name \in {"-", "/", "mod"}       -> OfTwo(name, h, vs[1], vs[2])
=============================================================================
