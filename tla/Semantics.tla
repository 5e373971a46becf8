----------------------------- MODULE Semantics -----------------------------
(***************************************************************************)
(* What an EBL program means: a reference evaluator over syntax trees, by  *)
(* names and environments, without addresses, offsets or an operand stack. *)
(* MCVM compares what the compiled program computes with what it says.     *)
(*                                                                         *)
(* A value is 0-, 1- or 2-part data: numbers, strings, booleans, null,     *)
(* pairs, builtins, and closures over an environment.  The evaluator's     *)
(* state:                                                                  *)
(*   envs    environments: parent and the values of its names              *)
(*   items   statements of the session not evaluated yet                   *)
(*   path    the namespace the code is written in                          *)
(*   how     "value", "error", or "recur" when v holds the new arguments   *)
(*   v       the value                                                     *)
(***************************************************************************)
EXTENDS Compiler

Nil == [kind |-> "null"]
Bool(b) == [kind |-> "bool", b |-> b]
Cell(a, d) == [kind |-> "pair", car |-> a, cdr |-> d]
IsFalse(v) == v.kind = "bool" /\ ~v.b

Gives(s, v)  == [s EXCEPT !.how = "value", !.v = v]
Fails(s)     == [s EXCEPT !.how = "error"]

\* A new environment below e: the state, and where it is.
Extend(s, e) == [s EXCEPT !.envs = Append(@, [parent |-> e, vars |-> << >>])]
Newest(s) == Len(s.envs)

Updated(vars, x, v) == [y \in DOMAIN vars \union {x} |-> IF y = x THEN v ELSE vars[y]]
BindIn(s, e, x, v) == [s EXCEPT !.envs[e].vars = Updated(@, x, v)]

\* The environment, from e outwards, and the full name a name as written refers to.
Candidates(s, name) == {Qualified(SubSeq(s.path, 1, i), name) : i \in 0..Len(s.path)}
RECURSIVE Lookup(_, _, _)
Lookup(s, e, name) ==
  LET found == Candidates(s, name) \intersect DOMAIN s.envs[e].vars IN
  IF found # {} THEN [env |-> e, name |-> CHOOSE x \in found : \A y \in found : Len(x) >= Len(y)]
  ELSE Lookup(s, s.envs[e].parent, name)

RECURSIVE ListOf(_)
ListOf(vs) == IF vs = <<>> THEN Nil ELSE Cell(Head(vs), ListOf(Tail(vs)))

\* A list that ends in null, and its elements.
RECURSIVE IsList(_)
IsList(l) == \/ l.kind = "null"
             \/ l.kind = "pair" /\ IsList(l.cdr)

RECURSIVE Elements(_)
Elements(l) ==
  IF l.kind = "null" THEN <<>> ELSE << l.car >> \o Elements(l.cdr)

RECURSIVE Eval(_, _, _)

\* Evaluates in order; v is the sequence of values.
RECURSIVE EvalAll(_, _, _, _)
EvalAll(nodes, e, s, done) ==
  IF nodes = <<>> THEN Gives(s, done)
  ELSE LET r == Eval(Head(nodes), e, s) IN
       IF r.how # "value" THEN r ELSE EvalAll(Tail(nodes), e, r, Append(done, r.v))

\* Evaluates a body: the value of its last statement.
RECURSIVE EvalBody(_, _, _)
EvalBody(nodes, e, s) ==
  LET r == Eval(Head(nodes), e, s) IN
  IF r.how # "value" \/ Len(nodes) = 1 THEN r ELSE EvalBody(Tail(nodes), e, r)

\* The statements of one source text; what is left of it after an error is dropped.
RECURSIVE EvalText(_)
EvalText(s) ==
  IF s.items = <<>> \/ s.how = "error" THEN s
  ELSE LET r == Eval(Head(s.items).ast, 1, [s EXCEPT !.items = Tail(@), !.path = <<>>]) IN
       IF r.how = "error" \/ Head(s.items).last THEN r ELSE EvalText(r)

\* Binds the arguments in the function's environment and evaluates its body; recur
\* does so again in the same environment.
RECURSIVE Run(_, _, _, _)
Run(f, vs, e, s) ==
  LET n     == Len(f.args)
      Arg(i) == IF IsVariadic(f.args) /\ i = n THEN ListOf(SubSeq(vs, n, Len(vs))) ELSE vs[i]
      bound == [s EXCEPT !.envs[e].vars =
                  [x \in {f.args[i] : i \in 1..n} |-> Arg(CHOOSE i \in 1..n : f.args[i] = x)]]
      r     == EvalBody(f.statements, e, bound)
  IN  IF r.how = "recur" THEN Run(f, r.v, e, r) ELSE r

RECURSIVE ApplyFn(_, _, _)

\* The items of the pairs that l starts with, whatever it ends in.
RECURSIVE Spine(_)
Spine(l) == IF l.kind = "pair" THEN << l.car >> \o Spine(l.cdr) ELSE <<>>

Int32(n) == [kind |-> "int", n |-> n]

Abs(n) == IF n < 0 THEN -n ELSE n

\* The integers with m = q * n + r whose remainder is less than n and has the sign of m.
Divided(m, n) ==
  CHOOSE d \in [q : -Abs(m)..Abs(m), r : -Abs(n)..Abs(n)] :
    m = d.q * n + d.r /\ Abs(d.r) < Abs(n) /\ (d.r # 0 => (d.r < 0) = (m < 0))

\* What a builtin makes of integers.
OfIntegers(name, n) ==
  CASE name = "incr" -> Int32(n[1] + 1)
    [] name = "decr" -> Int32(n[1] - 1)
    [] name = "abs"  -> Int32(Abs(n[1]))
    [] name = "+"    -> Int32(FoldSeq(+, 0, n))
    [] name = "-"    -> Int32(n[1] - n[2])
    [] name = "/"    -> Int32(Divided(n[1], n[2]).q)
    [] name = "mod"  -> Int32(Divided(n[1], n[2]).r)
    [] name = "<"    -> Bool(n[1] < n[2])
    [] name = ">"    -> Bool(n[1] > n[2])

Operations == {"incr", "decr", "abs", "+", "-", "/", "mod", "<", ">"}

Predicates ==
  "null?" :> "null" @@ "pair?" :> "pair" @@ "boolean?" :> "bool" @@ "integer?" :> "int" @@
  "float?" :> "float" @@ "string?" :> "str" @@ "character?" :> "char" @@ "symbol?" :> "sym" @@
  "function?" :> "fn"

\* Equality is by value, of a symbol by its name; lists and functions have none.
Comparable == {"int", "float", "str", "char", "bool", "sym"}

CallBuiltin(name, vs, s) ==
  CASE name = "cons"  -> Gives(s, Cell(vs[1], vs[2]))
    [] name \in {"car", "cdr"} ->
         IF vs[1].kind = "pair" THEN Gives(s, vs[1][name]) ELSE Fails(s)
    [] name \in DOMAIN Predicates -> Gives(s, Bool(vs[1].kind = Predicates[name]))
    [] name = "not"   -> Gives(s, Bool(IsFalse(vs[1])))
    [] name = "equal?" ->
         IF vs[1].kind # vs[2].kind THEN Gives(s, Bool(FALSE))
         ELSE IF vs[1].kind \in Comparable THEN Gives(s, Bool(vs[1] = vs[2])) ELSE Fails(s)
    [] name = "length" ->
         IF vs[1].kind = "str" THEN Gives(s, Int32(Len(vs[1].s)))
         ELSE IF vs[1].kind = "pair" /\ IsList(vs[1]) THEN Gives(s, Int32(Len(Spine(vs[1])))) ELSE Fails(s)
    [] name = "get"   ->
         LET items == CASE vs[1].kind = "pair" -> Spine(vs[1])
                        [] vs[1].kind = "str" ->
                             [i \in DOMAIN vs[1].s |-> [kind |-> "char", glyph |-> vs[1].s[i]]]
                        [] OTHER -> <<>>
         IN  IF vs[2].kind = "int" /\ \E i \in DOMAIN items : vs[2].n + 1 = i
             THEN Gives(s, items[vs[2].n + 1]) ELSE Fails(s)
    [] name = "arity" ->
         IF vs[1].kind # "fn" THEN Fails(s)
         ELSE Gives(s, Int32(IF vs[1].model = "Wrapped" THEN vs[1].argc ELSE Len(vs[1].args)))
    [] name = "*"     ->
         LET ints == SelectSeq(vs, LAMBDA v : v.kind = "int") IN
         Gives(s, Int32(FoldSeq(LAMBDA v, n : v.n * n, 1, ints)))
    [] name \in Operations ->
         IF \A i \in DOMAIN vs : vs[i].kind = "int"
         THEN Gives(s, OfIntegers(name, [i \in DOMAIN vs |-> vs[i].n])) ELSE Fails(s)
    [] name = "error" -> Fails(s)
    [] name = "apply" ->
         IF ~IsList(vs[2]) \/ vs[1].kind # "fn" THEN Fails(s)
         ELSE IF vs[1].model = "BytecodeVariadic" THEN Fails(s)
         ELSE ApplyFn(vs[1], Elements(vs[2]), s)
    [] name \in {"load", "eval-string"} ->
         IF vs[1].kind # "str" \/ (name = "load" /\ vs[1].kind = "str" /\ vs[1].s = << "missing" >>)
         THEN Fails(s)
         ELSE LET r == EvalText(Gives(s, Nil)) IN [r EXCEPT !.path = s.path]

\* The code of the function sees the namespace it is written in.
ApplyFn(f, vs, s) ==
  IF f.kind # "fn" THEN Fails(s)
  ELSE IF f.model = "Wrapped"
  THEN IF Len(vs) < f.argc THEN Fails(s) ELSE CallBuiltin(f.name, vs, s)
  ELSE LET n == Len(f.args) IN
       IF IF IsVariadic(f.args) THEN Len(vs) < n - 1 ELSE Len(vs) # n THEN Fails(s)
       ELSE LET x == Extend([s EXCEPT !.path = f.path], f.env)
                r == Run(f, vs, Newest(x), x)
            IN  [r EXCEPT !.path = s.path]

EvalApplication(node, e, s) ==
  LET args == EvalAll(node.args, e, s, <<>>) IN
  IF args.how # "value" THEN args
  ELSE LET f == Eval(node.toApply, e, args) IN
       IF f.how # "value" THEN f ELSE ApplyFn(f.v, args.v, f)

RECURSIVE EvalBindings(_, _, _)
EvalBindings(binds, e, s) ==
  IF binds = <<>> THEN s
  ELSE LET r == Eval(Head(binds).value, e, s) IN
       IF r.how # "value" THEN r
       ELSE EvalBindings(Tail(binds), e, BindIn(r, e, Head(binds).name, r.v))

EvalLet(node, e, s) ==
  LET x == Extend(s, e)
      b == EvalBindings(node.bindings, Newest(x), Gives(x, Nil))
  IN  IF b.how # "value" THEN b ELSE EvalBody(node.statements, Newest(x), b)

EvalIf(node, e, s) ==
  LET c == Eval(node.condition, e, s) IN
  IF c.how # "value" THEN c
  ELSE Eval(IF IsFalse(c.v) THEN node.falseBranch ELSE node.trueBranch, e, c)

\* Definitions and set give null.
EvalDef(node, e, s) ==
  LET r == Eval(node.value, e, s) IN
  IF r.how # "value" THEN r ELSE Gives(BindIn(r, e, Qualified(s.path, node.name), r.v), Nil)

EvalSet(node, e, s) ==
  LET r   == Eval(node.value, e, s)
      var == Lookup(s, e, node.name)
  IN  IF r.how # "value" THEN r ELSE Gives(BindIn(r, var.env, var.name, r.v), Nil)

EvalNamespace(node, e, s) ==
  LET r == EvalBody(node.statements, e, [s EXCEPT !.path = Append(@, node.name)]) IN
  [r EXCEPT !.path = s.path]

EvalRecur(node, e, s) ==
  LET r == EvalAll(node.args, e, s, <<>>) IN
  IF r.how # "value" THEN r ELSE [r EXCEPT !.how = "recur"]

Eval(node, e, s) ==
  CASE node.k = "Literal"     -> Gives(s, node.value)
    [] node.k = "Null"        -> Gives(s, Nil)
    [] node.k = "True"        -> Gives(s, Bool(TRUE))
    [] node.k = "False"       -> Gives(s, Bool(FALSE))
    [] node.k = "LValue"      ->
         LET var == Lookup(s, e, node.name) IN Gives(s, s.envs[var.env].vars[var.name])
    [] node.k = "Lambda"      ->
         Gives(s, [kind |-> "fn", args |-> node.args, statements |-> node.statements,
                   model |-> IF IsVariadic(node.args) THEN "BytecodeVariadic" ELSE "Bytecode",
                   env |-> e, path |-> s.path])
    [] node.k = "Application" -> EvalApplication(node, e, s)
    [] node.k = "Let"         -> EvalLet(node, e, s)
    [] node.k = "Begin"       -> EvalBody(node.statements, e, s)
    [] node.k = "Namespace"   -> EvalNamespace(node, e, s)
    [] node.k = "If"          -> EvalIf(node, e, s)
    [] node.k = "Def"         -> EvalDef(node, e, s)
    [] node.k = "Set"         -> EvalSet(node, e, s)
    [] node.k = "Recur"       -> EvalRecur(node, e, s)

-----------------------------------------------------------------------------
(* Sessions: the globals first, then the source texts *)

NewEvaluator ==
  [envs |-> << [parent |-> 0, vars |-> << >>] >>, items |-> <<>>, path |-> <<>>,
   how |-> "value", v |-> Nil]

DefineGlobal(s, item) ==
  BindIn(s, 1, Qualified(IF item.ns = <<>> THEN <<>> ELSE << item.ns >>, item.name), item.value)

RECURSIVE EvalTexts(_)
EvalTexts(s) ==
  IF s.items = <<>> \/ s.how = "error" THEN s
  ELSE IF Head(s.items).kind = "setGlobal"
  THEN EvalTexts(DefineGlobal([s EXCEPT !.items = Tail(@)], Head(s.items)))
  ELSE EvalTexts(EvalText(Gives(s, Nil)))

\* The outcome of a session: an error, or the value of its last text.
Meaning(items) == EvalTexts([NewEvaluator EXCEPT !.items = items])
=============================================================================
