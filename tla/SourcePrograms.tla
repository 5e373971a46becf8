--------------------------- MODULE SourcePrograms ---------------------------
(***************************************************************************)
(* Sessions given as source programs, compiled by module Compiler and run  *)
(* by the machine.  The MC modules define the programs.                    *)
(***************************************************************************)
EXTENDS VM, Compiler

CONSTANT Programs    \* the programs: sequences of Statement and Global

\* Trees with names of one glyph.
Glyphs1(xs)           == [i \in DOMAIN xs |-> << xs[i] >>]
V(x)                 == LValue(<< x >>)
Text(s)              == Quoted("str", << s >>)
Fun(xs, sts)         == Lambda(Glyphs1(xs), sts)
DocFun(xs, doc, sts) == DocLambda(Glyphs1(xs), << doc >>, sts)
Bind(x, v)           == Binding(<< x >>, v)
Define(x, v)         == Def(<< x >>, v)
DefineMut(x, v)      == DefMut(<< x >>, v)
Assign(x, v)         == Set(<< x >>, v)

\* The builtins the sessions use, bound as initBuiltins binds them.
Fn(name) == Global(<<>>, << name >>, Builtin(name))

Prelude ==
  << Fn("cons"), Fn("car"), Fn("cdr"), Fn("error"), Fn("null?"), Fn("apply"),
     Fn("incr"), Fn("load") >>

\* A session with these builtins only.
Using(names, p) == [i \in DOMAIN names |-> Fn(names[i])] \o p

\* One source text per sequence of statements.
Source(sts) == [i \in 1..Len(sts) |-> Statement(sts[i], i = Len(sts))]

Call(f, args) == Application(V(f), args)
Cons2(a, d)   == Call("cons", << a, d >>)
RECURSIVE ListExpr(_)
ListExpr(es)  == IF es = <<>> THEN NullLit ELSE Cons2(Head(es), ListExpr(Tail(es)))
Incr(e)       == Call("incr", << e >>)
One == Number(1)
Two == Number(2)
=============================================================================
