------------------------------- MODULE Syntax -------------------------------
(***************************************************************************)
(* Syntax trees (runtime/ast.hpp), as the parser builds them.              *)
(*                                                                         *)
(* A name or a string is a sequence of glyphs.  A glyph is a string, and   *)
(* the letters of a word may come as one glyph: << "std", "::", "some" >>  *)
(* is std::some.  A node is a record whose field k names its class.        *)
(***************************************************************************)
EXTENDS Integers, Sequences, SequencesExt, Functions

Literal(v)        == [k |-> "Literal", value |-> v]
Number(n)         == Literal([kind |-> "int", n |-> n])
Quoted(kind, s)   == Literal([kind |-> kind, s |-> s])
ListLit(items)    == Literal([kind |-> "list", items |-> items])
PairLit(a, b)     == Literal([kind |-> "dotted", items |-> << a, b >>])
NullLit           == [k |-> "Null"]
TrueLit           == [k |-> "True"]
FalseLit          == [k |-> "False"]
LValue(name)      == [k |-> "LValue", name |-> name]
Lambda(args, sts) == [k |-> "Lambda", args |-> args, statements |-> sts, doc |-> <<>>]
DocLambda(args, doc, sts) == [Lambda(args, sts) EXCEPT !.doc = doc]
Application(f, args)   == [k |-> "Application", toApply |-> f, args |-> args]
Binding(name, v)       == [name |-> name, value |-> v]
Let(binds, sts)        == [k |-> "Let", mut |-> FALSE, bindings |-> binds, statements |-> sts]
LetMut(binds, sts)     == [Let(binds, sts) EXCEPT !.mut = TRUE]
Begin(sts)             == [k |-> "Begin", statements |-> sts]
Or(sts)                == [k |-> "Or", statements |-> sts]
And(sts)               == [k |-> "And", statements |-> sts]
Namespace(name, sts)   == [k |-> "Namespace", name |-> name, statements |-> sts]
If(c, t, f)            == [k |-> "If", condition |-> c, trueBranch |-> t, falseBranch |-> f]
Recur(args)            == [k |-> "Recur", args |-> args]
Def(name, v)           == [k |-> "Def", mut |-> FALSE, name |-> name, value |-> v]
DefMut(name, v)        == [Def(name, v) EXCEPT !.mut = TRUE]
Set(name, v)           == [k |-> "Set", name |-> name, value |-> v]
UserValue(id)          == [k |-> "UserValue", id |-> id]

\* A lambda whose last argument is "..." is variadic.
IsVariadic(args) == args # <<>> /\ Last(args) = << "..." >>

Case(c, body) == [condition |-> c, body |-> body]

\* parseCond: nested ifs, each body a begin, null when no case holds.
Cond(cases) ==
  FoldRight(LAMBDA c, otherwise : If(c.condition, Begin(c.body), otherwise), cases, NullLit)

\* delay and stream-cons wrap an expression in a lambda without arguments.
Delay(e)         == Lambda(<<>>, << e >>)
StreamCons(a, d) == Application(LValue(<< "cons" >>), << a, Delay(d) >>)

\* A name in a namespace: each name of the path, and the scope operator, before it.
Qualified(path, name) == FlattenSeq([i \in DOMAIN path |-> path[i] \o << "::" >>]) \o name
=============================================================================
