-------------------------------- MODULE MCVM --------------------------------
(***************************************************************************)
(* Whole sessions: every small program, the programs of the README, of     *)
(* ebl/lang.test.ebl and of the builtins' documentation, and others that   *)
(* bring two mechanisms together: recur under a let, a closure called by a *)
(* builtin, code loaded from the middle of an expression, an exception     *)
(* through several C++ calls.                                              *)
(***************************************************************************)
EXTENDS SmallPrograms, SourceSessions, StackDiscipline

\* A loop over a list whose recur sits under two lets.
CountList ==
  Source(<< Define("count", Fun(<< "l", "n" >>,
              << If(Call("null?", << V("l") >>), V("n"),
                    Let(<< Bind("rest", Call("cdr", << V("l") >>)) >>,
                        << Let(<< Bind("m", Incr(V("n"))) >>,
                               << Recur(<< V("rest"), V("m") >>) >>) >>)) >>)),
            Call("count", << ListExpr(<< One, Two >>), Number(0) >>) >>)

\* The closure of ebl/lang.test.ebl: a counter in a mutable let.
Counter ==
  Source(<< Define("c", LetMut(<< Bind("a", Number(0)) >>,
                            << Fun(<<>>, << Assign("a", Incr(V("a"))), V("a") >>) >>)),
            Call("c", <<>>),
            Cons2(Call("c", <<>>), Call("c", <<>>)) >>)

\* Variadic functions, with and without extra arguments, and a documented one.
Variadic ==
  Source(<< Define("rest", Fun(<< "x", "..." >>, << Cons2(V("x"), V("...")) >>)),
            Define("first", DocFun(<< "x", "y" >>, "the first", << V("x") >>)),
            Cons2(Call("rest", << One, Two, Number(3) >>),
                  Call("first", << Call("rest", << One >>), Two >>)) >>)

\* apply of a closure, of a builtin and of itself.
Applying ==
  Source(<< Let(<< Bind("k", Number(5)) >>,
              << Define("f", Fun(<< "x", "y" >>, << Cons2(V("x"), Cons2(V("y"), V("k"))) >>)),
                 Cons2(Call("apply", << V("f"), ListExpr(<< One, Two >>) >>),
                       Cons2(Call("apply", << V("incr"), ListExpr(<< One >>) >>),
                             Call("apply", << V("apply"),
                                     ListExpr(<< V("f"), ListExpr(<< One, Two >>) >>) >>))) >>) >>)

\* A file loaded from inside a function and a let, then used; it ends the text.
Loading ==
  << Statement(Define("use", Fun(<< "x" >>,
       << Let(<< Bind("r", Call("load", << Text("lib") >>)) >>,
              << Cons2(V("x"), V("r")) >>) >>)), FALSE),
     Statement(Cons2(One, Call("use", << Two >>)), FALSE),
     Statement(DefineMut("g", Number(3)), FALSE),
     Statement(Let(<<>>, << Assign("g", Incr(V("g"))), V("g") >>), TRUE),
     Statement(Cons2(V("g"), Call("use", << V("g") >>)), TRUE) >>

\* apply calling a function that loads a file that calls apply.
Reentrant ==
  << Statement(Define("go", Fun(<< "x" >>, << Cons2(V("x"), Call("load", << Text("lib") >>)) >>)),
               FALSE),
     Statement(Call("apply", << V("go"), ListExpr(<< One >>) >>), TRUE),
     Statement(Call("apply", << Fun(<< "y" >>, << Incr(V("y")) >>), ListExpr(<< Two >>) >>),
               TRUE) >>

\* Names in namespaces, cond, delayed streams; a DLL's functions in a namespace.
Spaces ==
  << Global(<< "fs" >>, << "incr2" >>, Builtin("incr")) >> \o
  Source(<< Namespace(<< "std" >>, << Define("next", Fun(<< "x" >>, << Incr(V("x")) >>)),
                                Define("twice", Fun(<< "x" >>,
                                  << Call("next", << Call("next", << V("x") >>) >>) >>)) >>),
            Define("stream", StreamCons(One, Application(LValue(<< "fs", "::", "incr2" >>), << One >>))),
            Cond(<< Case(FalseLit, << One >>),
                    Case(Call("null?", << V("stream") >>), << Two >>),
                    Case(TrueLit, << NullLit, Cons2(
                        Application(LValue(<< "std", "::", "twice" >>), << Call("car", << V("stream") >>) >>),
                        Application(Call("cdr", << V("stream") >>), <<>>)) >>) >>) >>)

\* Every kind of literal, some of them twice, between others and in functions.
Quoting ==
  LET pi == Literal([kind |-> "float", whole |-> << "3" >>, part |-> << "1", "4" >>])
      x  == Literal([kind |-> "char", glyph |-> "x"])
      x1 == Quoted("sym", << "x" >>)
  IN  Source(<< PairLit([kind |-> "int", n |-> 1], [kind |-> "str", s |-> << "b" >>]),
                ListLit(<< x1.value, [kind |-> "list", items |-> << x.value >>], x1.value >>),
                Define("f", DocFun(<< "a" >>, "x", << Cons2(V("a"), Cons2(x, Text("b"))) >>)),
                Call("f", << ListExpr(<< pi, x1, Text("x"), pi, x, Quoted("sym", << "b" >>) >>) >>) >>)

\* Exceptions: from an instruction, from a builtin in a let, for a wrong number of
\* arguments in every kind of call, from a compilation while code is running.
Failing ==
  { Source(<< Define("f", Fun(<< "x" >>, << Let(<< Bind("y", V("x")) >>, << Call("car", << V("y") >>) >>) >>)),
              Cons2(One, Call("f", << Two >>)) >>),
    Source(<< Cons2(One, Let(<< Bind("y", Two) >>, << Call("error", << Text("bad") >>) >>)) >>),
    Source(<< Cons2(One, Application(Fun(<< "x" >>, << V("x") >>), <<>>)) >>),
    Source(<< Cons2(One, Application(Fun(<< "x", "y", "..." >>, << V("x") >>), << One >>)) >>),
    Source(<< Cons2(One, Call("apply", << One >>)) >>),
    Source(<< Cons2(One, Application(Two, << One >>)) >>),
    Source(<< Call("apply", << Fun(<< "x" >>, << V("x") >>), NullLit >>) >>),
    Source(<< Call("apply", << Fun(<< "..." >>, << V("...") >>), NullLit >>) >>),
    Source(<< Call("apply", << V("incr"), NullLit >>) >>),
    Source(<< Call("apply", << V("incr"), Cons2(One, Two) >>) >>),
    Source(<< Call("apply", << V("incr"), ListExpr(<< NullLit >>) >>) >>),
    Source(<< Call("apply", << Two, NullLit >>) >>),
    Source(<< Cons2(One, Call("load", << Text("missing") >>)) >>),
    Source(<< Cons2(One, Call("load", << One >>)) >>),
    Source(<< Or(<< FalseLit, One >>) >>), Source(<< Cons2(One, And(<<>>)) >>),
    Source(<< Lambda(<< << "a", "::", "b" >> >>, << One >>) >>),
    << Fn("car"), Statement(One, TRUE) >>,
    << Statement(Cons2(One, Call("load", << Text("lib") >>)), TRUE),
       Statement(V("nowhere"), TRUE) >>,
    << Statement(Cons2(One, Call("load", << Text("lib") >>)), TRUE),
       Statement(Call("cdr", << Call("car", << NullLit >>) >>), TRUE) >> }

\* Builtins as values, rather than inlined.
FirstClass ==
  { Source(<< Let(<< Bind("f", V(x)) >>, << Application(V("f"), << Cons2(One, NullLit) >>) >>) >>)
      : x \in {"car", "cdr", "null?"} } \union
  { Source(<< Call("apply", << V("cons"), ListExpr(<< One, Two >>) >>) >>),
    Source(<< Let(<< Bind("f", V("car")) >>, << Application(V("f"), << One >>) >>) >>),
    << Statement(Call("load", << Text("empty") >>), TRUE) >> }

\* What the builtins compute: one session of all the expressions that have a value, and
\* one for each that throws.
Together(names, es) ==
  LET all      == << "cons", "car" >> \o names
      Alone(e) == Using(all, Source(<< e >>))
      values   == {e \in es : Meaning(Alone(e)).how = "value"}
  IN  {Alone(e) : e \in es \ values}
        \union {Using(all, Source(<< FoldSet(Cons2, NullLit, values) >>))}

\* Integers of either sign.
Signs == {-7, -2, 0, 2, 7}

Computations ==
  UNION {Together(<< f >>, {Call(f, << Number(m), Number(n) >>) : m \in Signs})
         : f \in {"+", "-", "*", "<", ">"}, n \in Signs} \union
  UNION {Together(<< f >>, {Call(f, << Number(m), Number(n) >>) : m \in Signs})
         : f \in {"/", "mod"}, n \in Signs \ {0}} \union
  UNION {Together(<< f >>, {Call(f, << Number(m) >>) : m \in Signs}) : f \in {"abs", "decr"}} \union
  Together(<< "+", "*" >>,
    {Call("+", <<>>), Call("+", << One, Two, Two >>), Call("*", << Two, NullLit, Two >>)})

\* Values of every type.
Pairs == { Cons2(One, Two), Cons2(One, Cons2(Two, Number(3))), ListExpr(<< One, Text("b"), NullLit >>) }
Atoms ==
  { NullLit, TrueLit, FalseLit, One, Two, Text("a"), Quoted("str", << "c", "a" >>),
    Quoted("sym", << "a" >>), Quoted("sym", << "b" >>), Literal([kind |-> "char", glyph |-> "a"]),
    Literal([kind |-> "float", whole |-> << "1" >>, part |-> << "5" >>]) }
Procedures == { V("car"), Fun(<< "x" >>, << One >>), Fun(<< "x", "..." >>, << One >>) }
Samples == Pairs \union Atoms \union Procedures

TypeTests == << "pair?", "boolean?", "integer?", "float?", "string?", "character?", "symbol?",
                  "function?", "not" >>

\* Types, equality, and lists and strings inside and outside their bounds.
Inspections ==
  UNION {Together(TypeTests, {Call(f, << v >>) : f \in Range(TypeTests)}) : v \in Samples} \union
  UNION {Together(<< "equal?" >>, {Call("equal?", << v, w >>) : w \in Atoms}) : v \in Atoms} \union
  Together(<< "equal?" >>, {Call("equal?", << v, w >>) : v \in {V("car"), Cons2(One, Two)},
                                                       w \in {V("car"), One}}) \union
  Together(<< "arity" >>, {Call("arity", << v >>) : v \in Procedures \union {One}}) \union
  Together(<< "length" >>, {Call("length", << v >>) : v \in Pairs \union {Text("a"), NullLit, One}}) \union
  UNION {Together(<< "get" >>, {Call("get", << v, Number(i) >>) : i \in -1..3})
         : v \in Pairs \union {Quoted("str", << "c", "a" >>)}} \union
  Together(<< "get" >>, {Call("get", << v, w >>) : v \in {NullLit, Text("a"), Cons2(One, Two)},
                                                  w \in {One, NullLit}})

\* Numbers that are none, text to evaluate that is none, and text.
Evaluated ==
  {Using(<< "cons", f >>, Source(<< Cons2(One, Call(f, << One, NullLit >>)) >>))
      : f \in {"+", "-", "/", "mod", "<", ">", "*"}} \union
  {Using(<< "cons", f >>, Source(<< Cons2(One, Call(f, << NullLit >>)) >>))
      : f \in {"abs", "decr", "eval-string"}} \union
  {Using(<< "cons", "apply", "eval-string", "+" >>,
     << Statement(Define("run", Fun(<< "x" >>,
          << Call("+", << V("x"), Call("eval-string", << Text("y") >>), V("x") >>) >>)), FALSE),
        Statement(Call("run", << Two >>), TRUE),
        Statement(Call("apply", << V("+"), ListExpr(<< One, Two, Number(3) >>) >>), TRUE) >>)}

Written ==
  {Prelude \o p : p \in {CountList, Counter, Variadic, Applying, Loading, Reentrant, Spaces, Quoting}
                          \union Failing \union FirstClass}

MCPrograms == Written \union Computations \union Inspections \union Evaluated \union SmallPrograms

\* All of these keep to the discipline.
ASSUME SessionsDisciplined == \A s \in Sessions : \A i \in DOMAIN s : ChunkOk(s[i])
=============================================================================
