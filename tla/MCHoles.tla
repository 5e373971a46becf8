------------------------------- MODULE MCHoles -------------------------------
(***************************************************************************)
(* Programs the parser accepts and for which the compiler does not keep to *)
(* the discipline, or the code reads a variable before it exists: empty    *)
(* bodies, recur outside tail position, definitions in a branch not taken, *)
(* a let that reads the name it binds.  Some of these programs run to a    *)
(* wrong value, some run into undefined behaviour, as does arithmetic that *)
(* overflows.  Beside them, every small program: for these the compiler    *)
(* does keep to it.                                                        *)
(***************************************************************************)
EXTENDS SmallPrograms, StackDiscipline

Empty == Begin(<<>>)
Twice(e) == Cons2(e, e)

\* pop_back meant for the last Discard takes a byte of something else.
EmptyBodies ==
  { Source(<< Empty >>),
    Source(<< Let(<<>>, <<>>) >>),
    Source(<< Cons2(One, Let(<<>>, <<>>)) >>),
    Source(<< Cons2(One, Let(<< Bind("b", Two) >>, <<>>)) >>),
    Source(<< Application(Fun(<<>>, <<>>), <<>>) >>),
    Source(<< Application(Fun(<< "x" >>, <<>>), << One >>),
              Application(Fun(<< "x" >>, <<>>), << Two >>) >>),
    Source(<< Application(Fun(<<>>, << Empty >>), <<>>), One >>),
    Source(<< Begin(<< One, Empty >>) >>),
    Source(<< Cons2(One, Empty) >>),
    Source(<< Namespace(<< "n" >>, <<>>) >>),
    Source(<< Begin(<< DefineMut("g", One), Assign("g", Two), Twice(Empty) >>) >>),
    Source(<< If(TrueLit, Empty, ListExpr([i \in 1..8 |-> One])) >>),
    Source(<< If(FalseLit, ListExpr([i \in 1..8 |-> One]), Empty) >>),
    Source(<< Call("car", << Begin(<< Let(<<>>, << NullLit >>), Empty >>) >>) >>) }

\* recur with an operand of an enclosing expression still on the stack.
InnerRecur ==
  { Source(<< Define("f", Fun(<< "x" >>,
                << Cons2(One, If(V("x"), Recur(<< FalseLit >>), V("x"))) >>)),
              Cons2(Two, Call("f", << TrueLit >>)) >>) }

\* Variables the scope holds and the frame does not.
Unbound ==
  { Source(<< If(FalseLit, Define("d", One), NullLit), V("d") >>),
    Source(<< If(FalseLit, Define("d", One), NullLit), Define("e", Two), V("e") >>),
    Source(<< Let(<< Bind("b", One) >>, << Let(<< Bind("b", V("b")) >>, << V("b") >>) >>) >>),
    Source(<< Define("d", V("d")) >>) }

\* A function that throws under a native caller, after consuming its arguments.
Thrown ==
  { Source(<< Call("apply", << Fun(<< "x", "y", "z" >>, << Call("car", << V("x") >>) >>),
                               ListExpr(<< One, One, One >>) >>) >>),
    Source(<< Call("apply", << Fun(<< "x", "y", "z", "w" >>,
                                 << Call("car", << V("x") >>) >>),
                               ListExpr(<< One, One, One, One >>) >>) >>) }

\* A documented variadic function.
Documented == { Source(<< DocFun(<< "..." >>, "doc", << V("...") >>) >>) }

\* Sums and products that leave the range of an integer, and divisions by zero.
Overflowing ==
  LET most == Number(MaxInteger) IN
  { Using(<< op >>, Source(<< Call(op, << most, Two >>) >>)) : op \in {"+", "*"} }
    \union { Using(<< op >>, Source(<< Call(op, << most, Number(0) >>) >>)) : op \in {"/", "mod"} }
    \union { Prelude \o Source(<< Cons2(One, Incr(most)) >>) }

With(ps) == {Prelude \o p : p \in ps}

Holes ==
  With(EmptyBodies \union InnerRecur \union Unbound \union Thrown \union Documented)
    \union Overflowing

CompiledSessions == {Compile(p, NewCompiler(b)) : p \in Programs, b \in BOOLEAN}

HoleSessions == {Compile(p, NewCompiler(b)) : p \in Holes, b \in BOOLEAN}

MCPrograms == Holes \union SmallPrograms

MCUnbound == With(Unbound)

\* The compiler keeps to the discipline, on which the machine relies blindly, for every
\* other program: empty bodies, a recur that is no tail call and names that have no
\* value yet are all that breaks it.
ProgramDisciplined ==
  session \in HoleSessions \/ CodeDisciplined

\* "The compiler will have already validated variable offsets" (environment.cpp:86).
OffsetsValidated == fault # "variable"
=============================================================================
