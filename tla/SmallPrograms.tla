---------------------------- MODULE SmallPrograms ----------------------------
(***************************************************************************)
(* Every program of a small grammar: two nested expressions over a global  *)
(* variable, the arguments of lambdas and the bindings of lets, with the   *)
(* recur of a loop at the end of any nesting of lets, begins and ifs.      *)
(* Bodies are not empty, recur is in tail position, definitions are        *)
(* statements of their own and no let reads the name it is binding:        *)
(* MCHoles and README say what happens otherwise.                          *)
(***************************************************************************)
EXTENDS SourcePrograms

\* Leaves: false and the variables in scope.
Leaf(xs) == {FalseLit} \union {V(x) : x \in xs}

\* Forms whose parts come from A and B; body parts have the name x more.
Forms(A, B, xs, Body(_)) ==
  {If(c, t, NullLit) : c \in A, t \in B} \union
  {Let(<< Bind("b", v) >>, << e >>) : v \in A \ {V("b")}, e \in Body(xs \union {"b"})} \union
  {Begin(<< p, q >>) : p \in A, q \in B} \union
  {Fun(<< "x" >>, << e >>) : e \in Body(xs \union {"x"})} \union
  {Fun(<< "x", "..." >>, << e >>) : e \in Body(xs \union {"x", "..."})} \union
  {Application(f, << p >>) : f \in A, p \in B} \union
  {Cons2(p, q) : p \in A, q \in B} \union
  {Assign("a", p) : p \in B}

Once(xs) == Forms(Leaf(xs), Leaf(xs), xs, Leaf)

Nested(xs) ==
  Forms(Once(xs), Leaf(xs), xs, Leaf) \union Forms(Leaf(xs), Once(xs), xs, Once)

\* Loops: x is true the first time round, false the second; the recur is under any
\* two forms.
Ends(xs, T) ==
  {If(c, FalseLit, t) : c \in Leaf(xs), t \in T} \union
  {If(c, t, V("x")) : c \in Leaf(xs), t \in T} \union
  {Let(<< Bind("b", v) >>, << t >>) : v \in Leaf(xs), t \in T} \union
  {Begin(<< p, t >>) : p \in Leaf(xs), t \in T}

Loops ==
  {Application(Fun(<< "x" >>, << If(V("x"), t, Cons2(V("x"), V("a"))) >>), << TrueLit >>) :
     t \in Ends({"a"}, Ends({"a", "x"}, {Recur(<< FalseLit >>)}))}

SmallPrograms ==
  { << Fn("cons") >> \o Source(<< DefineMut("a", One), e >>) : e \in Nested({"a"}) \union Loops }
=============================================================================
