---------------------------- MODULE MCCollector ----------------------------
(***************************************************************************)
(* Heaps and programs for TLC.                                             *)
(*                                                                         *)
(* A heap of a few words is enough for neighbouring gaps, gaps that are    *)
(* apart, and objects of different sizes between them; as objects die and  *)
(* their room is used again, each run goes through collections without     *)
(* end.  What a program may do is split by what the operations have in     *)
(* common: where their references are while the collector runs.            *)
(***************************************************************************)
EXTENDS Collection

\* The smallest sizes in the proportions of the C++ classes.
Words ==
  [k \in Kinds |-> IF k \in {"pair", "fn", "vfn"} THEN 2 ELSE 1]

\* Pairs and global variables: garbage in every pattern, no environments.
Lists == {"variables", "take", "cons"}

\* Functions made at the top level and their calls, lets, docstrings.
Functions == {"str", "variables", "set", "recur", "let", "lambda", "documented"}

\* Functions made anywhere.
Closures == {"variables", "set", "recur", "let", "lambda", "closures", "collect"}

\* Builtins, which get copies of their arguments; boxes, which make cycles;
\* characters of strings.
Natives == {"consBuiltin", "box", "variables", "take", "get", "string"}

\* Lists built by C++ code, and symbols.
Builders == {"variadicLambda", "variadic", "quote", "int", "str", "symbol"}

BothSides == {Below, Above}

OneEnvironment    == {1}
TwoEnvironments   == 1..2
ThreeEnvironments == 1..3
=============================================================================
