--------------------------- MODULE SourceSessions ---------------------------
(***************************************************************************)
(* Sessions given as source programs, compared with what Semantics says    *)
(* they mean.                                                              *)
(***************************************************************************)
EXTENDS SourcePrograms, Semantics

CONSTANT Meanings    \* the outcomes each session, a compiled program, may have

\* A program compiled, and what it means: an error if a statement does not compile.
Judged(p, chunks) ==
  [chunks  |-> chunks,
   outcome |-> IF \A i \in DOMAIN chunks : chunks[i].outcome = "ok"
               THEN Meaning(p) ELSE Fails(NewEvaluator)]

Compiled == {<< p, Compile(p, NewCompiler(b)) >> : p \in Programs, b \in BOOLEAN}

Cases == {Judged(c[1], c[2]) : c \in Compiled}

MCSessions == {c.chunks : c \in Cases}

\* Programs that compile to the same code had better mean the same.
MCMeanings ==
  LET cases == Cases
      Of(s) == {c \in cases : Last(c.chunks).code = Last(s).code /\ c.chunks = s}
  IN  [s \in {c.chunks : c \in cases} |-> {c.outcome : c \in Of(s)}]

\* A value of the machine is the value of the evaluator: functions by arity.
RECURSIVE Represents(_, _)
Represents(v, p) ==
  LET o == heap[p] IN
  CASE v.kind = "pair" -> o.kind = "pair" /\ Represents(v.car, o.car) /\ Represents(v.cdr, o.cdr)
    [] v.kind = "bool" -> p = IF v.b THEN True ELSE False
    [] v.kind = "null" -> p = Null
    [] v.kind = "fn" -> o.kind = "fn" /\ o.model = v.model
    [] OTHER -> o = v

\* Running a compiled session to its end gives the value the source means, and it
\* is cut short by an exception only when the source means an error.
MeansSource ==
  /\ mode = "idle" /\ todo = <<>> /\ callStack # <<>> =>
       \A m \in Meanings[session] : m.how = "value" /\ Represents(m.v, result)
  /\ mode = "exited" => \A m \in Meanings[session] : m.how = "error"

\* Every session comes to its end: the value of its last statement or an exception
\* that reaches main, through any number of calls, lets and loops.
Finishes ==
  <>(\/ mode = "exited"
     \/ mode = "idle" /\ todo = <<>> /\ callStack # <<>>)
=============================================================================
