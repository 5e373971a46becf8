------------------------------- MODULE InstructionProofs -------------------------------
(**************************************************************************************)
(* The inductive invariant of the machine and the lemmas that its proof uses: about   *)
(* sequences and code that keeps to the discipline, what a step that only lets the    *)
(* code and the memory grow leaves true of the call stack and of the C++ calls, and   *)
(* where an instruction finds the machine.  Then one lemma for each action of module  *)
(* VM but Exit and the calls of C++ functions: it keeps the invariant.                *)
(**************************************************************************************)
EXTENDS StackDiscipline, TLAPS

----------------------------------------------------------------------------------------
(* Sequences *)

\* Two bytes of code, the lower first, are an offset.
LEMMA TwoBytes ==
  ASSUME NEW c, NEW a, c[a] \in 0..255, c[a + 1] \in 0..255
  PROVE  U16(c, a) \in Nat
<1> DEFINE y == c[a]
           z == c[a + 1]
<1>1. y \in 0..255 /\ z \in 0..255
  OBVIOUS
<1> HIDE DEF y, z
<1>2. y + 256 * z \in Nat
  BY <1>1
<1> QED
  BY <1>2 DEF U16, y, z

\* A sequence of elements of a set is one of any larger set.
LEMMA SeqMono ==
  ASSUME NEW S, NEW T, S \subseteq T, NEW s \in Seq(S)
  PROVE  s \in Seq(T)
OBVIOUS

\* What Append does.
LEMMA AppendFacts ==
  ASSUME NEW S, NEW s \in Seq(S), NEW x \in S
  PROVE  /\ Append(s, x) \in Seq(S)
         /\ Len(Append(s, x)) = Len(s) + 1
         /\ \A i \in 1..Len(s) : Append(s, x)[i] = s[i]
         /\ Append(s, x)[Len(s) + 1] = x
OBVIOUS

\* What is left when elements are taken off the end.
LEMMA PrefixFacts ==
  ASSUME NEW S, NEW s \in Seq(S), NEW n \in 0..Len(s)
  PROVE  /\ SubSeq(s, 1, n) \in Seq(S)
         /\ Len(SubSeq(s, 1, n)) = n
         /\ \A i \in 1..n : SubSeq(s, 1, n)[i] = s[i]
OBVIOUS

\* What Front does.
LEMMA FrontFacts ==
  ASSUME NEW S, NEW s \in Seq(S), s # <<>>
  PROVE  /\ Front(s) \in Seq(S)
         /\ Len(Front(s)) = Len(s) - 1
         /\ \A i \in 1..(Len(s) - 1) : Front(s)[i] = s[i]
<1>1. Len(s) - 1 \in 0..Len(s)
  OBVIOUS
<1> QED
  BY <1>1, PrefixFacts DEF Front

\* What Tail and Head do.
LEMMA TailFacts ==
  ASSUME NEW S, NEW s \in Seq(S), s # <<>>
  PROVE  /\ Tail(s) \in Seq(S)
         /\ Len(Tail(s)) = Len(s) - 1
         /\ \A i \in 1..(Len(s) - 1) : Tail(s)[i] = s[i + 1]
         /\ Head(s) = s[1]
         /\ 1 \in DOMAIN s
OBVIOUS

\* What concatenation does.
LEMMA ConcatFacts ==
  ASSUME NEW S, NEW s \in Seq(S), NEW t \in Seq(S)
  PROVE  /\ s \o t \in Seq(S)
         /\ Len(s \o t) = Len(s) + Len(t)
         /\ \A i \in 1..Len(s) : (s \o t)[i] = s[i]
         /\ \A i \in 1..Len(t) : (s \o t)[Len(s) + i] = t[i]
OBVIOUS

----------------------------------------------------------------------------------------
(* Code *)

\* The byte of the Exit that Context's constructor leaves in the program.
LEMMA ExitByte == Encode("Exit") = 0 /\ Decode(0) = "Exit"
BY DEF Encode, Decode, OpcodeList

\* A byte that is no opcode is told apart from those that are.
LEMMA NoOpcode == "undefined" \notin Opcodes
<1>1. \A i \in 1..28 : OpcodeList[i] # "undefined"
  BY DEF OpcodeList
<1>2. DOMAIN OpcodeList = 1..28
  BY DEF OpcodeList
<1> QED
  BY <1>1, <1>2 DEF Opcodes, ToSet

\* An instruction is 1 to 5 bytes long.
LEMMA WidthRange == ASSUME NEW op PROVE Width(op) \in 1..5
BY DEF Width

\* Where control is after an instruction that neither jumps nor ends its body.
LEMMA FlowsOn ==
  ASSUME NEW c, NEW s, Disciplined(c, s), NEW a \in DOMAIN c, s[a].body # "none",
         Decode(c[a]) \notin {"Exit", "Return", "Recur", "Jump"}
  PROVE  LET b == a + Width(Decode(c[a])) IN
         /\ b \in DOMAIN c
         /\ s[b] = [body   |-> s[a].body,
                    at     |-> s[a].at + Width(Decode(c[a])),
                    depth  |-> s[a].depth + Opens(c, a),
                    height |-> s[a].height - Consumes(c, a) + Produces(c, a)]
<1> DEFINE b == a + Width(Decode(c[a]))
<1>1. Onward(c, a, s[a], b) \in Successors(c, a, s[a])
  BY DEF Successors, LambdaOps
<1>2. Onward(c, a, s[a], b).to \in DOMAIN c /\ s[Onward(c, a, s[a], b).to] = Onward(c, a, s[a], b).shape
  BY <1>1 DEF Disciplined, CellOk
<1>3. b - a = Width(Decode(c[a]))
  BY WidthRange DEF Disciplined
<1> QED
  BY <1>2, <1>3 DEF Onward

\* The parameters of an instruction of disciplined code are bytes of the code.
LEMMA ParameterBytes ==
  ASSUME NEW c, NEW s, Disciplined(c, s), NEW a \in DOMAIN c, s[a].body # "none"
  PROVE  /\ Decode(c[a]) \in Opcodes
         /\ \A i \in 0..(Width(Decode(c[a])) - 1) : a + i \in DOMAIN c /\ c[a + i] \in Byte
<1>1. /\ Decode(c[a]) \in Opcodes /\ a + Width(Decode(c[a])) - 1 \in DOMAIN c
      /\ c \in Seq(Byte)
  BY DEF Disciplined, CellOk
<1>2. Width(Decode(c[a])) \in 1..5
  BY WidthRange
<1> QED
  BY <1>1, <1>2

\* What an instruction does depends on its bytes alone; where it goes to moves with
\* it.
LEMMA SameBytes ==
  ASSUME NEW c, NEW d, NEW a \in Int, NEW b \in Int,
         NEW w, w = Width(Decode(c[a])),
         \A i \in 0..(w - 1) : d[b + i] = c[a + i]
  PROVE  /\ Decode(d[b]) = Decode(c[a])
         /\ w > 1 => U8(d, b + 1) = U8(c, a + 1)
         /\ w > 2 => U16(d, b + 1) = U16(c, a + 1)
         /\ Consumes(d, b) = Consumes(c, a)
<1>1. w \in 1..5
  BY WidthRange
<1>2. d[b] = c[a]
  <2>1. d[b + 0] = c[a + 0]
    BY <1>1
  <2> QED
    BY <2>1
<1>3. w > 1 => U8(d, b + 1) = U8(c, a + 1)
  BY <1>1 DEF U8
<1>4. w > 2 => U16(d, b + 1) = U16(c, a + 1)
  <2> SUFFICES ASSUME w > 2 PROVE d[b + 1] = c[a + 1] /\ d[(b + 1) + 1] = c[(a + 1) + 1]
    BY DEF U16
  <2>1. d[b + 1] = c[a + 1] /\ d[b + 2] = c[a + 2]
    BY <1>1
  <2>2. (b + 1) + 1 = b + 2 /\ (a + 1) + 1 = a + 2
    OBVIOUS
  <2> QED
    BY <2>1, <2>2
<1>5. Decode(c[a]) = "Call" => w > 1
  BY DEF Width
<1> QED
  BY <1>2, <1>3, <1>4, <1>5 DEF Consumes

\* The successors of an instruction: the next one, the target of a jump and the
\* body of a lambda.
LEMMA SuccessorCases ==
  ASSUME NEW c, NEW a, NEW x, NEW z
  PROVE  LET op == Decode(c[a])
             b  == a + Width(op)
         IN  z \in Successors(c, a, x) <=>
               \/ /\ op \notin {"Exit", "Return", "Recur", "Jump"}
                  /\ z = Onward(c, a, x, b)
               \/ /\ op \in {"Jump", "JumpIfFalse"}
                  /\ z = Onward(c, a, x, b + U16(c, a + 1))
               \/ op \in LambdaOps /\ z = LambdaBody(c, a)
<1> DEFINE op == Decode(c[a])
           b  == a + Width(op)
           j  == b + U16(c, a + 1)
<1>1. Successors(c, a, x) =
        CASE op \in {"Exit", "Return", "Recur"} -> {}
          [] op = "Jump" -> {Onward(c, a, x, j)}
          [] op = "JumpIfFalse" -> {Onward(c, a, x, b), Onward(c, a, x, j)}
          [] op \in LambdaOps -> {Onward(c, a, x, b), LambdaBody(c, a)}
          [] OTHER -> {Onward(c, a, x, b)}
  BY DEF Successors
<1> HIDE DEF op, b, j
<1>2. z \in Successors(c, a, x) <=>
               \/ /\ op \notin {"Exit", "Return", "Recur", "Jump"}
                  /\ z = Onward(c, a, x, b)
               \/ /\ op \in {"Jump", "JumpIfFalse"}
                  /\ z = Onward(c, a, x, j)
               \/ op \in LambdaOps /\ z = LambdaBody(c, a)
  BY <1>1 DEF LambdaOps
<1> QED
  BY <1>2 DEF op, b, j

\* An instruction that keeps to the discipline does so wherever it is, together with
\* everything it can reach: the code c is found in the code d, n bytes further on.
LEMMA Moved ==
  ASSUME NEW c, NEW s, Disciplined(c, s), NEW d, NEW t, NEW n \in Nat,
         \A i \in DOMAIN c : i + n \in DOMAIN d /\ d[i + n] = c[i] /\ t[i + n] = s[i],
         NEW a \in DOMAIN c
  PROVE  CellOk(d, t, a + n)
<1> SUFFICES ASSUME s[a].body # "none" PROVE CellOk(d, t, a + n)
  BY DEF CellOk
<1> DEFINE op == Decode(c[a])
           w  == Width(op)
<1>1. /\ a \in Nat /\ w \in 1..5 /\ op \in Opcodes
      /\ \A i \in 0..(w - 1) : a + i \in DOMAIN c /\ c[a + i] \in Byte
  <2>1. /\ op \in Opcodes
        /\ \A i \in 0..(w - 1) : a + i \in DOMAIN c /\ c[a + i] \in Byte
    BY ParameterBytes
  <2>2. c \in Seq(Byte)
    BY DEF Disciplined
  <2>3. w \in 1..5
    BY WidthRange
  <2> QED
    BY <2>1, <2>2, <2>3
<1>2. \A i \in 0..(w - 1) : d[(a + n) + i] = c[a + i] /\ (a + n) + i \in DOMAIN d
  BY <1>1
<1>3. /\ Decode(d[a + n]) = op
      /\ w > 1 => U8(d, (a + n) + 1) = U8(c, a + 1)
      /\ w > 2 => U16(d, (a + n) + 1) = U16(c, a + 1)
      /\ Consumes(d, a + n) = Consumes(c, a)
  <2> HIDE DEF w, op
  <2> QED
    BY <1>1, <1>2, SameBytes DEF w, op
<1>4. t[a + n] = s[a]
  OBVIOUS
<1>5. CellOk(c, s, a)
  BY DEF Disciplined
<1>6. Closed(d, t, a + n)
  <2>1. op = "PushVariadicLambda" => w > 1
    BY DEF Width
  <2>2. op = "Recur" => t[(a + n) - s[a].at] = s[a - s[a].at] /\ (a + n) - s[a].at \in DOMAIN d
    <3>1. s[a].at \in Int
      <4>1. s \in Seq(Shape) /\ a \in DOMAIN s
        BY DEF Disciplined
      <4>2. s[a] \in Shape
        BY <4>1
      <4> QED
        BY <4>2 DEF Shape
    <3> QED
      BY <1>1, <1>5, <3>1 DEF CellOk, Closed
  <2> QED
    BY <1>3, <1>4, <1>5, <2>1, <2>2 DEF CellOk, Closed
<1>7. \A z \in Successors(d, a + n, t[a + n]) : z.to \in DOMAIN d /\ t[z.to] = z.shape
  <2> DEFINE x == s[a]
             \* Onward within d is Onward within c, moved.
             Lands(b) == /\ Onward(c, a, x, b).to \in DOMAIN c
                         /\ s[Onward(c, a, x, b).to] = Onward(c, a, x, b).shape
             LandsThere(b) == /\ Onward(d, a + n, x, b + n).to \in DOMAIN d
                              /\ t[Onward(d, a + n, x, b + n).to] = Onward(d, a + n, x, b + n).shape
  <2>1. Opens(d, a + n) = Opens(c, a) /\ Produces(d, a + n) = Produces(c, a)
    BY <1>3 DEF Opens, Produces
  <2>2. ASSUME NEW b \in Int, Lands(b) PROVE LandsThere(b)
    <3>1. (b + n) - (a + n) = b - a
      BY <1>1
    <3> QED
      BY <1>3, <2>1, <2>2, <3>1 DEF Onward
  <2>3. \A z \in Successors(c, a, x) : z.to \in DOMAIN c /\ s[z.to] = z.shape
    BY <1>5 DEF CellOk
  <2>4. w > 2 => U16(c, a + 1) \in Nat
    <3> SUFFICES ASSUME w > 2 PROVE U16(c, a + 1) \in Nat
      OBVIOUS
    <3>1. c[a + 1] \in 0..255 /\ c[a + 2] \in 0..255 /\ (a + 1) + 1 = a + 2
      BY <1>1 DEF Byte
    <3> QED
      BY <3>1, TwoBytes
  <2>5. /\ op \in {"Jump", "JumpIfFalse"} \union LambdaOps => w > 1
        /\ op \in {"Jump", "JumpIfFalse"} => w > 2
    BY DEF Width, LambdaOps
  <2> SUFFICES ASSUME NEW z \in Successors(d, a + n, x)
               PROVE  z.to \in DOMAIN d /\ t[z.to] = z.shape
    BY <1>4
  <2>6. \/ z = Onward(d, a + n, x, (a + n) + w) /\ Lands(a + w)
        \/ /\ op \in {"Jump", "JumpIfFalse"}
           /\ z = Onward(d, a + n, x, (a + n) + w + U16(d, (a + n) + 1))
           /\ Lands(a + w + U16(c, a + 1))
        \/ /\ op \in LambdaOps /\ z = LambdaBody(d, a + n)
           /\ LambdaBody(c, a).to \in DOMAIN c /\ s[LambdaBody(c, a).to] = LambdaBody(c, a).shape
    BY <1>3, <2>3, SuccessorCases
  <2>7. CASE z = Onward(d, a + n, x, (a + n) + w) /\ Lands(a + w)
    <3>1. LandsThere(a + w) /\ (a + n) + w = a + w + n
      BY <1>1, <2>2, <2>7
    <3> QED
      BY <2>7, <3>1
  <2>8. CASE /\ op \in {"Jump", "JumpIfFalse"}
             /\ z = Onward(d, a + n, x, (a + n) + w + U16(d, (a + n) + 1))
             /\ Lands(a + w + U16(c, a + 1))
    <3>1. w > 2
      BY <2>5, <2>8
    <3>2. LandsThere(a + w + U16(c, a + 1))
      BY <1>1, <2>2, <2>4, <2>8, <3>1
    <3>3. (a + n) + w + U16(d, (a + n) + 1) = a + w + U16(c, a + 1) + n
      BY <1>1, <1>3, <2>4, <3>1
    <3> QED
      BY <2>8, <3>2, <3>3
  <2>9. CASE /\ op \in LambdaOps /\ z = LambdaBody(d, a + n)
             /\ LambdaBody(c, a).to \in DOMAIN c /\ s[LambdaBody(c, a).to] = LambdaBody(c, a).shape
    <3>1. w > 1
      BY <2>5, <2>9
    <3>2. /\ LambdaBody(d, a + n).to = LambdaBody(c, a).to + n
          /\ LambdaBody(d, a + n).shape = LambdaBody(c, a).shape
      BY <1>1, <1>3, <3>1 DEF LambdaBody, JumpSize
    <3> QED
      BY <2>9, <3>2
  <2> QED
    BY <2>6, <2>7, <2>8, <2>9
<1>8. (a + n) + w - 1 \in DOMAIN d
  BY <1>1, <1>2
<1> QED
  BY <1>1, <1>3, <1>4, <1>5, <1>6, <1>7, <1>8 DEF CellOk

\* Chunks of disciplined code one after the other are disciplined.
LEMMA ConcatDisciplined ==
  ASSUME NEW c, NEW s, Disciplined(c, s), NEW d, NEW t, Disciplined(d, t)
  PROVE  Disciplined(c \o d, s \o t)
<1>1. /\ c \in Seq(Byte) /\ d \in Seq(Byte) /\ s \in Seq(Shape) /\ t \in Seq(Shape)
      /\ Len(s) = Len(c) /\ Len(t) = Len(d)
  BY DEF Disciplined
<1>2. /\ c \o d \in Seq(Byte) /\ Len(c \o d) = Len(c) + Len(d)
      /\ \A i \in 1..Len(c) : (c \o d)[i] = c[i]
      /\ \A i \in 1..Len(d) : (c \o d)[Len(c) + i] = d[i]
  BY <1>1
<1>3. /\ s \o t \in Seq(Shape) /\ Len(s \o t) = Len(c) + Len(d)
      /\ \A i \in 1..Len(c) : (s \o t)[i] = s[i]
      /\ \A i \in 1..Len(d) : (s \o t)[Len(c) + i] = t[i]
  <2>1. /\ s \o t \in Seq(Shape) /\ Len(s \o t) = Len(s) + Len(t)
        /\ \A i \in 1..Len(s) : (s \o t)[i] = s[i]
        /\ \A i \in 1..Len(t) : (s \o t)[Len(s) + i] = t[i]
    <3>1. s \in Seq(Shape) /\ t \in Seq(Shape)
      BY <1>1
    <3> HIDE DEF Shape
    <3> QED
      BY <3>1
  <2> QED
    BY <1>1, <2>1
<1>4. /\ \A i \in DOMAIN c : i + 0 \in DOMAIN (c \o d) /\ (c \o d)[i + 0] = c[i]
                              /\ (s \o t)[i + 0] = s[i]
      /\ \A i \in DOMAIN d : i + Len(c) \in DOMAIN (c \o d) /\ (c \o d)[i + Len(c)] = d[i]
                              /\ (s \o t)[i + Len(c)] = t[i]
  BY <1>1, <1>2, <1>3, SMTT(30)
<1>5. \A i \in DOMAIN c : CellOk(c \o d, s \o t, i + 0)
  BY <1>4, Moved
<1>6. \A i \in DOMAIN d : CellOk(c \o d, s \o t, i + Len(c))
  <2>1. Len(c) \in Nat
    BY <1>1
  <2> QED
    BY <1>4, <2>1, Moved
<1>7. ASSUME NEW a \in DOMAIN (c \o d) PROVE CellOk(c \o d, s \o t, a)
  <2>1. CASE a <= Len(c)
    <3>1. a \in DOMAIN c /\ a + 0 = a
      BY <1>1, <1>2, <2>1
    <3> QED
      BY <1>5, <3>1
  <2>2. CASE a > Len(c)
    <3>1. a - Len(c) \in DOMAIN d /\ (a - Len(c)) + Len(c) = a
      BY <1>1, <1>2, <2>2
    <3> QED
      BY <1>6, <3>1
  <2> QED
    BY <1>1, <1>2, <2>1, <2>2
<1> QED
  BY <1>2, <1>3, <1>7 DEF Disciplined

------------------------------------------------------------------------------------
(* The builtins *)

\* Their names: those that only compute, apply, and those that run more code; the C++
\* calls of the embedder are none of them.
LEMMA BuiltinNames ==
  /\ DOMAIN Computing \subseteq Builtins /\ Loaders \subseteq Builtins
  /\ "apply" \in Builtins /\ "load" \in Builtins
  /\ "exec" \notin Builtins /\ "setGlobal" \notin Builtins
  /\ "apply" \notin DOMAIN Computing /\ "apply" \notin Loaders
  /\ Loaders \intersect DOMAIN Computing = {}
  /\ Builtins = DOMAIN Computing \union {"apply"} \union Loaders
<1>1. Builtins = DOMAIN Computing \union {"apply"} \union Loaders
  BY DEF Builtins, Required
<1>2. /\ "apply" \notin DOMAIN Computing /\ "exec" \notin DOMAIN Computing
      /\ "setGlobal" \notin DOMAIN Computing
      /\ "load" \notin DOMAIN Computing /\ "eval-string" \notin DOMAIN Computing
  BY DEF Computing, Kind, Arithmetic
<1> QED
  BY <1>1, <1>2 DEF Loaders

\* How many arguments they require.
LEMMA RequiredRange ==
  ASSUME NEW name \in Builtins
  PROVE  /\ Required[name] \in {0, 1, 2}
         /\ name = "apply" => Required[name] = 2
         /\ name \in Loaders => Required[name] = 1
         /\ name \in DOMAIN Computing => Required[name] = Computing[name]
<1>1. \A n \in DOMAIN Computing : Computing[n] \in {0, 1, 2}
  BY DEF Computing
<1>2. name \in DOMAIN Computing => Required[name] = Computing[name]
  BY DEF Required, Builtins
<1>3. name \notin DOMAIN Computing => Required[name] = IF name = "apply" THEN 2 ELSE 1
  BY DEF Required, Builtins
<1> QED
  BY <1>1, <1>2, <1>3, BuiltinNames

------------------------------------------------------------------------------------
(* Code and memory that grow *)

IInv == TypeOK /\ Discipline

CodeGrows ==
  /\ \A a \in DOMAIN program :
       a \in DOMAIN program' /\ program'[a] = program[a] /\ shape'[a] = shape[a]

MemoryGrows ==
  /\ \A v \in DOMAIN heap : v \in DOMAIN heap' /\ heap'[v] = heap[v]
  /\ \A e \in DOMAIN frames : e \in DOMAIN frames' /\ frames'[e].parent = frames[e].parent

\* What both a step's old and its new stack hold is the same.
EntriesKept ==
  \A k \in DOMAIN callStack \intersect DOMAIN callStack' :
    callStack'[k] = callStack[k] /\ site'[k] = site[k]

HostsKept ==
  \A j \in DOMAIN host \intersect DOMAIN host' :
    /\ host'[j].kind = host[j].kind /\ host'[j].start = host[j].start
    /\ host'[j].argc = host[j].argc /\ host'[j].owned = host[j].owned
    /\ host'[j].ip = host[j].ip /\ host'[j].env = host[j].env
    /\ host'[j].level = host[j].level
    /\ host'[j].params = host[j].params \/ (j = Len(host) /\ host[j].kind = "apply")

\* When code and memory grow, what was a reference, an entry or a C++ call is one still.
LEMMA TypesGrow ==
  ASSUME TypeOK, CodeGrows, MemoryGrows
  PROVE  /\ DOMAIN program \subseteq DOMAIN program'
         /\ DOMAIN heap \subseteq DOMAIN heap' /\ DOMAIN frames \subseteq DOMAIN frames'
         /\ EntryType \subseteq EntryType' /\ HostType \subseteq HostType'
         /\ immediates \in Seq(DOMAIN heap')
         /\ operandStack \in Seq(DOMAIN heap')
         /\ callStack \in Seq(EntryType') /\ host \in Seq(HostType')
         /\ env \in DOMAIN frames' /\ result \in DOMAIN heap'
         /\ \A v \in DOMAIN heap : ObjectOk(heap[v])'
         /\ \A e \in DOMAIN frames : frames[e].vars \in Seq(DOMAIN heap')
<1>1. /\ DOMAIN program \subseteq DOMAIN program'
      /\ DOMAIN heap \subseteq DOMAIN heap' /\ DOMAIN frames \subseteq DOMAIN frames'
  BY DEF CodeGrows, MemoryGrows
<1>2. EntryType \subseteq EntryType'
  BY <1>1 DEF EntryType
<1>3. HostType \subseteq HostType'
  BY <1>1 DEF HostType
<1>4. /\ immediates \in Seq(DOMAIN heap')
      /\ operandStack \in Seq(DOMAIN heap')
      /\ callStack \in Seq(EntryType') /\ host \in Seq(HostType')
  BY <1>1, <1>2, <1>3, SeqMono DEF TypeOK, CodeTypes, StackTypes
<1>5. /\ \A v \in DOMAIN heap : ObjectOk(heap[v])'
  BY <1>1 DEF TypeOK, MemoryTypes, ObjectOk, MemoryGrows
<1>6. \A e \in DOMAIN frames : frames[e].vars \in Seq(DOMAIN heap')
  BY <1>1, SeqMono DEF TypeOK, MemoryTypes, FrameOk
<1> QED
  BY <1>1, <1>2, <1>3, <1>4, <1>5, <1>6 DEF TypeOK, LocalTypes

\* Memory that is not touched is as good in a longer program.
LEMMA MemoryKept ==
  ASSUME TypeOK, CodeGrows, UNCHANGED memory
  PROVE  MemoryTypes' /\ MemoryGrows
<1>1. MemoryGrows
  BY DEF MemoryGrows, memory
<1>2. /\ \A v \in DOMAIN heap : ObjectOk(heap[v])'
      /\ \A e \in DOMAIN frames : FrameOk(e)'
  BY <1>1, TypesGrow DEF FrameOk, TypeOK, MemoryTypes, memory
<1> QED
  BY <1>1, <1>2 DEF TypeOK, MemoryTypes, memory

\* New objects.
LEMMA HeapGrows ==
  ASSUME TypeOK, CodeGrows, UNCHANGED frames, NEW objs \in Seq(Object),
         heap' = heap \o objs, \A k \in DOMAIN objs : ObjectOk(objs[k])'
  PROVE  MemoryTypes' /\ MemoryGrows
<1>1. /\ heap' \in Seq(Object) /\ Len(heap') = Len(heap) + Len(objs)
      /\ \A v \in DOMAIN heap : heap'[v] = heap[v]
      /\ \A k \in DOMAIN objs : heap'[Len(heap) + k] = objs[k]
  <2> HIDE DEF Object
  <2>1. heap \in Seq(Object)
    BY DEF TypeOK, MemoryTypes
  <2> QED
    BY <2>1, ConcatFacts
<1>2. MemoryGrows
  BY <1>1 DEF MemoryGrows, TypeOK, MemoryTypes
<1>3. ASSUME NEW v \in DOMAIN heap' PROVE ObjectOk(heap[v])'
  <2>1. CASE v \in DOMAIN heap
    BY <1>1, <1>2, <2>1, TypesGrow
  <2>2. CASE v \notin DOMAIN heap
    <3>1. v - Len(heap) \in DOMAIN objs /\ Len(heap) + (v - Len(heap)) = v
      BY <1>1, <2>2 DEF TypeOK, MemoryTypes
    <3>2. heap'[v] = objs[v - Len(heap)]
      BY <1>1, <3>1
    <3> QED
      BY <3>1, <3>2
  <2> QED
    BY <2>1, <2>2
<1>4. \A e \in DOMAIN frames : FrameOk(e)'
  BY <1>2, TypesGrow DEF FrameOk, TypeOK, MemoryTypes
<1> QED
  BY <1>1, <1>2, <1>3, <1>4 DEF TypeOK, MemoryTypes

\* One new object.
LEMMA ObjectAllocated ==
  ASSUME TypeOK, CodeGrows, NEW o \in Object, ObjectOk(o)', Allocate(o)
  PROVE  /\ MemoryTypes' /\ MemoryGrows
         /\ Allocated \in DOMAIN heap' /\ heap'[Allocated] = o
         /\ Len(heap') = Len(heap) + 1
<1>1. heap' = heap \o << o >> /\ UNCHANGED frames /\ << o >> \in Seq(Object)
  <2>1. heap \in Seq(Object)
    BY DEF TypeOK, MemoryTypes
  <2> HIDE DEF Object
  <2> QED
    BY <2>1 DEF Allocate
<1>2. \A k \in DOMAIN << o >> : ObjectOk(<< o >>[k])'
  OBVIOUS
<1>3. MemoryTypes' /\ MemoryGrows
  BY <1>1, <1>2, HeapGrows
<1>4. heap' = Append(heap, o) /\ heap \in Seq(Object)
  BY DEF TypeOK, MemoryTypes, Allocate
<1> QED
  <2> HIDE DEF Object
  <2> QED
    BY <1>3, <1>4, AppendFacts DEF Allocated

\* A new environment, and perhaps new pairs.
LEMMA FrameAllocated ==
  ASSUME TypeOK, UNCHANGED << program, shape >>, NEW e \in DOMAIN frames,
         frames' = Append(frames, Frame(e)),
         heap' \in Seq(Object),
         \A v \in DOMAIN heap : v \in DOMAIN heap' /\ heap'[v] = heap[v],
         \A v \in DOMAIN heap' \ DOMAIN heap :
           heap'[v].kind = "pair" /\ heap'[v].car \in DOMAIN heap' /\ heap'[v].cdr \in DOMAIN heap'
  PROVE  /\ MemoryTypes' /\ MemoryGrows
         /\ Len(frames) + 1 \in DOMAIN frames'
         /\ frames'[Len(frames) + 1].parent = e
<1> DEFINE F == [parent : Nat, vars : Seq(Nat)]
<1>1. frames \in Seq(F) /\ Frame(e) \in F /\ e \in Nat
  BY DEF TypeOK, MemoryTypes, Frame
<1>2. /\ frames' \in Seq(F) /\ Len(frames') = Len(frames) + 1
      /\ \A i \in 1..Len(frames) : frames'[i] = frames[i]
      /\ frames'[Len(frames) + 1] = Frame(e)
  <2> HIDE DEF F
  <2> QED
    BY <1>1, AppendFacts
<1>3. MemoryGrows
  BY <1>1, <1>2, SMTT(30) DEF MemoryGrows
<1>4. CodeGrows
  BY DEF CodeGrows
<1>5. ASSUME NEW v \in DOMAIN heap' PROVE ObjectOk(heap[v])'
  <2>1. CASE v \in DOMAIN heap
    BY <1>3, <1>4, <2>1, TypesGrow
  <2>2. CASE v \notin DOMAIN heap
    BY <2>2 DEF ObjectOk
  <2> QED
    BY <2>1, <2>2
<1>6. ASSUME NEW i \in DOMAIN frames' PROVE FrameOk(i)'
  <2>1. CASE i \in DOMAIN frames
    <3>1. frames'[i] = frames[i]
      BY <1>1, <1>2, <2>1
    <3>2. frames[i].vars \in Seq(DOMAIN heap')
      BY <1>3, <1>4, <2>1, TypesGrow
    <3>3. FrameOk(i)
      BY <2>1 DEF TypeOK, MemoryTypes
    <3> QED
      BY <3>1, <3>2, <3>3 DEF FrameOk
  <2>2. CASE i = Len(frames) + 1
    <3>1. /\ frames'[i].parent = e /\ frames'[i].vars = <<>>
          /\ i - 1 = Len(frames) /\ e \in 0..Len(frames)
      <4>1. frames'[i] = Frame(e)
        BY <1>2, <2>2
      <4> QED
        BY <1>1, <2>2, <4>1 DEF Frame
    <3>2. <<>> \in Seq(DOMAIN heap')
      OBVIOUS
    <3> QED
      BY <3>1, <3>2 DEF FrameOk
  <2>3. i \in DOMAIN frames \/ i = Len(frames) + 1
    <3> HIDE DEF F
    <3> QED
      BY <1>1, <1>2
  <2> QED
    BY <2>1, <2>2, <2>3
<1>7. /\ Len(frames) + 1 \in DOMAIN frames' /\ frames' # <<>>
      /\ frames'[Len(frames) + 1].parent = e
  <2>1. Frame(e).parent = e
    BY DEF Frame
  <2> HIDE DEF F
  <2> QED
    BY <1>1, <1>2, <2>1
<1>8. Len(heap') >= 3
  <2>1. 3 \in DOMAIN heap'
    BY DEF TypeOK, MemoryTypes
  <2> HIDE DEF Object
  <2> QED
    BY <2>1
<1> QED
  BY <1>2, <1>3, <1>5, <1>6, <1>7, <1>8 DEF MemoryTypes

\* New variables in an environment.
LEMMA FrameWritten ==
  ASSUME TypeOK, UNCHANGED << heap, program, shape >>, NEW e \in DOMAIN frames,
         NEW vs \in Seq(DOMAIN heap),
         frames' = [frames EXCEPT ![e].vars = vs]
  PROVE  MemoryTypes' /\ MemoryGrows
<1> DEFINE F == [parent : Nat, vars : Seq(Nat)]
<1>1. frames \in Seq(F) /\ vs \in Seq(Nat)
  <2>1. DOMAIN heap \subseteq Nat
    BY DEF TypeOK, MemoryTypes
  <2> QED
    BY <2>1, SeqMono DEF TypeOK, MemoryTypes
<1>2. [frames[e] EXCEPT !.vars = vs] \in F
  <2>1. frames[e] \in F
    <3> HIDE DEF F
    <3> QED
      BY <1>1
  <2>2. \A f \in F : [f EXCEPT !.vars = vs] \in F
    BY <1>1
  <2> QED
    BY <2>1, <2>2
<1>3. /\ frames' \in Seq(F) /\ Len(frames') = Len(frames)
      /\ \A i \in DOMAIN frames : i # e => frames'[i] = frames[i]
      /\ frames'[e] = [frames[e] EXCEPT !.vars = vs]
  <2>1. frames' = [frames EXCEPT ![e] = [frames[e] EXCEPT !.vars = vs]]
    OBVIOUS
  <2> HIDE DEF F
  <2> QED
    BY <1>1, <1>2, <2>1
<1>4. \A i \in DOMAIN frames : frames'[i].parent = frames[i].parent
  BY <1>1, <1>3
<1>5. MemoryGrows /\ CodeGrows
  BY <1>1, <1>3, <1>4 DEF MemoryGrows, CodeGrows
<1>6. ASSUME NEW i \in DOMAIN frames' PROVE FrameOk(i)'
  BY <1>1, <1>3, <1>4, SMTT(30) DEF FrameOk, TypeOK, MemoryTypes
<1>7. \A v \in DOMAIN heap : ObjectOk(heap[v])'
  BY <1>5, TypesGrow
<1> QED
  BY <1>1, <1>3, <1>5, <1>6, <1>7 DEF TypeOK, MemoryTypes

------------------------------------------------------------------------------------
(* The relation that stays *)

\* What the lemmas about the stacks assume of a step.
Evolves ==
  /\ TypeOK /\ TypeOK' /\ CodeGrows /\ MemoryGrows /\ EntriesKept /\ HostsKept
  /\ Len(site) = Len(callStack) /\ Len(site') = Len(callStack')

\* A point where an activation can go on remains one.
LEMMA ResumesStays ==
  ASSUME Evolves, NEW k, NEW a, NEW n, Resumes(k, a, n), k \in DOMAIN site'
  PROVE  Resumes(k, a, n)'
<1>1. k \in DOMAIN callStack /\ k \in DOMAIN callStack'
  BY DEF Evolves, Resumes, TypeOK, StackTypes
<1>2. site'[k] = site[k]
  BY <1>1 DEF Evolves, EntriesKept
<1>3. a \in DOMAIN program' /\ shape'[a] = shape[a]
  BY DEF Evolves, CodeGrows, Resumes
<1> QED
  BY <1>2, <1>3 DEF Resumes

\* An entry that stays on the call stack keeps its place in the relation.
LEMMA SiteStays ==
  ASSUME Evolves, NEW i \in DOMAIN site, i \in DOMAIN site', SiteOk(i),
         site[i].act <= Len(host')
  PROVE  SiteOk(i)'
<1>1. /\ i \in DOMAIN callStack /\ i \in DOMAIN callStack' /\ i \in Nat
      /\ i > 1 => i - 1 \in DOMAIN callStack /\ i - 1 \in DOMAIN callStack'
                   /\ i - 1 \in DOMAIN site'
  BY DEF Evolves, TypeOK, StackTypes
<1>2. /\ site'[i] = site[i] /\ callStack'[i] = callStack[i]
      /\ i > 1 => site'[i - 1] = site[i - 1] /\ callStack'[i - 1] = callStack[i - 1]
  BY <1>1 DEF Evolves, EntriesKept
<1>3. callStack[i] \in EntryType
  BY <1>1 DEF Evolves, TypeOK, StackTypes
<1>4. CASE site[i].depth > 0 /\ ~site[i].root /\ LetSite(i)
  <2>1. frames'[callStack[i].env].parent = frames[callStack[i].env].parent
    BY <1>3 DEF EntryType, Evolves, MemoryGrows
  <2>2. LetSite(i)'
    BY <1>1, <1>2, <1>4, <2>1 DEF LetSite
  <2> QED
    BY <1>2, <1>4, <2>2 DEF SiteOk
<1>5. CASE site[i].depth = 0 /\ ~site[i].root /\ CallSite(i)
  <2>1. Resumes(i - 1, callStack[i].ret, site[i].base + 1)'
    BY <1>1, <1>2, <1>5, ResumesStays DEF CallSite
  <2>2. CallSite(i)'
    BY <1>1, <1>2, <1>5, <2>1 DEF CallSite, Resumes
  <2> QED
    BY <1>2, <1>5, <2>2 DEF SiteOk
<1>6. CASE site[i].depth = 0 /\ site[i].root /\ RootSite(i)
  <2> DEFINE j == site[i].act
  <2>1. j \in DOMAIN host /\ j \in DOMAIN host'
    BY <1>6 DEF RootSite, Evolves, TypeOK, StackTypes
  <2>2. /\ host'[j].kind = host[j].kind /\ host'[j].level = host[j].level
        /\ host'[j].start = host[j].start /\ host'[j].argc = host[j].argc
    BY <2>1 DEF Evolves, HostsKept
  <2>3. program'[callStack[i].ret] = program[callStack[i].ret]
    BY <1>3 DEF EntryType, Evolves, CodeGrows
  <2>4. RootSite(i)'
    BY <1>2, <1>6, <2>1, <2>2, <2>3 DEF RootSite
  <2> QED
    BY <1>2, <1>6, <2>4 DEF SiteOk
<1>7. CASE site[i].depth = 0 /\ site[i].root /\ BottomSite(i)
  BY <1>2, <1>7 DEF SiteOk, BottomSite
<1> QED
  BY <1>4, <1>5, <1>6, <1>7 DEF SiteOk

\* The call stack of a step that pops entries or C++ calls, or pushes one of them.
SiteRow(i) ==
  /\ SiteOk(i)
  /\ site[i].act <= Len(host)
  /\ IF site[i].body = "none" THEN site[i].act = 0
     ELSE site[i].act > 0 /\ host[site[i].act].kind \in {"apply", "exec", "setGlobal"}

\* A step keeps the relation of the call stack when the entries that stay belong to calls
\* that stay and the new ones have their place.
LEMMA SitesStay ==
  ASSUME Evolves, SitesOk,
         \A i \in DOMAIN site \intersect DOMAIN site' : site[i].act <= Len(host'),
         \A i \in DOMAIN site' \ DOMAIN site :
           /\ SiteRow(i)'
           /\ \A k \in DOMAIN site' : IF k <= i THEN site'[k].act <= site'[i].act
                                      ELSE site'[i].act <= site'[k].act
  PROVE  SitesOk'
<1>0. Len(site') = Len(callStack')
  BY DEF Evolves
<1>1. ASSUME NEW i \in DOMAIN site, i \in DOMAIN site' PROVE SiteRow(i)' /\ site'[i] = site[i]
  <2>1. SiteOk(i)'
    BY <1>1, SiteStays DEF SitesOk
  <2>2. site'[i] = site[i]
    <3>1. i \in DOMAIN callStack /\ i \in DOMAIN callStack'
      BY <1>1 DEF Evolves, TypeOK, StackTypes
    <3> QED
      BY <3>1 DEF Evolves, EntriesKept
  <2>3. site[i].act > 0 => host'[site[i].act].kind = host[site[i].act].kind
    <3> SUFFICES ASSUME site[i].act > 0 PROVE site[i].act \in DOMAIN host \intersect DOMAIN host'
      BY DEF Evolves, HostsKept
    <3>1. site[i].act \in Nat /\ site[i].act <= Len(host) /\ site[i].act <= Len(host')
      <4>1. site[i] \in SiteType
        BY DEF Evolves, TypeOK, StackTypes
      <4> QED
        BY <1>1, <4>1 DEF SitesOk, SiteType
    <3> QED
      BY <3>1 DEF Evolves, TypeOK, StackTypes
  <2> QED
    BY <1>1, <2>1, <2>2, <2>3 DEF SitesOk, SiteRow
<1>2. \A i, k \in DOMAIN site' : i <= k => site'[i].act <= site'[k].act
  <2> SUFFICES ASSUME NEW i \in DOMAIN site', NEW k \in DOMAIN site', i <= k
               PROVE  site'[i].act <= site'[k].act
    OBVIOUS
  <2>1. CASE i \in DOMAIN site /\ k \in DOMAIN site
    BY <1>1, <2>1 DEF SitesOk
  <2>2. CASE k \notin DOMAIN site
    BY <2>2
  <2>3. CASE i \notin DOMAIN site /\ k \in DOMAIN site
    BY <2>3 DEF Evolves, TypeOK, StackTypes
  <2> QED
    BY <2>1, <2>2, <2>3
<1>3. \A i \in DOMAIN site' : SiteRow(i)'
  BY <1>1
<1> QED
  BY <1>0, <1>2, <1>3 DEF SitesOk, SiteRow

\* A C++ call that stays keeps its place in the relation.
LEMMA HostStays ==
  ASSUME Evolves, HostsOk, NEW j \in DOMAIN host, j \in DOMAIN host',
         host[j].level <= Len(callStack')
  PROVE  HostOk(j)'
<1> DEFINE Same(i) ==
      /\ host'[i].kind = host[i].kind /\ host'[i].start = host[i].start
      /\ host'[i].argc = host[i].argc /\ host'[i].owned = host[i].owned
      /\ host'[i].ip = host[i].ip /\ host'[i].env = host[i].env
      /\ host'[i].level = host[i].level
      /\ host'[i].params = host[i].params \/ (i = Len(host) /\ host[i].kind = "apply")
<1>1. /\ Same(j) /\ j \in Nat /\ host[j].level \in Nat
      /\ j > 1 => Same(j - 1) /\ j - 1 # Len(host)
  <2>1. j \in Nat /\ j <= Len(host) /\ (j > 1 => j - 1 \in DOMAIN host \intersect DOMAIN host')
    BY DEF Evolves, TypeOK, StackTypes
  <2>2. host[j] \in HostType
    BY DEF Evolves, TypeOK, StackTypes
  <2>3. host[j].level \in Nat
    BY <2>2 DEF HostType
  <2>4. Same(j) /\ (j > 1 => Same(j - 1))
    BY <2>1 DEF Evolves, HostsKept
  <2>5. j - 1 # Len(host)
    BY <2>1 DEF Evolves, TypeOK, StackTypes
  <2> HIDE DEF Same
  <2> QED
    BY <2>1, <2>3, <2>4, <2>5
<1>2. HostOk(j)
  BY DEF HostsOk
<1>3. host[j].level > 0 =>
        /\ host[j].level \in DOMAIN site /\ host[j].level \in DOMAIN site'
        /\ site'[host[j].level] = site[host[j].level]
        /\ callStack'[host[j].level] = callStack[host[j].level]
  <2>1. host[j].level <= Len(callStack)
    BY <1>2 DEF HostOk
  <2> QED
    BY <1>1, <2>1 DEF Evolves, EntriesKept, TypeOK, StackTypes
<1> HIDE DEF Same
<1>4. CASE host[j].kind \in Builtins /\ host[j].ip # NoAddress
  <2>1. FromVM(j)
    BY <1>2, <1>4 DEF HostOk
  <2>2. Resumes(host[j].level, host[j].ip, host[j].start + 1)'
    BY <1>1, <1>2, <1>3, <1>4, <2>1, ResumesStays DEF FromVM, HostOk, Same
  <2>3. FromVM(j)'
    BY <1>1, <1>2, <1>3, <1>4, <2>1, <2>2 DEF FromVM, HostOk, Same, Resumes
  <2> QED
    BY <1>1, <1>2, <1>3, <1>4, <2>3 DEF HostOk, Same
<1>5. CASE host[j].kind \in Builtins /\ host[j].ip = NoAddress
  <2>1. FromApply(j)'
    BY <1>1, <1>2, <1>5 DEF FromApply, HostOk, Same
  <2> QED
    BY <1>1, <1>2, <1>3, <1>5, <2>1 DEF HostOk, Same
<1>6. CASE host[j].kind \notin Builtins
  <2>0. "apply" \in Builtins
    BY BuiltinNames
  <2>1. (FromLoad(j) \/ FromEmbedder(j))'
    BY <1>1, <1>2, <1>6 DEF FromLoad, FromEmbedder, HostOk, Same
  <2> QED
    BY <1>1, <1>2, <1>3, <1>6, <2>0, <2>1 DEF HostOk, Same
<1> QED
  BY <1>4, <1>5, <1>6

\* ... and that of the C++ calls.
LEMMA HostsStay ==
  ASSUME Evolves, HostsOk,
         \A j \in DOMAIN host \intersect DOMAIN host' : host[j].level <= Len(callStack'),
         \A j \in DOMAIN host' \ DOMAIN host : HostOk(j)'
  PROVE  HostsOk'
<1>1. ASSUME NEW j \in DOMAIN host' PROVE HostOk(j)'
  <2>1. CASE j \in DOMAIN host
    BY <2>1, HostStays
  <2> QED
    BY <2>1
<1> QED
  BY <1>1 DEF HostsOk

\* Functions keep their addresses.
LEMMA FunctionsStay ==
  ASSUME TypeOK, CodeGrows, MemoryGrows, FunctionsOk,
         \A v \in DOMAIN heap' \ DOMAIN heap :
           heap'[v].kind = "fn" /\ heap'[v].model # "Wrapped" =>
             /\ shape'[heap'[v].addr] = [body |-> "fn", at |-> 0, depth |-> 0, height |-> heap'[v].argc]
             /\ heap'[v].model = "BytecodeVariadic" => heap'[v].argc > 0
  PROVE  FunctionsOk'
<1>1. ASSUME NEW v \in DOMAIN heap', heap'[v].kind = "fn", heap'[v].model # "Wrapped"
      PROVE  /\ shape'[heap'[v].addr] = [body |-> "fn", at |-> 0, depth |-> 0, height |-> heap'[v].argc]
             /\ heap'[v].model = "BytecodeVariadic" => heap'[v].argc > 0
  <2>1. CASE v \in DOMAIN heap
    <3>1. heap'[v] = heap[v] /\ ObjectOk(heap[v])
      BY <2>1 DEF MemoryGrows, TypeOK, MemoryTypes
    <3> QED
      BY <1>1, <2>1, <3>1 DEF CodeGrows, FunctionsOk, ObjectOk
  <2> QED
    BY <1>1, <2>1
<1> QED
  BY <1>1 DEF FunctionsOk

------------------------------------------------------------------------------------
(* An instruction *)

\* Where the machine is when it runs an instruction that is no Exit.
LEMMA AtInstruction ==
  ASSUME IInv, mode = "run", OpAt # "Exit"
  PROVE  /\ CodeOk /\ FunctionsOk /\ SitesOk /\ HostsOk /\ HereOk
         /\ host # <<>> /\ callStack # <<>> /\ Len(site) = Len(callStack)
         /\ Len(site) \in DOMAIN site /\ Len(callStack) \in DOMAIN callStack
         /\ env = callStack[Len(callStack)].env
         /\ Here \in SiteType /\ Here.act = Len(host) /\ Here.body # "none"
         /\ Resumes(Len(site), ip, Len(operandStack))
         /\ ip \in DOMAIN program /\ OpAt = Decode(program[ip]) /\ OpAt \in Opcodes
         /\ CellOk(program, shape, ip)
         /\ Consumes(program, ip) \in Nat
         /\ Len(operandStack) - Consumes(program, ip) >= Here.base
<1>1. CodeOk /\ FunctionsOk /\ SitesOk /\ HostsOk /\ HereOk
  BY DEF IInv, Discipline, Sound
<1>2. host # <<>> /\ callStack # <<>> /\ env = callStack[Len(callStack)].env
  BY <1>1 DEF HereOk
<1>3. Len(site) = Len(callStack) /\ Len(site) \in DOMAIN site /\ Len(callStack) \in DOMAIN callStack
  BY <1>1, <1>2 DEF SitesOk, IInv, TypeOK, StackTypes
<1>4. Here.act = Len(host) /\ Resumes(Len(site), ip, Len(operandStack))
  BY <1>1 DEF HereOk, Returned, OpAt
<1>5. Here \in SiteType
  BY <1>3 DEF Here, IInv, TypeOK, StackTypes
<1>6. Here.body # "none"
  <2>1. Len(host) > 0
    BY <1>2 DEF IInv, TypeOK, StackTypes
  <2> QED
    BY <1>1, <1>3, <1>4, <2>1 DEF SitesOk, Here
<1>7. ip \in DOMAIN program /\ OpAt = Decode(program[ip])
  BY <1>4 DEF Resumes, OpAt
<1>8. CellOk(program, shape, ip)
  BY <1>1, <1>7 DEF CodeOk, Disciplined
<1>9. shape[ip].body = Here.body /\ shape[ip].height = Len(operandStack) - Here.base
  BY <1>4 DEF Resumes, Here
<1>10. OpAt \in Opcodes /\ shape[ip].height >= Consumes(program, ip)
  BY <1>6, <1>7, <1>8, <1>9 DEF CellOk
<1>11. Consumes(program, ip) \in Nat
  <2>1. OpAt = "Call" => U8(program, ip + 1) \in Nat
    <3> SUFFICES ASSUME OpAt = "Call" PROVE program[ip + 1] \in Nat
      BY DEF U8
    <3>1. Width(OpAt) = 2
      BY DEF Width
    <3>2. ip + 1 \in DOMAIN program /\ program[ip + 1] \in Byte
      BY <1>1, <1>6, <1>7, <1>9, <3>1, ParameterBytes DEF CodeOk
    <3> QED
      BY <3>2 DEF Byte
  <2> QED
    BY <1>7, <2>1 DEF Consumes
<1> QED
  BY <1>1, <1>2, <1>3, <1>4, <1>5, <1>6, <1>7, <1>8, <1>9, <1>10, <1>11 DEF SiteType, IInv, TypeOK, StackTypes

\* Its parameters.
LEMMA Parameters ==
  ASSUME IInv, mode = "run", OpAt # "Exit"
  PROVE  /\ Width(OpAt) > 1 => P8 \in 0..255
         /\ Width(OpAt) > 2 => P16 \in Nat
         /\ Width(OpAt) > 4 => P16b \in Nat
         /\ Width(OpAt) \in 1..5 /\ ip \in Nat
<1>1. \A i \in 0..(Width(OpAt) - 1) : ip + i \in DOMAIN program /\ program[ip + i] \in 0..255
  <2>1. /\ CodeOk /\ Here.body # "none" /\ ip \in DOMAIN program
        /\ OpAt = Decode(program[ip]) /\ Resumes(Len(site), ip, Len(operandStack))
    BY AtInstruction
  <2>2. shape[ip].body # "none"
    BY <2>1 DEF Resumes, Here
  <2> QED
    BY <2>1, <2>2, ParameterBytes DEF CodeOk, Byte
<1>2. Width(OpAt) \in 1..5
  BY WidthRange
<1>3. ip \in Nat
  BY DEF IInv, TypeOK, LocalTypes
<1>5. Width(OpAt) > 1 => P8 \in 0..255
  BY <1>1, <1>2 DEF P8, U8
<1>6. Width(OpAt) > 2 => P16 \in Nat
  <2> SUFFICES ASSUME Width(OpAt) > 2 PROVE P16 \in Nat
    OBVIOUS
  <2>1. program[ip + 1] \in 0..255 /\ program[ip + 2] \in 0..255 /\ (ip + 1) + 1 = ip + 2
    BY <1>1, <1>2, <1>3
  <2> QED
    BY <2>1, TwoBytes DEF P16
<1>7. Width(OpAt) > 4 => P16b \in Nat
  <2> SUFFICES ASSUME Width(OpAt) > 4 PROVE P16b \in Nat
    OBVIOUS
  <2>1. program[ip + 3] \in 0..255 /\ program[ip + 4] \in 0..255 /\ (ip + 3) + 1 = ip + 4
    BY <1>1, <1>2, <1>3
  <2> QED
    BY <2>1, TwoBytes DEF P16b
<1> QED
  BY <1>2, <1>3, <1>5, <1>6, <1>7

\* Control can go on after it with the operands it leaves.
LEMMA GoesOn ==
  ASSUME IInv, mode = "run", OpAt \notin {"Exit", "Return", "Recur", "Jump"}
  PROVE  /\ Next8 \in DOMAIN program
         /\ shape[Next8] =
              [body |-> Here.body, at |-> Next8 - Here.start,
               depth |-> Here.depth + Opens(program, ip),
               height |-> Len(operandStack) - Here.base
                            - Consumes(program, ip) + Produces(program, ip)]
<1>1. /\ ip \in DOMAIN program /\ OpAt = Decode(program[ip]) /\ CodeOk
      /\ Here.body # "none" /\ Here \in SiteType
  BY AtInstruction
<1>2. shape[ip] = [body |-> Here.body, at |-> ip - Here.start, depth |-> Here.depth,
                   height |-> Len(operandStack) - Here.base]
  BY AtInstruction DEF Resumes, Here
<1>3. /\ Next8 \in DOMAIN program
      /\ shape[Next8] =
           [body   |-> shape[ip].body,
            at     |-> shape[ip].at + Width(OpAt),
            depth  |-> shape[ip].depth + Opens(program, ip),
            height |-> shape[ip].height - Consumes(program, ip) + Produces(program, ip)]
  BY <1>1, <1>2, FlowsOn DEF CodeOk, Next8
<1>4. Next8 - Here.start = ip - Here.start + Width(OpAt)
  BY <1>1, WidthRange DEF Next8, SiteType, IInv, TypeOK, LocalTypes
<1> QED
  BY <1>2, <1>3, <1>4

\* ... at the same depth: the activation can go on at the next instruction.
LEMMA GoesOnInPlace ==
  ASSUME IInv, mode = "run", OpAt \notin {"Exit", "Return", "Recur", "Jump", "EnterLet", "ExitLet"},
         NEW n \in Nat, n = Len(operandStack) - Consumes(program, ip) + Produces(program, ip)
  PROVE  Resumes(Len(site), Next8, n)
<1>1. OpAt = Decode(program[ip]) /\ Len(site) \in DOMAIN site /\ Here \in SiteType
      /\ Len(operandStack) - Consumes(program, ip) >= Here.base
  BY AtInstruction
<1>2. Opens(program, ip) = 0
  BY <1>1 DEF Opens
<1>3. Produces(program, ip) \in {0, 1}
  BY DEF Produces
<1>4. Len(operandStack) \in Nat
  BY DEF IInv, TypeOK, StackTypes
<1>5. Consumes(program, ip) \in Nat
  BY AtInstruction
<1>6. /\ Here.depth + 0 = Here.depth /\ n >= Here.base
      /\ Len(operandStack) - Here.base - Consumes(program, ip) + Produces(program, ip) = n - Here.base
  BY <1>1, <1>3, <1>4, <1>5, SMTT(30) DEF SiteType
<1>7. /\ Next8 \in DOMAIN program
      /\ shape[Next8] = [body |-> Here.body, at |-> Next8 - Here.start, depth |-> Here.depth,
                         height |-> n - Here.base]
  BY <1>2, <1>6, GoesOn
<1> QED
  BY <1>1, <1>6, <1>7 DEF Resumes, Here

\* A step that leaves the code, the call stack and the C++ calls alone.
LEMMA PlainStep ==
  ASSUME IInv, mode = "run", UNCHANGED << code, callStack, env, control, site >>,
         MemoryTypes', MemoryGrows, FunctionsOk',
         operandStack' \in Seq(DOMAIN heap'),
         Here.act = Len(host), Resumes(Len(site), ip', Len(operandStack'))
  PROVE  IInv'
<1>0. UNCHANGED << program, immediates, shape, todo, callStack, env, host, mode, result, site >>
  BY DEF code, control
<1>1. CodeOk /\ FunctionsOk /\ SitesOk /\ HostsOk /\ HereOk
  BY DEF IInv, Discipline, Sound
<1>2. CodeGrows /\ TypeOK
  BY <1>0 DEF CodeGrows, IInv
<1>3. ip' \in Nat
  BY <1>0, <1>2 DEF Resumes, TypeOK, CodeTypes
<1>4. TypeOK'
  BY <1>0, <1>2, <1>3, TypesGrow DEF TypeOK, CodeTypes, StackTypes, LocalTypes
<1>5. Evolves
  <2>1. EntriesKept
    BY <1>0 DEF EntriesKept
  <2>2. HostsKept
    BY <1>0 DEF HostsKept
  <2> QED
    BY <1>0, <1>1, <1>2, <1>4, <2>1, <2>2 DEF Evolves, SitesOk
<1>6. SitesOk'
  BY <1>0, <1>1, <1>5, SitesStay DEF SitesOk
<1>7. HostsOk'
  BY <1>0, <1>1, <1>5, HostsStay DEF HostsOk, HostOk
<1>8. HereOk'
  BY <1>0, <1>1 DEF HereOk, Caller, Here, Resumes
<1>9. CodeOk'
  BY <1>0, <1>1 DEF CodeOk
<1> QED
  BY <1>4, <1>6, <1>7, <1>8, <1>9 DEF IInv, Discipline

\* After an exception or undefined behaviour only the types are left.
LEMMA Halts ==
  ASSUME TypeOK, UNCHANGED << code, memory, callStack, ip, env, result, site >>,
         operandStack' \in Seq(DOMAIN heap), host' \in Seq(HostType),
         mode' \in {"unwind", "exited", "fault"}
  PROVE  IInv'
<1>0. /\ UNCHANGED << program, immediates, shape, todo, heap, frames, callStack, ip, env, result, site >>
  BY DEF code, memory
<1>1. CodeGrows /\ MemoryTypes' /\ MemoryGrows
  <2>1. CodeGrows
    BY <1>0 DEF CodeGrows
  <2> QED
    BY <2>1, MemoryKept
<1>2. TypeOK'
  <2>1. EntryType' = EntryType /\ HostType' = HostType
    BY <1>0 DEF EntryType, HostType
  <2>2. mode' \in Modes
    BY DEF Modes
  <2> QED
    BY <1>0, <1>1, <2>1, <2>2 DEF TypeOK, CodeTypes, StackTypes, LocalTypes
<1>3. ~Sound'
  BY DEF Sound
<1> QED
  BY <1>2, <1>3 DEF IInv, Discipline

\* An exception keeps the invariant.
LEMMA ThrowHalts == ASSUME IInv, Throw PROVE IInv'
BY Halts DEF IInv, Throw, TypeOK, StackTypes

\* Undefined behaviour keeps the invariant.
LEMMA CrashHalts == ASSUME IInv, NEW why, Crash(why) PROVE IInv'
BY Halts DEF IInv, Crash, TypeOK, StackTypes

\* Operands are values.
LEMMA Operands ==
  ASSUME TypeOK, NEW n \in Nat, n <= Len(operandStack)
  PROVE  /\ Dropped(n) \in Seq(DOMAIN heap) /\ Len(Dropped(n)) = Len(operandStack) - n
         /\ \A k \in 0..(Len(operandStack) - 1) : Operand(k) \in DOMAIN heap
<1>1. operandStack \in Seq(DOMAIN heap)
  BY DEF TypeOK, StackTypes
<1> QED
  BY <1>1, PrefixFacts DEF Dropped, Operand

\* A program that stays and objects that are no functions of the VM keep FunctionsOk.
LEMMA SameCode ==
  ASSUME IInv, mode = "run", UNCHANGED code
  PROVE  TypeOK /\ CodeGrows /\ FunctionsOk
BY DEF IInv, Discipline, Sound, CodeGrows, code

\* An instruction that takes its operands off the stack, puts a value there and goes on.
LEMMA ReplaceStep ==
  ASSUME IInv, mode = "run",
         OpAt \notin {"Exit", "Return", "Recur", "Jump", "EnterLet", "ExitLet"},
         NEW n \in Nat, Consumes(program, ip) = n, Produces(program, ip) = 1,
         n <= Len(operandStack), NEW v \in DOMAIN heap', Replace(n, v),
         MemoryTypes', MemoryGrows, FunctionsOk'
  PROVE  IInv'
<1>1. Len(operandStack) - n + 1 \in Nat
  BY DEF IInv, TypeOK, StackTypes
<1>2. Resumes(Len(site), Next8, Len(operandStack) - n + 1)
  BY <1>1, GoesOnInPlace
<1>3. Dropped(n) \in Seq(DOMAIN heap') /\ Len(Dropped(n)) = Len(operandStack) - n
  BY Operands, SeqMono DEF IInv, MemoryGrows
<1>4. /\ operandStack' \in Seq(DOMAIN heap') /\ Len(operandStack') = Len(operandStack) - n + 1
  BY <1>3, AppendFacts DEF Replace
<1>5. Here.act = Len(host)
  BY AtInstruction
<1> QED
  BY <1>2, <1>4, <1>5, PlainStep DEF Replace

\* One that takes one operand off.
LEMMA DropStep ==
  ASSUME IInv, mode = "run",
         OpAt \notin {"Exit", "Return", "Recur", "Jump", "EnterLet", "ExitLet"},
         Consumes(program, ip) = 1, Produces(program, ip) = 0, 1 <= Len(operandStack),
         operandStack' = Dropped(1), ip' = Next8,
         UNCHANGED << code, callStack, env, control, site >>,
         MemoryTypes', MemoryGrows, FunctionsOk'
  PROVE  IInv'
<1>1. Len(operandStack) - 1 \in Nat
  BY DEF IInv, TypeOK, StackTypes
<1>2. Resumes(Len(site), Next8, Len(operandStack) - 1)
  BY <1>1, GoesOnInPlace
<1>3. operandStack' \in Seq(DOMAIN heap') /\ Len(operandStack') = Len(operandStack) - 1
  BY Operands, SeqMono DEF IInv, MemoryGrows
<1>5. Here.act = Len(host)
  BY AtInstruction
<1> QED
  BY <1>2, <1>3, <1>5, PlainStep

\* Memory that is not touched.
LEMMA SameMemory ==
  ASSUME IInv, mode = "run", UNCHANGED code, UNCHANGED memory
  PROVE  MemoryTypes' /\ MemoryGrows /\ FunctionsOk' /\ heap' = heap
<1>1. MemoryTypes' /\ MemoryGrows
  BY SameCode, MemoryKept
<1>2. heap' = heap
  BY DEF memory
<1> QED
  BY <1>1, <1>2, SameCode, FunctionsStay

\* One new object, no function of the VM unless it is a good one.
LEMMA NewObject ==
  ASSUME IInv, mode \in {"run", "builtin"}, UNCHANGED code, NEW o \in Object, ObjectOk(o), Allocate(o),
         o.kind = "fn" /\ o.model # "Wrapped" =>
           /\ shape[o.addr] = [body |-> "fn", at |-> 0, depth |-> 0, height |-> o.argc]
           /\ o.model = "BytecodeVariadic" => o.argc > 0
  PROVE  /\ MemoryTypes' /\ MemoryGrows /\ FunctionsOk'
         /\ Allocated \in DOMAIN heap'
<1>1. TypeOK /\ CodeGrows /\ FunctionsOk /\ shape' = shape
  BY DEF IInv, Discipline, Sound, CodeGrows, code
<1>2. ObjectOk(o)'
  <2>1. heap' = Append(heap, o) /\ frames' = frames /\ program' = program
    BY DEF Allocate, code
  <2>2. DOMAIN heap \subseteq DOMAIN heap'
    BY <1>1, <2>1 DEF TypeOK, MemoryTypes
  <2> QED
    BY <2>1, <2>2 DEF ObjectOk
<1>3. /\ MemoryTypes' /\ MemoryGrows /\ Allocated \in DOMAIN heap'
      /\ heap'[Allocated] = o /\ Len(heap') = Len(heap) + 1
  BY <1>1, <1>2, ObjectAllocated
<1>4. \A v \in DOMAIN heap' \ DOMAIN heap : v = Allocated
  BY <1>1, <1>3 DEF TypeOK, MemoryTypes, Allocated
<1>5. FunctionsOk'
  BY <1>1, <1>3, <1>4, FunctionsStay
<1> QED
  BY <1>3, <1>5

------------------------------------------------------------------------------------
(* Values *)

\* Cons keeps the invariant: it allocates a pair of two operands.
LEMMA ConsStep == ASSUME IInv, OpCons PROVE IInv'
<1>1. mode = "run" /\ OpAt = "Cons" /\ 2 <= Len(operandStack) /\ OpAt = Decode(program[ip])
  BY AtInstruction DEF OpCons, At, IInv, TypeOK, StackTypes
<1>2. Consumes(program, ip) = 2 /\ Produces(program, ip) = 1
  BY <1>1 DEF Consumes, Produces
<1>3. Operand(0) \in DOMAIN heap /\ Operand(1) \in DOMAIN heap
  BY <1>1, Operands DEF IInv, TypeOK, StackTypes
<1> DEFINE o == Pair(Operand(1), Operand(0))
<1>4. o \in Object /\ ObjectOk(o) /\ o.kind # "fn"
  BY <1>3 DEF Pair, Object, ObjectOk, IInv, TypeOK, MemoryTypes
<1>5. UNCHANGED code /\ Allocate(o) /\ Replace(2, Allocated)
  BY DEF OpCons, Replace
<1>6. MemoryTypes' /\ MemoryGrows /\ FunctionsOk' /\ Allocated \in DOMAIN heap'
  <2> HIDE DEF o
  <2> QED
    BY <1>1, <1>4, <1>5, NewObject
<1> QED
  BY <1>1, <1>2, <1>5, <1>6, ReplaceStep

\* The parts of a pair.
LEMMA PairParts ==
  ASSUME TypeOK, NEW v \in DOMAIN heap, IsKind(v, "pair")
  PROVE  heap[v].car \in DOMAIN heap /\ heap[v].cdr \in DOMAIN heap
BY DEF TypeOK, MemoryTypes, ObjectOk, IsKind, Is

\* Car keeps the invariant.
LEMMA CarStep == ASSUME IInv, OpCar PROVE IInv'
<1>1. mode = "run" /\ OpAt = "Car" /\ 1 <= Len(operandStack) /\ OpAt = Decode(program[ip])
  BY AtInstruction DEF OpCar, At, IInv, TypeOK, StackTypes
<1>2. Consumes(program, ip) = 1 /\ Produces(program, ip) = 1
  BY <1>1 DEF Consumes, Produces
<1>3. Operand(0) \in DOMAIN heap
  BY <1>1, Operands DEF IInv, TypeOK, StackTypes
<1>4. CASE ~IsKind(Operand(0), "pair")
  BY <1>4, ThrowHalts DEF OpCar
<1>5. CASE IsKind(Operand(0), "pair")
  <2>1. heap[Operand(0)].car \in DOMAIN heap
    BY <1>3, <1>5, PairParts DEF IInv
  <2>2. Replace(1, heap[Operand(0)].car) /\ UNCHANGED memory /\ UNCHANGED code
    BY <1>5 DEF OpCar, Replace
  <2> QED
    BY <1>1, <1>2, <2>1, <2>2, SameMemory, ReplaceStep
<1> QED
  BY <1>4, <1>5

\* Cdr keeps the invariant.
LEMMA CdrStep == ASSUME IInv, OpCdr PROVE IInv'
<1>1. mode = "run" /\ OpAt = "Cdr" /\ 1 <= Len(operandStack) /\ OpAt = Decode(program[ip])
  BY AtInstruction DEF OpCdr, At, IInv, TypeOK, StackTypes
<1>2. Consumes(program, ip) = 1 /\ Produces(program, ip) = 1
  BY <1>1 DEF Consumes, Produces
<1>3. Operand(0) \in DOMAIN heap
  BY <1>1, Operands DEF IInv, TypeOK, StackTypes
<1>4. CASE ~IsKind(Operand(0), "pair")
  BY <1>4, ThrowHalts DEF OpCdr
<1>5. CASE IsKind(Operand(0), "pair")
  <2>1. heap[Operand(0)].cdr \in DOMAIN heap
    BY <1>3, <1>5, PairParts DEF IInv
  <2>2. Replace(1, heap[Operand(0)].cdr) /\ UNCHANGED memory /\ UNCHANGED code
    BY <1>5 DEF OpCdr, Replace
  <2> QED
    BY <1>1, <1>2, <2>1, <2>2, SameMemory, ReplaceStep
<1> QED
  BY <1>4, <1>5

\* The constants exist.
LEMMA Constants == ASSUME TypeOK PROVE {False, True, Null} \subseteq DOMAIN heap
BY DEF TypeOK, MemoryTypes, False, True, Null

\* IsNull keeps the invariant.
LEMMA IsNullStep == ASSUME IInv, OpIsNull PROVE IInv'
<1>1. mode = "run" /\ OpAt = "IsNull" /\ 1 <= Len(operandStack) /\ OpAt = Decode(program[ip])
  BY AtInstruction DEF OpIsNull, At, IInv, TypeOK, StackTypes
<1>2. Consumes(program, ip) = 1 /\ Produces(program, ip) = 1
  BY <1>1 DEF Consumes, Produces
<1>3. UNCHANGED memory /\ UNCHANGED code
      /\ Replace(1, IF IsKind(Operand(0), "null") THEN True ELSE False)
  BY DEF OpIsNull, Replace
<1>4. (IF IsKind(Operand(0), "null") THEN True ELSE False) \in DOMAIN heap
  BY Constants DEF IInv
<1> QED
  BY <1>1, <1>2, <1>3, <1>4, SameMemory, ReplaceStep

\* PushNull, PushTrue and PushFalse keep the invariant.
LEMMA PushStep == ASSUME IInv, OpPush PROVE IInv'
<1>1. PICK op \in {"PushNull", "PushTrue", "PushFalse"} :
        /\ At(op, 0) /\ UNCHANGED memory
        /\ Replace(0, CASE op = "PushNull" -> Null [] op = "PushTrue" -> True [] OTHER -> False)
  BY DEF OpPush
<1> DEFINE v == CASE op = "PushNull" -> Null [] op = "PushTrue" -> True [] OTHER -> False
<1>2. mode = "run" /\ OpAt = op /\ 0 <= Len(operandStack) /\ OpAt = Decode(program[ip])
  BY <1>1, AtInstruction DEF At, IInv, TypeOK, StackTypes
<1>3. Consumes(program, ip) = 0 /\ Produces(program, ip) = 1
  BY <1>2 DEF Consumes, Produces, ConstOps
<1>4. v \in DOMAIN heap
  BY Constants DEF IInv
<1>5. Replace(0, v) /\ UNCHANGED code
  BY <1>1 DEF Replace
<1>6. MemoryTypes' /\ MemoryGrows /\ FunctionsOk' /\ heap' = heap
  BY <1>1, <1>2, <1>5, SameMemory
<1> HIDE DEF v
<1> QED
  BY <1>2, <1>3, <1>4, <1>5, <1>6, ReplaceStep

\* PushI keeps the invariant.
LEMMA PushIStep == ASSUME IInv, OpPushI PROVE IInv'
<1>1. mode = "run" /\ OpAt = "PushI" /\ 0 <= Len(operandStack) /\ OpAt = Decode(program[ip])
  BY AtInstruction DEF OpPushI, At, IInv, TypeOK, StackTypes
<1>2. Consumes(program, ip) = 0 /\ Produces(program, ip) = 1
  BY <1>1 DEF Consumes, Produces, ConstOps
<1>3. CASE P16 + 1 \notin DOMAIN immediates
  BY <1>3, CrashHalts DEF OpPushI
<1>4. CASE P16 + 1 \in DOMAIN immediates
  <2>1. immediates[P16 + 1] \in DOMAIN heap
    BY <1>4 DEF IInv, TypeOK, CodeTypes
  <2>2. Replace(0, immediates[P16 + 1]) /\ UNCHANGED memory /\ UNCHANGED code
    BY <1>4 DEF OpPushI, Replace
  <2> QED
    BY <1>1, <1>2, <2>1, <2>2, SameMemory, ReplaceStep
<1> QED
  BY <1>3, <1>4

\* Discard keeps the invariant.
LEMMA DiscardStep == ASSUME IInv, OpDiscard PROVE IInv'
<1>1. mode = "run" /\ OpAt = "Discard" /\ 1 <= Len(operandStack) /\ OpAt = Decode(program[ip])
  BY AtInstruction DEF OpDiscard, At, IInv, TypeOK, StackTypes
<1>2. Consumes(program, ip) = 1 /\ Produces(program, ip) = 0
  BY <1>1 DEF Consumes, Produces, ConstOps, LoadOps, LambdaOps
<1>3. operandStack' = Dropped(1) /\ ip' = Next8 /\ UNCHANGED code /\ UNCHANGED memory
      /\ UNCHANGED << code, callStack, env, control, site >>
  BY DEF OpDiscard
<1> QED
  BY <1>1, <1>2, <1>3, SameMemory, DropStep

\* The body of a lambda is a body for as many operands as it has arguments.
LEMMA PushLambdaStep == ASSUME IInv, OpPushLambda PROVE IInv'
<1> DEFINE model(op) == IF op = "PushVariadicLambda" THEN "BytecodeVariadic" ELSE "Bytecode"
           o(op) == Closure(model(op), P8, Next8 + JumpSize, env)
<1>1. PICK op \in LambdaOps : At(op, 0) /\ Allocate(o(op)) /\ Replace(0, Allocated)
  BY DEF OpPushLambda
<1>2. /\ mode = "run" /\ OpAt = op /\ 0 <= Len(operandStack) /\ OpAt = Decode(program[ip])
      /\ op \notin {"Exit", "Return", "Recur", "Jump", "EnterLet", "ExitLet"}
  BY <1>1, AtInstruction DEF At, LambdaOps, IInv, TypeOK, StackTypes
<1>3. Consumes(program, ip) = 0 /\ Produces(program, ip) = 1
  BY <1>1, <1>2 DEF Consumes, Produces, LambdaOps
<1>4. CellOk(program, shape, ip) /\ shape[ip].body # "none"
  BY <1>2, AtInstruction DEF Resumes, Here
<1>5. Next8 + JumpSize \in DOMAIN program
      /\ shape[Next8 + JumpSize] = [body |-> "fn", at |-> 0, depth |-> 0, height |-> P8]
  <2>1. LambdaBody(program, ip) \in Successors(program, ip, shape[ip])
    BY <1>1, <1>2, SuccessorCases
  <2> QED
    BY <1>2, <1>4, <2>1 DEF CellOk, LambdaBody, Next8, P8
<1>6. P8 \in 0..255 /\ (op = "PushVariadicLambda" => P8 > 0)
  <2>1. Width(op) > 1
    BY <1>1 DEF Width, LambdaOps
  <2> QED
    BY <1>2, <1>4, <2>1, Parameters DEF CellOk, Closed, P8
<1>7. /\ o(op) \in Object /\ ObjectOk(o(op))
      /\ o(op).addr = Next8 + JumpSize /\ o(op).argc = P8
      /\ o(op).model = "BytecodeVariadic" => P8 > 0
  <2>1. Next8 + JumpSize \in Nat /\ env \in Nat /\ env \in DOMAIN frames
    BY <1>5, SMTT(30) DEF IInv, TypeOK, CodeTypes, MemoryTypes, LocalTypes
  <2>2. o(op) = [kind |-> "fn", model |-> model(op), argc |-> P8, addr |-> Next8 + JumpSize, def |-> env]
    BY DEF Closure
  <2>3. model(op) \in {"Bytecode", "BytecodeVariadic"}
        /\ (model(op) = "BytecodeVariadic" => op = "PushVariadicLambda")
    OBVIOUS
  <2> HIDE DEF model
  <2>4. o(op) \in [kind : {"fn"}, model : {"Bytecode", "BytecodeVariadic"}, argc : Nat,
                   addr : Nat, def : Nat]
    BY <1>6, <2>1, <2>2, <2>3
  <2>5. o(op).kind = "fn" /\ o(op).model = model(op) /\ o(op).argc = P8
        /\ o(op).addr = Next8 + JumpSize /\ o(op).def = env
    BY <2>2
  <2>6. o(op) \in Object
    BY <2>4 DEF Object
  <2> HIDE DEF o
  <2> QED
    BY <1>5, <1>6, <2>1, <2>3, <2>5, <2>6 DEF ObjectOk
<1>8. UNCHANGED code
  BY <1>1 DEF Replace
<1>9. MemoryTypes' /\ MemoryGrows /\ FunctionsOk' /\ Allocated \in DOMAIN heap'
  <2> HIDE DEF o
  <2> QED
    BY <1>1, <1>2, <1>5, <1>7, <1>8, NewObject
<1> QED
  BY <1>1, <1>2, <1>3, <1>9, ReplaceStep

------------------------------------------------------------------------------------
(* Variables and jumps *)

\* The loads keep the invariant: the ancestors of an environment are environments.
LEMMA LoadStep == ASSUME IInv, OpLoad PROVE IInv'
<1>1. PICK op \in LoadOps :
        /\ At(op, 0)
        /\ LET e == Ancestor(env, Location(op)[1])
               off == Location(op)[2]
           IN  IF InFrame(e, off)
               THEN Replace(0, frames[e].vars[off + 1]) /\ UNCHANGED memory
               ELSE Crash("variable")
  BY DEF OpLoad
<1>2. /\ mode = "run" /\ OpAt = op /\ 0 <= Len(operandStack) /\ OpAt = Decode(program[ip])
      /\ op \notin {"Exit", "Return", "Recur", "Jump", "EnterLet", "ExitLet"}
  BY <1>1, AtInstruction DEF At, LoadOps, IInv, TypeOK, StackTypes
<1>3. Consumes(program, ip) = 0 /\ Produces(program, ip) = 1
  BY <1>1, <1>2 DEF Consumes, Produces, LoadOps
<1> DEFINE e == Ancestor(env, Location(op)[1])
           off == Location(op)[2]
           v == frames[e].vars[off + 1]
<1>4. CASE ~InFrame(e, off)
  BY <1>1, <1>4, CrashHalts
<1>5. CASE InFrame(e, off)
  <2> HIDE DEF e, off
  <2>1. Replace(0, v) /\ UNCHANGED memory /\ UNCHANGED code
    BY <1>1, <1>5 DEF Replace, e, off
  <2>2. v \in DOMAIN heap
    BY <1>5 DEF InFrame, IInv, TypeOK, MemoryTypes, FrameOk
  <2> HIDE DEF v
  <2> QED
    BY <1>2, <1>3, <2>1, <2>2, SameMemory, ReplaceStep
<1> QED
  BY <1>4, <1>5

\* Rebind keeps the invariant.
LEMMA RebindStep == ASSUME IInv, OpRebind PROVE IInv'
<1>1. mode = "run" /\ OpAt = "Rebind" /\ 1 <= Len(operandStack) /\ OpAt = Decode(program[ip])
  BY AtInstruction DEF OpRebind, At, IInv, TypeOK, StackTypes
<1>2. Consumes(program, ip) = 1 /\ Produces(program, ip) = 0
  BY <1>1 DEF Consumes, Produces, ConstOps, LoadOps, LambdaOps
<1> DEFINE e == Ancestor(env, Location("Rebind")[1])
           off == Location("Rebind")[2]
           vs == [frames[e].vars EXCEPT ![off + 1] = Operand(0)]
<1>3. CASE ~InFrame(e, off)
  BY <1>3, CrashHalts DEF OpRebind
<1>4. CASE InFrame(e, off)
  <2>1. /\ frames' = [frames EXCEPT ![e].vars[off + 1] = Operand(0)]
        /\ operandStack' = Dropped(1) /\ ip' = Next8
        /\ UNCHANGED << code, heap, callStack, env, control, site >>
    BY <1>4 DEF OpRebind
  <2> HIDE DEF e, off
  <2>2. Operand(0) \in DOMAIN heap
    BY <1>1, Operands DEF IInv, TypeOK, StackTypes
  <2>3. /\ e \in DOMAIN frames /\ vs \in Seq(DOMAIN heap)
    <3>1. /\ e \in DOMAIN frames /\ off + 1 \in DOMAIN frames[e].vars
          /\ frames[e].vars \in Seq(DOMAIN heap)
      BY <1>4 DEF InFrame, IInv, TypeOK, MemoryTypes, FrameOk
    <3> QED
      BY <2>2, <3>1
  <2>4. frames' = [frames EXCEPT ![e].vars = vs]
    BY <2>1
  <2>5. /\ UNCHANGED << heap, program, shape >> /\ UNCHANGED code
    BY <2>1 DEF code
  <2> HIDE DEF vs
  <2>6. MemoryTypes' /\ MemoryGrows
    BY <2>3, <2>4, <2>5, FrameWritten DEF IInv
  <2>7. FunctionsOk'
    BY <1>1, <2>5, <2>6, SameCode, FunctionsStay
  <2> QED
    BY <1>1, <1>2, <2>1, <2>5, <2>6, <2>7, DropStep
<1> QED
  BY <1>3, <1>4

\* Store keeps the invariant.
LEMMA StoreStep == ASSUME IInv, OpStore PROVE IInv'
<1>1. mode = "run" /\ OpAt = "Store" /\ 1 <= Len(operandStack) /\ OpAt = Decode(program[ip])
  BY AtInstruction DEF OpStore, At, IInv, TypeOK, StackTypes
<1>2. Consumes(program, ip) = 1 /\ Produces(program, ip) = 0
  BY <1>1 DEF Consumes, Produces, ConstOps, LoadOps, LambdaOps
<1> DEFINE vs == Append(frames[env].vars, Operand(0))
<1>3. /\ frames' = [frames EXCEPT ![env].vars = vs]
      /\ operandStack' = Dropped(1) /\ ip' = Next8
      /\ UNCHANGED << code, heap, callStack, env, control, site >>
  BY DEF OpStore
<1>4. Operand(0) \in DOMAIN heap
  BY <1>1, Operands DEF IInv, TypeOK, StackTypes
<1>5. env \in DOMAIN frames /\ vs \in Seq(DOMAIN heap)
  BY <1>4, AppendFacts DEF IInv, TypeOK, MemoryTypes, LocalTypes, FrameOk
<1>6. UNCHANGED << heap, program, shape >> /\ UNCHANGED code
  BY <1>3 DEF code
<1> HIDE DEF vs
<1>7. MemoryTypes' /\ MemoryGrows
  BY <1>3, <1>5, <1>6, FrameWritten DEF IInv
<1>8. FunctionsOk'
  BY <1>1, <1>6, <1>7, SameCode, FunctionsStay
<1> QED
  BY <1>1, <1>2, <1>3, <1>6, <1>7, <1>8, DropStep

\* Where a jump of the code goes.
LEMMA JumpTarget ==
  ASSUME IInv, mode = "run", OpAt \in {"Jump", "JumpIfFalse"},
         NEW n \in Nat, n = Len(operandStack) - Consumes(program, ip)
  PROVE  Resumes(Len(site), Next8 + P16, n)
<1>1. /\ ip \in DOMAIN program /\ OpAt = Decode(program[ip]) /\ CellOk(program, shape, ip)
      /\ Here.body # "none" /\ Here \in SiteType /\ Len(site) \in DOMAIN site
      /\ Consumes(program, ip) \in Nat
      /\ Len(operandStack) - Consumes(program, ip) >= Here.base
  BY AtInstruction
<1>2. shape[ip] = [body |-> Here.body, at |-> ip - Here.start, depth |-> Here.depth,
                   height |-> Len(operandStack) - Here.base]
  BY AtInstruction DEF Resumes, Here
<1> DEFINE t == Onward(program, ip, shape[ip], Next8 + P16)
<1>3. t.to \in DOMAIN program /\ shape[t.to] = t.shape
  <2>1. t \in Successors(program, ip, shape[ip])
    BY <1>1, SuccessorCases DEF Next8, P16
  <2> QED
    BY <1>1, <1>2, <2>1 DEF CellOk
<1>4. Opens(program, ip) = 0 /\ Produces(program, ip) = 0
  BY <1>1 DEF Opens, Produces, ConstOps, LoadOps, LambdaOps
<1>5. /\ ip \in Nat /\ Next8 + P16 \in Nat /\ Len(operandStack) \in Nat
      /\ Here.start \in Nat /\ Here.depth \in Nat /\ Here.base \in Nat
  <2>1. Width(OpAt) = 3
    BY DEF Width
  <2> QED
    <3>1. P16 \in Nat /\ ip \in Nat /\ Width(OpAt) \in Nat
      BY <2>1, Parameters
    <3>2. Next8 + P16 \in Nat
      BY <3>1 DEF Next8
    <3>3. Here.start \in Nat /\ Here.depth \in Nat /\ Here.base \in Nat
      BY <1>1 DEF SiteType
    <3> QED
      BY <3>1, <3>2, <3>3 DEF IInv, TypeOK, StackTypes
<1>6. t.to = Next8 + P16
      /\ t.shape = [body |-> Here.body, at |-> (Next8 + P16) - Here.start, depth |-> Here.depth,
                    height |-> n - Here.base]
  <2>1. /\ (ip - Here.start) + ((Next8 + P16) - ip) = (Next8 + P16) - Here.start
        /\ Here.depth + 0 = Here.depth
    BY <1>5
  <2>2. Len(operandStack) - Here.base - Consumes(program, ip) + 0 = n - Here.base
    BY <1>1, <1>5
  <2> QED
    BY <1>2, <1>4, <2>1, <2>2 DEF Onward
<1>7. n >= Here.base
  BY <1>1
<1> QED
  BY <1>1, <1>3, <1>6, <1>7 DEF Resumes, Here

\* Jump keeps the invariant.
LEMMA JumpStep == ASSUME IInv, OpJump PROVE IInv'
<1>1. mode = "run" /\ OpAt = "Jump" /\ OpAt = Decode(program[ip]) /\ Here.act = Len(host)
  BY AtInstruction DEF OpJump, At
<1>2. Consumes(program, ip) = 0 /\ Len(operandStack) \in Nat /\ Len(operandStack) - 0 = Len(operandStack)
  BY <1>1 DEF Consumes, IInv, TypeOK, StackTypes
<1>3. Resumes(Len(site), Next8 + P16, Len(operandStack))
  BY <1>1, <1>2, JumpTarget
<1>4. /\ UNCHANGED << code, callStack, env, control, site >> /\ UNCHANGED memory
      /\ UNCHANGED code /\ operandStack' = operandStack /\ ip' = Next8 + P16
  BY DEF OpJump
<1>5. MemoryTypes' /\ MemoryGrows /\ FunctionsOk' /\ heap' = heap
  BY <1>1, <1>4, SameMemory
<1>6. operandStack' \in Seq(DOMAIN heap')
  BY <1>4, <1>5 DEF IInv, TypeOK, StackTypes
<1> QED
  BY <1>1, <1>3, <1>4, <1>5, <1>6, PlainStep

\* JumpIfFalse keeps the invariant, whether it jumps or not.
LEMMA JumpIfFalseStep == ASSUME IInv, OpJumpIfFalse PROVE IInv'
<1>1. /\ mode = "run" /\ OpAt = "JumpIfFalse" /\ 1 <= Len(operandStack)
      /\ OpAt = Decode(program[ip]) /\ Here.act = Len(host)
  BY AtInstruction DEF OpJumpIfFalse, At
<1>2. Consumes(program, ip) = 1 /\ Produces(program, ip) = 0
  BY <1>1 DEF Consumes, Produces, ConstOps, LoadOps, LambdaOps
<1>3. Len(operandStack) - 1 \in Nat /\ Len(operandStack) - 1 + 0 = Len(operandStack) - 1
  BY <1>1 DEF IInv, TypeOK, StackTypes
<1>4. /\ Resumes(Len(site), Next8 + P16, Len(operandStack) - 1)
      /\ Resumes(Len(site), Next8, Len(operandStack) - 1)
  BY <1>1, <1>2, <1>3, JumpTarget, GoesOnInPlace
<1>5. /\ UNCHANGED << code, callStack, env, control, site >> /\ UNCHANGED memory
      /\ UNCHANGED code /\ operandStack' = Dropped(1) /\ ip' \in {Next8, Next8 + P16}
  BY DEF OpJumpIfFalse
<1>6. MemoryTypes' /\ MemoryGrows /\ FunctionsOk' /\ heap' = heap
  BY <1>1, <1>5, SameMemory
<1>7. operandStack' \in Seq(DOMAIN heap') /\ Len(operandStack') = Len(operandStack) - 1
  BY <1>1, <1>5, <1>6, Operands DEF IInv
<1> QED
  BY <1>1, <1>4, <1>5, <1>6, <1>7, PlainStep

\* The start of the function that runs is in the top entry of the call stack.
LEMMA RecurStep == ASSUME IInv, OpRecur PROVE IInv'
<1>1. /\ mode = "run" /\ OpAt = "Recur" /\ OpAt = Decode(program[ip]) /\ Here.act = Len(host)
      /\ callStack # <<>> /\ Len(site) = Len(callStack) /\ Len(site) \in DOMAIN site
      /\ SitesOk /\ CellOk(program, shape, ip) /\ Here.body # "none" /\ Here \in SiteType
      /\ Resumes(Len(site), ip, Len(operandStack)) /\ ip \in Nat
  BY AtInstruction DEF OpRecur, At, IInv, TypeOK, LocalTypes
<1>2. /\ frames' = [frames EXCEPT ![env].vars = <<>>]
      /\ ip' = callStack[Len(callStack)].top
      /\ UNCHANGED << code, heap, operandStack, callStack, env, control, site >>
  BY <1>1 DEF OpRecur
<1>3. shape[ip] = [body |-> Here.body, at |-> ip - Here.start, depth |-> Here.depth,
                   height |-> Len(operandStack) - Here.base]
  BY <1>1 DEF Resumes, Here
<1>4. /\ Here.body = "fn" /\ Here.depth = 0
      /\ Here.start \in DOMAIN program
      /\ shape[Here.start] = [body |-> "fn", at |-> 0, depth |-> 0,
                              height |-> Len(operandStack) - Here.base]
  <2>1. Closed(program, shape, ip)
    BY <1>1, <1>3 DEF CellOk
  <2>2. ip - (ip - Here.start) = Here.start
    BY <1>1 DEF SiteType
  <2> QED
    BY <1>1, <1>3, <2>1, <2>2 DEF Closed
<1>5. callStack[Len(callStack)].top = Here.start
  <2>1. SiteOk(Len(site))
    BY <1>1 DEF SitesOk
  <2> QED
    BY <1>1, <1>4, <2>1 DEF SiteOk, CallSite, RootSite, BottomSite, Here
<1>6. Resumes(Len(site), Here.start, Len(operandStack))
  <2>1. Here.start - Here.start = 0
    BY <1>1 DEF SiteType
  <2> QED
    BY <1>1, <1>4, <2>1 DEF Resumes, Here
<1>7. /\ UNCHANGED << heap, program, shape >> /\ UNCHANGED code
      /\ UNCHANGED << code, callStack, env, control, site >>
  BY <1>2 DEF code
<1>8. MemoryTypes' /\ MemoryGrows
  <2>1. env \in DOMAIN frames /\ <<>> \in Seq(DOMAIN heap)
    BY DEF IInv, TypeOK, LocalTypes
  <2> QED
    BY <1>2, <1>7, <2>1, FrameWritten DEF IInv
<1>9. FunctionsOk'
  BY <1>1, <1>7, <1>8, SameCode, FunctionsStay
<1>10. operandStack' \in Seq(DOMAIN heap')
  BY <1>2 DEF IInv, TypeOK, StackTypes
<1> QED
  BY <1>1, <1>2, <1>5, <1>6, <1>7, <1>8, <1>9, <1>10, PlainStep

------------------------------------------------------------------------------------
(* The call stack *)

\* What a push on the call stack does.
LEMMA Pushed ==
  ASSUME TypeOK, Len(site) = Len(callStack), NEW c, NEW s,
         callStack' = Append(callStack, c), site' = Append(site, s)
  PROVE  /\ Len(callStack') = Len(callStack) + 1 /\ Len(site') = Len(callStack')
         /\ DOMAIN callStack' = 1..(Len(callStack) + 1) /\ DOMAIN site' = 1..(Len(callStack) + 1)
         /\ \A k \in 1..Len(callStack) : callStack'[k] = callStack[k] /\ site'[k] = site[k]
         /\ callStack'[Len(callStack) + 1] = c /\ site'[Len(callStack) + 1] = s
         /\ DOMAIN callStack = 1..Len(callStack) /\ DOMAIN site = 1..Len(callStack)
         /\ Len(callStack) \in Nat
         /\ EntriesKept
<1>1. /\ callStack \in Seq(EntryType) /\ site \in Seq(SiteType)
  BY DEF TypeOK, StackTypes
<1>2. /\ Len(callStack') = Len(callStack) + 1 /\ Len(site') = Len(callStack')
      /\ DOMAIN callStack' = 1..(Len(callStack) + 1) /\ DOMAIN site' = 1..(Len(callStack) + 1)
      /\ \A k \in 1..Len(callStack) : callStack'[k] = callStack[k] /\ site'[k] = site[k]
      /\ callStack'[Len(callStack) + 1] = c /\ site'[Len(callStack) + 1] = s
      /\ DOMAIN callStack = 1..Len(callStack) /\ DOMAIN site = 1..Len(callStack)
      /\ Len(callStack) \in Nat
  BY <1>1
<1> QED
  BY <1>2 DEF EntriesKept

\* A push keeps the relation when the new entry has its place in it.
LEMMA PushStays ==
  ASSUME TypeOK, TypeOK', SitesOk, HostsOk, CodeGrows, MemoryGrows, HostsKept,
         Len(host) <= Len(host'), NEW c, NEW s,
         callStack' = Append(callStack, c), site' = Append(site, s), s.act = Len(host'),
         NEW i, i = Len(callStack) + 1, SiteRow(i)',
         \A j \in DOMAIN host' \ DOMAIN host : HostOk(j)'
  PROVE  SitesOk' /\ HostsOk'
<1>1. Len(site) = Len(callStack)
  BY DEF SitesOk
<1>2. Evolves
  BY <1>1, Pushed DEF Evolves
<1>3. /\ DOMAIN site' \ DOMAIN site = {i} /\ site'[i] = s
      /\ \A k \in DOMAIN site : site'[k] = site[k] /\ k < i
      /\ \A k \in DOMAIN site' : k \in DOMAIN site \/ k = i
      /\ i \in Nat /\ Len(callStack') = i
  BY <1>1, Pushed
<1>4. Len(host) \in Nat /\ Len(host') \in Nat
  BY DEF TypeOK, StackTypes
<1>5. \A k \in DOMAIN site : site[k].act <= Len(host') /\ site[k].act \in Nat
  <2> TAKE k \in DOMAIN site
  <2>1. site[k] \in SiteType
    BY DEF TypeOK, StackTypes
  <2>2. site[k].act \in Nat /\ site[k].act <= Len(host)
    BY <2>1 DEF SiteType, SitesOk
  <2> QED
    BY <1>4, <2>2
<1>6. \A k \in DOMAIN site' : k <= i /\ site'[k].act <= site'[i].act
  BY <1>3, <1>4, <1>5
<1>7. \A k \in DOMAIN site' : i <= k => site'[i].act <= site'[k].act
  <2> TAKE k \in DOMAIN site'
  <2>1. k <= i /\ k \in Int
    BY <1>3, <1>6, Pushed, <1>1
  <2>2. i <= k => k = i
    BY <1>3, <2>1
  <2> QED
    BY <1>3, <1>4, <2>2
<1>8. SitesOk'
  <2>1. \A n \in DOMAIN site' \ DOMAIN site :
           /\ SiteRow(n)'
           /\ \A k \in DOMAIN site' : IF k <= n THEN site'[k].act <= site'[n].act
                                      ELSE site'[n].act <= site'[k].act
    BY <1>3, <1>6, <1>7
  <2> QED
    BY <1>2, <1>5, <2>1, SitesStay
<1>9. HostsOk'
  <2>1. \A j \in DOMAIN host \intersect DOMAIN host' : host[j].level <= Len(callStack')
    <3> TAKE j \in DOMAIN host \intersect DOMAIN host'
    <3>1. host[j].level <= Len(callStack) /\ host[j] \in HostType
      BY DEF HostsOk, HostOk, TypeOK, StackTypes
    <3> QED
      BY <1>3, <3>1, <1>1, Pushed DEF HostType
  <2> QED
    BY <1>2, <2>1, HostsStay
<1> QED
  BY <1>8, <1>9

\* What a pop off the call stack does.
LEMMA Popped ==
  ASSUME TypeOK, Len(site) = Len(callStack), callStack # <<>>,
         callStack' = Front(callStack), site' = Front(site)
  PROVE  /\ Len(callStack') = Len(callStack) - 1 /\ Len(site') = Len(callStack')
         /\ DOMAIN callStack' = 1..(Len(callStack) - 1) /\ DOMAIN site' = 1..(Len(callStack) - 1)
         /\ \A k \in 1..(Len(callStack) - 1) : callStack'[k] = callStack[k] /\ site'[k] = site[k]
         /\ DOMAIN callStack = 1..Len(callStack) /\ DOMAIN site = 1..Len(callStack)
         /\ Len(callStack) \in Nat \ {0}
         /\ callStack' \in Seq(EntryType) /\ site' \in Seq(SiteType)
         /\ EntriesKept
<1>1. /\ callStack \in Seq(EntryType) /\ site \in Seq(SiteType) /\ site # <<>>
      /\ Len(callStack) \in Nat \ {0}
  BY DEF TypeOK, StackTypes
<1>2. /\ Len(callStack') = Len(callStack) - 1 /\ callStack' \in Seq(EntryType)
      /\ \A k \in 1..(Len(callStack) - 1) : callStack'[k] = callStack[k]
  BY <1>1, FrontFacts
<1>3. /\ Len(site') = Len(callStack) - 1 /\ site' \in Seq(SiteType)
      /\ \A k \in 1..(Len(callStack) - 1) : site'[k] = site[k]
  BY <1>1, FrontFacts
<1> QED
  BY <1>1, <1>2, <1>3, SMTT(30) DEF EntriesKept

\* A pop by the innermost call keeps the relation.
LEMMA PopStays ==
  ASSUME TypeOK, TypeOK', SitesOk, HostsOk, CodeGrows, MemoryGrows,
         callStack # <<>>, callStack' = Front(callStack), site' = Front(site),
         UNCHANGED host, Here.act = Len(host)
  PROVE  SitesOk' /\ HostsOk'
<1>1. Len(site) = Len(callStack)
  BY DEF SitesOk
<1>2. Evolves
  <2>1. HostsKept
    BY DEF HostsKept
  <2> QED
    BY <1>1, <2>1, Popped DEF Evolves
<1>3. SitesOk'
  <2>1. DOMAIN site' \ DOMAIN site = {}
    BY <1>1, Popped
  <2> QED
    BY <1>2, <2>1, SitesStay DEF SitesOk
<1>4. ASSUME NEW j \in DOMAIN host PROVE host[j].level <= Len(callStack')
  <2>1. /\ HostOk(j) /\ host[j] \in HostType /\ j <= Len(host) /\ j \in Nat /\ Len(host) \in Nat
    BY DEF HostsOk, TypeOK, StackTypes
  <2>2. host[j].level # Len(callStack)
    BY <1>1, <2>1, Popped DEF HostOk, Here
  <2> QED
    BY <1>1, <2>1, <2>2, Popped DEF HostOk, HostType
<1>5. HostsOk'
  BY <1>2, <1>4, HostsStay
<1> QED
  BY <1>3, <1>5

------------------------------------------------------------------------------------
(* Lets and functions *)

\* The types of the stacks after a push.
LEMMA PushTypes ==
  ASSUME TypeOK, CodeGrows, MemoryGrows, NEW c \in EntryType', NEW s \in SiteType,
         callStack' = Append(callStack, c), site' = Append(site, s)
  PROVE  callStack' \in Seq(EntryType') /\ site' \in Seq(SiteType)
<1>1. callStack \in Seq(EntryType') /\ site \in Seq(SiteType)
  BY TypesGrow DEF TypeOK, StackTypes
<1> QED
  BY <1>1, AppendFacts

\* The step that enters an activation: a let or a bytecode function.
LEMMA EnterStep ==
  ASSUME IInv, mode' = "run", SitesOk, HostsOk, CodeOk, host # <<>>,
         Caller.kind \in {"apply", "exec", "setGlobal"}, Len(site) = Len(callStack),
         UNCHANGED << code, host, result >>,
         MemoryTypes', MemoryGrows, FunctionsOk',
         operandStack' \in Seq(DOMAIN heap'),
         NEW c \in EntryType', NEW s \in SiteType,
         callStack' = Append(callStack, c), site' = Append(site, s),
         env' = c.env, s.act = Len(host), s.body # "none",
         NEW i, i = Len(callStack) + 1, SiteOk(i)',
         NEW a, a = ip', NEW n, n = Len(operandStack'), Resumes(i, a, n)'
  PROVE  IInv'
<1>0. UNCHANGED << program, immediates, shape, todo, host, result >> /\ mode' \in Modes
  BY DEF code, Modes
<1>1. CodeGrows /\ TypeOK
  BY <1>0 DEF CodeGrows, IInv
<1>2. callStack' \in Seq(EntryType') /\ site' \in Seq(SiteType)
  BY <1>1, PushTypes
<1>3. ip' \in DOMAIN program' /\ env' \in DOMAIN frames'
  BY DEF Resumes, EntryType
<1>4. TypeOK'
  <2>1. CodeTypes' /\ LocalTypes'
    BY <1>0, <1>1, <1>3, TypesGrow DEF TypeOK, CodeTypes, LocalTypes
  <2>2. StackTypes'
    BY <1>0, <1>1, <1>2, TypesGrow DEF StackTypes
  <2> QED
    BY <2>1, <2>2 DEF TypeOK
<1>5. HostsKept /\ DOMAIN host' \ DOMAIN host = {} /\ Len(host) <= Len(host') /\ Len(host) > 0
      /\ Len(host) \in Nat
  <2>1. HostsKept
    BY <1>0 DEF HostsKept
  <2> QED
    BY <1>0, <1>1, <2>1 DEF TypeOK, StackTypes
<1>6. /\ Len(callStack') = i /\ Len(site') = i /\ site'[i] = s /\ callStack'[i] = c /\ callStack' # <<>>
  BY <1>1, Pushed
<1>7. SiteRow(i)'
  BY <1>0, <1>5, <1>6 DEF SiteRow, Caller
<1>8. SitesOk' /\ HostsOk'
  BY <1>0, <1>1, <1>4, <1>5, <1>7, PushStays
<1>9. HereOk'
  <2>1. Here' = s /\ Caller' = Caller
    BY <1>0, <1>6 DEF Here, Caller
  <2>2. Resumes(Len(site), ip, Len(operandStack))'
    BY <1>6 DEF Resumes
  <2> QED
    BY <1>0, <1>6, <2>1, <2>2 DEF HereOk
<1>10. CodeOk'
  BY <1>0 DEF CodeOk
<1> QED
  BY <1>4, <1>8, <1>9, <1>10 DEF IInv, Discipline

\* EnterLet keeps the invariant: its entry has a place above that of its activation.
LEMMA EnterLetStep == ASSUME IInv, OpEnterLet PROVE IInv'
<1>1. /\ mode = "run" /\ OpAt = "EnterLet" /\ OpAt = Decode(program[ip])
      /\ SitesOk /\ HostsOk /\ CodeOk /\ HereOk /\ host # <<>> /\ callStack # <<>>
      /\ Len(site) = Len(callStack) /\ Len(site) \in DOMAIN site
      /\ Len(callStack) \in DOMAIN callStack
      /\ env = callStack[Len(callStack)].env
      /\ Here \in SiteType /\ Here.act = Len(host) /\ Here.body # "none"
      /\ Len(operandStack) - Consumes(program, ip) >= Here.base
  BY AtInstruction DEF OpEnterLet, At
<1> DEFINE c == Entry(Unused, Unused, Len(frames) + 1)
           s == Site(Here.body, Here.start, Here.depth + 1, Here.base, Here.act, FALSE)
<1>2. /\ frames' = Append(frames, Frame(env)) /\ env' = Len(frames) + 1
      /\ callStack' = Append(callStack, c) /\ site' = Append(site, s) /\ ip' = Next8
      /\ UNCHANGED << code, heap, operandStack, control >>
  BY DEF OpEnterLet
<1>3. /\ UNCHANGED << program, shape >> /\ UNCHANGED code /\ UNCHANGED << code, host, mode, result >>
      /\ heap' = heap
  BY <1>2 DEF code, control
<1>4. /\ MemoryTypes' /\ MemoryGrows /\ Len(frames) + 1 \in DOMAIN frames'
      /\ frames'[Len(frames) + 1].parent = env
  BY <1>2, <1>3, FrameAllocated DEF IInv, TypeOK, MemoryTypes, LocalTypes
<1>5. FunctionsOk' /\ operandStack' \in Seq(DOMAIN heap')
  BY <1>1, <1>2, <1>3, <1>4, SameCode, FunctionsStay DEF IInv, TypeOK, StackTypes
<1>6. c \in EntryType' /\ c.env = env'
  BY <1>1, <1>2, <1>3, <1>4 DEF Entry, EntryType, Unused, CodeOk, IInv, TypeOK, CodeTypes
<1>7. /\ s \in SiteType /\ s.act = Here.act /\ s.body = Here.body /\ s.start = Here.start
      /\ s.base = Here.base /\ s.depth = Here.depth + 1 /\ s.root = FALSE
      /\ s.depth > 0 /\ s.depth - 1 = Here.depth
  BY <1>1 DEF Site, SiteType
<1> DEFINE i == Len(callStack) + 1
<1> HIDE DEF c, s
<1>8. /\ site'[i] = s /\ site'[i - 1] = Here /\ callStack'[i] = c /\ i > 1 /\ i - 1 = Len(callStack)
      /\ callStack'[i - 1] = callStack[Len(callStack)] /\ i \in DOMAIN site'
  BY <1>1, <1>2, Pushed DEF IInv, Here
<1>9. ASSUME NEW n, n = i PROVE SiteOk(n)'
  <2>1. frames'[callStack'[n].env].parent = callStack'[n - 1].env
    BY <1>1, <1>2, <1>4, <1>6, <1>8, <1>9
  <2>2. LetSite(n)'
    BY <1>7, <1>8, <1>9, <2>1 DEF LetSite
  <2> QED
    BY <1>7, <1>8, <1>9, <2>2 DEF SiteOk
<1>10. ASSUME NEW n, n = i, NEW a, a = ip', NEW k, k = Len(operandStack') PROVE Resumes(n, a, k)'
  <2>1. Opens(program, ip) = 1 /\ Consumes(program, ip) = 0 /\ Produces(program, ip) = 0
    BY <1>1 DEF Opens, Consumes, Produces, ConstOps, LoadOps, LambdaOps
  <2>2. Len(operandStack) - Here.base - 0 + 0 = Len(operandStack) - Here.base
        /\ Len(operandStack) >= Here.base
    BY <1>1, <2>1 DEF SiteType, IInv, TypeOK, StackTypes
  <2>3. /\ Next8 \in DOMAIN program
        /\ shape[Next8] = [body |-> s.body, at |-> Next8 - s.start, depth |-> s.depth,
                           height |-> Len(operandStack) - s.base]
    BY <1>1, <1>7, <2>1, <2>2, GoesOn
  <2> QED
    BY <1>2, <1>3, <1>7, <1>8, <1>10, <2>2, <2>3 DEF Resumes
<1>11. Caller.kind \in {"apply", "exec", "setGlobal"}
  BY <1>1 DEF HereOk
<1>12. i = Len(callStack) + 1 /\ s.act = Len(host) /\ s.body # "none"
  BY <1>1, <1>7
<1> HIDE DEF i
<1> QED
  BY <1>1, <1>2, <1>3, <1>4, <1>5, <1>6, <1>7, <1>9, <1>10, <1>11, <1>12, EnterStep

\* The step that leaves an activation for the one below it in the same VM::execute,
\* or for the Exit that returns to Function::call.
LEMMA LeaveStep ==
  ASSUME IInv, mode = "run", OpAt # "Exit",
         UNCHANGED << code, memory, operandStack, control >>,
         Len(callStack) > 1, callStack' = Front(callStack), site' = Front(site),
         env' = callStack[Len(callStack) - 1].env,
         NEW a, a = ip',
         \/ /\ site[Len(callStack) - 1].act = Len(host)
            /\ Resumes(Len(callStack) - 1, a, Len(operandStack))
         \/ /\ Caller.kind = "apply"
            /\ a \in DOMAIN program /\ Decode(program[a]) = "Exit"
            /\ Len(callStack) - 1 = Caller.level
            /\ Len(operandStack) = Caller.start + Caller.argc + 1
  PROVE  IInv'
<1>0. UNCHANGED << program, immediates, shape, todo, heap, frames, operandStack, host, mode, result >>
      /\ UNCHANGED code /\ UNCHANGED memory
  BY DEF code, memory, control
<1>1. /\ SitesOk /\ HostsOk /\ CodeOk /\ HereOk /\ host # <<>> /\ callStack # <<>>
      /\ Len(site) = Len(callStack) /\ Here.act = Len(host)
  BY AtInstruction
<1>2. TypeOK /\ CodeGrows /\ MemoryTypes' /\ MemoryGrows /\ FunctionsOk'
  BY <1>0, SameCode, SameMemory
<1> DEFINE k == Len(callStack) - 1
<1>3. /\ Len(callStack') = k /\ Len(site') = k /\ k \in 1..Len(callStack') /\ k \in Nat
      /\ callStack'[k] = callStack[k] /\ site'[k] = site[k]
      /\ callStack' \in Seq(EntryType) /\ site' \in Seq(SiteType) /\ callStack' # <<>>
      /\ callStack[k] \in EntryType /\ k \in DOMAIN site' /\ k \in DOMAIN site
  <2>1. k \in 1..k /\ k \in 1..Len(callStack) /\ k \in Nat
    BY <1>2 DEF TypeOK, StackTypes
  <2>2. callStack[k] \in EntryType
    BY <1>2, <2>1 DEF TypeOK, StackTypes
  <2>3. /\ Len(callStack') = k /\ Len(site') = k
        /\ DOMAIN callStack' = 1..k /\ DOMAIN site' = 1..k /\ DOMAIN site = 1..Len(callStack)
        /\ \A n \in 1..k : callStack'[n] = callStack[n] /\ site'[n] = site[n]
        /\ callStack' \in Seq(EntryType) /\ site' \in Seq(SiteType)
    BY <1>1, <1>2, Popped
  <2> HIDE DEF k
  <2>4. callStack' # <<>>
    BY <2>1, <2>3
  <2>5. k \in DOMAIN site
    BY <2>1, <2>3 DEF k
  <2> QED
    BY <2>1, <2>2, <2>3, <2>4, <2>5
<1>4. EntryType' = EntryType /\ HostType' = HostType
  BY <1>0 DEF EntryType, HostType
<1>5. TypeOK'
  <2>1. CodeTypes' /\ StackTypes'
    BY <1>0, <1>2, <1>3, <1>4 DEF TypeOK, CodeTypes, StackTypes
  <2>2. env' \in DOMAIN frames'
    BY <1>0, <1>3 DEF EntryType
  <2>3. ip' \in Nat
    BY <1>2 DEF Resumes, TypeOK, CodeTypes
  <2>4. LocalTypes'
    BY <1>0, <1>2, <2>2, <2>3 DEF TypeOK, LocalTypes
  <2> QED
    BY <1>2, <2>1, <2>4 DEF TypeOK
<1>6. SitesOk' /\ HostsOk'
  BY <1>0, <1>1, <1>2, <1>5, PopStays
<1>7. HereOk'
  <2>1. Caller' = Caller /\ Here' = site[k] /\ env' = callStack'[Len(callStack')].env
    BY <1>0, <1>3 DEF Caller, Here
  <2>2. CASE site[k].act = Len(host) /\ Resumes(k, a, Len(operandStack))
    <3>1. Resumes(Len(site), ip, Len(operandStack))'
      BY <1>0, <1>3, <2>2 DEF Resumes
    <3> QED
      BY <1>0, <1>1, <1>3, <2>1, <2>2, <3>1 DEF HereOk
  <2>3. CASE /\ Caller.kind = "apply"
             /\ a \in DOMAIN program /\ Decode(program[a]) = "Exit"
             /\ k = Caller.level
             /\ Len(operandStack) = Caller.start + Caller.argc + 1
    <3>1. Returned'
      BY <1>0, <1>3, <2>1, <2>3 DEF Returned
    <3> QED
      BY <1>0, <1>1, <1>3, <2>1, <3>1 DEF HereOk
  <2> QED
    BY <2>2, <2>3
<1>8. CodeOk'
  BY <1>0, <1>1 DEF CodeOk
<1> QED
  BY <1>2, <1>5, <1>6, <1>7, <1>8 DEF IInv, Discipline

\* ExitLet keeps the invariant: the parent environment is that of the entry below.
LEMMA ExitLetStep == ASSUME IInv, OpExitLet PROVE IInv'
<1>1. /\ mode = "run" /\ OpAt = "ExitLet" /\ OpAt = Decode(program[ip])
      /\ SitesOk /\ CodeOk /\ callStack # <<>>
      /\ Len(site) = Len(callStack) /\ Len(site) \in DOMAIN site
      /\ env = callStack[Len(callStack)].env
      /\ Here \in SiteType /\ Here.act = Len(host) /\ Here.body # "none"
      /\ Resumes(Len(site), ip, Len(operandStack))
      /\ CellOk(program, shape, ip)
      /\ Len(operandStack) - Consumes(program, ip) >= Here.base
  BY AtInstruction DEF OpExitLet, At
<1>2. CASE callStack = <<>> \/ frames[env].parent = 0
  BY <1>2, CrashHalts DEF OpExitLet
<1>3. CASE ~(callStack = <<>> \/ frames[env].parent = 0)
  <2>1. /\ callStack' = Front(callStack) /\ site' = Front(site)
        /\ env' = frames[env].parent /\ ip' = Next8
        /\ UNCHANGED << code, memory, operandStack, control >>
    BY <1>3 DEF OpExitLet
  <2> DEFINE i == Len(site)
  <2>2. Here.depth > 0
    BY <1>1 DEF CellOk, Closed, Resumes, Here
  <2>3. LetSite(i)
    <3>1. SiteOk(i)
      BY <1>1 DEF SitesOk
    <3> QED
      BY <1>1, <2>2, <3>1 DEF SiteOk, Here, SiteType
  <2>4. /\ Opens(program, ip) = -1 /\ Consumes(program, ip) = 0 /\ Produces(program, ip) = 0
    BY <1>1 DEF Opens, Consumes, Produces, ConstOps, LoadOps, LambdaOps
  <2>5. /\ Len(operandStack) - Here.base - 0 + 0 = Len(operandStack) - Here.base
        /\ Len(operandStack) >= Here.base /\ Here.depth + (-1) = Here.depth - 1
        /\ i \in Nat
    BY <1>1, <2>4, SMTT(30) DEF SiteType, IInv, TypeOK, StackTypes
  <2>6. /\ Next8 \in DOMAIN program
        /\ shape[Next8] = [body |-> Here.body, at |-> Next8 - Here.start, depth |-> Here.depth - 1,
                           height |-> Len(operandStack) - Here.base]
    BY <1>1, <2>4, <2>5, GoesOn
  <2>7. /\ i > 1 /\ i - 1 \in DOMAIN site /\ site[i - 1].act = Len(host)
        /\ env' = callStack[i - 1].env
        /\ site[i - 1].body = Here.body /\ site[i - 1].start = Here.start
        /\ site[i - 1].depth = Here.depth - 1 /\ site[i - 1].base = Here.base
    BY <1>1, <2>1, <2>3, <2>5 DEF LetSite, Here
  <2>8. Resumes(i - 1, Next8, Len(operandStack))
    BY <2>5, <2>6, <2>7 DEF Resumes
  <2> QED
    BY <1>1, <2>1, <2>7, <2>8, LeaveStep
<1> QED
  BY <1>2, <1>3

\* Return keeps the invariant: the caller goes on, or VM::execute reaches its Exit.
LEMMA ReturnStep == ASSUME IInv, OpReturn PROVE IInv'
<1>1. /\ mode = "run" /\ OpAt = "Return" /\ OpAt = Decode(program[ip])
      /\ SitesOk /\ CodeOk /\ callStack # <<>>
      /\ Len(site) = Len(callStack) /\ Len(site) \in DOMAIN site
      /\ Len(callStack) \in DOMAIN callStack
      /\ Here \in SiteType /\ Here.act = Len(host) /\ Here.body # "none"
      /\ Resumes(Len(site), ip, Len(operandStack))
      /\ CellOk(program, shape, ip)
  BY AtInstruction DEF OpReturn, At
<1>2. CASE Len(callStack) < 2
  BY <1>2, CrashHalts DEF OpReturn
<1>3. CASE ~(Len(callStack) < 2)
  <2> DEFINE i == Len(site)
             a == callStack[Len(callStack)].ret
  <2>1. /\ callStack' = Front(callStack) /\ site' = Front(site)
        /\ env' = callStack[Len(callStack) - 1].env /\ ip' = a
        /\ UNCHANGED << code, memory, operandStack, control >>
    BY <1>3 DEF OpReturn
  <2>2. /\ Here.body = "fn" /\ Here.depth = 0 /\ Len(operandStack) - Here.base = 1
    BY <1>1 DEF CellOk, Closed, Resumes, Here
  <2>3. Len(operandStack) = Here.base + 1 /\ Len(callStack) > 1 /\ i \in Nat
    BY <1>1, <1>3, <2>2, SMTT(30) DEF SiteType, IInv, TypeOK, StackTypes
  <2>4. a \in DOMAIN program
    <3>1. callStack[Len(callStack)] \in EntryType
      BY <1>1 DEF IInv, TypeOK, StackTypes
    <3> QED
      BY <3>1 DEF EntryType
  <2>5. SiteOk(i)
    BY <1>1 DEF SitesOk
  <2>6. CallSite(i) \/ RootSite(i)
    BY <1>1, <2>2, <2>5 DEF SiteOk, BottomSite, Here, SiteType
  <2>7. CASE CallSite(i)
    <3>1. site[i - 1].act = Len(host) /\ Resumes(i - 1, a, Len(operandStack))
      BY <1>1, <2>3, <2>7 DEF CallSite, Here
    <3> QED
      BY <1>1, <2>1, <2>3, <3>1, LeaveStep
  <2>8. CASE RootSite(i)
    <3>1. /\ Caller.kind = "apply" /\ Decode(program[a]) = "Exit"
          /\ Len(callStack) - 1 = Caller.level /\ Here.base = Caller.start + Caller.argc
      BY <1>1, <2>2, <2>8 DEF RootSite, Here, Caller
    <3> QED
      BY <1>1, <2>1, <2>3, <2>4, <3>1, LeaveStep
  <2> QED
    BY <2>6, <2>7, <2>8
<1> QED
  BY <1>2, <1>3

\* The number of arguments of a call.
LEMMA CallArity ==
  ASSUME IInv, mode = "run", OpAt = "Call"
  PROVE  /\ P8 \in 0..255 /\ P8 \in Nat
         /\ Consumes(program, ip) = P8 + 1 /\ Produces(program, ip) = 1
<1>1. OpAt = Decode(program[ip])
  BY AtInstruction
<1>2. Consumes(program, ip) = P8 + 1 /\ Produces(program, ip) = 1
  BY <1>1 DEF Consumes, Produces, P8
<1>3. Width(OpAt) > 1
  BY DEF Width
<1>4. P8 \in 0..255
  BY <1>3, Parameters
<1> HIDE DEF P8
<1> QED
  BY <1>2, <1>4

\* A call of a function of the VM with as many operands as it has arguments.
LEMMA CallStep ==
  ASSUME IInv, mode = "run", OpAt = "Call", P8 + 1 <= Len(operandStack),
         NEW v \in DOMAIN heap, heap[v].kind = "fn", heap[v].model # "Wrapped",
         heap' \in Seq(Object),
         \A x \in DOMAIN heap : x \in DOMAIN heap' /\ heap'[x] = heap[x],
         \A x \in DOMAIN heap' \ DOMAIN heap :
           heap'[x].kind = "pair" /\ heap'[x].car \in DOMAIN heap' /\ heap'[x].cdr \in DOMAIN heap',
         operandStack' \in Seq(DOMAIN heap'),
         NEW base, base = Len(operandStack) - (P8 + 1),
         Len(operandStack') = base + heap[v].argc,
         Enter(heap[v], Next8, base)
  PROVE  IInv'
<1>1. /\ SitesOk /\ HostsOk /\ CodeOk /\ HereOk /\ FunctionsOk /\ host # <<>> /\ callStack # <<>>
      /\ Len(site) = Len(callStack) /\ Len(site) \in DOMAIN site
      /\ Here \in SiteType /\ Here.act = Len(host) /\ Here.body # "none"
      /\ OpAt = Decode(program[ip])
  BY AtInstruction
<1> DEFINE fn == heap[v]
           c == Entry(Next8, fn.addr, Len(frames) + 1)
           s == Site("fn", fn.addr, 0, base, Len(host), FALSE)
           i == Len(callStack) + 1
<1>2. /\ frames' = Append(frames, Frame(fn.def)) /\ env' = Len(frames) + 1
      /\ callStack' = Append(callStack, c) /\ site' = Append(site, s) /\ ip' = fn.addr
      /\ UNCHANGED << code, control >>
  BY DEF Enter
<1>3. UNCHANGED << program, shape >> /\ UNCHANGED code /\ UNCHANGED << code, host, mode, result >>
  BY <1>2 DEF code, control
<1>4. /\ fn.def \in DOMAIN frames /\ fn.addr \in DOMAIN program /\ fn.argc \in Nat /\ fn.addr \in Nat
      /\ shape[fn.addr] = [body |-> "fn", at |-> 0, depth |-> 0, height |-> fn.argc]
  <2>1. ObjectOk(fn) /\ fn.addr \in DOMAIN program
    BY DEF IInv, TypeOK, MemoryTypes, ObjectOk
  <2>2. shape[fn.addr] = [body |-> "fn", at |-> 0, depth |-> 0, height |-> fn.argc]
    BY <1>1 DEF FunctionsOk
  <2>3. shape[fn.addr] \in Shape /\ fn.addr \in Nat
    BY <1>1, <2>1 DEF CodeOk, Disciplined
  <2>4. shape[fn.addr].height \in Nat
    BY <2>3 DEF Shape
  <2> QED
    BY <2>1, <2>2, <2>3, <2>4 DEF ObjectOk
<1>5. /\ MemoryTypes' /\ MemoryGrows /\ Len(frames) + 1 \in DOMAIN frames'
  BY <1>2, <1>3, <1>4, FrameAllocated DEF IInv
<1>6. FunctionsOk'
  BY <1>1, <1>3, <1>5, SameCode, FunctionsStay
<1>7. P8 \in Nat /\ base \in Nat /\ Consumes(program, ip) = P8 + 1 /\ Produces(program, ip) = 1
  BY CallArity, SMTT(30) DEF IInv, TypeOK, StackTypes
<1>8. Resumes(Len(site), Next8, base + 1)
  <2>1. base + 1 \in Nat /\ base + 1 = Len(operandStack) - (P8 + 1) + 1
    BY <1>7
  <2> QED
    BY <1>7, <2>1, GoesOnInPlace
<1>9. c \in EntryType' /\ c.env = env' /\ c.ret = Next8 /\ c.top = fn.addr
  BY <1>2, <1>3, <1>4, <1>5, <1>8 DEF Entry, EntryType, Resumes
<1>10. /\ s \in SiteType /\ s.act = Len(host) /\ s.body = "fn" /\ s.start = fn.addr
       /\ s.base = base /\ s.depth = 0 /\ s.root = FALSE
  BY <1>4, <1>7 DEF Site, SiteType, Bodies, IInv, TypeOK, StackTypes
<1> HIDE DEF c, s
<1>11. /\ site'[i] = s /\ site'[i - 1] = Here /\ callStack'[i] = c /\ i > 1 /\ i - 1 = Len(callStack)
       /\ i \in DOMAIN site' /\ i - 1 \in DOMAIN site'
  BY <1>1, <1>2, Pushed DEF IInv, Here
<1>12. ASSUME NEW n, n = i PROVE SiteOk(n)'
  <2>1. ASSUME NEW k, k = n - 1, NEW a, a = Next8, NEW m, m = base + 1 PROVE Resumes(k, a, m)'
    BY <1>1, <1>3, <1>8, <1>11, <1>12, <2>1 DEF Resumes, Here
  <2>2. CallSite(n)'
    BY <1>1, <1>9, <1>10, <1>11, <1>12, <2>1 DEF CallSite
  <2> QED
    BY <1>10, <1>11, <1>12, <2>2 DEF SiteOk
<1>13. ASSUME NEW n, n = i, NEW a, a = ip', NEW k, k = Len(operandStack') PROVE Resumes(n, a, k)'
  <2>1. base + fn.argc >= base /\ (base + fn.argc) - base = fn.argc /\ fn.addr - fn.addr = 0
    BY <1>4, <1>7
  <2> QED
    BY <1>2, <1>3, <1>4, <1>10, <1>11, <1>13, <2>1, SMTT(30) DEF Resumes
<1>14. Caller.kind \in {"apply", "exec", "setGlobal"}
  BY <1>1 DEF HereOk
<1>15. i = Len(callStack) + 1 /\ s.act = Len(host) /\ s.body # "none"
  BY <1>1, <1>10
<1> HIDE DEF i, fn
<1> QED
  BY <1>1, <1>2, <1>3, <1>5, <1>6, <1>9, <1>10, <1>12, <1>13, <1>14, <1>15, EnterStep

\* The callee of a call.
LEMMA CalleeOf ==
  ASSUME IInv, mode = "run", OpAt = "Call", P8 + 1 <= Len(operandStack)
  PROVE  Operand(0) \in DOMAIN heap /\ P8 \in 0..255
<1>1. P8 \in 0..255 /\ P8 \in Nat
  BY CallArity
<1>2. Len(operandStack) \in Nat
  BY DEF IInv, TypeOK, StackTypes
<1>3. 0 \in 0..(Len(operandStack) - 1) /\ 0 <= Len(operandStack)
  BY <1>1, <1>2
<1>4. Operand(0) \in DOMAIN heap
  BY <1>3, Operands DEF IInv
<1> QED
  BY <1>1, <1>4

\* A call of a function with a fixed number of arguments keeps the invariant.
LEMMA CallBytecodeStep == ASSUME IInv, CallBytecode PROVE IInv'
<1>1. /\ mode = "run" /\ OpAt = "Call" /\ P8 + 1 <= Len(operandStack) /\ ~CallFails(P8)
      /\ Target.model = "Bytecode" /\ operandStack' = Dropped(1) /\ heap' = heap
      /\ Enter(Target, Next8, Len(operandStack) - (P8 + 1))
  <2>1. OpAt = "Call" /\ mode = "run" /\ Len(operandStack) >= P8 + 1
    BY DEF CallBytecode, At
  <2>2. P8 \in Nat
    BY <2>1, CallArity
  <2> QED
    BY <2>1, <2>2 DEF CallBytecode, IInv, TypeOK, StackTypes
<1>2. Operand(0) \in DOMAIN heap /\ P8 \in 0..255
  BY <1>1, CalleeOf
<1>3. heap[Operand(0)].kind = "fn" /\ heap[Operand(0)].model = "Bytecode" /\ heap[Operand(0)].argc = P8
  BY <1>1 DEF CallFails, IsKind, Is, Target
<1>4. /\ operandStack' \in Seq(DOMAIN heap) /\ Len(operandStack') = Len(operandStack) - 1
      /\ Len(operandStack) \in Nat
  BY <1>1, <1>2, Operands DEF IInv, TypeOK, StackTypes
<1>5. Len(operandStack') = Len(operandStack) - (P8 + 1) + heap[Operand(0)].argc
  BY <1>2, <1>3, <1>4
<1>6. heap' \in Seq(Object)
  BY <1>1 DEF IInv, TypeOK, MemoryTypes
<1> QED
  BY <1>1, <1>2, <1>3, <1>4, <1>5, <1>6, CallStep DEF Target

\* How many arguments of a variadic call are beyond the named ones.
LEMMA ExtraArguments ==
  ASSUME IInv, CallVariadic
  PROVE  /\ P8 \in 0..255 /\ Len(operandStack) \in Nat /\ Len(heap) \in Nat /\ Len(heap) >= 3
         /\ P8 + 1 <= Len(operandStack) /\ Operand(0) \in DOMAIN heap
         /\ heap[Operand(0)].kind = "fn" /\ heap[Operand(0)].model = "BytecodeVariadic"
         /\ Target.argc \in Nat /\ Target.argc > 0 /\ P8 >= Target.argc - 1
         /\ P8 - (Target.argc - 1) \in 0..P8
<1>1. /\ mode = "run" /\ OpAt = "Call" /\ Len(operandStack) >= P8 + 1 /\ ~CallFails(P8)
      /\ Target.model = "BytecodeVariadic"
  BY DEF CallVariadic, At
<1>2. P8 \in 0..255 /\ Len(operandStack) \in Nat /\ Len(heap) \in Nat /\ Len(heap) >= 3
  <2>1. P8 \in 0..255
    BY <1>1, CallArity
  <2>2. Len(operandStack) \in Nat /\ Len(heap) \in Nat /\ Len(heap) >= 3
    BY DEF IInv, TypeOK, StackTypes, MemoryTypes
  <2> QED
    BY <2>1, <2>2
<1>3. P8 + 1 <= Len(operandStack) /\ Operand(0) \in DOMAIN heap
  BY <1>1, <1>2, CalleeOf
<1>4. /\ heap[Operand(0)].kind = "fn" /\ heap[Operand(0)].model = "BytecodeVariadic"
      /\ Target.argc \in Nat /\ Target.argc > 0 /\ P8 >= Target.argc - 1
  <2>1. heap[Operand(0)].kind = "fn" /\ heap[Operand(0)].model = "BytecodeVariadic"
        /\ ~(P8 < Target.argc - 1)
    BY <1>1 DEF CallFails, IsKind, Is, Target
  <2>2. heap[Operand(0)].argc \in Nat
    <3>1. heap[Operand(0)] \in Object
      BY <1>3 DEF IInv, TypeOK, MemoryTypes
    <3> QED
      BY <2>1, <3>1 DEF Object, Atom, Builtin
  <2>3. FunctionsOk
    BY <1>1 DEF IInv, Discipline, Sound
  <2>4. heap[Operand(0)].argc > 0
    BY <1>3, <2>1, <2>3 DEF FunctionsOk
  <2> QED
    <3>1. Target.argc \in Nat /\ Target.argc > 0 /\ ~(P8 < Target.argc - 1)
      BY <2>1, <2>2, <2>4 DEF Target
    <3>2. \A x, y \in Nat : ~(x < y - 1) => x >= y - 1
      OBVIOUS
    <3> HIDE DEF P8
    <3> QED
      BY <1>2, <2>1, <3>1, <3>2
<1>5. P8 - (Target.argc - 1) \in 0..P8
  BY <1>2, <1>4, SMTT(30)
<1> QED
  BY <1>2, <1>3, <1>4, <1>5

\* The list of the extra arguments takes the place of as many operands.
LEMMA CallVariadicStep == ASSUME IInv, CallVariadic PROVE IInv'
<1> DEFINE extra == P8 - (Target.argc - 1)
           n     == Len(heap)
           pairs == [k \in 1..extra |-> Pair(Operand(k), IF k = 1 THEN Null ELSE n + k - 1)]
           list  == IF extra = 0 THEN Null ELSE n + extra
<1>1. /\ mode = "run" /\ OpAt = "Call" /\ Len(operandStack) >= P8 + 1 /\ ~CallFails(P8)
      /\ Target.model = "BytecodeVariadic"
      /\ heap' = heap \o pairs /\ operandStack' = Append(Dropped(extra + 1), list)
      /\ Enter(Target, Next8, Len(operandStack) - (P8 + 1))
  BY DEF CallVariadic, At
<1>2. P8 \in 0..255 /\ Len(operandStack) \in Nat /\ n \in Nat /\ n >= 3
  BY ExtraArguments
<1>3. P8 + 1 <= Len(operandStack) /\ Operand(0) \in DOMAIN heap
  BY ExtraArguments
<1>4. /\ heap[Operand(0)].kind = "fn" /\ heap[Operand(0)].model = "BytecodeVariadic"
      /\ Target.argc \in Nat /\ Target.argc > 0 /\ P8 >= Target.argc - 1
  BY ExtraArguments
<1>5. extra \in 0..P8
  BY ExtraArguments
<1>6. \A k \in 1..extra : Operand(k) \in DOMAIN heap
  BY <1>1, <1>2, <1>5, Operands DEF IInv
<1> HIDE DEF extra
<1>7. \A k \in 1..extra : /\ pairs[k] = Pair(Operand(k), IF k = 1 THEN Null ELSE n + k - 1)
                          /\ (IF k = 1 THEN Null ELSE n + k - 1) \in 1..(n + extra)
                          /\ (IF k = 1 THEN Null ELSE n + k - 1) \in Nat
                          /\ Operand(k) \in Nat /\ Operand(k) \in 1..n
  BY <1>2, <1>5, <1>6 DEF Null, IInv, TypeOK, MemoryTypes
<1>8. pairs \in Seq(Object) /\ Len(pairs) = extra
  <2>1. \A k \in 1..extra : pairs[k] \in Object
    BY <1>7 DEF Pair, Object
  <2> HIDE DEF Object
  <2>2. pairs \in [1..extra -> Object]
    BY <2>1
  <2> HIDE DEF pairs
  <2> QED
    BY <1>5, <1>2, <2>2
<1>9. /\ heap' \in Seq(Object) /\ Len(heap') = n + extra
      /\ \A x \in 1..n : heap'[x] = heap[x]
      /\ \A k \in 1..extra : heap'[n + k] = pairs[k]
  <2>1. heap \in Seq(Object)
    BY DEF IInv, TypeOK, MemoryTypes
  <2> HIDE DEF Object, pairs, n
  <2>2. n = Len(heap)
    BY DEF n
  <2>3. heap' = heap \o pairs /\ pairs \in Seq(Object)
    BY <1>1, <1>8
  <2>4. /\ heap' \in Seq(Object) /\ Len(heap') = Len(heap) + Len(pairs)
        /\ \A x \in 1..Len(heap) : heap'[x] = heap[x]
        /\ \A k \in 1..Len(pairs) : heap'[Len(heap) + k] = pairs[k]
    BY <2>1, <2>3, ConcatFacts
  <2> QED
    BY <1>8, <2>2, <2>4
<1>10. DOMAIN heap = 1..n /\ DOMAIN heap' = 1..(n + extra)
  BY <1>2, <1>5, <1>9 DEF IInv, TypeOK, MemoryTypes
<1>11. \A x \in DOMAIN heap : x \in DOMAIN heap' /\ heap'[x] = heap[x]
  BY <1>2, <1>5, <1>9, <1>10
<1>12. ASSUME NEW x \in DOMAIN heap' \ DOMAIN heap
       PROVE  heap'[x].kind = "pair" /\ heap'[x].car \in DOMAIN heap' /\ heap'[x].cdr \in DOMAIN heap'
  <2> DEFINE k == x - n
  <2>1. k \in 1..extra /\ n + k = x
    BY <1>2, <1>5, <1>10
  <2>2. heap'[x] = Pair(Operand(k), IF k = 1 THEN Null ELSE n + k - 1)
    BY <1>7, <1>9, <2>1
  <2>3. Operand(k) \in DOMAIN heap' /\ (IF k = 1 THEN Null ELSE n + k - 1) \in DOMAIN heap'
    BY <1>2, <1>5, <1>7, <1>10, <2>1
  <2> HIDE DEF k
  <2> QED
    BY <2>2, <2>3 DEF Pair
<1>13. list \in DOMAIN heap'
  BY <1>2, <1>5, <1>10 DEF Null
<1>14. /\ operandStack' \in Seq(DOMAIN heap')
       /\ Len(operandStack') = Len(operandStack) - (P8 + 1) + heap[Operand(0)].argc
  <2>1. /\ Dropped(extra + 1) \in Seq(DOMAIN heap)
        /\ Len(Dropped(extra + 1)) = Len(operandStack) - (extra + 1)
    <3>1. extra + 1 \in Nat /\ extra + 1 <= Len(operandStack)
      BY <1>1, <1>2, <1>5
    <3> QED
      BY <3>1, Operands DEF IInv
  <2>2. Dropped(extra + 1) \in Seq(DOMAIN heap')
    BY <1>11, <2>1, SeqMono
  <2>3. operandStack' \in Seq(DOMAIN heap')
        /\ Len(operandStack') = Len(operandStack) - (extra + 1) + 1
    <3> HIDE DEF list
    <3>1. operandStack' = Append(Dropped(extra + 1), list)
      BY <1>1
    <3> QED
      BY <1>13, <2>1, <2>2, <3>1, AppendFacts
  <2>4. /\ extra = P8 - (heap[Operand(0)].argc - 1) /\ heap[Operand(0)].argc \in Nat
        /\ P8 \in Nat /\ Len(operandStack) \in Nat
    BY <1>2, <1>4 DEF extra, Target
  <2>5. Len(operandStack) - (extra + 1) + 1 = Len(operandStack) - (P8 + 1) + heap[Operand(0)].argc
    BY <2>4, SMTT(30)
  <2> QED
    BY <2>3, <2>5
<1> HIDE DEF n, pairs, list
<1> QED
  BY <1>1, <1>3, <1>4, <1>9, <1>11, <1>12, <1>14, CallStep DEF Target
========================================================================================
