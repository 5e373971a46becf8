------------------------------ MODULE Bytecode ------------------------------
(***************************************************************************)
(* The instruction set of the EBL virtual machine (runtime/bytecode.hpp)   *)
(* and the discipline a piece of code must follow for the machine, which   *)
(* checks nothing while it runs, to stay within its stacks.                *)
(*                                                                         *)
(* Code is a sequence of bytes, as Context::program_ is.  Address a of the *)
(* C++ program is index a + 1 here.                                        *)
(*                                                                         *)
(* A "shape" is a ghost annotation parallel to the code: for the first     *)
(* byte of every reachable instruction it says which kind of body the      *)
(* instruction belongs to, how far from the start of that body it is, how  *)
(* many let expressions are open and how many operands the body has on the *)
(* operand stack.  The C++ program keeps no such thing: the compiler is    *)
(* trusted.  Disciplined says when an annotation is consistent.            *)
(***************************************************************************)
EXTENDS Integers, Sequences, SequencesExt

\* enum class Opcode, in the order of the C++ declaration: the byte of the
\* opcode at position i is i - 1.
OpcodeList ==
  << "Exit", "Call", "Return", "Recur", "Jump", "JumpIfFalse", "Load",
     "Load0", "Load1", "Load2", "Load0Fast", "Load1Fast", "Store", "Rebind",
     "PushI", "PushNull", "PushTrue", "PushFalse", "PushLambda",
     "PushDocumentedLambda", "PushVariadicLambda", "Discard", "EnterLet",
     "ExitLet", "Cons", "Car", "Cdr", "IsNull" >>

Opcodes == ToSet(OpcodeList)

Byte == 0..255

\* The opcode a byte stands for.  The direct-threaded dispatcher indexes its
\* label table with the byte unchecked.
Decode(byte) == IF byte < 28 THEN OpcodeList[byte + 1] ELSE "undefined"

\* The byte an opcode is written as.
Encode(op) == CHOOSE b \in 0..27 : OpcodeList[b + 1] = op

\* readParam<uint8_t>, readParam<uint16_t>: the parameter at index a.
U8(code, a)  == code[a]
U16(code, a) == code[a] + 256 * code[a + 1]

\* writeParam for a 16 bit parameter: little-endian, truncated to its width.
Bytes16(n) == << n % 256, (n \div 256) % 256 >>

LoadOps   == {"Load", "Load0", "Load1", "Load2", "Load0Fast", "Load1Fast"}
ConstOps  == {"PushI", "PushNull", "PushTrue", "PushFalse"}
LambdaOps == {"PushLambda", "PushDocumentedLambda", "PushVariadicLambda"}

\* Size of an instruction with its parameters: how far the handler of the
\* opcode moves ip before it jumps.
Width(op) ==
  CASE op \in {"Load", "Rebind"} -> 5
    [] op = "PushDocumentedLambda" -> 4
    [] op \in {"Jump", "JumpIfFalse", "Load0", "Load1", "Load2", "PushI"} -> 3
    [] op \in {"Call", "Load0Fast", "Load1Fast", "PushLambda", "PushVariadicLambda"} -> 2
    [] OTHER -> 1

\* A lambda's body starts after the Jump that skips it:
\* sizeof(Opcode::Jump) + sizeof(uint16_t).
JumpSize == 3

-----------------------------------------------------------------------------
(* Shapes *)

\* Kinds of body: the code of a function, of a statement that
\* Environment::exec runs, of a definition that setGlobal runs.
Bodies == {"fn", "exec", "setGlobal"}

Shape == [body : Bodies \union {"none"}, at : Int, depth : Nat, height : Nat]

\* Operand bytes and instructions nothing reaches.
NoShape == [body |-> "none", at |-> 0, depth |-> 0, height |-> 0]

\* Operands the instruction at a takes off the stack, and puts back on it.
Consumes(code, a) ==
  LET op == Decode(code[a]) IN
  CASE op = "Call" -> U8(code, a + 1) + 1
    [] op = "Cons" -> 2
    [] op \in {"Store", "Rebind", "Discard", "JumpIfFalse", "Car", "Cdr", "IsNull"} -> 1
    [] OTHER -> 0

Produces(code, a) ==
  IF Decode(code[a]) \in LoadOps \union ConstOps \union LambdaOps
                           \union {"Call", "Cons", "Car", "Cdr", "IsNull"}
  THEN 1 ELSE 0

\* Lets the instruction opens (negative: closes).
Opens(code, a) ==
  LET op == Decode(code[a]) IN
  CASE op = "EnterLet" -> 1 [] op = "ExitLet" -> -1 [] OTHER -> 0

\* Control leaves instruction a, whose shape is x, for index b in the same body.
Onward(code, a, x, b) ==
  [to |-> b,
   shape |-> [body   |-> x.body,
              at     |-> x.at + (b - a),
              depth  |-> x.depth + Opens(code, a),
              height |-> x.height - Consumes(code, a) + Produces(code, a)]]

\* The body that the lambda instruction at a creates a function for.  Call
\* checks the number of arguments, so the body starts with argc operands.
LambdaBody(code, a) ==
  [to |-> a + Width(Decode(code[a])) + JumpSize,
   shape |-> [body |-> "fn", at |-> 0, depth |-> 0, height |-> U8(code, a + 1)]]

\* The instructions control can reach next from a, with the shape they need.
Successors(code, a, x) ==
  LET op   == Decode(code[a])
      next == a + Width(op)
  IN  CASE op \in {"Exit", "Return", "Recur"} -> {}
        [] op = "Jump" -> {Onward(code, a, x, next + U16(code, a + 1))}
        [] op = "JumpIfFalse" ->
             {Onward(code, a, x, next), Onward(code, a, x, next + U16(code, a + 1))}
        [] op \in LambdaOps -> {Onward(code, a, x, next), LambdaBody(code, a)}
        [] OTHER -> {Onward(code, a, x, next)}

\* What some instructions demand besides.  Recur goes back to the start of
\* the function, which needs as many operands as the function has arguments;
\* Return and the Exit that ends a statement leave exactly the result.  A variadic
\* function has a name for the list.
Closed(code, s, a) ==
  LET op == Decode(code[a])
      x  == s[a]
  IN  /\ op = "Recur" =>
           /\ x.body = "fn" /\ x.depth = 0
           /\ a - x.at \in DOMAIN code
           /\ s[a - x.at] = [x EXCEPT !.at = 0]
      /\ op = "Return" => x.body = "fn" /\ x.depth = 0 /\ x.height = 1
      /\ op = "Exit" =>
           /\ x.body # "fn" /\ x.depth = 0 /\ x.height \in {0, 1}
           /\ x.body = "exec" => x.height = 1
      /\ op = "ExitLet" => x.depth > 0
      /\ op = "PushVariadicLambda" => U8(code, a + 1) > 0

\* The instruction at a keeps to the discipline.
CellOk(code, s, a) ==
  s[a].body # "none" =>
    /\ Decode(code[a]) \in Opcodes
    /\ a + Width(Decode(code[a])) - 1 \in DOMAIN code
    /\ s[a].height >= Consumes(code, a)
    /\ Closed(code, s, a)
    /\ \A t \in Successors(code, a, s[a]) : t.to \in DOMAIN code /\ s[t.to] = t.shape

\* Code and annotation that the machine can run unchecked.
Disciplined(code, s) ==
  /\ code \in Seq(Byte)
  /\ s \in Seq(Shape)
  /\ Len(s) = Len(code)
  /\ \A a \in DOMAIN code : CellOk(code, s, a)

\* What Environment hands to the machine: starts as a body of the given kind
\* and ends with the Exit that BytecodeBuilder::result appends.
DisciplinedChunk(code, s, body) ==
  /\ Disciplined(code, s)
  /\ code # <<>>
  /\ s[1] = [body |-> body, at |-> 0, depth |-> 0, height |-> 0]
  /\ Decode(code[Len(code)]) = "Exit"
=============================================================================
