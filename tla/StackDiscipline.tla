--------------------------- MODULE StackDiscipline ---------------------------
(***************************************************************************)
(* What the machine promises when its code keeps to the discipline of      *)
(* module Bytecode, and the inductive invariant that shows it.             *)
(*                                                                         *)
(* The VM checks nothing: no handler looks at the height of a stack, and   *)
(* the collector finds the environment of the running code only through    *)
(* the call stack.  What makes this right is a relation between the two    *)
(* stacks, the C++ calls and the code, stated here.                        *)
(***************************************************************************)
EXTENDS VM

\* Literals and builtins, as the machine sees them: a quoted list or pair is one object,
\* with the numbers of its elements.
Atom ==
  [kind : {"int"}, n : Int] \union [kind : {"str", "sym"}, s : Seq(STRING)]
    \union [kind : {"char"}, glyph : STRING]
    \union [kind : {"float"}, whole : Seq(STRING), part : Seq(STRING)]
    \union [kind : {"list", "dotted"}, items : Seq(Nat)]
    \union {Builtin(name) : name \in Builtins}

\* Of code that does not keep to the discipline, the annotation may say anything.
Note == [body : Bodies \union {"none"}, at : Int, depth : Int, height : Int]

Chunk ==
  [kind : {"exec", "setGlobal"}, outcome : {"ok", "throws", "undefined"}, last : BOOLEAN,
   code : Seq(Byte), shape : Seq(Note), lits : Seq(Atom)]

\* The compiler's output, as module Compiler describes it.
ASSUME SessionsTyped == Sessions \subseteq Seq(Chunk)

\* What compiled keeps to the discipline.
ChunkOk(c) == c.outcome = "ok" => DisciplinedChunk(c.code, c.shape, c.kind)

\* So does what the program has been given so far: the statements that are not in todo.
CodeDisciplined == \A i \in 1..Len(session) - Len(todo) : ChunkOk(session[i])

-----------------------------------------------------------------------------
(* Types *)

Object ==
  [kind : {"bool", "null"}] \union [kind : {"pair"}, car : Nat, cdr : Nat]
    \union [kind : {"fn"}, model : {"Bytecode", "BytecodeVariadic"}, argc : Nat,
            addr : Nat, def : Nat]
    \union Atom

\* An object refers to objects and frames that exist.
ObjectOk(o) ==
  /\ o.kind = "pair" => o.car \in DOMAIN heap /\ o.cdr \in DOMAIN heap
  /\ o.kind = "fn" /\ o.model # "Wrapped" => o.addr \in DOMAIN program /\ o.def \in DOMAIN frames

\* The parent of an environment is older.
FrameOk(e) ==
  /\ frames[e].parent \in 0..e - 1
  /\ frames[e].vars \in Seq(DOMAIN heap)

EntryType == [ret : DOMAIN program, top : DOMAIN program, env : DOMAIN frames]

SiteType == [body : Bodies \union {"none"}, start : Nat, depth : Nat, base : Nat,
             act : Nat, root : BOOLEAN]

HostType ==
  [kind : Builtins \union {"exec", "setGlobal"}, done : BOOLEAN, start : Nat, argc : Nat,
   owned : Nat, params : Nat, cursor : DOMAIN heap, ip : Nat, env : DOMAIN frames, level : Nat]

CodeTypes ==
  /\ program \in Seq(Byte) /\ shape \in Seq(Shape)
  /\ todo \in Seq(Chunk)
  /\ immediates \in Seq(DOMAIN heap)

MemoryTypes ==
  /\ heap \in Seq(Object) /\ Len(heap) >= 3
  /\ \A v \in DOMAIN heap : ObjectOk(heap[v])
  /\ frames \in Seq([parent : Nat, vars : Seq(Nat)]) /\ frames # <<>>
  /\ \A e \in DOMAIN frames : FrameOk(e)

StackTypes ==
  /\ operandStack \in Seq(DOMAIN heap)
  /\ callStack \in Seq(EntryType)
  /\ site \in Seq(SiteType)
  /\ host \in Seq(HostType)

LocalTypes ==
  /\ mode \in Modes
  /\ ip \in Nat /\ env \in DOMAIN frames
  /\ result \in DOMAIN heap

\* Every reference a value, an environment, a stack entry or a local of the machine
\* holds is to something that exists, and every environment's parent is older.
TypeOK == CodeTypes /\ MemoryTypes /\ StackTypes /\ LocalTypes

-----------------------------------------------------------------------------
(* The relation between the stacks, the C++ calls and the code *)

\* Neither an exception nor undefined behaviour has happened.
Sound == mode \notin {"unwind", "exited", "fault"}

\* The activation of entry k of the call stack can go on at index a of the program
\* when the operand stack has n elements.
Resumes(k, a, n) ==
  /\ k \in DOMAIN site /\ a \in DOMAIN program
  /\ n >= site[k].base
  /\ shape[a] = [body |-> site[k].body, at |-> a - site[k].start,
                 depth |-> site[k].depth, height |-> n - site[k].base]

\* The program keeps to the discipline and ends with an Exit.
CodeOk ==
  /\ Disciplined(program, shape)
  /\ program # <<>> /\ Decode(program[Len(program)]) = "Exit"

\* A function's address is the start of a body for as many operands as it has
\* arguments.
FunctionsOk ==
  \A v \in DOMAIN heap :
    heap[v].kind = "fn" /\ heap[v].model # "Wrapped" =>
      /\ shape[heap[v].addr] = [body |-> "fn", at |-> 0, depth |-> 0, height |-> heap[v].argc]
      /\ heap[v].model = "BytecodeVariadic" => heap[v].argc > 0

\* Entry i was pushed by EnterLet, in the activation of the entry below it.
LetSite(i) ==
  /\ i > 1
  /\ site[i - 1].body = site[i].body /\ site[i - 1].start = site[i].start
  /\ site[i - 1].depth = site[i].depth - 1
  /\ site[i - 1].base = site[i].base /\ site[i - 1].act = site[i].act
  /\ frames[callStack[i].env].parent = callStack[i - 1].env

\* Entry i was pushed by Call: the caller can go on at the return address when the
\* result has taken the place of the arguments.
CallSite(i) ==
  /\ i > 1 /\ site[i].body = "fn"
  /\ callStack[i].top = site[i].start
  /\ site[i - 1].act = site[i].act
  /\ Resumes(i - 1, callStack[i].ret, site[i].base + 1)

\* Entry i is the first of a VM::execute, whose caller is host[act].
RootSite(i) ==
  /\ site[i].act \in DOMAIN host
  /\ LET h == host[site[i].act] IN
     /\ h.level = i - 1
     /\ \/ /\ site[i].body = "fn" /\ h.kind = "apply"
           /\ callStack[i].top = site[i].start
           /\ Decode(program[callStack[i].ret]) = "Exit"
           /\ site[i].base = h.start + h.argc
           /\ i > 1
        \/ /\ site[i].body = h.kind /\ h.kind \in {"exec", "setGlobal"}
           /\ site[i].base = h.start

\* Context's own entry: nothing runs in it.
BottomSite(i) == i = 1 /\ site[i].body = "none" /\ site[i].act = 0

SiteOk(i) ==
  \/ site[i].depth > 0 /\ ~site[i].root /\ LetSite(i)
  \/ site[i].depth = 0 /\ ~site[i].root /\ CallSite(i)
  \/ site[i].depth = 0 /\ site[i].root /\ (RootSite(i) \/ BottomSite(i))

\* An entry belongs to a C++ call that exists, and those above it to the same call
\* or to one that came later.
SitesOk ==
  /\ Len(site) = Len(callStack)
  /\ \A i, k \in DOMAIN site : i <= k => site[i].act <= site[k].act
  /\ \A i \in DOMAIN site :
       /\ SiteOk(i)
       /\ site[i].act <= Len(host)
       /\ IF site[i].body = "none" THEN site[i].act = 0
          ELSE site[i].act > 0 /\ host[site[i].act].kind \in {"apply", "exec", "setGlobal"}

\* A builtin called by the VM: the VM::execute waiting for it can go on at ip.
FromVM(j) ==
  /\ j > 1
  /\ host[j].owned = host[j].argc
  /\ site[host[j].level].act = j - 1
  /\ host[j].env = callStack[host[j].level].env
  /\ Resumes(host[j].level, host[j].ip, host[j].start + 1)

\* A builtin called by apply, on the arguments apply has pushed.
FromApply(j) ==
  /\ j > 1 /\ host[j - 1].kind = "apply"
  /\ host[j].owned = 0
  /\ host[j].level = host[j - 1].level
  /\ host[j].start = host[j - 1].start + host[j - 1].argc
  /\ host[j].argc = host[j - 1].params

\* exec called by load; exec and setGlobal called by the embedder.
FromLoad(j) ==
  /\ j > 1 /\ host[j - 1].kind \in Loaders
  /\ host[j].kind = "exec"
  /\ host[j].level = host[j - 1].level
  /\ host[j].start = host[j - 1].start + host[j - 1].argc
  /\ host[j - 1].params = 0

FromEmbedder(j) == j = 1 /\ host[j].level <= 1

HostOk(j) ==
  /\ host[j].level <= Len(callStack)
  /\ host[j].level > 0 => site[host[j].level].act < j
  /\ IF host[j].kind \in Builtins
     THEN /\ host[j].argc >= Required[host[j].kind] /\ host[j].level > 0
          /\ host[j].kind # "apply" => host[j].params = 0
          /\ IF host[j].ip # NoAddress THEN FromVM(j) ELSE FromApply(j)
     ELSE /\ host[j].argc = 0 /\ host[j].owned = 0 /\ host[j].params = 0
          /\ host[j].ip = NoAddress
          /\ FromLoad(j) \/ FromEmbedder(j)

HostsOk == \A j \in DOMAIN host : HostOk(j)

\* The function that Function::call called has returned to the Exit.
Returned ==
  /\ Caller.kind = "apply"
  /\ ip \in DOMAIN program /\ Decode(program[ip]) = "Exit"
  /\ Len(callStack) = Caller.level
  /\ Len(operandStack) = Caller.start + Caller.argc + 1

\* Where the thread is.
HereOk ==
  /\ mode = "idle" => host = <<>> /\ Len(callStack) <= 1
  /\ mode \in {"run", "exec", "builtin", "return"} => host # <<>>
  /\ mode = "run" =>
       /\ callStack # <<>> /\ env = callStack[Len(callStack)].env
       /\ Caller.kind \in {"apply", "exec", "setGlobal"}
       /\ \/ Returned
          \/ Here.act = Len(host) /\ Resumes(Len(site), ip, Len(operandStack))
  /\ mode \in {"exec", "builtin", "return"} =>
       /\ Len(callStack) = Caller.level
       /\ Len(operandStack) = Caller.start + Caller.argc + Caller.params
  /\ mode = "exec" => Caller.kind = "exec"
  /\ mode \in {"builtin", "return"} => Caller.kind \in Builtins

Discipline == Sound => CodeOk /\ FunctionsOk /\ SitesOk /\ HostsOk /\ HereOk

-----------------------------------------------------------------------------
(* What follows for the machine *)

\* No handler pops an empty operand stack or call stack, and none runs a byte that
\* is no instruction: VM::execute (vm.cpp) checks for neither.
StacksHold == fault \notin {"operandStack", "callStack", "decode"}

\* Whenever the machine takes an operand or an entry that is not there or runs a byte
\* that is no instruction, an annotation has told so: of code that keeps to the
\* discipline nothing leads there (vm.cpp, bytecode.cpp).
FaultsForetold == ~StacksHold => ~CodeDisciplined

\* The environment of the running code, and of each VM::execute that waits for a
\* builtin, is the one in its entry of the call stack.  The collector marks and
\* moves only those (gc.cpp: markFrame, remapFrame): the locals envPtr of the
\* VM::execute activations are not roots.
EnvironmentsRooted ==
  Sound =>
    /\ mode = "run" => callStack # <<>> /\ env = Last(callStack).env
    /\ \A j \in DOMAIN host :
         host[j].ip # NoAddress =>
           /\ host[j].level \in DOMAIN callStack
           /\ host[j].env = callStack[host[j].level].env

\* While a C++ call lasts, nothing that runs on its behalf, bytecode, builtins,
\* code loaded and executed from within, touches its arguments, the operands below
\* them or the entries its caller left on the call stack, unless an exception ends it or
\* code breaks the discipline.  Arguments (types.hpp) holds an index into the operand stack, not the values.
CallersUndisturbed ==
  [][Sound' /\ CodeDisciplined' => \A j \in DOMAIN host \intersect DOMAIN host' :
       /\ \A k \in 1..host[j].start + host[j].argc :
            k \in DOMAIN operandStack' /\ operandStack'[k] = operandStack[k]
       /\ \A k \in 1..host[j].level :
            k \in DOMAIN callStack' /\ callStack'[k] = callStack[k]]_vars
=============================================================================
