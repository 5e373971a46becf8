--------------------------------- MODULE VM ---------------------------------
(***************************************************************************)
(* The EBL virtual machine (runtime/vm.cpp), the C++ code that enters it   *)
(* (Environment::exec and setGlobal in runtime/environment.cpp,            *)
(* Function::call in runtime/types.cpp) and the builtins that enter it     *)
(* again (runtime/builtins.cpp), down to the bytes of the program and the  *)
(* contents of the two stacks.                                             *)
(*                                                                         *)
(* A session is a sequence of statements, each compiled and run before the *)
(* next is compiled.  What the compiler makes of a statement is a          *)
(* parameter (module Compiler computes it): a chunk                        *)
(*   kind  "exec" or "setGlobal": which of the two runs it                 *)
(*   outcome  "ok"; "throws" if init or visit throws, "undefined" if visit *)
(*         runs into undefined behaviour: then nothing is run              *)
(*   last  TRUE if it is the last statement of its source text             *)
(*   code  the bytes appended to Context::program_                         *)
(*   shape the annotation of the code (module Bytecode)                    *)
(*   lits  the values appended to Context::immediates_                     *)
(*                                                                         *)
(* A value is the index of an object in the heap.  The collector is not    *)
(* part of this module: the heap only grows (MarkCompact models it).       *)
(***************************************************************************)
EXTENDS Bytecode, Values

CONSTANT Sessions       \* the sessions to run: a set of sequences of chunks

VARIABLES
  program,       \* Context::program_
  immediates,    \* Context::immediates_
  heap,          \* the objects allocated so far
  frames,        \* the Environments: parent (0 is the null pointer) and vars
  operandStack,  \* Context::operandStack_
  callStack,     \* Context::callStack_: returnAddress_, functionTop_, env_
  ip, env,       \* the locals of the innermost VM::execute
  host,          \* the C++ calls that are waiting or running, innermost last
  mode,          \* what the thread is doing
  result,        \* the value a C++ function is returning
  fault,         \* the first undefined behaviour met, "none" before
  session,       \* the session that is run
  todo,          \* its statements that are not compiled yet
  shape,         \* ghost: the annotation of program
  site           \* ghost: the activation each entry of callStack belongs to

code    == << program, immediates, shape, session, todo >>
memory  == << heap, frames >>
control == << host, mode, result, fault >>
vars == << code, memory, operandStack, callStack, ip, env, control, site >>

-----------------------------------------------------------------------------
(* Functions and environments *)

TopLevel == 1  \* Context::topLevel_

IsKind(v, k) == Is(heap, v, k)

\* Function of the VM: model_ is InvocationModel, def the definition environment.
Closure(model, argc, addr, def) ==
  [kind |-> "fn", model |-> model, argc |-> argc, addr |-> addr, def |-> def]

\* requiredArgs_: beside the builtins that only compute there are apply, which calls a
\* function, and those that run more code.
Loaders == {"load", "eval-string"}

Required ==
  [n \in DOMAIN Computing \union {"apply"} \union Loaders |->
     IF n \in DOMAIN Computing THEN Computing[n] ELSE IF n = "apply" THEN 2 ELSE 1]

Builtins == DOMAIN Required

Builtin(name) ==
  [kind |-> "fn", model |-> "Wrapped", argc |-> Required[name], name |-> name]

Frame(p) == [parent |-> p, vars |-> <<>>]

\* Follows parent_ n times from environment e, 0 past the root.
Ancestor(e, n) ==
  LET up[k \in 0..n] ==
        IF k = 0 THEN e ELSE IF up[k - 1] = 0 THEN 0 ELSE frames[up[k - 1]].parent
  IN  up[n]

\* There is such an environment and its vars_ has an element at the offset; else the
\* access is undefined.
InFrame(e, off) == e \in DOMAIN frames /\ off + 1 \in DOMAIN frames[e].vars

-----------------------------------------------------------------------------
(* Stacks *)

Operand(k) == operandStack[Len(operandStack) - k]   \* k = 0 is the top
Dropped(n) == SubSeq(operandStack, 1, Len(operandStack) - n)

\* callStack.push_back: ghost site gives the entry the body it runs.
Entry(ret, top, e) == [ret |-> ret, top |-> top, env |-> e]

\* {0, 0, env}: addresses of lets, statements and the constructor, never used.
Unused == 1

\* A C++ call that no VM::execute waits for.
NoAddress == 0

\* body, start of the body, open lets, operands below the body's, and the index
\* in host of the call whose VM::execute runs it; root: VM::execute began there.
Site(body, start, depth, base, act, root) ==
  [body |-> body, start |-> start, depth |-> depth, base |-> base,
   act |-> act, root |-> root]

Here == site[Len(site)]

\* A C++ call: Environment::exec, setGlobal, or a builtin.
\*   done    exec: no statement follows the current one
\*   start   builtin: Arguments::startIdx_ of its arguments; ghost for the others:
\*           the height of operandStack when the call began
\*   argc    builtin: Arguments::count()
\*   owned   builtin: arguments its caller's ~Arguments takes off the stack
\*   params  builtin: count_ of the Arguments it builds for a call of its own
\*   cursor  apply: the rest of the list that dolist is at
\*   ip,env  builtin called by the VM: the locals of the VM::execute waiting for it
\*   level   ghost: height of callStack when the call began
HostCall(kind, start, argc, owned, cursor, addr, e) ==
  [kind |-> kind, done |-> FALSE, start |-> start, argc |-> argc,
   owned |-> owned, params |-> 0, cursor |-> cursor, ip |-> addr, env |-> e,
   level |-> Len(callStack)]

Caller == host[Len(host)]

Modes == {"idle", "exec", "run", "builtin", "return", "unwind", "exited", "fault"}

-----------------------------------------------------------------------------
(* Initial state: Context's constructor up to initBuiltins.  The empty top  *)
(* level has been compiled to a lone Exit and executed.                     *)

Init ==
  /\ program = << Encode("Exit") >>
  /\ shape = << [body |-> "exec", at |-> 0, depth |-> 0, height |-> 1] >>
  /\ immediates = <<>>
  /\ heap = << [kind |-> "bool"], [kind |-> "bool"], [kind |-> "null"] >>
  /\ frames = << Frame(0) >>
  /\ operandStack = <<>>
  /\ callStack = <<>>
  /\ site = <<>>
  /\ ip = 1 /\ env = TopLevel
  /\ host = <<>>
  /\ mode = "idle"
  /\ result = Null
  /\ fault = "none"
  /\ session \in Sessions /\ todo = session

-----------------------------------------------------------------------------
(* Entering the machine *)

Crash(why) ==
  /\ mode' = "fault" /\ fault' = why
  /\ UNCHANGED << code, memory, operandStack, callStack, ip, env, host, result, site >>

Throw ==
  /\ mode' = "unwind"
  /\ UNCHANGED << code, memory, operandStack, callStack, ip, env, host, result, fault, site >>

\* The constructor pushes the entry that stays for good, between initBuiltins
\* and the first exec.
Construct ==
  /\ mode = "idle" /\ callStack = <<>>
  /\ todo # <<>> => Head(todo).kind = "exec"
  /\ callStack' = << Entry(Unused, Unused, TopLevel) >>
  /\ site' = << Site("none", Unused, 0, 0, 0, TRUE) >>
  /\ UNCHANGED << code, memory, operandStack, ip, env, control >>

\* Compiled code is appended to the program, literals to the immediates, and
\* VM::execute starts at the first new byte under an entry of its own.
Launch(c, call) ==
  LET start == Len(program) + 1 IN
  /\ program' = program \o c.code
  /\ shape' = shape \o c.shape
  /\ heap' = heap \o c.lits
  /\ immediates' = immediates \o [i \in 1..Len(c.lits) |-> Len(heap) + i]
  /\ todo' = Tail(todo)
  /\ callStack' = Append(callStack, Entry(Unused, Unused, TopLevel))
  /\ host' = call
  /\ site' = Append(site, Site(c.kind, start, 0, Len(operandStack), Len(call), TRUE))
  /\ ip' = start /\ env' = TopLevel
  /\ mode' = "run"
  /\ UNCHANGED << session, frames, operandStack, result, fault >>

\* Compilation failed: no code was appended, and an exception leaves the caller.
CompileError(c) ==
  IF c.outcome = "undefined" THEN Crash("compiler") ELSE Throw

\* Environment::setGlobal, called by initBuiltins or a DLL.
SetGlobal ==
  /\ mode = "idle" /\ todo # <<>> /\ Head(todo).kind = "setGlobal"
  /\ IF Head(todo).outcome = "ok"
     THEN Launch(Head(todo), Append(host, HostCall("setGlobal", Len(operandStack), 0, 0, Null, NoAddress, TopLevel)))
     ELSE CompileError(Head(todo))

\* Environment::exec, called by the embedder.
Exec ==
  /\ mode = "idle" /\ callStack # <<>>
  /\ todo # <<>> /\ Head(todo).kind = "exec"
  /\ host' = Append(host, HostCall("exec", Len(operandStack), 0, 0, Null, NoAddress, TopLevel))
  /\ mode' = "exec" /\ result' = Null
  /\ UNCHANGED << code, memory, operandStack, callStack, ip, env, fault, site >>

\* One turn of exec's loop: the next statement of the source text.
ExecStatement ==
  /\ mode = "exec" /\ ~Caller.done
  /\ todo # <<>> /\ Head(todo).kind = "exec"
  /\ IF Head(todo).outcome = "ok"
     THEN Launch(Head(todo), [host EXCEPT ![Len(host)].done = Head(todo).last])
     ELSE CompileError(Head(todo))

\* exec returns the last statement's value, or null for an empty text.
ExecReturn ==
  /\ mode = "exec"
  /\ ~Caller.done => IF todo = <<>> THEN TRUE ELSE Head(todo).kind # "exec"
  /\ host' = Front(host)
  /\ mode' = IF Len(host) = 1 THEN "idle" ELSE "return"
  /\ UNCHANGED << code, memory, operandStack, callStack, ip, env, result, fault, site >>

-----------------------------------------------------------------------------
(* Instructions.  At(op) is the dispatch; an instruction that needs n       *)
(* operands behaves undefinedly when the vector has fewer.                  *)

OpAt == IF ip \in DOMAIN program THEN Decode(program[ip]) ELSE "undefined"

At(op, n) == mode = "run" /\ OpAt = op /\ Len(operandStack) >= n

P8    == U8(program, ip + 1)
P16   == U16(program, ip + 1)
P16b  == U16(program, ip + 3)
Next8 == ip + Width(OpAt)          \* the address after the instruction

\* A handler that only pops n operands, pushes one and goes to the next instruction.
Replace(n, v) ==
  /\ operandStack' = Append(Dropped(n), v)
  /\ ip' = Next8
  /\ UNCHANGED << code, callStack, env, control, site >>

Allocate(o) == heap' = Append(heap, o) /\ UNCHANGED frames
Allocated == Len(heap) + 1

OpCons ==
  /\ At("Cons", 2)
  /\ Allocate(Pair(Operand(1), Operand(0)))
  /\ Replace(2, Allocated)

\* checkedCast<Pair> throws, with the operand still on the stack.
OpCar ==
  /\ At("Car", 1)
  /\ IF IsKind(Operand(0), "pair")
     THEN Replace(1, heap[Operand(0)].car) /\ UNCHANGED memory
     ELSE Throw

OpCdr ==
  /\ At("Cdr", 1)
  /\ IF IsKind(Operand(0), "pair")
     THEN Replace(1, heap[Operand(0)].cdr) /\ UNCHANGED memory
     ELSE Throw

OpIsNull ==
  /\ At("IsNull", 1)
  /\ Replace(1, IF IsKind(Operand(0), "null") THEN True ELSE False)
  /\ UNCHANGED memory

OpPush ==
  \E op \in {"PushNull", "PushTrue", "PushFalse"} :
    /\ At(op, 0)
    /\ Replace(0, CASE op = "PushNull" -> Null [] op = "PushTrue" -> True
                    [] OTHER -> False)
    /\ UNCHANGED memory

OpPushI ==
  /\ At("PushI", 0)
  /\ IF P16 + 1 \in DOMAIN immediates
     THEN Replace(0, immediates[P16 + 1]) /\ UNCHANGED memory
     ELSE Crash("immediate")

\* The new function closes over the environment of the running code.
OpPushLambda ==
  \E op \in LambdaOps :
    /\ At(op, 0)
    /\ Allocate(Closure(IF op = "PushVariadicLambda" THEN "BytecodeVariadic" ELSE "Bytecode",
                        P8, Next8 + JumpSize, env))
    /\ Replace(0, Allocated)

\* Where a load or Rebind finds its variable: frames to climb, index.
Location(op) ==
  CASE op = "Load0Fast" -> << 0, P8 >>
    [] op = "Load1Fast" -> << 1, P8 >>
    [] op = "Load0"     -> << 0, P16 >>
    [] op = "Load1"     -> << 1, P16 >>
    [] op = "Load2"     -> << 2, P16 >>
    [] op \in {"Load", "Rebind"} -> << P16, P16b >>

OpLoad ==
  \E op \in LoadOps :
    /\ At(op, 0)
    /\ LET e == Ancestor(env, Location(op)[1])
           off == Location(op)[2]
       IN  IF InFrame(e, off)
           THEN Replace(0, frames[e].vars[off + 1]) /\ UNCHANGED memory
           ELSE Crash("variable")

\* Environment::store.
OpRebind ==
  /\ At("Rebind", 1)
  /\ LET e == Ancestor(env, Location("Rebind")[1])
         off == Location("Rebind")[2]
     IN  IF InFrame(e, off)
         THEN /\ frames' = [frames EXCEPT ![e].vars[off + 1] = Operand(0)]
              /\ operandStack' = Dropped(1)
              /\ ip' = Next8
              /\ UNCHANGED << code, heap, callStack, env, control, site >>
         ELSE Crash("variable")

\* Environment::push on the current environment.
OpStore ==
  /\ At("Store", 1)
  /\ frames' = [frames EXCEPT ![env].vars = Append(@, Operand(0))]
  /\ operandStack' = Dropped(1)
  /\ ip' = Next8
  /\ UNCHANGED << code, heap, callStack, env, control, site >>

OpDiscard ==
  /\ At("Discard", 1)
  /\ operandStack' = Dropped(1)
  /\ ip' = Next8
  /\ UNCHANGED << code, memory, callStack, env, control, site >>

OpJump ==
  /\ At("Jump", 0)
  /\ ip' = Next8 + P16
  /\ UNCHANGED << code, memory, operandStack, callStack, env, control, site >>

OpJumpIfFalse ==
  /\ At("JumpIfFalse", 1)
  /\ ip' = IF Operand(0) = False THEN Next8 + P16 ELSE Next8
  /\ operandStack' = Dropped(1)
  /\ UNCHANGED << code, memory, callStack, env, control, site >>

OpEnterLet ==
  /\ At("EnterLet", 0)
  /\ frames' = Append(frames, Frame(env))
  /\ env' = Len(frames) + 1
  /\ callStack' = Append(callStack, Entry(Unused, Unused, Len(frames) + 1))
  /\ site' = Append(site, Site(Here.body, Here.start, Here.depth + 1, Here.base, Here.act, FALSE))
  /\ ip' = Next8
  /\ UNCHANGED << code, heap, operandStack, control >>

\* Mutant: ExitLet leaves the call stack alone, as bytecode.hpp has it.
ExitLetKeepsEntry ==
  /\ At("ExitLet", 0)
  /\ env' = frames[env].parent
  /\ ip' = Next8
  /\ UNCHANGED << code, memory, operandStack, callStack, site, control >>

\* env becomes the parent of the environment, not the entry below.
OpExitLet ==
  /\ At("ExitLet", 0)
  /\ IF callStack = <<>> \/ frames[env].parent = 0 THEN Crash("callStack") ELSE
     /\ callStack' = Front(callStack)
     /\ site' = Front(site)
     /\ env' = frames[env].parent
     /\ ip' = Next8
     /\ UNCHANGED << code, memory, operandStack, control >>

\* A call of a bytecode function: a new environment below the function's own.
Enter(fn, ret, base) ==
  /\ frames' = Append(frames, Frame(fn.def))
  /\ env' = Len(frames) + 1
  /\ callStack' = Append(callStack, Entry(ret, fn.addr, Len(frames) + 1))
  /\ site' = Append(site, Site("fn", fn.addr, 0, base, Len(host), FALSE))
  /\ ip' = fn.addr
  /\ UNCHANGED << code, control >>

Target == heap[Operand(0)]

\* The callee is no function, or the number of arguments is wrong.
CallFails(argc) ==
  \/ ~IsKind(Operand(0), "fn")
  \/ /\ IsKind(Operand(0), "fn")
     /\ \/ Target.model = "Bytecode" /\ argc # Target.argc
        \/ Target.model = "Wrapped" /\ argc < Target.argc
        \/ Target.model = "BytecodeVariadic" /\ argc < Target.argc - 1

\* Bytecode and Variadic have taken the callee off the stack when they throw, and
\* for a builtin ~Arguments takes off the arguments too.
CallError ==
  /\ At("Call", 1) /\ CallFails(P8)
  /\ IF IsKind(Operand(0), "fn") /\ Target.model # "Bytecode"
     THEN LET gone == IF Target.model = "Wrapped" THEN P8 + 1 ELSE 1 IN
          IF Len(operandStack) < gone THEN Crash("unwind") ELSE
          /\ operandStack' = Dropped(gone)
          /\ mode' = "unwind"
          /\ UNCHANGED << code, memory, callStack, ip, env, host, result, fault, site >>
     ELSE Throw

CallBytecode ==
  /\ At("Call", P8 + 1) /\ ~CallFails(P8)
  /\ Target.model = "Bytecode"
  /\ operandStack' = Dropped(1)
  /\ UNCHANGED heap
  /\ Enter(Target, Next8, Len(operandStack) - (P8 + 1))

\* Mutants: the list of the extra arguments is built from the front; the name "..."
\* is counted as one of them.
VariadicBackwards ==
  /\ At("Call", P8 + 1) /\ ~CallFails(P8)
  /\ Target.model = "BytecodeVariadic"
  /\ LET extra == P8 - (Target.argc - 1)
         n     == Len(heap)
     IN  /\ heap' = heap \o [k \in 1..extra |->
                               Pair(Operand(extra + 1 - k), IF k = 1 THEN Null ELSE n + k - 1)]
         /\ operandStack' = Append(Dropped(extra + 1), IF extra = 0 THEN Null ELSE n + extra)
  /\ Enter(Target, Next8, Len(operandStack) - (P8 + 1))

VariadicOneTooMany ==
  /\ At("Call", P8 + 1) /\ ~CallFails(P8)
  /\ Target.model = "BytecodeVariadic"
  /\ heap' = heap
  /\ operandStack' = Append(Dropped(P8 - Target.argc + 3), Null)
  /\ Enter(Target, Next8, Len(operandStack) - (P8 + 1))

\* The arguments beyond the named ones become a list, built from the back.
CallVariadic ==
  /\ At("Call", P8 + 1) /\ ~CallFails(P8)
  /\ Target.model = "BytecodeVariadic"
  /\ LET extra == P8 - (Target.argc - 1)
         n     == Len(heap)
     IN  /\ heap' = heap \o [k \in 1..extra |->
                               Pair(Operand(k), IF k = 1 THEN Null ELSE n + k - 1)]
         /\ operandStack' = Append(Dropped(extra + 1), IF extra = 0 THEN Null ELSE n + extra)
  /\ Enter(Target, Next8, Len(operandStack) - (P8 + 1))

\* What apply starts from: the list in its second argument.
Cursor(fn, start) == IF fn = "apply" THEN operandStack[start + 2] ELSE Null

CallWrapped ==
  /\ At("Call", P8 + 1) /\ ~CallFails(P8)
  /\ Target.model = "Wrapped"
  /\ operandStack' = Dropped(1)
  /\ LET start == Len(operandStack) - (P8 + 1) IN
     host' = Append(host, HostCall(Target.name, start, P8, P8, Cursor(Target.name, start),
                                   Next8, env))
  /\ mode' = "builtin"
  /\ UNCHANGED << code, memory, callStack, ip, env, result, fault, site >>

\* Recur keeps the frame, without its variables, and takes the function's start
\* from the top entry of the call stack.
OpRecur ==
  /\ At("Recur", 0)
  /\ IF callStack = <<>> THEN Crash("callStack") ELSE
     /\ frames' = [frames EXCEPT ![env].vars = <<>>]
     /\ ip' = callStack[Len(callStack)].top
     /\ UNCHANGED << code, heap, operandStack, callStack, env, control, site >>

\* Mutants: the environment of the callee, not of the caller, goes on; two entries
\* are popped.
ReturnInCallee ==
  /\ At("Return", 0)
  /\ ip' = Last(callStack).ret
  /\ callStack' = Front(callStack)
  /\ site' = Front(site)
  /\ UNCHANGED << code, memory, operandStack, env, control >>

ReturnTwice ==
  /\ At("Return", 0)
  /\ ip' = Last(callStack).ret
  /\ env' = callStack[Len(callStack) - 1].env
  /\ callStack' = Front(Front(callStack))
  /\ site' = Front(Front(site))
  /\ UNCHANGED << code, memory, operandStack, control >>

OpReturn ==
  /\ At("Return", 0)
  /\ IF Len(callStack) < 2 THEN Crash("callStack") ELSE
     /\ ip' = callStack[Len(callStack)].ret
     /\ env' = callStack[Len(callStack) - 1].env
     /\ callStack' = Front(callStack)
     /\ site' = Front(site)
     /\ UNCHANGED << code, memory, operandStack, control >>

\* Mutant: exec clears the operand stack after a statement.
ExitClearsOperands ==
  /\ At("Exit", 1)
  /\ host # <<>> /\ Caller.kind = "exec"
  /\ callStack' = Front(callStack)
  /\ site' = Front(site)
  /\ result' = Operand(0)
  /\ operandStack' = <<>>
  /\ mode' = "exec"
  /\ UNCHANGED << code, memory, ip, env, host, fault >>

\* VM::execute returns to exec, which takes the statement's value off the stack.
ExitToExec ==
  /\ At("Exit", 1)
  /\ host # <<>> /\ Caller.kind = "exec"
  /\ IF callStack = <<>> THEN Crash("callStack") ELSE
     /\ callStack' = Front(callStack)
     /\ site' = Front(site)
     /\ result' = Operand(0)
     /\ operandStack' = Dropped(1)
     /\ mode' = "exec"
     /\ UNCHANGED << code, memory, ip, env, host, fault >>

\* ... to setGlobal, which leaves the operand stack alone.
ExitToSetGlobal ==
  /\ At("Exit", 0)
  /\ host # <<>> /\ Caller.kind = "setGlobal"
  /\ IF callStack = <<>> THEN Crash("callStack") ELSE
     /\ callStack' = Front(callStack)
     /\ site' = Front(site)
     /\ host' = Front(host)
     /\ mode' = "idle"
     /\ UNCHANGED << code, memory, operandStack, ip, env, result, fault >>

\* Mutant: params.consumed() is not called.
ExitWithoutConsumed ==
  /\ At("Exit", 1)
  /\ host # <<>> /\ Caller.kind \in Builtins
  /\ result' = Operand(0)
  /\ operandStack' = Dropped(1)
  /\ mode' = "return"
  /\ UNCHANGED << code, memory, callStack, ip, env, host, fault, site >>

\* ... to Function::call, which takes the value off and forgets the arguments,
\* because the function has consumed them.
ExitToBuiltin ==
  /\ At("Exit", 1)
  /\ host # <<>> /\ Caller.kind \in Builtins
  /\ result' = Operand(0)
  /\ operandStack' = Dropped(1)
  /\ host' = [host EXCEPT ![Len(host)].params = 0]
  /\ mode' = "return"
  /\ UNCHANGED << code, memory, callStack, ip, env, fault, site >>

\* The byte at ip is no opcode, or the operand stack is too short for it.
Undefined ==
  /\ mode = "run"
  /\ \/ OpAt = "undefined" /\ Crash("decode")
     \/ /\ OpAt # "undefined"
        /\ \/ Len(operandStack) < Consumes(program, ip)
           \/ OpAt = "Exit" /\ Caller.kind # "setGlobal" /\ operandStack = <<>>
        /\ ~(OpAt = "Call" /\ operandStack # <<>> /\ CallFails(P8))
        /\ Crash("operandStack")

-----------------------------------------------------------------------------
(* Builtins *)

InBuiltin(name) == mode = "builtin" /\ Caller.kind = name

Argument(k) == operandStack[Caller.start + k]

\* The builtin returns v.
Yield(v) ==
  /\ result' = v
  /\ mode' = "return"
  /\ UNCHANGED << code, operandStack, callStack, ip, env, host, fault, site >>

\* A builtin that only computes: it returns a value, allocates the one it returns,
\* throws, or runs into undefined behaviour.
BuiltinValue ==
  \E name \in DOMAIN Computing :
    /\ InBuiltin(name)
    /\ LET args   == [k \in 1..Caller.argc |-> Argument(k)]
           answer == Computed(name, heap, args)
       IN  /\ name \in Arithmetic => \A k \in DOMAIN args : ~IsKind(args[k], "float")
           /\ \/ answer.how = "given" /\ Yield(answer.v) /\ UNCHANGED memory
              \/ answer.how = "new" /\ Allocate(answer.o) /\ Yield(Allocated)
              \/ answer.how = "throws" /\ Throw
              \/ answer.how = "undefined" /\ Crash("arithmetic")

\* apply: dolist pushes the elements of the list as the arguments of the call.  An
\* improper list throws.
ApplyPush ==
  /\ InBuiltin("apply") /\ ~IsKind(Caller.cursor, "null")
  /\ IF IsKind(Caller.cursor, "pair")
     THEN /\ operandStack' = Append(operandStack, heap[Caller.cursor].car)
          /\ host' = [host EXCEPT ![Len(host)].params = @ + 1,
                                  ![Len(host)].cursor = heap[Caller.cursor].cdr]
          /\ UNCHANGED << code, memory, callStack, ip, env, mode, result, fault, site >>
     ELSE Throw

Applied == heap[Argument(1)]

ApplyReady == InBuiltin("apply") /\ IsKind(Caller.cursor, "null")

\* Function::call throws for anything but a function, for a wrong number of
\* arguments and for a variadic function of bytecode.
ApplyError ==
  /\ ApplyReady
  /\ \/ ~IsKind(Argument(1), "fn")
     \/ /\ IsKind(Argument(1), "fn")
        /\ \/ Applied.model = "BytecodeVariadic"
           \/ Applied.model = "Bytecode" /\ Caller.params # Applied.argc
           \/ Applied.model = "Wrapped" /\ Caller.params < Applied.argc
  /\ Throw

\* Mutant: the return address is one past the program's last byte.
ApplyReturnsPastEnd ==
  /\ ApplyReady
  /\ IsKind(Argument(1), "fn") /\ Applied.model = "Bytecode"
  /\ Caller.params = Applied.argc
  /\ frames' = Append(frames, Frame(Applied.def))
  /\ env' = Len(frames) + 1
  /\ callStack' = Append(callStack, Entry(Len(program) + 1, Applied.addr, Len(frames) + 1))
  /\ site' = Append(site, Site("fn", Applied.addr, 0, Len(operandStack) - Applied.argc,
                               Len(host), TRUE))
  /\ ip' = Applied.addr
  /\ mode' = "run"
  /\ UNCHANGED << code, heap, operandStack, host, result, fault >>

\* Function::call of a bytecode function: a VM::execute of its own, whose Return
\* goes to the last byte of the program, an Exit.
ApplyBytecode ==
  /\ ApplyReady
  /\ IsKind(Argument(1), "fn") /\ Applied.model = "Bytecode"
  /\ Caller.params = Applied.argc
  /\ frames' = Append(frames, Frame(Applied.def))
  /\ env' = Len(frames) + 1
  /\ callStack' = Append(callStack, Entry(Len(program), Applied.addr, Len(frames) + 1))
  /\ site' = Append(site, Site("fn", Applied.addr, 0, Len(operandStack) - Applied.argc,
                               Len(host), TRUE))
  /\ ip' = Applied.addr
  /\ mode' = "run"
  /\ UNCHANGED << code, heap, operandStack, host, result, fault >>

\* Function::call of a builtin: a plain C++ call on the same Arguments.
ApplyWrapped ==
  /\ ApplyReady
  /\ IsKind(Argument(1), "fn") /\ Applied.model = "Wrapped"
  /\ Caller.params >= Applied.argc
  /\ LET start == Caller.start + Caller.argc IN
     host' = Append(host, HostCall(Applied.name, start, Caller.params, 0,
                                   Cursor(Applied.name, start), NoAddress, TopLevel))
  /\ UNCHANGED << code, memory, operandStack, callStack, ip, env, mode, result, fault, site >>

\* The files that exist: all that are named but one.
NoFile == << "missing" >>
IsFile(v) == IsKind(v, "str") /\ heap[v].s # NoFile

\* load reads a file, eval-string prints its argument, and the text is executed ...
HasText ==
  \/ InBuiltin("load") /\ IsFile(Argument(1))
  \/ InBuiltin("eval-string") /\ IsKind(Argument(1), "str")

BuiltinLoad ==
  /\ HasText
  /\ host' = Append(host, HostCall("exec", Len(operandStack), 0, 0, Null, NoAddress, TopLevel))
  /\ mode' = "exec" /\ result' = Null
  /\ UNCHANGED << code, memory, operandStack, callStack, ip, env, fault, site >>

\* ... but they throw for anything but a string and when there is no such file.
BuiltinLoadFails ==
  /\ \E name \in Loaders : InBuiltin(name)
  /\ ~HasText /\ Throw

\* A builtin called by the VM returns: ~Arguments takes its arguments off (and
\* first those of a call it made that did not consume them), the value goes on.
ReturnToVM ==
  /\ mode = "return" /\ Caller.ip # NoAddress
  /\ operandStack' = Append(Dropped(Caller.params + Caller.owned), result)
  /\ ip' = Caller.ip /\ env' = Caller.env
  /\ host' = Front(host)
  /\ mode' = "run"
  /\ UNCHANGED << code, memory, callStack, result, fault, site >>

\* A builtin called by apply returns: so does apply, with the same value.
ReturnToBuiltin ==
  /\ mode = "return" /\ Caller.ip = NoAddress
  /\ operandStack' = Dropped(Caller.params)
  /\ host' = Front(host)
  /\ UNCHANGED << code, memory, callStack, ip, env, mode, result, fault, site >>

\* An exception leaves a C++ call.  ~Arguments pops as many operands as it counts,
\* whatever they are by now; the call stack stays as it is.
Unwind ==
  /\ mode = "unwind" /\ host # <<>>
  /\ LET gone == Caller.params + Caller.owned IN
     IF Len(operandStack) < gone THEN Crash("unwind") ELSE
     /\ operandStack' = Dropped(gone)
     /\ host' = Front(host)
     /\ UNCHANGED << code, memory, callStack, ip, env, mode, result, fault, site >>

\* main catches it and the process exits.
Exited ==
  /\ mode = "unwind" /\ host = <<>>
  /\ mode' = "exited"
  /\ UNCHANGED << code, memory, operandStack, callStack, ip, env, host, result, fault, site >>

-----------------------------------------------------------------------------

Instruction ==
  \/ OpCons \/ OpCar \/ OpCdr \/ OpIsNull \/ OpPush \/ OpPushI \/ OpPushLambda
  \/ OpLoad \/ OpRebind \/ OpStore \/ OpDiscard \/ OpJump \/ OpJumpIfFalse
  \/ OpEnterLet \/ OpExitLet \/ OpRecur \/ OpReturn
  \/ CallError \/ CallBytecode \/ CallVariadic \/ CallWrapped
  \/ ExitToExec \/ ExitToSetGlobal \/ ExitToBuiltin \/ Undefined

Native ==
  \/ Construct \/ SetGlobal \/ Exec \/ ExecStatement \/ ExecReturn
  \/ BuiltinValue \/ BuiltinLoad \/ BuiltinLoadFails
  \/ ApplyPush \/ ApplyError \/ ApplyBytecode \/ ApplyWrapped
  \/ ReturnToVM \/ ReturnToBuiltin \/ Unwind \/ Exited

Next == Instruction \/ Native

\* The one thread of the program runs until it has nothing left to do.
Spec == Init /\ [][Next]_vars /\ WF_vars(Next)
=============================================================================
