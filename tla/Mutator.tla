------------------------------ MODULE Mutator ------------------------------
(***************************************************************************)
(* The program that uses the heap: the ways in which the machine (vm.cpp), *)
(* the builtins (builtins.cpp) and the compiler's literals (ast.cpp)       *)
(* create, read, write and drop references, and Context::create, which     *)
(* collects when the heap is full.                                         *)
(*                                                                         *)
(* What matters of an operation is where its references are while the      *)
(* collector runs: the machine's Cons leaves its operands on the stack     *)
(* and reads them afterwards, a builtin passes copies, a list builder has  *)
(* a handle for the front of its list and a plain pointer to its back, a   *)
(* call with a rest list a handle for the function and a plain pointer.    *)
(* Ops says which operations the program under way consists of.            *)
(***************************************************************************)
EXTENDS MarkCompact

CONSTANTS
  Ops,
  MaxOperands, MaxVars, MaxLiterals   \* bounds, for TLC

TopLevel == 1

\* The environment that runs.
Env == Last(callStack)

\* What C++ code is at: an operation with the references it passes on, how
\* many elements its list is to get yet, a pointer that nothing keeps up
\* (back_ of a list builder, fn of a call), how many handles there were before
\* that of the list, and the lists that wait for this one.
Idle == [op |-> "none", held |-> <<>>, n |-> 0, raw |-> NullRef, below |-> 0,
         outer |-> <<>>]

Init ==
  /\ mem = [a \in {0} |-> [kind |-> "null", id |-> 1, marked |-> FALSE,
                            refs |-> <<>>, env |-> 0]]
  /\ end = Size["null"]
  /\ frames = [e \in Environments |-> Free]
  /\ callStack = <<TopLevel>>
  /\ immediates = <<>> /\ operandStack = <<>>
  /\ handles = <<>> /\ plist = 0
  /\ charMarks = {}
  /\ pc = "run" /\ native = Idle
  /\ grey = <<>> /\ index = 0 /\ gone = 0 /\ breaks = <<>> /\ collapse = FALSE
  /\ frameSet = {}
  /\ fault = "none"

----------------------------------------------------------------------------
(* Context::create.                                                        *)

KindOf ==
  [cons |-> "pair", consBuiltin |-> "pair", box |-> "box", lambda |-> "fn",
   documented |-> "fn", variadicLambda |-> "vfn", int |-> "int",
   str |-> "str", string |-> "str", symbol |-> "sym", variadic |-> "pair",
   quote |-> "pair", element |-> "int"]

\* Mutant: the size of the new object is left out.
FitsAnything(q) == end <= Capacity

\* Heap::alloc has room.
Fits(q) == end + Size[KindOf[q.op]] <= Capacity

\* What the constructor is given: the machine's own instructions refer to the
\* operand stack and the literals, all others pass copies.
Given(q) ==
  CASE q.op = "cons"       -> SubSeq(operandStack, Len(operandStack) - 1, Len(operandStack))
    [] q.op = "documented" -> <<immediates[q.n]>>
    [] OTHER               -> q.held

ConstructedEnv(q) == IF KindOf[q.op] \in {"fn", "vfn"} THEN Env ELSE 0

Least(S) == CHOOSE i \in S : \A j \in S : i <= j

New == [at |-> end, id |-> Least((1..Cardinality(Ids) + 1) \ Ids)]

\* Mutant: box leaves its argument on the stack.
TakenByPairs ==
  [cons |-> 2, consBuiltin |-> 2, box |-> 0, lambda |-> 0, documented |-> 0,
   variadicLambda |-> 0, string |-> 0]

\* The operands that an operation takes off once it has its result.
Taken ==
  [cons |-> 2, consBuiltin |-> 2, box |-> 1, lambda |-> 0, documented |-> 0,
   variadicLambda |-> 0, string |-> 0]

Without(n) == SubSeq(operandStack, 1, Len(operandStack) - n)

\* The PersistentBase constructor, with its write to the old head.
Hold(r) ==
  /\ handles' = Append([h \in DOMAIN handles |->
                          IF h = plist THEN [handles[h] EXCEPT !.next = Len(handles) + 1]
                          ELSE handles[h]],
                       [val |-> r, prev |-> plist, next |-> 0])
  /\ plist' = Len(handles) + 1

\* A list builder that has constructed its front_.
Started(q) == Len(handles) > q.below
IsPushBack(q) == q.op = "quote" /\ Started(q)

\* A copy, or the pointer to the back of a list, from before a collection.
Stale(q) == \/ \E i \in DOMAIN Given(q) : ~Valid(Given(q)[i])
            \/ IsPushBack(q) /\ ~Valid(q.raw)

\* ConstructImpl<T>::construct, and what the caller of create does with the
\* new reference.
Construct(q) ==
  \/ Stale(q) /\ Stop("stale")
  \/ q.op = "quote" /\ ~Started(q) /\ HeadDestroyed /\ Stop("handle")
  \/ /\ ~Stale(q)
     /\ ~(q.op = "quote" /\ ~Started(q) /\ HeadDestroyed)
     /\ mem' = Put(IF IsPushBack(q) THEN [mem EXCEPT ![q.raw.at].refs[2] = New]
                   ELSE mem,
                   end,
                   [kind |-> KindOf[q.op], id |-> New.id, marked |-> FALSE,
                    refs |-> Given(q), env |-> ConstructedEnv(q)])
     /\ end' = end + Size[KindOf[q.op]]
     /\ \/ /\ q.op \in {"int", "str", "symbol"}                        \* storeI
           /\ immediates' = Append(immediates, New)
           /\ pc' = "run" /\ native' = Idle
           /\ UNCHANGED <<operandStack, handles, plist>>
        \/ /\ q.op \in DOMAIN Taken
           /\ operandStack' = Append(Without(Taken[q.op]), New)
           /\ pc' = "run" /\ native' = Idle
           /\ UNCHANGED <<immediates, handles, plist>>
        \/ /\ q.op \in {"variadic", "quote"}             \* LazyListBuilder::push
           /\ IF ~Started(q) THEN Hold(New)
              ELSE /\ handles' = IF IsPushBack(q) THEN handles
                                 ELSE [handles EXCEPT ![2].val = New]
                   /\ UNCHANGED plist
           /\ operandStack' = Without(IF q.op = "variadic" THEN 1 ELSE 0)
           /\ native' = [q EXCEPT !.n = @ - 1, !.held = <<>>,
                                  !.raw = IF q.op = "variadic" THEN @ ELSE New]
           /\ pc' = "build"
           /\ UNCHANGED immediates
        \/ /\ q.op = "element"                 \* storeI, amid LazyListBuilder
           /\ immediates' = Append(immediates, New)
           /\ native' = [q EXCEPT !.op = "quote"]
           /\ pc' = "build"
           /\ UNCHANGED <<operandStack, handles, plist>>
     /\ UNCHANGED <<frames, callStack, charMarks, grey, index, gone, breaks,
                    collapse, frameSet, fault>>

\* Context::alloc: the heap has room, or it is collected first.
Create(q) ==
  IF Fits(q) THEN Construct(q) ELSE Collect(q)

\* The second attempt; when it fails, OOM goes to the host.
CreateAgain ==
  /\ pc = "collected" /\ native.op \in DOMAIN KindOf
  /\ IF Fits(native) THEN Construct(native)
     ELSE /\ pc' = "oom"
          /\ UNCHANGED <<heap, roots, charMarks, native, locals, fault>>

----------------------------------------------------------------------------
(* Operations.                                                             *)

Running(op) == pc = "run" /\ op \in Ops
Top == Last(operandStack)
Room == Len(operandStack) < MaxOperands

\* checkedCast: the operand is an object of that kind.
TopIs(kinds) == operandStack # <<>> /\ ~IsChar(Top) /\ mem[Top.at].kind \in kinds

\* Steps that touch nothing but the operand stack.
OnStack(new) ==
  /\ operandStack' = new
  /\ UNCHANGED <<heap, frames, callStack, immediates, handles, plist, charMarks,
                 pc, native, locals, fault>>

\* PushNull, PushI
PushConstant ==
  /\ pc = "run" /\ Room
  /\ \E r \in {NullRef} \union ToSet(immediates) : OnStack(Append(operandStack, r))

\* Load: a variable of the running environment or of one above it.
Load ==
  /\ Running("variables") /\ Room
  /\ \E e \in Lineage(Env) : \E i \in DOMAIN frames[e].vars :
       IF Valid(frames[e].vars[i])
       THEN OnStack(Append(operandStack, frames[e].vars[i]))
       ELSE Stop("dangling")

\* Store
Store ==
  /\ Running("variables") /\ operandStack # <<>>
  /\ Len(frames[Env].vars) < MaxVars
  /\ frames' = [frames EXCEPT ![Env].vars = Append(@, Top)]
  /\ operandStack' = Without(1)
  /\ UNCHANGED <<heap, callStack, immediates, handles, plist, charMarks, pc,
                 native, locals, fault>>

\* Rebind: a variable of the running environment or of one above it.
Rebind ==
  /\ Running("set") /\ operandStack # <<>>
  /\ \E e \in Lineage(Env) : \E i \in DOMAIN frames[e].vars :
       frames' = [frames EXCEPT ![e].vars[i] = Top]
  /\ operandStack' = Without(1)
  /\ UNCHANGED <<heap, callStack, immediates, handles, plist, charMarks, pc,
                 native, locals, fault>>

\* Recur, in the environment of the function: its lets have been left.
Recur ==
  /\ Running("recur") /\ Len(callStack) > 1
  /\ frames' = [frames EXCEPT ![Env].vars = <<>>]
  /\ UNCHANGED <<heap, callStack, immediates, operandStack, handles, plist,
                 charMarks, pc, native, locals, fault>>

\* Discard
Discard == pc = "run" /\ operandStack # <<>> /\ OnStack(Without(1))

\* Car, Cdr, unbox
Take ==
  /\ Running("take") /\ TopIs({"pair", "box"})
  /\ \E r \in ToSet(mem[Top.at].refs) : OnStack(Append(Without(1), r))

\* get, of a string, wherever its characters are: each reading chooses a side
\* of the heap.
Get ==
  /\ Running("get") /\ TopIs({"str"})
  /\ \E at \in Storage : OnStack(Append(Without(1), CharOf(at, Top.id)))

\* set-box!
SetBox ==
  /\ Running("box") /\ Len(operandStack) >= 2
  /\ LET box == operandStack[Len(operandStack) - 1] IN
     /\ ~IsChar(box) /\ mem[box.at].kind = "box"
     /\ mem' = [mem EXCEPT ![box.at].refs = <<Top>>]
     /\ operandStack' = Append(Without(2), box)
  /\ UNCHANGED <<end, frames, callStack, immediates, handles, plist, charMarks,
                 pc, native, locals, fault>>

\* Derive an environment and enter it.
Enter(parent, stack) ==
  /\ Environments \ Owned(callStack, mem) # {}
  /\ LET new == Least(Environments \ Owned(callStack, mem)) IN
     /\ frames' = [frames EXCEPT ![new] = [parent |-> parent, vars |-> <<>>]]
     /\ callStack' = Append(callStack, new)
  /\ operandStack' = stack

EnterLet ==
  /\ Running("let")
  /\ Enter(Env, operandStack)
  /\ UNCHANGED <<heap, immediates, handles, plist, charMarks, pc, native, locals,
                 fault>>

\* Call of a function of fixed arity.
Call ==
  /\ pc = "run" /\ TopIs({"fn"})
  /\ Enter(mem[Top.at].env, Without(1))
  /\ UNCHANGED <<heap, immediates, handles, plist, charMarks, pc, native, locals,
                 fault>>

\* Return, ExitLet
Leave ==
  /\ pc = "run" /\ Len(callStack) > 1
  /\ callStack' = Front(callStack)
  /\ frames' = [e \in Environments |->
                  IF e \in Owned(callStack', mem) THEN frames[e] ELSE Free]
  /\ UNCHANGED <<heap, immediates, operandStack, handles, plist,
                 charMarks, pc, native, locals, fault>>

Strings ==
  {r \in ToSet(immediates) : r.at \in DOMAIN mem /\ mem[r.at].kind = "str"}

\* storeI, for a literal that is not among the immediates yet; the string of a
\* symbol is passed by value.
Literal ==
  /\ Len(immediates) < MaxLiterals
  /\ \/ \E op \in {"int", "str"} : Running(op) /\ Create([Idle EXCEPT !.op = op])
     \/ /\ Running("symbol")
        /\ \E str \in Strings :
             Create([Idle EXCEPT !.op = "symbol", !.held = <<str>>])

\* The Cons instruction, and cons and box called as functions.
MakePair ==
  /\ Len(operandStack) >= 2
  /\ \/ Running("cons") /\ Create([Idle EXCEPT !.op = "cons"])
     \/ /\ Running("consBuiltin")
        /\ Create([Idle EXCEPT !.op = "consBuiltin",
                     !.held = <<operandStack[Len(operandStack) - 1], Top>>])

MakeBox ==
  /\ Running("box") /\ operandStack # <<>>
  /\ Create([Idle EXCEPT !.op = "box", !.held = <<Top>>])

\* A string computed at run time.
MakeString == Running("string") /\ Room /\ Create([Idle EXCEPT !.op = "string"])

\* PushLambda, PushVariadicLambda, PushDocumentedLambda.  A program without
\* closures has its lambdas at the top level.
MakeLambda ==
  /\ Room /\ (Env = TopLevel \/ "closures" \in Ops)
  /\ \/ \E op \in {"lambda", "variadicLambda"} :
          Running(op) /\ Create([Idle EXCEPT !.op = op, !.held = <<NullRef>>])
     \/ \E i \in DOMAIN immediates :
          /\ Running("documented") /\ immediates[i] \in Strings
          /\ Create([Idle EXCEPT !.op = "documented", !.n = i])

\* debug::collect-garbage
CollectGarbage == Running("collect") /\ Room /\ Collect([Idle EXCEPT !.op = "collect"])

Collected ==
  /\ pc = "collected" /\ native.op = "collect"
  /\ operandStack' = Append(operandStack, NullRef)
  /\ pc' = "run" /\ native' = Idle
  /\ UNCHANGED <<heap, frames, callStack, immediates, handles, plist, charMarks,
                 locals, fault>>

----------------------------------------------------------------------------
(* Lists built by C++ code.                                                *)

\* Call of a variadic function with n arguments for its list: toCall, and fn,
\* which the code goes on using.
VariadicCall ==
  /\ Running("variadic") /\ TopIs({"vfn"})
  /\ IF HeadDestroyed THEN Stop("handle")
     ELSE \E n \in 0..(Len(operandStack) - 1) :
       /\ Hold(Top)
       /\ operandStack' = Without(1)
       /\ native' = [Idle EXCEPT !.op = "variadic", !.n = n, !.raw = Top,
                                     !.below = 1]
       /\ pc' = "build"
       /\ UNCHANGED <<heap, frames, callStack, immediates, charMarks, locals,
                      fault>>

\* ast::List::init: the compiler makes a list of literals.
Quote ==
  /\ Running("quote") /\ Len(immediates) < MaxLiterals
  /\ \E n \in 0..MaxLiterals : native' = [Idle EXCEPT !.op = "quote", !.n = n]
  /\ pc' = "build"
  /\ UNCHANGED <<heap, roots, charMarks, locals, fault>>

\* The list under way, with what is to be constructed for it.
Waiting(op, held) ==
  [op |-> op, held |-> held, n |-> native.n, raw |-> native.raw,
   below |-> native.below, outer |-> native.outer]

\* element->init: a literal that is not among the immediates yet.
Element ==
  /\ pc = "build" /\ native.op = "quote" /\ native.n > 0
  /\ Len(immediates) + Len(native.outer) < MaxLiterals - 1
  /\ Create(Waiting("element", <<>>))

Suspended == [n |-> native.n, raw |-> native.raw, below |-> native.below]

\* element->init of a list: a builder of its own, while this one waits.
QuoteWithin ==
  /\ pc = "build" /\ native.op = "quote" /\ native.n > 0
  /\ Len(immediates) + Len(native.outer) < MaxLiterals - 1
  /\ \E n \in 0..MaxLiterals :
       native' = [Idle EXCEPT !.op = "quote", !.n = n, !.below = Len(handles),
                    !.outer = Append(native.outer, Suspended)]
  /\ UNCHANGED <<heap, roots, charMarks, pc, locals, fault>>

\* The test of the loop of a call reads the function, through fn.
FnLost ==
  /\ pc = "build" /\ native.op = "variadic" /\ ~Valid(native.raw)
  /\ Stop("stale")

\* pushFront and pushBack take their arguments by value.
Push ==
  /\ pc = "build" /\ native.n > 0
  /\ \/ /\ native.op = "quote"
        /\ \E element \in ToSet(immediates) :
             Create(Waiting("quote", <<element, NullRef>>))
     \/ /\ native.op = "variadic" /\ Valid(native.raw)
        /\ Create(Waiting("variadic",
                    <<Top, IF Started(native) THEN handles[2].val ELSE NullRef>>))

\* What goes on when a quoted list is done: the list it is in.
Resumed ==
  IF native.outer = <<>> THEN Idle
  ELSE LET q == Last(native.outer)
       IN [op |-> "quote", held |-> <<>>, n |-> q.n, raw |-> q.raw, below |-> q.below,
           outer |-> Front(native.outer)]

\* The handles without the newest, which is destroyed: what is before it is
\* linked to what is after it.
Destroyed ==
  [h \in 1..Len(handles) - 1 |->
     IF h = Len(handles) - 1 THEN [handles[h] EXCEPT !.next = Last(handles).next]
     ELSE handles[h]]

\* A quoted list is done: a reference to it becomes a literal.  That its list is
\* lost by then does not happen in the runs, as the push after an element that
\* is a list has met the lost back_ before; it is looked at all the same.
Quoted ==
  /\ pc = "build" /\ native.op = "quote" /\ native.n = 0
  /\ LET list == IF Started(native) THEN Last(handles).val ELSE NullRef IN
     IF ~Valid(list) THEN Stop("dangling")
     ELSE /\ immediates' = Append(immediates, list)
          /\ handles' = IF Started(native) THEN Destroyed ELSE handles
          /\ native' = Resumed
          /\ pc' = IF native.outer = <<>> THEN "run" ELSE "build"
          /\ UNCHANGED <<heap, frames, callStack, operandStack, plist, charMarks,
                         locals, fault>>

\* The list of a call is done: the function that toCall has is entered, the
\* handles are destroyed, the head of their list stays where it is.
Called ==
  /\ pc = "build" /\ native.op = "variadic" /\ native.n = 0 /\ Valid(native.raw)
  /\ Enter(mem[handles[1].val.at].env,
           Append(operandStack, IF Started(native) THEN handles[2].val ELSE NullRef))
  /\ handles' = <<>> /\ pc' = "run" /\ native' = Idle
  /\ UNCHANGED <<heap, immediates, plist, charMarks, locals, fault>>

----------------------------------------------------------------------------
Computing ==
  \/ PushConstant \/ Load \/ Store \/ Rebind \/ Recur \/ Discard
  \/ Take \/ Get \/ SetBox
  \/ EnterLet \/ Call \/ Leave
  \/ Literal \/ MakePair \/ MakeBox \/ MakeString \/ MakeLambda \/ CreateAgain
  \/ CollectGarbage \/ Collected
  \/ VariadicCall \/ FnLost \/ Called
  \/ Quote \/ Element \/ QuoteWithin \/ Push \/ Quoted

\* After undefined behaviour nothing is said.
Next == fault = "none" /\ (Collecting \/ Computing)

\* The thread goes on as long as it can: the collector waits for nothing.
Spec == Init /\ [][Next]_vars /\ WF_vars(Collecting)
=============================================================================
