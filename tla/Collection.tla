----------------------------- MODULE Collection -----------------------------
(***************************************************************************)
(* What is to hold of the heap, the collector and the program that uses    *)
(* them (module Mutator), and that they implement memory without addresses *)
(* (module Objects).                                                       *)
(***************************************************************************)
EXTENDS Mutator

\* Every reference has the address of the present; compact has not begun, or
\* is done.
AtRest == pc \notin {"slide", "internal"}

Addresses == 0..Capacity
\* A program has characters where get reads them.  No object has the number 0,
\* so that no character has it.
Characters == {r \in [at : Storage, id : Nat \ {0}] : "get" \in Ops}
Refs == [at : Addresses, id : Nat] \union Characters

\* Types, and bounds of the heap.
\* Code: the declarations of memory.hpp, gc.cpp and environment.hpp.
TypeOK ==
  /\ DOMAIN mem \subseteq Addresses
  /\ \A a \in DOMAIN mem :
       mem[a] \in [kind : Kinds, id : Nat, marked : BOOLEAN, refs : Seq(Refs),
                   env : Environments \union {0}]
  /\ end \in Addresses /\ index \in Addresses /\ gone \in Addresses
  /\ frames \in [Environments ->
                   [parent : Environments \union {0}, vars : Seq(Refs)]]
  /\ callStack \in Seq(Environments) /\ callStack # <<>>
  /\ immediates \in Seq(Refs) /\ operandStack \in Seq(Refs)
  /\ handles \in Seq([val : Refs, prev : Nat, next : Nat]) /\ plist \in Nat
  /\ grey \in Seq(Refs) /\ breaks \in Seq([at : Addresses, size : Nat])
  /\ frameSet \subseteq Environments /\ charMarks \subseteq Nat
  /\ pc \in {"run", "build", "mark", "slide", "internal", "collected", "oom"}
  /\ fault \in {"none", "dangling", "stale", "handle", "shifted"}

----------------------------------------------------------------------------
(* The heap.                                                               *)

\* From one address to another the heap consists of objects.
Tiled(from, to) ==
  LET there == DOMAIN mem \cap (from..to - 1) IN
  /\ from = to \/ from \in there
  /\ \A a \in there : LET next == a + Size[mem[a].kind] IN
       /\ next \in there \union {to}
       /\ there \cap (a + 1..next - 1) = {}

\* The heap is objects from begin_ to end_ without gap or overlap, and within
\* its capacity; while they are slid, up to the gap and from the gap.
\* Code: Memory::alloc and compacted, the walk over the heap in compact, which
\* finds the next object only by the size of the one before.
HeapTiled ==
  /\ end <= Capacity
  /\ IF pc = "slide"
     THEN /\ Tiled(0, index - gone) /\ Tiled(index, end)
          /\ DOMAIN mem \subseteq (0..index - gone - 1) \union (index..end - 1)
     ELSE Tiled(0, end) /\ DOMAIN mem \subseteq 0..end - 1

----------------------------------------------------------------------------
(* References.                                                             *)

AllValid(rs) == \A i \in DOMAIN rs : Valid(rs[i])

\* Outside of compact no reference the collector is to keep up is bad: those
\* on the operand stack, of literals, in the environments of the call stack, in
\* every object, and in the environment of every function.  It holds until the
\* program stops at a fault, and a reference that the collector loses all the same
\* is a fault where it comes back to one of these places: see FaultsTraced.
\* Code: mark, remapInternalPointers and compact together: what is marked is
\* kept, all that is kept is remapped, once.
RefsValid ==
  AtRest =>
    /\ AllValid(operandStack) /\ AllValid(immediates)
    /\ \A i \in DOMAIN callStack : AllValid(frames[callStack[i]].vars)
    /\ \A a \in DOMAIN mem :
         /\ AllValid(mem[a].refs)
         /\ mem[a].env # 0 => AllValid(frames[mem[a].env].vars)

\* The newest handle, unless it is destroyed, leads to its object whatever is
\* allocated; nothing is said of the handles before it.  So the builder of a
\* variadic call has its list, and one of quoted lists as long as it has not
\* had a list for an element.
\* Code: Persistent front_ of ListBuilder, the head of the list that mark and
\* compact walk.
FrontKept ==
  pc \in {"build", "collected"} /\ plist \in DOMAIN handles => Valid(handles[plist].val)

\* A program whose functions are all made at the top level, and in which no C++
\* code builds lists.
FlatProgram == Ops \cap {"closures", "variadic", "quote"} = {}

\* One in which, moreover, no C++ code has references of its own while it creates
\* something, and whose characters are out of the reach of remapValueAddress.
PlainProgram ==
  /\ FlatProgram /\ Ops \cap {"consBuiltin", "box", "symbol"} = {}
  /\ "get" \in Ops => Storage \subseteq {Below}

\* A plain program never meets a reference that the collector has lost.
\* Code: mark takes all environments of the call stack as roots.
Unfaulted == fault = "none"

\* C++ code that passes copies of references to create.
Copies == {"consBuiltin", "box", "symbol", "variadic", "quote"}

\* What the running environment sees and the collector does not: environments with a
\* lost variable that are neither on the call stack nor that of a function.
OutOfSight ==
  {e \in Lineage(Env) \ (ToSet(callStack) \union {mem[a].env : a \in DOMAIN mem}) :
     ~AllValid(frames[e].vars)}

\* A program, of whatever operations of the model, stops in no other way than these.
\* dangling: it has functions that are not made at the top level, and loads a variable
\* of an environment above that of a function; or a quoted list that had a list for
\* an element was lost, which the push after that element meets first.
\* stale: copies made before a collection are used after it, or a plain pointer that
\* C++ code kept: that to the back of a list, that to the function a variadic call is
\* for.
\* handle: a list was built, its handle is destroyed and still the head.
\* shifted: a character lies above the heap, and something below it went.
\* Code: markFrame; Persistent and LazyListBuilder; create's arguments; fn in the
\* loop of Call; remapValueAddress.
FaultsTraced ==
  /\ fault = "dangling" =>
       \/ "closures" \in Ops /\ OutOfSight # {}
       \/ native.op = "quote" /\ native.n = 0 /\ HeadDestroyed
  /\ fault = "stale" =>
       \/ pc = "collected" /\ native.op \in Copies
       \/ IsPushBack(native) /\ ~Valid(native.raw)
       \/ pc = "build" /\ native.op = "variadic" /\ ~Valid(native.raw)
  /\ fault = "handle" =>
       /\ HeadDestroyed /\ pc # "collected"
       /\ Ops \cap {"variadic", "quote"} # {}
  /\ fault = "shifted" =>
       pc = "internal" /\ "get" \in Ops /\ Above \in Storage /\ breaks # <<>>

----------------------------------------------------------------------------
(* What goes.                                                              *)

\* Sets of numbers of objects that have all the collector's roots lead to.
Closed(S) ==
  /\ \A r \in ToSet(Roots) : ~IsChar(r) => r.id \in S
  /\ \A a \in DOMAIN mem : mem[a].id \in S =>
       \A r \in ToSet(Children(mem[a])) : ~IsChar(r) => r.id \in S

\* A collection leaves nothing behind but what can be reached and strings with
\* a marked character, and no mark that would keep an object the next time.
\* Code: Value::unmark in compact, the break list.
Reclaimed ==
  pc = "collected" =>
    \A a \in DOMAIN mem :
      /\ ~mem[a].marked
      /\ \/ mem[a].id \in charMarks
         \/ \A S \in SUBSET {mem[b].id : b \in DOMAIN mem} : Closed(S) => mem[a].id \in S

\* A collection comes to an end, also when boxes make values cyclic, unless it
\* moves a reference off its character.
\* Code: the test of the mark in markValue, the advance of index in compact.
CollectionEnds ==
  pc \in {"mark", "slide", "internal"} ~> pc = "collected" \/ fault = "shifted"

\* What a collection has still to do: of each phase, the objects or words that are
\* ahead, and of marking also the values it has come upon.
Phase == CASE pc = "mark" -> 3 [] pc = "slide" -> 2 [] pc = "internal" -> 1 [] OTHER -> 0
Ahead ==
  IF pc = "mark" THEN Cardinality({a \in DOMAIN mem : ~mem[a].marked}) ELSE end - index

Advances ==
  /\ Ahead \in Nat /\ Ahead' \in Nat
  /\ \/ Phase' < Phase
     \/ Phase' = Phase /\ Ahead' < Ahead
     \/ Phase' = Phase /\ Ahead' = Ahead /\ Len(grey') < Len(grey)

\* Each step of a collection, but the one that stops at a fault, leaves less to do, so
\* that no order of marking and no cycle of values keeps it going for ever.
\* Code: the test of the mark in markValue, the advance of index in compact.
EachStepAdvances ==
  [][(pc \in {"mark", "slide", "internal"} /\ fault' = "none") => Advances]_vars

----------------------------------------------------------------------------
(* The program does not notice the collector.                              *)

\* What lies at the address of a reference, or what it is for while objects
\* are on their way.
Number(r) ==
  CASE IsChar(r) -> -r.id
    [] ~IsChar(r) /\ ~AtRest -> r.id
    [] OTHER -> IF r.at \in DOMAIN mem THEN mem[r.at].id ELSE 0
NumbersOf(rs) == [i \in DOMAIN rs |-> Number(rs[i])]

\* Variables, by what they were for when they were stored, which is what Load
\* compares; 0 if that is gone.
Meant(rs) ==
  [i \in DOMAIN rs |->
     IF IsChar(rs[i]) THEN -rs[i].id ELSE IF Gone(rs[i]) THEN 0 ELSE rs[i].id]

\* The heap by the numbers of the objects, and the environments something owns.
NumberedObjects ==
  [n \in {mem[a].id : a \in DOMAIN mem} |->
     LET o == mem[CHOOSE a \in DOMAIN mem : mem[a].id = n]
     IN [kind |-> o.kind, refs |-> NumbersOf(o.refs), env |-> o.env]]
OwnedFrames ==
  [e \in Owned(callStack, mem) |->
     [parent |-> frames[e].parent, vars |-> Meant(frames[e].vars)]]

Memory == INSTANCE Objects WITH
  objects      <- NumberedObjects,
  frames       <- OwnedFrames,
  immediates   <- NumbersOf(immediates),
  operandStack <- NumbersOf(operandStack)

\* Every operation has the effect it has on objects without addresses, and a
\* collection none but that objects disappear which nothing leads to, up to the fault
\* at which a program may stop: FaultsTraced says which there are.
\* Code: all of gc.cpp; the operations of vm.cpp and builtins.cpp.
Unnoticed == Memory!Spec

\* A program with closures does notice the collector, but not otherwise than in variables
\* above the environments of its functions: the objects that only these have may
\* disappear, and all that is not loaded from there is what it would be in any memory,
\* again up to a fault.
\* Code: markFrame, which does not go on to the parent; otherwise that of Unnoticed.
OnlyOuterLost == Memory!LossySpec

----------------------------------------------------------------------------
(* Statements of the documentation and of comments that the code does not  *)
(* bear out.                                                               *)

\* README.md:9, "First-class functions and closures": a variable that a
\* function can name has a value.
\* Code: markFrame, which does not go on to the parent.
ClosuresKeep == fault # "dangling"

\* persistent.hpp:5, "A persistent handle will keep the GC from collecting an
\* value bound to a local variable in C++ code".
\* Code: the handles are walked from the newest along next_, which is null.
HandlesKeep == AtRest => \A h \in DOMAIN handles : Valid(handles[h].val)

\* persistent.hpp:9, "it's better to leave ebl values in the input Arguments":
\* values that are left there can be used.
\* Code: args[0], args[1] are copied before create collects.
ArgumentsKeep == fault # "stale"
=============================================================================
