---------------------------- MODULE MarkCompact ----------------------------
(***************************************************************************)
(* The heap of the EBL runtime (memory.hpp) and its mark-compact collector *)
(* (gc.cpp), with all that the collector reads: environments, call stack,  *)
(* literals, operand stack and persistent handles.  Module Mutator is the  *)
(* program that uses the heap.                                             *)
(*                                                                         *)
(* Memory is a function from the start addresses of objects, in words, to  *)
(* records.  A reference is an address, with a ghost: the number of the    *)
(* object it was made for, which the C++ program does not have.  It is     *)
(* good while that very object lies at its address.                        *)
(*                                                                         *)
(* The collector takes one step per value it marks, per object it slides   *)
(* and per object whose fields it updates, in the order of the code.       *)
(* Undefined behaviour (use of a bad reference, of a destroyed handle)     *)
(* stops the model with a fault that names it; so does a compaction that   *)
(* moves a reference off the character it is for.                          *)
(***************************************************************************)
EXTENDS Integers, Sequences, FiniteSets, SequencesExt

CONSTANTS
  Size,         \* how many words an object of each kind takes
  Capacity,     \* how many words the heap has
  Storage,      \* where the buffers of strings can lie
  Environments  \* the numbers of Environments; 0 is no environment

\* Sides of the heap.
Below == -1
Above == Capacity + 1

Kinds == {"null", "int", "str", "sym", "box", "pair", "fn", "vfn"}

\* Every object takes room, and the one that is always there has it.
ASSUME SizeAssumption ==
  /\ Size \in [Kinds -> Nat \ {0}]
  /\ Capacity \in Nat
  /\ Storage \subseteq {Below, Above}
  /\ Environments \subseteq Nat \ {0} /\ 1 \in Environments
  /\ IsFiniteSet(Environments)
  /\ Size["null"] <= Capacity

VARIABLES
  mem,           \* Heap: the object that starts at an address
  end,           \* Heap::end_, counted from begin_
  frames,        \* parent_ and vars_ of each Environment; parent_ 0 for none
  callStack,     \* Context::callStack_: the environment of each entry
  immediates,    \* Context::immediates_
  operandStack,  \* Context::operandStack_
  handles,       \* the live PersistentBase objects, by their place on the C++ stack
  plist,         \* Context::persistentsList_: the place of the head, 0 for null
  charMarks,     \* strings one of whose Characters is marked
  pc,            \* what the thread is at
  native,        \* what C++ code waits for: a creation, a list being built
  grey,          \* calls of markValue still to be made
  index, gone, breaks, collapse,   \* locals of compact
  frameSet,      \* the thread_local of gc.cpp
  fault          \* undefined behaviour

heap    == <<mem, end>>
roots   == <<frames, callStack, immediates, operandStack, handles, plist>>
locals  == <<grey, index, gone, breaks, collapse, frameSet>>
vars    == <<mem, end, frames, callStack, immediates, operandStack, handles,
             plist, charMarks, pc, native, grey, index, gone, breaks, collapse,
             frameSet, fault>>

----------------------------------------------------------------------------
(* References, environments, handles.                                      *)

\* The null value, created first, lies at the bottom of the heap.
NullRef == [at |-> 0, id |-> 1]

\* A character lies in its string's storage_, which malloc puts below the heap
\* or above it.  No destructor of a dead object ever runs, so a character can
\* be read for ever.
CharOf(at, s) == [at |-> at, id |-> s]
IsChar(r) == r.at < 0 \/ r.at > Capacity

Valid(r) == IsChar(r) \/ (r.at \in DOMAIN mem /\ mem[r.at].id = r.id)

\* Memory with an object at an address.
Put(memory, at, o) ==
  [a \in DOMAIN memory \union {at} |-> IF a = at THEN o ELSE memory[a]]

\* An environment and those above it: the smallest set with it and with the
\* parent of each of its members.
Lineage(e) ==
  LET WithParents(S) == /\ e \in S \union {0}
                        /\ \A d \in S : frames[d].parent \in S \union {0}
  IN {d \in Environments : \A S \in SUBSET Environments : WithParents(S) => d \in S}

\* The handles from h along next_, which leads to newer ones: from the head
\* nothing but the head is reached.
Along[h \in 0..Len(handles)] ==
  IF h = 0 THEN <<>> ELSE <<h>> \o Along[handles[h].next]

\* The head is a handle whose destructor has run.
HeadDestroyed == plist > Len(handles)

\* Environments belong to shared_ptrs in the call stack, in functions and in
\* other environments.  Functions that died in a collection never let theirs
\* go, but nothing leads there any more: such an environment counts as free.
Free == [parent |-> 0, vars |-> <<>>]
Owned(stack, memory) ==
  (UNION {Lineage(stack[i]) : i \in DOMAIN stack}) \union
  (UNION {Lineage(memory[a].env) : a \in DOMAIN memory})

\* The ghost numbers in use; what is not can be given to a new object.
IdsOf(rs) == {rs[i].id : i \in DOMAIN rs}
Ids == {mem[a].id : a \in DOMAIN mem} \union charMarks
         \union (UNION {IdsOf(mem[a].refs) : a \in DOMAIN mem})
         \union (UNION {IdsOf(frames[e].vars) : e \in Environments})
         \union IdsOf(immediates) \union IdsOf(operandStack)
         \union {handles[h].val.id : h \in DOMAIN handles}
         \union {native.raw.id}
         \union {native.outer[i].raw.id : i \in DOMAIN native.outer}

\* Undefined behaviour.
Stop(f) ==
  /\ fault' = f
  /\ UNCHANGED <<heap, roots, charMarks, pc, native, locals>>

----------------------------------------------------------------------------
(* MarkCompact::mark.                                                      *)

\* Mutant: only the environment that runs is marked.
RootsOfTheTop ==
  frames[Last(callStack)].vars \o immediates \o operandStack
    \o [i \in DOMAIN Along[plist] |-> handles[Along[plist][i]].val]
    \o <<NullRef>>

\* Mutant: literals are not marked.
RootsWithoutLiterals ==
  FlattenSeq([i \in DOMAIN callStack |-> frames[callStack[i]].vars])
    \o operandStack
    \o [i \in DOMAIN Along[plist] |-> handles[Along[plist][i]].val]
    \o <<NullRef>>

\* What mark calls markValue with, null for the three constants.
Roots ==
  FlattenSeq([i \in DOMAIN callStack |-> frames[callStack[i]].vars])
    \o immediates \o operandStack
    \o [i \in DOMAIN Along[plist] |-> handles[Along[plist][i]].val]
    \o <<NullRef>>

\* Mutant: nothing stops the recursion.
NeverVisited(o) == FALSE

Visited(o) == o.marked

\* Mutant: markValue does not go on to the environment of a function.
OwnChildren(o) == o.refs

\* What markValue goes on with: of a function, the variables of its
\* environment, not of those above it.
Children(o) == (IF o.env # 0 THEN frames[o.env].vars ELSE <<>>) \o o.refs

\* runGC, called by C++ code that then waits for it.
Collect(waiting) ==
  IF HeadDestroyed THEN Stop("handle")
  ELSE /\ grey' = Roots
       /\ pc' = "mark"
       /\ native' = waiting
       /\ UNCHANGED <<heap, roots, charMarks, index, gone, breaks, collapse,
                      frameSet, fault>>

MarkValue ==
  /\ pc = "mark" /\ grey # <<>>
  /\ LET r == Head(grey)
         o == mem[r.at]
         Go(more) == /\ grey' = more \o Tail(grey)
                     /\ UNCHANGED <<end, roots, pc, native, index, gone, breaks,
                                    collapse, frameSet, fault>>
     IN \/ /\ IsChar(r)
           /\ charMarks' = charMarks \union {r.id}
           /\ Go(<<>>) /\ UNCHANGED mem
        \/ /\ ~IsChar(r) /\ Visited(o)
           /\ Go(<<>>) /\ UNCHANGED <<mem, charMarks>>
        \/ /\ ~IsChar(r) /\ ~Visited(o)
           /\ mem' = [mem EXCEPT ![r.at].marked = TRUE]
           /\ Go(Children(o)) /\ UNCHANGED charMarks

Marked ==
  /\ pc = "mark" /\ grey = <<>>
  /\ pc' = "slide"
  /\ index' = 0 /\ gone' = 0 /\ breaks' = <<>> /\ collapse' = FALSE
  /\ UNCHANGED <<heap, roots, charMarks, native, grey, frameSet, fault>>

----------------------------------------------------------------------------
(* MarkCompact::compact: slide what is kept towards the bottom, noting     *)
(* where how much went; then follow the objects with every reference.      *)

\* A string stays while a character of it is marked; no one unmarks that.
Kept(o) == o.marked \/ (o.kind = "str" /\ o.id \in charMarks)

\* Mutant: the mark stays.
Unsettled(o) == o

Settled(o) == [o EXCEPT !.marked = FALSE]

\* Mutant: collapse is never reset, so that all gaps become one.
NotedAsOne(size) ==
  IF breaks # <<>> THEN [breaks EXCEPT ![Len(breaks)].size = @ + size]
  ELSE Append(breaks, [at |-> index, size |-> size])

\* The break list, once an object of a size is skipped; neighbours share one.
Noted(size) ==
  IF collapse THEN [breaks EXCEPT ![Len(breaks)].size = @ + size]
  ELSE Append(breaks, [at |-> index, size |-> size])

Slide ==
  /\ pc = "slide" /\ index < end
  /\ LET o    == mem[index]
         size == Size[o.kind]
         rest == [a \in DOMAIN mem \ {index} |-> mem[a]]
     IN /\ IF Kept(o)
           THEN /\ mem' = Put(rest, index - gone, Settled(o))
                /\ collapse' = FALSE
                /\ UNCHANGED <<breaks, gone>>
           ELSE /\ mem' = rest
                /\ breaks' = Noted(size)
                /\ collapse' = TRUE
                /\ gone' = gone + size
        /\ index' = index + size
  /\ UNCHANGED <<end, roots, charMarks, pc, native, grey, frameSet, fault>>

\* Mutant: end_ is not lowered.
SlidInPlace ==
  /\ pc = "slide" /\ index >= end
  /\ index' = 0
  /\ pc' = "internal"
  /\ UNCHANGED <<heap, roots, charMarks, native, grey, gone, breaks, collapse,
                 frameSet, fault>>

\* heap.compacted
Slid ==
  /\ pc = "slide" /\ index >= end
  /\ end' = end - gone
  /\ index' = 0
  /\ pc' = "internal"
  /\ UNCHANGED <<mem, roots, charMarks, native, grey, gone, breaks, collapse,
                 frameSet, fault>>

\* How far what lay at an address has moved: the breaks below it, which are
\* the first ones of the list.
Shift(list, at) ==
  LET upTo[n \in 0..Len(list)] ==
        IF n = 0 THEN 0
        ELSE upTo[n - 1] + (IF list[n].at < at THEN list[n].size ELSE 0)
  IN upTo[Len(list)]

\* A reference to an object that has gone leads nowhere, from whatever
\* address it comes to be: all of these are taken for one.
Nowhere == [at |-> Capacity, id |-> 0]
Gone(r) == ~IsChar(r) /\ \A a \in DOMAIN mem : mem[a].id # r.id

\* remapValueAddress
Remapped(r) == IF Gone(r) THEN Nowhere ELSE [r EXCEPT !.at = @ - Shift(breaks, @)]
RemappedAll(rs) == [i \in DOMAIN rs |-> Remapped(rs[i])]

\* Characters do not move, but nothing asks whether an address is in the heap:
\* of references to them, some would be moved.
Astray(rs) == \E i \in DOMAIN rs : IsChar(rs[i]) /\ Shift(breaks, rs[i].at) # 0

\* remapInternalPointers
RemapInternal ==
  /\ pc = "internal" /\ index < end
  /\ LET o == mem[index] IN
     /\ ~Astray(o.refs)
     /\ mem' = [mem EXCEPT ![index].refs = RemappedAll(@)]
     /\ frameSet' = frameSet \union Lineage(o.env)
     /\ index' = index + Size[o.kind]
  /\ UNCHANGED <<end, roots, charMarks, pc, native, grey, gone, breaks,
                 collapse, fault>>

\* Mutant: only the environments of the call stack are gathered.
StackFrames == UNION {Lineage(callStack[i]) : i \in DOMAIN callStack}

\* Mutant: only the environments of functions are gathered.
FunctionFrames == frameSet

\* frameSet, with the environments of the call stack.
GatheredFrames ==
  frameSet \union UNION {Lineage(callStack[i]) : i \in DOMAIN callStack}

\* Mutant: handles are not remapped.
NoHandles == {}

WalkedHandles == ToSet(Along[plist])

RootsAstray ==
  \/ \E e \in GatheredFrames : Astray(frames[e].vars)
  \/ Astray(immediates) \/ Astray(operandStack)
  \/ Astray([i \in DOMAIN Along[plist] |-> handles[Along[plist][i]].val])

\* The end of compact: frames, each once; literals; operands; handles.
RemapRoots ==
  /\ pc = "internal" /\ index >= end
  /\ ~RootsAstray
  /\ frames' = [e \in Environments |->
                  IF e \in GatheredFrames
                  THEN [frames[e] EXCEPT !.vars = RemappedAll(@)]
                  ELSE IF e \in Owned(callStack, mem) THEN frames[e] ELSE Free]
  /\ immediates' = RemappedAll(immediates)
  /\ operandStack' = RemappedAll(operandStack)
  /\ handles' = [h \in DOMAIN handles |->
                   IF h \in WalkedHandles
                   THEN [handles[h] EXCEPT !.val = Remapped(@)]
                   ELSE handles[h]]
  /\ frameSet' = {} /\ index' = 0 /\ gone' = 0 /\ breaks' = <<>>
  /\ collapse' = FALSE
  /\ pc' = "collected"
  /\ UNCHANGED <<heap, callStack, plist, charMarks, native, grey, fault>>

\* Either of them, when among its references one to a character is moved.
LoseCharacter ==
  /\ pc = "internal"
  /\ IF index < end THEN Astray(mem[index].refs) ELSE RootsAstray
  /\ Stop("shifted")

Collecting ==
  \/ MarkValue \/ Marked \/ Slide \/ Slid
  \/ RemapInternal \/ RemapRoots \/ LoseCharacter
=============================================================================
