-------------------------------- MODULE CollectorProofs --------------------------------
(**************************************************************************************)
(* First, what is true of the heap, the collector and the program in every state, as  *)
(* far as the references need it.  Objects go by their numbers, which stay the same   *)
(* while addresses change.                                                            *)
(*                                                                                    *)
(* Then, the heap is a row of objects: for all sizes of objects, all capacities,      *)
(* all programs, and through any number of collections.  The invariant adds to        *)
(* HeapTiled what compact has in its locals: that the gap between the objects that    *)
(* were slid and those that were not is gone words wide and ends at index, where      *)
(* an object begins.                                                                  *)
(*                                                                                    *)
(* Then, each step of the collector keeps what is said of references.  The steps of   *)
(* the program, and what follows for its references, are left to module               *)
(* ReferenceProofs.                                                                   *)
(**************************************************************************************)
EXTENDS Collection, DataLemmas

----------------------------------------------------------------------------------------
(* C++ code that waits.                                                    *)

BuilderOps == {"variadic", "quote", "element"}

\* A list that waits for one of its elements.
Suspensions == [n : Nat, raw : Refs, below : Nat]

Waiters == [op : DOMAIN KindOf \union {"none", "collect"}, held : Seq(Refs), n : Nat,
            raw : Refs, below : Nat, outer : Seq(Suspensions)]

\* A creation can be made as the state is, or once heap has been collected:
\* what it reads on the operand stack, among the literals and in handles is there.
Ready(q) ==
  /\ q \in Waiters
  /\ q.op \in BuilderOps => q.n > 0
  /\ q.op = "cons" => Len(operandStack) >= 2
  /\ q.op = "documented" => q.n \in DOMAIN immediates
  /\ q.op = "str" => q.held = <<>>
  /\ q.op = "string" => q.held = <<>>

\* How many handles there were before those of the i-th of the quoted lists that
\* are under way, the last of which does not wait.
BelowOf(q, i) == IF i \in DOMAIN q.outer THEN q.outer[i].below ELSE q.below

\* Each of them has a handle, once it has a front.
Nested(q) ==
  /\ BelowOf(q, 1) = 0
  /\ \A i \in DOMAIN q.outer : BelowOf(q, i + 1) \in {BelowOf(q, i), BelowOf(q, i) + 1}

\* The handles that a creation leaves alive: of the function that is called and
\* of the front of its list, or of the fronts of quoted lists.
Handled(q) ==
  /\ q.op = "variadic" => /\ q.n <= Len(operandStack)
                          /\ q.below = 1 /\ Len(handles) \in {1, 2}
                          /\ plist = Len(handles)
  /\ q.op \in {"quote", "element"} => Len(handles) \in {q.below, q.below + 1} /\ Nested(q)
  /\ q.op \notin BuilderOps => handles = <<>>

NativeInv ==
  /\ native \in Waiters
  /\ pc = "run" => native = Idle
  /\ pc = "build" => native.op \in {"variadic", "quote"}
  /\ pc \in {"mark", "slide", "internal", "collected"} =>
       native.op # "none" /\ Ready(native)
  /\ Handled(native)

\* The live handles are linked from the older to the newer, and while there are
\* any, the head of the list is the newest, or one that is no longer alive.
HandlesInv ==
  /\ handles # <<>> => plist >= Len(handles)
  /\ \A h \in DOMAIN handles : handles[h].next = IF h = Len(handles) THEN 0 ELSE h + 1
  /\ pc \in {"mark", "slide", "internal", "collected"} => ~HeadDestroyed

----------------------------------------------------------------------------------------
(* Objects and references.                                                 *)

\* No two objects have the same number, and none has that of Nowhere.
IdsInv ==
  /\ \A a, b \in DOMAIN mem : mem[a].id = mem[b].id => a = b
  /\ \A a \in DOMAIN mem : mem[a].id # 0
  /\ \A a \in DOMAIN mem : mem[a].kind = "str" => mem[a].refs = <<>> /\ mem[a].env = 0
  /\ IsFiniteSet(charMarks)

\* The references that mark begins with, and those it goes on to from an object.
HandleSet == {handles[h].val : h \in DOMAIN handles \cap {plist}}
StackSet == UNION {ToSet(frames[callStack[i]].vars) : i \in DOMAIN callStack}
RootSet == ToSet(operandStack) \union ToSet(immediates) \union {NullRef}
             \union HandleSet \union StackSet
EnvSet(e) == IF e # 0 THEN ToSet(frames[e].vars) ELSE {}
ChildSet(o) == ToSet(o.refs) \union EnvSet(o.env)

\* The variables of all environments; the collector does not see to those of
\* the parents of functions' environments.
Variables == UNION {ToSet(frames[e].vars) : e \in Environments}

RestInv ==
  AtRest =>
    /\ \A r \in RootSet : Valid(r)
    /\ \A a \in DOMAIN mem : \A r \in ChildSet(mem[a]) : Valid(r)
    /\ \A r \in Variables : Valid(r) \/ Gone(r)

Unmarked == pc \notin {"mark", "slide"} => \A a \in DOMAIN mem : ~mem[a].marked

----------------------------------------------------------------------------------------
(* Mark.                                                                   *)

ObjectIds(R) == {r.id : r \in {q \in R : ~IsChar(q)}}
LiveIds == {mem[b].id : b \in DOMAIN mem}

\* A set of numbers has those of the roots, and with the number of an object
\* from A those that the object leads to.
ClosedAmong(S, A) ==
  /\ ObjectIds(RootSet) \subseteq S
  /\ \A a \in A : mem[a].id \in S => ObjectIds(ChildSet(mem[a])) \subseteq S

Blackened == {a \in DOMAIN mem : mem[a].marked}
Done(r) == IF IsChar(r) THEN r.id \in charMarks ELSE mem[r.at].marked
Pending(r) == Done(r) \/ r \in ToSet(grey)

\* All that marked objects and the roots lead to is marked or will be, and
\* nothing else.
MarkInv ==
  pc = "mark" =>
    /\ \A r \in ToSet(grey) : Valid(r)
    /\ \A r \in RootSet : Pending(r)
    /\ \A a \in Blackened : \A r \in ChildSet(mem[a]) : Pending(r)
    /\ \A S \in SUBSET LiveIds : ClosedAmong(S, Blackened) =>
         /\ \A a \in Blackened : mem[a].id \in S
         /\ ObjectIds(ToSet(grey)) \subseteq S

----------------------------------------------------------------------------------------
(* Compact.                                                                *)

\* The break list leads a reference to its object.
Reaches(r) ==
  LET to == r.at - Shift(breaks, r.at) IN to \in DOMAIN mem /\ mem[to].id = r.id

\* The objects that have been slid, and those that will be.
Staying == {a \in DOMAIN mem : a < index - gone \/ Kept(mem[a])}
Stays(r) == IsChar(r) \/ \E a \in Staying : mem[a].id = r.id

\* The object of a reference has gone, has not been slid, or has been, and will
\* be found: the break that may still grow is above it.
Follows(r) ==
  \/ IsChar(r)
  \/ Gone(r)
  \/ r.at >= index /\ Valid(r)
  \/ /\ r.at < index /\ r.at - Shift(breaks, r.at) < index - gone
     /\ collapse => r.at < Last(breaks).at
     /\ Reaches(r)

BreaksInv ==
  /\ \A i \in DOMAIN breaks : breaks[i].at < index
  /\ collapse => breaks # <<>>
  /\ \A x \in index..Capacity : Shift(breaks, x) = gone

SlidingInv ==
  pc = "slide" =>
    /\ BreaksInv
    /\ \A a \in DOMAIN mem : a < index - gone => ~mem[a].marked
    /\ \A r \in RootSet : Follows(r) /\ Stays(r)
    /\ \A a \in DOMAIN mem : \A r \in ChildSet(mem[a]) : Follows(r)
    /\ \A a \in Staying : \A r \in ChildSet(mem[a]) : Stays(r)
    /\ \A r \in Variables : Follows(r)
    /\ \A S \in SUBSET LiveIds : ClosedAmong(S, Staying) =>
         \A a \in Staying : mem[a].id \in S \union charMarks

Found(r) == IsChar(r) \/ Gone(r) \/ Reaches(r)

\* Up to index references are new, from there on they are old and can be found.
InternalInv ==
  pc = "internal" =>
    /\ index \in DOMAIN mem \union {end}
    /\ \A r \in RootSet : ~Gone(r)
    /\ \A a \in DOMAIN mem : \A r \in ChildSet(mem[a]) : ~Gone(r)
    /\ \A r \in RootSet \union Variables : Found(r)
    /\ \A a \in DOMAIN mem : \A r \in ToSet(mem[a].refs) :
         IF a < index THEN Valid(r) ELSE Found(r)
    /\ \A a \in DOMAIN mem : a < index => Lineage(mem[a].env) \subseteq frameSet

\* What is left is what the roots lead to.
ReachedInv ==
  pc \in {"internal", "collected"} =>
    \A S \in SUBSET LiveIds : ClosedAmong(S, DOMAIN mem) =>
      \A a \in DOMAIN mem : mem[a].id \in S \union charMarks

----------------------------------------------------------------------------------------
RefInv ==
  /\ TypeOK /\ NativeInv /\ HandlesInv /\ IdsInv /\ RestInv /\ Unmarked
  /\ MarkInv /\ SlidingInv /\ InternalInv /\ ReachedInv

\* The function of a call is where fn says, if it is anywhere, and toCall has it;
\* while it may be on its way, toCall has what fn is.
FnInv ==
  native.op = "variadic" =>
    /\ ~IsChar(native.raw)
    /\ \/ pc \in {"build", "collected", "oom"} /\ ~Valid(native.raw)
       \/ handles[1].val = native.raw

----------------------------------------------------------------------------------------
(* Programs with functions made at the top level only. *)

Lambdas == {"lambda", "variadicLambda", "documented"}

\* The parents of what is on the call stack are further down.
StackLinked ==
  /\ callStack[1] = TopLevel
  /\ \A i \in DOMAIN callStack :
       frames[callStack[i]].parent \in {0} \union {callStack[j] : j \in 1..i - 1}

MadeAtTopLevel == \A a \in DOMAIN mem : mem[a].env \in {0, TopLevel}

Linked == StackLinked /\ MadeAtTopLevel /\ (native.op \in Lambdas => Env = TopLevel)

----------------------------------------------------------------------------------------
(* Programs in which C++ code builds no lists. *)

OwnCreations == DOMAIN KindOf \ BuilderOps

NoListsBuilt == Ops \cap {"variadic", "quote"} = {}

\* What a reference is to, wherever that lies.
Value(r) == IF IsChar(r) THEN -r.id ELSE r.id
ValuesOf(rs) == [i \in DOMAIN rs |-> Value(rs[i])]

\* What C++ code holds is what the program has on its stack or as a literal.
Holds(q) ==
  /\ q.op \in {"none", "collect", "int"} => q.held = <<>>
  /\ q.op \in {"lambda", "variadicLambda"} => q.held = <<NullRef>>
  /\ q.op = "symbol" => \E v \in ToSet(ValuesOf(immediates)) : ValuesOf(q.held) = <<v>>
  /\ q.op = "box" => /\ Len(operandStack) >= 1
                     /\ ValuesOf(q.held) = <<Last(ValuesOf(operandStack))>>
  /\ q.op = "consBuiltin" =>
       /\ Len(operandStack) >= 2
       /\ ValuesOf(q.held) = SubSeq(ValuesOf(operandStack), Len(operandStack) - 1,
                                    Len(operandStack))

HoldInv ==
  /\ native.op \in OwnCreations \union {"none", "collect"}
  /\ Holds(native)
  /\ plist = 0

\* Of programs of both kinds.
FlatInv == Linked /\ HoldInv

----------------------------------------------------------------------------------------
(* Where faults come from. *)

\* What waits is of the program, and a list that is built is by C++ code; what a creation
\* holds that is not one of Copies is nothing, or null.
TraceInv ==
  /\ native.op \in Ops \union {"none", "element"}
  /\ native.op = "element" => "quote" \in Ops
  /\ native.op \in {"lambda", "variadicLambda"} => native.held = <<NullRef>>
  /\ native.op \in {"int", "element"} => native.held = <<>>
  /\ plist # 0 => ~NoListsBuilt
  /\ FaultsTraced

----------------------------------------------------------------------------------------
(* The heap as a row of objects. *)

\* A record with the fields of an object.
IsObject(o) ==
  /\ o = [kind |-> o.kind, id |-> o.id, marked |-> o.marked, refs |-> o.refs,
          env |-> o.env]
  /\ o.kind \in Kinds

Sliding == pc = "slide" => /\ index \in Nat /\ gone \in Nat
                           /\ gone <= index /\ index <= end

HeapInv ==
  /\ end \in Nat
  /\ \A a \in DOMAIN mem : IsObject(mem[a])
  /\ Sliding
  /\ HeapTiled

\* The objects of mem are where they were, and of the same kinds.
SameShape ==
  \A a \in DOMAIN mem : IsObject(mem'[a]) /\ mem'[a].kind = mem[a].kind

----------------------------------------------------------------------------------------
(* The program. *)

\* Objects change in nothing but their contents, outside of compact.
LEMMA ContentsChange ==
  ASSUME HeapInv, pc # "slide", pc' # "slide", end' = end,
         DOMAIN mem' = DOMAIN mem, SameShape
  PROVE  HeapInv'
<1>1. Tiled(0, end)' /\ DOMAIN mem' \subseteq 0..end' - 1
  BY DEF HeapInv, HeapTiled, Tiled, SameShape
<1> QED
  BY <1>1 DEF HeapInv, HeapTiled, Sliding, SameShape

\* A new object lies at the end of the heap.
LEMMA ObjectAdded ==
  ASSUME HeapInv, pc # "slide", pc' # "slide",
         NEW kind \in Kinds, end + Size[kind] <= Capacity,
         end' = end + Size[kind],
         DOMAIN mem' = DOMAIN mem \union {end}, SameShape,
         IsObject(mem'[end]), mem'[end].kind = kind
  PROVE  HeapInv'
<1>1. end \in Nat /\ Size[kind] \in Nat \ {0} /\ end' \in Nat
  BY SizeAssumption DEF HeapInv
<1>2. Tiled(0, end) /\ DOMAIN mem \subseteq 0..end - 1
  BY DEF HeapInv, HeapTiled
<1>3. DOMAIN mem' \subseteq 0..end' - 1
  BY <1>1, <1>2
<1>4. Tiled(0, end)'
  <2>1. DOMAIN mem' \cap (0..end' - 1) = DOMAIN mem \union {end}
    BY <1>3
  <2>2. 0 \in DOMAIN mem \union {end}
    BY <1>1, <1>2 DEF Tiled
  <2>3. ASSUME NEW a \in DOMAIN mem, NEW next, next = a + Size[mem'[a].kind]
        PROVE  /\ next \in DOMAIN mem \union {end}
               /\ (DOMAIN mem \union {end}) \cap (a + 1..next - 1) = {}
    <3>1. next = a + Size[mem[a].kind] /\ a \in 0..end - 1
      BY <2>3, <1>2 DEF SameShape
    <3>2. /\ next \in DOMAIN mem \union {end}
          /\ DOMAIN mem \cap (a + 1..next - 1) = {}
      BY <3>1, <1>2 DEF Tiled
    <3> QED
      BY <3>1, <3>2, <1>1, <1>2
  <2>4. (DOMAIN mem \union {end}) \cap (end + 1..end' - 1) = {}
    BY <1>1, <1>2
  <2> QED
    BY <1>1, <2>1, <2>2, <2>3, <2>4 DEF Tiled
<1> QED
  BY <1>1, <1>3, <1>4 DEF HeapInv, HeapTiled, Sliding, SameShape

----------------------------------------------------------------------------------------
(* The collector. *)

\* In a row of objects, what comes after one of them.
LEMMA NextObject ==
  ASSUME NEW from \in Int, NEW to \in Int, Tiled(from, to),
         NEW a \in DOMAIN mem \cap (from..to - 1),
         NEW next, next = a + Size[mem[a].kind]
  PROVE  /\ next \in (DOMAIN mem \cap (from..to - 1)) \union {to}
         /\ (DOMAIN mem \cap (from..to - 1)) \cap (a + 1..next - 1) = {}
  BY DEF Tiled

\* Marking is over: the gap is empty and at the bottom.
LEMMA MarkedInv ==
  ASSUME HeapInv, Marked
  PROVE  HeapInv'
<1>1. pc = "mark" /\ pc' = "slide" /\ index' = 0 /\ gone' = 0 /\ mem' = mem /\ end' = end
  BY DEF Marked, heap
<1>2. end \in Nat /\ Tiled(0, end) /\ DOMAIN mem \subseteq 0..end - 1
  BY <1>1 DEF HeapInv, HeapTiled
<1>3. Tiled(0, 0)'
  BY <1>2 DEF Tiled
<1>4. Tiled(0, end)'
  BY <1>1, <1>2 DEF Tiled
<1> QED
  BY <1>1, <1>2, <1>3, <1>4 DEF HeapInv, HeapTiled, Sliding

\* The object at index, the first of those that were not slid.
LEMMA ObjectAtIndex ==
  ASSUME HeapInv, pc = "slide", index < end
  PROVE  LET size == Size[mem[index].kind] IN
         /\ index \in DOMAIN mem /\ IsObject(mem[index])
         /\ size \in Nat \ {0}
         /\ index + size <= end
         /\ index + size \in DOMAIN mem \union {end}
         /\ DOMAIN mem \cap (index + 1..index + size - 1) = {}
<1>1. end \in Nat /\ index \in Nat /\ Tiled(index, end)
  BY DEF HeapInv, HeapTiled, Sliding
<1>2. index \in DOMAIN mem \cap (index..end - 1)
  BY <1>1 DEF Tiled
<1>3. IsObject(mem[index]) /\ Size[mem[index].kind] \in Nat \ {0}
  BY <1>2, SizeAssumption DEF HeapInv, IsObject
<1> DEFINE next == index + Size[mem[index].kind]
<1>4. index \in Int /\ end \in Int /\ next = index + Size[mem[index].kind]
  BY <1>1
<1> HIDE DEF next
<1>5. /\ next \in (DOMAIN mem \cap (index..end - 1)) \union {end}
      /\ (DOMAIN mem \cap (index..end - 1)) \cap (index + 1..next - 1) = {}
  BY ONLY <1>1, <1>2, <1>4, NextObject
<1>6. next <= end
  BY <1>1, <1>5
<1>7. DOMAIN mem \cap (index + 1..next - 1) = {}
  BY <1>1, <1>3, <1>4, <1>5, <1>6
<1> QED
  BY <1>2, <1>3, <1>4, <1>5, <1>6, <1>7

\* What lies above the object at index is a row of objects from its end.
LEMMA AboveTiled ==
  ASSUME HeapInv, pc = "slide", index < end, end' = end,
         index' = index + Size[mem[index].kind],
         \A a \in index'..end - 1 :
           /\ a \in DOMAIN mem <=> a \in DOMAIN mem'
           /\ a \in DOMAIN mem => mem'[a] = mem[a]
  PROVE  Tiled(index, end)'
<1>1. /\ end \in Nat /\ index \in Nat /\ Tiled(index, end)
      /\ DOMAIN mem \subseteq (0..index - gone - 1) \union (index..end - 1)
      /\ gone \in Nat
  BY DEF HeapInv, HeapTiled, Sliding
<1>2. /\ index' \in Nat /\ index < index' /\ index' <= end
      /\ index' \in DOMAIN mem \union {end}
  BY <1>1, ObjectAtIndex
<1>3. DOMAIN mem' \cap (index'..end' - 1) = DOMAIN mem \cap (index'..end - 1)
  OBVIOUS
<1>4. ASSUME NEW a \in DOMAIN mem \cap (index'..end - 1),
             NEW next, next = a + Size[mem[a].kind]
      PROVE  /\ next \in (DOMAIN mem \cap (index'..end - 1)) \union {end}
             /\ (DOMAIN mem \cap (index'..end - 1)) \cap (a + 1..next - 1) = {}
  <2>1. a \in Nat /\ Size[mem[a].kind] \in Nat \ {0}
    BY <1>1, <1>2, SizeAssumption DEF HeapInv, IsObject
  <2>2. /\ next \in (DOMAIN mem \cap (index..end - 1)) \union {end}
        /\ (DOMAIN mem \cap (index..end - 1)) \cap (a + 1..next - 1) = {}
    BY <1>1, <1>2, <1>4, <2>1 DEF Tiled
  <2> QED
    BY <1>1, <1>2, <1>4, <2>1, <2>2
<1>5. index' = end \/ index' \in DOMAIN mem \cap (index'..end - 1)
  BY <1>1, <1>2
<1> QED
  BY <1>3, <1>4, <1>5 DEF Tiled

\* An object that is dropped widens the gap.
LEMMA Dropped ==
  ASSUME HeapInv, pc = "slide", pc' = "slide", index < end, end' = end,
         index' = index + Size[mem[index].kind],
         gone' = gone + Size[mem[index].kind],
         mem' = [a \in DOMAIN mem \ {index} |-> mem[a]]
  PROVE  HeapInv'
<1>1. /\ end \in Nat /\ index \in Nat /\ gone \in Nat /\ gone <= index /\ index <= end
      /\ end <= Capacity
      /\ Tiled(0, index - gone)
      /\ DOMAIN mem \subseteq (0..index - gone - 1) \union (index..end - 1)
  BY DEF HeapInv, HeapTiled, Sliding
<1>2. /\ Size[mem[index].kind] \in Nat \ {0} /\ index' <= end
      /\ DOMAIN mem \cap (index + 1..index' - 1) = {}
  BY <1>1, ObjectAtIndex
<1>3. index' \in Nat /\ gone' \in Nat /\ index' - gone' = index - gone
  BY <1>1, <1>2
<1>4. Tiled(index, end)'
  BY <1>1, <1>2, AboveTiled
<1>5. Tiled(0, index - gone)'
  <2>1. DOMAIN mem' \cap (0..index' - gone' - 1) = DOMAIN mem \cap (0..index - gone - 1)
    BY <1>1, <1>3
  <2>2. \A a \in DOMAIN mem \cap (0..index - gone - 1) : mem'[a] = mem[a]
    BY <1>1
  <2> QED
    BY <1>1, <1>3, <2>1, <2>2 DEF Tiled
<1>6. DOMAIN mem' \subseteq (0..index' - gone' - 1) \union (index'..end' - 1)
  BY <1>1, <1>2, <1>3
<1>7. \A a \in DOMAIN mem' : IsObject(mem'[a])
  BY DEF HeapInv
<1> QED
  BY <1>1, <1>2, <1>3, <1>4, <1>5, <1>6, <1>7 DEF HeapInv, HeapTiled, Sliding

\* An object that is kept is put below the gap.
LEMMA Moved ==
  ASSUME HeapInv, pc = "slide", pc' = "slide", index < end, end' = end, gone' = gone,
         index' = index + Size[mem[index].kind],
         DOMAIN mem' = (DOMAIN mem \ {index}) \union {index - gone},
         \A a \in DOMAIN mem \ {index, index - gone} : mem'[a] = mem[a],
         IsObject(mem'[index - gone]), mem'[index - gone].kind = mem[index].kind
  PROVE  HeapInv'
<1> DEFINE to == index - gone
           size == Size[mem[index].kind]
<1>1. /\ end \in Nat /\ index \in Nat /\ gone \in Nat /\ gone <= index /\ index <= end
      /\ end <= Capacity
      /\ Tiled(0, to)
      /\ DOMAIN mem \subseteq (0..to - 1) \union (index..end - 1)
  BY DEF HeapInv, HeapTiled, Sliding
<1>2. /\ size \in Nat \ {0} /\ index' <= end
      /\ DOMAIN mem \cap (index + 1..index' - 1) = {}
  BY <1>1, ObjectAtIndex
<1>3. index' \in Nat /\ to \in Nat /\ to <= index /\ index' - gone' = to + size
  BY <1>1, <1>2
<1>4. Tiled(index, end)'
  <2>1. \A a \in index'..end - 1 : a # index /\ a # to
    BY <1>1, <1>2, <1>3
  <2> QED
    BY <1>1, <1>2, <2>1, AboveTiled
<1>5. Tiled(0, index - gone)'
  <2>1. DOMAIN mem' \cap (0..to + size - 1) = (DOMAIN mem \cap (0..to - 1)) \union {to}
    BY <1>1, <1>2, <1>3
  <2>2. \A a \in DOMAIN mem \cap (0..to - 1) : mem'[a] = mem[a]
    BY <1>1, <1>3
  <2>3. 0 \in (DOMAIN mem \cap (0..to - 1)) \union {to}
    BY <1>1, <1>3 DEF Tiled
  <2>4. ASSUME NEW a \in DOMAIN mem \cap (0..to - 1),
               NEW next, next = a + Size[mem'[a].kind]
        PROVE  /\ next \in (DOMAIN mem \cap (0..to - 1)) \union {to}
               /\ ((DOMAIN mem \cap (0..to - 1)) \union {to}) \cap (a + 1..next - 1) = {}
    <3>1. /\ next \in (DOMAIN mem \cap (0..to - 1)) \union {to}
          /\ (DOMAIN mem \cap (0..to - 1)) \cap (a + 1..next - 1) = {}
      BY <1>1, <2>2, <2>4 DEF Tiled
    <3> QED
      BY <1>1, <1>3, <3>1
  <2>5. ((DOMAIN mem \cap (0..to - 1)) \union {to}) \cap (to + 1..to + size - 1) = {}
    BY <1>1, <1>2, <1>3
  <2> HIDE DEF to, size
  <2>6. mem'[to].kind = mem[index].kind
    BY DEF to
  <2> QED
    BY <1>2, <1>3, <2>1, <2>3, <2>4, <2>5, <2>6 DEF Tiled, size
<1>6. DOMAIN mem' \subseteq (0..index' - gone' - 1) \union (index'..end' - 1)
  BY <1>1, <1>2, <1>3
<1>7. \A a \in DOMAIN mem' : IsObject(mem'[a])
  BY DEF HeapInv
<1> QED
  BY <1>1, <1>2, <1>3, <1>4, <1>5, <1>6, <1>7 DEF HeapInv, HeapTiled, Sliding

----------------------------------------------------------------------------------------
(* Objects in memory. *)

\* An object keeps its kind when it is marked or unmarked, or refers to
\* other values.
LEMMA FieldsChange ==
  ASSUME NEW o, IsObject(o), NEW v
  PROVE  /\ IsObject([o EXCEPT !.marked = v]) /\ [o EXCEPT !.marked = v].kind = o.kind
         /\ IsObject([o EXCEPT !.refs = v]) /\ [o EXCEPT !.refs = v].kind = o.kind
<1>1. o = [kind |-> o.kind, id |-> o.id, marked |-> o.marked, refs |-> o.refs, env |-> o.env]
  BY DEF IsObject
<1>2. /\ [o EXCEPT !.marked = v] = [kind |-> o.kind, id |-> o.id, marked |-> v,
                                    refs |-> o.refs, env |-> o.env]
      /\ [o EXCEPT !.refs = v] = [kind |-> o.kind, id |-> o.id, marked |-> o.marked,
                                  refs |-> v, env |-> o.env]
  BY <1>1
<1> QED
  BY <1>2 DEF IsObject

\* An object that has become another by such a change.
Changed(o, p) ==
  p = o \/ \E v : p = [o EXCEPT !.marked = v] \/ p = [o EXCEPT !.refs = v]

\* Objects that only change so stay where they are.
LEMMA ObjectsChange ==
  ASSUME NEW o, IsObject(o), NEW p, Changed(o, p)
  PROVE  IsObject(p) /\ p.kind = o.kind
<1>1. CASE p = o
  BY <1>1
<1>2. ASSUME NEW v, p = [o EXCEPT !.marked = v]
      PROVE  IsObject(p) /\ p.kind = o.kind
  BY <1>2, FieldsChange
<1>3. ASSUME NEW v, p = [o EXCEPT !.refs = v]
      PROVE  IsObject(p) /\ p.kind = o.kind
  BY <1>3, FieldsChange
<1> QED
  BY <1>1, <1>2, <1>3 DEF Changed

\* A construction adds an object, and may have set the end of a list.
LEMMA ConstructInv ==
  ASSUME HeapInv, pc # "slide", NEW q, q.op \in DOMAIN KindOf, Fits(q), Construct(q)
  PROVE  HeapInv'
<1>1. CASE \E f : Stop(f)
  BY <1>1, ContentsChange DEF Stop, heap, SameShape, HeapInv
<1>2. CASE ~\E f : Stop(f)
  <2> DEFINE kind == KindOf[q.op]
             new == [kind |-> kind, id |-> New.id, marked |-> FALSE,
                     refs |-> Given(q), env |-> ConstructedEnv(q)]
             before == IF IsPushBack(q) THEN [mem EXCEPT ![q.raw.at].refs[2] = New] ELSE mem
  <2>1. mem' = Put(before, end, new) /\ end' = end + Size[kind] /\ pc' \in {"run", "build"}
    BY <1>2, Zenon DEF Construct
  <2>2. kind \in Kinds
    BY DEF KindOf, Kinds
  <2>3. DOMAIN before = DOMAIN mem
    OBVIOUS
  <2>4. \A a \in DOMAIN mem : IsObject(before[a]) /\ before[a].kind = mem[a].kind
    <3>1. \A a \in DOMAIN mem : IsObject(mem[a])
      BY DEF HeapInv
    <3>2. \A a \in DOMAIN mem : Changed(mem[a], before[a])
      <4>1. CASE IsPushBack(q)
        <5> SUFFICES ASSUME NEW a \in DOMAIN mem, a = q.raw.at
                     PROVE  before[a] = [mem[a] EXCEPT !.refs = [mem[a].refs EXCEPT ![2] = New]]
          BY <4>1 DEF Changed
        <5> QED
          BY <4>1
      <4>2. CASE ~IsPushBack(q)
        BY <4>2 DEF Changed
      <4> QED
        BY <4>1, <4>2
    <3> HIDE DEF before
    <3> QED
      BY <3>1, <3>2, ObjectsChange
  <2> HIDE DEF before
  <2>5. end \notin DOMAIN mem
    BY DEF HeapInv, HeapTiled
  <2>6. IsObject(new) /\ new.kind = kind
    BY <2>2 DEF IsObject
  <2> HIDE DEF new, kind
  <2>7. /\ DOMAIN mem' = DOMAIN mem \union {end}
        /\ mem'[end] = new
        /\ \A a \in DOMAIN mem : mem'[a] = before[a]
    BY <2>1, <2>3, <2>5 DEF Put
  <2>8. end + Size[kind] <= Capacity
    BY DEF Fits, kind
  <2> QED
    BY <2>1, <2>2, <2>4, <2>6, <2>7, <2>8, ObjectAdded DEF SameShape
<1> QED
  BY <1>1, <1>2

\* So does the whole of create, which may collect instead.
LEMMA CreateInv ==
  ASSUME HeapInv, pc # "slide", NEW q, q.op \in DOMAIN KindOf, Create(q)
  PROVE  HeapInv'
<1>1. CASE Fits(q)
  BY <1>1, ConstructInv DEF Create
<1>2. CASE ~Fits(q)
  BY <1>2, ContentsChange DEF Create, Collect, Stop, heap, SameShape, HeapInv
<1> QED
  BY <1>1, <1>2

----------------------------------------------------------------------------------------
(* Steps. *)

\* compact goes past an object.
LEMMA SlideInv ==
  ASSUME HeapInv, Slide
  PROVE  HeapInv'
<1> DEFINE o == mem[index]
           rest == [a \in DOMAIN mem \ {index} |-> mem[a]]
<1>1. /\ pc = "slide" /\ pc' = "slide" /\ index < end /\ end' = end
      /\ index' = index + Size[o.kind]
  BY DEF Slide
<1>2. CASE Kept(o)
  <2>1. mem' = Put(rest, index - gone, Settled(o)) /\ gone' = gone
    BY <1>2 DEF Slide
  <2>2. IsObject(Settled(o)) /\ Settled(o).kind = o.kind
    BY <1>1, ObjectAtIndex, FieldsChange DEF Settled
  <2>3. /\ DOMAIN mem' = (DOMAIN mem \ {index}) \union {index - gone}
        /\ mem'[index - gone] = Settled(o)
        /\ \A a \in DOMAIN mem \ {index, index - gone} : mem'[a] = mem[a]
    BY <2>1 DEF Put
  <2> QED
    BY <1>1, <2>1, <2>2, <2>3, Moved
<1>3. CASE ~Kept(o)
  <2>1. mem' = rest /\ gone' = gone + Size[o.kind]
    BY <1>3 DEF Slide
  <2> QED
    BY <1>1, <2>1, Dropped
<1> QED
  BY <1>2, <1>3

\* heap.compacted: the last gap is cut off.
LEMMA SlidInv ==
  ASSUME HeapInv, Slid
  PROVE  HeapInv'
<1>1. /\ pc = "slide" /\ pc' = "internal" /\ index >= end
      /\ mem' = mem /\ end' = end - gone
  BY DEF Slid
<1>2. /\ end \in Nat /\ end <= Capacity /\ gone \in Nat /\ gone <= index /\ index = end
      /\ Tiled(0, end - gone) /\ DOMAIN mem \subseteq 0..end - gone - 1
  BY <1>1 DEF HeapInv, HeapTiled, Sliding
<1>3. Tiled(0, end)'
  BY <1>1, <1>2 DEF Tiled
<1> QED
  BY <1>1, <1>2, <1>3, SizeAssumption DEF HeapInv, HeapTiled, Sliding

\* The steps of the collector keep the heap tiled.
LEMMA CollectingInv ==
  ASSUME HeapInv, Collecting
  PROVE  HeapInv'
<1>1. CASE MarkValue
  <2>1. pc = "mark" /\ pc' = "mark" /\ end' = end
    BY <1>1 DEF MarkValue
  <2>2. mem' = mem \/ mem' = [mem EXCEPT ![Head(grey).at].marked = TRUE]
    BY <1>1 DEF MarkValue
  <2>3. DOMAIN mem' = DOMAIN mem
    BY <2>2
  <2>4. \A a \in DOMAIN mem : Changed(mem[a], mem'[a])
    <3>1. \A a \in DOMAIN mem :
            mem'[a] = mem[a] \/ mem'[a] = [mem[a] EXCEPT !.marked = TRUE]
      BY <2>2
    <3> QED
      BY <3>1 DEF Changed
  <2>5. SameShape
    BY <2>4, ObjectsChange DEF HeapInv, SameShape
  <2> QED
    BY <2>1, <2>3, <2>5, ContentsChange
<1>2. CASE RemapInternal
  <2>1. pc = "internal" /\ pc' = "internal" /\ end' = end
    BY <1>2 DEF RemapInternal
  <2>2. mem' = [mem EXCEPT ![index].refs = RemappedAll(@)]
    BY <1>2 DEF RemapInternal
  <2>3. \A a \in DOMAIN mem : Changed(mem[a], mem'[a])
    <3>1. \A a \in DOMAIN mem :
            mem'[a] = mem[a] \/ mem'[a] = [mem[a] EXCEPT !.refs = RemappedAll(mem[a].refs)]
      BY <2>2
    <3> QED
      BY <3>1 DEF Changed
  <2>4. DOMAIN mem' = DOMAIN mem
    BY <2>2
  <2>5. SameShape
    BY <2>3, ObjectsChange DEF HeapInv, SameShape
  <2> QED
    BY <2>1, <2>4, <2>5, ContentsChange
<1>3. CASE RemapRoots
  BY <1>3, ContentsChange DEF RemapRoots, heap, HeapInv, SameShape
<1>4. CASE LoseCharacter
  BY <1>4, ContentsChange DEF LoseCharacter, Stop, heap, HeapInv, SameShape
<1> QED
  BY <1>1, <1>2, <1>3, <1>4, MarkedInv, SlideInv, SlidInv DEF Collecting

\* Steps of the program that create nothing.
LEMMA OperationInv ==
  ASSUME HeapInv,
         \/ PushConstant \/ Load \/ Store \/ Rebind \/ Recur \/ Discard \/ Take \/ Get
         \/ EnterLet \/ Call \/ Leave \/ Collected
         \/ FnLost \/ Called \/ Quote \/ QuoteWithin \/ Quoted
  PROVE  HeapInv'
<1>1. mem' = mem /\ end' = end /\ pc # "slide" /\ pc' # "slide"
  BY DEF PushConstant, Load, Store, Rebind, Recur, Discard, Take, Get, EnterLet, Call,
         Leave, Collected, FnLost, Called, Quote, QuoteWithin, Quoted, OnStack, Stop,
         Running, heap
<1> QED
  BY <1>1, ContentsChange DEF HeapInv, SameShape

\* Steps of the program that create an object, or collect.
LEMMA CreationInv ==
  ASSUME HeapInv,
         \/ Literal \/ MakePair \/ MakeBox \/ MakeString \/ MakeLambda \/ CreateAgain
         \/ CollectGarbage \/ VariadicCall \/ Element \/ Push
  PROVE  HeapInv'
<1>1. CASE \E q : q.op \in DOMAIN KindOf /\ Create(q) /\ pc # "slide"
  BY <1>1, CreateInv
<1>2. CASE CreateAgain
  <2>1. CASE Fits(native)
    BY <1>2, <2>1, ConstructInv DEF CreateAgain
  <2>2. CASE ~Fits(native)
    BY <1>2, <2>2, ContentsChange DEF CreateAgain, heap, HeapInv, SameShape
  <2> QED
    BY <2>1, <2>2
<1>3. CASE CollectGarbage \/ VariadicCall
  <2>1. mem' = mem /\ end' = end /\ pc # "slide" /\ pc' # "slide"
    BY <1>3 DEF CollectGarbage, VariadicCall, Collect, Stop, Running, heap
  <2> QED
    BY <2>1, ContentsChange DEF HeapInv, SameShape
<1>4. CASE Literal \/ MakePair \/ MakeBox \/ MakeString \/ MakeLambda
  <2>1. \E q : q.op \in DOMAIN KindOf /\ Create(q) /\ pc # "slide"
    BY <1>4 DEF Literal, MakePair, MakeBox, MakeString, MakeLambda, Running, Idle, KindOf
  <2> QED
    BY <2>1, <1>1
<1>5. CASE Element \/ Push
  <2>1. \E q : q.op \in DOMAIN KindOf /\ Create(q) /\ pc # "slide"
    BY <1>5 DEF Element, Push, Waiting, KindOf
  <2> QED
    BY <2>1, <1>1
<1> QED
  BY <1>2, <1>3, <1>4, <1>5

\* So does set-box!, which changes a field.
LEMMA SetBoxInv ==
  ASSUME HeapInv, SetBox
  PROVE  HeapInv'
<1> DEFINE box == operandStack[Len(operandStack) - 1]
<1>1. pc = "run" /\ pc' = pc /\ end' = end /\ mem' = [mem EXCEPT ![box.at].refs = <<Top>>]
  BY DEF SetBox, Running
<1>2. \A a \in DOMAIN mem : Changed(mem[a], mem'[a])
  <2>1. \A a \in DOMAIN mem :
          mem'[a] = mem[a] \/ mem'[a] = [mem[a] EXCEPT !.refs = <<Top>>]
    BY <1>1
  <2> QED
    BY <2>1 DEF Changed
<1>3. DOMAIN mem' = DOMAIN mem
  BY <1>1
<1>4. SameShape
  BY <1>2, ObjectsChange DEF HeapInv, SameShape
<1> QED
  BY <1>1, <1>3, <1>4, ContentsChange

----------------------------------------------------------------------------------------
(* The theorem. *)

\* In the initial states the heap is the null value.
LEMMA InitInv == Init => HeapInv
<1> SUFFICES ASSUME Init PROVE HeapInv
  OBVIOUS
<1>1. /\ DOMAIN mem = {0} /\ end = Size["null"] /\ pc = "run"
      /\ mem[0] = [kind |-> "null", id |-> 1, marked |-> FALSE, refs |-> <<>>, env |-> 0]
  BY DEF Init
<1>2. "null" \in Kinds /\ end \in Nat \ {0} /\ end <= Capacity
  BY <1>1, SizeAssumption DEF Kinds
<1>3. IsObject(mem[0]) /\ mem[0].kind = "null"
  BY <1>1, <1>2 DEF IsObject
<1>4. Tiled(0, end)
  <2>1. DOMAIN mem \cap (0..end - 1) = {0}
    BY <1>1, <1>2
  <2>2. 0 + Size[mem[0].kind] = end /\ {0} \cap (0 + 1..end - 1) = {}
    BY <1>1, <1>2, <1>3
  <2> QED
    BY <2>1, <2>2 DEF Tiled
<1>5. DOMAIN mem \subseteq 0..end - 1
  <2>1. 0 \in 0..end - 1
    BY <1>2
  <2> QED
    BY <1>1, <2>1
<1>6. \A a \in DOMAIN mem : IsObject(mem[a])
  BY <1>1, <1>3
<1> QED
  BY <1>1, <1>2, <1>4, <1>5, <1>6 DEF HeapInv, HeapTiled, Sliding

\* Every step keeps the heap tiled.
LEMMA StepInv == HeapInv /\ [Next]_vars => HeapInv'
<1> SUFFICES ASSUME HeapInv, [Next]_vars PROVE HeapInv'
  OBVIOUS
<1>1. CASE UNCHANGED vars
  BY <1>1 DEF vars, HeapInv, Sliding, HeapTiled, Tiled
<1>2. CASE Collecting
  BY <1>2, CollectingInv
<1>3. CASE Computing
  BY <1>3, OperationInv, CreationInv, SetBoxInv DEF Computing
<1> QED
  BY <1>1, <1>2, <1>3 DEF Next

\* From its first byte to its last the heap is objects, one after the other and
\* within its capacity, in every state of every collection.
\* Code: alloc, the walks of compact, memmove to lower addresses, compacted.
THEOREM HeapIsTiled == Spec => []HeapTiled
<1>1. HeapInv => HeapTiled
  BY DEF HeapInv
<1> QED
  BY InitInv, StepInv, <1>1, PTL DEF Spec

----------------------------------------------------------------------------------------
(* The break list. *)

Term(b, x) == IF b.at < x THEN b.size ELSE 0

\* The function that Shift is defined by exists.
LEMMA ShiftExists ==
  ASSUME NEW list, Len(list) \in Nat, NEW x
  PROVE  \E f : f = [k \in 0..Len(list) |->
                       IF k = 0 THEN 0
                       ELSE f[k - 1] + (IF list[k].at < x THEN list[k].size ELSE 0)]
<1> DEFINE Step(k, y) == IF k = 0 THEN 0
                         ELSE y + (IF list[k].at < x THEN list[k].size ELSE 0)
           T == {m \in Nat : \E f : f = [k \in 0..m |-> Step(k, f[k - 1])]}
<1>1. \A y, z : Step(0, y) = Step(0, z)
  OBVIOUS
<1> HIDE DEF Step
<1>2. 0 \in T
  <2> DEFINE e == [k \in 0..0 |-> Step(0, 0)]
  <2>1. e = [k \in 0..0 |-> Step(k, e[k - 1])]
    <3>1. \A k \in 0..0 : k = 0
      OBVIOUS
    <3>2. \A k \in 0..0 : Step(0, 0) = Step(k, e[k - 1])
      BY <1>1, <3>1
    <3> QED
      BY <3>2
  <2>2. \E h : h = [k \in 0..0 |-> Step(k, h[k - 1])]
    BY <2>1
  <2> QED
    BY <2>2
<1>3. ASSUME NEW m \in Nat, m \in T PROVE m + 1 \in T
  <2>1. PICK f : f = [k \in 0..m |-> Step(k, f[k - 1])]
    BY <1>3
  <2> DEFINE g == [k \in 0..m + 1 |-> Step(k, f[k - 1])]
  <2>2. \A k \in 0..m : f[k] = Step(k, f[k - 1])
    BY <2>1
  <2>3. \A k \in 0..m : g[k] = f[k]
    BY <2>2
  <2>4. \A k \in 0..m + 1 : Step(k, g[k - 1]) = Step(k, f[k - 1])
    <3> SUFFICES ASSUME NEW k \in 0..m + 1, k # 0
                 PROVE  Step(k, g[k - 1]) = Step(k, f[k - 1])
      BY <1>1
    <3>1. k - 1 \in 0..m
      OBVIOUS
    <3> QED
      BY <2>3, <3>1
  <2>5. g = [k \in 0..m + 1 |-> Step(k, g[k - 1])]
    BY <2>4
  <2>6. \E h : h = [k \in 0..m + 1 |-> Step(k, h[k - 1])]
    BY <2>5
  <2> QED
    BY <2>6
<1> HIDE DEF T
<1>4. Len(list) \in T
  BY <1>2, <1>3, Induction
<1> QED
  BY <1>4 DEF T, Step

\* The sums that Shift comes to.
IsSums(f, list, x) ==
  /\ f[0] = 0
  /\ \A k \in 1..Len(list) : f[k] = f[k - 1] + Term(list[k], x)

\* Shift is the last of its sums.
LEMMA ShiftSums ==
  ASSUME NEW list, Len(list) \in Nat, NEW x
  PROVE  \E f : IsSums(f, list, x) /\ Shift(list, x) = f[Len(list)]
<1>1. \E f : /\ f = [k \in 0..Len(list) |->
                       IF k = 0 THEN 0
                       ELSE f[k - 1] + (IF list[k].at < x THEN list[k].size ELSE 0)]
             /\ Shift(list, x) = f[Len(list)]
  <2>1. \E f : f = [k \in 0..Len(list) |->
                       IF k = 0 THEN 0
                       ELSE f[k - 1] + (IF list[k].at < x THEN list[k].size ELSE 0)]
    BY ShiftExists, Zenon
  <2> QED
    BY <2>1, Zenon DEF Shift
<1>2. PICK f : /\ f = [k \in 0..Len(list) |->
                       IF k = 0 THEN 0
                       ELSE f[k - 1] + (IF list[k].at < x THEN list[k].size ELSE 0)]
               /\ Shift(list, x) = f[Len(list)]
  BY <1>1
<1>3. \A k \in 0..Len(list) : f[k] = IF k = 0 THEN 0 ELSE f[k - 1] + Term(list[k], x)
  BY <1>2 DEF Term
<1>4. f[0] = 0
  BY <1>3
<1>5. \A k \in 1..Len(list) : k \in 0..Len(list) /\ k # 0
  OBVIOUS
<1>6. \A k \in 1..Len(list) : f[k] = f[k - 1] + Term(list[k], x)
  BY <1>3, <1>5
<1> QED
  BY <1>2, <1>4, <1>6 DEF IsSums

\* Sums of natural numbers are natural numbers.
LEMMA SumsType ==
  ASSUME NEW list, Len(list) \in Nat, NEW x, NEW f, IsSums(f, list, x),
         \A k \in 1..Len(list) : Term(list[k], x) \in Nat
  PROVE  \A k \in 0..Len(list) : f[k] \in Nat
<1> DEFINE T == {k \in Nat : k <= Len(list) => f[k] \in Nat}
<1>1. 0 \in T
  BY DEF IsSums
<1>2. ASSUME NEW k \in Nat, k \in T PROVE k + 1 \in T
  <2>1. CASE k + 1 <= Len(list)
    <3>1. k + 1 \in 1..Len(list) /\ (k + 1) - 1 = k /\ f[k] \in Nat
      BY <1>2, <2>1
    <3>2. f[k + 1] = f[k] + Term(list[k + 1], x) /\ Term(list[k + 1], x) \in Nat
      BY <3>1 DEF IsSums
    <3> QED
      BY <3>1, <3>2
  <2>2. CASE ~(k + 1 <= Len(list))
    BY <2>2
  <2> QED
    BY <2>1, <2>2
<1>3. Nat \subseteq T
  <2> HIDE DEF T
  <2> QED
    BY <1>1, <1>2, Induction
<1> QED
  BY <1>3

\* Equal terms have equal sums.
LEMMA SumsEqual ==
  ASSUME NEW list, Len(list) \in Nat, NEW x, NEW f, IsSums(f, list, x),
         NEW other, Len(other) \in Nat, NEW y, NEW g, IsSums(g, other, y),
         NEW n \in Nat, n <= Len(list), n <= Len(other),
         \A k \in 1..n : Term(list[k], x) = Term(other[k], y)
  PROVE  f[n] = g[n]
<1> DEFINE T == {k \in Nat : k <= n => f[k] = g[k]}
<1>1. 0 \in T
  BY DEF IsSums
<1>2. ASSUME NEW k \in Nat, k \in T PROVE k + 1 \in T
  <2>1. CASE k + 1 <= n
    <3>1. /\ k + 1 \in 1..Len(list) /\ k + 1 \in 1..Len(other) /\ k + 1 \in 1..n
          /\ (k + 1) - 1 = k /\ f[k] = g[k]
      BY <1>2, <2>1
    <3>2. f[k + 1] = f[k] + Term(list[k + 1], x) /\ g[k + 1] = g[k] + Term(other[k + 1], y)
      BY <3>1 DEF IsSums
    <3>3. f[k + 1] = g[k + 1]
      BY <3>1, <3>2
    <3> QED
      BY <3>3
  <2>2. CASE ~(k + 1 <= n)
    BY <2>2
  <2> QED
    BY <2>1, <2>2
<1>3. Nat \subseteq T
  <2> HIDE DEF T
  <2> QED
    BY <1>1, <1>2, Induction
<1> QED
  BY <1>3

\* The break lists.
Breaks == Seq([at : Addresses, size : Nat])

\* The types of a break list.
LEMMA BreakType ==
  ASSUME NEW list \in Breaks, NEW x \in Int
  PROVE  /\ Len(list) \in Nat /\ DOMAIN list = 1..Len(list)
         /\ \A k \in 1..Len(list) : /\ list[k].at \in Addresses /\ list[k].at \in Nat
                                    /\ list[k].size \in Nat
                                    /\ Term(list[k], x) \in Nat
<1>1. list \in Seq([at : Addresses, size : Nat])
  BY DEF Breaks
<1>2. /\ Len(list) \in Nat /\ DOMAIN list = 1..Len(list)
      /\ \A k \in 1..Len(list) : list[k] \in [at : Addresses, size : Nat]
  BY <1>1, ElementsOf
<1>3. \A k \in 1..Len(list) : list[k].at \in Addresses /\ list[k].size \in Nat
  BY <1>2
<1>4. Addresses \subseteq Nat
  BY SizeAssumption DEF Addresses
<1>5. \A k \in 1..Len(list) : Term(list[k], x) \in Nat
  BY <1>3 DEF Term
<1> QED
  BY <1>2, <1>3, <1>4, <1>5

\* A shift is a number.
LEMMA ShiftType ==
  ASSUME NEW list \in Breaks, NEW x \in Int
  PROVE  Shift(list, x) \in Nat
<1>1. /\ Len(list) \in Nat
      /\ \A k \in 1..Len(list) : Term(list[k], x) \in Nat
  BY BreakType
<1>2. PICK f : IsSums(f, list, x) /\ Shift(list, x) = f[Len(list)]
  BY <1>1, ShiftSums
<1>3. f[Len(list)] \in Nat
  BY <1>1, <1>2, SumsType
<1> QED
  BY <1>2, <1>3

\* Nothing moves where there is no break below.
LEMMA ShiftNone ==
  ASSUME NEW list \in Breaks, NEW x \in Int, \A k \in 1..Len(list) : ~(list[k].at < x)
  PROVE  Shift(list, x) = 0
<1>1. Len(list) \in Nat
  BY BreakType
<1>2. PICK f : IsSums(f, list, x) /\ Shift(list, x) = f[Len(list)]
  BY <1>1, ShiftSums
<1> DEFINE zero == [k \in 0..Len(list) |-> 0]
<1>3. \A k \in 1..Len(list) : Term(list[k], x) = 0
  BY DEF Term
<1>4. IsSums(zero, list, x)
  <2>1. \A k \in 1..Len(list) : zero[k] = 0 /\ zero[k - 1] = 0
    BY <1>1
  <2>2. zero[0] = 0
    BY <1>1
  <2> HIDE DEF zero
  <2> QED
    BY <1>3, <2>1, <2>2 DEF IsSums
<1>5. zero[Len(list)] = 0
  BY <1>1
<1> HIDE DEF zero
<1>6. f[Len(list)] = zero[Len(list)]
  BY <1>1, <1>2, <1>4, SumsEqual
<1> QED
  BY <1>2, <1>5, <1>6

\* A break more at the end.
LEMMA ShiftAppend ==
  ASSUME NEW list \in Breaks, NEW b \in [at : Addresses, size : Nat], NEW x \in Int
  PROVE  /\ Append(list, b) \in Breaks
         /\ Shift(Append(list, b), x) = Shift(list, x) + Term(b, x)
<1> DEFINE other == Append(list, b)
           n == Len(list)
<1>1. n \in Nat
  BY BreakType
<1>2. /\ other \in Breaks /\ Len(other) = n + 1 /\ other[n + 1] = b
      /\ \A k \in 1..n : other[k] = list[k]
  BY DEF Breaks
<1> HIDE DEF other, n
<1>3. PICK f : IsSums(f, list, x) /\ Shift(list, x) = f[n]
  BY <1>1, ShiftSums DEF n
<1>4. Len(other) \in Nat
  BY <1>1, <1>2
<1>5. PICK g : IsSums(g, other, x) /\ Shift(other, x) = g[n + 1]
  BY <1>2, <1>4, ShiftSums
<1>6. \A k \in 1..n : Term(other[k], x) = Term(list[k], x)
  BY <1>2
<1>7. Len(list) = n /\ n <= Len(list) /\ n <= Len(other)
  BY <1>1, <1>2 DEF n
<1>8. g[n] = f[n]
  BY <1>1, <1>3, <1>4, <1>5, <1>6, <1>7, SumsEqual
<1>9. n + 1 \in 1..Len(other) /\ (n + 1) - 1 = n
  BY <1>1, <1>2
<1>10. g[n + 1] = g[n] + Term(other[n + 1], x)
  BY <1>5, <1>9 DEF IsSums
<1> QED
  BY <1>2, <1>3, <1>5, <1>8, <1>10 DEF other

\* The last break grows.
LEMMA ShiftGrow ==
  ASSUME NEW list \in Breaks, list # <<>>, NEW size \in Nat, NEW x \in Int
  PROVE  LET other == [list EXCEPT ![Len(list)].size = @ + size] IN
         /\ other \in Breaks /\ Len(other) = Len(list)
         /\ \A k \in 1..Len(list) : other[k].at = list[k].at
         /\ Shift(other, x) = Shift(list, x) + (IF list[Len(list)].at < x THEN size ELSE 0)
<1> DEFINE n == Len(list)
           b == [at |-> list[n].at, size |-> list[n].size + size]
           other == [list EXCEPT ![Len(list)].size = @ + size]
<1>1. n \in Nat \ {0} /\ list \in Seq([at : Addresses, size : Nat])
  BY EmptySeq DEF Breaks
<1>2. n \in 1..n /\ list[n] \in [at : Addresses, size : Nat]
  BY <1>1, ElementsOf
<1>3. b \in [at : Addresses, size : Nat] /\ b = [list[n] EXCEPT !.size = @ + size]
  BY <1>2
<1>4. other = [list EXCEPT ![n] = b]
  <2>1. other = [list EXCEPT ![n] = [list[n] EXCEPT !.size = @ + size]]
    OBVIOUS
  <2> HIDE DEF b, other, n
  <2> QED
    BY <1>3, <2>1
<1>5. b.at = list[n].at /\ b.size = list[n].size + size
  OBVIOUS
<1> HIDE DEF b, other
<1>6. /\ other \in Seq([at : Addresses, size : Nat]) /\ Len(other) = n
      /\ other[n] = b
      /\ \A k \in 1..n : k # n => other[k] = list[k]
  BY <1>1, <1>2, <1>3, <1>4
<1>7. other \in Breaks
  BY <1>6 DEF Breaks
<1> HIDE DEF n
<1>8. \A k \in 1..n : other[k].at = list[k].at
  BY <1>5, <1>6
<1>9. PICK f : IsSums(f, list, x) /\ Shift(list, x) = f[n]
  BY <1>1, ShiftSums DEF n
<1>10. PICK g : IsSums(g, other, x) /\ Shift(other, x) = g[n]
  BY <1>1, <1>6, ShiftSums
<1>11. /\ n - 1 \in Nat /\ n - 1 <= Len(list) /\ n - 1 <= Len(other)
       /\ Len(list) \in Nat /\ Len(other) \in Nat
       /\ n \in 1..Len(list) /\ n \in 1..Len(other)
  BY <1>1, <1>6 DEF n
<1>12. \A k \in 1..n - 1 : Term(other[k], x) = Term(list[k], x)
  <2>1. \A k \in 1..n - 1 : k \in 1..n /\ k # n
    BY <1>1
  <2> QED
    BY <1>6, <2>1
<1>13. g[n - 1] = f[n - 1]
  BY <1>9, <1>10, <1>11, <1>12, SumsEqual
<1>14. g[n] = g[n - 1] + Term(b, x) /\ f[n] = f[n - 1] + Term(list[n], x)
  BY <1>6, <1>9, <1>10, <1>11 DEF IsSums
<1>15. \A k \in 0..Len(list) : f[k] \in Nat
  <2>1. \A k \in 1..Len(list) : Term(list[k], x) \in Nat
    BY BreakType
  <2> QED
    BY <1>9, <1>11, <2>1, SumsType
<1>16. f[n - 1] \in Nat
  <2>1. n - 1 \in 0..Len(list)
    BY <1>11
  <2> QED
    BY <1>15, <2>1
<1>17. list[n].size \in Nat
  BY <1>2
<1>18. Term(b, x) = Term(list[n], x) + (IF list[n].at < x THEN size ELSE 0)
  BY <1>5, <1>17 DEF Term
<1>19. Term(list[n], x) \in Nat
  BY <1>17 DEF Term
<1>20. Shift(other, x) = Shift(list, x) + (IF list[n].at < x THEN size ELSE 0)
  <2>1. (IF list[n].at < x THEN size ELSE 0) \in Nat
    OBVIOUS
  <2> QED
    BY <1>9, <1>10, <1>13, <1>14, <1>16, <1>18, <1>19, <2>1
<1> QED
  BY <1>6, <1>7, <1>8, <1>20 DEF other, n

----------------------------------------------------------------------------------------
(* Types. *)

\* Sequences of references.
RefSeqs == Seq(Refs)

\* The types of what an object is made of.
LEMMA ObjectTypes ==
  ASSUME TypeOK, NEW a \in DOMAIN mem
  PROVE  /\ a \in Addresses /\ a \in Nat /\ a >= 0 /\ a <= Capacity
         /\ mem[a].kind \in Kinds /\ mem[a].id \in Nat /\ mem[a].marked \in BOOLEAN
         /\ mem[a].refs \in RefSeqs /\ mem[a].env \in Environments \union {0}
<1>1. /\ a \in Addresses
      /\ mem[a] \in [kind : Kinds, id : Nat, marked : BOOLEAN, refs : Seq(Refs),
                     env : Environments \union {0}]
  BY DEF TypeOK
<1>2. a \in Nat /\ a >= 0 /\ a <= Capacity
  BY <1>1, SizeAssumption DEF Addresses
<1> QED
  BY <1>1, <1>2 DEF RefSeqs

\* A reference is to a character exactly if its address is not in the heap, and
\* only a program that reads characters has such a one.
LEMMA RefType ==
  ASSUME NEW r \in Refs
  PROVE  /\ r.at \in Int /\ r.id \in Nat
         /\ IsChar(r) => r \in Characters /\ r.at \in Storage /\ r.id # 0 /\ "get" \in Ops
         /\ ~IsChar(r) => r.at \in Addresses /\ r.at \in Nat /\ r.at <= Capacity
         /\ r = [at |-> r.at, id |-> r.id]
<1>1. /\ Capacity \in Nat /\ Storage \subseteq {-1, Capacity + 1}
      /\ \A a \in Addresses : a \in Nat /\ a <= Capacity
  BY SizeAssumption DEF Addresses, Below, Above
<1>2. CASE r \in [at : Addresses, id : Nat]
  BY <1>1, <1>2 DEF IsChar
<1>3. CASE r \in Characters
  <2>1. r \in [at : Storage, id : Nat \ {0}] /\ "get" \in Ops
    BY <1>3 DEF Characters
  <2>2. r.at = -1 \/ r.at = Capacity + 1
    BY <1>1, <2>1
  <2>3. r.at \in Int /\ IsChar(r)
    BY <1>1, <2>2 DEF IsChar
  <2> QED
    BY <1>3, <2>1, <2>3
<1> QED
  BY <1>2, <1>3 DEF Refs

\* A reference that is not to a character can only be valid at an object.
LEMMA ValidObject ==
  ASSUME TypeOK, NEW r
  PROVE  Valid(r) /\ ~IsChar(r) => r.at \in DOMAIN mem /\ mem[r.at].id = r.id /\ r.at \in Nat
  BY ObjectTypes DEF Valid

\* The types of a frame.
LEMMA FrameTypes ==
  ASSUME TypeOK, NEW e \in Environments
  PROVE  /\ frames[e] = [parent |-> frames[e].parent, vars |-> frames[e].vars]
         /\ frames[e].parent \in Environments \union {0} /\ frames[e].vars \in RefSeqs
         /\ e # 0 /\ e \in Nat
  BY SizeAssumption DEF TypeOK, RefSeqs

\* The types of a handle.
LEMMA HandleTypes ==
  ASSUME TypeOK, NEW h \in DOMAIN handles
  PROVE  /\ handles[h] = [val |-> handles[h].val, prev |-> handles[h].prev, next |-> handles[h].next]
         /\ handles[h].val \in Refs /\ handles[h].prev \in Nat /\ handles[h].next \in Nat
         /\ h \in 1..Len(handles) /\ h \in Nat /\ Len(handles) \in Nat
<1>1. handles \in Seq([val : Refs, prev : Nat, next : Nat])
  BY DEF TypeOK
<1>2. h \in 1..Len(handles) /\ Len(handles) \in Nat /\ handles[h] \in [val : Refs, prev : Nat, next : Nat]
  BY <1>1, ElementsOf
<1> QED
  BY <1>2

\* The types of the call stack: the running environment is its last.
LEMMA StackTypes ==
  ASSUME TypeOK
  PROVE  /\ Len(callStack) \in Nat \ {0} /\ DOMAIN callStack = 1..Len(callStack)
         /\ \A i \in DOMAIN callStack : callStack[i] \in Environments
         /\ Len(callStack) \in DOMAIN callStack
         /\ Env = callStack[Len(callStack)] /\ Env \in Environments
<1>1. callStack \in Seq(Environments) /\ callStack # <<>>
  BY DEF TypeOK
<1>2. /\ Len(callStack) \in Nat /\ DOMAIN callStack = 1..Len(callStack)
      /\ Len(callStack) \in 1..Len(callStack)
      /\ \A i \in 1..Len(callStack) : callStack[i] \in Environments
  BY <1>1, ElementsOf
<1>3. Env = callStack[Len(callStack)]
  BY <1>1, LastOf DEF Env
<1> QED
  BY <1>2, <1>3

\* All references at hand have their type.
LEMMA RootTypes ==
  ASSUME TypeOK
  PROVE  /\ RootSet \subseteq Refs /\ NullRef \in Refs
         /\ Variables \subseteq Refs
         /\ \A a \in DOMAIN mem : ChildSet(mem[a]) \subseteq Refs
         /\ \A e \in Environments \union {0} : EnvSet(e) \subseteq Refs /\ EnvSet(e) \subseteq Variables
         /\ StackSet \subseteq Variables
<1>1. NullRef \in Refs
  <2>1. 0 \in Addresses
    BY SizeAssumption DEF Addresses
  <2> QED
    BY <2>1 DEF NullRef, Refs
<1>2. \A e \in Environments : ToSet(frames[e].vars) \subseteq Refs
  BY FrameTypes, ToSetOf DEF RefSeqs
<1>3. \A e \in Environments \union {0} : EnvSet(e) \subseteq Refs /\ EnvSet(e) \subseteq Variables
  BY <1>2 DEF EnvSet, Variables
<1>4. StackSet \subseteq Refs /\ StackSet \subseteq Variables
  BY <1>2, StackTypes DEF StackSet, Variables
<1>5. HandleSet \subseteq Refs
  BY HandleTypes DEF HandleSet
<1>6. ToSet(operandStack) \subseteq Refs /\ ToSet(immediates) \subseteq Refs
  BY ToSetOf DEF TypeOK
<1>7. \A a \in DOMAIN mem : ToSet(mem[a].refs) \subseteq Refs /\ mem[a].env \in Environments \union {0}
  BY ObjectTypes, ToSetOf DEF RefSeqs
<1>8. \A a \in DOMAIN mem : ChildSet(mem[a]) \subseteq Refs
  BY <1>3, <1>7 DEF ChildSet
<1>9. Variables \subseteq Refs
  BY <1>2 DEF Variables
<1> QED
  BY <1>1, <1>3, <1>4, <1>5, <1>6, <1>8, <1>9 DEF RootSet

----------------------------------------------------------------------------------------
(* Environments. *)

\* An environment is in its own lineage.
LEMMA LineageIn ==
  ASSUME NEW e
  PROVE  /\ Lineage(e) \subseteq Environments
         /\ e \in Environments => e \in Lineage(e)
  BY SizeAssumption DEF Lineage

----------------------------------------------------------------------------------------
(* The handles that the collector walks. *)

\* The function Along is defined by exists.
LEMMA AlongExists ==
  ASSUME TypeOK, HandlesInv
  PROVE  \E f : f = [h \in 0..Len(handles) |->
                       IF h = 0 THEN <<>> ELSE <<h>> \o f[handles[h].next]]
<1>1. PICK n \in Nat : n = Len(handles) /\ DOMAIN handles = 1..n
  BY ElementsOf DEF TypeOK
<1> DEFINE From(h) == [i \in 1..n - h + 1 |-> h + i - 1]
           g == [h \in 0..n |-> IF h = 0 THEN <<>> ELSE From(h)]
<1>2. g[0] = <<>>
  BY <1>1
<1>3. ASSUME NEW h \in 0..n, h # 0
      PROVE  g[h] = <<h>> \o g[handles[h].next]
  <2>1. h \in 1..n /\ handles[h].next = (IF h = n THEN 0 ELSE h + 1) /\ g[h] = From(h)
    <3>1. h \in 1..n /\ g[h] = From(h)
      BY <1>1, <1>3
    <3>2. handles[h].next = IF h = Len(handles) THEN 0 ELSE h + 1
      BY <1>1, <3>1 DEF HandlesInv
    <3> QED
      BY <1>1, <3>1, <3>2
  <2>2. CASE h = n
    <3>1. From(h) = <<h>>
      <4>1. From(n) = [i \in 1..1 |-> n + i - 1]
        BY <1>1
      <4>2. \A i \in 1..1 : n + i - 1 = n
        BY <1>1
      <4>3. [i \in 1..1 |-> n + i - 1] = [i \in 1..1 |-> n]
        BY <4>2
      <4>4. <<n>> = [i \in 1..1 |-> n]
        OBVIOUS
      <4> QED
        BY <2>2, <4>1, <4>3, <4>4
    <3>2. <<h>> \o <<>> = <<h>>
      OBVIOUS
    <3> QED
      BY <1>2, <2>1, <2>2, <3>1, <3>2
  <2>3. CASE h # n
    <3>1. h \in Nat /\ h + 1 \in 0..n /\ h + 1 # 0 /\ n - h \in Nat /\ n - (h + 1) + 1 = n - h
      <4>1. h \in 1..n
        BY <2>1
      <4> QED
        BY ONLY <2>3, <4>1, n \in Nat
    <3> DEFINE t == From(h + 1)
    <3>2. g[h + 1] = t
      BY <3>1
    <3>3. t = [i \in 1..n - h |-> (h + 1) + i - 1]
      BY <3>1
    <3>4. t \in [1..n - h -> Int]
      BY <1>1, <3>1, <3>3
    <3>5. \A i \in 1..n - h : t[i] = h + i
      BY <1>1, <3>1, <3>3
    <3> HIDE DEF t
    <3>6. t \in Seq(Int) /\ Len(t) = n - h
      BY <3>1, <3>4, SequenceOf
    <3>7. <<h>> \in Seq(Int) /\ Len(<<h>>) = 1 /\ <<h>>[1] = h
      BY <2>1
    <3>8. PICK c : c = <<h>> \o t
      OBVIOUS
    <3> DEFINE hd == <<h>>
    <3> HIDE DEF hd
    <3>14. hd \in Seq(Int) /\ Len(hd) = 1 /\ hd[1] = h
      BY <3>7 DEF hd
    <3>15. /\ Len(hd \o t) = Len(hd) + Len(t) /\ hd \o t \in Seq(Int)
           /\ \A i \in 1..Len(hd) + Len(t) :
                (hd \o t)[i] = IF i <= Len(hd) THEN hd[i] ELSE t[i - Len(hd)]
      BY <3>6, <3>14, ConcatProperties
    <3>16. c = hd \o t
      BY <3>8 DEF hd
    <3>9. /\ c \in Seq(Int) /\ Len(c) = n - h + 1
          /\ c[1] = h
          /\ \A i \in 2..n - h + 1 : c[i] = t[i - 1]
      BY ONLY <3>1, <3>6, <3>14, <3>15, <3>16
    <3>10. \A i \in 1..n - h + 1 : c[i] = h + i - 1
      <4> SUFFICES ASSUME NEW i \in 1..n - h + 1, i # 1 PROVE c[i] = h + i - 1
        BY <3>1, <3>9
      <4>1. i \in 2..n - h + 1 /\ i - 1 \in 1..n - h
        BY <3>1
      <4> QED
        BY <3>1, <3>5, <3>9, <4>1
    <3>11. c = [i \in 1..n - h + 1 |-> c[i]]
      BY <3>9
    <3>12. c = From(h)
      BY <3>10, <3>11
    <3> QED
      BY <2>1, <2>3, <3>2, <3>8, <3>12
  <2> QED
    BY <2>2, <2>3
<1>4. \A h \in 0..n : g[h] = IF h = 0 THEN <<>> ELSE <<h>> \o g[handles[h].next]
  BY <1>2, <1>3
<1>5. g = [h \in 0..n |-> g[h]]
  OBVIOUS
<1> HIDE DEF g
<1>6. g = [h \in 0..n |-> IF h = 0 THEN <<>> ELSE <<h>> \o g[handles[h].next]]
  BY <1>4, <1>5
<1> QED
  BY <1>1, <1>6

\* From the head of the list only the head is reached.
LEMMA AlongIs ==
  ASSUME TypeOK, HandlesInv, ~HeadDestroyed
  PROVE  Along[plist] = IF plist = 0 THEN <<>> ELSE <<plist>>
<1>1. Along = [h \in 0..Len(handles) |->
                 IF h = 0 THEN <<>> ELSE <<h>> \o Along[handles[h].next]]
  <2>1. \E f : f = [h \in 0..Len(handles) |->
                       IF h = 0 THEN <<>> ELSE <<h>> \o f[handles[h].next]]
    BY AlongExists
  <2> QED
    BY <2>1, Zenon DEF Along
<1>2. \A h \in 0..Len(handles) :
        Along[h] = IF h = 0 THEN <<>> ELSE <<h>> \o Along[handles[h].next]
  BY <1>1
<1>3. /\ Len(handles) \in Nat /\ DOMAIN handles = 1..Len(handles) /\ plist \in Nat
      /\ handles = <<>> <=> Len(handles) = 0
  BY ElementsOf DEF TypeOK
<1>4. plist \in 0..Len(handles) /\ 0 \in 0..Len(handles)
  BY <1>3 DEF HeadDestroyed
<1>5. Along[0] = <<>>
  BY <1>2, <1>4
<1>6. CASE plist # 0
  <2>1. plist = Len(handles) /\ plist \in DOMAIN handles
    <3>1. Len(handles) # 0 /\ handles # <<>>
      BY <1>3, <1>4, <1>6
    <3>2. plist >= Len(handles)
      BY <3>1 DEF HandlesInv
    <3>3. plist = Len(handles)
      <4>1. \A a \in Nat, m \in Nat : a \in 0..m /\ a >= m => a = m
        OBVIOUS
      <4> QED
        BY <1>3, <1>4, <3>2, <4>1
    <3> QED
      BY ONLY <1>3, <1>4, <1>6, <3>3
  <2>2. handles[plist].next = 0
    BY <1>3, <2>1 DEF HandlesInv
  <2>3. Along[plist] = <<plist>> \o <<>>
    BY <1>2, <1>4, <1>5, <1>6, <2>2
  <2> QED
    BY <1>6, <2>3
<1> QED
  BY <1>5, <1>6

\* So does its value alone belong to the roots.
LEMMA HandleRoots ==
  ASSUME TypeOK, HandlesInv, ~HeadDestroyed
  PROVE  LET vals == [i \in DOMAIN Along[plist] |-> handles[Along[plist][i]].val] IN
         vals \in Seq(Refs) /\ ToSet(vals) = HandleSet
<1> DEFINE vals == [i \in DOMAIN Along[plist] |-> handles[Along[plist][i]].val]
<1>1. Len(handles) \in Nat /\ DOMAIN handles = 1..Len(handles) /\ plist \in Nat
  BY ElementsOf DEF TypeOK
<1>2. CASE plist = 0
  <2>1. Along[plist] = <<>>
    BY <1>2, AlongIs
  <2>2. vals = <<>>
    BY <2>1
  <2>3. HandleSet = {}
    BY <1>1, <1>2 DEF HandleSet
  <2> HIDE DEF vals
  <2>4. vals \in Seq(Refs) /\ ToSet(vals) = HandleSet
    BY <2>2, <2>3, ToSetEmpty
  <2> QED
    BY <2>4 DEF vals
<1>3. CASE plist # 0
  <2>1. Along[plist] = <<plist>> /\ plist \in DOMAIN handles
    BY <1>1, <1>3, AlongIs DEF HeadDestroyed
  <2>2. DOMAIN Along[plist] = {1} /\ Along[plist][1] = plist
    BY <2>1
  <2>3. vals = [i \in {1} |-> handles[plist].val]
    BY <2>2
  <2>4. handles[plist].val \in Refs
    BY <2>1, HandleTypes
  <2>5. vals = <<handles[plist].val>>
    BY <2>3
  <2>6. ToSet(<<handles[plist].val>>) = {handles[plist].val}
    BY DEF ToSet
  <2>7. HandleSet = {handles[plist].val}
    BY <2>1 DEF HandleSet
  <2> HIDE DEF vals
  <2> QED
    BY <2>4, <2>5, <2>6, <2>7 DEF vals
<1> QED
  BY <1>2, <1>3

\* mark begins with the roots.
LEMMA RootsAre ==
  ASSUME TypeOK, HandlesInv, ~HeadDestroyed
  PROVE  Roots \in Seq(Refs) /\ ToSet(Roots) = RootSet
<1> DEFINE ss == [i \in DOMAIN callStack |-> frames[callStack[i]].vars]
           vals == [i \in DOMAIN Along[plist] |-> handles[Along[plist][i]].val]
<1>1. vals \in Seq(Refs) /\ ToSet(vals) = HandleSet
  BY HandleRoots
<1>2. ss \in Seq(Seq(Refs)) /\ DOMAIN ss = DOMAIN callStack
  <2>1. \A i \in DOMAIN callStack : frames[callStack[i]].vars \in Seq(Refs)
    BY StackTypes, FrameTypes DEF RefSeqs
  <2>2. ss \in [1..Len(callStack) -> Seq(Refs)] /\ Len(callStack) \in Nat
    BY <2>1, StackTypes
  <2> HIDE DEF ss
  <2> QED
    BY <2>2, SequenceOf, StackTypes
<1>3. \A i \in DOMAIN ss : ss[i] = frames[callStack[i]].vars
  OBVIOUS
<1>4. operandStack \in Seq(Refs) /\ immediates \in Seq(Refs)
  BY DEF TypeOK
<1>5. NullRef \in Refs
  BY RootTypes
<1>6. <<NullRef>> \in Seq(Refs) /\ ToSet(<<NullRef>>) = {NullRef}
  BY <1>5 DEF ToSet
<1>7. Roots = FlattenSeq(ss) \o immediates \o operandStack \o vals \o <<NullRef>>
  BY DEF Roots
<1> HIDE DEF ss, vals
<1>8. FlattenSeq(ss) \in Seq(Refs) /\ ToSet(FlattenSeq(ss)) = StackSet
  <2>1. FlattenSeq(ss) \in Seq(Refs) /\ ToSet(FlattenSeq(ss)) = UNION {ToSet(ss[i]) : i \in DOMAIN ss}
    BY <1>2, ToSetFlatten
  <2>2. UNION {ToSet(ss[i]) : i \in DOMAIN ss} = StackSet
    BY <1>2, <1>3 DEF StackSet
  <2> QED
    BY <2>1, <2>2
<1> DEFINE a == FlattenSeq(ss)
           b == a \o immediates
           c == b \o operandStack
           d == c \o vals
<1>9. Roots = d \o <<NullRef>>
  BY <1>7
<1>10. a \in Seq(Refs) /\ ToSet(a) = StackSet
  BY <1>8
<1> HIDE DEF a
<1>11. b \in Seq(Refs) /\ ToSet(b) = StackSet \union ToSet(immediates)
  BY <1>4, <1>10, ToSetConcat
<1> HIDE DEF b
<1>12. c \in Seq(Refs) /\ ToSet(c) = StackSet \union ToSet(immediates) \union ToSet(operandStack)
  BY <1>4, <1>11, ToSetConcat
<1> HIDE DEF c
<1>13. d \in Seq(Refs) /\ ToSet(d) = StackSet \union ToSet(immediates) \union ToSet(operandStack)
                                       \union HandleSet
  BY <1>1, <1>12, ToSetConcat
<1> HIDE DEF d
<1>14. d \o <<NullRef>> \in Seq(Refs) /\ ToSet(d \o <<NullRef>>) = ToSet(d) \union {NullRef}
  <2> DEFINE e == <<NullRef>>
  <2>1. e \in Seq(Refs) /\ ToSet(e) = {NullRef}
    BY <1>6
  <2> HIDE DEF e
  <2>2. d \o e \in Seq(Refs) /\ ToSet(d \o e) = ToSet(d) \union {NullRef}
    BY <1>13, <2>1, ToSetConcat
  <2> QED
    BY <2>2 DEF e
<1> QED
  BY <1>9, <1>13, <1>14 DEF RootSet

\* What markValue goes on with.
LEMMA ChildrenAre ==
  ASSUME TypeOK, NEW a \in DOMAIN mem
  PROVE  Children(mem[a]) \in Seq(Refs) /\ ToSet(Children(mem[a])) = ChildSet(mem[a])
<1> DEFINE vs == IF mem[a].env # 0 THEN frames[mem[a].env].vars ELSE <<>>
<1>1. mem[a].refs \in Seq(Refs) /\ mem[a].env \in Environments \union {0}
  BY ObjectTypes DEF RefSeqs
<1>2. vs \in Seq(Refs) /\ ToSet(vs) = EnvSet(mem[a].env)
  <2>1. CASE mem[a].env # 0
    BY <1>1, <2>1, FrameTypes DEF RefSeqs, EnvSet
  <2>2. CASE mem[a].env = 0
    <3>1. vs = <<>> /\ EnvSet(mem[a].env) = {}
      BY <2>2 DEF EnvSet
    <3> HIDE DEF vs
    <3> QED
      BY <3>1, ToSetEmpty
  <2> QED
    BY <2>1, <2>2
<1>3. Children(mem[a]) = vs \o mem[a].refs
  BY DEF Children
<1> HIDE DEF vs
<1> QED
  BY <1>1, <1>2, <1>3, ToSetConcat DEF ChildSet

----------------------------------------------------------------------------------------
(* Numbers of objects. *)

\* A sequence of references names finitely many objects.
LEMMA IdsOfFinite ==
  ASSUME NEW s \in Seq(Refs)
  PROVE  IsFiniteSet(IdsOf(s)) /\ IdsOf(s) \subseteq Nat
<1> DEFINE f == [i \in DOMAIN s |-> s[i].id]
<1>1. DOMAIN s = 1..Len(s) /\ Len(s) \in Nat /\ \A i \in DOMAIN s : s[i] \in Refs
  BY ElementsOf
<1>2. f \in Surjection(DOMAIN s, IdsOf(s))
  BY DEF Surjection, IdsOf
<1>3. IsFiniteSet(DOMAIN s)
  BY <1>1, FS_Interval
<1> HIDE DEF f
<1>4. IsFiniteSet(IdsOf(s))
  BY <1>2, <1>3, FS_Surjection
<1> QED
  BY <1>1, <1>4, RefType DEF IdsOf

\* The union of finitely many finite sets of numbers.
LEMMA UnionFinite ==
  ASSUME NEW D, IsFiniteSet(D), NEW f, f = [d \in D |-> f[d]],
         \A d \in D : IsFiniteSet(f[d]) /\ f[d] \subseteq Nat
  PROVE  IsFiniteSet(UNION {f[d] : d \in D}) /\ UNION {f[d] : d \in D} \subseteq Nat
<1> DEFINE R == {f[d] : d \in D}
<1>1. f \in Surjection(D, R)
  <2>1. \A d \in D : f[d] \in R
    OBVIOUS
  <2>2. f \in [D -> R]
    <3> HIDE DEF R
    <3> QED
      BY <2>1
  <2> QED
    BY <2>2 DEF Surjection
<1>2. \A T \in R : IsFiniteSet(T)
  OBVIOUS
<1> HIDE DEF R
<1>3. IsFiniteSet(R)
  BY <1>1, FS_Surjection
<1>4. IsFiniteSet(UNION R)
  BY <1>2, <1>3, FS_UNION
<1> QED
  BY <1>4 DEF R

\* The numbers that are in use are finitely many.
LEMMA IdsFinite ==
  ASSUME TypeOK, IsFiniteSet(charMarks), native \in Waiters
  PROVE  IsFiniteSet(Ids) /\ Ids \subseteq Nat
<1>1. IsFiniteSet(DOMAIN mem)
  <2>1. IsFiniteSet(Addresses)
    BY SizeAssumption, FS_Interval DEF Addresses
  <2> QED
    BY <2>1, FS_Subset DEF TypeOK
<1> DEFINE A == {mem[a].id : a \in DOMAIN mem}
           B == UNION {IdsOf(mem[a].refs) : a \in DOMAIN mem}
           C == UNION {IdsOf(frames[e].vars) : e \in Environments}
           D == {handles[h].val.id : h \in DOMAIN handles}
           E == {native.raw.id}
           F == {native.outer[i].raw.id : i \in DOMAIN native.outer}
<1>2. IsFiniteSet(A) /\ A \subseteq Nat
  <2> DEFINE f == [a \in DOMAIN mem |-> mem[a].id]
  <2>1. f \in Surjection(DOMAIN mem, A)
    BY DEF Surjection
  <2>2. A \subseteq Nat
    BY ObjectTypes
  <2> HIDE DEF f, A
  <2> QED
    BY <1>1, <2>1, <2>2, FS_Surjection
<1>3. IsFiniteSet(B) /\ B \subseteq Nat
  <2> DEFINE f == [a \in DOMAIN mem |-> IdsOf(mem[a].refs)]
  <2>1. \A a \in DOMAIN mem : IsFiniteSet(f[a]) /\ f[a] \subseteq Nat
    BY ObjectTypes, IdsOfFinite DEF RefSeqs
  <2>2. f = [a \in DOMAIN mem |-> f[a]] /\ B = UNION {f[a] : a \in DOMAIN mem}
    OBVIOUS
  <2> HIDE DEF f, B
  <2> QED
    BY <1>1, <2>1, <2>2, UnionFinite
<1>4. IsFiniteSet(C) /\ C \subseteq Nat
  <2> DEFINE f == [e \in Environments |-> IdsOf(frames[e].vars)]
  <2>1. \A e \in Environments : IsFiniteSet(f[e]) /\ f[e] \subseteq Nat
    BY FrameTypes, IdsOfFinite DEF RefSeqs
  <2>2. f = [e \in Environments |-> f[e]] /\ C = UNION {f[e] : e \in Environments}
    OBVIOUS
  <2> HIDE DEF f, C
  <2> QED
    BY SizeAssumption, <2>1, <2>2, UnionFinite
<1>5. IsFiniteSet(D) /\ D \subseteq Nat
  <2> DEFINE f == [h \in DOMAIN handles |-> handles[h].val.id]
  <2>1. f \in Surjection(DOMAIN handles, D)
    BY DEF Surjection
  <2>2. D \subseteq Nat
    BY HandleTypes, RefType
  <2>3. IsFiniteSet(DOMAIN handles)
    <3>1. DOMAIN handles = 1..Len(handles) /\ Len(handles) \in Nat
      BY ElementsOf DEF TypeOK
    <3> QED
      BY <3>1, FS_Interval
  <2> HIDE DEF f, D
  <2> QED
    BY <2>1, <2>2, <2>3, FS_Surjection
<1>6. /\ IsFiniteSet(IdsOf(immediates)) /\ IdsOf(immediates) \subseteq Nat
      /\ IsFiniteSet(IdsOf(operandStack)) /\ IdsOf(operandStack) \subseteq Nat
      /\ charMarks \subseteq Nat
  BY IdsOfFinite DEF TypeOK
<1>7. Ids = A \union charMarks \union B \union C \union IdsOf(immediates)
              \union IdsOf(operandStack) \union D \union E \union F
  BY Zenon DEF Ids
<1>14. IsFiniteSet(E) /\ E \subseteq Nat
  <2>1. native.raw \in Refs
    BY DEF Waiters
  <2> QED
    BY <2>1, RefType, FS_Singleton
<1>15. IsFiniteSet(F) /\ F \subseteq Nat
  <2> DEFINE f == [i \in DOMAIN native.outer |-> native.outer[i].raw.id]
  <2>1. f \in Surjection(DOMAIN native.outer, F)
    BY DEF Surjection
  <2>2. /\ DOMAIN native.outer = 1..Len(native.outer) /\ Len(native.outer) \in Nat
        /\ \A i \in DOMAIN native.outer : native.outer[i] \in Suspensions
    <3>1. native.outer \in Seq(Suspensions)
      BY DEF Waiters
    <3> QED
      BY <3>1, ElementsOf
  <2>3. F \subseteq Nat
    BY <2>2, RefType DEF Suspensions
  <2>4. IsFiniteSet(DOMAIN native.outer)
    BY <2>2, FS_Interval
  <2> HIDE DEF f, F
  <2> QED
    BY <2>1, <2>3, <2>4, FS_Surjection
<1> HIDE DEF A, B, C, D, E, F
<1>8. IsFiniteSet(A \union charMarks)
  BY <1>2, FS_Union
<1>9. IsFiniteSet(A \union charMarks \union B)
  BY <1>3, <1>8, FS_Union
<1>10. IsFiniteSet(A \union charMarks \union B \union C)
  BY <1>4, <1>9, FS_Union
<1>11. IsFiniteSet(A \union charMarks \union B \union C \union IdsOf(immediates))
  BY <1>6, <1>10, FS_Union
<1>12. IsFiniteSet(A \union charMarks \union B \union C \union IdsOf(immediates)
                     \union IdsOf(operandStack))
  BY <1>6, <1>11, FS_Union
<1>13. IsFiniteSet(A \union charMarks \union B \union C \union IdsOf(immediates)
                     \union IdsOf(operandStack) \union D)
  BY <1>5, <1>12, FS_Union
<1>16. IsFiniteSet(A \union charMarks \union B \union C \union IdsOf(immediates)
                     \union IdsOf(operandStack) \union D \union E)
  BY <1>13, <1>14, FS_Union
<1>17. IsFiniteSet(A \union charMarks \union B \union C \union IdsOf(immediates)
                     \union IdsOf(operandStack) \union D \union E \union F)
  BY <1>15, <1>16, FS_Union
<1> QED
  BY <1>2, <1>3, <1>4, <1>5, <1>6, <1>7, <1>14, <1>15, <1>17

\* A new object has a number that nothing has.
LEMMA NewIs ==
  ASSUME TypeOK, IsFiniteSet(charMarks), native \in Waiters, end \in DOMAIN mem \union Nat
  PROVE  New.at = end /\ New.id \in Nat /\ New.id # 0 /\ New.id \notin Ids
<1> DEFINE n == Cardinality(Ids)
           S == (1..n + 1) \ Ids
<1>1. IsFiniteSet(Ids) /\ n \in Nat
  BY IdsFinite, FS_CardinalityType
<1>2. S # {}
  <2> SUFFICES ASSUME 1..n + 1 \subseteq Ids PROVE FALSE
    OBVIOUS
  <2> HIDE DEF n
  <2>1. Cardinality(1..n + 1) = n + 1
    BY <1>1, FS_Interval
  <2>2. Cardinality(1..n + 1) <= n
    BY <1>1, FS_Subset DEF n
  <2> QED
    BY <1>1, <2>1, <2>2
<1>3. S \in SUBSET Nat
  BY <1>1
<1> HIDE DEF S
<1>4. \E i \in S : \A j \in S : i <= j
  BY <1>2, <1>3, HasLeast
<1>5. Least(S) \in S
  BY <1>4, Zenon DEF Least
<1>6. New = [at |-> end, id |-> Least(S)]
  BY DEF New, S
<1> QED
  BY <1>1, <1>5, <1>6 DEF S

\* Where numbers are in use.
LEMMA IdsHave ==
  /\ \A a \in DOMAIN mem : mem[a].id \in Ids
  /\ \A r \in Variables : r.id \in Ids
  /\ native.raw.id \in Ids
<1>1. \A a \in DOMAIN mem : mem[a].id \in Ids
  BY DEF Ids
<1>2. ASSUME NEW e \in Environments, NEW r \in ToSet(frames[e].vars)
      PROVE  r.id \in Ids
  <2>1. r.id \in IdsOf(frames[e].vars)
    BY <1>2 DEF ToSet, IdsOf
  <2>2. r.id \in UNION {IdsOf(frames[d].vars) : d \in Environments}
    BY <2>1
  <2> HIDE DEF IdsOf
  <2> QED
    BY <2>2, Zenon DEF Ids
<1>3. native.raw.id \in Ids
  BY DEF Ids
<1> QED
  BY <1>1, <1>2, <1>3 DEF Variables

\* A free environment can be had when there is one.
LEMMA LeastFree ==
  ASSUME NEW S \in SUBSET Environments, S # {}
  PROVE  Least(S) \in S
<1>1. S \in SUBSET Nat
  BY SizeAssumption
<1>2. \E i \in S : \A j \in S : i <= j
  BY <1>1, HasLeast
<1> QED
  BY <1>2, Zenon DEF Least

----------------------------------------------------------------------------------------
(* What stays as it is. *)

\* Objects keep their numbers and places.
LEMMA SameNumbers ==
  ASSUME DOMAIN mem' = DOMAIN mem, \A a \in DOMAIN mem : mem'[a].id = mem[a].id
  PROVE  /\ \A r : (Valid(r)' <=> Valid(r)) /\ (Gone(r)' <=> Gone(r))
         /\ LiveIds' = LiveIds
<1>1. \A r : Valid(r)' <=> Valid(r)
  BY DEF Valid
<1>2. \A r : Gone(r)' <=> Gone(r)
  BY DEF Gone
<1>3. LiveIds' = LiveIds
  BY DEF LiveIds
<1> QED
  BY <1>1, <1>2, <1>3

\* So do the roots.
LEMMA SameRoots ==
  ASSUME UNCHANGED <<frames, callStack, immediates, operandStack, handles, plist>>
  PROVE  /\ RootSet' = RootSet /\ Variables' = Variables
         /\ \A e : EnvSet(e)' = EnvSet(e)
         /\ \A e : Lineage(e)' = Lineage(e)
<1>1. HandleSet' = HandleSet /\ StackSet' = StackSet
  BY DEF HandleSet, StackSet
<1>2. RootSet' = RootSet
  BY <1>1 DEF RootSet
<1>3. Variables' = Variables
  BY DEF Variables
<1>4. \A e : EnvSet(e)' = EnvSet(e)
  BY DEF EnvSet
<1>5. \A e : Lineage(e)' = Lineage(e)
  BY DEF Lineage
<1> QED
  BY <1>2, <1>3, <1>4, <1>5

Paused == {"mark", "slide", "internal", "collected"}

\* C++ code that waits for the collector.
LEMMA NativeWaits ==
  ASSUME NativeInv, HandlesInv, pc \in Paused, pc' \in Paused,
         UNCHANGED <<immediates, operandStack, handles, plist, native>>
  PROVE  NativeInv' /\ HandlesInv'
<1>1. Handled(native)' /\ Ready(native)' /\ native'.op # "none"
  BY DEF NativeInv, Handled, Ready, Paused
<1>2. NativeInv'
  BY <1>1 DEF NativeInv, Paused
<1>3. HandlesInv'
  BY DEF HandlesInv, HeadDestroyed, Paused
<1> QED
  BY <1>2, <1>3

\* An object of which only the mark changes.
LEMMA MarkChanges ==
  ASSUME TypeOK, NEW a \in DOMAIN mem, NEW v \in BOOLEAN,
         NEW p, p = [mem[a] EXCEPT !.marked = v]
  PROVE  /\ p \in [kind : Kinds, id : Nat, marked : BOOLEAN, refs : Seq(Refs),
                   env : Environments \union {0}]
         /\ p.kind = mem[a].kind /\ p.id = mem[a].id /\ p.refs = mem[a].refs
         /\ p.env = mem[a].env /\ p.marked = v
  BY DEF TypeOK

----------------------------------------------------------------------------------------
(* Mark. *)

\* A value is marked: what is done and what is pending.
LEMMA MarkValueIs ==
  ASSUME RefInv, MarkValue
  PROVE  LET r == Head(grey) IN
         /\ grey \in Seq(Refs) /\ grey # <<>> /\ r \in Refs /\ Valid(r)
         /\ ToSet(grey) = {r} \union ToSet(Tail(grey))
         /\ DOMAIN mem' = DOMAIN mem
         /\ \A a \in DOMAIN mem :
              /\ mem'[a] \in [kind : Kinds, id : Nat, marked : BOOLEAN, refs : Seq(Refs),
                              env : Environments \union {0}]
              /\ mem'[a].kind = mem[a].kind /\ mem'[a].id = mem[a].id
              /\ mem'[a].refs = mem[a].refs /\ mem'[a].env = mem[a].env
              /\ mem'[a].marked <=> mem[a].marked \/ (~IsChar(r) /\ a = r.at)
         /\ charMarks' = IF IsChar(r) THEN charMarks \union {r.id} ELSE charMarks
         /\ grey' \in Seq(Refs)
         /\ \/ /\ IsChar(r) \/ mem[r.at].marked
               /\ ToSet(grey') = ToSet(Tail(grey))
            \/ /\ ~IsChar(r) /\ ~mem[r.at].marked
               /\ ToSet(grey') = ChildSet(mem[r.at]) \union ToSet(Tail(grey))
<1> DEFINE r == Head(grey)
           o == mem[r.at]
<1>1. /\ grey \in Seq(Refs) /\ grey # <<>> /\ r \in Refs /\ Tail(grey) \in Seq(Refs)
      /\ ToSet(grey) = {r} \union ToSet(Tail(grey))
  BY ToSetHeadTail DEF RefInv, TypeOK, MarkValue
<1>2. pc = "mark" /\ Valid(r)
  BY <1>1 DEF RefInv, MarkInv, MarkValue
<1>3. <<>> \o Tail(grey) \in Seq(Refs) /\ ToSet(<<>> \o Tail(grey)) = ToSet(Tail(grey))
  <2> DEFINE t == Tail(grey)
  <2>1. t \in Seq(Refs)
    BY <1>1
  <2> HIDE DEF t
  <2>2. <<>> \o t = t
    BY <2>1
  <2>3. <<>> \o t \in Seq(Refs) /\ ToSet(<<>> \o t) = ToSet(t)
    BY <2>1, <2>2
  <2> QED
    BY <2>3 DEF t
<1>4. TypeOK
  BY DEF RefInv
<1>5. CASE IsChar(r)
  <2>1. charMarks' = charMarks \union {r.id} /\ mem' = mem /\ grey' = <<>> \o Tail(grey)
    BY <1>5 DEF MarkValue
  <2> HIDE DEF r
  <2>2. \A a \in DOMAIN mem :
          mem'[a] \in [kind : Kinds, id : Nat, marked : BOOLEAN, refs : Seq(Refs),
                              env : Environments \union {0}]
    BY <1>4, <2>1 DEF TypeOK
  <2> QED
    BY <1>1, <1>2, <1>3, <1>5, <2>1, <2>2 DEF r
<1>6. CASE ~IsChar(r) /\ o.marked
  <2>1. charMarks' = charMarks /\ mem' = mem /\ grey' = <<>> \o Tail(grey)
    BY <1>6 DEF MarkValue, Visited
  <2> HIDE DEF r
  <2>2. \A a \in DOMAIN mem :
          mem'[a] \in [kind : Kinds, id : Nat, marked : BOOLEAN, refs : Seq(Refs),
                              env : Environments \union {0}]
    BY <1>4, <2>1 DEF TypeOK
  <2> QED
    BY <1>1, <1>2, <1>3, <1>6, <2>1, <2>2 DEF r
<1>7. CASE ~IsChar(r) /\ ~o.marked
  <2>1. /\ charMarks' = charMarks /\ mem' = [mem EXCEPT ![r.at].marked = TRUE]
        /\ grey' = Children(o) \o Tail(grey)
    BY <1>7 DEF MarkValue, Visited
  <2>2. r.at \in DOMAIN mem
    BY <1>2, <1>7 DEF Valid
  <2> HIDE DEF r
  <2>3. /\ DOMAIN mem' = DOMAIN mem
        /\ \A a \in DOMAIN mem : mem'[a] = IF a = r.at THEN [mem[a] EXCEPT !.marked = TRUE] ELSE mem[a]
    BY <2>1
  <2>4. \A a \in DOMAIN mem :
              /\ mem'[a] \in [kind : Kinds, id : Nat, marked : BOOLEAN, refs : Seq(Refs),
                              env : Environments \union {0}]
              /\ mem'[a].kind = mem[a].kind /\ mem'[a].id = mem[a].id
              /\ mem'[a].refs = mem[a].refs /\ mem'[a].env = mem[a].env
              /\ mem'[a].marked <=> mem[a].marked \/ a = r.at
    <3> SUFFICES ASSUME NEW a \in DOMAIN mem
                 PROVE /\ mem'[a] \in [kind : Kinds, id : Nat, marked : BOOLEAN, refs : Seq(Refs),
                              env : Environments \union {0}]
                       /\ mem'[a].kind = mem[a].kind /\ mem'[a].id = mem[a].id
                       /\ mem'[a].refs = mem[a].refs /\ mem'[a].env = mem[a].env
                       /\ mem'[a].marked <=> mem[a].marked \/ a = r.at
      OBVIOUS
    <3>1. CASE a = r.at
      <4> DEFINE p == mem'[a]
      <4>1. p = [mem[a] EXCEPT !.marked = TRUE] /\ TRUE \in BOOLEAN
        BY <2>3, <3>1
      <4> HIDE DEF p
      <4>2. /\ p \in [kind : Kinds, id : Nat, marked : BOOLEAN, refs : Seq(Refs),
                       env : Environments \union {0}]
            /\ p.kind = mem[a].kind /\ p.id = mem[a].id /\ p.refs = mem[a].refs
            /\ p.env = mem[a].env /\ p.marked = TRUE
        BY <1>4, <4>1, MarkChanges
      <4> QED
        BY <3>1, <4>2 DEF p
    <3>2. CASE a # r.at
      BY <1>4, <2>3, <3>2 DEF TypeOK
    <3> QED
      BY <3>1, <3>2
  <2>5. Children(o) \in Seq(Refs) /\ ToSet(Children(o)) = ChildSet(mem[r.at])
    BY <1>4, <2>2, ChildrenAre
  <2> DEFINE c == Children(o)
             t == Tail(grey)
  <2>6. c \in Seq(Refs) /\ t \in Seq(Refs)
    BY <1>1, <2>5
  <2> HIDE DEF c, t
  <2>7. c \o t \in Seq(Refs) /\ ToSet(c \o t) = ToSet(c) \union ToSet(t)
    BY <2>6, ToSetConcat
  <2>8. grey' \in Seq(Refs) /\ ToSet(grey') = ChildSet(mem[r.at]) \union ToSet(Tail(grey))
    BY <2>1, <2>5, <2>7 DEF c, t
  <2> QED
    BY <1>1, <1>2, <1>7, <2>1, <2>3, <2>4, <2>8 DEF r
<1> QED
  BY <1>5, <1>6, <1>7

\* markRoots keeps the invariant at each value that it takes from its worklist.
LEMMA MarkValueInv ==
  ASSUME RefInv, MarkValue
  PROVE  RefInv'
<1>1. PICK r :
      /\ grey \in Seq(Refs) /\ grey # <<>> /\ r \in Refs /\ Valid(r)
      /\ ToSet(grey) = {r} \union ToSet(Tail(grey))
      /\ DOMAIN mem' = DOMAIN mem
      /\ \A a \in DOMAIN mem :
           /\ mem'[a] \in [kind : Kinds, id : Nat, marked : BOOLEAN, refs : Seq(Refs),
                           env : Environments \union {0}]
           /\ mem'[a].kind = mem[a].kind /\ mem'[a].id = mem[a].id
           /\ mem'[a].refs = mem[a].refs /\ mem'[a].env = mem[a].env
           /\ mem'[a].marked <=> mem[a].marked \/ (~IsChar(r) /\ a = r.at)
      /\ charMarks' = IF IsChar(r) THEN charMarks \union {r.id} ELSE charMarks
      /\ grey' \in Seq(Refs)
      /\ \/ /\ IsChar(r) \/ mem[r.at].marked
            /\ ToSet(grey') = ToSet(Tail(grey))
         \/ /\ ~IsChar(r) /\ ~mem[r.at].marked
            /\ ToSet(grey') = ChildSet(mem[r.at]) \union ToSet(Tail(grey))
  BY MarkValueIs
<1>2. /\ pc = "mark" /\ pc' = "mark"
      /\ UNCHANGED <<end, frames, callStack, immediates, operandStack, handles, plist,
                     native, index, gone, breaks, collapse, frameSet, fault>>
  BY DEF MarkValue, roots
<1>3. TypeOK /\ NativeInv /\ HandlesInv /\ IdsInv /\ RestInv /\ MarkInv
  BY DEF RefInv
<1>4. r.id \in Nat
  BY <1>1, RefType
<1>5. TypeOK'
  BY <1>1, <1>2, <1>3, <1>4 DEF TypeOK
<1>6. NativeInv' /\ HandlesInv'
  BY <1>2, <1>3, NativeWaits DEF Paused
<1>7. /\ \A x : (Valid(x)' <=> Valid(x)) /\ (Gone(x)' <=> Gone(x))
      /\ LiveIds' = LiveIds
  BY <1>1, SameNumbers
<1>8. RootSet' = RootSet /\ Variables' = Variables /\ \A e : EnvSet(e)' = EnvSet(e)
  BY <1>2, SameRoots
<1>9. \A a \in DOMAIN mem : ChildSet(mem[a])' = ChildSet(mem[a])
  BY <1>1, <1>8 DEF ChildSet
<1>10. IdsInv'
  <2>1. IsFiniteSet(charMarks')
    <3>1. IsFiniteSet(charMarks \union {r.id})
      BY <1>3, FS_AddElement DEF IdsInv
    <3> QED
      BY <1>1, <1>3, <3>1 DEF IdsInv
  <2> QED
    BY <1>1, <1>3, <2>1 DEF IdsInv
<1>11. /\ \A x \in RootSet : Valid(x)
       /\ \A a \in DOMAIN mem : \A x \in ChildSet(mem[a]) : Valid(x)
       /\ \A x \in Variables : Valid(x) \/ Gone(x)
  BY <1>2, <1>3 DEF RestInv, AtRest
<1>12. RestInv'
  BY <1>1, <1>7, <1>8, <1>9, <1>11 DEF RestInv
<1>13. Unmarked'
  BY <1>2 DEF Unmarked
<1>14. ~IsChar(r) => r.at \in DOMAIN mem /\ mem[r.at].id = r.id
  BY <1>1 DEF Valid
<1>15. \A x : Valid(x) /\ Done(x) => Done(x)'
  BY <1>1 DEF Done, Valid
<1>16. Done(r)'
  BY <1>1, <1>14 DEF Done
<1>17. \A x : Valid(x) /\ Pending(x) => Pending(x)'
  BY <1>1, <1>15, <1>16 DEF Pending
<1>18. MarkInv'
  <2>1. \A x \in ToSet(grey') : Valid(x)'
    <3>1. \A x \in ToSet(grey) : Valid(x)
      BY <1>2, <1>3 DEF MarkInv
    <3> QED
      BY <1>1, <1>7, <1>11, <1>14, <3>1
  <2>2. \A x \in RootSet : Pending(x)'
    BY <1>2, <1>3, <1>11, <1>17 DEF MarkInv
  <2>3. ASSUME NEW a \in Blackened', NEW x \in ChildSet(mem[a])'
        PROVE  Pending(x)'
    <3>1. a \in DOMAIN mem /\ x \in ChildSet(mem[a]) /\ Valid(x)
      BY <1>1, <1>9, <1>11, <2>3 DEF Blackened
    <3>2. CASE a \in Blackened
      <4>1. Pending(x)
        BY <1>2, <1>3, <3>1, <3>2 DEF MarkInv
      <4> QED
        BY <1>17, <3>1, <4>1
    <3>3. CASE a \notin Blackened
      <4>1. ~IsChar(r) /\ a = r.at /\ ~mem[r.at].marked
        BY <1>1, <2>3, <3>1, <3>3 DEF Blackened
      <4>2. x \in ToSet(grey')
        BY <1>1, <3>1, <4>1
      <4> QED
        BY <4>2 DEF Pending
    <3> QED
      BY <3>2, <3>3
  <2>4. ASSUME NEW S \in SUBSET LiveIds', ClosedAmong(S, Blackened)'
        PROVE  /\ \A a \in Blackened' : mem'[a].id \in S
               /\ ObjectIds(ToSet(grey))' \subseteq S
    <3>1. Blackened \subseteq Blackened'
      BY <1>1 DEF Blackened
    <3>2. \A a \in Blackened' : a \in DOMAIN mem /\ (a \in Blackened \/ (~IsChar(r) /\ a = r.at))
      BY <1>1 DEF Blackened
    <3>3. ClosedAmong(S, Blackened)
      <4>1. ObjectIds(RootSet) \subseteq S
        BY <1>8, <2>4 DEF ClosedAmong, ObjectIds
      <4>2. ASSUME NEW a \in Blackened, mem[a].id \in S
            PROVE  ObjectIds(ChildSet(mem[a])) \subseteq S
        <5>1. a \in Blackened' /\ a \in DOMAIN mem
          BY <3>1, <3>2
        <5>2. ObjectIds(ChildSet(mem[a]))' \subseteq S
          BY <1>1, <2>4, <4>2, <5>1 DEF ClosedAmong
        <5> QED
          BY <1>9, <5>1, <5>2 DEF ObjectIds
      <4> QED
        BY <4>1, <4>2 DEF ClosedAmong
    <3>4. (\A a \in Blackened : mem[a].id \in S) /\ ObjectIds(ToSet(grey)) \subseteq S
      BY <1>2, <1>3, <1>7, <3>3 DEF MarkInv
    <3>5. ~IsChar(r) => mem[r.at].id \in S
      BY <1>1, <1>14, <3>4 DEF ObjectIds
    <3>6. \A a \in Blackened' : mem'[a].id \in S
      BY <1>1, <3>2, <3>4, <3>5
    <3>7. ASSUME NEW x \in ToSet(grey'), ~IsChar(x)
          PROVE  x.id \in S
      <4>1. CASE x \in ToSet(grey)
        BY <3>4, <3>7, <4>1 DEF ObjectIds
      <4>2. CASE x \notin ToSet(grey)
        <5>1. ~IsChar(r) /\ ~mem[r.at].marked /\ x \in ChildSet(mem[r.at])
          BY <1>1, <3>7, <4>2
        <5>2. r.at \in DOMAIN mem /\ r.at \in Blackened' /\ mem'[r.at].id \in S
          BY <1>1, <1>14, <3>5, <5>1 DEF Blackened
        <5>3. ObjectIds(ChildSet(mem[r.at]))' \subseteq S
          BY <2>4, <5>2 DEF ClosedAmong
        <5>4. x \in ChildSet(mem[r.at])'
          BY <1>9, <5>1, <5>2
        <5> QED
          BY <3>7, <5>3, <5>4 DEF ObjectIds
      <4> QED
        BY <4>1, <4>2
    <3>8. ObjectIds(ToSet(grey))' \subseteq S
      BY <3>7 DEF ObjectIds
    <3> QED
      BY <3>6, <3>8
  <2> QED
    BY <1>8, <2>1, <2>2, <2>3, <2>4 DEF MarkInv
<1>19. SlidingInv' /\ InternalInv' /\ ReachedInv'
  BY <1>2 DEF SlidingInv, InternalInv, ReachedInv
<1> QED
  BY <1>5, <1>6, <1>10, <1>12, <1>13, <1>18, <1>19 DEF RefInv

----------------------------------------------------------------------------------------
(* The end of marking. *)

\* With no breaks nothing moves.
LEMMA NothingShifted ==
  ASSUME NEW x \in Int
  PROVE  Shift(<<>>, x) = 0
<1>1. <<>> \in Breaks /\ \A k \in 1..Len(<<>>) : FALSE
  BY DEF Breaks
<1> QED
  BY <1>1, ShiftNone

\* When all that was pending is marked, what is to stay is marked or a string
\* with a marked character.
LEMMA MarkEnds ==
  ASSUME RefInv, Marked
  PROVE  RefInv'
<1>1. /\ pc = "mark" /\ pc' = "slide" /\ grey = <<>>
      /\ index' = 0 /\ gone' = 0 /\ breaks' = <<>> /\ collapse' = FALSE
      /\ UNCHANGED <<mem, end, frames, callStack, immediates, operandStack, handles, plist,
                     charMarks, native, grey, frameSet, fault>>
  BY DEF Marked, heap, roots
<1>2. TypeOK /\ NativeInv /\ HandlesInv /\ IdsInv /\ RestInv /\ MarkInv
  BY DEF RefInv
<1>3. 0 \in Addresses /\ <<>> \in Seq([at : Addresses, size : Nat])
  BY SizeAssumption DEF Addresses
<1>4. TypeOK'
  BY <1>1, <1>2, <1>3 DEF TypeOK
<1>5. NativeInv' /\ HandlesInv'
  BY <1>1, <1>2, NativeWaits DEF Paused
<1>6. IdsInv'
  BY <1>1, <1>2 DEF IdsInv
<1>7. /\ \A x : (Valid(x)' <=> Valid(x)) /\ (Gone(x)' <=> Gone(x))
      /\ LiveIds' = LiveIds
  BY <1>1, SameNumbers
<1>8. RootSet' = RootSet /\ Variables' = Variables /\ \A e : EnvSet(e)' = EnvSet(e)
  BY <1>1, SameRoots
<1>9. \A a \in DOMAIN mem : ChildSet(mem[a])' = ChildSet(mem[a])
  BY <1>1, <1>8 DEF ChildSet
<1>10. /\ \A x \in RootSet : Valid(x)
       /\ \A a \in DOMAIN mem : \A x \in ChildSet(mem[a]) : Valid(x)
       /\ \A x \in Variables : Valid(x) \/ Gone(x)
  BY <1>1, <1>2 DEF RestInv, AtRest
<1>11. RestInv' /\ Unmarked' /\ MarkInv' /\ InternalInv' /\ ReachedInv'
  BY <1>1 DEF RestInv, AtRest, Unmarked, MarkInv, InternalInv, ReachedInv
<1>12. \A x : Pending(x) => Done(x)
  BY <1>1, ToSetEmpty DEF Pending
<1>13. Staying' = {a \in DOMAIN mem : Kept(mem[a])}
  <2>1. \A a \in DOMAIN mem : ~(a < index' - gone')
    BY <1>1, <1>2, ObjectTypes
  <2>2. \A a \in DOMAIN mem : Kept(mem[a])' <=> Kept(mem[a])
    BY <1>1 DEF Kept
  <2> QED
    BY <1>1, <2>1, <2>2 DEF Staying
<1>14. ASSUME NEW x, Valid(x) PROVE Follows(x)'
  <2>1. CASE IsChar(x)
    BY <2>1 DEF Follows
  <2>2. CASE ~IsChar(x)
    <3>1. x.at >= 0
      BY <1>2, <1>14, <2>2, ValidObject
    <3> QED
      BY <1>1, <1>7, <1>14, <3>1 DEF Follows
  <2> QED
    BY <2>1, <2>2
<1>15. ASSUME NEW x, Valid(x), Done(x) PROVE Stays(x)'
  <2>1. CASE IsChar(x)
    BY <2>1 DEF Stays
  <2>2. CASE ~IsChar(x)
    <3>1. x.at \in DOMAIN mem /\ mem[x.at].id = x.id /\ mem[x.at].marked
      BY <1>15, <2>2 DEF Valid, Done
    <3>2. x.at \in Staying'
      BY <1>13, <3>1 DEF Kept
    <3> QED
      BY <1>1, <3>1, <3>2 DEF Stays
  <2> QED
    BY <2>1, <2>2
<1>16. BreaksInv'
  <2>1. \A x \in index'..Capacity : Shift(breaks', x) = gone'
    BY <1>1, NothingShifted, SizeAssumption
  <2> QED
    BY <1>1, <2>1 DEF BreaksInv
<1>17. \A a \in DOMAIN mem' : a < index' - gone' => ~mem'[a].marked
  BY <1>1, <1>2, ObjectTypes
<1>18. \A x \in RootSet' : Follows(x)' /\ Stays(x)'
  BY <1>1, <1>2, <1>8, <1>10, <1>12, <1>14, <1>15 DEF MarkInv
<1>19. \A a \in DOMAIN mem' : \A x \in ChildSet(mem[a])' : Follows(x)'
  BY <1>1, <1>9, <1>10, <1>14
<1>20. ASSUME NEW a \in Staying', NEW x \in ChildSet(mem[a])'
       PROVE  Stays(x)'
  <2>1. a \in DOMAIN mem /\ Kept(mem[a]) /\ x \in ChildSet(mem[a]) /\ Valid(x)
    BY <1>9, <1>10, <1>13, <1>20
  <2>2. CASE mem[a].marked
    <3>1. Pending(x)
      BY <1>1, <1>2, <2>1, <2>2 DEF MarkInv, Blackened
    <3> QED
      BY <1>12, <1>15, <2>1, <3>1
  <2>3. CASE ~mem[a].marked
    <3>1. mem[a].refs = <<>> /\ mem[a].env = 0
      BY <1>2, <2>1, <2>3 DEF Kept, IdsInv
    <3>2. ChildSet(mem[a]) = {}
      BY <3>1, ToSetEmpty DEF ChildSet, EnvSet
    <3> QED
      BY <2>1, <3>2
  <2> QED
    BY <2>2, <2>3
<1>21. \A x \in Variables' : Follows(x)'
  <2>1. \A x : Gone(x) => Follows(x)'
    BY <1>7 DEF Follows
  <2> QED
    BY <1>8, <1>10, <1>14, <2>1
<1>22. ASSUME NEW S \in SUBSET LiveIds', ClosedAmong(S, Staying)',
              NEW a \in Staying'
       PROVE  mem'[a].id \in S \union charMarks'
  <2>1. a \in DOMAIN mem /\ Kept(mem[a])
    BY <1>13, <1>22
  <2>2. Blackened \subseteq Staying'
    BY <1>13 DEF Blackened, Kept
  <2>3. ClosedAmong(S, Blackened)
    <3>1. ObjectIds(RootSet) \subseteq S
      BY <1>8, <1>22 DEF ClosedAmong, ObjectIds
    <3>2. ASSUME NEW b \in Blackened, mem[b].id \in S
          PROVE  ObjectIds(ChildSet(mem[b])) \subseteq S
      <4>1. b \in Staying' /\ b \in DOMAIN mem /\ mem'[b].id \in S
        BY <1>1, <2>2, <3>2 DEF Blackened
      <4>2. ObjectIds(ChildSet(mem[b]))' \subseteq S
        BY <1>22, <4>1 DEF ClosedAmong
      <4> QED
        BY <1>9, <4>1, <4>2 DEF ObjectIds
    <3> QED
      BY <3>1, <3>2 DEF ClosedAmong
  <2>4. \A b \in Blackened : mem[b].id \in S
    BY <1>1, <1>2, <1>7, <2>3 DEF MarkInv
  <2> QED
    BY <1>1, <2>1, <2>4 DEF Kept, Blackened
<1>23. SlidingInv'
  BY <1>16, <1>17, <1>18, <1>19, <1>20, <1>21, <1>22 DEF SlidingInv
<1> QED
  BY <1>4, <1>5, <1>6, <1>11, <1>23 DEF RefInv

----------------------------------------------------------------------------------------
(* The end of sliding. *)

\* When compact has passed all objects, exactly those without a break are left and the
\* end is lowered by what is gone.
LEMMA SlideEnds ==
  ASSUME RefInv, HeapInv, HeapInv', Slid
  PROVE  RefInv'
<1>1. /\ pc = "slide" /\ pc' = "internal" /\ index >= end
      /\ end' = end - gone /\ index' = 0
      /\ UNCHANGED <<mem, frames, callStack, immediates, operandStack, handles, plist,
                     charMarks, native, grey, gone, breaks, collapse, frameSet, fault>>
  BY DEF Slid, roots
<1>2. TypeOK /\ NativeInv /\ HandlesInv /\ IdsInv /\ SlidingInv
  BY DEF RefInv
<1>3. /\ end \in Nat /\ end <= Capacity /\ index \in Nat /\ gone \in Nat
      /\ gone <= index /\ index = end
      /\ DOMAIN mem \subseteq 0..index - gone - 1
  BY <1>1 DEF HeapInv, HeapTiled, Sliding
<1>4. /\ BreaksInv
      /\ \A a \in DOMAIN mem : a < index - gone => ~mem[a].marked
      /\ \A r \in RootSet : Follows(r) /\ Stays(r)
      /\ \A a \in DOMAIN mem : \A r \in ChildSet(mem[a]) : Follows(r)
      /\ \A a \in Staying : \A r \in ChildSet(mem[a]) : Stays(r)
      /\ \A r \in Variables : Follows(r)
      /\ \A S \in SUBSET LiveIds : ClosedAmong(S, Staying) =>
           \A a \in Staying : mem[a].id \in S \union charMarks
  BY <1>1, <1>2 DEF SlidingInv
<1>5. end' \in Addresses /\ index' \in Addresses
  BY <1>1, <1>3, SizeAssumption DEF Addresses
<1>6. TypeOK'
  BY <1>1, <1>2, <1>5 DEF TypeOK
<1>7. NativeInv' /\ HandlesInv'
  BY <1>1, <1>2, NativeWaits DEF Paused
<1>8. IdsInv'
  BY <1>1, <1>2 DEF IdsInv
<1>9. /\ \A x : (Valid(x)' <=> Valid(x)) /\ (Gone(x)' <=> Gone(x))
      /\ LiveIds' = LiveIds
  BY <1>1, SameNumbers
<1>10. RootSet' = RootSet /\ Variables' = Variables /\ \A e : EnvSet(e)' = EnvSet(e)
  BY <1>1, SameRoots
<1>11. \A a \in DOMAIN mem : ChildSet(mem[a])' = ChildSet(mem[a])
  BY <1>1, <1>10 DEF ChildSet
<1>12. RestInv' /\ MarkInv' /\ SlidingInv'
  BY <1>1 DEF RestInv, AtRest, MarkInv, SlidingInv
<1>13. \A a \in DOMAIN mem : a < index - gone /\ ~mem[a].marked
  BY <1>3, <1>4
<1>14. Unmarked'
  BY <1>1, <1>13 DEF Unmarked
<1>15. Staying = DOMAIN mem
  BY <1>13 DEF Staying
<1>16. \A x : Stays(x) => ~Gone(x)
  BY <1>15 DEF Stays, Gone
<1>17. ASSUME NEW x, Follows(x) PROVE Found(x)'
  <2>1. \A y : Reaches(y)' <=> Reaches(y)
    BY <1>1 DEF Reaches
  <2>2. ~(x.at >= index /\ Valid(x) /\ ~IsChar(x))
    BY <1>3 DEF Valid
  <2> QED
    BY <1>9, <1>17, <2>1, <2>2 DEF Follows, Found
<1>18. InternalInv'
  <2>1. index' \in DOMAIN mem' \union {end'}
    BY <1>1 DEF HeapInv, HeapTiled, Tiled
  <2>2. \A r \in RootSet' : ~Gone(r)'
    BY <1>4, <1>9, <1>10, <1>16
  <2>3. \A a \in DOMAIN mem' : \A r \in ChildSet(mem[a])' : ~Gone(r)'
    BY <1>1, <1>4, <1>9, <1>11, <1>15, <1>16
  <2>4. \A r \in RootSet' \union Variables' : Found(r)'
    BY <1>4, <1>10, <1>17
  <2>5. \A a \in DOMAIN mem' : ~(a < index')
    BY <1>1, <1>2, ObjectTypes
  <2>6. ASSUME NEW a \in DOMAIN mem', NEW r \in ToSet(mem'[a].refs)
        PROVE  Found(r)'
    <3>1. a \in DOMAIN mem /\ r \in ChildSet(mem[a])
      BY <1>1, <2>6 DEF ChildSet
    <3> QED
      BY <1>4, <1>17, <3>1
  <2> QED
    BY <2>1, <2>2, <2>3, <2>4, <2>5, <2>6 DEF InternalInv
<1>19. ReachedInv'
  <2> SUFFICES ASSUME NEW S \in SUBSET LiveIds', ClosedAmong(S, DOMAIN mem)',
                      NEW a \in DOMAIN mem'
               PROVE  mem'[a].id \in S \union charMarks'
    BY DEF ReachedInv
  <2>1. ClosedAmong(S, Staying)
    <3>1. ObjectIds(RootSet) \subseteq S
      BY <1>10 DEF ClosedAmong, ObjectIds
    <3>2. ASSUME NEW b \in DOMAIN mem, mem[b].id \in S
          PROVE  ObjectIds(ChildSet(mem[b])) \subseteq S
      <4>1. ObjectIds(ChildSet(mem[b]))' \subseteq S
        BY <1>1, <3>2 DEF ClosedAmong
      <4> QED
        BY <1>11, <4>1 DEF ObjectIds
    <3> QED
      BY <1>15, <3>1, <3>2 DEF ClosedAmong
  <2> QED
    BY <1>1, <1>4, <1>9, <1>15, <2>1
<1> QED
  BY <1>6, <1>7, <1>8, <1>12, <1>14, <1>18, <1>19 DEF RefInv

----------------------------------------------------------------------------------------
(* Sliding. *)

\* The state in which compact comes to an object.
LEMMA SlideFrom ==
  ASSUME RefInv, HeapInv, Slide
  PROVE  LET to == index - gone  next == index + Size[mem[index].kind] IN
         /\ pc = "slide" /\ pc' = "slide" /\ index' = next
         /\ UNCHANGED <<end, frames, callStack, immediates, operandStack, handles, plist,
                        charMarks, native, grey, frameSet, fault>>
         /\ end \in Nat /\ end <= Capacity /\ index \in Nat /\ gone \in Nat
         /\ gone <= index /\ to \in Nat /\ to <= index
         /\ Size[mem[index].kind] \in Nat \ {0}
         /\ index \in DOMAIN mem /\ next \in Nat /\ index < next /\ next <= end
         /\ \A a \in DOMAIN mem : a \in Nat /\ (a < to \/ a = index \/ a >= next)
<1>1. /\ pc = "slide" /\ pc' = "slide" /\ index < end
      /\ index' = index + Size[mem[index].kind]
      /\ UNCHANGED <<end, frames, callStack, immediates, operandStack, handles, plist,
                     charMarks, native, grey, frameSet, fault>>
  BY DEF Slide, roots
<1>2. /\ end \in Nat /\ end <= Capacity /\ index \in Nat /\ gone \in Nat
      /\ gone <= index /\ index <= end
      /\ DOMAIN mem \subseteq (0..index - gone - 1) \union (index..end - 1)
  BY <1>1 DEF HeapInv, HeapTiled, Sliding
<1>3. /\ index \in DOMAIN mem /\ Size[mem[index].kind] \in Nat \ {0}
      /\ index + Size[mem[index].kind] <= end
      /\ DOMAIN mem \cap (index + 1..index + Size[mem[index].kind] - 1) = {}
  BY <1>1, ObjectAtIndex
<1> DEFINE size == Size[mem[index].kind]
<1> HIDE DEF size
<1>4. size \in Nat \ {0} /\ DOMAIN mem \cap (index + 1..index + size - 1) = {}
  BY <1>3 DEF size
<1>5. ASSUME NEW a \in DOMAIN mem
      PROVE  a \in Nat /\ (a < index - gone \/ a = index \/ a >= index + size)
  <2>1. a \in Nat /\ (a < index - gone \/ a >= index)
    BY <1>2
  <2>2. a > index /\ a < index + size => a \in index + 1..index + size - 1
    BY <1>2, <1>4, <2>1
  <2> QED
    BY <1>2, <1>4, <2>1, <2>2
<1> QED
  BY <1>1, <1>2, <1>3, <1>5 DEF size

SlidingFacts ==
  /\ BreaksInv
  /\ \A a \in DOMAIN mem : a < index - gone => ~mem[a].marked
  /\ \A r \in RootSet : Follows(r) /\ Stays(r)
  /\ \A a \in DOMAIN mem : \A r \in ChildSet(mem[a]) : Follows(r)
  /\ \A a \in Staying : \A r \in ChildSet(mem[a]) : Stays(r)
  /\ \A r \in Variables : Follows(r)
  /\ \A S \in SUBSET LiveIds : ClosedAmong(S, Staying) =>
         \A a \in Staying : mem[a].id \in S \union charMarks

\* An object that is kept: references from everywhere follow it.
LEMMA SlideKeeps ==
  ASSUME RefInv, HeapInv, Slide, Kept(mem[index])
  PROVE  TypeOK' /\ IdsInv' /\ SlidingFacts'
<1>1. PICK i, to, next, o :
         /\ i = index /\ to = i - gone /\ next = i + Size[mem[i].kind] /\ o = mem[i]
         /\ pc = "slide" /\ pc' = "slide" /\ index' = next
         /\ UNCHANGED <<end, frames, callStack, immediates, operandStack, handles, plist,
                        charMarks, native, grey, frameSet, fault>>
         /\ end \in Nat /\ end <= Capacity /\ i \in Nat /\ gone \in Nat
         /\ gone <= i /\ to \in Nat /\ to <= i
         /\ Size[mem[i].kind] \in Nat \ {0}
         /\ i \in DOMAIN mem /\ next \in Nat /\ i < next /\ next <= end
         /\ \A a \in DOMAIN mem : a \in Nat /\ (a < to \/ a = i \/ a >= next)
  BY SlideFrom
<1>2. TypeOK /\ NativeInv /\ HandlesInv /\ IdsInv /\ SlidingFacts
  BY <1>1 DEF RefInv, SlidingInv, SlidingFacts
<1>3. /\ mem' = Put([a \in DOMAIN mem \ {i} |-> mem[a]], to, Settled(o))
      /\ UNCHANGED <<breaks, gone>> /\ collapse' = FALSE
  BY <1>1 DEF Slide
<1>4. /\ DOMAIN mem' = (DOMAIN mem \ {i}) \union {to}
      /\ mem'[to] = Settled(o)
      /\ \A a \in DOMAIN mem \ {i, to} : mem'[a] = mem[a]
  BY <1>3 DEF Put
<1>5. /\ Settled(o) \in [kind : Kinds, id : Nat, marked : BOOLEAN, refs : Seq(Refs),
                         env : Environments \union {0}]
      /\ Settled(o).kind = o.kind /\ Settled(o).id = o.id /\ Settled(o).refs = o.refs
      /\ Settled(o).env = o.env /\ Settled(o).marked = FALSE
  <2>1. Settled(o) = [mem[i] EXCEPT !.marked = FALSE] /\ FALSE \in BOOLEAN
    BY <1>1 DEF Settled
  <2> DEFINE p == Settled(o)
  <2> HIDE DEF p
  <2>2. /\ p \in [kind : Kinds, id : Nat, marked : BOOLEAN, refs : Seq(Refs),
                  env : Environments \union {0}]
        /\ p.kind = mem[i].kind /\ p.id = mem[i].id /\ p.refs = mem[i].refs
        /\ p.env = mem[i].env /\ p.marked = FALSE
    <3>1. PICK q : q = mem[i]
      OBVIOUS
    <3>2. p = [q EXCEPT !.marked = FALSE]
      BY <2>1, <3>1 DEF p
    <3>3. q \in [kind : Kinds, id : Nat, marked : BOOLEAN, refs : Seq(Refs),
                 env : Environments \union {0}]
      BY <1>1, <1>2, <3>1 DEF TypeOK
    <3>4. /\ p \in [kind : Kinds, id : Nat, marked : BOOLEAN, refs : Seq(Refs),
                    env : Environments \union {0}]
          /\ p.kind = q.kind /\ p.id = q.id /\ p.refs = q.refs
          /\ p.env = q.env /\ p.marked = FALSE
      BY ONLY <3>2, <3>3
    <3> QED
      BY <3>1, <3>4
  <2> QED
    BY <1>1, <2>2 DEF p
<1>6. to \in Addresses /\ next \in Addresses /\ i \in Addresses
  BY <1>1, SizeAssumption DEF Addresses
\* The objects of now, each from one of before.
<1> DEFINE From(a) == IF a = to THEN i ELSE a
<1>7. \A a \in DOMAIN mem' :
         /\ From(a) \in DOMAIN mem
         /\ mem'[a].id = mem[From(a)].id /\ mem'[a].kind = mem[From(a)].kind
         /\ mem'[a].refs = mem[From(a)].refs /\ mem'[a].env = mem[From(a)].env
  BY <1>1, <1>4, <1>5
<1>8. \A b \in DOMAIN mem : \E a \in DOMAIN mem' : b = From(a)
  <2> SUFFICES ASSUME NEW b \in DOMAIN mem PROVE \E a \in DOMAIN mem' : b = From(a)
    OBVIOUS
  <2>1. CASE b = i
    BY <1>4, <2>1
  <2>2. CASE b # i
    <3>1. b \in DOMAIN mem' /\ b # to
      BY <1>1, <1>4, <2>2
    <3> QED
      BY <3>1
  <2> QED
    BY <2>1, <2>2
<1>9. \A a, b \in DOMAIN mem' : From(a) = From(b) => a = b
  BY <1>1, <1>4
<1> HIDE DEF From
<1>10. TypeOK'
  <2>1. DOMAIN mem' \subseteq Addresses
    BY <1>2, <1>4, <1>6 DEF TypeOK
  <2>2. \A a \in DOMAIN mem' :
          mem'[a] \in [kind : Kinds, id : Nat, marked : BOOLEAN, refs : Seq(Refs),
                       env : Environments \union {0}]
    BY <1>2, <1>4, <1>5 DEF TypeOK
  <2>3. index' \in Addresses /\ collapse' \in BOOLEAN
    BY <1>1, <1>3, <1>6
  <2> QED
    BY <1>1, <1>2, <1>3, <2>1, <2>2, <2>3 DEF TypeOK
<1>11. IdsInv'
  <2>1. \A a, b \in DOMAIN mem' : mem'[a].id = mem'[b].id => a = b
    BY <1>2, <1>7, <1>9 DEF IdsInv
  <2>2. \A a \in DOMAIN mem' : mem'[a].id # 0
    BY <1>2, <1>7 DEF IdsInv
  <2>3. \A a \in DOMAIN mem' : mem'[a].kind = "str" => mem'[a].refs = <<>> /\ mem'[a].env = 0
    BY <1>2, <1>7 DEF IdsInv
  <2> QED
    BY <1>1, <1>2, <2>1, <2>2, <2>3 DEF IdsInv
<1>12. LiveIds' = LiveIds
  BY <1>7, <1>8 DEF LiveIds
<1>13. \A x : Gone(x)' <=> Gone(x)
  BY <1>7, <1>8 DEF Gone
<1>14. RootSet' = RootSet /\ Variables' = Variables /\ \A e : EnvSet(e)' = EnvSet(e)
  BY <1>1, SameRoots
<1>15. \A a \in DOMAIN mem' : ChildSet(mem[a])' = ChildSet(mem[From(a)])
  BY <1>7, <1>14 DEF ChildSet
<1>16. index' - gone' = to + (next - i) /\ to < index' - gone' /\ index' - gone' <= next
  BY <1>1, <1>3
<1>17. \A a \in DOMAIN mem' : a = to \/ a < to \/ a >= next
  BY <1>1, <1>4
<1>18. \A a \in DOMAIN mem' : a \in Staying' <=> From(a) \in Staying
  <2> SUFFICES ASSUME NEW a \in DOMAIN mem' PROVE a \in Staying' <=> From(a) \in Staying
    OBVIOUS
  <2>1. CASE a = to
    BY <1>1, <1>7, <1>16, <2>1 DEF Staying, From
  <2>2. CASE a # to
    <3>1. From(a) = a /\ a \in DOMAIN mem /\ mem'[a] = mem[a] /\ a # i
      BY <1>1, <1>4, <2>2 DEF From
    <3>2. Kept(mem[a])' <=> Kept(mem[a])
      BY <1>1, <3>1 DEF Kept
    <3>3. a < index' - gone' <=> a < index - gone
      BY <1>1, <1>16, <1>17, <2>2, <3>1
    <3> QED
      BY <3>1, <3>2, <3>3 DEF Staying
  <2> QED
    BY <2>1, <2>2
<1>19. ASSUME NEW x, Stays(x) PROVE Stays(x)'
  <2>1. CASE IsChar(x)
    BY <2>1 DEF Stays
  <2>2. CASE ~IsChar(x)
    <3>1. PICK b \in Staying : mem[b].id = x.id
      BY <1>19, <2>2 DEF Stays
    <3>2. PICK a \in DOMAIN mem' : b = From(a)
      BY <1>8, <3>1 DEF Staying
    <3> QED
      BY <1>7, <1>18, <3>1, <3>2 DEF Stays
  <2> QED
    BY <2>1, <2>2
<1>20. \A x \in Int : Shift(breaks', x) = Shift(breaks, x)
  BY <1>3
<1>21. ASSUME NEW x \in Refs, Follows(x) PROVE Follows(x)'
  <2>1. CASE IsChar(x) \/ Gone(x)
    BY <1>13, <2>1 DEF Follows
  <2>2. CASE x.at >= index /\ Valid(x) /\ ~IsChar(x)
    <3>1. x.at \in DOMAIN mem /\ mem[x.at].id = x.id
      BY <2>2 DEF Valid
    <3>2. CASE x.at = i
      <4>1. Shift(breaks, i) = gone
        <5>1. i \in index..Capacity
          BY <1>1, SizeAssumption
        <5> QED
          BY <1>2, <5>1 DEF SlidingFacts, BreaksInv
      <4>2. x.at - Shift(breaks', x.at) = to
        BY <1>1, <1>3, <3>2, <4>1
      <4>3. to \in DOMAIN mem' /\ mem'[to].id = x.id
        BY <1>1, <1>4, <1>5, <3>1, <3>2
      <4>4. Reaches(x)'
        BY <4>2, <4>3 DEF Reaches
      <4>5. x.at < index'
        BY <1>1, <3>2
      <4> QED
        BY <1>3, <1>16, <4>2, <4>4, <4>5 DEF Follows
    <3>3. CASE x.at # i
      <4>1. x.at >= next /\ x.at # to
        BY <1>1, <2>2, <3>1, <3>3
      <4>2. x.at \in DOMAIN mem' /\ mem'[x.at] = mem[x.at]
        BY <1>4, <3>1, <3>3, <4>1
      <4>3. Valid(x)'
        BY <3>1, <4>2 DEF Valid
      <4> QED
        BY <1>1, <4>1, <4>3 DEF Follows
    <3> QED
      BY <3>2, <3>3
  <2>3. CASE /\ x.at < index /\ x.at - Shift(breaks, x.at) < index - gone
             /\ Reaches(x)
    <3>1. /\ x.at - Shift(breaks, x.at) \in DOMAIN mem
          /\ mem[x.at - Shift(breaks, x.at)].id = x.id
          /\ x.at - Shift(breaks, x.at) < to
      BY <1>1, <2>3 DEF Reaches
    <3>2. /\ x.at - Shift(breaks', x.at) \in DOMAIN mem'
          /\ mem'[x.at - Shift(breaks', x.at)].id = x.id
          /\ x.at - Shift(breaks', x.at) < index' - gone'
      <4>1. PICK d : d = x.at - Shift(breaks, x.at)
        OBVIOUS
      <4>2. d \in DOMAIN mem /\ mem[d].id = x.id /\ d < to /\ d \in Nat
        BY <1>1, <3>1, <4>1
      <4>3. d \in DOMAIN mem' /\ mem'[d].id = x.id /\ d < index' - gone'
        BY <1>1, <1>4, <1>16, <4>2
      <4>4. d = x.at - Shift(breaks', x.at)
        BY <1>3, <4>1
      <4> QED
        BY <4>3, <4>4
    <3>3. x.at < index'
      BY <1>1, <2>3, RefType
    <3> QED
      BY <1>3, <3>2, <3>3 DEF Follows, Reaches
  <2> QED
    BY <1>21, <2>1, <2>2, <2>3 DEF Follows
<1>22. RootSet \subseteq Refs /\ Variables \subseteq Refs /\ \A a \in DOMAIN mem : ChildSet(mem[a]) \subseteq Refs
  BY <1>2, RootTypes
<1>23. BreaksInv'
  <2>1. \A k \in DOMAIN breaks' : breaks'[k].at < index'
    <3>1. \A k \in DOMAIN breaks : breaks[k].at \in Int
      <4>1. breaks \in Breaks
        BY <1>2 DEF TypeOK, Breaks
      <4> QED
        BY <4>1, BreakType
    <3> QED
      BY <1>1, <1>2, <1>3, <3>1 DEF SlidingFacts, BreaksInv
  <2>2. \A x \in index'..Capacity : x \in index..Capacity
    BY <1>1, SizeAssumption
  <2> QED
    BY <1>2, <1>3, <2>1, <2>2 DEF SlidingFacts, BreaksInv
<1>24. ASSUME NEW a \in DOMAIN mem', a < index' - gone'
       PROVE  ~mem'[a].marked
  <2>1. CASE a = to
    BY <1>4, <1>5, <2>1
  <2>2. CASE a # to
    <3>1. a \in DOMAIN mem /\ a < index - gone /\ mem'[a] = mem[a]
      BY <1>1, <1>4, <1>16, <1>17, <1>24, <2>2
    <3> QED
      BY <1>2, <3>1 DEF SlidingFacts
  <2> QED
    BY <2>1, <2>2
<1>25. \A r \in RootSet' : Follows(r)' /\ Stays(r)'
  BY <1>2, <1>14, <1>19, <1>21, <1>22 DEF SlidingFacts
<1>26. \A a \in DOMAIN mem' : \A r \in ChildSet(mem[a])' : Follows(r)'
  BY <1>2, <1>7, <1>15, <1>21, <1>22 DEF SlidingFacts
<1>27. ASSUME NEW a \in Staying', NEW r \in ChildSet(mem[a])' PROVE Stays(r)'
  <2>1. a \in DOMAIN mem'
    BY DEF Staying
  <2> QED
    BY <1>2, <1>15, <1>18, <1>19, <1>27, <2>1 DEF SlidingFacts
<1>28. \A r \in Variables' : Follows(r)'
  BY <1>2, <1>14, <1>21, <1>22 DEF SlidingFacts
<1>29. ASSUME NEW S \in SUBSET LiveIds', ClosedAmong(S, Staying)', NEW a \in Staying'
       PROVE  mem'[a].id \in S \union charMarks'
  <2>1. ClosedAmong(S, Staying)
    <3>1. ObjectIds(RootSet) \subseteq S
      BY <1>14, <1>29 DEF ClosedAmong, ObjectIds
    <3>2. ASSUME NEW b \in Staying, mem[b].id \in S
          PROVE  ObjectIds(ChildSet(mem[b])) \subseteq S
      <4>1. PICK c \in DOMAIN mem' : b = From(c)
        BY <1>8, <3>2 DEF Staying
      <4>2. c \in Staying' /\ mem'[c].id \in S
        BY <1>7, <1>18, <3>2, <4>1
      <4>3. ObjectIds(ChildSet(mem[c]))' \subseteq S
        BY <1>29, <4>2 DEF ClosedAmong
      <4> QED
        BY <1>15, <4>1, <4>3 DEF ObjectIds
    <3> QED
      BY <3>1, <3>2 DEF ClosedAmong
  <2>2. a \in DOMAIN mem'
    BY DEF Staying
  <2> QED
    BY <1>1, <1>2, <1>7, <1>12, <1>18, <2>1, <2>2 DEF SlidingFacts
<1> QED
  BY <1>10, <1>11, <1>23, <1>24, <1>25, <1>26, <1>27, <1>28, <1>29 DEF SlidingFacts

\* The breaks when an object is skipped: what lies above it is the farther away.
LEMMA NotedIs ==
  ASSUME RefInv, HeapInv, Slide, ~Kept(mem[index])
  PROVE  LET size == Size[mem[index].kind] IN
         /\ mem' = [a \in DOMAIN mem \ {index} |-> mem[a]]
         /\ gone' = gone + size /\ collapse' = TRUE
         /\ breaks' \in Breaks /\ breaks' # <<>>
         /\ \A k \in DOMAIN breaks' : breaks'[k].at <= index
         /\ Last(breaks').at = IF collapse THEN Last(breaks).at ELSE index
         /\ \A x \in Int : Shift(breaks', x) =
              Shift(breaks, x) + (IF Last(breaks').at < x THEN size ELSE 0)
<1> DEFINE size == Size[mem[index].kind]
<1>1. /\ mem' = [a \in DOMAIN mem \ {index} |-> mem[a]]
      /\ breaks' = Noted(size) /\ gone' = gone + size /\ collapse' = TRUE
  BY DEF Slide
<1>2. pc = "slide" /\ size \in Nat /\ index \in Nat /\ index <= Capacity
  BY SlideFrom, SizeAssumption
<1>3. index \in Addresses
  BY <1>2, SizeAssumption DEF Addresses
<1>4. BreaksInv
  BY <1>2 DEF RefInv, SlidingInv
<1>5. breaks \in Breaks
  BY DEF RefInv, TypeOK, Breaks
<1> HIDE DEF size
<1>6. DOMAIN breaks = 1..Len(breaks) /\ Len(breaks) \in Nat /\ \A k \in DOMAIN breaks : breaks[k].at \in Nat
  BY <1>5, BreakType
<1>7. CASE collapse
  <2>1. breaks # <<>> /\ breaks' = [breaks EXCEPT ![Len(breaks)].size = @ + size]
    BY <1>1, <1>4, <1>7 DEF BreaksInv, Noted
  <2>2. /\ breaks' \in Breaks /\ Len(breaks') = Len(breaks)
        /\ \A k \in 1..Len(breaks) : breaks'[k].at = breaks[k].at
        /\ \A x \in Int : Shift(breaks', x) =
             Shift(breaks, x) + (IF breaks[Len(breaks)].at < x THEN size ELSE 0)
    <3> DEFINE other == [breaks EXCEPT ![Len(breaks)].size = @ + size]
    <3>1. ASSUME NEW x \in Int
          PROVE  /\ other \in Breaks /\ Len(other) = Len(breaks)
                 /\ \A k \in 1..Len(breaks) : other[k].at = breaks[k].at
                 /\ Shift(other, x) =
                      Shift(breaks, x) + (IF breaks[Len(breaks)].at < x THEN size ELSE 0)
      BY <1>2, <1>5, <2>1, ShiftGrow
    <3>2. breaks' = other /\ 0 \in Int
      BY <2>1
    <3> HIDE DEF other
    <3> QED
      BY <3>1, <3>2
  <2>3. Len(breaks) \in 1..Len(breaks) /\ breaks' # <<>> /\ DOMAIN breaks' = 1..Len(breaks)
    <3>1. Len(breaks) \in 1..Len(breaks)
      BY <1>5, <2>1, ElementsOf DEF Breaks
    <3>2. breaks' = <<>> => Len(breaks') = 0
      OBVIOUS
    <3>3. DOMAIN breaks' = 1..Len(breaks')
      BY <2>2, ElementsOf DEF Breaks
    <3> QED
      BY <2>2, <3>1, <3>2, <3>3
  <2>4. Last(breaks) = breaks[Len(breaks)] /\ Last(breaks') = breaks'[Len(breaks)]
    BY <2>2 DEF Last
  <2>5. \A k \in DOMAIN breaks' : breaks'[k].at <= index
    BY <1>2, <1>4, <1>6, <2>2, <2>3 DEF BreaksInv
  <2> QED
    BY <1>1, <1>7, <2>2, <2>3, <2>4, <2>5 DEF size
<1>8. CASE ~collapse
  <2> DEFINE b == [at |-> index, size |-> size]
  <2>1. b \in [at : Addresses, size : Nat] /\ b.at = index /\ b.size = size
    BY <1>2, <1>3
  <2> HIDE DEF b
  <2>2. breaks' = Append(breaks, b)
    BY <1>1, <1>8 DEF Noted, b
  <2>3. /\ breaks' \in Breaks
        /\ \A x \in Int : Shift(breaks', x) = Shift(breaks, x) + Term(b, x)
    BY <1>5, <2>1, <2>2, ShiftAppend
  <2>4. /\ Len(breaks') = Len(breaks) + 1 /\ breaks'[Len(breaks) + 1] = b
        /\ DOMAIN breaks' = 1..Len(breaks) + 1
        /\ \A k \in 1..Len(breaks) : breaks'[k] = breaks[k]
    BY <1>5, <1>6, <2>1, <2>2 DEF Breaks
  <2>5. breaks' # <<>> /\ Last(breaks') = b
    BY <1>6, <2>4 DEF Last
  <2>6. ASSUME NEW k \in DOMAIN breaks' PROVE breaks'[k].at <= index
    <3>1. k \in 1..Len(breaks) \/ k = Len(breaks) + 1
      BY <1>6, <2>4
    <3> QED
      BY <1>2, <1>4, <1>6, <2>1, <2>4, <3>1 DEF BreaksInv
  <2>7. \A x \in Int : Term(b, x) = IF Last(breaks').at < x THEN size ELSE 0
    BY <2>1, <2>5 DEF Term
  <2> QED
    BY <1>1, <1>8, <2>1, <2>3, <2>5, <2>6, <2>7 DEF size
<1> QED
  BY <1>7, <1>8

\* An object that is skipped: what referred to it leads nowhere any more, and
\* references to what has been slid are not affected by the new break.
LEMMA SlideDrops ==
  ASSUME RefInv, HeapInv, Slide, ~Kept(mem[index])
  PROVE  TypeOK' /\ IdsInv' /\ SlidingFacts'
<1>1. PICK i, to, next, size :
         /\ i = index /\ to = i - gone /\ next = i + size /\ size = Size[mem[i].kind]
         /\ pc = "slide" /\ pc' = "slide" /\ index' = next
         /\ UNCHANGED <<end, frames, callStack, immediates, operandStack, handles, plist,
                        charMarks, native, grey, frameSet, fault>>
         /\ end \in Nat /\ end <= Capacity /\ i \in Nat /\ gone \in Nat
         /\ gone <= i /\ to \in Nat /\ to <= i
         /\ size \in Nat \ {0}
         /\ i \in DOMAIN mem /\ next \in Nat /\ i < next /\ next <= end
         /\ \A a \in DOMAIN mem : a \in Nat /\ (a < to \/ a = i \/ a >= next)
  BY SlideFrom
<1>2. TypeOK /\ NativeInv /\ HandlesInv /\ IdsInv /\ SlidingFacts
  BY <1>1 DEF RefInv, SlidingInv, SlidingFacts
<1>3. PICK last :
         /\ last = Last(breaks').at
         /\ mem' = [a \in DOMAIN mem \ {i} |-> mem[a]]
         /\ gone' = gone + size /\ collapse' = TRUE
         /\ breaks' \in Breaks /\ breaks' # <<>>
         /\ \A k \in DOMAIN breaks' : breaks'[k].at <= i
         /\ last = IF collapse THEN Last(breaks).at ELSE i
         /\ \A x \in Int : Shift(breaks', x) =
              Shift(breaks, x) + (IF last < x THEN size ELSE 0)
  BY <1>1, NotedIs
<1>4. /\ DOMAIN mem' = DOMAIN mem \ {i} /\ \A a \in DOMAIN mem' : mem'[a] = mem[a]
  BY <1>3
<1>5. last \in Nat /\ last <= i
  <2>1. Len(breaks') \in DOMAIN breaks' /\ Last(breaks') = breaks'[Len(breaks')]
    BY <1>3, ElementsOf DEF Breaks, Last
  <2>2. breaks'[Len(breaks')].at \in Nat
    BY <1>3, <2>1, BreakType
  <2> QED
    BY <1>3, <2>1, <2>2
<1>6. next \in Addresses /\ gone' \in Addresses
  <2>1. gone' <= next /\ gone' \in Nat
    BY <1>1, <1>3
  <2> QED
    BY <1>1, <2>1, SizeAssumption DEF Addresses
<1>7. TypeOK'
  <2>1. DOMAIN mem' \subseteq Addresses
    BY <1>2, <1>4 DEF TypeOK
  <2>2. \A a \in DOMAIN mem' :
          mem'[a] \in [kind : Kinds, id : Nat, marked : BOOLEAN, refs : Seq(Refs),
                       env : Environments \union {0}]
    BY <1>2, <1>4 DEF TypeOK
  <2>3. breaks' \in Seq([at : Addresses, size : Nat])
    BY <1>3 DEF Breaks
  <2> QED
    BY <1>1, <1>2, <1>6, <2>1, <2>2, <2>3 DEF TypeOK
<1>8. IdsInv'
  BY <1>1, <1>2, <1>4 DEF IdsInv
<1>9. LiveIds' \subseteq LiveIds
  BY <1>4 DEF LiveIds
<1>10. \A x : Gone(x) => Gone(x)'
  BY <1>4 DEF Gone
<1>11. RootSet' = RootSet /\ Variables' = Variables /\ \A e : EnvSet(e)' = EnvSet(e)
  BY <1>1, SameRoots
<1>12. \A a \in DOMAIN mem' : ChildSet(mem[a])' = ChildSet(mem[a])
  BY <1>4, <1>11 DEF ChildSet
<1>13. index' - gone' = to /\ index - gone = to
  BY <1>1, <1>3
<1>14. i \notin Staying
  BY <1>1, <1>13 DEF Staying
<1>15. Staying' = Staying
  <2>1. \A a \in DOMAIN mem' : Kept(mem[a])' <=> Kept(mem[a])
    BY <1>1, <1>4 DEF Kept
  <2>2. Staying' = {a \in DOMAIN mem' : a < index' - gone' \/ Kept(mem[a])'}
    BY DEF Staying
  <2>3. Staying = {a \in DOMAIN mem : a < index - gone \/ Kept(mem[a])}
    BY DEF Staying
  <2> QED
    BY <1>4, <1>13, <1>14, <2>1, <2>2, <2>3
<1>16. Staying \subseteq DOMAIN mem'
  BY <1>4, <1>14 DEF Staying
<1>17. \A x : Stays(x) => Stays(x)'
  BY <1>4, <1>15, <1>16 DEF Stays
<1>18. ASSUME NEW x \in Refs, Follows(x) PROVE Follows(x)'
  <2>1. CASE IsChar(x) \/ Gone(x)
    BY <1>10, <2>1 DEF Follows
  <2>2. CASE x.at >= index /\ Valid(x) /\ ~IsChar(x)
    <3>1. x.at \in DOMAIN mem /\ mem[x.at].id = x.id
      BY <2>2 DEF Valid
    <3>2. CASE x.at = i
      <4>1. ~IsChar(x) /\ \A a \in DOMAIN mem' : mem'[a].id # x.id
        BY <1>2, <1>4, <2>2, <3>1, <3>2 DEF IdsInv
      <4>2. Gone(x)'
        BY <4>1 DEF Gone
      <4> QED
        BY <4>2 DEF Follows
    <3>3. CASE x.at # i
      <4>1. x.at >= next
        BY <1>1, <2>2, <3>1, <3>3
      <4>2. x.at \in DOMAIN mem' /\ mem'[x.at] = mem[x.at]
        BY <1>4, <3>1, <3>3
      <4>3. Valid(x)'
        BY <3>1, <4>2 DEF Valid
      <4> QED
        BY <1>1, <4>1, <4>3 DEF Follows
    <3> QED
      BY <3>2, <3>3
  <2>3. CASE /\ x.at < index /\ x.at - Shift(breaks, x.at) < index - gone
             /\ collapse => x.at < Last(breaks).at
             /\ Reaches(x)
    <3>1. x.at \in Int
      BY <1>18, RefType
    <3>2. x.at < last /\ x.at < index'
      BY <1>1, <1>3, <2>3, <3>1
    <3>3. Shift(breaks', x.at) = Shift(breaks, x.at)
      <4>1. Shift(breaks, x.at) \in Nat
        <5>1. breaks \in Breaks
          BY <1>2 DEF TypeOK, Breaks
        <5> QED
          BY <3>1, <5>1, ShiftType
      <4>2. ~(last < x.at)
        BY <1>5, <3>1, <3>2
      <4> QED
        BY <1>3, <3>1, <4>1, <4>2
    <3>4. PICK d : d = x.at - Shift(breaks, x.at)
      OBVIOUS
    <3>5. d \in DOMAIN mem /\ mem[d].id = x.id /\ d < to /\ d \in Nat
      BY <1>1, <1>13, <2>3, <3>4 DEF Reaches
    <3>6. d \in DOMAIN mem' /\ mem'[d].id = x.id
      BY <1>1, <1>4, <3>5
    <3>7. d = x.at - Shift(breaks', x.at)
      BY <3>3, <3>4
    <3> QED
      BY <1>3, <1>13, <3>2, <3>5, <3>6, <3>7 DEF Follows, Reaches
  <2> QED
    BY <1>18, <2>1, <2>2, <2>3 DEF Follows
<1>19. RootSet \subseteq Refs /\ Variables \subseteq Refs /\ \A a \in DOMAIN mem : ChildSet(mem[a]) \subseteq Refs
  BY <1>2, RootTypes
<1>20. BreaksInv'
  <2>1. \A k \in DOMAIN breaks' : breaks'[k].at < index'
    <3>1. \A k \in DOMAIN breaks' : breaks'[k].at \in Int
      BY <1>3, BreakType
    <3> QED
      BY <1>1, <1>3, <3>1
  <2>2. ASSUME NEW x \in index'..Capacity PROVE Shift(breaks', x) = gone'
    <3>1. x \in index..Capacity /\ last < x /\ x \in Int
      BY <1>1, <1>5, SizeAssumption
    <3>2. Shift(breaks, x) = gone
      BY <1>2, <3>1 DEF SlidingFacts, BreaksInv
    <3> QED
      BY <1>3, <3>1, <3>2
  <2> QED
    BY <1>3, <2>1, <2>2 DEF BreaksInv
<1>21. \A a \in DOMAIN mem' : a < index' - gone' => ~mem'[a].marked
  BY <1>2, <1>4, <1>13 DEF SlidingFacts
<1>22. \A r \in RootSet' : Follows(r)' /\ Stays(r)'
  BY <1>2, <1>11, <1>17, <1>18, <1>19 DEF SlidingFacts
<1>23. \A a \in DOMAIN mem' : \A r \in ChildSet(mem[a])' : Follows(r)'
  BY <1>2, <1>4, <1>12, <1>18, <1>19 DEF SlidingFacts
<1>24. \A a \in Staying' : \A r \in ChildSet(mem[a])' : Stays(r)'
  BY <1>2, <1>12, <1>15, <1>16, <1>17 DEF SlidingFacts
<1>25. \A r \in Variables' : Follows(r)'
  BY <1>2, <1>11, <1>18, <1>19 DEF SlidingFacts
<1>26. ASSUME NEW S \in SUBSET LiveIds', ClosedAmong(S, Staying)', NEW a \in Staying'
       PROVE  mem'[a].id \in S \union charMarks'
  <2>1. ClosedAmong(S, Staying)
    <3>1. ObjectIds(RootSet) \subseteq S
      BY <1>11, <1>26 DEF ClosedAmong, ObjectIds
    <3>2. ASSUME NEW b \in Staying, mem[b].id \in S
          PROVE  ObjectIds(ChildSet(mem[b])) \subseteq S
      <4>1. b \in DOMAIN mem' /\ b \in Staying' /\ mem'[b].id \in S
        BY <1>4, <1>15, <1>16, <3>2
      <4>2. ObjectIds(ChildSet(mem[b]))' \subseteq S
        BY <1>26, <4>1 DEF ClosedAmong
      <4> QED
        BY <1>12, <4>1, <4>2 DEF ObjectIds
    <3> QED
      BY <3>1, <3>2 DEF ClosedAmong
  <2>2. a \in Staying /\ a \in DOMAIN mem' /\ S \in SUBSET LiveIds
    BY <1>9, <1>15, <1>16, <1>26
  <2> QED
    BY <1>1, <1>2, <1>4, <2>1, <2>2 DEF SlidingFacts
<1> QED
  BY <1>7, <1>8, <1>20, <1>21, <1>22, <1>23, <1>24, <1>25, <1>26 DEF SlidingFacts

\* Sliding keeps the invariant: it is TypeOK, IdsInv and SlidingFacts with what does
\* not change.
LEMMA SlideRefs ==
  ASSUME RefInv, HeapInv, Slide
  PROVE  RefInv'
<1>1. /\ pc = "slide" /\ pc' = "slide"
      /\ UNCHANGED <<immediates, operandStack, handles, plist, native>>
  BY SlideFrom
<1>2. TypeOK' /\ IdsInv' /\ SlidingFacts'
  BY SlideKeeps, SlideDrops
<1>3. NativeInv' /\ HandlesInv'
  BY <1>1, NativeWaits DEF RefInv, Paused
<1>4. RestInv' /\ Unmarked' /\ MarkInv' /\ InternalInv' /\ ReachedInv'
  BY <1>1 DEF RestInv, AtRest, Unmarked, MarkInv, InternalInv, ReachedInv
<1>5. SlidingInv'
  BY <1>2 DEF SlidingInv, SlidingFacts
<1> QED
  BY <1>2, <1>3, <1>4, <1>5 DEF RefInv

----------------------------------------------------------------------------------------
(* Remapping. *)

\* What is at its address is not gone.
LEMMA ValidNotGone ==
  ASSUME NEW r, Valid(r)
  PROVE  ~Gone(r)
  BY DEF Valid, Gone

\* A character that would not be moved.
Still(r) == IsChar(r) => Shift(breaks, r.at) = 0

\* A reference that can be found is led to its object.
LEMMA RemappedIs ==
  ASSUME TypeOK, IdsInv, NEW r \in Refs, Found(r), Still(r)
  PROVE  /\ Remapped(r) \in Refs
         /\ IsChar(Remapped(r)) <=> IsChar(r)
         /\ ~Gone(r) => Valid(Remapped(r)) /\ Remapped(r).id = r.id
         /\ Gone(r) => Remapped(r) = Nowhere /\ Gone(Nowhere)
<1>1. r.at \in Int /\ r.id \in Nat /\ r = [at |-> r.at, id |-> r.id]
  BY RefType
<1>2. breaks \in Breaks
  BY DEF TypeOK, Breaks
<1>3. CASE Gone(r)
  <2>1. Remapped(r) = Nowhere
    BY <1>3 DEF Remapped
  <2>2. Nowhere \in Refs /\ ~IsChar(Nowhere) /\ Nowhere.id = 0
    <3>1. Capacity \in Nat /\ Capacity \in Addresses
      BY SizeAssumption DEF Addresses
    <3> QED
      BY <3>1 DEF Nowhere, Refs, IsChar
  <2>3. Gone(Nowhere)
    BY <2>2 DEF IdsInv, Gone
  <2> QED
    BY <1>3, <2>1, <2>2, <2>3 DEF Gone
<1>4. CASE ~Gone(r)
  <2> DEFINE to == r.at - Shift(breaks, r.at)
  <2>1. Remapped(r) = [r EXCEPT !.at = to]
    BY <1>4 DEF Remapped
  <2> HIDE DEF to
  <2>2. Remapped(r) = [at |-> to, id |-> r.id]
    BY <1>1, <2>1
  <2>3. CASE IsChar(r)
    <3>1. Shift(breaks, r.at) = 0
      BY <2>3 DEF Still
    <3>2. Remapped(r) = r
      BY <1>1, <2>2, <3>1 DEF to
    <3> QED
      BY <1>4, <2>3, <3>2 DEF Valid
  <2>4. CASE ~IsChar(r)
    <3>1. to \in DOMAIN mem /\ mem[to].id = r.id
      BY <1>4, <2>4 DEF Found, Reaches, to
    <3>2. to \in Nat /\ to <= Capacity
      BY <3>1, ObjectTypes
    <3>3. Remapped(r) \in Refs /\ Remapped(r).at = to /\ Remapped(r).id = r.id
      <4>1. to \in Addresses
        BY <3>2, SizeAssumption DEF Addresses
      <4> QED
        BY <1>1, <2>2, <4>1 DEF Refs
    <3>4. ~IsChar(Remapped(r)) /\ Valid(Remapped(r))
      BY <3>1, <3>2, <3>3, SizeAssumption DEF IsChar, Valid
    <3> QED
      BY <1>4, <2>4, <3>3, <3>4
  <2> QED
    BY <2>3, <2>4
<1> QED
  BY <1>3, <1>4

\* None of a sequence is moved, when none is astray.
LEMMA StillOf ==
  ASSUME NEW s \in Seq(Refs), ~Astray(s)
  PROVE  \A r \in ToSet(s) : Still(r)
  BY DEF Astray, Still, ToSet

\* The same for all references of a sequence.
LEMMA RemappedAllIs ==
  ASSUME TypeOK, IdsInv, NEW s \in Seq(Refs), \A r \in ToSet(s) : Found(r) /\ Still(r)
  PROVE  /\ RemappedAll(s) \in Seq(Refs)
         /\ Len(RemappedAll(s)) = Len(s) /\ DOMAIN RemappedAll(s) = DOMAIN s
         /\ ToSet(RemappedAll(s)) = {Remapped(r) : r \in ToSet(s)}
<1>1. Len(s) \in Nat /\ DOMAIN s = 1..Len(s) /\ \A i \in DOMAIN s : s[i] \in Refs /\ s[i] \in ToSet(s)
  BY ElementsOf, ToSetOf
<1>2. \A i \in DOMAIN s : Remapped(s[i]) \in Refs
  BY <1>1, RemappedIs
<1>3. RemappedAll(s) = [i \in 1..Len(s) |-> Remapped(s[i])]
  BY <1>1 DEF RemappedAll
<1>4. RemappedAll(s) \in [1..Len(s) -> Refs]
  BY <1>1, <1>2, <1>3
<1>5. RemappedAll(s) \in Seq(Refs) /\ Len(RemappedAll(s)) = Len(s)
  BY <1>1, <1>4, SequenceOf
<1>6. ToSet(RemappedAll(s)) = {Remapped(r) : r \in ToSet(s)}
  <2>1. ToSet(RemappedAll(s)) = {Remapped(s[i]) : i \in 1..Len(s)}
    BY <1>3 DEF ToSet
  <2>2. ToSet(s) = {s[i] : i \in 1..Len(s)}
    BY <1>1 DEF ToSet
  <2> QED
    BY <2>1, <2>2
<1> QED
  BY <1>1, <1>3, <1>5, <1>6

\* The fields of the object at index are updated.
LEMMA RemapInternalInv ==
  ASSUME RefInv, HeapInv, RemapInternal
  PROVE  RefInv'
<1>1. PICK i, next, o :
         /\ i = index /\ o = mem[i] /\ next = i + Size[o.kind]
         /\ pc = "internal" /\ pc' = "internal" /\ index < end /\ index' = next
         /\ ~Astray(o.refs)
         /\ mem' = [mem EXCEPT ![i].refs = RemappedAll(@)]
         /\ frameSet' = frameSet \union Lineage(o.env)
         /\ UNCHANGED <<end, frames, callStack, immediates, operandStack, handles, plist,
                        charMarks, native, grey, gone, breaks, collapse, fault>>
  BY DEF RemapInternal, roots
<1>2. TypeOK /\ NativeInv /\ HandlesInv /\ IdsInv /\ Unmarked /\ InternalInv /\ ReachedInv
  BY DEF RefInv
<1>3. /\ index \in DOMAIN mem \union {end}
      /\ \A r \in RootSet : ~Gone(r)
      /\ \A a \in DOMAIN mem : \A r \in ChildSet(mem[a]) : ~Gone(r)
      /\ \A r \in RootSet \union Variables : Found(r)
      /\ \A a \in DOMAIN mem : \A r \in ToSet(mem[a].refs) :
           IF a < index THEN Valid(r) ELSE Found(r)
      /\ \A a \in DOMAIN mem : a < index => Lineage(mem[a].env) \subseteq frameSet
  BY <1>1, <1>2 DEF InternalInv
<1>4. /\ end \in Nat /\ end <= Capacity /\ Tiled(0, end)
      /\ i \in DOMAIN mem /\ i \in 0..end - 1 /\ DOMAIN mem \subseteq 0..end - 1
  BY <1>1, <1>3 DEF HeapInv, HeapTiled
<1>5. /\ next \in DOMAIN mem \union {end}
      /\ \A a \in DOMAIN mem : a < next => a < i \/ a = i
      /\ i < next /\ next \in Nat /\ next <= Capacity
  <2>1. i \in DOMAIN mem \cap (0..end - 1) /\ 0 \in Int /\ end \in Int
    BY <1>4
  <2>2. /\ next \in (DOMAIN mem \cap (0..end - 1)) \union {end}
        /\ (DOMAIN mem \cap (0..end - 1)) \cap (i + 1..next - 1) = {}
    <3>1. next = i + Size[mem[i].kind]
      BY <1>1
    <3> QED
      BY ONLY <1>4, <2>1, <3>1, NextObject
  <2>3. Size[o.kind] \in Nat \ {0}
    BY <1>1, <1>2, <1>4, ObjectTypes, SizeAssumption
  <2>4. i < next /\ next \in Nat /\ next <= Capacity /\ next \in DOMAIN mem \union {end}
    <3>1. PICK size \in Nat \ {0} : next = i + size
      BY <1>1, <2>3
    <3>2. i < next /\ next \in Nat
      BY <1>4, <3>1
    <3>3. next \in 0..end - 1 \/ next = end
      BY <2>2
    <3> QED
      BY <1>4, <2>2, <3>2, <3>3, SizeAssumption
  <2>5. ASSUME NEW a \in DOMAIN mem, a < next PROVE a < i \/ a = i
    <3>1. a \in 0..end - 1 /\ ~(a \in i + 1..next - 1)
      BY <1>4, <2>2
    <3> QED
      BY <1>4, <2>4, <2>5, <3>1
  <2> QED
    BY <2>4, <2>5
<1>6. /\ o.refs \in Seq(Refs)
      /\ \A r \in ToSet(o.refs) : r \in Refs /\ Found(r) /\ ~Gone(r) /\ Still(r)
  <2>1. o.refs \in Seq(Refs)
    BY <1>1, <1>2, <1>4, ObjectTypes DEF RefSeqs
  <2>2. \A r \in ToSet(o.refs) : r \in ChildSet(mem[i])
    BY <1>1 DEF ChildSet
  <2>3. \A r \in ToSet(o.refs) : Still(r)
    BY <1>1, <2>1, StillOf
  <2> QED
    BY <1>1, <1>3, <1>4, <2>1, <2>2, <2>3, ToSetOf
<1>7. PICK rs : rs = RemappedAll(o.refs)
  OBVIOUS
<1>8. /\ rs \in Seq(Refs)
      /\ Len(rs) = Len(o.refs)
      /\ ToSet(rs) = {Remapped(r) : r \in ToSet(o.refs)}
  BY <1>2, <1>6, <1>7, RemappedAllIs
<1>9. \A r \in ToSet(o.refs) :
         /\ Valid(Remapped(r)) /\ Remapped(r).id = r.id
         /\ IsChar(Remapped(r)) <=> IsChar(r)
  BY <1>2, <1>6, RemappedIs
<1>10. /\ DOMAIN mem' = DOMAIN mem
       /\ \A a \in DOMAIN mem : mem'[a] = IF a = i THEN [mem[i] EXCEPT !.refs = rs] ELSE mem[a]
  BY <1>1, <1>4, <1>7
<1>11. /\ [mem[i] EXCEPT !.refs = rs] \in [kind : Kinds, id : Nat, marked : BOOLEAN, refs : Seq(Refs),
                                           env : Environments \union {0}]
       /\ [mem[i] EXCEPT !.refs = rs].kind = mem[i].kind
       /\ [mem[i] EXCEPT !.refs = rs].id = mem[i].id
       /\ [mem[i] EXCEPT !.refs = rs].env = mem[i].env
       /\ [mem[i] EXCEPT !.refs = rs].marked = mem[i].marked
       /\ [mem[i] EXCEPT !.refs = rs].refs = rs
  BY <1>2, <1>4, <1>8 DEF TypeOK
<1>12. \A a \in DOMAIN mem :
         /\ mem'[a] \in [kind : Kinds, id : Nat, marked : BOOLEAN, refs : Seq(Refs),
                         env : Environments \union {0}]
         /\ mem'[a].kind = mem[a].kind /\ mem'[a].id = mem[a].id
         /\ mem'[a].env = mem[a].env /\ mem'[a].marked = mem[a].marked
         /\ mem'[a].refs = IF a = i THEN rs ELSE mem[a].refs
  BY <1>2, <1>10, <1>11 DEF TypeOK
<1>13. TypeOK'
  <2>1. next \in Addresses
    BY <1>5, SizeAssumption DEF Addresses
  <2>2. frameSet' \subseteq Environments
    BY <1>1, <1>2, LineageIn DEF TypeOK
  <2> QED
    BY <1>1, <1>2, <1>10, <1>12, <2>1, <2>2 DEF TypeOK
<1>14. NativeInv' /\ HandlesInv'
  BY <1>1, <1>2, NativeWaits DEF Paused
<1>15. IdsInv'
  <2>1. mem[i].refs = <<>> => rs = <<>>
    BY <1>1, <1>6, <1>8, ElementsOf
  <2>2. \A a \in DOMAIN mem' : mem'[a].kind = "str" => mem'[a].refs = <<>> /\ mem'[a].env = 0
    BY <1>2, <1>4, <1>10, <1>12, <2>1 DEF IdsInv
  <2> QED
    BY <1>1, <1>2, <1>10, <1>12, <2>2 DEF IdsInv
<1>16. /\ \A x : (Valid(x)' <=> Valid(x)) /\ (Gone(x)' <=> Gone(x))
       /\ LiveIds' = LiveIds
  BY <1>10, <1>12, SameNumbers
<1>17. /\ RootSet' = RootSet /\ Variables' = Variables
       /\ \A e : EnvSet(e)' = EnvSet(e) /\ Lineage(e)' = Lineage(e)
  BY <1>1, SameRoots
<1>18. /\ \A a \in DOMAIN mem \ {i} : ChildSet(mem[a])' = ChildSet(mem[a])
       /\ ChildSet(mem[i])' = ToSet(rs) \union EnvSet(o.env)
       /\ ChildSet(mem[i]) = ToSet(o.refs) \union EnvSet(o.env)
  BY <1>1, <1>4, <1>12, <1>17 DEF ChildSet
<1>19. ASSUME NEW a \in DOMAIN mem
       PROVE  ObjectIds(ChildSet(mem[a]))' = ObjectIds(ChildSet(mem[a]))
  <2>1. CASE a # i
    BY <1>18, <2>1 DEF ObjectIds
  <2>2. CASE a = i
    BY <1>8, <1>9, <1>18, <2>2 DEF ObjectIds
  <2> QED
    BY <2>1, <2>2
<1>20. Unmarked'
  BY <1>1, <1>2, <1>10, <1>12 DEF Unmarked
<1>21. RestInv' /\ MarkInv' /\ SlidingInv'
  BY <1>1 DEF RestInv, AtRest, MarkInv, SlidingInv
<1>22. \A x : Found(x)' <=> Found(x)
  BY <1>1, <1>10, <1>12, <1>16 DEF Found, Reaches
<1>23. InternalInv'
  <2>1. index' \in DOMAIN mem' \union {end'}
    BY <1>1, <1>5, <1>10
  <2>2. \A r \in RootSet' : ~Gone(r)'
    BY <1>3, <1>16, <1>17
  <2>3. ASSUME NEW a \in DOMAIN mem', NEW r \in ChildSet(mem[a])' PROVE ~Gone(r)'
    <3>1. CASE a # i
      BY <1>3, <1>10, <1>16, <1>18, <2>3, <3>1
    <3>2. CASE a = i
      BY <1>3, <1>4, <1>8, <1>9, <1>16, <1>18, <2>3, <3>2, ValidNotGone
    <3> QED
      BY <3>1, <3>2
  <2>4. \A r \in RootSet' \union Variables' : Found(r)'
    BY <1>3, <1>17, <1>22
  <2>5. ASSUME NEW a \in DOMAIN mem', NEW r \in ToSet(mem'[a].refs)
        PROVE  IF a < index' THEN Valid(r)' ELSE Found(r)'
    <3>1. CASE a = i
      <4>1. Valid(r)
        BY <1>8, <1>9, <1>10, <1>12, <2>5, <3>1
      <4> QED
        BY <1>1, <1>5, <1>16, <3>1, <4>1
    <3>2. CASE a # i
      <4>1. a \in DOMAIN mem /\ r \in ToSet(mem[a].refs) /\ IF a < index THEN Valid(r) ELSE Found(r)
        BY <1>3, <1>10, <1>12, <2>5, <3>2
      <4>2. a < index' => a < index
        BY <1>1, <1>5, <3>2, <4>1
      <4>3. a < index => a < index'
        BY <1>1, <1>4, <1>5, <4>1
      <4> QED
        BY <1>16, <1>22, <4>1, <4>2, <4>3
    <3> QED
      BY <3>1, <3>2
  <2>6. \A a \in DOMAIN mem' : a < index' => Lineage(mem[a].env)' \subseteq frameSet'
    BY <1>1, <1>3, <1>5, <1>10, <1>12, <1>17
  <2> QED
    BY <2>1, <2>2, <2>3, <2>4, <2>5, <2>6 DEF InternalInv
<1>24. ReachedInv'
  <2> SUFFICES ASSUME NEW S \in SUBSET LiveIds', ClosedAmong(S, DOMAIN mem)',
                      NEW a \in DOMAIN mem'
               PROVE  mem'[a].id \in S \union charMarks'
    BY DEF ReachedInv
  <2>1. ClosedAmong(S, DOMAIN mem)
    <3>1. ObjectIds(RootSet) \subseteq S
      BY <1>17 DEF ClosedAmong, ObjectIds
    <3>2. \A b \in DOMAIN mem : mem[b].id \in S => ObjectIds(ChildSet(mem[b])) \subseteq S
      BY <1>10, <1>12, <1>19 DEF ClosedAmong
    <3> QED
      BY <3>1, <3>2 DEF ClosedAmong
  <2> QED
    BY <1>1, <1>2, <1>10, <1>12, <1>16, <2>1 DEF ReachedInv
<1> QED
  BY <1>13, <1>14, <1>15, <1>20, <1>21, <1>23, <1>24 DEF RefInv

\* A frame or a handle of which only the references change.
LEMMA FrameChanges ==
  ASSUME TypeOK, NEW e \in Environments, NEW v \in Seq(Refs)
  PROVE  /\ [frames[e] EXCEPT !.vars = v] \in
              [parent : Environments \union {0}, vars : Seq(Refs)]
         /\ [frames[e] EXCEPT !.vars = v].vars = v
         /\ frames[e] \in [parent : Environments \union {0}, vars : Seq(Refs)]
         /\ Free \in [parent : Environments \union {0}, vars : Seq(Refs)]
         /\ Free.vars = <<>>
<1>1. /\ frames[e] = [parent |-> frames[e].parent, vars |-> frames[e].vars]
      /\ frames[e].parent \in Environments \union {0} /\ frames[e].vars \in Seq(Refs)
  BY FrameTypes DEF RefSeqs
<1> QED
  BY <1>1 DEF Free

\* A handle of which only the value changes.
LEMMA HandleChanges ==
  ASSUME TypeOK, NEW h \in DOMAIN handles, NEW v \in Refs
  PROVE  /\ [handles[h] EXCEPT !.val = v] \in [val : Refs, prev : Nat, next : Nat]
         /\ [handles[h] EXCEPT !.val = v].val = v
         /\ [handles[h] EXCEPT !.val = v].next = handles[h].next
         /\ handles[h] \in [val : Refs, prev : Nat, next : Nat]
<1>1. /\ handles[h] = [val |-> handles[h].val, prev |-> handles[h].prev, next |-> handles[h].next]
      /\ handles[h].val \in Refs /\ handles[h].prev \in Nat /\ handles[h].next \in Nat
  BY HandleTypes
<1> QED
  BY <1>1

\* When the internal references are remapped, all objects are below the index.
LEMMA BelowIndex ==
  ASSUME RefInv, HeapInv, pc = "internal", index >= end
  PROVE  \A a \in DOMAIN mem : a < index
<1>1. end \in Nat /\ DOMAIN mem \subseteq 0..end - 1
  BY DEF HeapInv, HeapTiled
<1>2. index \in Nat
  BY SizeAssumption DEF RefInv, TypeOK, Addresses
<1> QED
  BY <1>1, <1>2

\* What the last part of compact does, reference by reference.
LEMMA RemapRootsIs ==
  ASSUME RefInv, HeapInv, RemapRoots
  PROVE  /\ pc = "internal" /\ pc' = "collected"
         /\ UNCHANGED <<mem, end, callStack, plist, charMarks, native, grey, fault>>
         /\ frameSet' = {} /\ index' = 0 /\ gone' = 0 /\ breaks' = <<>> /\ collapse' = FALSE
         /\ frames' \in [Environments -> [parent : Environments \union {0}, vars : Seq(Refs)]]
         /\ \A e \in Environments :
              \/ /\ ToSet(frames'[e].vars) = {Remapped(r) : r \in ToSet(frames[e].vars)}
                 /\ \A r \in ToSet(frames[e].vars) : Still(r)
              \/ /\ frames'[e].vars = <<>>
                 /\ \A i \in DOMAIN callStack : e # callStack[i]
                 /\ \A a \in DOMAIN mem : e # mem[a].env
         /\ \A r \in RootSet : Still(r)
         /\ immediates' \in Seq(Refs) /\ DOMAIN immediates' = DOMAIN immediates
         /\ ToSet(immediates') = {Remapped(r) : r \in ToSet(immediates)}
         /\ operandStack' \in Seq(Refs) /\ Len(operandStack') = Len(operandStack)
         /\ ToSet(operandStack') = {Remapped(r) : r \in ToSet(operandStack)}
         /\ handles' \in Seq([val : Refs, prev : Nat, next : Nat])
         /\ Len(handles') = Len(handles) /\ DOMAIN handles' = DOMAIN handles
         /\ \A h \in DOMAIN handles : /\ handles'[h].next = handles[h].next
                                      /\ handles'[h].val \in {handles[h].val, Remapped(handles[h].val)}
                                      /\ h = plist => handles'[h].val = Remapped(handles[h].val)
                                      /\ h # plist => handles'[h].val = handles[h].val
<1>1. /\ pc = "internal" /\ pc' = "collected" /\ index >= end
      /\ UNCHANGED <<mem, end, callStack, plist, charMarks, native, grey, fault>>
      /\ frameSet' = {} /\ index' = 0 /\ gone' = 0 /\ breaks' = <<>> /\ collapse' = FALSE
      /\ immediates' = RemappedAll(immediates) /\ operandStack' = RemappedAll(operandStack)
      /\ frames' = [e \in Environments |->
                  IF e \in GatheredFrames
                  THEN [frames[e] EXCEPT !.vars = RemappedAll(frames[e].vars)]
                  ELSE IF e \in Owned(callStack, mem) THEN frames[e] ELSE Free]
      /\ handles' = [h \in DOMAIN handles |->
                   IF h \in WalkedHandles
                   THEN [handles[h] EXCEPT !.val = Remapped(handles[h].val)]
                   ELSE handles[h]]
  BY DEF RemapRoots, heap
<1>2. TypeOK /\ NativeInv /\ HandlesInv /\ IdsInv /\ InternalInv
  BY DEF RefInv
<1>3. /\ index \in DOMAIN mem \union {end}
      /\ \A r \in RootSet \union Variables : Found(r)
      /\ \A a \in DOMAIN mem : a < index => Lineage(mem[a].env) \subseteq frameSet
  BY <1>1, <1>2 DEF InternalInv
<1>4. \A a \in DOMAIN mem : a < index
  BY <1>1, BelowIndex
<1>5. Owned(callStack, mem) \subseteq GatheredFrames
  BY <1>3, <1>4 DEF Owned, GatheredFrames
<1>6. /\ \A i \in DOMAIN callStack : callStack[i] \in GatheredFrames
      /\ \A a \in DOMAIN mem : mem[a].env \in Environments => mem[a].env \in GatheredFrames
  <2>1. \A i \in DOMAIN callStack : callStack[i] \in Lineage(callStack[i])
    BY <1>2, StackTypes, LineageIn
  <2>2. \A a \in DOMAIN mem : mem[a].env \in Environments => mem[a].env \in frameSet
    BY <1>3, <1>4, LineageIn
  <2> QED
    BY <2>1, <2>2 DEF GatheredFrames
<1>16. ~RootsAstray /\ ~HeadDestroyed
  BY <1>1, <1>2 DEF RemapRoots, HandlesInv
<1>17. \A r \in ToSet(immediates) \union ToSet(operandStack) \union HandleSet : Still(r)
  <2>1. ~Astray(immediates) /\ ~Astray(operandStack)
    BY <1>16 DEF RootsAstray
  <2>2. \A r \in ToSet(immediates) \union ToSet(operandStack) : Still(r)
    BY <1>2, <2>1, StillOf DEF TypeOK
  <2>3. PICK vals : vals = [i \in DOMAIN Along[plist] |-> handles[Along[plist][i]].val]
    OBVIOUS
  <2>4. vals \in Seq(Refs) /\ ToSet(vals) = HandleSet /\ ~Astray(vals)
    BY <1>2, <1>16, <2>3, HandleRoots DEF RootsAstray
  <2> QED
    BY <2>2, <2>4, StillOf
<1>18. \A r \in RootSet : Still(r)
  <2>1. ~IsChar(NullRef)
    BY SizeAssumption DEF NullRef, IsChar
  <2>2. \A r \in StackSet : Still(r)
    <3> SUFFICES ASSUME NEW i \in DOMAIN callStack, NEW r \in ToSet(frames[callStack[i]].vars)
                 PROVE  Still(r)
      BY DEF StackSet
    <3>1. callStack[i] \in Environments /\ frames[callStack[i]].vars \in Seq(Refs)
      BY <1>2, StackTypes, FrameTypes DEF RefSeqs
    <3>2. ~Astray(frames[callStack[i]].vars)
      BY <1>6, <1>16 DEF RootsAstray
    <3> QED
      BY <3>1, <3>2, StillOf
  <2> QED
    BY <1>17, <2>1, <2>2 DEF RootSet, Still
<1>7. /\ immediates \in Seq(Refs) /\ operandStack \in Seq(Refs)
      /\ \A r \in ToSet(immediates) \union ToSet(operandStack) \union HandleSet : Found(r) /\ Still(r)
  BY <1>2, <1>3, <1>17 DEF TypeOK, RootSet
<1>8. /\ immediates' \in Seq(Refs) /\ DOMAIN immediates' = DOMAIN immediates
      /\ ToSet(immediates') = {Remapped(r) : r \in ToSet(immediates)}
  BY <1>1, <1>2, <1>7, RemappedAllIs
<1>9. /\ operandStack' \in Seq(Refs) /\ Len(operandStack') = Len(operandStack)
      /\ ToSet(operandStack') = {Remapped(r) : r \in ToSet(operandStack)}
  BY <1>1, <1>2, <1>7, RemappedAllIs
<1>10. ASSUME NEW e \in Environments
       PROVE  /\ frames'[e] \in [parent : Environments \union {0}, vars : Seq(Refs)]
              /\ \/ /\ ToSet(frames'[e].vars) = {Remapped(r) : r \in ToSet(frames[e].vars)}
                    /\ \A r \in ToSet(frames[e].vars) : Still(r)
                 \/ /\ frames'[e].vars = <<>>
                    /\ \A i \in DOMAIN callStack : e # callStack[i]
                    /\ \A a \in DOMAIN mem : e # mem[a].env
  <2>1. CASE e \in GatheredFrames
    <3>1. frames[e].vars \in Seq(Refs) /\ \A r \in ToSet(frames[e].vars) : Found(r) /\ Still(r)
      <4>1. frames[e].vars \in Seq(Refs) /\ \A r \in ToSet(frames[e].vars) : Found(r)
        BY <1>2, <1>3, FrameTypes DEF RefSeqs, Variables
      <4>2. ~Astray(frames[e].vars)
        BY <1>16, <2>1 DEF RootsAstray
      <4> QED
        BY <4>1, <4>2, StillOf
    <3>2. PICK v : v = RemappedAll(frames[e].vars)
      OBVIOUS
    <3>3. v \in Seq(Refs) /\ ToSet(v) = {Remapped(r) : r \in ToSet(frames[e].vars)}
      BY <1>2, <3>1, <3>2, RemappedAllIs
    <3>4. frames'[e] = [frames[e] EXCEPT !.vars = v]
      BY <1>1, <2>1, <3>2
    <3> QED
      BY <1>2, <3>1, <3>3, <3>4, FrameChanges
  <2>2. CASE e \notin GatheredFrames
    <3>1. frames'[e] = Free
      BY <1>1, <1>5, <2>2
    <3>2. <<>> \in Seq(Refs)
      OBVIOUS
    <3>3. frames'[e] \in [parent : Environments \union {0}, vars : Seq(Refs)] /\ frames'[e].vars = <<>>
      BY <1>2, <3>1, <3>2, FrameChanges
    <3>4. (\A i \in DOMAIN callStack : e # callStack[i]) /\ (\A a \in DOMAIN mem : e # mem[a].env)
      BY <1>6, <2>2
    <3> QED
      BY <3>3, <3>4
  <2> QED
    BY <2>1, <2>2
<1>11. frames' \in [Environments -> [parent : Environments \union {0}, vars : Seq(Refs)]]
  <2>1. frames' = [e \in Environments |-> frames'[e]]
    BY <1>1
  <2> QED
    BY <1>10, <2>1
<1>12. Len(handles) \in Nat /\ DOMAIN handles = 1..Len(handles) /\ ~HeadDestroyed
  BY <1>1, <1>2, ElementsOf DEF TypeOK, HandlesInv
<1>13. WalkedHandles = {plist} \ {0}
  <2>1. Along[plist] = IF plist = 0 THEN <<>> ELSE <<plist>>
    BY <1>2, <1>12, AlongIs
  <2>2. ToSet(<<plist>>) = {plist}
    BY DEF ToSet
  <2> QED
    BY <2>1, <2>2, ToSetEmpty DEF WalkedHandles
<1>14. ASSUME NEW h \in DOMAIN handles
       PROVE  /\ handles'[h] \in [val : Refs, prev : Nat, next : Nat]
              /\ handles'[h].next = handles[h].next
              /\ h = plist => handles'[h].val = Remapped(handles[h].val)
              /\ h # plist => handles'[h].val = handles[h].val
  <2>1. CASE h = plist
    <3>1. h # 0 /\ h \in WalkedHandles
      BY <1>12, <1>13, <2>1
    <3>2. handles[h].val \in HandleSet /\ handles[h].val \in Refs
      BY <1>2, <2>1, HandleTypes DEF HandleSet
    <3>3. PICK v : v = Remapped(handles[h].val)
      OBVIOUS
    <3>4. v \in Refs
      BY <1>2, <1>7, <3>2, <3>3, RemappedIs
    <3>5. handles'[h] = [handles[h] EXCEPT !.val = v]
      BY <1>1, <3>1, <3>3
    <3> QED
      BY <1>2, <2>1, <3>3, <3>4, <3>5, HandleChanges
  <2>2. CASE h # plist
    <3>1. handles'[h] = handles[h]
      BY <1>1, <1>13, <2>2
    <3>2. handles[h].val \in Refs
      BY <1>2, HandleTypes
    <3> QED
      BY <1>2, <2>2, <3>1, <3>2, HandleChanges
  <2> QED
    BY <2>1, <2>2
<1>15. handles' \in Seq([val : Refs, prev : Nat, next : Nat]) /\ Len(handles') = Len(handles) /\ DOMAIN handles' = DOMAIN handles
  <2>1. handles' = [h \in 1..Len(handles) |-> handles'[h]]
    BY <1>1, <1>12
  <2>2. handles' \in [1..Len(handles) -> [val : Refs, prev : Nat, next : Nat]]
    BY <1>12, <1>14, <2>1
  <2>3. PICK hs : hs = handles'
    OBVIOUS
  <2>4. hs \in Seq([val : Refs, prev : Nat, next : Nat]) /\ Len(hs) = Len(handles)
    BY <1>12, <2>2, <2>3, SequenceOf
  <2>5. DOMAIN handles' = 1..Len(handles)
    BY <2>1
  <2> QED
    BY <1>12, <2>3, <2>4, <2>5
<1> QED
  BY <1>1, <1>8, <1>9, <1>10, <1>11, <1>14, <1>15, <1>18

\* Remapping the roots makes every reference of the program valid again.
LEMMA RemapRootsInv ==
  ASSUME RefInv, HeapInv, RemapRoots
  PROVE  RefInv'
<1>1. /\ pc = "internal" /\ pc' = "collected"
      /\ UNCHANGED <<mem, end, callStack, plist, charMarks, native, grey, fault>>
      /\ frameSet' = {} /\ index' = 0 /\ gone' = 0 /\ breaks' = <<>> /\ collapse' = FALSE
      /\ frames' \in [Environments -> [parent : Environments \union {0}, vars : Seq(Refs)]]
      /\ immediates' \in Seq(Refs) /\ DOMAIN immediates' = DOMAIN immediates
      /\ operandStack' \in Seq(Refs) /\ Len(operandStack') = Len(operandStack)
      /\ handles' \in Seq([val : Refs, prev : Nat, next : Nat])
      /\ Len(handles') = Len(handles) /\ DOMAIN handles' = DOMAIN handles
  BY RemapRootsIs
<1>2. /\ ToSet(immediates') = {Remapped(r) : r \in ToSet(immediates)}
      /\ ToSet(operandStack') = {Remapped(r) : r \in ToSet(operandStack)}
      /\ \A h \in DOMAIN handles : /\ handles'[h].next = handles[h].next
                                   /\ h = plist => handles'[h].val = Remapped(handles[h].val)
                                   /\ h # plist => handles'[h].val = handles[h].val
  BY RemapRootsIs
<1>3. /\ \A e \in Environments :
           \/ /\ ToSet(frames'[e].vars) = {Remapped(r) : r \in ToSet(frames[e].vars)}
              /\ \A r \in ToSet(frames[e].vars) : Still(r)
           \/ /\ frames'[e].vars = <<>>
              /\ \A i \in DOMAIN callStack : e # callStack[i]
              /\ \A a \in DOMAIN mem : e # mem[a].env
      /\ \A r \in RootSet : Still(r)
  BY RemapRootsIs
<1>4. TypeOK /\ NativeInv /\ HandlesInv /\ IdsInv /\ Unmarked /\ InternalInv /\ ReachedInv
  BY DEF RefInv
<1>5. /\ index \in DOMAIN mem \union {end}
      /\ \A r \in RootSet : ~Gone(r)
      /\ \A a \in DOMAIN mem : \A r \in ChildSet(mem[a]) : ~Gone(r)
      /\ \A r \in RootSet \union Variables : Found(r)
      /\ \A a \in DOMAIN mem : \A r \in ToSet(mem[a].refs) : a < index => Valid(r)
  BY <1>1, <1>4 DEF InternalInv
<1>6. \A a \in DOMAIN mem : a < index
  BY <1>1, BelowIndex DEF RemapRoots
<1>7. /\ RootSet \subseteq Refs /\ Variables \subseteq Refs /\ NullRef \in Refs
      /\ \A a \in DOMAIN mem : ChildSet(mem[a]) \subseteq Refs
      /\ \A e \in Environments \union {0} : EnvSet(e) \subseteq Refs /\ EnvSet(e) \subseteq Variables
      /\ StackSet \subseteq Variables
  BY <1>4, RootTypes
<1>8. TypeOK'
  <2>1. 0 \in Addresses /\ <<>> \in Seq([at : Addresses, size : Nat]) /\ {} \subseteq Environments
    BY SizeAssumption DEF Addresses
  <2> QED
    BY <1>1, <1>4, <2>1 DEF TypeOK
<1>9. ASSUME NEW r \in RootSet \union Variables, Still(r)
      PROVE  /\ Remapped(r) \in Refs
             /\ IsChar(Remapped(r)) <=> IsChar(r)
             /\ ~Gone(r) => Valid(Remapped(r)) /\ Remapped(r).id = r.id
             /\ Gone(r) => Remapped(r) = Nowhere /\ Gone(Nowhere)
  BY <1>4, <1>5, <1>7, <1>9, RemappedIs
<1>10. /\ \A x : (Valid(x)' <=> Valid(x)) /\ (Gone(x)' <=> Gone(x))
       /\ LiveIds' = LiveIds
  BY <1>1, SameNumbers
<1>11. IdsInv'
  BY <1>1, <1>4 DEF IdsInv
<1>12. Unmarked'
  BY <1>1, <1>4 DEF Unmarked
<1>13. MarkInv' /\ SlidingInv' /\ InternalInv'
  BY <1>1 DEF MarkInv, SlidingInv, InternalInv
<1>15. NativeInv' /\ HandlesInv'
  <2>1. /\ Len(handles) \in Nat /\ DOMAIN handles = 1..Len(handles)
        /\ (handles = <<>> <=> Len(handles) = 0)
    BY <1>4, ElementsOf DEF TypeOK
  <2>2. handles' = <<>> <=> Len(handles') = 0
    BY <1>1, ElementsOf
  <2>3. Ready(native)'
    BY <1>1, <1>4 DEF NativeInv, Ready
  <2>4. Handled(native)'
    <3>1. Handled(native)
      BY <1>4 DEF NativeInv
    <3>2. Nested(native)' <=> Nested(native)
      BY <1>1 DEF Nested, BelowOf
    <3> QED
      BY <1>1, <2>1, <2>2, <3>1, <3>2 DEF Handled
  <2>5. NativeInv'
    BY <1>1, <1>4, <2>3, <2>4 DEF NativeInv
  <2>6. HandlesInv'
    BY <1>1, <1>2, <1>4, <2>1, <2>2 DEF HandlesInv, HeadDestroyed
  <2> QED
    BY <2>5, <2>6
<1>16. \A i \in DOMAIN callStack : callStack[i] \in Environments
  BY <1>4, StackTypes
<1>17. StackSet' = {Remapped(r) : r \in StackSet}
  <2>1. \A i \in DOMAIN callStack :
           ToSet(frames'[callStack[i]].vars) = {Remapped(r) : r \in ToSet(frames[callStack[i]].vars)}
    BY <1>3, <1>16
  <2>2. StackSet' = UNION {ToSet(frames'[callStack[i]].vars) : i \in DOMAIN callStack}
    BY <1>1 DEF StackSet
  <2>3. \A x : x \in StackSet' <=> \E i \in DOMAIN callStack : x \in ToSet(frames'[callStack[i]].vars)
    BY <2>2
  <2>4. \A x : x \in StackSet <=> \E i \in DOMAIN callStack : x \in ToSet(frames[callStack[i]].vars)
    BY DEF StackSet
  <2>5. ASSUME NEW x \in StackSet' PROVE \E r \in StackSet : x = Remapped(r)
    <3>1. PICK i \in DOMAIN callStack : x \in ToSet(frames'[callStack[i]].vars)
      BY <2>3
    <3>2. PICK r \in ToSet(frames[callStack[i]].vars) : x = Remapped(r)
      BY <2>1, <3>1
    <3> QED
      BY <2>4, <3>2
  <2>6. ASSUME NEW r \in StackSet PROVE Remapped(r) \in StackSet'
    <3>1. PICK i \in DOMAIN callStack : r \in ToSet(frames[callStack[i]].vars)
      BY <2>4
    <3>2. Remapped(r) \in ToSet(frames'[callStack[i]].vars)
      BY <2>1, <3>1
    <3> QED
      BY <2>3, <3>2
  <2> QED
    BY <2>5, <2>6
<1>18. HandleSet' = {Remapped(r) : r \in HandleSet}
  BY <1>1, <1>2 DEF HandleSet
<1>19. Remapped(NullRef) = NullRef
  <2>1. ~Gone(NullRef) /\ NullRef.at = 0
    BY <1>5 DEF RootSet, NullRef
  <2>2. breaks \in Breaks /\ \A k \in 1..Len(breaks) : ~(breaks[k].at < 0)
    <3>1. breaks \in Breaks
      BY <1>4 DEF TypeOK, Breaks
    <3>2. \A k \in 1..Len(breaks) : breaks[k].at \in Nat
      BY <3>1, BreakType
    <3> QED
      BY <3>1, <3>2
  <2>3. Shift(breaks, 0) = 0
    BY <2>2, ShiftNone
  <2>4. Remapped(NullRef) = [NullRef EXCEPT !.at = @ - Shift(breaks, @)]
    BY <2>1 DEF Remapped
  <2> QED
    BY <2>1, <2>3, <2>4 DEF NullRef
<1>20. RootSet' = {Remapped(r) : r \in RootSet}
  BY <1>2, <1>17, <1>18, <1>19 DEF RootSet
<1>21. ASSUME NEW a \in DOMAIN mem, mem[a].env # 0
       PROVE  EnvSet(mem[a].env)' = {Remapped(r) : r \in EnvSet(mem[a].env)}
  <2>1. mem[a].env \in Environments
    BY <1>4, <1>21, ObjectTypes
  <2>2. ToSet(frames'[mem[a].env].vars) = {Remapped(r) : r \in ToSet(frames[mem[a].env].vars)}
    BY <1>3, <2>1
  <2> QED
    BY <1>1, <1>21, <2>2 DEF EnvSet
<1>22. ASSUME NEW a \in DOMAIN mem
       PROVE  ChildSet(mem[a])' = ToSet(mem[a].refs) \union {Remapped(r) : r \in EnvSet(mem[a].env)}
  <2>1. CASE mem[a].env # 0
    BY <1>1, <1>21, <2>1 DEF ChildSet
  <2>2. CASE mem[a].env = 0
    BY <1>1, <2>2 DEF ChildSet, EnvSet
  <2> QED
    BY <2>1, <2>2
<1>23. \A a \in DOMAIN mem : \A r \in EnvSet(mem[a].env) : r \in Variables /\ ~Gone(r) /\ Still(r)
  <2>1. \A a \in DOMAIN mem : \A r \in EnvSet(mem[a].env) : r \in Variables /\ ~Gone(r)
    BY <1>4, <1>5, <1>7, ObjectTypes DEF ChildSet
  <2>2. \A a \in DOMAIN mem : \A r \in EnvSet(mem[a].env) : Still(r)
    BY <1>3, <1>4, ObjectTypes DEF EnvSet
  <2> QED
    BY <2>1, <2>2
<1>24. RestInv'
  <2>1. \A x \in RootSet' : Valid(x)'
    BY <1>3, <1>5, <1>9, <1>10, <1>20
  <2>2. \A a \in DOMAIN mem' : \A x \in ChildSet(mem[a])' : Valid(x)'
    BY <1>1, <1>5, <1>6, <1>9, <1>10, <1>22, <1>23
  <2>3. ASSUME NEW x \in Variables' PROVE Valid(x)' \/ Gone(x)'
    <3>1. PICK e \in Environments : x \in ToSet(frames'[e].vars)
      BY DEF Variables
    <3>2. PICK r \in ToSet(frames[e].vars) : x = Remapped(r) /\ Still(r)
      BY <1>3, <3>1, ToSetEmpty
    <3>3. r \in Variables
      BY <3>2 DEF Variables
    <3> QED
      BY <1>9, <1>10, <3>2, <3>3
  <2> QED
    BY <2>1, <2>2, <2>3 DEF RestInv
<1>25. ObjectIds(RootSet)' = ObjectIds(RootSet)
  <2>1. \A r \in RootSet : (IsChar(Remapped(r)) <=> IsChar(r)) /\ Remapped(r).id = r.id
    BY <1>3, <1>5, <1>9
  <2> QED
    BY <1>20, <2>1 DEF ObjectIds
<1>26. ASSUME NEW a \in DOMAIN mem
       PROVE  ObjectIds(ChildSet(mem[a]))' = ObjectIds(ChildSet(mem[a]))
  <2>1. \A r \in EnvSet(mem[a].env) : (IsChar(Remapped(r)) <=> IsChar(r)) /\ Remapped(r).id = r.id
    BY <1>9, <1>23
  <2>2. ChildSet(mem[a]) = ToSet(mem[a].refs) \union EnvSet(mem[a].env)
    BY DEF ChildSet
  <2>3. ObjectIds(ChildSet(mem[a]))' = {r.id : r \in {q \in ChildSet(mem[a])' : ~IsChar(q)}}
    BY DEF ObjectIds
  <2> QED
    BY <1>22, <2>1, <2>2, <2>3 DEF ObjectIds
<1>27. ReachedInv'
  <2> SUFFICES ASSUME NEW S \in SUBSET LiveIds', ClosedAmong(S, DOMAIN mem)',
                      NEW a \in DOMAIN mem'
               PROVE  mem'[a].id \in S \union charMarks'
    BY DEF ReachedInv
  <2>1. ClosedAmong(S, DOMAIN mem)
    <3>1. ObjectIds(RootSet) \subseteq S
      BY <1>25 DEF ClosedAmong
    <3>2. \A b \in DOMAIN mem : mem[b].id \in S => ObjectIds(ChildSet(mem[b])) \subseteq S
      BY <1>1, <1>26 DEF ClosedAmong
    <3> QED
      BY <3>1, <3>2 DEF ClosedAmong
  <2> QED
    BY <1>1, <1>4, <1>10, <2>1 DEF ReachedInv
<1> QED
  BY <1>8, <1>11, <1>12, <1>13, <1>15, <1>24, <1>27 DEF RefInv

\* A collection does not let go of the function that a call is for, though fn may
\* no longer lead there.
LEMMA CollectingFn ==
  ASSUME RefInv, HeapInv, FnInv, Collecting
  PROVE  FnInv'
<1> SUFFICES ASSUME native'.op = "variadic" PROVE FnInv'
  BY DEF FnInv
<1>1. native' = native /\ pc \in {"mark", "slide", "internal"}
  BY DEF Collecting, MarkValue, Marked, Slide, Slid, RemapInternal, RemapRoots,
         LoseCharacter, Stop
<1>2. ~IsChar(native.raw) /\ handles[1].val = native.raw
  BY <1>1 DEF FnInv
<1>3. CASE ~RemapRoots
  <2>1. handles' = handles
    BY <1>3 DEF Collecting, MarkValue, Marked, Slide, Slid, RemapInternal, LoseCharacter,
                Stop, roots
  <2> QED
    BY <1>1, <1>2, <2>1 DEF FnInv, IsChar
<1>4. CASE RemapRoots
  <2>1. /\ pc = "internal" /\ pc' = "collected" /\ mem' = mem
        /\ \A h \in DOMAIN handles :
             /\ h = plist => handles'[h].val = Remapped(handles[h].val)
             /\ h # plist => handles'[h].val = handles[h].val
    BY <1>4, RemapRootsIs
  <2>2. TypeOK /\ NativeInv /\ IdsInv /\ InternalInv
    BY DEF RefInv
  <2>3. 1 \in DOMAIN handles
    <3>1. Len(handles) \in {1, 2}
      BY <1>1, <2>2 DEF NativeInv, Handled
    <3>2. DOMAIN handles = 1..Len(handles)
      BY <2>2, ElementsOf DEF TypeOK
    <3> QED
      BY <3>1, <3>2
  <2>4. CASE plist # 1
    BY <1>1, <1>2, <2>1, <2>3, <2>4 DEF FnInv, IsChar
  <2>5. CASE plist = 1
    <3> DEFINE r == native.raw
    <3>7. ~Valid(r) => ~Valid(r)' /\ native'.raw = r
      BY <1>1, <2>1 DEF Valid, IsChar
    <3>8. CASE ~Valid(r)
      BY <1>1, <1>2, <2>1, <3>7, <3>8 DEF FnInv, IsChar
    <3> SUFFICES ASSUME Valid(r) PROVE handles'[1].val = r
      BY <1>1, <1>2, <2>1, <3>8 DEF FnInv, IsChar
    <3>1. r \in Refs /\ r.at \in DOMAIN mem /\ mem[r.at].id = r.id
      BY <1>2, <2>1, <2>2 DEF Valid, NativeInv, Waiters
    <3>2. r \in RootSet
      BY <1>2, <2>3, <2>5 DEF RootSet, HandleSet
    <3>3. ~Gone(r) /\ Reaches(r)
      BY <1>2, <2>1, <2>2, <3>1, <3>2 DEF InternalInv, Found, Gone
    <3>4. r.at - Shift(breaks, r.at) = r.at
      BY <2>2, <3>1, <3>3 DEF Reaches, IdsInv
    <3>5. Remapped(r) = [r EXCEPT !.at = r.at - Shift(breaks, r.at)]
      BY <3>3 DEF Remapped
    <3>6. Remapped(r) = r
      <4>1. r = [at |-> r.at, id |-> r.id]
        BY <3>1, RefType
      <4> QED
        BY <3>4, <3>5, <4>1
    <3> QED
      BY <1>2, <2>1, <2>3, <2>5, <3>6
  <2> QED
    BY <2>4, <2>5
<1> QED
  BY <1>3, <1>4
========================================================================================
