------------------------------- MODULE RefinementProofs --------------------------------
(**************************************************************************************)
(* Module Collection's mapping to memory without addresses (module Objects) takes     *)
(* each step of a program to the step there of the same name, and each step of the    *)
(* collector to Forget or to no step.  For flat programs this is the memory in which  *)
(* a program can get to all that its functions can name, for those with closures the  *)
(* one in which of a function only the variables of its own environment count.        *)
(*                                                                                    *)
(* In every state the mapping is by what references are for (View), so that the       *)
(* proof is about the values of references, never about their addresses.              *)
(**************************************************************************************)
EXTENDS ReferenceProofs

----------------------------------------------------------------------------------------
(* Environments that lead to each other. *)

\* A set of environments with the parents of its members.
HasParents(S) == S \subseteq Environments /\ \A d \in S : frames[d].parent \in S \union {0}

\* The lineage of an environment is such a set, and the smallest.
LEMMA LineageIs ==
  ASSUME TypeOK, NEW e
  PROVE  /\ HasParents(Lineage(e))
         /\ \A S : HasParents(S) /\ e \in S \union {0} => Lineage(e) \subseteq S
<1>1. Lineage(e) \subseteq Environments
  BY LineageIn
<1>2. ASSUME NEW d \in Lineage(e) PROVE frames[d].parent \in Lineage(e) \union {0}
  <2>1. PICK p : p = frames[d].parent
    OBVIOUS
  <2>2. p \in Environments \union {0}
    BY <1>1, <2>1, FrameTypes
  <2>3. ASSUME p # 0 PROVE p \in Lineage(e)
    BY <1>2, <2>1, <2>2, <2>3 DEF Lineage
  <2> QED
    BY <2>1, <2>3
<1>3. ASSUME NEW S, HasParents(S), e \in S \union {0} PROVE Lineage(e) \subseteq S
  BY <1>3 DEF HasParents, Lineage
<1> QED
  BY <1>1, <1>2, <1>3 DEF HasParents

\* It stays when the parents of its environments do.
LEMMA LineageStays ==
  ASSUME TypeOK, TypeOK', NEW e \in Environments \union {0},
         \A d \in Lineage(e) : frames'[d].parent = frames[d].parent
  PROVE  Lineage(e)' = Lineage(e)
<1>1. PICK L, M : L = Lineage(e) /\ M = Lineage(e)'
  OBVIOUS
<1>2. /\ L \subseteq Environments /\ e \in L \union {0}
      /\ \A d \in L : frames[d].parent \in L \union {0}
  BY <1>1, LineageIs, LineageIn DEF HasParents
<1>3. \A S \in SUBSET Environments :
        e \in S \union {0} /\ (\A d \in S : frames'[d].parent \in S \union {0}) => M \subseteq S
  BY <1>1 DEF Lineage
<1>4. M \subseteq L
  BY <1>1, <1>2, <1>3
<1>5. /\ M \subseteq Environments /\ e \in M \union {0}
      /\ \A d \in M : frames'[d].parent \in M \union {0}
  <2>1. M \subseteq Environments /\ e \in M \union {0}
    BY <1>1 DEF Lineage
  <2>2. ASSUME NEW d \in M PROVE frames'[d].parent \in M \union {0}
    <3>1. PICK p : p = frames'[d].parent
      OBVIOUS
    <3>2. p \in Environments \union {0}
      BY <2>1, <3>1 DEF TypeOK
    <3>3. ASSUME p # 0 PROVE p \in M
      BY <1>1, <2>2, <3>1, <3>2, <3>3 DEF Lineage
    <3> QED
      BY <3>1, <3>3
  <2> QED
    BY <2>1, <2>2
<1>6. \A d \in M : frames[d].parent \in M \union {0}
  BY <1>1, <1>4, <1>5
<1>7. L \subseteq M
  BY <1>1, <1>5, <1>6, LineageIs DEF HasParents
<1> QED
  BY <1>1, <1>4, <1>7

\* What the call stack or a function can lead to.
Live == Owned(callStack, mem)

\* Owned environments have their parents among them.
LEMMA OwnedAre ==
  ASSUME TypeOK, NEW stack, NEW memory,
         \A i \in DOMAIN stack : stack[i] \in Environments,
         \A a \in DOMAIN memory : memory[a].env \in Environments \union {0}
  PROVE  /\ HasParents(Owned(stack, memory))
         /\ \A i \in DOMAIN stack : stack[i] \in Owned(stack, memory)
         /\ \A a \in DOMAIN memory : memory[a].env \in Owned(stack, memory) \union {0}
         /\ \A e \in Owned(stack, memory) \union {0} : Lineage(e) \subseteq Owned(stack, memory)
         /\ \A S : /\ HasParents(S)
                   /\ \A i \in DOMAIN stack : stack[i] \in S
                   /\ \A a \in DOMAIN memory : memory[a].env \in S \union {0}
                   => Owned(stack, memory) \subseteq S
<1>1. PICK O : O = Owned(stack, memory)
  OBVIOUS
<1>2. \A d : d \in O <=> \/ \E i \in DOMAIN stack : d \in Lineage(stack[i])
                         \/ \E a \in DOMAIN memory : d \in Lineage(memory[a].env)
  BY <1>1 DEF Owned
<1>3. \A e : HasParents(Lineage(e))
  BY LineageIs
<1>4. HasParents(O)
  BY <1>2, <1>3 DEF HasParents
<1>5. \A i \in DOMAIN stack : stack[i] \in O
  BY <1>2, LineageIn
<1>6. \A a \in DOMAIN memory : memory[a].env \in O \union {0}
  BY <1>2, LineageIn
<1>7. \A e \in O \union {0} : Lineage(e) \subseteq O
  BY <1>4, LineageIs
<1>8. ASSUME NEW S, HasParents(S), \A i \in DOMAIN stack : stack[i] \in S,
             \A a \in DOMAIN memory : memory[a].env \in S \union {0}
      PROVE  O \subseteq S
  BY <1>2, <1>8, LineageIs
<1> QED
  BY <1>1, <1>4, <1>5, <1>6, <1>7, <1>8

\* So have those of a state, of which the running one is one.
LEMMA LiveAre ==
  ASSUME TypeOK
  PROVE  /\ HasParents(Live) /\ Live \subseteq Environments /\ 0 \notin Live
         /\ \A i \in DOMAIN callStack : callStack[i] \in Live
         /\ \A a \in DOMAIN mem : mem[a].env \in Live \union {0}
         /\ \A e \in Live \union {0} : Lineage(e) \subseteq Live
         /\ Env \in Live
<1>1. /\ \A i \in DOMAIN callStack : callStack[i] \in Environments
      /\ Len(callStack) \in DOMAIN callStack /\ Env = callStack[Len(callStack)]
  BY StackTypes
<1>2. \A a \in DOMAIN mem : mem[a].env \in Environments \union {0}
  BY ObjectTypes
<1>3. 0 \notin Environments
  BY SizeAssumption
<1>4. /\ HasParents(Live)
      /\ \A i \in DOMAIN callStack : callStack[i] \in Live
      /\ \A a \in DOMAIN mem : mem[a].env \in Live \union {0}
      /\ \A e \in Live \union {0} : Lineage(e) \subseteq Live
  BY <1>1, <1>2, OwnedAre DEF Live
<1> QED
  BY <1>1, <1>3, <1>4 DEF HasParents

\* They stay when the call stack, the functions and the environments do.
LEMMA LiveStay ==
  ASSUME TypeOK, TypeOK', callStack' = callStack,
         \A e \in Live : frames'[e].parent = frames[e].parent,
         \A a \in DOMAIN mem : \E b \in DOMAIN mem' : mem'[b].env = mem[a].env,
         \A b \in DOMAIN mem' :
           mem'[b].env \in {0, Env} \/ \E a \in DOMAIN mem : mem'[b].env = mem[a].env
  PROVE  Live' = Live
<1>1. /\ \A i \in DOMAIN callStack : callStack[i] \in Live
      /\ \A a \in DOMAIN mem : mem[a].env \in Live \union {0}
      /\ \A e \in Live \union {0} : Lineage(e) \subseteq Live
      /\ Live \subseteq Environments /\ Env \in Live
  BY LiveAre
<1>2. \A e \in Live \union {0} : Lineage(e)' = Lineage(e)
  BY <1>1, LineageStays
<1>3. \A d : d \in Live <=> \/ \E i \in DOMAIN callStack : d \in Lineage(callStack[i])
                            \/ \E a \in DOMAIN mem : d \in Lineage(mem[a].env)
  BY DEF Live, Owned
<1>4. \A d : d \in Live' <=> \/ \E i \in DOMAIN callStack' : d \in Lineage(callStack[i])'
                             \/ \E a \in DOMAIN mem' : d \in Lineage(mem[a].env)'
  BY DEF Live, Owned
<1>5. \A i \in DOMAIN callStack : Lineage(callStack[i])' = Lineage(callStack[i])
  <2> SUFFICES ASSUME NEW i \in DOMAIN callStack
               PROVE  Lineage(callStack[i])' = Lineage(callStack[i])
    OBVIOUS
  <2>1. PICK e : e = callStack[i]
    OBVIOUS
  <2>2. Lineage(e)' = Lineage(callStack[i])' /\ Lineage(e) = Lineage(callStack[i])
    BY <2>1 DEF Lineage
  <2> QED
    BY <1>1, <1>2, <2>1, <2>2
<1>6. ASSUME NEW b \in DOMAIN mem', NEW e, e = mem'[b].env
      PROVE  Lineage(mem[b].env)' = Lineage(e)' /\ e \in Live \union {0}
             /\ Lineage(e) \subseteq Live
  <2>1. Lineage(mem[b].env)' = Lineage(e)'
    BY <1>6 DEF Lineage
  <2>2. e \in Live \union {0}
    BY <1>1, <1>6
  <2> QED
    BY <1>1, <2>1, <2>2
<1>7. ASSUME NEW d \in Live' PROVE d \in Live
  BY <1>1, <1>2, <1>4, <1>5, <1>6, <1>7
<1>8. ASSUME NEW d \in Live PROVE d \in Live'
  <2>1. CASE \E i \in DOMAIN callStack : d \in Lineage(callStack[i])
    BY <1>4, <1>5, <2>1
  <2>2. CASE \E a \in DOMAIN mem : d \in Lineage(mem[a].env)
    <3>1. PICK a \in DOMAIN mem : d \in Lineage(mem[a].env)
      BY <2>2
    <3>2. PICK e : e = mem[a].env
      OBVIOUS
    <3>3. PICK b \in DOMAIN mem' : e = mem'[b].env
      BY <3>2
    <3>4. d \in Lineage(e)'
      BY <1>1, <1>2, <3>1, <3>2
    <3>5. d \in Lineage(mem[b].env)'
      BY <1>6, <3>3, <3>4
    <3> QED
      BY <1>4, <3>5
  <2> QED
    BY <1>3, <1>8, <2>1, <2>2
<1> QED
  BY <1>7, <1>8

----------------------------------------------------------------------------------------
(* What the mapping to memory without addresses comes to. *)

\* An object, and what a variable and an environment are for, without addresses.
Meaning(o) == [kind |-> o.kind, refs |-> ValuesOf(o.refs), env |-> o.env]
Intended(r) == IF IsChar(r) THEN -r.id ELSE IF r.id \in LiveIds THEN r.id ELSE 0
FrameMeaning(f) == [parent |-> f.parent, vars |-> [i \in DOMAIN f.vars |-> Intended(f.vars[i])]]

ObjectsView ==
  /\ NumberedObjects = [n \in LiveIds |-> NumberedObjects[n]]
  /\ \A a \in DOMAIN mem : NumberedObjects[mem[a].id] = Meaning(mem[a])

FramesView == OwnedFrames = [e \in Live |-> FrameMeaning(frames[e])]

View ==
  /\ ObjectsView /\ FramesView
  /\ NumbersOf(immediates) = ValuesOf(immediates)
  /\ NumbersOf(operandStack) = ValuesOf(operandStack)

\* What lies at the address of a reference is what it was made for.
LEMMA NumbersAreValues ==
  ASSUME NEW rs \in Seq(Refs), AtRest => \A r \in ToSet(rs) : Valid(r)
  PROVE  NumbersOf(rs) = ValuesOf(rs)
<1>1. ASSUME NEW i \in DOMAIN rs PROVE Number(rs[i]) = Value(rs[i])
  <2>1. AtRest => Valid(rs[i])
    BY ToSetOf
  <2> QED
    BY <2>1 DEF Number, Value, Valid
<1> QED
  BY <1>1 DEF NumbersOf, ValuesOf

\* The objects by their numbers.
LEMMA ObjectsAre == RefInv => ObjectsView
<1> SUFFICES ASSUME RefInv PROVE ObjectsView
  OBVIOUS
<1>1. DOMAIN NumberedObjects = LiveIds
  BY DEF NumberedObjects, LiveIds
<1>2. NumberedObjects = [n \in LiveIds |-> NumberedObjects[n]]
  BY DEF NumberedObjects, LiveIds
<1>3. ASSUME NEW a \in DOMAIN mem
      PROVE  NumberedObjects[mem[a].id] = Meaning(mem[a])
  <2>1. PICK n : n = mem[a].id
    OBVIOUS
  <2>2. PICK b : b = CHOOSE c \in DOMAIN mem : mem[c].id = n
    OBVIOUS
  <2>3. b \in DOMAIN mem /\ mem[b].id = n
    BY <2>1, <2>2
  <2>4. b = a
    BY <2>1, <2>3 DEF RefInv, IdsInv
  <2>5. NumberedObjects[n] =
          [kind |-> mem[b].kind, refs |-> NumbersOf(mem[b].refs), env |-> mem[b].env]
    BY <2>1, <2>2 DEF NumberedObjects
  <2>6. NumbersOf(mem[a].refs) = ValuesOf(mem[a].refs)
    <3>1. mem[a].refs \in Seq(Refs)
      BY DEF RefInv, TypeOK
    <3>2. AtRest => \A r \in ToSet(mem[a].refs) : Valid(r)
      BY DEF RefInv, RestInv, ChildSet
    <3> QED
      BY <3>1, <3>2, NumbersAreValues
  <2> QED
    BY <2>1, <2>4, <2>5, <2>6 DEF Meaning
<1> QED
  BY <1>2, <1>3 DEF ObjectsView

\* What is gone has no number of the heap.
LEMMA GoneIs == \A r : Gone(r) <=> ~IsChar(r) /\ r.id \notin LiveIds
  BY DEF Gone, LiveIds

\* The environments by what their variables are for.
LEMMA FramesAre == FramesView
<1>1. \A r : Intended(r) = IF IsChar(r) THEN -r.id ELSE IF Gone(r) THEN 0 ELSE r.id
  BY GoneIs DEF Intended
<1> QED
  BY <1>1 DEF FramesView, OwnedFrames, Live, FrameMeaning, Meant

\* In every state the mapping is by what references are for.
LEMMA Views == RefInv => View
<1> SUFFICES ASSUME RefInv PROVE View
  OBVIOUS
<1>1. ObjectsView /\ FramesView
  BY ObjectsAre, FramesAre
<1>2. operandStack \in Seq(Refs) /\ immediates \in Seq(Refs)
  BY DEF RefInv, TypeOK
<1>3. AtRest => \A r \in ToSet(operandStack) \union ToSet(immediates) : Valid(r)
  BY DEF RefInv, RestInv, RootSet
<1> QED
  BY <1>1, <1>2, <1>3, NumbersAreValues DEF View

\* In the next state too.
LEMMA NextViews == RefInv' => View'
  BY Views, PTL

\* A valid variable is for what it is a reference to, which is something.
LEMMA IntendedIs ==
  ASSUME RefInv, NEW r \in Refs, Valid(r)
  PROVE  Intended(r) = Value(r) /\ Value(r) # 0
<1>1. CASE IsChar(r)
  <2>1. r.id \in Nat /\ r.id # 0
    BY <1>1, RefType
  <2> QED
    BY <1>1, <2>1 DEF Intended, Value
<1>2. CASE ~IsChar(r)
  <2>1. r.id \in LiveIds /\ r.id # 0
    BY <1>2 DEF Valid, LiveIds, RefInv, IdsInv
  <2> QED
    BY <1>2, <2>1 DEF Intended, Value
<1> QED
  BY <1>1, <1>2

----------------------------------------------------------------------------------------
(* Steps that change nothing but addresses. *)

\* The objects before and after a step have the same meaning.
LEMMA SameObjects ==
  ASSUME ObjectsView, ObjectsView',
         \A a \in DOMAIN mem : \E b \in DOMAIN mem' :
           mem'[b].id = mem[a].id /\ Meaning(mem'[b]) = Meaning(mem[a]),
         \A b \in DOMAIN mem' : \E a \in DOMAIN mem : mem'[b].id = mem[a].id
  PROVE  NumberedObjects' = NumberedObjects /\ LiveIds' = LiveIds
<1>1. LiveIds' = LiveIds
  BY DEF LiveIds
<1>2. ASSUME NEW n \in LiveIds PROVE NumberedObjects'[n] = NumberedObjects[n]
  <2>1. PICK a \in DOMAIN mem : n = mem[a].id
    BY DEF LiveIds
  <2>2. PICK b \in DOMAIN mem' : mem'[b].id = n /\ Meaning(mem'[b]) = Meaning(mem[a])
    BY <2>1
  <2> QED
    BY <2>1, <2>2 DEF ObjectsView
<1> QED
  BY <1>1, <1>2 DEF ObjectsView

\* The same for environments.
LEMMA SameFrames ==
  ASSUME FramesView, FramesView', Live' = Live,
         \A e \in Live : FrameMeaning(frames[e])' = FrameMeaning(frames[e])
  PROVE  OwnedFrames' = OwnedFrames
  BY DEF FramesView

\* Environments that the step does not touch, when what is gone stays gone.
LEMMA UntouchedFrames ==
  ASSUME TypeOK, TypeOK', FramesView, FramesView', UNCHANGED <<frames, callStack>>,
         LiveIds' = LiveIds,
         \A a \in DOMAIN mem : \E b \in DOMAIN mem' : mem'[b].env = mem[a].env,
         \A b \in DOMAIN mem' : \E a \in DOMAIN mem : mem'[b].env = mem[a].env
  PROVE  OwnedFrames' = OwnedFrames
<1>1. Live' = Live
  BY LiveStay
<1>2. \A r : Intended(r)' = Intended(r)
  BY DEF Intended
<1>3. \A e : FrameMeaning(frames[e])' = FrameMeaning(frames[e])
  BY <1>2 DEF FrameMeaning
<1> QED
  BY <1>1, <1>3, SameFrames

\* Objects of the same meaning are functions of the same environments.
LEMMA SameMemory ==
  ASSUME TypeOK, TypeOK', View, View', UNCHANGED <<frames, callStack>>,
         \A a \in DOMAIN mem : \E b \in DOMAIN mem' :
           mem'[b].id = mem[a].id /\ Meaning(mem'[b]) = Meaning(mem[a]),
         \A b \in DOMAIN mem' : \E a \in DOMAIN mem :
           mem'[b].id = mem[a].id /\ Meaning(mem'[b]) = Meaning(mem[a])
  PROVE  NumberedObjects' = NumberedObjects /\ OwnedFrames' = OwnedFrames
<1>1. NumberedObjects' = NumberedObjects /\ LiveIds' = LiveIds
  BY SameObjects DEF View
<1>2. \A o, p : Meaning(o) = Meaning(p) => o.env = p.env
  <2> SUFFICES ASSUME NEW o, NEW p, Meaning(o) = Meaning(p) PROVE o.env = p.env
    OBVIOUS
  <2>1. Meaning(o).env = o.env /\ Meaning(p).env = p.env
    BY DEF Meaning
  <2> QED
    BY <2>1
<1>3. /\ \A a \in DOMAIN mem : \E b \in DOMAIN mem' : mem'[b].env = mem[a].env
      /\ \A b \in DOMAIN mem' : \E a \in DOMAIN mem : mem'[b].env = mem[a].env
  BY <1>2
<1> QED
  BY <1>1, <1>3, UntouchedFrames DEF View

\* The program sees nothing of a step when what it sees means the same.
LEMMA Unseen ==
  ASSUME View, View', NumberedObjects' = NumberedObjects, OwnedFrames' = OwnedFrames,
         callStack' = callStack, ValuesOf(immediates') = ValuesOf(immediates),
         ValuesOf(operandStack') = ValuesOf(operandStack)
  PROVE  UNCHANGED Memory!objectVars
  BY DEF View, Memory!objectVars

\* Steps that change nothing that it uses.
LEMMA UnseenSame ==
  ASSUME TypeOK, TypeOK', View, View',
         UNCHANGED <<mem, frames, callStack, immediates, operandStack>>
  PROVE  UNCHANGED Memory!objectVars
  BY SameMemory, Unseen

\* An object that is marked or unmarked.
LEMMA Remarked ==
  ASSUME NEW o \in ObjectType, NEW b \in BOOLEAN, NEW p, p = [o EXCEPT !.marked = b]
  PROVE  p.id = o.id /\ Meaning(p) = Meaning(o)
<1>1. p.id = o.id /\ p.kind = o.kind /\ p.refs = o.refs /\ p.env = o.env
  BY DEF ObjectType
<1> QED
  BY <1>1 DEF Meaning

\* Mark.
LEMMA MarkUnseen ==
  ASSUME RefInv, RefInv', View, View', MarkValue
  PROVE  UNCHANGED Memory!objectVars
<1>1. UNCHANGED <<frames, callStack, immediates, operandStack>> /\ TypeOK /\ TypeOK'
  BY DEF MarkValue, roots, RefInv
<1>2. PICK at : at = Head(grey).at
  OBVIOUS
<1>3. mem' = mem \/ mem' = [mem EXCEPT ![at].marked = TRUE]
  BY <1>2 DEF MarkValue
<1>4. CASE mem' = mem
  BY <1>1, <1>4, UnseenSame
<1>5. CASE mem' = [mem EXCEPT ![at].marked = TRUE]
  <2>1. ASSUME NEW a \in DOMAIN mem
        PROVE  mem'[a].id = mem[a].id /\ Meaning(mem'[a]) = Meaning(mem[a])
    <3>1. CASE a # at
      BY <1>5, <3>1
    <3>2. CASE a = at
      <4>1. PICK o, p : o = mem[a] /\ p = mem'[a]
        OBVIOUS
      <4>2. p = [o EXCEPT !.marked = TRUE]
        BY <1>5, <3>2, <4>1
      <4>3. o \in ObjectType
        BY <4>1 DEF RefInv, TypeOK, ObjectType
      <4> QED
        BY <4>1, <4>2, <4>3, Remarked
    <3> QED
      BY <3>1, <3>2
  <2>2. DOMAIN mem' = DOMAIN mem
    BY <1>5
  <2>3. NumberedObjects' = NumberedObjects /\ OwnedFrames' = OwnedFrames
    BY <1>1, <2>1, <2>2, SameMemory
  <2> QED
    BY <1>1, <2>3, Unseen
<1> QED
  BY <1>3, <1>4, <1>5

\* An object that is slid.
LEMMA SlideUnseen ==
  ASSUME RefInv, RefInv', HeapInv, View, View', Slide, Kept(mem[index])
  PROVE  UNCHANGED Memory!objectVars
<1>1. PICK i, to : i = index /\ to = index - gone
  OBVIOUS
<1>2. /\ UNCHANGED <<frames, callStack, immediates, operandStack>> /\ TypeOK /\ TypeOK'
      /\ i \in DOMAIN mem /\ \A a \in DOMAIN mem \ {i} : a # to
  BY <1>1, SlideFrom DEF RefInv
<1>3. mem' = Put([a \in DOMAIN mem \ {i} |-> mem[a]], to, Settled(mem[i]))
  BY <1>1 DEF Slide
<1>4. /\ DOMAIN mem' = (DOMAIN mem \ {i}) \union {to}
      /\ mem'[to] = Settled(mem[i])
      /\ \A a \in DOMAIN mem \ {i} : mem'[a] = mem[a]
  BY <1>2, <1>3 DEF Put
<1>5. mem'[to].id = mem[i].id /\ Meaning(mem'[to]) = Meaning(mem[i])
  <2>1. PICK o, p : o = mem[i] /\ p = mem'[to]
    OBVIOUS
  <2>2. p = [o EXCEPT !.marked = FALSE]
    BY <1>4, <2>1 DEF Settled
  <2>3. o \in ObjectType
    BY <1>2, <2>1 DEF RefInv, TypeOK, ObjectType
  <2> QED
    BY <2>1, <2>2, <2>3, Remarked
<1>6. \A a \in DOMAIN mem : \E b \in DOMAIN mem' :
        mem'[b].id = mem[a].id /\ Meaning(mem'[b]) = Meaning(mem[a])
  BY <1>4, <1>5
<1>7. \A b \in DOMAIN mem' : \E a \in DOMAIN mem :
        mem'[b].id = mem[a].id /\ Meaning(mem'[b]) = Meaning(mem[a])
  BY <1>2, <1>4, <1>5
<1>8. NumberedObjects' = NumberedObjects /\ OwnedFrames' = OwnedFrames
  BY <1>2, <1>6, <1>7, SameMemory
<1> QED
  BY <1>2, <1>8, Unseen

\* References of an object that are updated.
LEMMA InternalUnseen ==
  ASSUME RefInv, RefInv', HeapInv, View, View', RemapInternal
  PROVE  UNCHANGED Memory!objectVars
<1>1. /\ UNCHANGED <<frames, callStack, immediates, operandStack>> /\ TypeOK /\ TypeOK'
      /\ pc = "internal" /\ index < end
  BY DEF RemapInternal, roots, RefInv
<1>2. PICK i, v : i = index /\ v = RemappedAll(mem[i].refs)
  OBVIOUS
<1>3. mem' = [mem EXCEPT ![i].refs = v]
  BY <1>2 DEF RemapInternal
<1>4. i \in DOMAIN mem
  BY <1>1, <1>2 DEF RefInv, InternalInv, TypeOK, Addresses
<1>5. mem[i] \in ObjectType /\ mem[i].refs \in Seq(Refs) /\ i \in Nat
  BY <1>4 DEF RefInv, TypeOK, ObjectType, Addresses
<1>6. \A r \in ToSet(mem[i].refs) : Found(r) /\ ~Gone(r)
  BY <1>1, <1>2, <1>4, <1>5 DEF RefInv, InternalInv, ChildSet
<1>7. ValuesOf(v) = ValuesOf(mem[i].refs)
  <2>1. ~Astray(mem[i].refs)
    BY <1>2 DEF RemapInternal
  <2> QED
    BY <1>2, <1>5, <1>6, <2>1, RemappedValues DEF RefInv
<1>8. ASSUME NEW a \in DOMAIN mem
      PROVE  mem'[a].id = mem[a].id /\ Meaning(mem'[a]) = Meaning(mem[a])
  <2>1. CASE a # i
    BY <1>3, <2>1
  <2>2. CASE a = i
    <3>1. PICK o, p : o = mem[a] /\ p = mem'[a]
      OBVIOUS
    <3>2. p = [o EXCEPT !.refs = v] /\ o \in ObjectType
      BY <1>3, <1>5, <2>2, <3>1
    <3>3. p.id = o.id /\ p.kind = o.kind /\ p.refs = v /\ p.env = o.env
      BY <3>2 DEF ObjectType
    <3> QED
      BY <1>7, <2>2, <3>1, <3>3 DEF Meaning
  <2> QED
    BY <2>1, <2>2
<1>9. DOMAIN mem' = DOMAIN mem
  BY <1>3
<1>10. NumberedObjects' = NumberedObjects /\ OwnedFrames' = OwnedFrames
  BY <1>1, <1>8, <1>9, SameMemory
<1> QED
  BY <1>1, <1>10, Unseen

\* An environment whose references are updated, what has gone to Nowhere.
LEMMA RemappedFrame ==
  ASSUME TypeOK, IdsInv, NEW e \in Environments, \A r \in ToSet(frames[e].vars) : Found(r),
         ~Astray(frames[e].vars), NEW f, f = [frames[e] EXCEPT !.vars = RemappedAll(@)]
  PROVE  FrameMeaning(f) = FrameMeaning(frames[e]) /\ f.parent = frames[e].parent
<1>1. PICK g, s, v : g = frames[e] /\ s = g.vars /\ v = RemappedAll(s)
  OBVIOUS
<1>2. g \in [parent : Environments \union {0}, vars : Seq(Refs)] /\ f = [g EXCEPT !.vars = v]
  BY <1>1 DEF TypeOK
<1>3. f.parent = g.parent /\ f.vars = v /\ s \in Seq(Refs)
  BY <1>1, <1>2
<1>4. DOMAIN v = DOMAIN s /\ \A i \in DOMAIN s : v[i] = Remapped(s[i])
  BY <1>1 DEF RemappedAll
<1>5. ASSUME NEW i \in DOMAIN s PROVE Intended(v[i]) = Intended(s[i])
  <2>1. PICK r, t : r = s[i] /\ t = v[i]
    OBVIOUS
  <2>2. r \in Refs /\ Found(r) /\ Still(r) /\ t = Remapped(r)
    BY <1>1, <1>3, <1>4, <2>1, ElementsOf, ToSetOf, StillOf
  <2>3. /\ IsChar(t) <=> IsChar(r)
        /\ ~Gone(r) => Valid(t) /\ t.id = r.id
        /\ Gone(r) => t = Nowhere /\ Gone(Nowhere)
    BY <2>2, RemappedIs
  <2>4. Gone(t) <=> Gone(r)
    BY <2>3, ValidNotGone
  <2>5. ~Gone(r) => t.id = r.id
    BY <2>3
  <2>6. /\ Gone(r) <=> ~IsChar(r) /\ r.id \notin LiveIds
        /\ Gone(t) <=> ~IsChar(t) /\ t.id \notin LiveIds
    BY GoneIs
  <2>7. Intended(t) = Intended(r)
    BY <2>3, <2>4, <2>5, <2>6 DEF Intended
  <2> QED
    BY <2>1, <2>7
<1> QED
  BY <1>1, <1>3, <1>4, <1>5 DEF FrameMeaning

\* The roots that are updated.
LEMMA RootsUnseen ==
  ASSUME RefInv, RefInv', HeapInv, View, View', RemapRoots
  PROVE  UNCHANGED Memory!objectVars
<1>1. UNCHANGED <<mem, callStack>> /\ pc = "internal" /\ TypeOK /\ TypeOK' /\ IdsInv
  BY DEF RemapRoots, heap, RefInv
<1>2. /\ ValuesOf(operandStack') = ValuesOf(operandStack)
      /\ ValuesOf(immediates') = ValuesOf(immediates)
  BY CollectingKeeps DEF Collecting
<1>3. LiveIds' = LiveIds
  BY <1>1 DEF LiveIds
<1>4. \A r : Intended(r)' = Intended(r)
  BY <1>3 DEF Intended
<1>5. Live \subseteq Environments /\ Live = Owned(callStack, mem)
  BY <1>1, LiveAre DEF Live
<1>6. ASSUME NEW e \in Live
      PROVE  /\ frames'[e].parent = frames[e].parent
             /\ FrameMeaning(frames[e])' = FrameMeaning(frames[e])
  <2>1. e \in Environments /\ e \in Owned(callStack, mem)
    BY <1>5, <1>6
  <2>2. PICK f : f = frames'[e]
    OBVIOUS
  <2>3. f = IF e \in GatheredFrames THEN [frames[e] EXCEPT !.vars = RemappedAll(@)]
            ELSE frames[e]
    BY <2>1, <2>2 DEF RemapRoots
  <2>4. FrameMeaning(frames[e])' = FrameMeaning(f)
    BY <1>4, <2>2 DEF FrameMeaning
  <2>5. \A r \in ToSet(frames[e].vars) : Found(r)
    BY <1>1, <2>1 DEF RefInv, InternalInv, Variables
  <2>6. CASE e \in GatheredFrames
    <3>1. FrameMeaning(f) = FrameMeaning(frames[e]) /\ f.parent = frames[e].parent
      <4>1. ~Astray(frames[e].vars)
        BY <2>6 DEF RemapRoots, RootsAstray
      <4> QED
        BY <1>1, <2>1, <2>3, <2>5, <2>6, <4>1, RemappedFrame
    <3> QED
      BY <2>2, <2>4, <3>1
  <2>7. CASE e \notin GatheredFrames
    BY <2>2, <2>3, <2>4, <2>7
  <2> QED
    BY <2>6, <2>7
<1>7. Live' = Live
  BY <1>1, <1>6, LiveStay
<1>8. OwnedFrames' = OwnedFrames
  BY <1>6, <1>7, SameFrames DEF View
<1>9. NumberedObjects' = NumberedObjects
  BY <1>1, SameObjects DEF View
<1> QED
  BY <1>1, <1>2, <1>8, <1>9, Unseen

\* Values of sequences, and what they are without the characters.
LEMMA ValueIn ==
  ASSUME NEW s \in Seq(Refs)
  PROVE  ToSet(ValuesOf(s)) = {Value(r) : r \in ToSet(s)}
  BY ValuesOfSome

\* Module Objects has its own instances of the operators on sequences.
LEMMA MemoryToSet == \A s : Memory!ToSet(s) = ToSet(s)
  BY DEF ToSet, Memory!ToSet

\* The environments there are the owned ones, with the same parents, and variables that
\* are for what they are references to.
LEMMA MemoryFrames ==
  ASSUME FramesView, NEW e \in Live
  PROVE  /\ DOMAIN OwnedFrames = Live
         /\ OwnedFrames[e] = FrameMeaning(frames[e])
         /\ OwnedFrames[e].parent = frames[e].parent
         /\ ToSet(OwnedFrames[e].vars) = {Intended(r) : r \in ToSet(frames[e].vars)}
<1>1. DOMAIN OwnedFrames = Live /\ OwnedFrames[e] = FrameMeaning(frames[e])
  BY DEF FramesView
<1>2. PICK s, v : s = frames[e].vars /\ v = [i \in DOMAIN s |-> Intended(s[i])]
  OBVIOUS
<1>3. OwnedFrames[e].parent = frames[e].parent /\ OwnedFrames[e].vars = v
  BY <1>1, <1>2 DEF FrameMeaning
<1>4. ToSet(v) = {Intended(r) : r \in ToSet(s)}
  BY <1>2 DEF ToSet
<1> QED
  BY <1>1, <1>2, <1>3, <1>4

\* So the lineages that memory without addresses knows are those of the heap.
LEMMA MemoryLineage ==
  ASSUME TypeOK, FramesView, NEW e \in Live \union {0}
  PROVE  Memory!Lineage(e) = Lineage(e)
<1>1. DOMAIN OwnedFrames = Live /\ \A d \in Live : OwnedFrames[d].parent = frames[d].parent
  BY MemoryFrames DEF FramesView
<1>2. PICK L : L = Lineage(e)
  OBVIOUS
<1>3. L \subseteq Live /\ Live \subseteq Environments /\ HasParents(L)
  BY <1>2, LiveAre, LineageIs
<1>4. e \in L \union {0}
  BY <1>2, <1>3, LineageIn, LiveAre
<1>5. Memory!Lineage(e) \subseteq L
  BY <1>1, <1>3, <1>4 DEF Memory!Lineage, HasParents
<1>6. ASSUME NEW d \in L PROVE d \in Memory!Lineage(e)
  <2>1. \A S \in SUBSET Live :
          e \in S \union {0} /\ (\A c \in S : frames[c].parent \in S \union {0}) => d \in S
    BY <1>2, <1>3, <1>6 DEF Lineage
  <2> QED
    BY <1>1, <1>3, <1>6, <2>1 DEF Memory!Lineage
<1> QED
  BY <1>2, <1>5, <1>6

\* And what a stack and functions own there is what they own.
LEMMA MemoryOwned ==
  ASSUME TypeOK, FramesView, NEW stack, NEW objs, NEW memory,
         \A i \in DOMAIN stack : stack[i] \in Live,
         \A a \in DOMAIN memory : memory[a].env \in Live \union {0},
         \A a \in DOMAIN memory : \E n \in DOMAIN objs : objs[n].env = memory[a].env,
         \A n \in DOMAIN objs : \E a \in DOMAIN memory : objs[n].env = memory[a].env
  PROVE  Memory!Owned(stack, objs) = Owned(stack, memory)
<1>1. \A d : d \in Owned(stack, memory) <=>
               \/ \E i \in DOMAIN stack : d \in Lineage(stack[i])
               \/ \E a \in DOMAIN memory : d \in Lineage(memory[a].env)
  BY DEF Owned
<1>2. \A d : d \in Memory!Owned(stack, objs) <=>
               \/ \E i \in DOMAIN stack : d \in Memory!Lineage(stack[i])
               \/ \E n \in DOMAIN objs : d \in Memory!Lineage(objs[n].env)
  BY DEF Memory!Owned
<1>3. \A e \in Live \union {0} : Memory!Lineage(e) = Lineage(e)
  BY MemoryLineage
<1>4. \A n \in DOMAIN objs : objs[n].env \in Live \union {0}
  OBVIOUS
<1>5. \A d : (\E n \in DOMAIN objs : d \in Memory!Lineage(objs[n].env)) <=>
             (\E a \in DOMAIN memory : d \in Lineage(memory[a].env))
  <2>1. ASSUME NEW d, NEW n \in DOMAIN objs, d \in Memory!Lineage(objs[n].env)
        PROVE  \E a \in DOMAIN memory : d \in Lineage(memory[a].env)
    <3>1. PICK a \in DOMAIN memory : objs[n].env = memory[a].env
      OBVIOUS
    <3> QED
      BY <1>3, <1>4, <2>1, <3>1
  <2>2. ASSUME NEW d, NEW a \in DOMAIN memory, d \in Lineage(memory[a].env)
        PROVE  \E n \in DOMAIN objs : d \in Memory!Lineage(objs[n].env)
    <3>1. PICK n \in DOMAIN objs : objs[n].env = memory[a].env
      OBVIOUS
    <3> QED
      BY <1>3, <1>4, <2>2, <3>1
  <2> QED
    BY <2>1, <2>2
<1>6. \A d : (\E i \in DOMAIN stack : d \in Memory!Lineage(stack[i])) <=>
             (\E i \in DOMAIN stack : d \in Lineage(stack[i]))
  BY <1>3
<1> QED
  BY <1>1, <1>2, <1>5, <1>6

\* The environments of objects, by their numbers.
EnvironmentsMatch ==
  /\ \A a \in DOMAIN mem : \E n \in DOMAIN NumberedObjects :
       NumberedObjects[n].env = mem[a].env
  /\ \A n \in DOMAIN NumberedObjects : \E a \in DOMAIN mem :
       NumberedObjects[n].env = mem[a].env

LEMMA NumberedEnvironments ==
  ASSUME ObjectsView
  PROVE  EnvironmentsMatch
<1>1. DOMAIN NumberedObjects = LiveIds
  BY DEF ObjectsView
<1>2. \A a \in DOMAIN mem : mem[a].id \in LiveIds /\ NumberedObjects[mem[a].id].env = mem[a].env
  <2> SUFFICES ASSUME NEW a \in DOMAIN mem
               PROVE  mem[a].id \in LiveIds /\ NumberedObjects[mem[a].id].env = mem[a].env
    OBVIOUS
  <2>1. NumberedObjects[mem[a].id] = Meaning(mem[a]) /\ mem[a].id \in LiveIds
    BY DEF ObjectsView, LiveIds
  <2>2. Meaning(mem[a]).env = mem[a].env
    BY DEF Meaning
  <2> QED
    BY <2>1, <2>2
<1>3. \A n \in LiveIds : \E a \in DOMAIN mem : n = mem[a].id
  BY DEF LiveIds
<1> QED
  BY <1>1, <1>2, <1>3 DEF EnvironmentsMatch

\* In the next state too.
LEMMA NextEnvironments == ObjectsView' => EnvironmentsMatch'
  BY NumberedEnvironments, PTL

----------------------------------------------------------------------------------------
(* What is forgotten. *)

\* What leads to an object that will stay, or to a character.
LEMMA StayingValue ==
  ASSUME RefInv, NEW r, r \in Refs, Stays(r), NEW v \in LiveIds,
         v = Value(r) \/ v = Intended(r)
  PROVE  v \in {mem[a].id : a \in Staying}
<1>1. LiveIds \subseteq Nat \ {0}
  BY DEF RefInv, TypeOK, IdsInv, LiveIds
<1>2. r.id \in Nat
  BY RefType
<1>3. ~IsChar(r) /\ v = r.id
  BY <1>1, <1>2 DEF Value, Intended
<1>4. PICK a \in Staying : mem[a].id = r.id
  BY <1>3 DEF Stays
<1> QED
  BY <1>3, <1>4

\* The environments of the call stack: the parents of each are among them.
OnCallStack == {callStack[i] : i \in DOMAIN callStack}

LEMMA OnStackAre ==
  ASSUME TypeOK, StackLinked
  PROVE  HasParents(OnCallStack) /\ TopLevel \in OnCallStack
<1>1. /\ Len(callStack) \in Nat \ {0} /\ DOMAIN callStack = 1..Len(callStack)
      /\ OnCallStack \subseteq Environments
  BY StackTypes DEF OnCallStack
<1>2. TopLevel \in OnCallStack
  BY <1>1 DEF OnCallStack, StackLinked
<1>3. ASSUME NEW d \in OnCallStack PROVE frames[d].parent \in OnCallStack \union {0}
  <2>1. PICK i \in DOMAIN callStack : d = callStack[i]
    BY DEF OnCallStack
  <2>2. 1..i - 1 \subseteq DOMAIN callStack
    BY <1>1
  <2> QED
    BY <2>1, <2>2 DEF StackLinked, OnCallStack
<1> QED
  BY <1>1, <1>2, <1>3 DEF HasParents

\* The environments that count are those of the call stack and of functions; the outer
\* ones of a flat program are on the call stack.
LEMMA CountedAre ==
  ASSUME TypeOK, FramesView, NEW outer \in BOOLEAN, outer => Linked,
         NEW e \in Live \union {0},
         \/ e \in OnCallStack
         \/ \E a \in DOMAIN mem : e = mem[a].env
  PROVE  \A d \in Memory!Counted(e, outer) : d \in Live /\ (d \in OnCallStack \/ d = e)
<1>1. CASE ~outer
  BY <1>1 DEF Memory!Counted
<1>2. CASE outer
  <2>1. StackLinked /\ MadeAtTopLevel
    BY <1>2 DEF Linked
  <2>2. HasParents(OnCallStack) /\ e \in OnCallStack \union {0}
    BY <2>1, OnStackAre DEF MadeAtTopLevel
  <2>3. Lineage(e) \subseteq OnCallStack /\ Lineage(e) \subseteq Live
    BY <2>2, LineageIs, LiveAre
  <2>4. Memory!Counted(e, outer) = Lineage(e)
    BY <1>2, MemoryLineage DEF Memory!Counted
  <2> QED
    BY <2>3, <2>4
<1> QED
  BY <1>1, <1>2

\* All that the program can get to stays, of a flat program also by way of the outer
\* environments of functions.
LEMMA StayingIsReachable ==
  ASSUME RefInv, View, pc = "slide", NEW outer \in BOOLEAN, outer => Linked
  PROVE  Memory!Reachable({mem[a].id : a \in Staying}, outer)
<1>1. PICK live : live = {mem[a].id : a \in Staying}
  OBVIOUS
<1>2. TypeOK /\ ObjectsView /\ FramesView
  BY DEF RefInv, View
<1>3. DOMAIN NumberedObjects = LiveIds
  BY <1>2 DEF ObjectsView
<1>4. \A r \in RootSet : Stays(r)
  BY DEF RefInv, SlidingInv
<1>5. \A a \in Staying : \A r \in ChildSet(mem[a]) : Stays(r)
  BY DEF RefInv, SlidingInv
<1>6. ASSUME NEW e \in Live, \A r \in ToSet(frames[e].vars) : Stays(r),
             NEW v \in ToSet(OwnedFrames[e].vars), v \in LiveIds
      PROVE  v \in live
  <2>1. PICK r \in ToSet(frames[e].vars) : v = Intended(r)
    BY <1>2, <1>6, MemoryFrames
  <2>2. e \in Environments
    BY <1>2, LiveAre
  <2>3. frames[e].vars \in Seq(Refs)
    BY <1>2, <2>2, FrameTypes DEF RefSeqs
  <2>4. r \in Refs
    BY <2>1, <2>3, ToSetOf
  <2> QED
    BY <1>1, <1>6, <2>1, <2>4, StayingValue
<1>7. ASSUME NEW e \in OnCallStack PROVE \A r \in ToSet(frames[e].vars) : Stays(r)
  <2>1. PICK i \in DOMAIN callStack : e = callStack[i]
    BY DEF OnCallStack
  <2>2. ToSet(frames[e].vars) \subseteq StackSet
    BY <2>1 DEF StackSet
  <2> QED
    BY <1>4, <2>2 DEF RootSet
<1>8. ASSUME NEW v \in ToSet(ValuesOf(immediates)) \union ToSet(ValuesOf(operandStack)),
             v \in LiveIds
      PROVE  v \in live
  <2>1. operandStack \in Seq(Refs) /\ immediates \in Seq(Refs)
    BY <1>2 DEF TypeOK
  <2>2. PICK r \in ToSet(immediates) \union ToSet(operandStack) : v = Value(r)
    BY <2>1, ValueIn
  <2>3. r \in RootSet /\ r \in Refs
    BY <2>1, <2>2, ToSetOf DEF RootSet
  <2> QED
    BY <1>1, <1>4, <1>8, <2>2, <2>3, StayingValue
<1>9. 1 \in LiveIds => 1 \in live
  <2>1. NullRef \in RootSet /\ NullRef \in Refs /\ Value(NullRef) = 1
    BY <1>2, RootTypes, SizeAssumption DEF RootSet, NullRef, Value, IsChar
  <2> QED
    BY <1>1, <1>4, <2>1, StayingValue
<1>10. Memory!AtHand(outer) \cap LiveIds \subseteq live
  <2> SUFFICES ASSUME NEW v \in Memory!AtHand(outer), v \in LiveIds PROVE v \in live
    OBVIOUS
  <2>1. \/ v = 1
        \/ v \in ToSet(ValuesOf(immediates)) \union ToSet(ValuesOf(operandStack))
        \/ \E i \in DOMAIN callStack : \E e \in Memory!Counted(callStack[i], outer) :
             v \in ToSet(OwnedFrames[e].vars)
    <3>1. \/ v = 1
          \/ v \in ToSet(NumbersOf(immediates)) \union ToSet(NumbersOf(operandStack))
          \/ \E i \in DOMAIN callStack : \E e \in Memory!Counted(callStack[i], outer) :
               v \in ToSet(OwnedFrames[e].vars)
      BY MemoryToSet, Zenon DEF Memory!AtHand, Memory!Null, Memory!VariablesOf
    <3>2. /\ NumbersOf(immediates) = ValuesOf(immediates)
          /\ NumbersOf(operandStack) = ValuesOf(operandStack)
      BY DEF View
    <3> QED
      BY <3>1, <3>2
  <2>2. ASSUME NEW i \in DOMAIN callStack, NEW e \in Memory!Counted(callStack[i], outer),
               v \in ToSet(OwnedFrames[e].vars)
        PROVE  v \in live
    <3>1. PICK d : d = callStack[i]
      OBVIOUS
    <3>2. d \in OnCallStack /\ d \in Live
      BY <1>2, <3>1, LiveAre DEF OnCallStack
    <3>3. e \in Live /\ e \in OnCallStack
      BY <1>2, <2>2, <3>1, <3>2, CountedAre
    <3> QED
      BY <1>6, <1>7, <2>2, <3>3
  <2> QED
    BY <1>8, <1>9, <2>1, <2>2
<1>11. ASSUME NEW n \in live PROVE Memory!Beyond(n, outer) \cap LiveIds \subseteq live
  <2> SUFFICES ASSUME NEW v \in Memory!Beyond(n, outer), v \in LiveIds PROVE v \in live
    OBVIOUS
  <2>1. PICK a \in Staying : n = mem[a].id
    BY <1>1
  <2>2. a \in DOMAIN mem /\ mem[a].refs \in Seq(Refs)
    BY <1>2, <2>1 DEF Staying, TypeOK
  <2>3. n \in LiveIds /\ NumberedObjects[n] = Meaning(mem[a])
    BY <1>2, <2>1, <2>2 DEF LiveIds, ObjectsView
  <2>4. PICK env : env = mem[a].env
    OBVIOUS
  <2>5. \/ v \in ToSet(ValuesOf(mem[a].refs))
        \/ \E e \in Memory!Counted(env, outer) : v \in ToSet(OwnedFrames[e].vars)
    <3>1. PICK o : o = NumberedObjects[n]
      OBVIOUS
    <3>2. o.refs = ValuesOf(mem[a].refs) /\ o.env = env
      BY <2>3, <2>4, <3>1 DEF Meaning
    <3>3. \/ v \in ToSet(o.refs)
          \/ \E e \in Memory!Counted(o.env, outer) : v \in ToSet(OwnedFrames[e].vars)
      BY <1>3, <2>3, <3>1, MemoryToSet, Zenon DEF Memory!Beyond, Memory!VariablesOf
    <3> QED
      BY <3>2, <3>3
  <2>6. CASE v \in ToSet(ValuesOf(mem[a].refs))
    <3>1. PICK r \in ToSet(mem[a].refs) : v = Value(r)
      BY <2>2, <2>6, ValueIn
    <3>2. r \in Refs /\ Stays(r)
      BY <1>5, <2>1, <2>2, <3>1, ToSetOf DEF ChildSet
    <3> QED
      BY <1>1, <3>1, <3>2, StayingValue
  <2>7. CASE \E e \in Memory!Counted(env, outer) : v \in ToSet(OwnedFrames[e].vars)
    <3>1. PICK e \in Memory!Counted(env, outer) : v \in ToSet(OwnedFrames[e].vars)
      BY <2>7
    <3>2. env \in Live \union {0}
      BY <1>2, <2>2, <2>4, LiveAre
    <3>3. e \in Live /\ (e \in OnCallStack \/ e = env)
      BY <1>2, <2>2, <2>4, <3>1, <3>2, CountedAre
    <3>4. e = env => \A r \in ToSet(frames[e].vars) : Stays(r)
      <4>1. 0 \notin Live
        BY <1>2, LiveAre
      <4>2. e = env => ToSet(frames[e].vars) \subseteq ChildSet(mem[a])
        BY <2>4, <3>3, <4>1 DEF ChildSet, EnvSet
      <4> QED
        BY <1>5, <2>1, <4>2
    <3> QED
      BY <1>6, <1>7, <3>1, <3>3, <3>4
  <2> QED
    BY <2>5, <2>6, <2>7
<1> QED
  BY <1>1, <1>3, <1>10, <1>11 DEF Memory!Reachable

\* What variables are for once only some objects are left.
LEMMA LeftFrames ==
  ASSUME RefInv, frames' = frames, LiveIds' \subseteq LiveIds, NEW keep, keep = LiveIds',
         NEW e \in Environments, NEW vs, vs = FrameMeaning(frames[e]).vars
  PROVE  FrameMeaning(frames[e])' =
           [parent |-> frames[e].parent,
            vars |-> [i \in DOMAIN vs |-> Memory!Left(vs[i], keep)]]
<1>1. PICK s : s = frames[e].vars
  OBVIOUS
<1>2. s \in Seq(Refs) /\ vs = [i \in DOMAIN s |-> Intended(s[i])]
  BY <1>1, FrameTypes DEF RefSeqs, RefInv, FrameMeaning
<1>3. LiveIds \subseteq Nat \ {0}
  BY DEF RefInv, TypeOK, IdsInv, LiveIds
<1>4. ASSUME NEW i \in DOMAIN s PROVE Intended(s[i])' = Memory!Left(Intended(s[i]), keep)
  <2>1. PICK r : r = s[i]
    OBVIOUS
  <2>2. r \in Refs
    BY <1>2, <1>4, <2>1, ElementsOf
  <2>3. r.id \in Nat
    BY <2>2, RefType
  <2>4. Intended(r)' = IF IsChar(r) THEN -r.id ELSE IF r.id \in keep THEN r.id ELSE 0
    BY DEF Intended
  <2>5. Intended(r) = IF IsChar(r) THEN -r.id ELSE IF r.id \in LiveIds THEN r.id ELSE 0
    BY DEF Intended
  <2>6. Intended(s[i])' = Intended(r)'
    <3>1. s[i]' = s[i]
      OBVIOUS
    <3> QED
      BY <2>1 DEF Intended
  <2>7. CASE IsChar(r)
    BY <2>1, <2>3, <2>4, <2>5, <2>6, <2>7 DEF Memory!Left
  <2>8. CASE ~IsChar(r) /\ r.id \in LiveIds
    BY <1>3, <2>1, <2>3, <2>4, <2>5, <2>6, <2>8 DEF Memory!Left
  <2>9. CASE ~IsChar(r) /\ r.id \notin LiveIds
    BY <2>1, <2>3, <2>4, <2>5, <2>6, <2>9 DEF Memory!Left
  <2> QED
    BY <2>7, <2>8, <2>9
<1>5. FrameMeaning(frames[e])' =
        [parent |-> frames[e].parent, vars |-> [i \in DOMAIN s |-> Intended(s[i])']]
  BY <1>1 DEF FrameMeaning
<1> QED
  BY <1>2, <1>4, <1>5

\* An object that is skipped by compact is forgotten.
LEMMA SlideForgets ==
  ASSUME RefInv, RefInv', HeapInv, View, View', Slide, ~Kept(mem[index]),
         NEW outer \in BOOLEAN, outer => Linked
  PROVE  Memory!Forget(outer)
<1>1. PICK i : i = index
  OBVIOUS
<1>2. /\ mem' = [a \in DOMAIN mem \ {i} |-> mem[a]] /\ pc = "slide"
      /\ UNCHANGED <<frames, callStack, immediates, operandStack>>
  BY <1>1, NotedIs, SlideFrom
<1>3. TypeOK /\ TypeOK' /\ ObjectsView /\ FramesView /\ ObjectsView' /\ FramesView'
  BY DEF RefInv, View
<1>4. DOMAIN NumberedObjects = LiveIds /\ DOMAIN NumberedObjects' = LiveIds'
  BY <1>3 DEF ObjectsView
<1>5. LiveIds' \subseteq LiveIds
  BY <1>2 DEF LiveIds
<1>6. PICK live, keep : live = {mem[a].id : a \in Staying} /\ keep = LiveIds'
  OBVIOUS
<1>7. Memory!Reachable(live, outer)
  BY <1>2, <1>6, StayingIsReachable
<1>8. live \subseteq keep
  <2>1. i \notin Staying
    BY <1>1, SlideFrom DEF Staying
  <2>2. Staying \subseteq DOMAIN mem'
    BY <1>2, <2>1 DEF Staying
  <2> QED
    BY <1>2, <1>6, <2>2 DEF LiveIds
<1>9. NumberedObjects' = [n \in keep |-> NumberedObjects[n]]
  <2>1. ASSUME NEW n \in keep PROVE NumberedObjects'[n] = NumberedObjects[n]
    <3>1. PICK a \in DOMAIN mem' : n = mem'[a].id
      BY <1>6 DEF LiveIds
    <3>2. a \in DOMAIN mem /\ mem'[a] = mem[a]
      BY <1>2
    <3> QED
      BY <1>3, <3>1, <3>2 DEF ObjectsView
  <2> QED
    BY <1>3, <1>6, <2>1 DEF ObjectsView
<1>10. PICK objs, memory : objs = NumberedObjects' /\ memory = mem'
  OBVIOUS
<1>11. Memory!Owned(callStack, objs) = Owned(callStack, memory)
  <2>1. \A a \in DOMAIN memory : \E n \in DOMAIN objs : objs[n].env = memory[a].env
    BY <1>3, <1>10, NextEnvironments DEF EnvironmentsMatch
  <2>2. \A n \in DOMAIN objs : \E a \in DOMAIN memory : objs[n].env = memory[a].env
    BY <1>3, <1>10, NextEnvironments DEF EnvironmentsMatch
  <2>3. \A a \in DOMAIN memory : memory[a].env \in Live \union {0}
    <3>1. \A a \in DOMAIN memory : a \in DOMAIN mem /\ memory[a] = mem[a]
      BY <1>2, <1>10
    <3> QED
      BY <1>3, <3>1, LiveAre
  <2>4. \A k \in DOMAIN callStack : callStack[k] \in Live
    BY <1>3, LiveAre
  <2> QED
    BY <1>3, <2>1, <2>2, <2>3, <2>4, MemoryOwned
<1>12. Live' = Owned(callStack, memory)
  BY <1>2, <1>10 DEF Live, Owned, Lineage
<1>13. Live' \subseteq Live
  <2>1. \A a \in DOMAIN memory : memory[a] = mem[a] /\ a \in DOMAIN mem
    BY <1>2, <1>10
  <2> QED
    BY <1>12, <2>1 DEF Live, Owned
<1>14. OwnedFrames' =
         [e \in Live' |->
            [parent |-> OwnedFrames[e].parent,
             vars |-> [k \in DOMAIN OwnedFrames[e].vars |->
                         Memory!Left(OwnedFrames[e].vars[k], keep)]]]
  <2>1. OwnedFrames' = [e \in Live' |-> FrameMeaning(frames[e])']
    BY <1>3 DEF FramesView
  <2>2. ASSUME NEW e \in Live'
        PROVE  FrameMeaning(frames[e])' =
                 [parent |-> OwnedFrames[e].parent,
                  vars |-> [k \in DOMAIN OwnedFrames[e].vars |->
                              Memory!Left(OwnedFrames[e].vars[k], keep)]]
    <3>1. e \in Live /\ e \in Environments
      BY <1>3, <1>13, <2>2, LiveAre
    <3>2. PICK vs : vs = FrameMeaning(frames[e]).vars
      OBVIOUS
    <3>3. OwnedFrames[e].parent = frames[e].parent /\ OwnedFrames[e].vars = vs
      BY <1>3, <3>1, <3>2, MemoryFrames
    <3>4. FrameMeaning(frames[e])' =
            [parent |-> frames[e].parent,
             vars |-> [k \in DOMAIN vs |-> Memory!Left(vs[k], keep)]]
      BY <1>2, <1>5, <1>6, <3>1, <3>2, LeftFrames
    <3> QED
      BY <3>3, <3>4
  <2> QED
    BY <2>1, <2>2
<1>15. /\ NumbersOf(immediates)' = NumbersOf(immediates)
       /\ NumbersOf(operandStack)' = NumbersOf(operandStack)
  BY <1>2 DEF View
<1>16. live \in SUBSET DOMAIN NumberedObjects /\ keep \in SUBSET DOMAIN NumberedObjects
  BY <1>4, <1>5, <1>6, <1>8
<1>17. Memory!Owned(callStack, NumberedObjects') = Live'
  BY <1>10, <1>11, <1>12
<1> QED
  BY <1>2, <1>7, <1>8, <1>9, <1>14, <1>15, <1>16, <1>17 DEF Memory!Forget

\* The steps of the collector.
LEMMA CollectingUnnoticed ==
  ASSUME RefInv, RefInv', HeapInv, View, View', Collecting,
         NEW outer \in BOOLEAN, outer => Linked
  PROVE  Memory!Forget(outer) \/ UNCHANGED Memory!objectVars
<1>1. CASE MarkValue
  BY <1>1, MarkUnseen
<1>2. CASE Marked \/ Slid
  <2>1. UNCHANGED <<mem, frames, callStack, immediates, operandStack>> /\ TypeOK /\ TypeOK'
    BY <1>2 DEF Marked, Slid, heap, roots, RefInv
  <2> QED
    BY <2>1, UnseenSame
<1>3. CASE Slide
  BY <1>3, SlideUnseen, SlideForgets
<1>4. CASE RemapInternal
  BY <1>4, InternalUnseen
<1>5. CASE RemapRoots
  BY <1>5, RootsUnseen
<1>6. CASE LoseCharacter
  <2>1. UNCHANGED <<mem, frames, callStack, immediates, operandStack>> /\ TypeOK /\ TypeOK'
    BY <1>6 DEF LoseCharacter, Stop, heap, roots, RefInv
  <2> QED
    BY <2>1, UnseenSame
<1> QED
  BY <1>1, <1>2, <1>3, <1>4, <1>5, <1>6 DEF Collecting

----------------------------------------------------------------------------------------
(* What the program does, in memory without addresses. *)

\* The operand stack there.
LEMMA MemoryStack ==
  ASSUME RefInv, View
  PROVE  /\ operandStack \in Seq(Refs) /\ Len(operandStack) \in Nat
         /\ NumbersOf(operandStack) = ValuesOf(operandStack)
         /\ Len(ValuesOf(operandStack)) = Len(operandStack)
         /\ operandStack # <<>> =>
              /\ Len(operandStack) >= 1 /\ ValuesOf(operandStack) # <<>>
              /\ Top \in Refs /\ Memory!Top = Value(Top)
         /\ \A n \in 0..Len(operandStack) :
              /\ Without(n) \in Seq(Refs)
              /\ Memory!Without(n) = ValuesOf(Without(n))
         /\ Len(operandStack) >= 2 =>
              /\ operandStack[Len(operandStack) - 1] \in Refs
              /\ Memory!Second = Value(operandStack[Len(operandStack) - 1])
<1>1. /\ operandStack \in Seq(Refs) /\ Len(operandStack) \in Nat
      /\ NumbersOf(operandStack) = ValuesOf(operandStack)
  BY DEF RefInv, TypeOK, View
<1>2. PICK vs, k : vs = ValuesOf(operandStack) /\ k = Len(operandStack)
  OBVIOUS
<1>3. /\ vs \in Seq(Int) /\ Len(vs) = k /\ k \in Nat
      /\ \A i \in 1..k : vs[i] = Value(operandStack[i]) /\ operandStack[i] \in Refs
  <2>1. vs \in Seq(Int) /\ Len(vs) = k /\ \A i \in 1..k : vs[i] = Value(operandStack[i])
    BY <1>1, <1>2, ValuesAre
  <2> QED
    BY <1>1, <1>2, <2>1, ElementsOf
<1>4. ASSUME operandStack # <<>>
      PROVE  k >= 1 /\ vs # <<>> /\ Top \in Refs /\ Memory!Top = Value(Top)
  <2>1. k \in 1..k /\ Top = operandStack[k]
    BY <1>1, <1>2, <1>4, LastOf DEF Top
  <2>2. vs # <<>>
    BY <1>3, <2>1
  <2>3. Memory!Top = vs[k]
    BY <1>1, <1>2, <1>3 DEF Memory!Top, Memory!Last
  <2> QED
    BY <1>3, <2>1, <2>2, <2>3
<1>5. ASSUME NEW n \in 0..k
      PROVE  Without(n) \in Seq(Refs) /\ Memory!Without(n) = ValuesOf(Without(n))
  <2>1. PICK l : l = k - n
    OBVIOUS
  <2>2. l \in 0..k /\ n \in Nat
    BY <1>3, <2>1
  <2>3. Without(n) = SubSeq(operandStack, 1, l)
    BY <1>2, <2>1 DEF Without
  <2>4. Memory!Without(n) = SubSeq(vs, 1, l)
    BY <1>1, <1>2, <1>3, <2>1 DEF Memory!Without
  <2>5. ValuesOf(SubSeq(operandStack, 1, l)) = SubSeq(vs, 1, l)
    <3>1. PICK m : m = 1
      OBVIOUS
    <3>2. m \in Nat \ {0} /\ l \in 0..Len(operandStack)
      BY <1>2, <2>2, <3>1
    <3>3. ValuesOf(SubSeq(operandStack, m, l)) = SubSeq(ValuesOf(operandStack), m, l)
      BY <1>1, <3>2, ValuesOfSome
    <3> QED
      BY <1>2, <3>1, <3>3
  <2>6. Without(n) \in Seq(Refs)
    BY <1>1, <2>2, WithoutIs
  <2> QED
    BY <2>3, <2>4, <2>5, <2>6
<1>6. ASSUME k >= 2
      PROVE  operandStack[k - 1] \in Refs /\ Memory!Second = Value(operandStack[k - 1])
  <2>1. k - 1 \in 1..k
    BY <1>3, <1>6
  <2>2. Memory!Second = vs[k - 1]
    BY <1>1, <1>2, <1>3 DEF Memory!Second
  <2> QED
    BY <1>3, <2>1, <2>2
<1> QED
  BY <1>1, <1>2, <1>3, <1>4, <1>5, <1>6

\* One more operand there.
LEMMA MemoryPush ==
  ASSUME RefInv, View, NEW r \in Refs
  PROVE  /\ ValuesOf(Append(operandStack, r)) = Append(NumbersOf(operandStack), Value(r))
         /\ \A n \in 0..Len(operandStack) :
              ValuesOf(Append(Without(n), r)) = Append(Memory!Without(n), Value(r))
<1>1. ValuesOf(Append(operandStack, r)) = Append(ValuesOf(operandStack), Value(r))
  BY MemoryStack, ValuesOfSome
<1>2. ASSUME NEW n \in 0..Len(operandStack)
      PROVE  ValuesOf(Append(Without(n), r)) = Append(Memory!Without(n), Value(r))
  <2>1. PICK s : s = Without(n)
    OBVIOUS
  <2>2. s \in Seq(Refs) /\ Memory!Without(n) = ValuesOf(s)
    BY <2>1, MemoryStack
  <2>3. ValuesOf(Append(s, r)) = Append(ValuesOf(s), Value(r))
    BY <2>2, ValuesOfSome
  <2> QED
    BY <2>1, <2>2, <2>3
<1> QED
  BY <1>1, <1>2, MemoryStack

\* The literals there.
LEMMA MemoryLiterals ==
  ASSUME RefInv, View
  PROVE  /\ immediates \in Seq(Refs) /\ NumbersOf(immediates) = ValuesOf(immediates)
         /\ ToSet(NumbersOf(immediates)) = {Value(r) : r \in ToSet(immediates)}
         /\ Memory!ToSet(NumbersOf(immediates)) = ToSet(NumbersOf(immediates))
         /\ \A r \in Refs :
              ValuesOf(Append(immediates, r)) = Append(NumbersOf(immediates), Value(r))
         /\ NullRef \in Refs /\ Value(NullRef) = Memory!Null
<1>1. immediates \in Seq(Refs) /\ NumbersOf(immediates) = ValuesOf(immediates)
  BY DEF RefInv, TypeOK, View
<1>2. NullRef \in Refs /\ Value(NullRef) = Memory!Null
  BY SizeAssumption DEF NullRef, Refs, Characters, Addresses, Value, IsChar, Memory!Null
<1> QED
  BY <1>1, <1>2, ValueIn, ValuesOfSome, MemoryToSet

\* An object on top of the stack there.
LEMMA MemoryTop ==
  ASSUME RefInv, View, pc = "run", NEW kinds, TopIs(kinds)
  PROVE  /\ Memory!IsA(Memory!Top, kinds) /\ NumbersOf(operandStack) # <<>>
         /\ NumberedObjects[Memory!Top] = Meaning(mem[Top.at])
         /\ Memory!Top = Top.id /\ Top.at \in DOMAIN mem /\ operandStack # <<>>
         /\ Top \in Refs
<1>1. /\ Top \in Refs /\ ~IsChar(Top) /\ Top.at \in DOMAIN mem
      /\ mem[Top.at].id = Top.id /\ operandStack # <<>>
  BY TopIsAnObject
<1>2. Memory!Top = Value(Top) /\ NumbersOf(operandStack) # <<>>
  BY <1>1, MemoryStack
<1>3. Memory!Top = Top.id
  BY <1>1, <1>2 DEF Value
<1>4. Top.id \in Nat \ {0}
  BY <1>1 DEF RefInv, IdsInv, Refs, Characters
<1>5. NumberedObjects[Top.id] = Meaning(mem[Top.at])
  BY <1>1 DEF View, ObjectsView
<1>6. mem[Top.at].kind \in kinds
  BY DEF TopIs
<1>7. PICK o : o = NumberedObjects[Top.id]
  OBVIOUS
<1>8. o.kind \in kinds
  BY <1>5, <1>6, <1>7 DEF Meaning
<1>9. Memory!IsA(Top.id, kinds)
  BY <1>4, <1>7, <1>8 DEF Memory!IsA
<1> QED
  BY <1>1, <1>2, <1>3, <1>5, <1>9

\* The objects and environments there, when the program leaves them alone.
LEMMA MemorySame ==
  ASSUME RefInv, RefInv', View, View'
  PROVE  /\ mem' = mem => NumberedObjects' = NumberedObjects
         /\ UNCHANGED <<mem, frames, callStack>> => OwnedFrames' = OwnedFrames
         /\ immediates' = immediates => NumbersOf(immediates)' = NumbersOf(immediates)
         /\ operandStack' = operandStack => NumbersOf(operandStack)' = NumbersOf(operandStack)
<1>1. TypeOK /\ TypeOK'
  BY DEF RefInv
<1>2. mem' = mem => NumberedObjects' = NumberedObjects
  BY SameObjects DEF View
<1>3. UNCHANGED <<mem, frames, callStack>> => OwnedFrames' = OwnedFrames
  BY <1>1, SameMemory
<1> QED
  BY <1>2, <1>3 DEF View

\* A step that touches nothing but the operand stack.
LEMMA MemoryOnStack ==
  ASSUME RefInv, RefInv', View, View', NEW new, OnStack(new)
  PROVE  Memory!OnStack(ValuesOf(new))
<1>1. UNCHANGED <<mem, frames, callStack, immediates>> /\ operandStack' = new
  BY DEF OnStack, heap
<1>2. NumbersOf(operandStack)' = ValuesOf(new)
  BY <1>1 DEF View
<1> QED
  BY <1>1, <1>2, MemorySame DEF Memory!OnStack

\* PushNull and PushI.
LEMMA PushConstantNext ==
  ASSUME RefInv, RefInv', View, View', PushConstant
  PROVE  Memory!PushConstant
<1>1. PICK r \in {NullRef} \union ToSet(immediates) : OnStack(Append(operandStack, r))
  BY DEF PushConstant
<1>2. r \in Refs /\ Value(r) \in {Memory!Null} \union Memory!ToSet(NumbersOf(immediates))
  BY MemoryLiterals, ToSetOf
<1>3. PICK new : new = Append(operandStack, r)
  OBVIOUS
<1>4. Memory!OnStack(ValuesOf(new))
  BY <1>1, <1>3, MemoryOnStack
<1>5. ValuesOf(new) = Append(NumbersOf(operandStack), Value(r))
  BY <1>2, <1>3, MemoryPush
<1>6. Memory!OnStack(Append(NumbersOf(operandStack), Value(r)))
  BY <1>4, <1>5
<1> QED
  BY <1>2, <1>6 DEF Memory!PushConstant

\* Load, of a variable that is not lost.
LEMMA LoadNext ==
  ASSUME RefInv, RefInv', View, View', Load
  PROVE  Memory!Load \/ UNCHANGED Memory!objectVars
<1>1. TypeOK /\ TypeOK' /\ FramesView
  BY DEF RefInv, View
<1>2. PICK e \in Lineage(Env) : \E i \in DOMAIN frames[e].vars :
        IF Valid(frames[e].vars[i])
        THEN OnStack(Append(operandStack, frames[e].vars[i]))
        ELSE Stop("dangling")
  BY DEF Load
<1>3. PICK i \in DOMAIN frames[e].vars :
        IF Valid(frames[e].vars[i])
        THEN OnStack(Append(operandStack, frames[e].vars[i]))
        ELSE Stop("dangling")
  BY <1>2
<1>4. PICK r : r = frames[e].vars[i]
  OBVIOUS
<1>5. PICK env : env = Env
  OBVIOUS
<1>6. env \in Live /\ e \in Live /\ e \in Environments /\ Memory!Lineage(env) = Lineage(env)
  <2>1. env \in Live /\ Live \subseteq Environments
    BY <1>1, <1>5, LiveAre
  <2>2. Lineage(env) \subseteq Live
    BY <1>1, <2>1, LiveAre
  <2>3. Memory!Lineage(env) = Lineage(env)
    BY <1>1, <2>1, MemoryLineage
  <2> QED
    BY <1>2, <1>5, <2>1, <2>2, <2>3
<1>7. r \in Refs /\ r \in ToSet(frames[e].vars)
  <2>1. frames[e].vars \in Seq(Refs)
    BY <1>1, <1>6, FrameTypes DEF RefSeqs
  <2> QED
    BY <1>3, <1>4, <2>1, ToSetOf
<1>8. CASE ~Valid(r)
  <2>1. UNCHANGED <<mem, frames, callStack, immediates, operandStack>>
    BY <1>3, <1>4, <1>8 DEF Stop, heap, roots
  <2> QED
    BY <1>1, <2>1, UnseenSame
<1>9. CASE Valid(r)
  <2>1. Intended(r) = Value(r) /\ Value(r) # 0
    BY <1>7, <1>9, IntendedIs
  <2>2. PICK vs : vs = OwnedFrames[e].vars
    OBVIOUS
  <2>3. ToSet(vs) = {Intended(s) : s \in ToSet(frames[e].vars)}
    BY <1>1, <1>6, <2>2, MemoryFrames
  <2>4. Value(r) \in Memory!ToSet(vs) \ {0}
    BY <1>7, <2>1, <2>3, MemoryToSet
  <2>5. PICK new : new = Append(operandStack, r)
    OBVIOUS
  <2>6. OnStack(new)
    BY <1>3, <1>4, <1>9, <2>5
  <2>7. Memory!OnStack(ValuesOf(new))
    BY <2>6, MemoryOnStack
  <2>8. ValuesOf(new) = Append(NumbersOf(operandStack), Value(r))
    BY <1>7, <2>5, MemoryPush
  <2>9. Memory!OnStack(Append(NumbersOf(operandStack), Value(r)))
    BY <2>7, <2>8
  <2>10. Memory!Env = env
    BY <1>5 DEF Memory!Env, Env, Memory!Last, Last
  <2>11. e \in Memory!Lineage(Memory!Env)
    BY <1>2, <1>5, <1>6, <2>10
  <2> QED
    BY <2>2, <2>4, <2>9, <2>11 DEF Memory!Load
<1> QED
  BY <1>8, <1>9

\* Discard.
LEMMA DiscardNext ==
  ASSUME RefInv, RefInv', View, View', Discard
  PROVE  Memory!Discard
<1>1. operandStack # <<>> /\ OnStack(Without(1))
  BY DEF Discard
<1>2. PICK new : new = Without(1)
  OBVIOUS
<1>3. Memory!OnStack(ValuesOf(new))
  BY <1>1, <1>2, MemoryOnStack
<1>4. ValuesOf(new) = Memory!Without(1) /\ NumbersOf(operandStack) # <<>>
  BY <1>1, <1>2, MemoryStack
<1> QED
  BY <1>3, <1>4 DEF Memory!Discard

\* Car, Cdr and unbox.
LEMMA TakeNext ==
  ASSUME RefInv, RefInv', View, View', Take
  PROVE  Memory!Take
<1>1. pc = "run" /\ TopIs({"pair", "box"})
  BY DEF Take, Running
<1>2. PICK r \in ToSet(mem[Top.at].refs) : OnStack(Append(Without(1), r))
  BY DEF Take
<1>3. /\ Memory!IsA(Memory!Top, {"pair", "box"}) /\ NumbersOf(operandStack) # <<>>
      /\ NumberedObjects[Memory!Top] = Meaning(mem[Top.at])
      /\ Top.at \in DOMAIN mem /\ operandStack # <<>>
  BY <1>1, MemoryTop
<1>4. mem[Top.at].refs \in Seq(Refs)
  BY <1>3 DEF RefInv, TypeOK
<1>5. r \in Refs /\ Value(r) \in Memory!ToSet(NumberedObjects[Memory!Top].refs)
  <2>1. PICK s : s = mem[Top.at].refs
    OBVIOUS
  <2>2. NumberedObjects[Memory!Top].refs = ValuesOf(s)
    BY <1>3, <2>1 DEF Meaning
  <2>3. r \in Refs /\ Value(r) \in ToSet(ValuesOf(s))
    BY <1>2, <1>4, <2>1, ValueIn, ToSetOf
  <2> QED
    BY <2>2, <2>3, MemoryToSet
<1>6. Memory!OnStack(Append(Memory!Without(1), Value(r)))
  <2>1. PICK new : new = Append(Without(1), r)
    OBVIOUS
  <2>2. Memory!OnStack(ValuesOf(new))
    BY <1>2, <2>1, MemoryOnStack
  <2>3. 1 \in 0..Len(operandStack)
    BY <1>3, MemoryStack
  <2>4. ValuesOf(new) = Append(Memory!Without(1), Value(r))
    BY <1>5, <2>1, <2>3, MemoryPush
  <2> QED
    BY <2>2, <2>4
<1> QED
  BY <1>3, <1>5, <1>6 DEF Memory!Take

\* get, of a string.
LEMMA GetNext ==
  ASSUME RefInv, RefInv', View, View', Get
  PROVE  Memory!Get
<1>1. pc = "run" /\ TopIs({"str"}) /\ "get" \in Ops
  BY DEF Get, Running
<1>2. PICK at \in Storage : OnStack(Append(Without(1), CharOf(at, Top.id)))
  BY DEF Get
<1>3. /\ Memory!IsA(Memory!Top, {"str"}) /\ NumbersOf(operandStack) # <<>>
      /\ Memory!Top = Top.id /\ operandStack # <<>> /\ Top \in Refs
  BY <1>1, MemoryTop
<1>4. PICK r, new : r = CharOf(at, Top.id) /\ new = Append(Without(1), r)
  OBVIOUS
<1>5. r \in Refs /\ Value(r) = -Memory!Top
  <2>1. Top.id \in Nat \ {0}
    <3>1. Top.id \in Nat /\ Top.at \in DOMAIN mem /\ mem[Top.at].id = Top.id
      BY <1>1, <1>3, TopIsAnObject, RefType
    <3> QED
      BY <3>1 DEF RefInv, IdsInv
  <2>2. PICK n : n = Top.id
    OBVIOUS
  <2>3. r = [at |-> at, id |-> n] /\ IsChar(r) /\ n \in Nat \ {0}
    BY <1>4, <2>1, <2>2, SizeAssumption DEF CharOf, IsChar, Below, Above
  <2>4. r \in Refs
    BY <1>1, <2>3 DEF Refs, Characters
  <2> QED
    BY <1>3, <2>2, <2>3, <2>4 DEF Value
<1>6. Memory!OnStack(ValuesOf(new))
  BY <1>4, <1>2, MemoryOnStack
<1>7. 1 \in 0..Len(operandStack)
  BY <1>3, MemoryStack
<1>8. ValuesOf(new) = Append(Memory!Without(1), -Memory!Top)
  BY <1>4, <1>5, <1>7, MemoryPush
<1>9. Memory!OnStack(Append(Memory!Without(1), -Memory!Top))
  BY <1>6, <1>8
<1> QED
  BY <1>3, <1>9 DEF Memory!Get

\* Store.
LEMMA StoreNext ==
  ASSUME RefInv, RefInv', View, View', Store
  PROVE  Memory!Store
<1>1. PICK e, top : e = Env /\ top = Top
  OBVIOUS
<1>2. /\ operandStack # <<>> /\ operandStack' = Without(1) /\ pc = "run"
      /\ frames' = [frames EXCEPT ![e].vars = Append(@, top)]
      /\ UNCHANGED <<mem, callStack, immediates>>
  BY <1>1 DEF Store, heap, Running
<1>3. Memory!Env = e
  BY <1>1 DEF Memory!Env, Env, Memory!Last, Last
<1>4. TypeOK /\ TypeOK' /\ FramesView /\ FramesView'
  BY DEF RefInv, View
<1>5. e \in Live /\ Live \subseteq Environments
  BY <1>1, <1>4, LiveAre
<1>6. /\ top \in Refs /\ Memory!Top = Value(top) /\ NumbersOf(operandStack) # <<>>
      /\ Memory!Without(1) = ValuesOf(Without(1))
  BY <1>1, <1>2, MemoryStack
<1>7. PICK t, f, fs : t = Value(top) /\ f = frames[e] /\ fs = Append(f.vars, top)
  OBVIOUS
<1>8. f \in [parent : Environments \union {0}, vars : Seq(Refs)]
  BY <1>4, <1>5, <1>7 DEF TypeOK
<1>9. frames'[e] = [f EXCEPT !.vars = fs] /\ \A d \in Live : d # e => frames'[d] = frames[d]
  BY <1>2, <1>4, <1>5, <1>7 DEF TypeOK
<1>10. frames'[e].parent = f.parent /\ frames'[e].vars = fs
  BY <1>8, <1>9
<1>11. Live' = Live
  <2>1. \A d \in Live : frames'[d].parent = frames[d].parent
    BY <1>7, <1>9, <1>10
  <2> QED
    BY <1>2, <1>4, <2>1, LiveStay
<1>12. Intended(top) = t
  <2>1. Valid(top)
    BY <1>1, <1>2, AtHand DEF GoingOn
  <2> QED
    BY <1>6, <1>7, <2>1, IntendedIs
<1>13. PICK vs : vs = FrameMeaning(f).vars
  OBVIOUS
<1>14. FrameMeaning(f) = [parent |-> f.parent, vars |-> vs]
  BY <1>13 DEF FrameMeaning
<1>15. FrameMeaning(frames'[e]) = [parent |-> f.parent, vars |-> Append(vs, t)]
  <2>1. PICK s, n : s = f.vars /\ n = Len(s)
    OBVIOUS
  <2>2. s \in Seq(Refs) /\ n \in Nat /\ DOMAIN s = 1..n
    BY <1>8, <2>1
  <2>3. /\ fs = Append(s, top) /\ DOMAIN fs = 1..n + 1 /\ fs[n + 1] = top
        /\ \A i \in 1..n : fs[i] = s[i]
    BY <1>6, <1>7, <2>1, <2>2
  <2>4. vs = [i \in 1..n |-> Intended(s[i])]
    BY <1>13, <2>1, <2>2 DEF FrameMeaning
  <2>5. PICK ws : ws = [i \in 1..n + 1 |-> Intended(fs[i])]
    OBVIOUS
  <2>6. Append(vs, t) = ws
    <3>1. \A r \in Refs : Intended(r) \in Int
      BY RefType DEF Intended
    <3>2. \A i \in 1..n : s[i] \in Refs
      BY <2>2
    <3>3. vs \in Seq(Int) /\ Len(vs) = n
      BY <2>2, <2>4, <3>1, <3>2
    <3>4. t \in Int
      BY <1>6, <1>12, <3>1
    <3>5. Append(vs, t) = [i \in 1..n + 1 |-> IF i = n + 1 THEN t ELSE vs[i]]
      <4>1. PICK us : us = Append(vs, t)
        OBVIOUS
      <4>2. /\ us \in Seq(Int) /\ DOMAIN us = 1..n + 1 /\ us[n + 1] = t
            /\ \A i \in 1..n : us[i] = vs[i]
        BY <2>2, <3>3, <3>4, <4>1
      <4>3. us = [i \in DOMAIN us |-> us[i]]
        BY <4>2
      <4>4. \A i \in 1..n + 1 : us[i] = IF i = n + 1 THEN t ELSE vs[i]
        <5>1. ASSUME NEW i \in 1..n + 1, i # n + 1 PROVE i \in 1..n
          BY <2>2, <5>1
        <5> QED
          BY <4>2, <5>1
      <4> QED
        BY <4>1, <4>2, <4>3, <4>4
    <3>6. \A i \in 1..n + 1 : ws[i] = IF i = n + 1 THEN t ELSE vs[i]
      <4>1. ASSUME NEW i \in 1..n + 1, i # n + 1
            PROVE  i \in 1..n
        BY <2>2, <4>1
      <4> QED
        BY <1>12, <2>2, <2>3, <2>4, <2>5, <4>1
    <3> QED
      BY <2>5, <3>5, <3>6
  <2>7. FrameMeaning(frames'[e]).vars = ws
    BY <1>10, <2>3, <2>5 DEF FrameMeaning
  <2> QED
    BY <1>10, <2>6, <2>7 DEF FrameMeaning
<1>16. \A d \in Live : FrameMeaning(frames[d])' = FrameMeaning(frames'[d])
  <2>1. LiveIds' = LiveIds
    BY <1>2 DEF LiveIds
  <2> QED
    BY <2>1 DEF FrameMeaning, Intended
<1>17. PICK g, g2 : g = OwnedFrames /\ g2 = OwnedFrames'
  OBVIOUS
<1>18. /\ g = [d \in Live |-> FrameMeaning(frames[d])]
       /\ g2 = [d \in Live |-> FrameMeaning(frames'[d])]
  BY <1>4, <1>11, <1>16, <1>17 DEF FramesView
<1>19. g[e] = [parent |-> f.parent, vars |-> vs]
  BY <1>5, <1>7, <1>14, <1>18
<1>20. g2[e] = [parent |-> f.parent, vars |-> Append(vs, t)]
  BY <1>5, <1>15, <1>18
<1>21. g2[e] = [g[e] EXCEPT !.vars = Append(@, t)]
  BY ONLY <1>19, <1>20
<1>22. \A d \in Live : d # e => g2[d] = g[d]
  BY <1>9, <1>18
<1>23. g2 = [g EXCEPT ![e].vars = Append(@, t)]
  BY <1>5, <1>18, <1>21, <1>22
<1>24. OwnedFrames' = [OwnedFrames EXCEPT ![Memory!Env].vars = Append(@, Memory!Top)]
  BY <1>3, <1>6, <1>7, <1>17, <1>23
<1>25. NumbersOf(operandStack)' = Memory!Without(1)
  BY <1>2, <1>6 DEF View
<1>26. /\ NumberedObjects' = NumberedObjects
       /\ NumbersOf(immediates)' = NumbersOf(immediates)
  BY <1>2, MemorySame
<1> QED
  BY <1>2, <1>6, <1>24, <1>25, <1>26 DEF Memory!Store

\* Frames of which what they contain is as it was.
LEMMA SameMeanings ==
  ASSUME mem' = mem
  PROVE  \A e : FrameMeaning(frames[e])' = FrameMeaning(frames'[e])
<1>1. LiveIds' = LiveIds
  BY DEF LiveIds
<1> QED
  BY <1>1 DEF FrameMeaning, Intended

\* An environment whose variables are written anew.
LEMMA FrameRewritten ==
  ASSUME RefInv, RefInv', View, View', NEW e \in Live, NEW w, UNCHANGED <<mem, callStack>>,
         frames' = [frames EXCEPT ![e].vars = w]
  PROVE  OwnedFrames' = [OwnedFrames EXCEPT ![e].vars = [i \in DOMAIN w |-> Intended(w[i])]]
<1>1. TypeOK /\ TypeOK' /\ FramesView /\ FramesView' /\ Live \subseteq Environments
  BY LiveAre DEF RefInv, View
<1>2. PICK f, vs : f = frames[e] /\ vs = [i \in DOMAIN w |-> Intended(w[i])]
  OBVIOUS
<1>3. f \in [parent : Environments \union {0}, vars : Seq(Refs)]
  BY <1>1, <1>2 DEF TypeOK
<1>4. frames'[e] = [f EXCEPT !.vars = w] /\ \A d \in Live : d # e => frames'[d] = frames[d]
  BY <1>1, <1>2 DEF TypeOK
<1>5. frames'[e].parent = f.parent /\ frames'[e].vars = w
  BY <1>3, <1>4
<1>6. Live' = Live
  <2>1. \A d \in Live : frames'[d].parent = frames[d].parent
    BY <1>2, <1>4, <1>5
  <2> QED
    BY <1>1, <2>1, LiveStay
<1>7. PICK g, g2 : g = OwnedFrames /\ g2 = OwnedFrames'
  OBVIOUS
<1>8. /\ g = [d \in Live |-> FrameMeaning(frames[d])]
      /\ g2 = [d \in Live |-> FrameMeaning(frames'[d])]
  BY <1>1, <1>6, <1>7, SameMeanings DEF FramesView
<1>9. g2[e] = [parent |-> f.parent, vars |-> vs]
  BY <1>2, <1>5, <1>8 DEF FrameMeaning
<1>10. g2[e] = [g[e] EXCEPT !.vars = vs]
  <2>1. PICK us : us = FrameMeaning(f).vars
    OBVIOUS
  <2>2. g[e] = [parent |-> f.parent, vars |-> us]
    BY <1>2, <1>8, <2>1 DEF FrameMeaning
  <2> QED
    BY ONLY <1>9, <2>2
<1>11. \A d \in Live : d # e => g2[d] = g[d]
  BY <1>4, <1>8
<1>12. g2 = [g EXCEPT ![e].vars = vs]
  BY <1>8, <1>10, <1>11
<1> QED
  BY <1>2, <1>7, <1>12

\* Rebind.
LEMMA RebindNext ==
  ASSUME RefInv, RefInv', View, View', Rebind
  PROVE  Memory!Rebind
<1>1. PICK top, env : top = Top /\ env = Env
  OBVIOUS
<1>2. /\ operandStack # <<>> /\ operandStack' = Without(1) /\ pc = "run"
      /\ UNCHANGED <<mem, callStack, immediates>>
  BY DEF Rebind, heap, Running
<1>3. PICK e \in Lineage(env) : \E i \in DOMAIN frames[e].vars :
        frames' = [frames EXCEPT ![e].vars[i] = top]
  BY <1>1 DEF Rebind
<1>4. PICK s : s = frames[e].vars
  OBVIOUS
<1>5. PICK i \in DOMAIN s : frames' = [frames EXCEPT ![e].vars[i] = top]
  BY <1>3, <1>4
<1>6. /\ env \in Live /\ e \in Live /\ e \in Environments
      /\ Memory!Lineage(env) = Lineage(env)
  <2>1. TypeOK /\ FramesView
    BY DEF RefInv, View
  <2>2. env \in Live /\ Live \subseteq Environments
    BY <1>1, <2>1, LiveAre
  <2>3. Lineage(env) \subseteq Live
    BY <2>1, <2>2, LiveAre
  <2>4. Memory!Lineage(env) = Lineage(env)
    BY <2>1, <2>2, MemoryLineage
  <2> QED
    BY <1>3, <2>2, <2>3, <2>4
<1>7. /\ top \in Refs /\ Memory!Top = Value(top) /\ NumbersOf(operandStack) # <<>>
      /\ Memory!Without(1) = ValuesOf(Without(1))
  BY <1>1, <1>2, MemoryStack
<1>8. Intended(top) = Value(top)
  <2>1. Valid(top)
    BY <1>1, <1>2, AtHand DEF GoingOn
  <2> QED
    BY <1>7, <2>1, IntendedIs
<1>9. PICK w, ws : w = [s EXCEPT ![i] = top] /\ ws = [j \in DOMAIN w |-> Intended(w[j])]
  OBVIOUS
<1>10. PICK g, g2 : g = OwnedFrames /\ g2 = OwnedFrames'
  OBVIOUS
<1>11. g2 = [g EXCEPT ![e].vars = ws]
  <2>1. frames' = [frames EXCEPT ![e].vars = w]
    BY <1>4, <1>5, <1>9
  <2>2. OwnedFrames' = [OwnedFrames EXCEPT ![e].vars = [j \in DOMAIN w |-> Intended(w[j])]]
    BY <1>2, <1>6, <2>1, FrameRewritten
  <2>3. OwnedFrames' = [OwnedFrames EXCEPT ![e].vars = ws]
    BY <1>9, <2>2
  <2> QED
    BY <1>10, <2>3
<1>12. s \in Seq(Refs)
  BY <1>4, <1>6, FrameTypes DEF RefSeqs, RefInv
<1>13. PICK vs : vs = [j \in DOMAIN s |-> Intended(s[j])]
  OBVIOUS
<1>14. ws = [vs EXCEPT ![i] = Value(top)]
  BY <1>5, <1>8, <1>9, <1>12, <1>13
<1>15. g[e].vars = vs
  <2>1. g[e] = FrameMeaning(frames[e])
    BY <1>6, <1>10, MemoryFrames DEF View
  <2> QED
    BY <1>4, <1>13, <2>1 DEF FrameMeaning
<1>16. i \in DOMAIN g[e].vars
  BY <1>5, <1>13, <1>15
<1>17. g2 = [g EXCEPT ![e].vars[i] = Value(top)]
  BY <1>11, <1>14, <1>15
<1>18. NumbersOf(operandStack)' = Memory!Without(1)
  BY <1>2, <1>7 DEF View
<1>19. /\ NumberedObjects' = NumberedObjects
       /\ NumbersOf(immediates)' = NumbersOf(immediates)
  BY <1>2, MemorySame
<1>20. e \in Memory!Lineage(Memory!Env)
  <2>1. Memory!Env = env
    BY <1>1 DEF Memory!Env, Env, Memory!Last, Last
  <2> QED
    BY <1>3, <1>6, <2>1
<1> QED
  BY <1>2, <1>7, <1>10, <1>16, <1>17, <1>18, <1>19, <1>20 DEF Memory!Rebind

\* Recur.
LEMMA RecurNext ==
  ASSUME RefInv, RefInv', View, View', Recur
  PROVE  Memory!Recur
<1>1. PICK e, none : e = Env /\ none = <<>>
  OBVIOUS
<1>2. frames' = [frames EXCEPT ![e].vars = none] /\ UNCHANGED <<mem, callStack, immediates, operandStack>>
  BY <1>1 DEF Recur, heap
<1>3. e \in Live /\ Memory!Env = e
  BY <1>1, LiveAre DEF RefInv, Memory!Env, Env, Memory!Last, Last
<1>4. OwnedFrames' = [OwnedFrames EXCEPT ![e].vars = [i \in DOMAIN none |-> Intended(none[i])]]
  BY <1>2, <1>3, FrameRewritten
<1>5. [i \in DOMAIN none |-> Intended(none[i])] = <<>>
  BY <1>1
<1>6. OwnedFrames' = [OwnedFrames EXCEPT ![Memory!Env].vars = <<>>]
  BY <1>3, <1>4, <1>5
<1> QED
  BY <1>2, <1>6, MemorySame DEF Memory!Recur

\* The second operand, once the first is gone.
LEMMA SecondOnTop ==
  ASSUME operandStack \in Seq(Refs), Len(operandStack) >= 2
  PROVE  Append(Without(2), operandStack[Len(operandStack) - 1]) = Without(1)
<1>1. PICK s, l : s = operandStack /\ l = Len(s) - 2
  OBVIOUS
<1>2. s \in Seq(Refs) /\ l \in Nat /\ Len(s) = l + 2 /\ DOMAIN s = 1..l + 2
  BY <1>1
<1>3. PICK u, v, r : u = SubSeq(s, 1, l) /\ v = SubSeq(s, 1, l + 1) /\ r = s[l + 1]
  OBVIOUS
<1>4. r \in Refs
  <2>1. l + 1 \in 1..l + 2
    BY <1>2
  <2> QED
    BY <1>2, <1>3, <2>1, ElementsOf
<1>5. u \in Seq(Refs) /\ Len(u) = l /\ \A i \in 1..l : u[i] = s[i]
  BY <1>2, <1>3
<1>6. v \in Seq(Refs) /\ Len(v) = l + 1 /\ \A i \in 1..l + 1 : v[i] = s[i]
  BY <1>2, <1>3
<1>7. PICK w : w = Append(u, r)
  OBVIOUS
<1>8. w \in Seq(Refs) /\ Len(w) = l + 1 /\ w[l + 1] = r /\ \A i \in 1..l : w[i] = u[i]
  BY <1>2, <1>4, <1>5, <1>7
<1>9. \A i \in 1..l + 1 : w[i] = v[i]
  BY <1>2, <1>3, <1>5, <1>6, <1>8
<1>10. w = v
  BY <1>2, <1>6, <1>8, <1>9, SeqEqual
<1>11. Len(operandStack) - 1 = l + 1 /\ Len(operandStack) - 2 = l
  BY <1>1, <1>2
<1> QED
  BY <1>1, <1>3, <1>7, <1>10, <1>11 DEF Without

\* set-box!.
LEMMA SetBoxNext ==
  ASSUME RefInv, RefInv', View, View', SetBox
  PROVE  Memory!SetBox
<1>1. PICK box, top : box = operandStack[Len(operandStack) - 1] /\ top = Top
  OBVIOUS
<1>2. PICK v : v = <<top>>
  OBVIOUS
<1>3. /\ pc = "run" /\ Len(operandStack) >= 2 /\ ~IsChar(box) /\ mem[box.at].kind = "box"
      /\ mem' = [mem EXCEPT ![box.at].refs = v]
      /\ operandStack' = Append(Without(2), box)
      /\ UNCHANGED <<frames, callStack, immediates>>
  BY <1>1, <1>2 DEF SetBox, Running
<1>4. /\ TypeOK /\ ObjectsView /\ ObjectsView'
      /\ TypeOK' /\ FramesView /\ FramesView'
  BY DEF RefInv, View
<1>5. /\ operandStack \in Seq(Refs) /\ Len(operandStack) \in Nat /\ operandStack # <<>>
      /\ Len(NumbersOf(operandStack)) = Len(operandStack)
      /\ box \in Refs /\ Memory!Second = Value(box)
      /\ top \in Refs /\ Memory!Top = Value(top)
      /\ Memory!Without(1) = ValuesOf(Without(1))
  <2>1. operandStack \in Seq(Refs) /\ Len(operandStack) \in Nat
    BY MemoryStack
  <2>2. operandStack # <<>> /\ 1 \in 0..Len(operandStack)
    BY <1>3, <2>1
  <2> QED
    BY <1>1, <1>3, <2>1, <2>2, MemoryStack
<1>6. box.at \in DOMAIN mem /\ mem[box.at].id = box.id
  <2>1. box \in ToSet(operandStack)
    <3>1. Len(operandStack) - 1 \in DOMAIN operandStack
      BY <1>3, <1>5
    <3> QED
      BY <1>1, <1>5, <3>1, ToSetOf
  <2>2. Valid(box)
    BY <1>3, <2>1, AtHand DEF GoingOn
  <2> QED
    BY <1>3, <2>2 DEF Valid
<1>7. Memory!Second = box.id /\ box.id \in Nat \ {0} /\ box.id \in LiveIds
  BY <1>3, <1>5, <1>6 DEF Value, RefInv, IdsInv, Refs, Characters, LiveIds
<1>8. PICK o, p, g, g2 : o = mem[box.at] /\ p = mem'[box.at]
                         /\ g = NumberedObjects /\ g2 = NumberedObjects'
  OBVIOUS
<1>9. o \in ObjectType
  BY <1>4, <1>6, <1>8 DEF TypeOK, ObjectType
<1>10. p = [o EXCEPT !.refs = v] /\ \A a \in DOMAIN mem : a # box.at => mem'[a] = mem[a]
  BY <1>3, <1>6, <1>8
<1>11. p.id = o.id /\ p.kind = o.kind /\ p.refs = v /\ p.env = o.env
  BY <1>9, <1>10 DEF ObjectType
<1>12. ValuesOf(v) = <<Value(top)>>
  BY <1>2 DEF ValuesOf
<1>13. DOMAIN mem' = DOMAIN mem
  BY <1>3
<1>14. \A a \in DOMAIN mem : mem'[a].id = mem[a].id
  BY <1>8, <1>10, <1>11
<1>15. LiveIds' = LiveIds
  BY <1>13, <1>14 DEF LiveIds
<1>16. g[box.id] = Meaning(o) /\ g2[box.id] = Meaning(p)
  <2>1. g[box.id] = Meaning(o)
    BY <1>4, <1>6, <1>8 DEF ObjectsView
  <2>2. box.at \in DOMAIN mem' /\ mem'[box.at].id = box.id
    BY <1>6, <1>13, <1>14
  <2>3. g2[box.id] = Meaning(p)
    BY <1>4, <1>8, <2>2 DEF ObjectsView
  <2> QED
    BY <2>1, <2>3
<1>17. g2[box.id] = [g[box.id] EXCEPT !.refs = <<Value(top)>>]
  BY <1>11, <1>12, <1>16 DEF Meaning
<1>18. ASSUME NEW n \in LiveIds, n # box.id PROVE g2[n] = g[n]
  <2>1. PICK a \in DOMAIN mem : n = mem[a].id
    BY DEF LiveIds
  <2>2. mem'[a] = mem[a] /\ a \in DOMAIN mem'
    BY <1>6, <1>10, <1>13, <1>18, <2>1
  <2> QED
    BY <1>4, <1>8, <2>1, <2>2 DEF ObjectsView
<1>19. g = [n \in LiveIds |-> g[n]] /\ g2 = [n \in LiveIds |-> g2[n]]
  BY <1>4, <1>8, <1>15 DEF ObjectsView
<1>20. g2 = [g EXCEPT ![box.id].refs = <<Value(top)>>]
  BY <1>7, <1>17, <1>18, <1>19
<1>21. NumberedObjects' = [NumberedObjects EXCEPT ![Memory!Second].refs = <<Memory!Top>>]
  BY <1>5, <1>7, <1>8, <1>20
<1>22. NumbersOf(operandStack)' = Memory!Without(1)
  BY <1>1, <1>3, <1>5, SecondOnTop DEF View
<1>23. Memory!IsA(Memory!Second, {"box"})
  <2>1. g[box.id].kind = "box"
    BY <1>3, <1>8, <1>16 DEF Meaning
  <2> QED
    BY <1>7, <1>8, <2>1 DEF Memory!IsA
<1>24. NumbersOf(immediates)' = NumbersOf(immediates)
  BY <1>3, MemorySame
<1>25. OwnedFrames' = OwnedFrames
  <2>1. \A a \in DOMAIN mem : mem'[a].env = mem[a].env
    BY <1>8, <1>10, <1>11
  <2> QED
    BY <1>3, <1>4, <1>13, <1>15, <2>1, UntouchedFrames
<1> QED
  BY <1>3, <1>5, <1>21, <1>22, <1>23, <1>24, <1>25 DEF Memory!SetBox

\* Sets of environments with all that the call stack and functions lead to, of which the
\* live ones are the smallest.
Enclosing(S) ==
  /\ HasParents(S)
  /\ \A i \in DOMAIN callStack : callStack[i] \in S
  /\ \A a \in DOMAIN mem : mem[a].env \in S \union {0}
LiveIsLeast == Enclosing(Live) /\ \A S : Enclosing(S) => Live \subseteq S

LEMMA LiveLeast == TypeOK => LiveIsLeast
<1> SUFFICES ASSUME TypeOK PROVE LiveIsLeast
  OBVIOUS
<1>1. Enclosing(Live)
  BY LiveAre DEF Enclosing
<1>2. /\ \A i \in DOMAIN callStack : callStack[i] \in Environments
      /\ \A a \in DOMAIN mem : mem[a].env \in Environments \union {0}
  BY StackTypes, ObjectTypes
<1>3. ASSUME NEW S, Enclosing(S) PROVE Live \subseteq S
  BY <1>2, <1>3, OwnedAre DEF Enclosing, Live
<1> QED
  BY <1>1, <1>3 DEF LiveIsLeast

\* In the next state too.
LEMMA NextLeast == TypeOK' => LiveIsLeast'
  BY LiveLeast, PTL

\* A derived environment.
LEMMA EnterNext ==
  ASSUME RefInv, RefInv', View, View', NEW parent, parent \in Live \union {0},
         NEW stack, Enter(parent, stack), mem' = mem
  PROVE  Memory!Enter(parent)
<1>1. TypeOK /\ TypeOK' /\ FramesView /\ FramesView'
  BY DEF RefInv, View
<1>2. PICK S, new : S = Environments \ Live /\ new = Least(S)
  OBVIOUS
<1>3. new \in Environments /\ new \notin Live
  BY <1>2, LeastFree DEF Enter, Live
<1>4. /\ frames' = [frames EXCEPT ![new] = [parent |-> parent, vars |-> <<>>]]
      /\ callStack' = Append(callStack, new)
  BY <1>2 DEF Enter, Live
<1>5. LiveIsLeast /\ LiveIsLeast' /\ Live \subseteq Environments
  BY <1>1, LiveLeast, NextLeast, LiveAre
<1>6. /\ frames'[new] = [parent |-> parent, vars |-> <<>>]
      /\ \A d \in Live : frames'[d] = frames[d]
  BY <1>1, <1>3, <1>4, <1>5 DEF TypeOK
<1>7. PICK n : n = Len(callStack)
  OBVIOUS
<1>8. /\ n \in Nat /\ DOMAIN callStack = 1..n /\ DOMAIN callStack' = 1..n + 1
      /\ callStack'[n + 1] = new /\ \A i \in 1..n : callStack'[i] = callStack[i]
  <2>1. callStack \in Seq(Environments) /\ n \in Nat /\ DOMAIN callStack = 1..n
    BY <1>1, <1>7, StackTypes DEF TypeOK
  <2> QED
    BY <1>3, <1>4, <1>7, <2>1
<1>9. PICK A, B : A = Live /\ B = Live'
  OBVIOUS
<1>10. /\ A \subseteq Environments /\ \A d \in A : frames[d].parent \in A \union {0}
       /\ \A i \in 1..n : callStack[i] \in A
       /\ \A a \in DOMAIN mem : mem[a].env \in A \union {0}
  BY <1>5, <1>8, <1>9 DEF LiveIsLeast, Enclosing, HasParents
<1>11. /\ B \subseteq Environments /\ \A d \in B : frames'[d].parent \in B \union {0}
       /\ \A i \in 1..n + 1 : callStack'[i] \in B
       /\ \A a \in DOMAIN mem : mem[a].env \in B \union {0}
  BY <1>5, <1>8, <1>9 DEF LiveIsLeast, Enclosing, HasParents
<1>12. B \subseteq A \union {new}
  <2>1. PICK T : T = A \union {new}
    OBVIOUS
  <2>2. T \subseteq Environments /\ \A d \in T : frames'[d].parent \in T \union {0}
    BY <1>3, <1>6, <1>9, <1>10, <2>1
  <2>3. \A i \in DOMAIN callStack' : callStack'[i] \in T
    <3>1. \A i \in 1..n + 1 : i = n + 1 \/ i \in 1..n
      BY <1>8
    <3> QED
      BY <1>8, <1>10, <2>1, <3>1
  <2>4. Enclosing(T)'
    BY <1>10, <2>1, <2>2, <2>3 DEF Enclosing, HasParents
  <2> QED
    BY <1>5, <1>9, <2>1, <2>4 DEF LiveIsLeast
<1>13. A \subseteq B
  <2>1. PICK T : T = A \cap B
    OBVIOUS
  <2>2. T \subseteq Environments /\ \A d \in T : frames[d].parent \in T \union {0}
    BY <1>6, <1>9, <1>10, <1>11, <2>1
  <2>3. 1..n \subseteq 1..n + 1
    BY <1>8
  <2>4. \A i \in DOMAIN callStack : callStack[i] \in T
    BY <1>8, <1>10, <1>11, <2>1, <2>3
  <2>5. Enclosing(T)
    BY <1>10, <1>11, <2>1, <2>2, <2>4 DEF Enclosing, HasParents
  <2> QED
    BY <1>5, <1>9, <2>1, <2>5 DEF LiveIsLeast
<1>14. B = A \union {new}
  <2>1. new \in B
    <3>1. n + 1 \in 1..n + 1
      BY <1>8
    <3> QED
      BY <1>8, <1>11, <3>1
  <2> QED
    BY <1>12, <1>13, <2>1
<1>15. FrameMeaning(frames'[new]) = [parent |-> parent, vars |-> <<>>]
  <2>1. PICK f : f = frames'[new]
    OBVIOUS
  <2>2. f.parent = parent /\ f.vars = <<>>
    BY <1>6, <2>1
  <2>3. [i \in DOMAIN <<>> |-> Intended(f.vars[i])] = <<>>
    OBVIOUS
  <2> QED
    BY <2>1, <2>2, <2>3 DEF FrameMeaning
<1>16. OwnedFrames' = [d \in DOMAIN OwnedFrames \union {new} |->
                        IF d = new THEN [parent |-> parent, vars |-> <<>>] ELSE OwnedFrames[d]]
  <2>1. DOMAIN OwnedFrames = A
    BY <1>1, <1>9 DEF FramesView
  <2>2. \A d \in A : OwnedFrames[d] = FrameMeaning(frames'[d])
    BY <1>1, <1>6, <1>9 DEF FramesView
  <2>3. OwnedFrames' = [d \in A \union {new} |-> FrameMeaning(frames'[d])]
    BY <1>1, <1>9, <1>14, SameMeanings DEF FramesView
  <2> QED
    BY <1>15, <2>1, <2>2, <2>3
<1>17. new \in Environments \ DOMAIN OwnedFrames
  BY <1>1, <1>3 DEF FramesView
<1> QED
  BY <1>4, <1>16, <1>17 DEF Memory!Enter

\* EnterLet.
LEMMA EnterLetNext ==
  ASSUME RefInv, RefInv', View, View', EnterLet
  PROVE  Memory!EnterLet
<1>1. Enter(Env, operandStack) /\ UNCHANGED <<mem, immediates>> /\ operandStack' = operandStack
  BY DEF EnterLet, Enter, heap
<1>2. Memory!Env = Env
  BY DEF Memory!Env, Env, Memory!Last, Last
<1>3. PICK parent : parent = Env
  OBVIOUS
<1>4. parent \in Live
  BY <1>3, LiveAre DEF RefInv
<1>5. Memory!Enter(parent)
  BY <1>1, <1>3, <1>4, EnterNext
<1> QED
  BY <1>1, <1>2, <1>3, <1>5, MemorySame DEF Memory!EnterLet

\* A call of a function of fixed arity.
LEMMA CallNext ==
  ASSUME RefInv, RefInv', View, View', Call
  PROVE  Memory!Call
<1>1. PICK parent : parent = mem[Top.at].env
  OBVIOUS
<1>2. /\ pc = "run" /\ TopIs({"fn"}) /\ Enter(parent, Without(1))
      /\ UNCHANGED <<mem, immediates>> /\ operandStack' = Without(1)
  BY <1>1 DEF Call, Enter, heap
<1>3. /\ Memory!IsA(Memory!Top, {"fn"}) /\ NumbersOf(operandStack) # <<>>
      /\ NumberedObjects[Memory!Top] = Meaning(mem[Top.at]) /\ operandStack # <<>>
      /\ Top.at \in DOMAIN mem
  BY <1>2, MemoryTop
<1>4. NumberedObjects[Memory!Top].env = parent
  BY <1>1, <1>3 DEF Meaning
<1>5. parent \in Live \union {0}
  BY <1>1, <1>3, LiveAre DEF RefInv
<1>6. Memory!Enter(parent)
  BY <1>2, <1>5, EnterNext
<1>7. NumbersOf(operandStack)' = Memory!Without(1)
  <2>1. 1 \in 0..Len(operandStack)
    BY <1>3, MemoryStack
  <2>2. Memory!Without(1) = ValuesOf(Without(1))
    BY <2>1, MemoryStack
  <2> QED
    BY <1>2, <2>2 DEF View
<1> QED
  BY <1>2, <1>3, <1>4, <1>6, <1>7, MemorySame DEF Memory!Call

\* Return and ExitLet.
LEMMA LeaveNext ==
  ASSUME RefInv, RefInv', View, View', Leave
  PROVE  Memory!Leave
<1>1. TypeOK /\ TypeOK' /\ FramesView /\ FramesView' /\ ObjectsView
  BY DEF RefInv, View
<1>2. PICK front, n, S : /\ front = Front(callStack) /\ n = Len(callStack) - 1
                         /\ S = Owned(front, mem)
  OBVIOUS
<1>3. /\ Len(callStack) > 1 /\ callStack' = front
      /\ UNCHANGED <<mem, immediates, operandStack>>
  BY <1>2 DEF Leave, heap
<1>4. /\ n \in Nat \ {0} /\ DOMAIN callStack = 1..n + 1
      /\ \A i \in 1..n + 1 : callStack[i] \in Environments
  BY <1>1, <1>2, <1>3, StackTypes
<1>5. DOMAIN front = 1..n /\ \A i \in 1..n : front[i] = callStack[i]
  <2>1. callStack \in Seq(Environments) /\ front = SubSeq(callStack, 1, n)
    BY <1>1, <1>2 DEF Front, TypeOK
  <2> QED
    BY <1>2, <1>4, <2>1
<1>6. \A i \in DOMAIN front : front[i] \in Live /\ front[i] \in Environments
  <2>1. 1..n \subseteq DOMAIN callStack
    BY <1>4
  <2> QED
    BY <1>1, <1>4, <1>5, <2>1, LiveAre
<1>7. /\ S \subseteq Environments /\ \A d \in S : frames[d].parent \in S \union {0}
      /\ \A i \in DOMAIN front : front[i] \in S
      /\ \A a \in DOMAIN mem : mem[a].env \in S \union {0}
      /\ \A T : /\ HasParents(T)
                /\ \A i \in DOMAIN front : front[i] \in T
                /\ \A a \in DOMAIN mem : mem[a].env \in T \union {0}
                => S \subseteq T
  <2>1. \A a \in DOMAIN mem : mem[a].env \in Environments \union {0}
    BY <1>1, ObjectTypes
  <2> QED
    BY <1>1, <1>2, <1>6, <2>1, OwnedAre DEF HasParents
<1>8. S \subseteq Live
  BY <1>1, <1>6, <1>7, LiveAre
<1>9. \A e \in S : frames'[e] = frames[e]
  <2>1. frames' = [e \in Environments |-> IF e \in S THEN frames[e] ELSE Free]
    BY <1>2, <1>3 DEF Leave
  <2> QED
    BY <1>7, <2>1
<1>10. Live' = S
  <2>1. LiveIsLeast'
    BY <1>1, NextLeast
  <2>2. PICK B : B = Live'
    OBVIOUS
  <2>3. /\ B \subseteq Environments /\ \A d \in B : frames'[d].parent \in B \union {0}
        /\ \A i \in DOMAIN front : front[i] \in B
        /\ \A a \in DOMAIN mem : mem[a].env \in B \union {0}
    BY <1>3, <2>1, <2>2 DEF LiveIsLeast, Enclosing, HasParents
  <2>4. Enclosing(S)'
    BY <1>3, <1>7, <1>9 DEF Enclosing, HasParents
  <2>5. B \subseteq S
    BY <2>1, <2>2, <2>4 DEF LiveIsLeast
  <2>6. S \subseteq B
    <3>1. PICK T : T = S \cap B
      OBVIOUS
    <3>2. HasParents(T)
      BY <1>7, <1>9, <2>3, <3>1 DEF HasParents
    <3>3. S \subseteq T
      BY <1>7, <2>3, <3>1, <3>2
    <3> QED
      BY <3>1, <3>3
  <2> QED
    BY <2>2, <2>5, <2>6
<1>11. Memory!Owned(front, NumberedObjects) = S
  <2>1. PICK objs : objs = NumberedObjects
    OBVIOUS
  <2>2. /\ \A a \in DOMAIN mem : \E k \in DOMAIN objs : objs[k].env = mem[a].env
        /\ \A k \in DOMAIN objs : \E a \in DOMAIN mem : objs[k].env = mem[a].env
    BY <1>1, <2>1, NumberedEnvironments DEF EnvironmentsMatch
  <2>3. \A a \in DOMAIN mem : mem[a].env \in Live \union {0}
    BY <1>1, LiveAre
  <2>4. \A i \in DOMAIN front : front[i] \in Live
    BY <1>6
  <2>5. Memory!Owned(front, objs) = Owned(front, mem)
    BY <1>1, <2>2, <2>3, <2>4, MemoryOwned
  <2> QED
    BY <1>2, <2>1, <2>5
<1>12. OwnedFrames' = Memory!Within(S)
  <2>1. OwnedFrames' = [e \in S |-> FrameMeaning(frames'[e])]
    BY <1>1, <1>3, <1>10, SameMeanings DEF FramesView
  <2>2. \A e \in S : OwnedFrames[e] = FrameMeaning(frames'[e])
    BY <1>1, <1>8, <1>9 DEF FramesView
  <2> QED
    BY <2>1, <2>2 DEF Memory!Within
<1>13. Memory!Front(callStack) = front
  BY <1>2 DEF Memory!Front, Front
<1> QED
  BY <1>2, <1>3, <1>11, <1>12, <1>13, MemorySame DEF Memory!Leave

\* What a flat program creates something of, in memory without addresses.
PairValues(q) ==
  /\ Len(NumbersOf(operandStack)) >= 2
  /\ ValuesOf(Given(q)) = <<Memory!Second, Memory!Top>>
BoxValues(q) ==
  /\ NumbersOf(operandStack) # <<>>
  /\ ValuesOf(Given(q)) = <<Memory!Top>>
SymbolValues(q) ==
  \E v \in Memory!ToSet(NumbersOf(immediates)) : ValuesOf(Given(q)) = <<v>>
LambdaValues(q) ==
  /\ ConstructedEnv(q) = Memory!Env
  /\ \E doc \in {Memory!Null} \union Memory!ToSet(NumbersOf(immediates)) :
       ValuesOf(Given(q)) = <<doc>>

\* The last two of a sequence.
LEMMA LastTwo ==
  ASSUME NEW s \in Seq(Int), Len(s) >= 2
  PROVE  SubSeq(s, Len(s) - 1, Len(s)) = <<s[Len(s) - 1], s[Len(s)]>>
<1>1. PICK k, u, x, y : /\ k = Len(s) - 1 /\ u = SubSeq(s, k, k + 1)
                        /\ x = s[k] /\ y = s[k + 1]
  OBVIOUS
<1>2. k \in Nat \ {0} /\ Len(s) = k + 1 /\ x \in Int /\ y \in Int
  BY <1>1
<1>3. u \in Seq(Int) /\ Len(u) = 2 /\ u[1] = x /\ u[2] = y
  BY <1>1, <1>2
<1>4. PICK v : v = <<x, y>>
  OBVIOUS
<1>5. v \in Seq(Int) /\ Len(v) = 2 /\ v[1] = x /\ v[2] = y
  BY <1>2, <1>4
<1>6. \A i \in 1..2 : u[i] = v[i]
  BY <1>3, <1>5
<1>7. u = v
  BY <1>3, <1>5, <1>6, SeqEqual
<1> QED
  BY <1>1, <1>2, <1>4, <1>7

\* What the constructors of a flat program are given, by what it is.
LEMMA GivenValues ==
  ASSUME RefInv, View, NEW q, q.op \in OwnCreations, Ready(q), Holds(q)
  PROVE  /\ q.op \in {"int", "str", "string"} => ValuesOf(Given(q)) = <<>>
         /\ q.op \in {"cons", "consBuiltin"} => PairValues(q)
         /\ q.op = "box" => BoxValues(q)
         /\ q.op = "symbol" => SymbolValues(q)
         /\ q.op \in Lambdas => LambdaValues(q)
<1>1. PICK vs, k : vs = ValuesOf(operandStack) /\ k = Len(operandStack)
  OBVIOUS
<1>2. /\ operandStack \in Seq(Refs) /\ NumbersOf(operandStack) = vs /\ vs \in Seq(Int)
      /\ Len(vs) = k /\ k \in Nat
  BY <1>1, MemoryStack, ValuesAre
<1>3. vs # <<>> => Memory!Top = vs[k] /\ Memory!Top = Last(vs)
  BY <1>2 DEF Memory!Top, Memory!Last, Last
<1>4. Memory!Second = vs[k - 1]
  BY <1>2 DEF Memory!Second
<1>5. ASSUME q.op \in {"int", "str", "string"} PROVE ValuesOf(Given(q)) = <<>>
  <2>1. Given(q) = <<>>
    BY <1>5 DEF Given, Holds, Ready
  <2> QED
    BY <2>1 DEF ValuesOf
<1>6. ASSUME q.op \in {"cons", "consBuiltin"} PROVE PairValues(q)
  <2>1. k >= 2
    BY <1>1, <1>6 DEF Ready, Holds
  <2>2. ValuesOf(Given(q)) = SubSeq(vs, k - 1, k)
    <3>1. CASE q.op = "cons"
      <4>1. PICK m, n : m = k - 1 /\ n = k
        OBVIOUS
      <4>2. m \in Nat \ {0} /\ n \in 0..Len(operandStack)
        BY <1>1, <1>2, <2>1, <4>1
      <4>3. Given(q) = SubSeq(operandStack, m, n)
        BY <1>1, <3>1, <4>1 DEF Given
      <4>4. ValuesOf(SubSeq(operandStack, m, n)) = SubSeq(ValuesOf(operandStack), m, n)
        BY <1>2, <4>2, ValuesOfSome
      <4> QED
        BY <1>1, <4>1, <4>3, <4>4
    <3>2. CASE q.op = "consBuiltin"
      <4>1. Given(q) = q.held
        BY <3>2 DEF Given
      <4> QED
        BY <1>1, <3>2, <4>1 DEF Holds
    <3> QED
      BY <1>6, <3>1, <3>2
  <2>3. SubSeq(vs, k - 1, k) = <<vs[k - 1], vs[k]>>
    BY <1>2, <2>1, LastTwo
  <2>4. vs # <<>>
    BY <1>2, <2>1
  <2> QED
    BY <1>2, <1>3, <1>4, <2>1, <2>2, <2>3, <2>4 DEF PairValues
<1>7. ASSUME q.op = "box" PROVE BoxValues(q)
  <2>1. Given(q) = q.held
    BY <1>7 DEF Given
  <2>2. k >= 1 /\ ValuesOf(q.held) = <<Last(vs)>>
    BY <1>1, <1>7 DEF Holds
  <2>3. vs # <<>>
    BY <1>2, <2>2
  <2> QED
    BY <1>2, <1>3, <2>1, <2>2, <2>3 DEF BoxValues
<1>8. ASSUME q.op = "symbol" PROVE SymbolValues(q)
  <2>1. Given(q) = q.held
    BY <1>8 DEF Given
  <2> QED
    BY <1>8, <2>1, MemoryLiterals DEF Holds, SymbolValues
<1>9. ASSUME q.op \in Lambdas PROVE LambdaValues(q)
  <2>1. ConstructedEnv(q) = Memory!Env
    <3>1. KindOf[q.op] \in {"fn", "vfn"}
      BY <1>9 DEF Lambdas, KindOf
    <3> QED
      BY <3>1 DEF ConstructedEnv, Memory!Env, Env, Memory!Last, Last
  <2>2. CASE q.op = "documented"
    <3>1. PICK r : r = immediates[q.n]
      OBVIOUS
    <3>2. Given(q) = <<r>> /\ q.n \in DOMAIN immediates
      BY <2>2, <3>1 DEF Given, Ready
    <3>3. Value(r) \in Memory!ToSet(NumbersOf(immediates))
      BY <3>1, <3>2, MemoryLiterals, ToSetOf
    <3>4. ValuesOf(Given(q)) = <<Value(r)>>
      BY <3>2 DEF ValuesOf
    <3> QED
      BY <2>1, <3>3, <3>4 DEF LambdaValues
  <2>3. CASE q.op # "documented"
    <3>1. Given(q) = <<NullRef>>
      BY <1>9, <2>3 DEF Given, Holds, Lambdas
    <3>2. ValuesOf(Given(q)) = <<Value(NullRef)>>
      BY <3>1 DEF ValuesOf
    <3> QED
      BY <2>1, <3>2, MemoryLiterals DEF LambdaValues
  <2> QED
    BY <2>2, <2>3
<1> QED
  BY <1>5, <1>6, <1>7, <1>8, <1>9

\* An object has been created there, with a number.
Constructed(q, n) ==
  /\ n \in DOMAIN NumberedObjects'
  /\ Memory!Made(n, KindOf[q.op], ValuesOf(Given(q)), ConstructedEnv(q))
  /\ OwnedFrames' = OwnedFrames /\ callStack' = callStack
  /\ \/ /\ q.op \in {"int", "str", "symbol"}
        /\ NumbersOf(immediates)' = Append(NumbersOf(immediates), n)
        /\ NumbersOf(operandStack)' = NumbersOf(operandStack)
     \/ /\ q.op \in DOMAIN Taken
        /\ NumbersOf(operandStack)' = Append(Memory!Without(Taken[q.op]), n)
        /\ NumbersOf(immediates)' = NumbersOf(immediates)

\* What is created is new there, and all else stays.
LEMMA ObjectMade ==
  ASSUME RefInv, RefInv', HeapInv, HoldInv, View, View', GoingOn,
         NEW q, q.op \in OwnCreations, Ready(q), Fits(q), NEW new, new = New, Grown(q, new),
         mem'[end].kind = KindOf[q.op]
  PROVE  /\ new \in Refs /\ Value(new) = new.id /\ new.id \in DOMAIN NumberedObjects'
         /\ Memory!Made(new.id, KindOf[q.op], ValuesOf(Given(q)), ConstructedEnv(q))
         /\ UNCHANGED <<frames, callStack>> => OwnedFrames' = OwnedFrames
<1>1. q.op \in Creations /\ ~IsPushBack(q)
  BY DEF OwnCreations, Creations, IsPushBack, BuilderOps
<1>2. /\ end \notin DOMAIN mem /\ DOMAIN mem' = DOMAIN mem \union {end}
      /\ new \in Refs /\ ~IsChar(new) /\ new.id \notin Ids /\ new.id # 0
      /\ mem'[end].id = new.id /\ mem'[end].refs = Given(q)
      /\ mem'[end].env = ConstructedEnv(q)
  BY <1>1, MemoryGrows
<1>3. \A a \in DOMAIN mem : mem'[a] = mem[a]
  BY <1>1, <1>2 DEF Grown, Put
<1>4. ObjectsView /\ ObjectsView'
  BY DEF View
<1>5. new.id \notin LiveIds /\ LiveIds' = LiveIds \union {new.id}
  <2>1. LiveIds \subseteq Ids
    BY IdsHave DEF LiveIds
  <2>2. LiveIds' = LiveIds \union {new.id}
    BY <1>2, <1>3 DEF LiveIds
  <2> QED
    BY <1>2, <2>1, <2>2
<1>6. Value(new) = new.id /\ new.id \in Nat \ {0}
  BY <1>2 DEF Value, Refs, Characters
<1>7. PICK g, g2 : g = NumberedObjects /\ g2 = NumberedObjects'
  OBVIOUS
<1>8. g2[new.id] = [kind |-> KindOf[q.op], refs |-> ValuesOf(Given(q)), env |-> ConstructedEnv(q)]
  <2>1. g2[new.id] = Meaning(mem'[end])
    BY <1>2, <1>4, <1>7 DEF ObjectsView
  <2> QED
    BY <1>2, <2>1 DEF Meaning
<1>9. ASSUME NEW n \in LiveIds PROVE g2[n] = g[n]
  <2>1. PICK a \in DOMAIN mem : n = mem[a].id
    BY DEF LiveIds
  <2>2. a \in DOMAIN mem' /\ mem'[a] = mem[a]
    BY <1>2, <1>3
  <2> QED
    BY <1>4, <1>7, <2>1, <2>2 DEF ObjectsView
<1>10. g = [n \in LiveIds |-> g[n]] /\ g2 = [n \in LiveIds \union {new.id} |-> g2[n]]
  BY <1>4, <1>5, <1>7 DEF ObjectsView
<1>11. DOMAIN g = LiveIds /\ DOMAIN g2 = LiveIds \union {new.id}
  BY <1>10
<1>12. g2 = [m \in DOMAIN g \union {new.id} |->
               IF m = new.id
               THEN [kind |-> KindOf[q.op], refs |-> ValuesOf(Given(q)), env |-> ConstructedEnv(q)]
               ELSE g[m]]
  BY <1>5, <1>8, <1>9, <1>10, <1>11
<1>13. Memory!Made(new.id, KindOf[q.op], ValuesOf(Given(q)), ConstructedEnv(q))
  BY <1>5, <1>6, <1>7, <1>11, <1>12 DEF Memory!Made
<1>14. ASSUME UNCHANGED <<frames, callStack>>
       PROVE  OwnedFrames' = OwnedFrames
  <2>1. TypeOK /\ TypeOK' /\ FramesView /\ FramesView'
    BY DEF RefInv, View
  <2>2. Live' = Live
    <3>1. mem'[end].env \in {0, Env}
      BY <1>2 DEF ConstructedEnv
    <3>2. \A a \in DOMAIN mem : a \in DOMAIN mem' /\ mem'[a].env = mem[a].env
      BY <1>2, <1>3
    <3>3. \A b \in DOMAIN mem' :
            mem'[b].env \in {0, Env} \/ \E a \in DOMAIN mem : mem'[b].env = mem[a].env
      BY <1>2, <3>1, <3>2
    <3> QED
      BY <1>14, <2>1, <3>2, <3>3, LiveStay
  <2>3. \A r \in Variables : Intended(r)' = Intended(r)
    BY <1>2, <1>5, IdsHave DEF Intended
  <2>4. ASSUME NEW e \in Live PROVE FrameMeaning(frames[e])' = FrameMeaning(frames[e])
    <3>1. PICK s : s = frames[e].vars
      OBVIOUS
    <3>2. e \in Environments /\ s \in Seq(Refs)
      BY <2>1, <2>4, <3>1, LiveAre, FrameTypes DEF RefSeqs
    <3>3. \A i \in DOMAIN s : s[i] \in Variables
      BY <3>1, <3>2, ToSetOf DEF Variables
    <3>4. \A i \in DOMAIN s : Intended(s[i])' = Intended(s[i])
      <4> SUFFICES ASSUME NEW i \in DOMAIN s PROVE Intended(s[i])' = Intended(s[i])
        OBVIOUS
      <4>1. PICK r : r = s[i]
        OBVIOUS
      <4>2. Intended(r)' = Intended(s[i])' /\ Intended(r) = Intended(s[i])
        BY <4>1 DEF Intended
      <4> QED
        BY <2>3, <3>3, <4>1, <4>2
    <3> QED
      BY <1>14, <3>1, <3>4 DEF FrameMeaning
  <2> QED
    BY <2>1, <2>2, <2>4, SameFrames
<1> QED
  BY <1>2, <1>6, <1>7, <1>11, <1>13, <1>14

\* A creation.
LEMMA ConstructIs ==
  ASSUME RefInv, RefInv', HeapInv, HoldInv, View, View', GoingOn,
         NEW q, q.op \in OwnCreations, Ready(q), Holds(q), Fits(q), Construct(q)
  PROVE  Stop("stale") \/ \E n : Constructed(q, n)
<1>1. q.op \notin {"quote", "variadic", "element"} /\ q.op \in DOMAIN KindOf
  BY DEF OwnCreations, BuilderOps
<1>2. CASE Stop("stale")
  BY <1>2
<1>3. CASE ~Stop("stale")
  <2>1. PICK new : new = New
    OBVIOUS
  <2>2. /\ Grown(q, new) /\ UNCHANGED <<frames, callStack>>
        /\ mem' = Put(mem, end, [kind |-> KindOf[q.op], id |-> new.id, marked |-> FALSE,
                                 refs |-> Given(q), env |-> ConstructedEnv(q)])
    BY <1>1, <1>3, <2>1 DEF Construct, Grown, IsPushBack
  <2>3. mem'[end].kind = KindOf[q.op]
    BY <2>2 DEF Put
  <2>4. /\ new \in Refs /\ Value(new) = new.id /\ new.id \in DOMAIN NumberedObjects'
        /\ Memory!Made(new.id, KindOf[q.op], ValuesOf(Given(q)), ConstructedEnv(q))
    BY <2>1, <2>2, <2>3, ObjectMade
  <2>5. OwnedFrames' = OwnedFrames
    BY <2>1, <2>2, <2>3, ObjectMade
  <2>6. CASE q.op \in {"int", "str", "symbol"}
    <3>1. immediates' = Append(immediates, new) /\ operandStack' = operandStack
      BY <1>1, <1>3, <2>1, <2>6 DEF Construct, Taken
    <3>2. NumbersOf(immediates)' = ValuesOf(Append(immediates, new))
      BY <3>1 DEF View
    <3>3. NumbersOf(immediates)' = Append(NumbersOf(immediates), new.id)
      BY <2>4, <3>2, MemoryLiterals
    <3>4. NumbersOf(operandStack)' = NumbersOf(operandStack)
      BY <3>1, MemorySame
    <3>5. Constructed(q, new.id)
      BY <2>2, <2>4, <2>5, <2>6, <3>3, <3>4 DEF Constructed
    <3> QED
      BY <3>5
  <2>7. CASE q.op \notin {"int", "str", "symbol"}
    <3>1. q.op \in DOMAIN Taken
      BY <1>1, <2>7 DEF Taken, KindOf
    <3>2. PICK k : k = Taken[q.op]
      OBVIOUS
    <3>3. operandStack' = Append(Without(k), new) /\ immediates' = immediates
      BY <1>1, <1>3, <2>1, <2>7, <3>2 DEF Construct
    <3>4. k \in 0..Len(operandStack)
      BY <3>1, <3>2, MemoryStack DEF Ready, Holds, Taken
    <3>5. ValuesOf(Append(Without(k), new)) = Append(Memory!Without(k), new.id)
      BY <2>4, <3>4, MemoryPush
    <3>6. NumbersOf(operandStack)' = Append(Memory!Without(Taken[q.op]), new.id)
      BY <3>2, <3>3, <3>5 DEF View
    <3>7. NumbersOf(immediates)' = NumbersOf(immediates)
      BY <3>3, MemorySame
    <3>8. Constructed(q, new.id)
      BY <2>2, <2>4, <2>5, <3>1, <3>6, <3>7 DEF Constructed
    <3> QED
      BY <3>8
  <2> QED
    BY <2>6, <2>7
<1> QED
  BY <1>2, <1>3

\* By what is created, it is one of the actions there.
LEMMA ConstructNext ==
  ASSUME RefInv, RefInv', HeapInv, HoldInv, View, View', GoingOn,
         NEW q, q.op \in OwnCreations, Ready(q), Holds(q), Fits(q), Construct(q)
  PROVE  Memory!Computing \/ UNCHANGED Memory!objectVars
<1>1. CASE Stop("stale")
  <2>1. UNCHANGED <<mem, frames, callStack, immediates, operandStack>> /\ TypeOK /\ TypeOK'
    BY <1>1 DEF Stop, heap, roots, RefInv
  <2> QED
    BY <2>1, UnseenSame
<1>2. CASE ~Stop("stale")
  <2>1. PICK n : Constructed(q, n)
    BY <1>2, ConstructIs
  <2>2. PICK kind, refs, env :
          /\ kind = KindOf[q.op] /\ refs = ValuesOf(Given(q)) /\ env = ConstructedEnv(q)
    OBVIOUS
  <2>3. /\ n \in DOMAIN NumberedObjects' /\ Memory!Made(n, kind, refs, env)
        /\ OwnedFrames' = OwnedFrames /\ callStack' = callStack
    BY <2>1, <2>2 DEF Constructed
  <2>4. q.op \in {"int", "str", "symbol"} =>
          /\ NumbersOf(immediates)' = Append(NumbersOf(immediates), n)
          /\ NumbersOf(operandStack)' = NumbersOf(operandStack)
    BY <2>1 DEF Constructed, Taken
  <2>5. PICK taken : taken = Taken[q.op]
    OBVIOUS
  <2>6. q.op \notin {"int", "str", "symbol"} =>
          /\ NumbersOf(operandStack)' = Append(Memory!Without(taken), n)
          /\ NumbersOf(immediates)' = NumbersOf(immediates)
    BY <2>1, <2>5 DEF Constructed
  <2>7. Memory!Without(0) = NumbersOf(operandStack)
    <3>1. PICK s : s = NumbersOf(operandStack)
      OBVIOUS
    <3>2. s \in Seq(Int)
      BY <3>1, MemoryStack, ValuesAre
    <3>3. SubSeq(s, 1, Len(s) - 0) = s
      BY <3>2
    <3> QED
      BY <3>1, <3>3 DEF Memory!Without
  <2>8. q.op \notin {"fn", "vfn"} /\ (kind \notin {"fn", "vfn"} => env = 0)
    BY <2>2 DEF OwnCreations, KindOf, ConstructedEnv
  <2>9. CASE q.op \in {"int", "str"}
    <3>1. kind = q.op /\ refs = <<>> /\ env = 0
      BY <2>2, <2>8, <2>9, GivenValues DEF KindOf
    <3>2. Memory!Literal
      BY <2>3, <2>4, <2>9, <3>1 DEF Memory!Literal
    <3> QED
      BY <3>2 DEF Memory!Computing
  <2>10. CASE q.op = "symbol"
    <3>1. kind = "sym" /\ env = 0
      BY <2>2, <2>8, <2>10 DEF KindOf
    <3>2. \E v \in Memory!ToSet(NumbersOf(immediates)) : refs = <<v>>
      BY <2>2, <2>10, GivenValues DEF SymbolValues
    <3>3. Memory!Literal
      BY <2>3, <2>4, <2>10, <3>1, <3>2 DEF Memory!Literal
    <3> QED
      BY <3>3 DEF Memory!Computing
  <2>11. CASE q.op \in {"cons", "consBuiltin"}
    <3>1. kind = "pair" /\ env = 0 /\ taken = 2
      BY <2>2, <2>5, <2>8, <2>11 DEF KindOf, Taken
    <3>2. Len(NumbersOf(operandStack)) >= 2 /\ refs = <<Memory!Second, Memory!Top>>
      BY <2>2, <2>11, GivenValues DEF PairValues
    <3>3. Memory!Pair
      BY <2>3, <2>6, <2>11, <3>1, <3>2 DEF Memory!Pair
    <3> QED
      BY <3>3 DEF Memory!Computing
  <2>12. CASE q.op = "box"
    <3>1. kind = "box" /\ env = 0 /\ taken = 1
      BY <2>2, <2>5, <2>8, <2>12 DEF KindOf, Taken
    <3>2. NumbersOf(operandStack) # <<>> /\ refs = <<Memory!Top>>
      BY <2>2, <2>12, GivenValues DEF BoxValues
    <3>3. Memory!Box
      BY <2>3, <2>6, <2>12, <3>1, <3>2 DEF Memory!Box
    <3> QED
      BY <3>3 DEF Memory!Computing
  <2>13. CASE q.op = "string"
    <3>1. kind = "str" /\ env = 0 /\ taken = 0 /\ refs = <<>>
      BY <2>2, <2>5, <2>8, <2>13, GivenValues DEF KindOf, Taken
    <3>2. Memory!String
      BY <2>3, <2>6, <2>7, <2>13, <3>1 DEF Memory!String
    <3> QED
      BY <3>2 DEF Memory!Computing
  <2>14. CASE q.op \in Lambdas
    <3>1. kind \in {"fn", "vfn"} /\ taken = 0 /\ q.op \notin {"int", "str", "symbol"}
      BY <2>2, <2>5, <2>14 DEF KindOf, Taken, Lambdas
    <3>2. /\ env = Memory!Env
          /\ \E doc \in {Memory!Null} \union Memory!ToSet(NumbersOf(immediates)) : refs = <<doc>>
      BY <2>2, <2>14, GivenValues DEF LambdaValues
    <3>3. Memory!Lambda
      BY <2>3, <2>6, <2>7, <3>1, <3>2 DEF Memory!Lambda
    <3> QED
      BY <3>3 DEF Memory!Computing
  <2> QED
    BY <2>9, <2>10, <2>11, <2>12, <2>13, <2>14 DEF OwnCreations, KindOf, BuilderOps, Lambdas
<1> QED
  BY <1>1, <1>2

\* Collect, and a stop, leave what the program uses as it is.
LEMMA CollectUnseen ==
  ASSUME RefInv, RefInv', View, View', NEW q, Collect(q)
  PROVE  UNCHANGED Memory!objectVars
<1>1. UNCHANGED <<mem, frames, callStack, immediates, operandStack>> /\ TypeOK /\ TypeOK'
  BY DEF Collect, Stop, heap, roots, RefInv
<1> QED
  BY <1>1, UnseenSame

\* The result of a call of collect-garbage.
LEMMA CollectedNext ==
  ASSUME RefInv, RefInv', View, View', Collected
  PROVE  Memory!PushConstant
<1>1. /\ operandStack' = Append(operandStack, NullRef)
      /\ UNCHANGED <<mem, frames, callStack, immediates>>
  BY DEF Collected, heap
<1>2. NullRef \in Refs /\ Value(NullRef) = Memory!Null
  BY MemoryLiterals
<1>3. ValuesOf(operandStack') = Append(NumbersOf(operandStack), Memory!Null)
  BY <1>1, <1>2, MemoryPush
<1>4. NumbersOf(operandStack)' = Append(NumbersOf(operandStack), Memory!Null)
  BY <1>3 DEF View
<1>5. /\ NumberedObjects' = NumberedObjects
      /\ OwnedFrames' = OwnedFrames
      /\ NumbersOf(immediates)' = NumbersOf(immediates)
  BY <1>1, MemorySame
<1>6. Memory!OnStack(Append(NumbersOf(operandStack), Memory!Null))
  BY <1>1, <1>4, <1>5 DEF Memory!OnStack
<1> QED
  BY <1>6 DEF Memory!PushConstant

\* A creation, at once or after a collection.
LEMMA CreateNext ==
  ASSUME RefInv, RefInv', HeapInv, HoldInv, View, View', GoingOn, NEW q, Creating(q)
  PROVE  Memory!Computing \/ UNCHANGED Memory!objectVars
<1>1. q.op \in OwnCreations /\ Ready(q) /\ Holds(q) /\ Create(q)
  BY DEF Creating
<1>2. CASE Fits(q)
  <2>1. Construct(q)
    BY <1>1, <1>2 DEF Create
  <2> QED
    BY <1>1, <1>2, <2>1, ConstructNext
<1>3. CASE ~Fits(q)
  <2>1. Collect(q)
    BY <1>1, <1>3 DEF Create
  <2> QED
    BY <2>1, CollectUnseen
<1> QED
  BY <1>2, <1>3

\* The second attempt.
LEMMA CreateAgainNext ==
  ASSUME RefInv, RefInv', HeapInv, HoldInv, View, View', CreateAgain
  PROVE  Memory!Computing \/ UNCHANGED Memory!objectVars
<1>1. pc = "collected" /\ native.op \in OwnCreations
  BY DEF CreateAgain, HoldInv, KindOf
<1>2. GoingOn /\ Ready(native) /\ Holds(native)
  BY <1>1 DEF GoingOn, RefInv, NativeInv, HoldInv
<1>3. CASE Fits(native)
  <2>1. Construct(native)
    BY <1>3 DEF CreateAgain
  <2> QED
    BY <1>1, <1>2, <1>3, <2>1, ConstructNext
<1>4. CASE ~Fits(native)
  <2>1. UNCHANGED <<mem, frames, callStack, immediates, operandStack>> /\ TypeOK /\ TypeOK'
    BY <1>4 DEF CreateAgain, heap, roots, RefInv
  <2> QED
    BY <2>1, UnseenSame
<1> QED
  BY <1>3, <1>4

----------------------------------------------------------------------------------------
(* The refinement. *)

\* Every step of a program has the effect it has on memory without addresses, and every
\* step of the collector makes objects disappear or none.
LEMMA MemoryStep ==
  ASSUME NoListsBuilt, NEW outer \in BOOLEAN
  PROVE  /\ CollectorInv /\ HoldInv /\ (outer => Linked) /\ CollectorInv' /\ [Next]_vars
         => [Memory!Computing \/ Memory!Forget(outer)]_Memory!objectVars
<1> SUFFICES ASSUME CollectorInv, HoldInv, outer => Linked, CollectorInv', [Next]_vars
             PROVE  Memory!Computing \/ Memory!Forget(outer) \/ UNCHANGED Memory!objectVars
  OBVIOUS
<1>1. RefInv /\ HeapInv /\ RefInv'
  BY DEF CollectorInv
<1>2. View /\ View'
  BY <1>1, Views, NextViews
<1>3. CASE UNCHANGED vars
  <2>1. UNCHANGED <<mem, frames, callStack, immediates, operandStack>> /\ TypeOK /\ TypeOK'
    BY <1>1, <1>3 DEF vars, RefInv
  <2> QED
    BY <1>2, <2>1, UnseenSame
<1>4. CASE Collecting
  BY <1>1, <1>2, <1>4, CollectingUnnoticed
<1>5. CASE Computing
  <2>0. /\ ~VariadicCall /\ ~FnLost /\ ~Called
        /\ ~Quote /\ ~Element /\ ~QuoteWithin /\ ~Push /\ ~Quoted
    BY <1>1, NoneBuilt DEF CollectorInv
  <2>1. CASE PushConstant
    BY <1>1, <1>2, <2>1, PushConstantNext DEF Memory!Computing
  <2>2. CASE Load
    BY <1>1, <1>2, <2>2, LoadNext DEF Memory!Computing
  <2>3. CASE Store
    BY <1>1, <1>2, <2>3, StoreNext DEF Memory!Computing
  <2>4. CASE Discard
    BY <1>1, <1>2, <2>4, DiscardNext DEF Memory!Computing
  <2>5. CASE Take
    BY <1>1, <1>2, <2>5, TakeNext DEF Memory!Computing
  <2>6. CASE Get
    BY <1>1, <1>2, <2>6, GetNext DEF Memory!Computing
  <2>7. CASE SetBox
    BY <1>1, <1>2, <2>7, SetBoxNext DEF Memory!Computing
  <2>8. CASE EnterLet
    BY <1>1, <1>2, <2>8, EnterLetNext DEF Memory!Computing
  <2>9. CASE Call
    BY <1>1, <1>2, <2>9, CallNext DEF Memory!Computing
  <2>10. CASE Leave
    BY <1>1, <1>2, <2>10, LeaveNext DEF Memory!Computing
  <2>11. CASE Literal \/ MakePair \/ MakeBox \/ MakeString \/ MakeLambda
    <3>1. GoingOn /\ SomethingCreated
      BY <1>1, <2>11, ProgramCreates
    <3>2. PICK q : Creating(q)
      BY <3>1 DEF SomethingCreated
    <3> QED
      BY <1>1, <1>2, <3>1, <3>2, CreateNext
  <2>12. CASE CreateAgain
    BY <1>1, <1>2, <2>12, CreateAgainNext
  <2>13. CASE CollectGarbage
    <3>1. PICK q : Collect(q)
      BY <2>13 DEF CollectGarbage
    <3> QED
      BY <1>1, <1>2, <3>1, CollectUnseen
  <2>14. CASE Collected
    BY <1>1, <1>2, <2>14, CollectedNext DEF Memory!Computing
  <2>15. CASE Rebind
    BY <1>1, <1>2, <2>15, RebindNext DEF Memory!Computing
  <2>16. CASE Recur
    BY <1>1, <1>2, <2>16, RecurNext DEF Memory!Computing
  <2> QED
    BY <1>5, <2>0, <2>1, <2>2, <2>3, <2>4, <2>5, <2>6, <2>7, <2>8, <2>9, <2>10, <2>11,
       <2>12, <2>13, <2>14, <2>15, <2>16 DEF Computing
<1> QED
  BY <1>3, <1>4, <1>5 DEF Next

\* At the beginning there is null and the environment of the top level.
LEMMA MemoryStart == Init => Memory!Init
<1> SUFFICES ASSUME Init PROVE Memory!Init
  OBVIOUS
<1>1. /\ DOMAIN mem = {0}
      /\ mem[0] = [kind |-> "null", id |-> 1, marked |-> FALSE, refs |-> <<>>, env |-> 0]
      /\ frames = [e \in Environments |-> Free] /\ callStack = <<TopLevel>>
      /\ immediates = <<>> /\ operandStack = <<>>
  BY DEF Init
<1>2. View /\ TypeOK
  BY InitRefs, Views DEF RefInv
<1>3. ValuesOf(<<>>) = <<>>
  BY DEF ValuesOf
<1>4. NumbersOf(immediates) = <<>> /\ NumbersOf(operandStack) = <<>>
  BY <1>1, <1>2, <1>3 DEF View
<1>5. NumberedObjects = [n \in {Memory!Null} |-> [kind |-> "null", refs |-> <<>>, env |-> 0]]
  <2>1. LiveIds = {Memory!Null} /\ mem[0].id = Memory!Null
    BY <1>1 DEF LiveIds, Memory!Null
  <2>2. NumberedObjects[Memory!Null] = Meaning(mem[0])
    BY <1>1, <1>2, <2>1 DEF View, ObjectsView
  <2>3. Meaning(mem[0]) = [kind |-> "null", refs |-> <<>>, env |-> 0]
    BY <1>1, <1>3 DEF Meaning
  <2> QED
    BY <1>2, <2>1, <2>2, <2>3 DEF View, ObjectsView
<1>6. OwnedFrames = [e \in {Memory!TopLevel} |-> [parent |-> 0, vars |-> <<>>]]
  <2>1. PICK top : top = TopLevel
    OBVIOUS
  <2>2. /\ top \in Environments /\ top = Memory!TopLevel
        /\ frames[top].parent = 0 /\ frames[top].vars = <<>>
    BY <1>1, <2>1, SizeAssumption DEF TopLevel, Memory!TopLevel, Free
  <2>3. Live = {top}
    <3>1. DOMAIN callStack = {1} /\ callStack[1] = top
      BY <1>1, <2>1
    <3>2. Enclosing({top})
      BY <1>1, <2>2, <3>1 DEF Enclosing, HasParents
    <3> QED
      BY <1>2, <3>1, <3>2, LiveLeast DEF LiveIsLeast, Enclosing
  <2>4. FrameMeaning(frames[top]) = [parent |-> 0, vars |-> <<>>]
    <3>1. PICK f : f = frames[top]
      OBVIOUS
    <3>2. [i \in DOMAIN <<>> |-> Intended(f.vars[i])] = <<>>
      OBVIOUS
    <3> QED
      BY <2>2, <3>1, <3>2 DEF FrameMeaning
  <2> QED
    BY <1>2, <2>2, <2>3, <2>4 DEF View, FramesView
<1>7. callStack = <<Memory!TopLevel>>
  BY <1>1 DEF TopLevel, Memory!TopLevel
<1> QED
  BY <1>4, <1>5, <1>6, <1>7 DEF Memory!Init

\* A program that makes its functions at the top level, and in which no C++ code builds
\* lists, computes on its heap, which is collected and compacted, what it would compute
\* on objects that have no addresses and of which now and then some disappear that
\* nothing leads to, with any heap and any number of environments; it sets and clears
\* its variables as it likes.  This holds up to the fault at which it may stop: a copy
\* of a reference used after a collection, a character that was moved (FaultsTraced,
\* and PlainProgramsAreUnfaulted for programs without either).
\* Code: all of gc.cpp; the operations of vm.cpp and builtins.cpp.
THEOREM FlatProgramsDoNotNotice ==
  ASSUME FlatProgram
  PROVE  Spec => Unnoticed
<1>1. CollectorInv /\ FlatInv /\ [Next]_vars => FlatInv'
  BY FlatStep
<1>2. CollectorInv /\ FlatInv /\ CollectorInv' /\ [Next]_vars
        => [Memory!Computing \/ Memory!Forget(TRUE)]_Memory!objectVars
  <2>1. NoListsBuilt
    BY DEF FlatProgram, NoListsBuilt
  <2>2. /\ CollectorInv /\ HoldInv /\ (TRUE => Linked) /\ CollectorInv' /\ [Next]_vars
        => [Memory!Computing \/ Memory!Forget(TRUE)]_Memory!objectVars
    BY <2>1, MemoryStep
  <2> QED
    BY <2>2 DEF FlatInv
<1>3. Spec => []CollectorInv
  BY CollectorAlways
<1>4. Init => FlatInv
  BY FlatStart
<1> QED
  BY <1>1, <1>2, <1>3, <1>4, MemoryStart, PTL DEF Spec, Unnoticed, Memory!Spec

\* Any program in which no C++ code builds lists, with closures wherever they are made,
\* computes what it would compute on objects without addresses of which now and then some
\* disappear that nothing leads to but, perhaps, variables above the environment of a
\* function, and with those the values of these variables.  Of what such a program can
\* go on to use this is all that the collector loses by not going on to the parent; what
\* it spoils otherwise, copies in C++ code and characters above the heap, stops it at a
\* fault (FaultsTraced) before it can go on with that.
\* Code: markFrame; all of gc.cpp; the operations of vm.cpp and builtins.cpp.
THEOREM ClosuresLoseOnlyOuterVariables ==
  ASSUME NoListsBuilt
  PROVE  Spec => OnlyOuterLost
<1>1. CollectorInv /\ HoldInv /\ [Next]_vars => HoldInv'
  BY HoldStep
<1>2. CollectorInv /\ HoldInv /\ CollectorInv' /\ [Next]_vars
        => [Memory!Computing \/ Memory!Forget(FALSE)]_Memory!objectVars
  <2>1. /\ CollectorInv /\ HoldInv /\ (FALSE => Linked) /\ CollectorInv' /\ [Next]_vars
        => [Memory!Computing \/ Memory!Forget(FALSE)]_Memory!objectVars
    BY MemoryStep
  <2> QED
    BY <2>1
<1>3. Spec => []CollectorInv
  BY CollectorAlways
<1>4. Init => HoldInv
  BY FlatStart DEF FlatInv
<1> QED
  BY <1>1, <1>2, <1>3, <1>4, MemoryStart, PTL DEF Spec, OnlyOuterLost, Memory!LossySpec
========================================================================================
