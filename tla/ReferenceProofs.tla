-------------------------------- MODULE ReferenceProofs --------------------------------
(**************************************************************************************)
(* The invariant of module CollectorProofs, through the steps of the program.         *)
(* Theorems: the heap is typed; no reference of the program is to anything but its    *)
(* object; the front of a list that is being built is kept; after a collection only   *)
(* what it may keep is left; each step of a collection gets it closer to its end; a   *)
(* reference that is lost is used only by the three ways of losing one; and so a      *)
(* plain program never comes upon one.                                                *)
(**************************************************************************************)
EXTENDS CollectorProofs

----------------------------------------------------------------------------------------
(* The program, outside of the collector. *)

\* Where the program is when the collector is not at work.
Awake == {"run", "build", "oom"}

\* The program goes on, or C++ code of it that waited for the collector.
GoingOn == pc \in {"run", "build", "collected"}

\* What the invariant says when the collector is not at work.
LEMMA AwakeInv ==
  ASSUME TypeOK', NativeInv', HandlesInv', IdsInv', RestInv', Unmarked', pc' \in Awake
  PROVE  RefInv'
<1>1. MarkInv' /\ SlidingInv' /\ InternalInv' /\ ReachedInv'
  BY DEF Awake, MarkInv, SlidingInv, InternalInv, ReachedInv
<1> QED
  BY <1>1 DEF RefInv

\* No C++ code waits, and no handle is alive.
LEMMA RunInv ==
  ASSUME pc' = "run", native' = Idle, handles' = <<>>
  PROVE  NativeInv' /\ HandlesInv'
<1>1. NullRef \in Refs
  <2>1. 0 \in Addresses
    BY SizeAssumption DEF Addresses
  <2> QED
    BY <2>1 DEF NullRef, Refs
<1>2. Idle \in Waiters
  <2>1. <<>> \in Seq(Refs) /\ <<>> \in Seq(Suspensions)
    OBVIOUS
  <2> QED
    BY <1>1, <2>1 DEF Idle, Waiters
<1>3. Handled(native)'
  BY DEF Handled, BuilderOps, Idle
<1>4. NativeInv'
  BY <1>2, <1>3 DEF NativeInv
<1>5. HandlesInv'
  BY DEF HandlesInv
<1> QED
  BY <1>4, <1>5

\* The C++ code that waits for no object has no handles.
LEMMA RunHandles ==
  ASSUME NativeInv, pc = "run" \/ native.op = "collect"
  PROVE  handles = <<>> /\ (pc = "run" => native = Idle)
  BY DEF NativeInv, Handled, BuilderOps, Idle

\* What the program has at hand is there.
LEMMA AtHand ==
  ASSUME RefInv, GoingOn
  PROVE  /\ \A r \in RootSet : Valid(r)
         /\ \A r \in ToSet(operandStack) \union ToSet(immediates) \union {NullRef} :
              Valid(r) /\ r \in Refs
         /\ \A h \in DOMAIN handles : h = plist => Valid(handles[h].val)
         /\ \A a \in DOMAIN mem : \A r \in ToSet(mem[a].refs) : Valid(r) /\ r \in Refs
         /\ operandStack # <<>> =>
              /\ Top \in ToSet(operandStack) /\ Valid(Top) /\ Top \in Refs
              /\ Top = operandStack[Len(operandStack)]
              /\ Len(operandStack) \in Nat \ {0}
<1>1. TypeOK /\ RestInv /\ AtRest
  BY DEF RefInv, GoingOn, AtRest
<1>2. \A r \in RootSet : Valid(r)
  BY <1>1 DEF RestInv
<1>3. RootSet \subseteq Refs
  BY <1>1, RootTypes
<1>4. \A r \in ToSet(operandStack) \union ToSet(immediates) \union {NullRef} :
              Valid(r) /\ r \in Refs
  BY <1>2, <1>3 DEF RootSet
<1>5. \A h \in DOMAIN handles : h = plist => Valid(handles[h].val)
  BY <1>2 DEF RootSet, HandleSet
<1>6. \A a \in DOMAIN mem : \A r \in ToSet(mem[a].refs) : Valid(r) /\ r \in Refs
  BY <1>1, RootTypes DEF RestInv, ChildSet
<1>7. ASSUME operandStack # <<>>
      PROVE  /\ Top \in ToSet(operandStack)
             /\ Top = operandStack[Len(operandStack)]
             /\ Len(operandStack) \in Nat \ {0}
  <2>1. operandStack \in Seq(Refs)
    BY <1>1 DEF TypeOK
  <2>2. /\ Top = operandStack[Len(operandStack)] /\ Len(operandStack) \in Nat
        /\ Len(operandStack) \in 1..Len(operandStack) /\ DOMAIN operandStack = 1..Len(operandStack)
    BY <1>7, <2>1, LastOf, ElementsOf DEF Top
  <2> QED
    BY <1>7, <2>2 DEF ToSet
<1> QED
  BY <1>2, <1>4, <1>5, <1>6, <1>7

\* Steps that leave memory alone: they get their references from where there
\* are good ones.
LEMMA MemoryStays ==
  ASSUME RefInv, GoingOn, pc' \in Awake, NativeInv', HandlesInv',
         UNCHANGED <<mem, end, charMarks, grey, index, gone, breaks, collapse, frameSet>>,
         fault' \in {"none", "dangling", "stale", "handle", "shifted"},
         frames' \in [Environments -> [parent : Environments \union {0}, vars : Seq(Refs)]],
         callStack' \in Seq(Environments), callStack' # <<>>,
         immediates' \in Seq(Refs), operandStack' \in Seq(Refs),
         handles' \in Seq([val : Refs, prev : Nat, next : Nat]), plist' \in Nat,
         \A r \in ToSet(immediates') \union ToSet(operandStack') : Valid(r),
         \A h \in DOMAIN handles' : h = plist' => Valid(handles'[h].val),
         \A e \in Environments : \A r \in ToSet(frames'[e].vars) :
           r \in ToSet(frames[e].vars) \/ Valid(r),
         \A i \in DOMAIN callStack' : \A r \in ToSet(frames'[callStack'[i]].vars) : Valid(r)
  PROVE  RefInv'
<1>1. TypeOK /\ IdsInv /\ RestInv /\ Unmarked /\ AtRest
  BY DEF RefInv, GoingOn, AtRest
<1>2. TypeOK'
  BY <1>1 DEF TypeOK, Awake
<1>3. IdsInv'
  BY <1>1 DEF IdsInv
<1>4. Unmarked'
  BY <1>1 DEF Unmarked, GoingOn, Awake
<1>5. \A r : (Valid(r)' <=> Valid(r)) /\ (Gone(r)' <=> Gone(r))
  BY SameNumbers
<1>6. \A r \in RootSet' : Valid(r)
  <2>1. Valid(NullRef)
    BY <1>1 DEF RestInv, RootSet
  <2>2. \A r \in HandleSet' : Valid(r)
    BY DEF HandleSet
  <2>3. \A r \in StackSet' : Valid(r)
    BY DEF StackSet
  <2> QED
    BY <2>1, <2>2, <2>3 DEF RootSet
<1>7. ASSUME NEW a \in DOMAIN mem', NEW r \in ChildSet(mem[a])'
      PROVE  Valid(r)
  <2>1. a \in DOMAIN mem /\ mem'[a] = mem[a] /\ mem[a].env \in Environments \union {0}
    BY <1>1, <1>7, ObjectTypes
  <2>2. CASE r \in ToSet(mem[a].refs)
    BY <1>1, <2>1, <2>2 DEF RestInv, ChildSet
  <2>3. CASE r \notin ToSet(mem[a].refs)
    <3>1. mem[a].env \in Environments /\ r \in ToSet(frames'[mem[a].env].vars)
      BY <1>7, <2>1, <2>3 DEF ChildSet, EnvSet
    <3>2. r \in ToSet(frames[mem[a].env].vars) => r \in ChildSet(mem[a])
      BY <3>1, <1>1, FrameTypes DEF ChildSet, EnvSet
    <3> QED
      BY <1>1, <2>1, <3>1, <3>2 DEF RestInv
  <2> QED
    BY <2>2, <2>3
<1>8. ASSUME NEW r \in Variables'
      PROVE  Valid(r) \/ Gone(r)
  <2>1. PICK e \in Environments : r \in ToSet(frames'[e].vars)
    BY <1>8 DEF Variables
  <2>2. r \in ToSet(frames[e].vars) => r \in Variables
    BY <2>1 DEF Variables
  <2> QED
    BY <1>1, <2>1, <2>2 DEF RestInv
<1>9. RestInv'
  BY <1>5, <1>6, <1>7, <1>8 DEF RestInv
<1> QED
  BY <1>2, <1>3, <1>4, <1>9, AwakeInv

\* The operand stack without some operands, and with one more.
LEMMA WithoutIs ==
  ASSUME operandStack \in Seq(Refs), NEW n \in Nat
  PROVE  /\ Without(n) \in Seq(Refs) /\ ToSet(Without(n)) \subseteq ToSet(operandStack)
         /\ n <= Len(operandStack) => Len(Without(n)) = Len(operandStack) - n
<1> DEFINE m == Len(operandStack) - n
<1>1. m \in Int /\ m <= Len(operandStack) /\ Len(operandStack) \in Nat
  OBVIOUS
<1>2. Without(n) = SubSeq(operandStack, 1, m)
  BY DEF Without
<1>3. n <= Len(operandStack) => Len(SubSeq(operandStack, 1, m)) = m
  BY <1>1
<1> HIDE DEF m
<1>4. /\ SubSeq(operandStack, 1, m) \in Seq(Refs)
      /\ ToSet(SubSeq(operandStack, 1, m)) \subseteq ToSet(operandStack)
  BY <1>1, ToSetSub
<1> QED
  BY <1>2, <1>3, <1>4 DEF m

\* The operand stack with one more reference, in the place of some operands or not.
LEMMA PushedIs ==
  ASSUME operandStack \in Seq(Refs), NEW n \in Nat, NEW r \in Refs
  PROVE  /\ Append(Without(n), r) \in Seq(Refs)
         /\ ToSet(Append(Without(n), r)) \subseteq ToSet(operandStack) \union {r}
         /\ Append(operandStack, r) \in Seq(Refs)
         /\ ToSet(Append(operandStack, r)) = ToSet(operandStack) \union {r}
<1>1. Without(n) \in Seq(Refs) /\ ToSet(Without(n)) \subseteq ToSet(operandStack)
  BY WithoutIs
<1> HIDE DEF Without
<1>2. /\ Append(Without(n), r) \in Seq(Refs)
      /\ ToSet(Append(Without(n), r)) = ToSet(Without(n)) \union {r}
  BY <1>1, ToSetAppend
<1>3. Append(operandStack, r) \in Seq(Refs) /\ ToSet(Append(operandStack, r)) = ToSet(operandStack) \union {r}
  BY ToSetAppend
<1> QED
  BY <1>1, <1>2, <1>3

\* Undefined behaviour, and nothing at all.
LEMMA NothingDone ==
  ASSUME RefInv, fault' \in {"none", "dangling", "stale", "handle", "shifted"},
         UNCHANGED <<mem, end, frames, callStack, immediates, operandStack, handles, plist,
                     charMarks, pc, native, grey, index, gone, breaks, collapse, frameSet>>
  PROVE  RefInv'
<1>1. UNCHANGED <<mem, end, frames, callStack, immediates, operandStack, handles, plist,
                  charMarks, pc, native, grey, index, gone, breaks, collapse, frameSet>>
  OBVIOUS
<1>2. TypeOK'
  BY <1>1 DEF RefInv, TypeOK
<1>3. NativeInv' /\ HandlesInv'
  <2>1. Handled(native)'
    BY <1>1 DEF RefInv, NativeInv, Handled, Nested, BelowOf
  <2>2. HandlesInv'
    BY <1>1 DEF RefInv, HandlesInv, HeadDestroyed
  <2> QED
    BY <1>1, <2>1, <2>2 DEF RefInv, NativeInv, Ready
<1>4. /\ \A r : (Valid(r)' <=> Valid(r)) /\ (Gone(r)' <=> Gone(r))
      /\ LiveIds' = LiveIds
  BY <1>1, SameNumbers
<1>5. /\ RootSet' = RootSet /\ Variables' = Variables
      /\ \A e : EnvSet(e)' = EnvSet(e)
      /\ \A e : Lineage(e)' = Lineage(e)
  BY <1>1, SameRoots
<1>6. \A a \in DOMAIN mem : ChildSet(mem[a])' = ChildSet(mem[a])
  BY <1>1, <1>5 DEF ChildSet
<1>7. IdsInv' /\ RestInv' /\ Unmarked'
  <2>1. IdsInv'
    BY <1>1 DEF RefInv, IdsInv
  <2>2. RestInv'
    BY <1>1, <1>4, <1>5, <1>6 DEF RefInv, RestInv, AtRest
  <2>3. Unmarked'
    BY <1>1 DEF RefInv, Unmarked
  <2> QED
    BY <2>1, <2>2, <2>3
<1>8. ASSUME NEW S, NEW A \in SUBSET DOMAIN mem
      PROVE  (ClosedAmong(S, A)' <=> ClosedAmong(S, A)) /\ ObjectIds(ToSet(grey))' = ObjectIds(ToSet(grey))
  BY <1>1, <1>5, <1>6 DEF ClosedAmong, ObjectIds
<1>9. /\ Blackened' = Blackened /\ Blackened \subseteq DOMAIN mem
      /\ Staying' = Staying /\ Staying \subseteq DOMAIN mem
  BY <1>1 DEF Blackened, Staying, Kept
<1>10. \A r : (Pending(r)' <=> Pending(r)) /\ (Stays(r)' <=> Stays(r)) /\ (Reaches(r)' <=> Reaches(r))
  <2>1. \A r : Pending(r)' <=> Pending(r)
    BY <1>1 DEF Pending, Done
  <2>2. \A r : Stays(r)' <=> Stays(r)
    BY <1>1, <1>9 DEF Stays
  <2>3. \A r : Reaches(r)' <=> Reaches(r)
    BY <1>1 DEF Reaches
  <2> QED
    BY <2>1, <2>2, <2>3
<1>11. MarkInv'
  <2> SUFFICES ASSUME pc' = "mark" PROVE MarkInv'
    BY DEF MarkInv
  <2>1. MarkInv /\ pc = "mark"
    BY <1>1 DEF RefInv
  <2>2. ASSUME NEW S \in SUBSET LiveIds', ClosedAmong(S, Blackened)'
        PROVE  (\A a \in Blackened' : mem'[a].id \in S) /\ ObjectIds(ToSet(grey))' \subseteq S
    <3>1. ClosedAmong(S, Blackened)
      <4>2. ObjectIds(RootSet) \subseteq S
        BY <1>1, <1>5, <2>2 DEF ClosedAmong, ObjectIds
      <4>3. \A a \in Blackened : mem[a].id \in S => ObjectIds(ChildSet(mem[a])) \subseteq S
        BY <1>1, <1>6, <1>9, <2>2 DEF ClosedAmong, ObjectIds
      <4> QED
        BY <4>2, <4>3 DEF ClosedAmong
    <3> QED
      BY <1>1, <1>4, <1>8, <1>9, <2>1, <3>1 DEF MarkInv
  <2>3. /\ \A r \in ToSet(grey') : Valid(r)'
        /\ \A r \in RootSet' : Pending(r)'
        /\ \A a \in Blackened' : \A r \in ChildSet(mem[a])' : Pending(r)'
    BY <1>1, <1>4, <1>5, <1>6, <1>9, <1>10, <2>1 DEF MarkInv
  <2> QED
    BY <2>2, <2>3 DEF MarkInv
<1>12. SlidingInv'
  <2> SUFFICES ASSUME pc' = "slide" PROVE SlidingInv'
    BY DEF SlidingInv
  <2>1. SlidingInv /\ pc = "slide"
    BY <1>1 DEF RefInv
  <2>2. \A r : Follows(r)' <=> Follows(r)
    BY <1>1, <1>4, <1>10 DEF Follows
  <2>3. BreaksInv'
    BY <1>1, <2>1 DEF SlidingInv, BreaksInv
  <2>4. ASSUME NEW S \in SUBSET LiveIds', ClosedAmong(S, Staying)'
        PROVE  \A a \in Staying' : mem'[a].id \in S \union charMarks'
    <3>1. ClosedAmong(S, Staying)
      <4>2. ObjectIds(RootSet) \subseteq S
        BY <1>1, <1>5, <2>4 DEF ClosedAmong, ObjectIds
      <4>3. \A a \in Staying : mem[a].id \in S => ObjectIds(ChildSet(mem[a])) \subseteq S
        BY <1>1, <1>6, <1>9, <2>4 DEF ClosedAmong, ObjectIds
      <4> QED
        BY <4>2, <4>3 DEF ClosedAmong
    <3> QED
      BY <1>1, <1>4, <1>9, <2>1, <3>1 DEF SlidingInv
  <2>5. /\ \A a \in DOMAIN mem' : a < index' - gone' => ~mem'[a].marked
        /\ \A r \in RootSet' : Follows(r)' /\ Stays(r)'
        /\ \A a \in DOMAIN mem' : \A r \in ChildSet(mem[a])' : Follows(r)'
        /\ \A a \in Staying' : \A r \in ChildSet(mem[a])' : Stays(r)'
        /\ \A r \in Variables' : Follows(r)'
    BY <1>1, <1>5, <1>6, <1>9, <1>10, <2>1, <2>2 DEF SlidingInv
  <2> QED
    BY <2>3, <2>4, <2>5 DEF SlidingInv
<1>13. InternalInv'
  <2> SUFFICES ASSUME pc' = "internal" PROVE InternalInv'
    BY DEF InternalInv
  <2>1. InternalInv /\ pc = "internal"
    BY <1>1 DEF RefInv
  <2>2. \A r : Found(r)' <=> Found(r)
    BY <1>4, <1>10 DEF Found
  <2> QED
    BY <1>1, <1>4, <1>5, <1>6, <2>1, <2>2 DEF InternalInv
<1>14. ReachedInv'
  <2> SUFFICES ASSUME pc' \in {"internal", "collected"},
                      NEW S \in SUBSET LiveIds', ClosedAmong(S, DOMAIN mem)'
               PROVE  \A a \in DOMAIN mem' : mem'[a].id \in S \union charMarks'
    BY DEF ReachedInv
  <2>1. ClosedAmong(S, DOMAIN mem)
    BY <1>1, <1>5, <1>6 DEF ClosedAmong, ObjectIds
  <2> QED
    BY <1>1, <1>4, <2>1 DEF RefInv, ReachedInv
<1> QED
  BY <1>2, <1>3, <1>7, <1>11, <1>12, <1>13, <1>14 DEF RefInv

\* A fault changes nothing else.
LEMMA StopInv ==
  ASSUME RefInv, NEW f \in {"none", "dangling", "stale", "handle", "shifted"}, Stop(f)
  PROVE  RefInv'
<1>1. UNCHANGED <<mem, end, frames, callStack, immediates, operandStack, handles, plist,
                  charMarks, pc, native, grey, index, gone, breaks, collapse, frameSet>>
  BY DEF Stop, heap, roots, locals
<1>2. fault' \in {"none", "dangling", "stale", "handle", "shifted"}
  BY DEF Stop
<1> QED
  BY <1>1, <1>2, NothingDone

\* What is common to the steps by which the program goes on by itself.
LEMMA RunStep ==
  ASSUME RefInv, GoingOn, pc' = "run", native' = Idle, handles' = <<>>, plist' = plist,
         UNCHANGED <<mem, end, charMarks, grey, index, gone, breaks, collapse, frameSet, fault>>,
         frames' \in [Environments -> [parent : Environments \union {0}, vars : Seq(Refs)]],
         callStack' \in Seq(Environments), callStack' # <<>>,
         immediates' \in Seq(Refs), operandStack' \in Seq(Refs),
         \A r \in ToSet(immediates') \union ToSet(operandStack') : Valid(r),
         \A e \in Environments : \A r \in ToSet(frames'[e].vars) :
           r \in ToSet(frames[e].vars) \/ Valid(r),
         \A i \in DOMAIN callStack' : \A r \in ToSet(frames'[callStack'[i]].vars) : Valid(r)
  PROVE  RefInv'
<1>1. NativeInv' /\ HandlesInv'
  BY RunInv
<1>2. pc' \in Awake
  BY DEF Awake
<1>3. fault' \in {"none", "dangling", "stale", "handle", "shifted"}
  BY DEF RefInv, TypeOK
<1>4. handles' \in Seq([val : Refs, prev : Nat, next : Nat]) /\ plist' \in Nat
  BY DEF RefInv, TypeOK
<1>5. \A h \in DOMAIN handles' : h = plist' => Valid(handles'[h].val)
  OBVIOUS
<1> QED
  BY <1>1, <1>2, <1>3, <1>4, <1>5, MemoryStays

\* The variables in reach of the program, where the environments stay.
LEMMA FramesStay ==
  ASSUME RefInv, GoingOn
  PROVE  /\ frames \in [Environments -> [parent : Environments \union {0}, vars : Seq(Refs)]]
         /\ callStack \in Seq(Environments) /\ callStack # <<>>
         /\ immediates \in Seq(Refs) /\ operandStack \in Seq(Refs)
         /\ \A i \in DOMAIN callStack : callStack[i] \in Environments
         /\ \A i \in DOMAIN callStack : \A r \in ToSet(frames[callStack[i]].vars) : Valid(r)
<1>1. TypeOK
  BY DEF RefInv
<1>2. \A r \in StackSet : Valid(r)
  BY AtHand DEF RootSet
<1>3. \A i \in DOMAIN callStack : \A r \in ToSet(frames[callStack[i]].vars) : Valid(r)
  BY <1>2 DEF StackSet
<1>4. \A i \in DOMAIN callStack : callStack[i] \in Environments
  BY <1>1, StackTypes
<1> QED
  BY <1>1, <1>3, <1>4 DEF TypeOK

\* Steps that touch nothing but the operand stack.
LEMMA StackStep ==
  ASSUME RefInv, GoingOn, pc = "run" \/ native.op = "collect",
         pc' = "run", native' = Idle,
         UNCHANGED <<mem, end, charMarks, grey, index, gone, breaks, collapse, frameSet, fault,
                     frames, callStack, immediates, handles, plist>>,
         operandStack' \in Seq(Refs),
         \A r \in ToSet(operandStack') : Valid(r)
  PROVE  RefInv'
<1>1. handles' = <<>>
  BY RunHandles DEF RefInv
<1>2. \A r \in ToSet(immediates) : Valid(r)
  BY AtHand
<1>3. /\ frames' \in [Environments -> [parent : Environments \union {0}, vars : Seq(Refs)]]
      /\ callStack' \in Seq(Environments) /\ callStack' # <<>>
      /\ immediates' \in Seq(Refs)
      /\ \A i \in DOMAIN callStack' : \A r \in ToSet(frames'[callStack'[i]].vars) : Valid(r)
  BY FramesStay
<1> QED
  BY <1>1, <1>2, <1>3, RunStep

\* A step that only changes the operand stack, to valid references.
LEMMA OnStackInv ==
  ASSUME RefInv, pc = "run", NEW new \in Seq(Refs), \A r \in ToSet(new) : Valid(r), OnStack(new)
  PROVE  RefInv'
<1>1. GoingOn
  BY DEF GoingOn
<1>2. /\ UNCHANGED <<mem, end, charMarks, grey, index, gone, breaks, collapse, frameSet, fault,
                     frames, callStack, immediates, handles, plist, pc, native>>
      /\ operandStack' = new
  BY DEF OnStack, heap, locals
<1>3. native = Idle
  BY RunHandles DEF RefInv
<1> QED
  BY <1>1, <1>2, <1>3, StackStep

\* An operand is replaced by another value, or one is added.
LEMMA PushInv ==
  ASSUME RefInv, pc = "run", NEW n \in Nat, NEW r \in Refs, Valid(r),
         \/ OnStack(Append(Without(n), r)) \/ OnStack(Append(operandStack, r))
         \/ OnStack(Without(n))
  PROVE  RefInv'
<1>1. operandStack \in Seq(Refs) /\ \A x \in ToSet(operandStack) : Valid(x)
  BY AtHand DEF RefInv, TypeOK, GoingOn
<1>2. PICK s : s = Append(Without(n), r)
  OBVIOUS
<1>3. PICK t : t = Append(operandStack, r)
  OBVIOUS
<1>4. PICK u : u = Without(n)
  OBVIOUS
<1>5. s \in Seq(Refs) /\ t \in Seq(Refs) /\ u \in Seq(Refs)
  BY <1>1, <1>2, <1>3, <1>4, PushedIs, WithoutIs
<1>6. ToSet(s) \subseteq ToSet(operandStack) \union {r} /\ ToSet(t) \subseteq ToSet(operandStack) \union {r}
        /\ ToSet(u) \subseteq ToSet(operandStack)
  BY <1>1, <1>2, <1>3, <1>4, PushedIs, WithoutIs
<1>7. \A x \in ToSet(s) \union ToSet(t) \union ToSet(u) : Valid(x)
  BY <1>1, <1>6
<1>8. OnStack(s) \/ OnStack(t) \/ OnStack(u)
  BY <1>2, <1>3, <1>4
<1> QED
  BY <1>5, <1>7, <1>8, OnStackInv

\* Top, when it is an object.
LEMMA TopIsAnObject ==
  ASSUME RefInv, pc = "run", NEW kinds, TopIs(kinds)
  PROVE  /\ Top \in Refs /\ Valid(Top) /\ ~IsChar(Top) /\ Top.at \in DOMAIN mem
         /\ mem[Top.at].id = Top.id /\ operandStack # <<>>
<1>1. operandStack # <<>> /\ ~IsChar(Top)
  BY DEF TopIs
<1>2. Top \in Refs /\ Valid(Top)
  BY <1>1, AtHand DEF GoingOn
<1> QED
  BY <1>1, <1>2, ValidObject DEF RefInv

\* The instructions that work on the operands keep the invariant.
LEMMA OperandSteps ==
  ASSUME RefInv, PushConstant \/ Discard \/ Take \/ Get \/ Load \/ Collected
  PROVE  RefInv'
<1>1. CASE PushConstant
  <2>1. PICK r \in {NullRef} \union ToSet(immediates) : OnStack(Append(operandStack, r)) /\ pc = "run"
    BY <1>1 DEF PushConstant
  <2>2. r \in Refs /\ Valid(r)
    BY <2>1, AtHand DEF GoingOn
  <2> QED
    BY <2>1, <2>2, PushInv
<1>2. CASE Discard
  <2>1. pc = "run" /\ OnStack(Without(1)) /\ NullRef \in Refs /\ Valid(NullRef)
    BY <1>2, AtHand DEF Discard, GoingOn
  <2> QED
    BY <2>1, PushInv
<1>3. CASE Take
  <2>1. pc = "run" /\ TopIs({"pair", "box"})
    BY <1>3 DEF Take, Running
  <2>2. PICK r \in ToSet(mem[Top.at].refs) : OnStack(Append(Without(1), r))
    BY <1>3 DEF Take
  <2>3. r \in Refs /\ Valid(r)
    BY <2>1, TopIsAnObject, AtHand DEF GoingOn
  <2> QED
    BY <2>1, <2>2, <2>3, PushInv
<1>4. CASE Get
  <2>1. PICK at \in Storage : OnStack(Append(Without(1), CharOf(at, Top.id)))
    BY <1>4 DEF Get
  <2>2. pc = "run" /\ TopIs({"str"}) /\ "get" \in Ops
    BY <1>4 DEF Get, Running
  <2>3. PICK c : c = CharOf(at, Top.id)
    OBVIOUS
  <2>4. c \in Refs /\ Valid(c)
    <3>1. Top.id \in Nat
      BY <2>2, TopIsAnObject, RefType
    <3>2. Top.id # 0
      BY <2>2, TopIsAnObject DEF RefInv, IdsInv
    <3>3. c \in Characters
      BY <2>2, <2>3, <3>1, <3>2 DEF CharOf, Characters
    <3>4. IsChar(c)
      BY <2>3, SizeAssumption DEF CharOf, IsChar, Above, Below
    <3> QED
      BY <3>3, <3>4 DEF Refs, Valid
  <2> QED
    BY <2>1, <2>2, <2>3, <2>4, PushInv
<1>5. CASE Load
  <2>1. pc = "run"
    BY <1>5 DEF Load, Running
  <2>2. PICK e \in Lineage(Env) : \E i \in DOMAIN frames[e].vars :
       IF Valid(frames[e].vars[i])
       THEN OnStack(Append(operandStack, frames[e].vars[i]))
       ELSE Stop("dangling")
    BY <1>5 DEF Load
  <2>3. PICK i \in DOMAIN frames[e].vars :
       IF Valid(frames[e].vars[i])
       THEN OnStack(Append(operandStack, frames[e].vars[i]))
       ELSE Stop("dangling")
    BY <2>2
  <2>4. e \in Environments
    BY <2>2, LineageIn
  <2>5. PICK r : r = frames[e].vars[i]
    OBVIOUS
  <2>6. r \in Refs
    <3>1. frames[e].vars \in Seq(Refs)
      BY <2>4, FrameTypes DEF RefInv, RefSeqs
    <3> QED
      BY <2>3, <2>5, <3>1
  <2>7. CASE Valid(r)
    BY <2>1, <2>3, <2>5, <2>6, <2>7, PushInv
  <2>8. CASE ~Valid(r)
    <3>1. Stop("dangling")
      BY <2>3, <2>5, <2>8
    <3> QED
      BY <3>1, StopInv
  <2> QED
    BY <2>7, <2>8
<1>6. CASE Collected
  <2>1. /\ UNCHANGED <<mem, end, charMarks, grey, index, gone, breaks, collapse, frameSet, fault,
                       frames, callStack, immediates, handles, plist>>
        /\ operandStack' = Append(operandStack, NullRef) /\ pc' = "run" /\ native' = Idle
        /\ pc = "collected" /\ native.op = "collect"
    BY <1>6 DEF Collected, heap, locals
  <2>2. GoingOn
    BY <2>1 DEF GoingOn
  <2>3. operandStack \in Seq(Refs) /\ NullRef \in Refs /\ Valid(NullRef)
        /\ \A x \in ToSet(operandStack) : Valid(x)
    BY <2>2, AtHand DEF RefInv, TypeOK
  <2>4. operandStack' \in Seq(Refs) /\ ToSet(operandStack') = ToSet(operandStack) \union {NullRef}
    BY <2>1, <2>3, ToSetAppend
  <2> QED
    BY <2>1, <2>2, <2>3, <2>4, StackStep
<1> QED
  BY <1>1, <1>2, <1>3, <1>4, <1>5, <1>6

\* A derived environment has no variables yet.
LEMMA EnterIs ==
  ASSUME RefInv, GoingOn, NEW parent \in Environments \union {0}, NEW stack, Enter(parent, stack)
  PROVE  /\ frames' \in [Environments -> [parent : Environments \union {0}, vars : Seq(Refs)]]
         /\ callStack' \in Seq(Environments) /\ callStack' # <<>>
         /\ operandStack' = stack
         /\ \A e \in Environments : \A r \in ToSet(frames'[e].vars) : r \in ToSet(frames[e].vars)
         /\ \A i \in DOMAIN callStack' : \A r \in ToSet(frames'[callStack'[i]].vars) : Valid(r)
<1>1. TypeOK
  BY DEF RefInv
<1>2. PICK S : S = Environments \ Owned(callStack, mem)
  OBVIOUS
<1>3. PICK new : new = Least(S)
  OBVIOUS
<1>4. new \in Environments
  BY <1>2, <1>3, LeastFree DEF Enter
<1>5. /\ frames' = [frames EXCEPT ![new] = [parent |-> parent, vars |-> <<>>]]
      /\ callStack' = Append(callStack, new) /\ operandStack' = stack
  BY <1>2, <1>3 DEF Enter
<1>6. /\ frames \in [Environments -> [parent : Environments \union {0}, vars : Seq(Refs)]]
      /\ callStack \in Seq(Environments)
      /\ \A i \in DOMAIN callStack : callStack[i] \in Environments
      /\ \A i \in DOMAIN callStack : \A r \in ToSet(frames[callStack[i]].vars) : Valid(r)
  BY FramesStay
<1>7. /\ frames' \in [Environments -> [parent : Environments \union {0}, vars : Seq(Refs)]]
      /\ frames'[new].vars = <<>>
      /\ \A e \in Environments : e # new => frames'[e] = frames[e]
  BY <1>4, <1>5, <1>6
<1>8. \A e \in Environments : \A r \in ToSet(frames'[e].vars) : e # new /\ r \in ToSet(frames[e].vars)
  BY <1>7, ToSetEmpty
<1>9. /\ callStack' \in Seq(Environments) /\ callStack' # <<>>
      /\ \A i \in DOMAIN callStack' : callStack'[i] = new \/ (i \in DOMAIN callStack /\ callStack'[i] = callStack[i])
  BY <1>4, <1>5, <1>6
<1>10. ASSUME NEW i \in DOMAIN callStack', NEW r \in ToSet(frames'[callStack'[i]].vars)
       PROVE  Valid(r)
  <2>1. callStack'[i] # new
    BY <1>4, <1>8, <1>10
  <2>2. i \in DOMAIN callStack /\ callStack'[i] = callStack[i] /\ callStack[i] \in Environments
    BY <1>6, <1>9, <2>1
  <2> QED
    BY <1>6, <1>8, <1>10, <2>2
<1> QED
  BY <1>5, <1>7, <1>8, <1>9, <1>10

\* The instructions that work on environments keep the invariant.
LEMMA EnvironmentSteps ==
  ASSUME RefInv, Store \/ Rebind \/ Recur \/ EnterLet \/ Call \/ Leave
  PROVE  RefInv'
<1>1. /\ pc = "run" /\ pc' = pc /\ native' = native
      /\ UNCHANGED <<mem, end, charMarks, grey, index, gone, breaks, collapse, frameSet, fault,
                     immediates, handles, plist>>
  BY DEF Store, Rebind, Recur, EnterLet, Call, Leave, Running, heap, locals
<1>2. GoingOn /\ TypeOK /\ native = Idle /\ handles = <<>>
  BY <1>1, RunHandles DEF RefInv, GoingOn
<1>3. /\ frames \in [Environments -> [parent : Environments \union {0}, vars : Seq(Refs)]]
      /\ callStack \in Seq(Environments) /\ callStack # <<>>
      /\ immediates \in Seq(Refs) /\ operandStack \in Seq(Refs)
      /\ \A i \in DOMAIN callStack : callStack[i] \in Environments
      /\ \A i \in DOMAIN callStack : \A r \in ToSet(frames[callStack[i]].vars) : Valid(r)
  BY <1>2, FramesStay
<1>4. \A r \in ToSet(immediates) \union ToSet(operandStack) : Valid(r)
  BY <1>2, AtHand
<1>5. Without(1) \in Seq(Refs) /\ ToSet(Without(1)) \subseteq ToSet(operandStack)
  BY <1>3, WithoutIs
<1>6. CASE Store
  <2>1. PICK top : top = Top
    OBVIOUS
  <2>2. PICK env : env = Env
    OBVIOUS
  <2>3. /\ frames' = [frames EXCEPT ![env].vars = Append(frames[env].vars, top)]
        /\ operandStack' = Without(1) /\ callStack' = callStack /\ operandStack # <<>>
    BY <1>6, <2>1, <2>2 DEF Store
  <2>4. top \in Refs /\ Valid(top) /\ env \in Environments
    BY <1>2, <2>1, <2>2, <2>3, AtHand, StackTypes
  <2>5. frames[env].vars \in Seq(Refs)
    BY <1>3, <2>4
  <2>6. PICK v : v = Append(frames[env].vars, top)
    OBVIOUS
  <2>7. v \in Seq(Refs) /\ ToSet(v) = ToSet(frames[env].vars) \union {top}
    BY <2>4, <2>5, <2>6, ToSetAppend
  <2>8. /\ frames'[env] = [frames[env] EXCEPT !.vars = v]
        /\ \A e \in Environments : e # env => frames'[e] = frames[e]
        /\ frames' = [e \in Environments |-> frames'[e]]
    BY <1>3, <2>3, <2>4, <2>6
  <2>9. /\ frames'[env] \in [parent : Environments \union {0}, vars : Seq(Refs)]
        /\ frames'[env].vars = v
    BY <1>2, <2>4, <2>7, <2>8, FrameChanges
  <2>10. frames' \in [Environments -> [parent : Environments \union {0}, vars : Seq(Refs)]]
    BY <1>3, <2>8, <2>9
  <2>11. \A e \in Environments : \A r \in ToSet(frames'[e].vars) :
           r \in ToSet(frames[e].vars) \/ Valid(r)
    BY <2>4, <2>7, <2>8, <2>9
  <2>12. \A i \in DOMAIN callStack' : \A r \in ToSet(frames'[callStack'[i]].vars) : Valid(r)
    BY <1>3, <2>3, <2>11
  <2> QED
    BY <1>1, <1>2, <1>3, <1>4, <1>5, <2>3, <2>10, <2>11, <2>12, RunStep
<1>7. CASE EnterLet \/ Call
  <2>1. PICK parent \in Environments \union {0}, stack \in Seq(Refs) :
          Enter(parent, stack) /\ ToSet(stack) \subseteq ToSet(operandStack)
    <3>1. CASE EnterLet
      <4>1. Enter(Env, operandStack) /\ Env \in Environments
        BY <1>2, <3>1, StackTypes DEF EnterLet
      <4> QED
        BY <1>3, <4>1
    <3>2. CASE Call
      <4>1. Enter(mem[Top.at].env, Without(1)) /\ TopIs({"fn"})
        BY <3>2 DEF Call
      <4>2. Top.at \in DOMAIN mem
        BY <1>1, <4>1, TopIsAnObject
      <4>3. mem[Top.at].env \in Environments \union {0}
        BY <1>2, <4>2, ObjectTypes
      <4> QED
        BY <1>5, <4>1, <4>3
    <3> QED
      BY <1>7, <3>1, <3>2
  <2>2. /\ frames' \in [Environments -> [parent : Environments \union {0}, vars : Seq(Refs)]]
        /\ callStack' \in Seq(Environments) /\ callStack' # <<>>
        /\ operandStack' = stack
        /\ \A e \in Environments : \A r \in ToSet(frames'[e].vars) : r \in ToSet(frames[e].vars)
        /\ \A i \in DOMAIN callStack' : \A r \in ToSet(frames'[callStack'[i]].vars) : Valid(r)
    BY <1>2, <2>1, EnterIs
  <2> QED
    BY <1>1, <1>2, <1>3, <1>4, <2>1, <2>2, RunStep
<1>8. CASE Leave
  <2>1. /\ callStack' = Front(callStack) /\ Len(callStack) > 1 /\ operandStack' = operandStack
        /\ frames' = [e \in Environments |->
                        IF e \in Owned(callStack', mem) THEN frames[e] ELSE Free]
    BY <1>8 DEF Leave
  <2>2. \A e \in Environments : frames'[e] = frames[e] \/ frames'[e] = Free
    BY <2>1
  <2>3. /\ Free \in [parent : Environments \union {0}, vars : Seq(Refs)] /\ Free.vars = <<>>
    BY DEF Free
  <2>4. frames' \in [Environments -> [parent : Environments \union {0}, vars : Seq(Refs)]]
    <3>1. frames' = [e \in Environments |-> frames'[e]]
      BY <2>1
    <3> QED
      BY <1>3, <2>2, <2>3, <3>1
  <2>5. \A e \in Environments : \A r \in ToSet(frames'[e].vars) : r \in ToSet(frames[e].vars)
    BY <2>2, <2>3, ToSetEmpty
  <2>6. /\ callStack' \in Seq(Environments) /\ callStack' # <<>>
        /\ \A i \in DOMAIN callStack' : i \in DOMAIN callStack /\ callStack'[i] = callStack[i]
    <3>1. PICK n : n = Len(callStack) - 1
      OBVIOUS
    <3>2. callStack' = SubSeq(callStack, 1, n)
      BY <2>1, <3>1 DEF Front
    <3>3. n \in Nat \ {0} /\ n <= Len(callStack) /\ Len(callStack) \in Nat
      BY <1>3, <2>1, <3>1
    <3>4. SubSeq(callStack, 1, n) \in Seq(Environments) /\ Len(SubSeq(callStack, 1, n)) = n
      BY <1>3, <3>3
    <3>5. \A i \in 1..n : SubSeq(callStack, 1, n)[i] = callStack[i]
      BY <1>3, <3>3
    <3>6. DOMAIN callStack' = 1..n /\ callStack' \in Seq(Environments) /\ Len(callStack') = n
      BY <3>2, <3>4, ElementsOf
    <3>7. \A i \in 1..n : i \in DOMAIN callStack /\ callStack'[i] = callStack[i]
      BY <1>3, <3>2, <3>3, <3>5
    <3> QED
      BY <3>3, <3>6, <3>7
  <2>7. \A i \in DOMAIN callStack' : \A r \in ToSet(frames'[callStack'[i]].vars) : Valid(r)
    BY <1>3, <2>5, <2>6
  <2> QED
    BY <1>1, <1>2, <1>3, <1>4, <2>1, <2>4, <2>5, <2>6, <2>7, RunStep
<1>9. CASE Rebind
  <2>1. PICK top : top = Top
    OBVIOUS
  <2>2. PICK e \in Lineage(Env) : \E i \in DOMAIN frames[e].vars :
          frames' = [frames EXCEPT ![e].vars[i] = top]
    BY <1>9, <2>1 DEF Rebind
  <2>3. PICK i \in DOMAIN frames[e].vars : frames' = [frames EXCEPT ![e].vars[i] = top]
    BY <2>2
  <2>4. operandStack' = Without(1) /\ callStack' = callStack /\ operandStack # <<>>
    BY <1>9 DEF Rebind
  <2>5. top \in Refs /\ Valid(top) /\ e \in Environments
    BY <1>2, <2>1, <2>2, <2>4, AtHand, LineageIn
  <2>6. frames[e].vars \in Seq(Refs)
    BY <1>3, <2>5
  <2>7. PICK v : v = [frames[e].vars EXCEPT ![i] = top]
    OBVIOUS
  <2>8. v \in Seq(Refs) /\ ToSet(v) \subseteq ToSet(frames[e].vars) \union {top}
    BY <2>3, <2>5, <2>6, <2>7, ToSetPut
  <2>9. /\ frames'[e] = [frames[e] EXCEPT !.vars = v]
        /\ \A d \in Environments : d # e => frames'[d] = frames[d]
        /\ frames' = [d \in Environments |-> frames'[d]]
    BY <1>3, <2>3, <2>5, <2>7
  <2>10. /\ frames'[e] \in [parent : Environments \union {0}, vars : Seq(Refs)]
         /\ frames'[e].vars = v
    BY <1>2, <2>5, <2>8, <2>9, FrameChanges
  <2>11. frames' \in [Environments -> [parent : Environments \union {0}, vars : Seq(Refs)]]
    BY <1>3, <2>9, <2>10
  <2>12. \A d \in Environments : \A r \in ToSet(frames'[d].vars) :
           r \in ToSet(frames[d].vars) \/ Valid(r)
    BY <2>5, <2>8, <2>9, <2>10
  <2>13. \A k \in DOMAIN callStack' : \A r \in ToSet(frames'[callStack'[k]].vars) : Valid(r)
    BY <1>3, <2>4, <2>12
  <2> QED
    BY <1>1, <1>2, <1>3, <1>4, <1>5, <2>4, <2>11, <2>12, <2>13, RunStep
<1>10. CASE Recur
  <2>1. PICK env : env = Env
    OBVIOUS
  <2>2. frames' = [frames EXCEPT ![env].vars = <<>>] /\ callStack' = callStack /\ operandStack' = operandStack
    BY <1>10, <2>1 DEF Recur
  <2>3. env \in Environments
    BY <1>2, <2>1, StackTypes
  <2>4. /\ frames'[env] = [frames[env] EXCEPT !.vars = <<>>]
        /\ \A d \in Environments : d # env => frames'[d] = frames[d]
        /\ frames' = [d \in Environments |-> frames'[d]]
    BY <1>3, <2>2, <2>3
  <2>5. <<>> \in Seq(Refs)
    OBVIOUS
  <2>6. /\ frames'[env] \in [parent : Environments \union {0}, vars : Seq(Refs)]
        /\ frames'[env].vars = <<>>
    BY <1>2, <2>3, <2>4, <2>5, FrameChanges
  <2>7. frames' \in [Environments -> [parent : Environments \union {0}, vars : Seq(Refs)]]
    BY <1>3, <2>4, <2>6
  <2>8. \A d \in Environments : \A r \in ToSet(frames'[d].vars) : r \in ToSet(frames[d].vars)
    BY <2>4, <2>6, ToSetEmpty
  <2>9. \A i \in DOMAIN callStack' : \A r \in ToSet(frames'[callStack'[i]].vars) : Valid(r)
    BY <1>3, <2>2, <2>8
  <2> QED
    BY <1>1, <1>2, <1>3, <1>4, <2>2, <2>7, <2>8, <2>9, RunStep
<1> QED
  BY <1>6, <1>7, <1>8, <1>9, <1>10

\* set-box!: the box refers to a value that is at hand.
LEMMA SetBoxRefs ==
  ASSUME RefInv, SetBox
  PROVE  RefInv'
<1>1. PICK box : box = operandStack[Len(operandStack) - 1]
  OBVIOUS
<1>2. PICK top : top = Top
  OBVIOUS
<1>3. /\ pc = "run" /\ Len(operandStack) >= 2
      /\ ~IsChar(box) /\ mem[box.at].kind = "box"
      /\ mem' = [mem EXCEPT ![box.at].refs = <<top>>]
      /\ operandStack' = Append(Without(2), box)
      /\ UNCHANGED <<end, frames, callStack, immediates, handles, plist, charMarks,
                     pc, native, grey, index, gone, breaks, collapse, frameSet, fault>>
  BY <1>1, <1>2 DEF SetBox, Running, locals
<1>4. TypeOK /\ IdsInv /\ RestInv /\ Unmarked /\ GoingOn /\ AtRest /\ NativeInv /\ HandlesInv
  BY <1>3 DEF RefInv, GoingOn, AtRest
<1>5. operandStack \in Seq(Refs)
  BY <1>4 DEF TypeOK
<1>6. box \in ToSet(operandStack) /\ top \in ToSet(operandStack)
  <2>1. Len(operandStack) - 1 \in 1..Len(operandStack)
    BY <1>3, <1>5
  <2>2. operandStack # <<>>
    BY <1>3, <1>5
  <2> QED
    BY <1>1, <1>2, <1>4, <1>5, <2>1, <2>2, ToSetOf, AtHand
<1>7. box \in Refs /\ Valid(box) /\ top \in Refs /\ Valid(top)
  BY <1>4, <1>6, AtHand
<1>8. box.at \in DOMAIN mem
  BY <1>3, <1>4, <1>7, ValidObject
<1>9. <<top>> \in Seq(Refs) /\ ToSet(<<top>>) = {top}
  BY <1>7 DEF ToSet
<1>10. /\ DOMAIN mem' = DOMAIN mem
       /\ \A a \in DOMAIN mem : a # box.at => mem'[a] = mem[a]
       /\ mem'[box.at] = [mem[box.at] EXCEPT !.refs = <<top>>]
  BY <1>3, <1>8
<1>11. /\ mem'[box.at] \in [kind : Kinds, id : Nat, marked : BOOLEAN, refs : Seq(Refs),
                            env : Environments \union {0}]
       /\ mem'[box.at].kind = "box" /\ mem'[box.at].id = mem[box.at].id
       /\ mem'[box.at].refs = <<top>> /\ mem'[box.at].env = mem[box.at].env
       /\ mem'[box.at].marked = mem[box.at].marked
  <2>1. mem[box.at] \in [kind : Kinds, id : Nat, marked : BOOLEAN, refs : Seq(Refs),
                         env : Environments \union {0}]
    BY <1>4, <1>8 DEF TypeOK
  <2>2. PICK o : o = mem[box.at]
    OBVIOUS
  <2>3. PICK v : v = <<top>>
    OBVIOUS
  <2>4. PICK p : p = [o EXCEPT !.refs = v]
    OBVIOUS
  <2>5. o \in [kind : Kinds, id : Nat, marked : BOOLEAN, refs : Seq(Refs),
               env : Environments \union {0}] /\ v \in Seq(Refs)
    BY <1>9, <2>1, <2>2, <2>3
  <2>6. /\ p \in [kind : Kinds, id : Nat, marked : BOOLEAN, refs : Seq(Refs),
                  env : Environments \union {0}]
        /\ p.kind = o.kind /\ p.id = o.id /\ p.refs = v /\ p.env = o.env /\ p.marked = o.marked
    BY ONLY <2>4, <2>5
  <2>7. mem'[box.at] = p
    BY <1>10, <2>2, <2>3, <2>4
  <2> QED
    BY <1>3, <2>2, <2>3, <2>6, <2>7
<1>12. \A a \in DOMAIN mem : mem'[a].id = mem[a].id /\ mem'[a].env = mem[a].env
                             /\ mem'[a].marked = mem[a].marked /\ mem'[a].kind = mem[a].kind
  BY <1>3, <1>10, <1>11
<1>13. operandStack' \in Seq(Refs) /\ ToSet(operandStack') \subseteq ToSet(operandStack)
  <2>1. /\ Append(Without(2), box) \in Seq(Refs)
        /\ ToSet(Append(Without(2), box)) \subseteq ToSet(operandStack) \union {box}
    BY <1>5, <1>7, PushedIs
  <2> QED
    BY <1>3, <1>6, <2>1
<1>14. TypeOK'
  <2>1. \A a \in DOMAIN mem :
          mem'[a] \in [kind : Kinds, id : Nat, marked : BOOLEAN, refs : Seq(Refs),
                       env : Environments \union {0}]
    BY <1>4, <1>10, <1>11 DEF TypeOK
  <2> QED
    BY <1>3, <1>4, <1>10, <1>13, <2>1 DEF TypeOK
<1>15. NativeInv' /\ HandlesInv'
  BY <1>3, <1>4, RunHandles, RunInv
<1>16. IdsInv'
  <2>1. \A a, b \in DOMAIN mem' : mem'[a].id = mem'[b].id => a = b
    BY <1>4, <1>10, <1>12 DEF IdsInv
  <2>2. \A a \in DOMAIN mem' : mem'[a].id # 0
    BY <1>4, <1>10, <1>12 DEF IdsInv
  <2>3. \A a \in DOMAIN mem' : mem'[a].kind = "str" => mem'[a].refs = <<>> /\ mem'[a].env = 0
    <3>1. \A a \in DOMAIN mem : mem'[a].kind = "str" => a # box.at
      BY <1>11
    <3> QED
      BY <1>4, <1>10, <3>1 DEF IdsInv
  <2> QED
    BY <1>3, <1>4, <2>1, <2>2, <2>3 DEF IdsInv
<1>17. Unmarked'
  BY <1>3, <1>4, <1>10, <1>12 DEF Unmarked
<1>18. \A r : (Valid(r)' <=> Valid(r)) /\ (Gone(r)' <=> Gone(r))
  BY <1>10, <1>12, SameNumbers
<1>19. HandleSet' = HandleSet /\ StackSet' = StackSet /\ Variables' = Variables
       /\ \A e : EnvSet(e)' = EnvSet(e)
  BY <1>3 DEF HandleSet, StackSet, Variables, EnvSet
<1>20. RootSet' \subseteq RootSet
  BY <1>3, <1>13, <1>19 DEF RootSet
<1>21. \A a \in DOMAIN mem : ChildSet(mem[a])' \subseteq ChildSet(mem[a]) \union {top}
  <2>1. ASSUME NEW a \in DOMAIN mem PROVE ToSet(mem'[a].refs) \subseteq ToSet(mem[a].refs) \union {top}
    BY <1>9, <1>10, <1>11
  <2> QED
    BY <1>12, <1>19, <2>1 DEF ChildSet
<1>22. RestInv'
  BY <1>4, <1>7, <1>10, <1>18, <1>19, <1>20, <1>21 DEF RestInv
<1>23. pc' \in Awake
  BY <1>3 DEF Awake
<1> QED
  BY <1>14, <1>15, <1>16, <1>17, <1>22, <1>23, AwakeInv

\* Handles.
HandleType == [val : Refs, prev : Nat, next : Nat]

\* A new handle is the head of the list.
LEMMA HoldIs ==
  ASSUME TypeOK, HandlesInv, ~HeadDestroyed, NEW r \in Refs, Hold(r)
  PROVE  /\ handles' \in Seq(HandleType) /\ plist' \in Nat
         /\ Len(handles) \in Nat /\ DOMAIN handles = 1..Len(handles)
         /\ Len(handles') = Len(handles) + 1 /\ plist' = Len(handles')
         /\ handles'[plist'].val = r
         /\ \A h \in DOMAIN handles : handles'[h].val = handles[h].val
         /\ HandlesInv'
<1>1. PICK n : n = Len(handles)
  OBVIOUS
<1>2. n \in Nat /\ DOMAIN handles = 1..n /\ plist \in Nat
  BY <1>1, ElementsOf DEF TypeOK
<1>3. PICK hs : hs = [h \in DOMAIN handles |->
                          IF h = plist THEN [handles[h] EXCEPT !.next = n + 1]
                          ELSE handles[h]]
  OBVIOUS
<1>4. PICK x : x = [val |-> r, prev |-> plist, next |-> 0]
  OBVIOUS
<1>5. x \in HandleType /\ x.val = r /\ x.next = 0
  BY <1>2, <1>4 DEF HandleType
<1>6. ASSUME NEW h \in 1..n
      PROVE  /\ hs[h] \in HandleType /\ hs[h].val = handles[h].val
             /\ h = plist => hs[h].next = n + 1
             /\ h # plist => hs[h].next = handles[h].next
  <2>1. /\ handles[h] = [val |-> handles[h].val, prev |-> handles[h].prev, next |-> handles[h].next]
        /\ handles[h].val \in Refs /\ handles[h].prev \in Nat /\ handles[h].next \in Nat
    BY <1>2, HandleTypes
  <2>2. hs[h] = IF h = plist THEN [handles[h] EXCEPT !.next = n + 1] ELSE handles[h]
    BY <1>2, <1>3
  <2> QED
    BY <1>2, <2>1, <2>2 DEF HandleType
<1>7. hs \in Seq(HandleType) /\ Len(hs) = n
  <2>1. hs \in [1..n -> HandleType]
    BY <1>2, <1>3, <1>6
  <2> QED
    BY <1>2, <2>1, SequenceOf
<1>8. handles' = Append(hs, x) /\ plist' = n + 1
  BY <1>1, <1>3, <1>4 DEF Hold
<1>9. PICK gs : gs = Append(hs, x)
  OBVIOUS
<1>10. /\ gs \in Seq(HandleType) /\ Len(gs) = n + 1 /\ DOMAIN gs = 1..n + 1
       /\ gs[n + 1] = x
       /\ \A h \in 1..n : gs[h] = hs[h]
  BY <1>2, <1>5, <1>7, <1>9
<1>11. handles' = gs
  BY <1>8, <1>9
<1>12. plist = n
  <2>1. n = 0 <=> handles = <<>>
    BY <1>1, ElementsOf DEF TypeOK
  <2> QED
    BY <1>1, <1>2, <2>1 DEF HandlesInv, HeadDestroyed
<1>13. \A h \in 1..n + 1 : gs[h].next = IF h = n + 1 THEN 0 ELSE h + 1
  <2>1. \A h \in 1..n : handles[h].next = IF h = n THEN 0 ELSE h + 1
    BY <1>1, <1>2 DEF HandlesInv
  <2>2. ASSUME NEW h \in 1..n PROVE gs[h].next = IF h = n + 1 THEN 0 ELSE h + 1
    BY <1>2, <1>6, <1>10, <1>12, <2>1
  <2> QED
    BY <1>2, <1>5, <1>10, <2>2
<1>14. HandlesInv'
  BY <1>2, <1>8, <1>10, <1>11, <1>13 DEF HandlesInv, HeadDestroyed
<1> QED
  BY <1>1, <1>2, <1>5, <1>6, <1>8, <1>10, <1>11, <1>14

\* A creation that can be made is one that waits.
LEMMA WaitersHave ==
  ASSUME NEW q \in Waiters
  PROVE  /\ q.op \in DOMAIN KindOf \union {"none", "collect"} /\ q.held \in Seq(Refs)
         /\ q.n \in Nat /\ q.raw \in Refs /\ q.below \in Nat /\ q.outer \in Seq(Suspensions)
  BY Zenon DEF Waiters

\* A collection begins: all roots are yet to be marked.
LEMMA CollectRefs ==
  ASSUME RefInv, GoingOn, NEW q, Ready(q), Handled(q), q.op # "none", Collect(q)
  PROVE  RefInv'
<1>1. CASE HeadDestroyed
  BY <1>1, StopInv DEF Collect
<1>2. CASE ~HeadDestroyed
  <2>1. /\ grey' = Roots /\ pc' = "mark" /\ native' = q
        /\ UNCHANGED <<mem, end, frames, callStack, immediates, operandStack, handles, plist,
                       charMarks, index, gone, breaks, collapse, frameSet, fault>>
    BY <1>2 DEF Collect, heap, roots
  <2>2. TypeOK /\ NativeInv /\ HandlesInv /\ IdsInv /\ RestInv /\ Unmarked /\ AtRest
    BY DEF RefInv, GoingOn, AtRest
  <2>4. Roots \in Seq(Refs) /\ ToSet(Roots) = RootSet
    BY <1>2, <2>2, RootsAre
  <2>5. grey' \in Seq(Refs) /\ ToSet(grey') = RootSet
    BY <2>1, <2>4
  <2>6. TypeOK'
    BY <2>1, <2>2, <2>5 DEF TypeOK
  <2>7. NativeInv'
    <3>1. Ready(native)'
      BY <2>1 DEF Ready
    <3>2. Handled(native)'
      BY <2>1 DEF Handled, Nested, BelowOf
    <3>3. native' \in Waiters
      BY <2>1 DEF Ready
    <3> QED
      BY <2>1, <3>1, <3>2, <3>3 DEF NativeInv
  <2>8. HandlesInv'
    BY <1>2, <2>1, <2>2 DEF HandlesInv, HeadDestroyed
  <2>9. IdsInv'
    BY <2>1, <2>2 DEF IdsInv
  <2>10. \A r : (Valid(r)' <=> Valid(r)) /\ (Gone(r)' <=> Gone(r))
    BY <2>1, SameNumbers
  <2>11. RootSet' = RootSet /\ Variables' = Variables /\ \A e : EnvSet(e)' = EnvSet(e)
    BY <2>1, SameRoots
  <2>12. \A a \in DOMAIN mem : ChildSet(mem[a])' = ChildSet(mem[a])
    BY <2>1, <2>11 DEF ChildSet
  <2>13. RestInv'
    BY <2>1, <2>2, <2>10, <2>11, <2>12 DEF RestInv
  <2>14. Unmarked'
    BY <2>1 DEF Unmarked
  <2>15. Blackened' = {}
    BY <2>1, <2>2 DEF Blackened, Unmarked, GoingOn
  <2>16. MarkInv'
    <3>1. \A r \in ToSet(grey') : Valid(r)'
      BY <2>2, <2>5, <2>10 DEF RestInv
    <3>2. \A r \in RootSet' : Pending(r)'
      BY <2>5, <2>11 DEF Pending
    <3>3. ASSUME NEW S \in SUBSET LiveIds', ClosedAmong(S, Blackened)'
          PROVE  ObjectIds(ToSet(grey))' \subseteq S
      <4>1. ObjectIds(RootSet)' \subseteq S
        BY <3>3 DEF ClosedAmong
      <4>2. ToSet(grey)' = RootSet'
        BY <2>5, <2>11
      <4> QED
        BY <4>1, <4>2 DEF ObjectIds
    <3> QED
      BY <2>15, <3>1, <3>2, <3>3 DEF MarkInv
  <2>17. SlidingInv' /\ InternalInv' /\ ReachedInv'
    BY <2>1 DEF SlidingInv, InternalInv, ReachedInv
  <2> QED
    BY <2>6, <2>7, <2>8, <2>9, <2>13, <2>14, <2>16, <2>17 DEF RefInv
<1> QED
  BY <1>1, <1>2

----------------------------------------------------------------------------------------
(* Lists built by C++ code. *)

\* The C++ code that builds a list begins with no handle, and with its elements at hand.
LEMMA BuildersStart ==
  ASSUME RefInv, VariadicCall \/ Quote
  PROVE  RefInv'
<1>1. pc = "run"
  BY DEF VariadicCall, Quote, Running
<1>2. GoingOn /\ TypeOK /\ native = Idle /\ handles = <<>> /\ HandlesInv
  BY <1>1, RunHandles DEF RefInv, GoingOn
<1>3. /\ frames \in [Environments -> [parent : Environments \union {0}, vars : Seq(Refs)]]
      /\ callStack \in Seq(Environments) /\ callStack # <<>>
      /\ immediates \in Seq(Refs) /\ operandStack \in Seq(Refs)
      /\ \A i \in DOMAIN callStack : callStack[i] \in Environments
      /\ \A i \in DOMAIN callStack : \A r \in ToSet(frames[callStack[i]].vars) : Valid(r)
  BY <1>2, FramesStay
<1>4. \A r \in ToSet(immediates) \union ToSet(operandStack) : Valid(r)
  BY <1>2, AtHand
<1>5. fault \in {"none", "dangling", "stale", "handle", "shifted"}
  BY <1>2 DEF TypeOK
<1>6. NullRef \in Refs /\ Len(handles) = 0
  BY <1>2, AtHand
<1>7. CASE Quote
  <2>1. PICK n \in 0..MaxLiterals : native' = [Idle EXCEPT !.op = "quote", !.n = n]
    BY <1>7 DEF Quote
  <2>2. /\ pc' = "build"
        /\ UNCHANGED <<mem, end, frames, callStack, immediates, operandStack, handles, plist,
                       charMarks, grey, index, gone, breaks, collapse, frameSet, fault>>
    BY <1>7 DEF Quote, heap, roots, locals
  <2>3. n \in Nat
    OBVIOUS
  <2>4. native' = [op |-> "quote", held |-> <<>>, n |-> n, raw |-> NullRef, below |-> 0,
                   outer |-> <<>>]
    BY <2>1 DEF Idle
  <2>5. native' \in Waiters
    BY <1>6, <2>3, <2>4 DEF Waiters, KindOf
  <2>6. Handled(native)'
    BY <1>2, <1>6, <2>2, <2>4 DEF Handled, BuilderOps, Nested, BelowOf
  <2>7. NativeInv'
    BY <2>2, <2>4, <2>5, <2>6 DEF NativeInv
  <2>8. HandlesInv'
    BY <1>2, <2>2 DEF HandlesInv, HeadDestroyed
  <2>9. /\ handles' \in Seq([val : Refs, prev : Nat, next : Nat]) /\ plist' \in Nat
        /\ \A h \in DOMAIN handles' : h = plist' => Valid(handles'[h].val)
    BY <1>2, <2>2 DEF TypeOK
  <2>10. pc' \in Awake
    BY <2>2 DEF Awake
  <2> QED
    BY <1>2, <1>3, <1>4, <1>5, <2>2, <2>7, <2>8, <2>9, <2>10, MemoryStays
<1>8. CASE VariadicCall
  <2>1. TopIs({"vfn"}) /\ (HeadDestroyed => Stop("handle"))
    BY <1>8 DEF VariadicCall
  <2>2. CASE HeadDestroyed
    BY <2>1, <2>2, StopInv
  <2>3. CASE ~HeadDestroyed
    <3>1. PICK n \in 0..(Len(operandStack) - 1) :
            /\ Hold(Top)
            /\ operandStack' = Without(1)
            /\ native' = [Idle EXCEPT !.op = "variadic", !.n = n, !.raw = Top, !.below = 1]
      BY <1>8, <2>3 DEF VariadicCall
    <3>2. /\ pc' = "build"
          /\ UNCHANGED <<mem, end, frames, callStack, immediates,
                         charMarks, grey, index, gone, breaks, collapse, frameSet, fault>>
      BY <1>8, <2>3 DEF VariadicCall, heap, locals
    <3>3. PICK top : top = Top
      OBVIOUS
    <3>4. top \in Refs /\ Valid(top) /\ ~IsChar(top) /\ Len(operandStack) \in Nat \ {0}
      BY <1>1, <1>2, <2>1, <3>3, TopIsAnObject, AtHand
    <3>5. /\ handles' \in Seq(HandleType) /\ plist' \in Nat
          /\ Len(handles') = 1 /\ plist' = 1
          /\ handles'[1].val = top
          /\ HandlesInv'
      BY <1>2, <1>6, <2>3, <3>1, <3>3, <3>4, HoldIs
    <3>6. n \in Nat /\ n <= Len(operandStack) - 1
      BY <3>4
    <3>7. native' = [op |-> "variadic", held |-> <<>>, n |-> n, raw |-> top, below |-> 1,
                     outer |-> <<>>]
      BY <3>1, <3>3 DEF Idle
    <3>8. native' \in Waiters
      BY <1>6, <3>4, <3>6, <3>7 DEF Waiters, KindOf
    <3>9. /\ operandStack' \in Seq(Refs) /\ ToSet(operandStack') \subseteq ToSet(operandStack)
          /\ Len(operandStack') = Len(operandStack) - 1
      BY <1>3, <3>1, <3>4, WithoutIs
    <3>10. Handled(native)'
      BY <3>4, <3>5, <3>6, <3>7, <3>9 DEF Handled, BuilderOps, IsChar
    <3>11. NativeInv'
      BY <3>2, <3>7, <3>8, <3>10 DEF NativeInv
    <3>12. /\ handles' \in Seq([val : Refs, prev : Nat, next : Nat])
           /\ \A h \in DOMAIN handles' : h = plist' => Valid(handles'[h].val)
      BY <3>4, <3>5 DEF HandleType
    <3>13. pc' \in Awake
      BY <3>2 DEF Awake
    <3> QED
      BY <1>2, <1>3, <1>4, <1>5, <3>2, <3>5, <3>9, <3>11, <3>12, <3>13, MemoryStays
  <2> QED
    BY <2>2, <2>3
<1> QED
  BY <1>7, <1>8

\* One more list waits.
LEMMA NestedWithin ==
  ASSUME NEW q \in Waiters, Nested(q), NEW s \in Suspensions, s.below = q.below,
         NEW p \in Waiters, p.outer = Append(q.outer, s), p.below \in {q.below, q.below + 1}
  PROVE  Nested(p)
<1>1. q.outer \in Seq(Suspensions) /\ q.below \in Nat /\ p.below \in Nat
  BY WaitersHave
<1>2. PICK k : k = Len(q.outer)
  OBVIOUS
<1>3. k \in Nat /\ DOMAIN q.outer = 1..k
  BY <1>1, <1>2, ElementsOf
<1>4. PICK o : o = Append(q.outer, s)
  OBVIOUS
<1>5. DOMAIN o = 1..k + 1 /\ o[k + 1] = s /\ \A i \in 1..k : o[i] = q.outer[i]
  BY <1>1, <1>2, <1>3, <1>4
<1>6. p.outer = o
  BY <1>4
<1>7. \A i \in 1..k + 1 : BelowOf(p, i) = BelowOf(q, i)
  BY <1>3, <1>5, <1>6 DEF BelowOf
<1>8. BelowOf(p, k + 2) = p.below /\ BelowOf(q, k + 1) = q.below
  BY <1>3, <1>5, <1>6 DEF BelowOf
<1>9. BelowOf(p, 1) = 0
  BY <1>3, <1>7 DEF Nested
<1>10. ASSUME NEW i \in 1..k + 1 PROVE BelowOf(p, i + 1) \in {BelowOf(p, i), BelowOf(p, i) + 1}
  <2>1. CASE i = k + 1
    BY <1>3, <1>7, <1>8, <2>1
  <2>2. CASE i # k + 1
    <3>1. i \in 1..k /\ i + 1 \in 1..k + 1
      BY <1>3, <2>2
    <3> QED
      BY <1>3, <1>7, <3>1 DEF Nested
  <2> QED
    BY <2>1, <2>2
<1> QED
  BY <1>5, <1>6, <1>9, <1>10 DEF Nested

\* One less.
LEMMA NestedOut ==
  ASSUME NEW q \in Waiters, Nested(q), q.outer # <<>>,
         NEW p \in Waiters, p.outer = Front(q.outer), p.below = Last(q.outer).below
  PROVE  Nested(p) /\ q.below \in {p.below, p.below + 1}
<1>1. q.outer \in Seq(Suspensions)
  BY WaitersHave
<1>2. PICK k : k = Len(q.outer)
  OBVIOUS
<1>3. k \in Nat \ {0} /\ DOMAIN q.outer = 1..k /\ Last(q.outer) = q.outer[k]
  BY <1>1, <1>2, ElementsOf, LastOf
<1>4. PICK o : o = SubSeq(q.outer, 1, k - 1)
  OBVIOUS
<1>5. p.outer = o
  BY <1>2, <1>4 DEF Front
<1>6. DOMAIN o = 1..k - 1 /\ \A i \in 1..k - 1 : o[i] = q.outer[i]
  BY <1>1, <1>2, <1>3, <1>4
<1>7. \A i \in 1..k : BelowOf(p, i) = BelowOf(q, i)
  <2>1. \A i \in 1..k : i \in 1..k - 1 \/ i = k
    BY <1>3
  <2>2. BelowOf(p, k) = BelowOf(q, k)
    BY <1>3, <1>5, <1>6 DEF BelowOf
  <2>3. \A i \in 1..k - 1 : BelowOf(p, i) = BelowOf(q, i)
    BY <1>3, <1>5, <1>6 DEF BelowOf
  <2> QED
    BY <2>1, <2>2, <2>3
<1>8. BelowOf(q, k + 1) = q.below /\ BelowOf(q, k) = p.below
  BY <1>3 DEF BelowOf
<1>9. \A i \in 1..k - 1 : i \in 1..k /\ i + 1 \in 1..k
  BY <1>3
<1>10. BelowOf(p, 1) = 0
  BY <1>3, <1>7 DEF Nested
<1>11. \A i \in 1..k - 1 : BelowOf(p, i + 1) \in {BelowOf(p, i), BelowOf(p, i) + 1}
  BY <1>3, <1>7, <1>9 DEF Nested
<1>12. k \in DOMAIN q.outer
  BY <1>3
<1> QED
  BY <1>5, <1>6, <1>8, <1>10, <1>11, <1>12 DEF Nested

\* The newest handle is destroyed: the others stay as they are.
LEMMA DestroyedIs ==
  ASSUME TypeOK, HandlesInv, handles # <<>>
  PROVE  /\ Destroyed \in Seq(HandleType)
         /\ Len(handles) \in Nat \ {0} /\ Len(Destroyed) = Len(handles) - 1
         /\ DOMAIN Destroyed = 1..Len(handles) - 1
         /\ \A h \in 1..Len(handles) - 1 :
              Destroyed[h].next = IF h = Len(handles) - 1 THEN 0 ELSE h + 1
         /\ Last(handles).val \in Refs
<1>1. handles \in Seq(HandleType)
  BY DEF TypeOK, HandleType
<1>2. PICK n : n = Len(handles)
  OBVIOUS
<1>3. n \in Nat \ {0} /\ DOMAIN handles = 1..n /\ Last(handles) = handles[n]
  BY <1>1, <1>2, ElementsOf, LastOf
<1>11. \A h \in 1..n : handles[h].next = IF h = n THEN 0 ELSE h + 1
  BY <1>2, <1>3, Zenon DEF HandlesInv
<1>4. handles[n].next = 0 /\ handles[n].val \in Refs
  <2>1. n \in 1..n
    BY <1>3
  <2> QED
    BY <1>3, <1>11, <2>1, HandleTypes
<1>5. PICK d : d = Destroyed
  OBVIOUS
<1>6. /\ DOMAIN d = 1..n - 1
      /\ \A h \in 1..n - 1 :
           d[h] = IF h = n - 1 THEN [handles[h] EXCEPT !.next = 0] ELSE handles[h]
  BY <1>2, <1>3, <1>4, <1>5 DEF Destroyed
<1>7. \A h \in 1..n - 1 : h \in 1..n /\ h # n /\ n - 1 \in Nat
  BY <1>3
<1>8. ASSUME NEW h \in 1..n - 1
      PROVE  d[h] \in HandleType /\ d[h].next = IF h = n - 1 THEN 0 ELSE h + 1
  <2>1. handles[h] \in HandleType /\ handles[h].next = h + 1
    BY <1>1, <1>2, <1>3, <1>7, <1>11
  <2>2. PICK x : x = handles[h]
    OBVIOUS
  <2>3. d[h] = IF h = n - 1 THEN [x EXCEPT !.next = 0] ELSE x
    BY <1>6, <2>2
  <2>4. [x EXCEPT !.next = 0] \in HandleType /\ [x EXCEPT !.next = 0].next = 0
    BY <2>1, <2>2 DEF HandleType
  <2> QED
    BY <2>1, <2>2, <2>3, <2>4
<1>9. d = [h \in 1..n - 1 |-> d[h]]
  BY <1>2, <1>5, <1>6 DEF Destroyed
<1>10. d \in Seq(HandleType) /\ Len(d) = n - 1
  <2>1. d \in [1..n - 1 -> HandleType] /\ n - 1 \in Nat
    BY <1>3, <1>8, <1>9
  <2> QED
    BY <2>1, SequenceOf
<1> QED
  BY <1>2, <1>3, <1>4, <1>5, <1>6, <1>8, <1>10

\* Lists within lists: their handles are those of a stack, the head of their list is
\* the newest, or has been destroyed.
LEMMA QuotedRefs ==
  ASSUME RefInv, QuoteWithin \/ Quoted \/ FnLost
  PROVE  RefInv'
<1>1. pc = "build"
  BY DEF QuoteWithin, Quoted, FnLost
<1>2. GoingOn /\ TypeOK /\ NativeInv /\ HandlesInv /\ native \in Waiters
  BY <1>1 DEF RefInv, GoingOn, NativeInv
<1>3. /\ frames \in [Environments -> [parent : Environments \union {0}, vars : Seq(Refs)]]
      /\ callStack \in Seq(Environments) /\ callStack # <<>>
      /\ immediates \in Seq(Refs) /\ operandStack \in Seq(Refs)
      /\ \A i \in DOMAIN callStack : \A r \in ToSet(frames[callStack[i]].vars) : Valid(r)
  BY <1>2, FramesStay
<1>4. \A r \in ToSet(immediates) \union ToSet(operandStack) : Valid(r)
  BY <1>2, AtHand
<1>5. fault \in {"none", "dangling", "stale", "handle", "shifted"} /\ plist \in Nat
      /\ handles \in Seq(HandleType)
  BY <1>2 DEF TypeOK, HandleType
<1>6. \A h \in DOMAIN handles : h = plist => Valid(handles[h].val)
  BY <1>2, AtHand
<1>7. NullRef \in Refs
  BY <1>2, AtHand
<1>8. native.outer \in Seq(Suspensions) /\ native.n \in Nat /\ native.raw \in Refs
      /\ native.below \in Nat
  BY <1>2, WaitersHave
<1>9. PICK n : n = Len(handles)
  OBVIOUS
<1>10. n \in Nat /\ DOMAIN handles = 1..n /\ (handles = <<>> <=> n = 0)
  BY <1>5, <1>9, ElementsOf
<1>11. native.op = "quote" => n \in {native.below, native.below + 1} /\ Nested(native)
  BY <1>2, <1>9 DEF NativeInv, Handled
<1>12. CASE QuoteWithin
  <2>1. PICK m \in 0..MaxLiterals :
          native' = [Idle EXCEPT !.op = "quote", !.n = m, !.below = Len(handles),
                      !.outer = Append(native.outer, Suspended)]
    BY <1>12 DEF QuoteWithin
  <2>2. /\ native.op = "quote"
        /\ UNCHANGED <<mem, end, frames, callStack, immediates, operandStack, handles, plist,
                       charMarks, grey, index, gone, breaks, collapse, frameSet, pc, fault>>
    BY <1>12 DEF QuoteWithin, heap, roots, locals
  <2>3. Suspended \in Suspensions /\ Suspended.below = native.below
    BY <1>8 DEF Suspended, Suspensions
  <2>4. PICK o : o = Append(native.outer, Suspended)
    OBVIOUS
  <2>5. o \in Seq(Suspensions)
    BY <1>8, <2>3, <2>4
  <2>6. native' = [op |-> "quote", held |-> <<>>, n |-> m, raw |-> NullRef, below |-> n,
                   outer |-> o]
    BY <1>9, <2>1, <2>4 DEF Idle
  <2>7. native' \in Waiters
    <3>1. m \in Nat /\ <<>> \in Seq(Refs)
      OBVIOUS
    <3> QED
      BY <1>7, <1>10, <2>5, <2>6, <3>1 DEF Waiters, KindOf
  <2>8. PICK p : p = native'
    OBVIOUS
  <2>9. Nested(p)
    <3>1. p \in Waiters /\ p.outer = Append(native.outer, Suspended) /\ p.below = n
      BY <2>4, <2>6, <2>7, <2>8
    <3> QED
      BY <1>2, <1>11, <2>2, <2>3, <3>1, NestedWithin
  <2>10. Nested(native)'
    BY <2>8, <2>9 DEF Nested, BelowOf
  <2>11. Handled(native)'
    BY <1>9, <1>10, <2>2, <2>6, <2>10 DEF Handled, BuilderOps
  <2>12. NativeInv'
    BY <1>1, <2>2, <2>6, <2>7, <2>11 DEF NativeInv
  <2>13. HandlesInv'
    BY <1>2, <2>2 DEF HandlesInv, HeadDestroyed
  <2>14. pc' \in Awake
    BY <1>1, <2>2 DEF Awake
  <2>15. handles' \in Seq([val : Refs, prev : Nat, next : Nat])
    BY <1>5, <2>2 DEF HandleType
  <2> QED
    BY <1>2, <1>3, <1>4, <1>5, <1>6, <2>2, <2>12, <2>13, <2>14, <2>15, MemoryStays
<1>13. CASE FnLost
  <2>1. Stop("stale")
    BY <1>13 DEF FnLost
  <2> QED
    BY <2>1, StopInv
<1>14. CASE Quoted
  <2>1. PICK list : list = IF Started(native) THEN Last(handles).val ELSE NullRef
    OBVIOUS
  <2>2. CASE ~Valid(list)
    <3>1. Stop("dangling")
      BY <1>14, <2>1, <2>2 DEF Quoted
    <3> QED
      BY <3>1, StopInv
  <2>3. CASE Valid(list)
    <3>1. /\ native.op = "quote" /\ immediates' = Append(immediates, list)
          /\ handles' = IF Started(native) THEN Destroyed ELSE handles
          /\ native' = Resumed
          /\ pc' = IF native.outer = <<>> THEN "run" ELSE "build"
          /\ UNCHANGED <<mem, end, frames, callStack, operandStack, plist, charMarks,
                         grey, index, gone, breaks, collapse, frameSet, fault>>
      BY <1>14, <2>1, <2>3 DEF Quoted, heap, locals
    <3>2. PICK ended : ended = IF Started(native) THEN 1 ELSE 0
      OBVIOUS
    <3>3. /\ ended \in {0, 1} /\ n = native.below + ended
          /\ Started(native) => handles # <<>>
      BY <1>8, <1>9, <1>10, <1>11, <3>1, <3>2 DEF Started
    <3>4. /\ handles' \in Seq(HandleType) /\ Len(handles') = n - ended
          /\ DOMAIN handles' = 1..n - ended
          /\ \A h \in 1..n - ended : handles'[h].next = IF h = n - ended THEN 0 ELSE h + 1
          /\ list \in Refs
      <4>1. CASE Started(native)
        BY <1>2, <1>9, <2>1, <3>1, <3>2, <3>3, <4>1, DestroyedIs
      <4>2. CASE ~Started(native)
        BY <1>2, <1>5, <1>7, <1>9, <1>10, <2>1, <3>1, <3>2, <4>2 DEF HandlesInv
      <4> QED
        BY <4>1, <4>2
    <3>5. handles' = <<>> <=> n - ended = 0
      <4>1. PICK hs : hs = handles'
        OBVIOUS
      <4> QED
        BY <3>4, <4>1, ElementsOf
    <3>6. immediates' \in Seq(Refs) /\ ToSet(immediates') = ToSet(immediates) \union {list}
      BY <1>3, <3>1, <3>4, ToSetAppend
    <3>7. /\ pc' \in {"run", "build"} /\ native' \in Waiters
          /\ pc' = "run" => native' = Idle
          /\ pc' = "build" => native'.op = "quote"
          /\ Handled(native)'
      <4>1. CASE native.outer = <<>>
        <5>1. native' = Idle /\ pc' = "run"
          BY <3>1, <4>1 DEF Resumed
        <5>2. BelowOf(native, 1) = native.below
          BY <4>1 DEF BelowOf
        <5>3. n - ended = 0
          BY <1>8, <1>11, <3>1, <3>3, <5>2 DEF Nested
        <5>4. handles' = <<>>
          BY <3>5, <5>3
        <5> QED
          BY <5>1, <5>4, RunInv DEF NativeInv
      <4>2. CASE native.outer # <<>>
        <5>1. PICK w : w = Last(native.outer)
          OBVIOUS
        <5>2. w \in Suspensions /\ Front(native.outer) \in Seq(Suspensions)
          <6>1. PICK k : k = Len(native.outer)
            OBVIOUS
          <6>2. k \in Nat \ {0} /\ Last(native.outer) = native.outer[k] /\ k \in 1..k
            BY <1>8, <4>2, <6>1, ElementsOf, LastOf
          <6>3. SubSeq(native.outer, 1, k - 1) \in Seq(Suspensions)
            BY <1>8, <6>1, <6>2, ToSetSub
          <6> QED
            BY <1>8, <5>1, <6>1, <6>2, <6>3, ElementsOf DEF Front
        <5>3. native' = [op |-> "quote", held |-> <<>>, n |-> w.n, raw |-> w.raw,
                         below |-> w.below, outer |-> Front(native.outer)]
              /\ pc' = "build"
          BY <3>1, <4>2, <5>1 DEF Resumed
        <5>4. w.n \in Nat /\ w.raw \in Refs /\ w.below \in Nat
          BY <5>2, Zenon DEF Suspensions
        <5>5. native' \in Waiters
          <6>1. <<>> \in Seq(Refs)
            OBVIOUS
          <6> QED
            BY <5>2, <5>3, <5>4, <6>1 DEF Waiters, KindOf
        <5>6. PICK p : p = native'
          OBVIOUS
        <5>7. p \in Waiters /\ p.outer = Front(native.outer) /\ p.below = Last(native.outer).below
          BY <5>1, <5>3, <5>5, <5>6
        <5>8. Nested(p) /\ native.below \in {p.below, p.below + 1}
          BY <1>2, <1>11, <3>1, <4>2, <5>7, NestedOut
        <5>9. Nested(native)'
          BY <5>6, <5>8 DEF Nested, BelowOf
        <5>10. Len(handles') \in {native'.below, native'.below + 1}
          BY <1>8, <3>3, <3>4, <5>6, <5>8
        <5>11. native'.op = "quote"
          BY <5>3
        <5> QED
          BY <5>3, <5>5, <5>9, <5>10, <5>11 DEF Handled, BuilderOps
      <4> QED
        BY <4>1, <4>2
    <3>8. NativeInv'
      BY <3>7 DEF NativeInv
    <3>9. n # 0 => plist >= n
      BY <1>2, <1>9, <1>10 DEF HandlesInv
    <3>10. HandlesInv'
      <4>1. PICK hs : hs = handles'
        OBVIOUS
      <4>2. hs # <<>> => plist' >= Len(hs)
        BY <1>5, <1>10, <3>1, <3>3, <3>4, <3>5, <3>9, <4>1
      <4>3. \A h \in DOMAIN hs : hs[h].next = IF h = Len(hs) THEN 0 ELSE h + 1
        BY <3>4, <4>1
      <4>4. pc' \notin {"mark", "slide", "internal", "collected"}
        BY <3>7
      <4> QED
        BY <4>1, <4>2, <4>3, <4>4, Zenon DEF HandlesInv
    <3>11. ASSUME NEW h \in DOMAIN handles', h = plist' PROVE Valid(handles'[h].val)
      <4>1. h \in 1..n - ended /\ h = plist /\ h \in 1..n
        BY <1>10, <3>1, <3>3, <3>4, <3>11
      <4>2. ended = 0
        BY <1>5, <1>10, <3>3, <3>9, <4>1
      <4>3. handles' = handles
        BY <3>1, <3>2, <4>2
      <4> QED
        BY <1>6, <1>10, <4>1, <4>3
    <3>12. pc' \in Awake
      BY <3>7 DEF Awake
    <3>13. handles' \in Seq([val : Refs, prev : Nat, next : Nat])
      BY <3>4 DEF HandleType
    <3>14. \A r \in ToSet(immediates') \union ToSet(operandStack') : Valid(r)
      BY <1>4, <2>3, <3>1, <3>6
    <3> QED
      BY <1>2, <1>3, <1>5, <3>1, <3>6, <3>8, <3>10, <3>11, <3>12, <3>13, <3>14, MemoryStays
  <2> QED
    BY <2>2, <2>3
<1> QED
  BY <1>12, <1>13, <1>14

\* A call enters its function with the list: both have handles, and the second of
\* these is the head.
LEMMA CalledRefs ==
  ASSUME RefInv, FnInv, Called
  PROVE  RefInv'
<1>1. PICK list : list = IF Started(native) THEN handles[2].val ELSE NullRef
  OBVIOUS
<1>2. /\ pc = "build" /\ native.op = "variadic" /\ Valid(native.raw)
      /\ Enter(mem[handles[1].val.at].env, Append(operandStack, list))
      /\ handles' = <<>> /\ pc' = "run" /\ native' = Idle
      /\ UNCHANGED <<mem, end, immediates, plist, charMarks, grey, index, gone, breaks,
                     collapse, frameSet, fault>>
  BY <1>1 DEF Called, heap, locals
<1>3. GoingOn /\ TypeOK /\ NativeInv
  BY <1>2 DEF RefInv, GoingOn
<1>4. /\ frames \in [Environments -> [parent : Environments \union {0}, vars : Seq(Refs)]]
      /\ callStack \in Seq(Environments) /\ callStack # <<>>
      /\ immediates \in Seq(Refs) /\ operandStack \in Seq(Refs)
  BY <1>3, FramesStay
<1>5. \A r \in ToSet(immediates) \union ToSet(operandStack) : Valid(r)
  BY <1>3, AtHand
<1>6. ~IsChar(native.raw) /\ handles[1].val = native.raw /\ plist = Len(handles)
  BY <1>2, <1>3 DEF FnInv, NativeInv, Handled
<1>7. list \in Refs /\ Valid(list)
  <2>1. CASE Started(native)
    <3>1. native.below = 1 /\ Len(handles) \in {1, 2}
      BY <1>2, <1>3 DEF NativeInv, Handled
    <3>2. Len(handles) = 2 /\ DOMAIN handles = 1..Len(handles)
      <4>1. PICK n : n = Len(handles)
        OBVIOUS
      <4>2. n > 1 /\ n \in {1, 2}
        BY <2>1, <3>1, <4>1 DEF Started
      <4>3. DOMAIN handles = 1..n
        BY <1>3, <4>1, ElementsOf DEF TypeOK
      <4> QED
        BY <4>1, <4>2, <4>3
    <3>3. 2 \in DOMAIN handles /\ plist = 2
      BY <1>6, <3>2
    <3> QED
      BY <1>1, <1>3, <2>1, <3>3, AtHand, HandleTypes
  <2>2. CASE ~Started(native)
    BY <1>1, <1>3, <2>2, AtHand
  <2> QED
    BY <2>1, <2>2
<1>8. PICK stack : stack = Append(operandStack, list)
  OBVIOUS
<1>9. PICK parent : parent = mem[handles[1].val.at].env
  OBVIOUS
<1>10. parent \in Environments \union {0}
  <2>1. native.raw \in Refs
    BY <1>3 DEF NativeInv, Waiters
  <2>2. native.raw.at \in DOMAIN mem
    BY <1>2, <1>3, <1>6, <2>1, ValidObject
  <2> QED
    BY <1>3, <1>6, <1>9, <2>2, ObjectTypes
<1>11. Enter(parent, stack)
  BY <1>2, <1>8, <1>9
<1>12. stack \in Seq(Refs) /\ ToSet(stack) = ToSet(operandStack) \union {list}
  BY <1>4, <1>7, <1>8, ToSetAppend
<1>13. /\ frames' \in [Environments -> [parent : Environments \union {0}, vars : Seq(Refs)]]
       /\ callStack' \in Seq(Environments) /\ callStack' # <<>>
       /\ operandStack' = stack
       /\ \A e \in Environments : \A r \in ToSet(frames'[e].vars) : r \in ToSet(frames[e].vars)
       /\ \A i \in DOMAIN callStack' : \A r \in ToSet(frames'[callStack'[i]].vars) : Valid(r)
  BY <1>3, <1>10, <1>11, EnterIs
<1> QED
  BY <1>2, <1>3, <1>4, <1>5, <1>7, <1>12, <1>13, RunStep

\* Objects.
ObjectType == [kind : Kinds, id : Nat, marked : BOOLEAN, refs : Seq(Refs),
               env : Environments \union {0}]

\* What create is called for.
Creations == DOMAIN KindOf

\* What a new object is made of.
LEMMA GivenIs ==
  ASSUME RefInv, GoingOn, NEW q, q.op \in Creations, Ready(q)
  PROVE  /\ Given(q) \in Seq(Refs)
         /\ KindOf[q.op] \in Kinds
         /\ ConstructedEnv(q) \in Environments \union {0}
         /\ KindOf[q.op] = "str" => Given(q) = <<>> /\ ConstructedEnv(q) = 0
<1>1. TypeOK
  BY DEF RefInv
<1>2. operandStack \in Seq(Refs) /\ immediates \in Seq(Refs)
  BY <1>1 DEF TypeOK
<1>3. q.held \in Seq(Refs)
  BY WaitersHave DEF Ready
<1>4. Given(q) \in Seq(Refs)
  <2>1. CASE q.op = "cons"
    <3>1. PICK m : m = Len(operandStack) - 1
      OBVIOUS
    <3>2. PICK n : n = Len(operandStack)
      OBVIOUS
    <3>3. m \in Nat \ {0} /\ n \in Int /\ n <= Len(operandStack)
      BY <1>2, <2>1, <3>1, <3>2 DEF Ready
    <3>4. Given(q) = SubSeq(operandStack, m, n)
      BY <2>1, <3>1, <3>2 DEF Given
    <3> QED
      BY <1>2, <3>3, <3>4, ToSetSub
  <2>2. CASE q.op = "documented"
    <3>1. Given(q) = <<immediates[q.n]>> /\ q.n \in DOMAIN immediates
      BY <2>2 DEF Given, Ready
    <3>2. immediates[q.n] \in Refs
      BY <1>2, <3>1
    <3> QED
      BY <3>1, <3>2
  <2>3. CASE q.op \notin {"cons", "documented"}
    BY <1>3, <2>3 DEF Given
  <2> QED
    BY <2>1, <2>2, <2>3
<1>5. KindOf[q.op] \in Kinds
  BY DEF KindOf, Kinds, Creations
<1>6. ConstructedEnv(q) \in Environments \union {0}
  BY <1>1, StackTypes DEF ConstructedEnv
<1>7. ASSUME KindOf[q.op] = "str" PROVE Given(q) = <<>> /\ ConstructedEnv(q) = 0
  <2>1. q.op = "str" \/ q.op = "string"
    BY <1>7 DEF KindOf, Creations
  <2> QED
    BY <1>7, <2>1 DEF Ready, Given, ConstructedEnv
<1> QED
  BY <1>4, <1>5, <1>6, <1>7

\* An object whose second reference is set, if it has one.
SetSecond(o, r) == [o EXCEPT !.refs[2] = r]

\* It has the same number and type as before.
LEMMA SecondSet ==
  ASSUME NEW o \in ObjectType, NEW r \in Refs
  PROVE  /\ SetSecond(o, r) \in ObjectType
         /\ SetSecond(o, r).kind = o.kind /\ SetSecond(o, r).id = o.id
         /\ SetSecond(o, r).marked = o.marked /\ SetSecond(o, r).env = o.env
         /\ ToSet(SetSecond(o, r).refs) \subseteq ToSet(o.refs) \union {r}
         /\ o.refs = <<>> => SetSecond(o, r).refs = <<>>
<1>1. PICK s : s = o.refs
  OBVIOUS
<1>2. PICK t : t = [s EXCEPT ![2] = r]
  OBVIOUS
<1>3. s \in Seq(Refs)
  BY <1>1 DEF ObjectType
<1>4. Len(s) \in Nat /\ DOMAIN s = 1..Len(s) /\ \A i \in 1..Len(s) : s[i] \in Refs
  BY <1>3, ElementsOf
<1>5. t \in [1..Len(s) -> Refs] /\ DOMAIN t = 1..Len(s) /\ \A i \in 1..Len(s) : t[i] = s[i] \/ t[i] = r
  BY <1>2, <1>4
<1>6. t \in Seq(Refs) /\ Len(t) = Len(s)
  BY <1>4, <1>5, SequenceOf
<1>7. ToSet(t) \subseteq ToSet(s) \union {r}
  BY <1>4, <1>5 DEF ToSet
<1>8. s = <<>> => t = <<>>
  BY <1>3, <1>6, ElementsOf
<1>9. PICK p : p = [o EXCEPT !.refs = t]
  OBVIOUS
<1>10. /\ p \in ObjectType /\ p.kind = o.kind /\ p.id = o.id /\ p.marked = o.marked
       /\ p.env = o.env /\ p.refs = t
  BY <1>6, <1>9 DEF ObjectType
<1>11. SetSecond(o, r) = p
  BY <1>1, <1>2, <1>9 DEF SetSecond
<1> QED
  BY <1>1, <1>7, <1>8, <1>10, <1>11

\* Memory, when an object has been added and perhaps linked to a list.
Grown(q, new) ==
  mem' = Put(IF IsPushBack(q) THEN [mem EXCEPT ![q.raw.at].refs[2] = new] ELSE mem,
             end,
             [kind |-> KindOf[q.op], id |-> new.id, marked |-> FALSE,
              refs |-> Given(q), env |-> ConstructedEnv(q)])

\* An object that is put at the end has a number that nothing else has.
LEMMA MemoryGrows ==
  ASSUME RefInv, HeapInv, GoingOn, NEW q, q.op \in Creations, Ready(q), Fits(q),
         NEW new, new = New,
         Grown(q, new)
  PROVE  /\ end \notin DOMAIN mem /\ DOMAIN mem' = DOMAIN mem \union {end}
         /\ new \in Refs /\ ~IsChar(new) /\ new.at = end /\ new.id \notin Ids /\ new.id # 0
         /\ end + Size[KindOf[q.op]] \in Addresses
         /\ \A a \in DOMAIN mem :
              /\ mem'[a] \in ObjectType /\ mem'[a].kind = mem[a].kind /\ mem'[a].id = mem[a].id
              /\ mem'[a].marked = mem[a].marked /\ mem'[a].env = mem[a].env
              /\ ToSet(mem'[a].refs) \subseteq ToSet(mem[a].refs) \union {new}
              /\ mem[a].refs = <<>> => mem'[a].refs = <<>>
         /\ mem'[end] \in ObjectType /\ mem'[end].id = new.id /\ ~mem'[end].marked
         /\ mem'[end].refs = Given(q) /\ mem'[end].env = ConstructedEnv(q)
         /\ mem'[end].kind = "str" => mem'[end].refs = <<>> /\ mem'[end].env = 0
<1>1. TypeOK /\ IdsInv
  BY DEF RefInv
<1>2. /\ end \in Nat /\ end <= Capacity /\ end \notin DOMAIN mem
  BY DEF HeapInv, HeapTiled, GoingOn
<1>3. new.at = end /\ new.id \in Nat /\ new.id # 0 /\ new.id \notin Ids
  BY <1>1, <1>2, NewIs DEF IdsInv, RefInv, NativeInv
<1>4. new \in Refs /\ ~IsChar(new)
  <2>1. new = [at |-> new.at, id |-> new.id]
    BY DEF New
  <2>2. new.at \in 0..Capacity
    BY <1>2, <1>3, SizeAssumption
  <2> QED
    <3>1. new \in [at : Addresses, id : Nat]
      BY <1>3, <2>1, <2>2 DEF Addresses
    <3>2. ~(new.at < 0) /\ ~(new.at > Capacity)
      BY <2>2, SizeAssumption
    <3> QED
      BY <3>1, <3>2 DEF Refs, IsChar
<1>5. /\ Given(q) \in Seq(Refs) /\ KindOf[q.op] \in Kinds
      /\ ConstructedEnv(q) \in Environments \union {0}
      /\ KindOf[q.op] = "str" => Given(q) = <<>> /\ ConstructedEnv(q) = 0
  BY GivenIs
<1>6. PICK kind : kind = KindOf[q.op]
  OBVIOUS
<1>7. PICK refs : refs = Given(q)
  OBVIOUS
<1>8. PICK env : env = ConstructedEnv(q)
  OBVIOUS
<1>9. PICK before : before = IF IsPushBack(q) THEN [mem EXCEPT ![q.raw.at].refs[2] = new] ELSE mem
  OBVIOUS
<1>10. PICK o : o = [kind |-> kind, id |-> new.id, marked |-> FALSE, refs |-> refs, env |-> env]
  OBVIOUS
<1>11. mem' = Put(before, end, o)
  BY <1>6, <1>7, <1>8, <1>9, <1>10 DEF Grown
<1>12. o \in ObjectType
  BY <1>3, <1>5, <1>6, <1>7, <1>8, <1>10 DEF ObjectType
<1>13. /\ DOMAIN before = DOMAIN mem
       /\ \A a \in DOMAIN mem : before[a] = mem[a] \/ before[a] = [mem[a] EXCEPT !.refs[2] = new]
  BY <1>9
<1>14. /\ DOMAIN mem' = DOMAIN mem \union {end}
       /\ mem'[end] = o /\ \A a \in DOMAIN mem : mem'[a] = before[a]
  BY <1>2, <1>11, <1>13 DEF Put
<1>15. \A a \in DOMAIN mem : mem[a] \in ObjectType
  BY <1>1 DEF TypeOK, ObjectType
<1>16. ASSUME NEW a \in DOMAIN mem
       PROVE  /\ mem'[a] \in ObjectType /\ mem'[a].kind = mem[a].kind /\ mem'[a].id = mem[a].id
              /\ mem'[a].marked = mem[a].marked /\ mem'[a].env = mem[a].env
              /\ ToSet(mem'[a].refs) \subseteq ToSet(mem[a].refs) \union {new}
              /\ mem[a].refs = <<>> => mem'[a].refs = <<>>
  <2>1. CASE mem'[a] = mem[a]
    BY <1>15, <2>1
  <2>2. CASE mem'[a] = [mem[a] EXCEPT !.refs[2] = new]
    <3>1. mem'[a] = SetSecond(mem[a], new)
      BY <2>2 DEF SetSecond
    <3>2. mem[a] \in ObjectType /\ new \in Refs
      BY <1>4, <1>15
    <3>3. /\ SetSecond(mem[a], new) \in ObjectType
          /\ SetSecond(mem[a], new).kind = mem[a].kind /\ SetSecond(mem[a], new).id = mem[a].id
          /\ SetSecond(mem[a], new).marked = mem[a].marked /\ SetSecond(mem[a], new).env = mem[a].env
          /\ ToSet(SetSecond(mem[a], new).refs) \subseteq ToSet(mem[a].refs) \union {new}
          /\ mem[a].refs = <<>> => SetSecond(mem[a], new).refs = <<>>
      BY <3>2, SecondSet
    <3> QED
      BY <3>1, <3>3
  <2> QED
    BY <1>13, <1>14, <2>1, <2>2
<1>17. end + Size[kind] \in Addresses
  BY <1>2, <1>5, <1>6, SizeAssumption DEF Fits, Addresses
<1>18. /\ mem'[end].id = new.id /\ ~mem'[end].marked /\ mem'[end].kind = kind
       /\ mem'[end].refs = refs /\ mem'[end].env = env
  BY <1>10, <1>14
<1>19. /\ mem'[end] \in ObjectType /\ mem'[end].id = new.id /\ ~mem'[end].marked
       /\ mem'[end].refs = Given(q) /\ mem'[end].env = ConstructedEnv(q)
  BY <1>7, <1>8, <1>12, <1>14, <1>18
<1>20. mem'[end].kind = "str" => mem'[end].refs = <<>> /\ mem'[end].env = 0
  BY <1>5, <1>6, <1>18, <1>19
<1>21. end + Size[KindOf[q.op]] \in Addresses
  BY <1>6, <1>17
<1> QED
  BY <1>2, <1>3, <1>4, <1>14, <1>16, <1>19, <1>20, <1>21

\* The handles that are alive while a list is built.
LEMMA BuilderHandles ==
  ASSUME RefInv, GoingOn, NEW q, Handled(q)
  PROVE  /\ handles \in Seq(HandleType) /\ plist \in Nat /\ HandlesInv
         /\ Len(handles) \in Nat /\ DOMAIN handles = 1..Len(handles)
         /\ handles = <<>> <=> Len(handles) = 0
         /\ handles # <<>> => plist >= Len(handles)
<1>1. TypeOK /\ HandlesInv
  BY DEF RefInv
<1> QED
  BY <1>1, ElementsOf DEF TypeOK, HandleType, HandlesInv

\* A list builder goes on with the new object.
Pushed(q, new) ==
  /\ IF ~Started(q) THEN Hold(new)
     ELSE /\ handles' = IF IsPushBack(q) THEN handles
                        ELSE [handles EXCEPT ![2].val = new]
          /\ UNCHANGED plist
  /\ operandStack' = Without(IF q.op = "variadic" THEN 1 ELSE 0)
  /\ native' = [q EXCEPT !.n = @ - 1, !.held = <<>>,
                         !.raw = IF q.op = "variadic" THEN @ ELSE new]
  /\ pc' = "build"

\* A builder keeps its list in a handle.
LEMMA BuilderGoesOn ==
  ASSUME RefInv, GoingOn, NEW q, q.op \in {"variadic", "quote"}, Ready(q), Handled(q),
         q.op = "quote" /\ ~Started(q) => ~HeadDestroyed,
         NEW new \in Refs, ~IsChar(new),
         Pushed(q, new)
  PROVE  /\ operandStack' \in Seq(Refs) /\ ToSet(operandStack') \subseteq ToSet(operandStack)
         /\ handles' \in Seq(HandleType) /\ plist' \in Nat
         /\ \A h \in DOMAIN handles' : h = plist' =>
              handles'[h].val = new \/ (h \in DOMAIN handles /\ h = plist /\ handles'[h].val = handles[h].val)
         /\ NativeInv' /\ HandlesInv'
         /\ q.op = "variadic" => native'.raw = q.raw /\ handles'[1].val = handles[1].val
<1>0. /\ ~Started(q) => Hold(new)
      /\ Started(q) /\ IsPushBack(q) => handles' = handles /\ plist' = plist
      /\ Started(q) /\ ~IsPushBack(q) => handles' = [handles EXCEPT ![2].val = new] /\ plist' = plist
      /\ operandStack' = Without(IF q.op = "variadic" THEN 1 ELSE 0)
      /\ native' = [q EXCEPT !.n = @ - 1, !.held = <<>>,
                             !.raw = IF q.op = "variadic" THEN @ ELSE new]
      /\ pc' = "build"
  BY DEF Pushed
<1>1. /\ handles \in Seq(HandleType) /\ plist \in Nat /\ HandlesInv
      /\ Len(handles) \in Nat /\ DOMAIN handles = 1..Len(handles)
      /\ handles = <<>> <=> Len(handles) = 0
      /\ handles # <<>> => plist >= Len(handles)
  BY BuilderHandles
<1>2. TypeOK /\ operandStack \in Seq(Refs)
  BY DEF RefInv, TypeOK
<1>3. q \in Waiters /\ q.n > 0 /\ q.held \in Seq(Refs) /\ q.n \in Nat /\ q.raw \in Refs
      /\ q.below \in Nat /\ q.outer \in Seq(Suspensions)
      /\ q.op \in Creations \union {"none", "collect"}
  BY WaitersHave DEF Ready, BuilderOps, Creations
<1>4. /\ operandStack' \in Seq(Refs) /\ ToSet(operandStack') \subseteq ToSet(operandStack)
      /\ q.op = "variadic" /\ Len(operandStack) >= 1 => Len(operandStack') = Len(operandStack) - 1
  BY <1>0, <1>2, WithoutIs
<1>5. /\ native' \in Waiters /\ native'.op = q.op /\ native'.n = q.n - 1
      /\ native'.below = q.below /\ native'.outer = q.outer
      /\ q.op = "variadic" => native'.raw = q.raw
  <2>1. q = [op |-> q.op, held |-> q.held, n |-> q.n, raw |-> q.raw, below |-> q.below,
             outer |-> q.outer]
    BY <1>3, Zenon DEF Waiters
  <2>2. native' = [op |-> q.op, held |-> <<>>, n |-> q.n - 1,
                   raw |-> IF q.op = "variadic" THEN q.raw ELSE new, below |-> q.below,
                   outer |-> q.outer]
    BY <1>0, <2>1
  <2>3. q.n - 1 \in Nat /\ <<>> \in Seq(Refs)
    BY <1>3
  <2> QED
    BY <1>3, <2>2, <2>3 DEF Waiters, Creations
<1>6. /\ q.op = "variadic" => /\ q.n <= Len(operandStack) /\ Len(handles) \in {1, 2}
                              /\ q.below = 1 /\ plist = Len(handles)
      /\ q.op = "quote" => Len(handles) \in {q.below, q.below + 1} /\ Nested(q)
  BY DEF Handled
<1>11. PICK n : n = Len(handles)
  OBVIOUS
<1>7. /\ n \in Nat /\ n \in {q.below, q.below + 1} /\ n = Len(handles)
      /\ ~Started(q) => n = q.below
      /\ Started(q) => n = q.below + 1
  <2>1. n \in Nat /\ n \in {q.below, q.below + 1}
    <3>1. CASE q.op = "variadic"
      <4>1. n \in {1, 2} /\ q.below = 1
        BY <1>6, <1>11, <3>1
      <4> QED
        BY <4>1
    <3>2. CASE q.op = "quote"
      BY <1>1, <1>6, <1>11, <3>2
    <3> QED
      BY <3>1, <3>2
  <2> QED
    BY <1>3, <1>11, <2>1 DEF Started
<1>8. /\ handles' \in Seq(HandleType) /\ plist' \in Nat /\ HandlesInv'
      /\ Len(handles') = q.below + 1
      /\ q.op = "variadic" => plist' = 2 /\ handles'[1].val = handles[1].val
      /\ \A h \in DOMAIN handles' : h = plist' =>
           handles'[h].val = new \/ (h \in DOMAIN handles /\ h = plist /\ handles'[h].val = handles[h].val)
  <2>1. CASE ~Started(q)
    <3>1. ~HeadDestroyed
      <4>1. CASE q.op = "variadic"
        <5>1. plist = n
          BY <1>6, <1>7, <4>1
        <5> QED
          BY <1>7, <5>1 DEF HeadDestroyed
      <4>2. CASE q.op = "quote"
        BY <2>1, <4>2
      <4> QED
        BY <4>1, <4>2
    <3>2. /\ handles' \in Seq(HandleType) /\ plist' \in Nat
          /\ Len(handles') = Len(handles) + 1 /\ plist' = Len(handles')
          /\ handles'[plist'].val = new
          /\ \A h \in DOMAIN handles : handles'[h].val = handles[h].val
          /\ HandlesInv'
      BY <1>0, <1>1, <1>2, <2>1, <3>1, HoldIs
    <3> QED
      <4>1. Len(handles') = q.below + 1
        BY <1>7, <2>1, <3>2
      <4>2. q.op = "variadic" => plist' = 2 /\ handles'[1].val = handles[1].val
        <5>1. q.op = "variadic" => 1 \in DOMAIN handles /\ q.below = 1
          BY <1>1, <1>6
        <5> QED
          BY <3>2, <4>1, <5>1
      <4> QED
        BY <3>2, <4>1, <4>2
  <2>2. CASE Started(q) /\ IsPushBack(q)
    <3>1. handles' = handles /\ plist' = plist /\ q.op = "quote"
      BY <1>0, <2>2 DEF IsPushBack
    <3>2. HandlesInv'
      BY <1>0, <1>1, <3>1 DEF HandlesInv, HeadDestroyed
    <3>3. Len(handles) = q.below + 1
      BY <1>7, <2>2
    <3> QED
      BY <1>1, <3>1, <3>2, <3>3
  <2>3. CASE Started(q) /\ ~IsPushBack(q)
    <3>1. q.op = "variadic" /\ Len(handles) = 2 /\ plist = 2 /\ plist' = plist
          /\ handles' = [handles EXCEPT ![2].val = new]
      BY <1>0, <1>1, <1>6, <1>7, <2>3 DEF IsPushBack
    <3>2. 1 \in DOMAIN handles /\ 2 \in DOMAIN handles
      BY <1>1, <3>1
    <3>3. /\ DOMAIN handles' = 1..2 /\ handles'[1] = handles[1]
          /\ handles'[2] = [handles[2] EXCEPT !.val = new]
          /\ handles' = [h \in 1..2 |-> handles'[h]]
      <4>1. DOMAIN handles = 1..2
        BY <1>1, <3>1
      <4>2. handles' = [h \in 1..2 |-> IF h = 2 THEN [handles[2] EXCEPT !.val = new] ELSE handles[h]]
        BY <3>1, <4>1
      <4> QED
        BY <4>2
    <3>4. /\ handles'[2] \in HandleType /\ handles'[2].val = new
          /\ handles'[2].next = handles[2].next /\ handles'[1] \in HandleType
      BY <1>2, <3>2, <3>3, HandleChanges DEF HandleType
    <3>5. handles' \in [1..2 -> HandleType]
      BY <3>3, <3>4
    <3>6. handles' \in Seq(HandleType) /\ Len(handles') = 2
      BY <3>5, SequenceOf
    <3>7. HandlesInv'
      <4>1. /\ handles[1].next = 2 /\ handles[2].next = 0
        BY <1>1, <3>1, <3>2 DEF HandlesInv
      <4>2. PICK hs : hs = handles'
        OBVIOUS
      <4>3. \A h \in DOMAIN hs : hs[h].next = IF h = Len(hs) THEN 0 ELSE h + 1
        <5>1. DOMAIN hs = 1..2 /\ Len(hs) = 2 /\ hs[1].next = 2 /\ hs[2].next = 0
          BY <3>3, <3>4, <3>6, <4>1, <4>2
        <5> QED
          BY <5>1
      <4>4. plist' = 2 /\ Len(hs) = 2 /\ 2 >= 2
        BY <3>1, <3>6, <4>2
      <4>5. pc' \notin {"mark", "slide", "internal", "collected"}
        BY <1>0
      <4> QED
        BY <4>2, <4>3, <4>4, <4>5 DEF HandlesInv
    <3> QED
      <4>1. Len(handles') = q.below + 1 /\ plist' = 2 /\ plist' \in Nat
        BY <1>6, <3>1, <3>6
      <4>2. ASSUME NEW h \in DOMAIN handles', h = plist' PROVE handles'[h].val = new
        BY <3>1, <3>4, <4>2
      <4> QED
        BY <3>3, <3>6, <3>7, <4>1, <4>2
  <2> QED
    BY <2>1, <2>2, <2>3
<1>9. Handled(native)'
  <2>1. q.op = "variadic" => native'.n <= Len(operandStack')
    BY <1>2, <1>3, <1>4, <1>5, <1>6
  <2>2. q.op = "quote" => Nested(native)'
    BY <1>5, <1>6 DEF Nested, BelowOf
  <2> QED
    BY <1>5, <1>6, <1>8, <2>1, <2>2 DEF Handled, BuilderOps
<1>10. NativeInv'
  BY <1>0, <1>5, <1>9 DEF NativeInv
<1> QED
  BY <1>4, <1>5, <1>8, <1>10

\* What the caller of create does with a new object.
Returned(q, new) ==
  \/ /\ q.op \in {"int", "str", "symbol"}
     /\ immediates' = Append(immediates, new)
     /\ pc' = "run" /\ native' = Idle
     /\ UNCHANGED <<operandStack, handles, plist>>
  \/ /\ q.op \in DOMAIN Taken
     /\ operandStack' = Append(Without(Taken[q.op]), new)
     /\ pc' = "run" /\ native' = Idle
     /\ UNCHANGED <<immediates, handles, plist>>
  \/ /\ q.op \in {"variadic", "quote"}
     /\ Pushed(q, new)
     /\ UNCHANGED immediates
  \/ /\ q.op = "element"
     /\ immediates' = Append(immediates, new)
     /\ native' = [q EXCEPT !.op = "quote"]
     /\ pc' = "build"
     /\ UNCHANGED <<operandStack, handles, plist>>

\* Whichever it is, the new object is the only reference that was not there before.
LEMMA ReturnedRefs ==
  ASSUME RefInv, GoingOn, NEW q, q.op \in Creations, Ready(q), Handled(q),
         q.op = "quote" /\ ~Started(q) => ~HeadDestroyed,
         NEW new \in Refs, ~IsChar(new), Returned(q, new)
  PROVE  /\ immediates' \in Seq(Refs) /\ ToSet(immediates') \subseteq ToSet(immediates) \union {new}
         /\ operandStack' \in Seq(Refs) /\ ToSet(operandStack') \subseteq ToSet(operandStack) \union {new}
         /\ handles' \in Seq(HandleType) /\ plist' \in Nat
         /\ \A h \in DOMAIN handles' : h = plist' =>
              handles'[h].val = new \/ (h \in DOMAIN handles /\ h = plist /\ handles'[h].val = handles[h].val)
         /\ NativeInv' /\ HandlesInv' /\ pc' \in {"run", "build"}
         /\ q.op = "variadic" => native'.raw = q.raw /\ handles'[1].val = handles[1].val
         /\ q.op # "variadic" => native'.op # "variadic"
<1>1. /\ handles \in Seq(HandleType) /\ plist \in Nat /\ HandlesInv
      /\ Len(handles) \in Nat /\ DOMAIN handles = 1..Len(handles)
      /\ handles = <<>> <=> Len(handles) = 0
      /\ handles # <<>> => plist >= Len(handles)
  BY BuilderHandles
<1>2. immediates \in Seq(Refs) /\ operandStack \in Seq(Refs)
  BY DEF RefInv, TypeOK
<1>3. PICK is : is = Append(immediates, new)
  OBVIOUS
<1>4. is \in Seq(Refs) /\ ToSet(is) = ToSet(immediates) \union {new}
  BY <1>2, <1>3, ToSetAppend
<1>5. CASE /\ q.op \in {"int", "str", "symbol"}
           /\ immediates' = Append(immediates, new)
           /\ pc' = "run" /\ native' = Idle
           /\ UNCHANGED <<operandStack, handles, plist>>
  <2>1. handles = <<>>
    BY <1>5 DEF Handled, BuilderOps
  <2>2. NativeInv' /\ HandlesInv'
    BY <1>5, <2>1, RunInv
  <2> QED
    BY <1>1, <1>2, <1>3, <1>4, <1>5, <2>2 DEF Idle
<1>6. CASE /\ q.op \in DOMAIN Taken
           /\ operandStack' = Append(Without(Taken[q.op]), new)
           /\ pc' = "run" /\ native' = Idle
           /\ UNCHANGED <<immediates, handles, plist>>
  <2>1. handles = <<>>
    <3>1. q.op \notin BuilderOps
      BY <1>6 DEF Taken, BuilderOps
    <3> QED
      BY <3>1 DEF Handled
  <2>2. NativeInv' /\ HandlesInv'
    BY <1>6, <2>1, RunInv
  <2>3. PICK n : n = Taken[q.op]
    OBVIOUS
  <2>4. n \in Nat
    BY <1>6, <2>3 DEF Taken
  <2>5. /\ operandStack' \in Seq(Refs)
        /\ ToSet(operandStack') \subseteq ToSet(operandStack) \union {new}
    BY <1>2, <1>6, <2>3, <2>4, PushedIs
  <2> QED
    BY <1>1, <1>2, <1>6, <2>2, <2>5 DEF Idle, Taken
<1>7. CASE /\ q.op \in {"variadic", "quote"}
           /\ Pushed(q, new)
           /\ UNCHANGED immediates
  <2>1. /\ operandStack' \in Seq(Refs) /\ ToSet(operandStack') \subseteq ToSet(operandStack)
        /\ handles' \in Seq(HandleType) /\ plist' \in Nat
        /\ \A h \in DOMAIN handles' : h = plist' =>
              handles'[h].val = new \/ (h \in DOMAIN handles /\ h = plist /\ handles'[h].val = handles[h].val)
        /\ NativeInv' /\ HandlesInv'
        /\ q.op = "variadic" => native'.raw = q.raw /\ handles'[1].val = handles[1].val
    BY <1>7, BuilderGoesOn
  <2>2. native'.op = q.op
    <3>1. q = [op |-> q.op, held |-> q.held, n |-> q.n, raw |-> q.raw, below |-> q.below,
               outer |-> q.outer]
      BY Zenon DEF Ready, Waiters
    <3> QED
      BY <1>7, <3>1 DEF Pushed
  <2> QED
    BY <1>2, <1>7, <2>1, <2>2 DEF Pushed
<1>8. CASE /\ q.op = "element"
           /\ immediates' = Append(immediates, new)
           /\ native' = [q EXCEPT !.op = "quote"]
           /\ pc' = "build"
           /\ UNCHANGED <<operandStack, handles, plist>>
  <2>1. q.held \in Seq(Refs) /\ q.n \in Nat /\ q.raw \in Refs /\ q.below \in Nat
        /\ q.outer \in Seq(Suspensions)
    BY WaitersHave DEF Ready
  <2>2. q = [op |-> q.op, held |-> q.held, n |-> q.n, raw |-> q.raw, below |-> q.below,
             outer |-> q.outer]
    BY Zenon DEF Ready, Waiters
  <2>3. native' = [op |-> "quote", held |-> q.held, n |-> q.n, raw |-> q.raw, below |-> q.below,
                   outer |-> q.outer]
    BY <1>8, <2>2
  <2>4. native' \in Waiters
    BY <2>1, <2>3 DEF Waiters, KindOf
  <2>5. Handled(native)'
    <3>1. Len(handles) \in {q.below, q.below + 1} /\ Nested(q)
      BY <1>8 DEF Handled
    <3>2. Nested(native)'
      BY <2>3, <3>1 DEF Nested, BelowOf
    <3> QED
      BY <1>1, <1>8, <2>3, <3>1, <3>2 DEF Handled, BuilderOps
  <2>6. NativeInv'
    BY <1>8, <2>3, <2>4, <2>5 DEF NativeInv
  <2>7. HandlesInv'
    BY <1>1, <1>8 DEF HandlesInv, HeadDestroyed
  <2> QED
    BY <1>1, <1>2, <1>3, <1>4, <1>8, <2>3, <2>6, <2>7
<1> QED
  BY <1>5, <1>6, <1>7, <1>8 DEF Returned

\* An object is constructed.
LEMMA ConstructRefs ==
  ASSUME RefInv, HeapInv, GoingOn, NEW q, q.op \in Creations, Ready(q), Handled(q), Fits(q),
         Construct(q)
  PROVE  RefInv'
<1>1. CASE \E f \in {"stale", "handle"} : Stop(f)
  BY <1>1, StopInv
<1>2. CASE ~\E f \in {"stale", "handle"} : Stop(f)
  <2>1. PICK new : new = New
    OBVIOUS
  <2>0. PICK at : at = end
    OBVIOUS
  <2>2. /\ ~Stale(q)
        /\ q.op = "quote" /\ ~Started(q) => ~HeadDestroyed
        /\ Grown(q, new)
        /\ end' = end + Size[KindOf[q.op]]
        /\ Returned(q, new)
        /\ UNCHANGED <<frames, callStack, charMarks, grey, index, gone, breaks,
                       collapse, frameSet, fault>>
    BY <1>2, <2>1, Zenon DEF Construct, Returned, Pushed, Grown
  <2>3. /\ end \notin DOMAIN mem /\ DOMAIN mem' = DOMAIN mem \union {end}
        /\ new \in Refs /\ ~IsChar(new) /\ new.at = end /\ new.id \notin Ids /\ new.id # 0
        /\ end + Size[KindOf[q.op]] \in Addresses
    BY <2>1, <2>2, MemoryGrows
  <2>4. \A a \in DOMAIN mem :
              /\ mem'[a] \in ObjectType /\ mem'[a].kind = mem[a].kind /\ mem'[a].id = mem[a].id
              /\ mem'[a].marked = mem[a].marked /\ mem'[a].env = mem[a].env
              /\ ToSet(mem'[a].refs) \subseteq ToSet(mem[a].refs) \union {new}
              /\ mem[a].refs = <<>> => mem'[a].refs = <<>>
    BY <2>1, <2>2, MemoryGrows
  <2>5. /\ mem'[end] \in ObjectType /\ mem'[end].id = new.id /\ ~mem'[end].marked
        /\ mem'[end].refs = Given(q) /\ mem'[end].env = ConstructedEnv(q)
        /\ mem'[end].kind = "str" => mem'[end].refs = <<>> /\ mem'[end].env = 0
    BY <2>1, <2>2, MemoryGrows
  <2>6. /\ immediates' \in Seq(Refs) /\ ToSet(immediates') \subseteq ToSet(immediates) \union {new}
        /\ operandStack' \in Seq(Refs) /\ ToSet(operandStack') \subseteq ToSet(operandStack) \union {new}
        /\ handles' \in Seq(HandleType) /\ plist' \in Nat
        /\ \A h \in DOMAIN handles' : h = plist' =>
              handles'[h].val = new \/ (h \in DOMAIN handles /\ h = plist /\ handles'[h].val = handles[h].val)
        /\ NativeInv' /\ HandlesInv' /\ pc' \in {"run", "build"}
    BY <2>2, <2>3, ReturnedRefs
  <2>7. TypeOK /\ IdsInv /\ RestInv /\ Unmarked /\ AtRest
    BY DEF RefInv, GoingOn, AtRest
  <2>8. TypeOK'
    <3>1. DOMAIN mem' \subseteq Addresses
      BY <2>3, <2>7 DEF TypeOK
    <3>2. \A a \in DOMAIN mem' :
            mem'[a] \in [kind : Kinds, id : Nat, marked : BOOLEAN, refs : Seq(Refs),
                         env : Environments \union {0}]
      BY <2>3, <2>4, <2>5 DEF ObjectType
    <3>3. end' \in Addresses
      BY <2>2, <2>3
    <3> QED
      BY <2>2, <2>6, <2>7, <3>1, <3>2, <3>3 DEF TypeOK, HandleType
  <2>9. /\ \A a \in DOMAIN mem : mem[a].id \in Ids
        /\ \A r \in Variables : r.id \in Ids
    BY IdsHave
  <2>10. IdsInv'
    <3>1. \A a, b \in DOMAIN mem' : mem'[a].id = mem'[b].id => a = b
      BY <2>3, <2>4, <2>5, <2>7, <2>9 DEF IdsInv
    <3>2. \A a \in DOMAIN mem' : mem'[a].id # 0
      BY <2>3, <2>4, <2>5, <2>7 DEF IdsInv
    <3>3. \A a \in DOMAIN mem' : mem'[a].kind = "str" => mem'[a].refs = <<>> /\ mem'[a].env = 0
      BY <2>3, <2>4, <2>5, <2>7 DEF IdsInv
    <3>4. IsFiniteSet(charMarks')
      BY <2>2, <2>7 DEF IdsInv
    <3> QED
      BY <3>1, <3>2, <3>3, <3>4 DEF IdsInv
  <2>11. Unmarked'
    <3>1. \A a \in DOMAIN mem : ~mem[a].marked
      BY <2>7 DEF Unmarked, GoingOn
    <3>2. \A a \in DOMAIN mem' : ~mem'[a].marked
      BY <2>3, <2>4, <2>5, <3>1
    <3> QED
      BY <3>2 DEF Unmarked
  <2>12. \A r : Valid(r) => Valid(r)'
    BY <2>3, <2>4 DEF Valid
  <2>13. Valid(new)'
    BY <2>3, <2>5 DEF Valid
  <2>14. \A r \in Variables : Gone(r) => Gone(r)'
    BY <2>3, <2>4, <2>5, <2>9 DEF Gone
  <2>15. StackSet' = StackSet /\ Variables' = Variables /\ \A e : EnvSet(e)' = EnvSet(e)
    BY <2>2 DEF StackSet, Variables, EnvSet
  <2>16. HandleSet' \subseteq HandleSet \union {new}
    BY <2>6 DEF HandleSet
  <2>17. RootSet' \subseteq RootSet \union {new}
    BY <2>6, <2>15, <2>16 DEF RootSet
  <2>18. \A a \in DOMAIN mem : ChildSet(mem[a])' \subseteq ChildSet(mem[a]) \union {new}
    BY <2>4, <2>15 DEF ChildSet
  <2>19. \A r \in ChildSet(mem[at])' : Valid(r)
    <3>1. \A r \in ToSet(Given(q)) : Valid(r)
      BY <2>2 DEF Stale, ToSet
    <3>2. \A r \in EnvSet(ConstructedEnv(q)) : Valid(r)
      <4>1. CASE ConstructedEnv(q) = 0
        BY <4>1 DEF EnvSet
      <4>2. CASE ConstructedEnv(q) # 0
        <5>1. ConstructedEnv(q) = Env
          BY <4>2 DEF ConstructedEnv
        <5>2. /\ Len(callStack) \in DOMAIN callStack /\ Env = callStack[Len(callStack)]
          BY <2>7, StackTypes
        <5>3. EnvSet(ConstructedEnv(q)) \subseteq StackSet
          BY <4>2, <5>1, <5>2 DEF EnvSet, StackSet
        <5> QED
          BY <2>7, <5>3 DEF RestInv, RootSet
      <4> QED
        BY <4>1, <4>2
    <3>3. PICK env : env = ConstructedEnv(q)
      OBVIOUS
    <3>4. ChildSet(mem[at])' = ToSet(Given(q)) \union EnvSet(ConstructedEnv(q))
      <4>1. EnvSet(env)' = EnvSet(env)
        BY <2>15
      <4> QED
        BY <2>0, <2>5, <3>3, <4>1 DEF ChildSet
    <3> QED
      BY <3>1, <3>2, <3>4
  <2>20. RestInv'
    <3>1. \A r \in RootSet' : Valid(r)'
      BY <2>7, <2>12, <2>13, <2>17 DEF RestInv
    <3>2. ASSUME NEW a \in DOMAIN mem', NEW r \in ChildSet(mem[a])'
          PROVE  Valid(r)'
      <4>1. CASE a = end
        BY <2>0, <2>12, <2>19, <3>2, <4>1
      <4>2. CASE a # end
        BY <2>3, <2>7, <2>12, <2>13, <2>18, <3>2, <4>2 DEF RestInv
      <4> QED
        BY <4>1, <4>2
    <3>3. \A r \in Variables' : Valid(r)' \/ Gone(r)'
      BY <2>7, <2>12, <2>14, <2>15 DEF RestInv
    <3> QED
      BY <3>1, <3>2, <3>3 DEF RestInv
  <2>21. pc' \in Awake
    BY <2>6 DEF Awake
  <2> QED
    BY <2>6, <2>8, <2>10, <2>11, <2>20, <2>21, AwakeInv
<1> QED
  BY <1>1, <1>2

\* What create is called with.
LEMMA CreateRefs ==
  ASSUME RefInv, HeapInv, GoingOn, NEW q, q.op \in Creations, Ready(q), Handled(q), Create(q)
  PROVE  RefInv'
<1>1. CASE Fits(q)
  BY <1>1, ConstructRefs DEF Create
<1>2. CASE ~Fits(q)
  <2>1. q.op # "none"
    BY DEF Creations, KindOf
  <2> QED
    BY <1>2, <2>1, CollectRefs DEF Create
<1> QED
  BY <1>1, <1>2

\* create tries a second time when the collector has run, and gives up then.
LEMMA CreateAgainRefs ==
  ASSUME RefInv, HeapInv, CreateAgain
  PROVE  RefInv'
<1>1. pc = "collected" /\ native.op \in Creations
  BY DEF CreateAgain, Creations
<1>2. GoingOn /\ Ready(native) /\ Handled(native)
  BY <1>1 DEF GoingOn, RefInv, NativeInv
<1>3. CASE Fits(native)
  BY <1>1, <1>2, <1>3, ConstructRefs DEF CreateAgain
<1>4. CASE ~Fits(native)
  <2>1. /\ pc' = "oom"
        /\ UNCHANGED <<mem, end, frames, callStack, immediates, operandStack, handles, plist,
                       charMarks, native, grey, index, gone, breaks, collapse, frameSet, fault>>
    BY <1>4 DEF CreateAgain, heap, roots, locals
  <2>2. TypeOK /\ NativeInv /\ HandlesInv
    BY DEF RefInv
  <2>3. /\ frames \in [Environments -> [parent : Environments \union {0}, vars : Seq(Refs)]]
        /\ callStack \in Seq(Environments) /\ callStack # <<>>
        /\ immediates \in Seq(Refs) /\ operandStack \in Seq(Refs)
        /\ \A i \in DOMAIN callStack : \A r \in ToSet(frames[callStack[i]].vars) : Valid(r)
    BY <1>2, FramesStay
  <2>4. \A r \in ToSet(immediates) \union ToSet(operandStack) : Valid(r)
    BY <1>2, AtHand
  <2>5. NativeInv'
    <3>1. Handled(native)'
      BY <1>2, <2>1 DEF Handled, Nested, BelowOf
    <3> QED
      BY <2>1, <2>2, <3>1 DEF NativeInv
  <2>6. HandlesInv'
    BY <2>1, <2>2 DEF HandlesInv, HeadDestroyed
  <2>7. \A h \in DOMAIN handles' : h = plist' => Valid(handles'[h].val)
    BY <1>2, <2>1, AtHand
  <2>8. pc' \in Awake /\ fault' \in {"none", "dangling", "stale", "handle", "shifted"}
    BY <2>1, <2>2 DEF Awake, TypeOK
  <2>9. handles' \in Seq([val : Refs, prev : Nat, next : Nat]) /\ plist' \in Nat
    BY <2>1, <2>2 DEF TypeOK
  <2> QED
    BY <1>2, <2>1, <2>3, <2>4, <2>5, <2>6, <2>7, <2>8, <2>9, MemoryStays
<1> QED
  BY <1>3, <1>4

\* A creation by the program itself, for which it passes nothing or references
\* that it has at hand.
LEMMA FreshIsReady ==
  ASSUME RefInv, pc = "run", NEW op \in Creations \union {"collect"}, op \notin BuilderOps,
         NEW held \in Seq(Refs), NEW n \in Nat,
         op = "cons" => Len(operandStack) >= 2,
         op = "documented" => n \in DOMAIN immediates,
         op \in {"str", "string"} => held = <<>>,
         NEW q, q = [op |-> op, held |-> held, n |-> n, raw |-> NullRef, below |-> 0,
                     outer |-> <<>>]
  PROVE  /\ GoingOn /\ Ready(q) /\ Handled(q) /\ q.op = op
<1>1. NullRef \in Refs
  <2>1. 0 \in Addresses
    BY SizeAssumption DEF Addresses
  <2> QED
    BY <2>1 DEF NullRef, Refs
<1>2. q \in Waiters
  <2>1. <<>> \in Seq(Suspensions)
    OBVIOUS
  <2> QED
    BY <1>1, <2>1 DEF Waiters, Creations
<1>3. q.op = op /\ q.held = held /\ q.n = n
  OBVIOUS
<1> HIDE DEF Waiters
<1>4. Ready(q)
  BY <1>2, <1>3 DEF Ready
<1>5. handles = <<>>
  BY RunHandles DEF RefInv
<1>6. Handled(q)
  BY <1>3, <1>5 DEF Handled, BuilderOps
<1> QED
  BY <1>3, <1>4, <1>6 DEF GoingOn

\* Literals and strings keep the invariant.
LEMMA LiteralRefs ==
  ASSUME RefInv, HeapInv, Literal \/ MakeString
  PROVE  RefInv'
<1>1. \/ \E op \in {"int", "str", "string"} : Running(op) /\ Create([Idle EXCEPT !.op = op])
      \/ \E str \in Strings : /\ Running("symbol")
                              /\ Create([Idle EXCEPT !.op = "symbol", !.held = <<str>>])
  BY DEF Literal, MakeString
<1>2. pc = "run" /\ <<>> \in Seq(Refs)
  <2>1. Running("int") \/ Running("str") \/ Running("symbol") \/ Running("string")
    BY Zenon DEF Literal, MakeString
  <2> QED
    BY <2>1 DEF Running
<1>3. ASSUME NEW op \in {"int", "str", "string"}, Create([Idle EXCEPT !.op = op])
      PROVE  RefInv'
  <2>0. PICK q : q = [Idle EXCEPT !.op = op]
    OBVIOUS
  <2>1. q = [op |-> op, held |-> <<>>, n |-> 0, raw |-> NullRef, below |-> 0, outer |-> <<>>]
    BY <2>0 DEF Idle
  <2>2. op \in Creations /\ op \notin BuilderOps
    BY DEF Creations, KindOf, BuilderOps
  <2>3. GoingOn /\ Ready(q) /\ Handled(q) /\ q.op = op
    BY <1>2, <2>1, <2>2, FreshIsReady
  <2> QED
    BY <1>3, <2>0, <2>2, <2>3, CreateRefs
<1>4. ASSUME NEW str \in Strings, Create([Idle EXCEPT !.op = "symbol", !.held = <<str>>])
      PROVE  RefInv'
  <2>1. PICK q : q = [Idle EXCEPT !.op = "symbol", !.held = <<str>>]
    OBVIOUS
  <2>2. q = [op |-> "symbol", held |-> <<str>>, n |-> 0, raw |-> NullRef, below |-> 0, outer |-> <<>>]
    BY <2>1 DEF Idle
  <2>3. "symbol" \in Creations /\ "symbol" \notin BuilderOps
    BY DEF Creations, KindOf, BuilderOps
  <2>4. str \in Refs
    BY <1>2, AtHand DEF Strings, GoingOn
  <2>5. <<str>> \in Seq(Refs)
    BY <2>4
  <2>6. GoingOn /\ Ready(q) /\ Handled(q) /\ q.op = "symbol"
    <3>1. PICK held : held = <<str>>
      OBVIOUS
    <3>2. q = [op |-> "symbol", held |-> held, n |-> 0, raw |-> NullRef, below |-> 0, outer |-> <<>>] /\ held \in Seq(Refs)
      BY <2>2, <2>5, <3>1
    <3>3. 0 \in Nat /\ "symbol" \notin {"cons", "documented", "str", "string"}
      OBVIOUS
    <3> QED
      BY <1>2, <2>3, <3>2, <3>3, FreshIsReady
  <2> QED
    BY <1>4, <2>1, <2>3, <2>6, CreateRefs
<1> QED
  BY <1>1, <1>3, <1>4

\* Pairs, boxes, functions and calls of the collector keep the invariant.
LEMMA MakeRefs ==
  ASSUME RefInv, HeapInv, MakePair \/ MakeBox \/ MakeLambda \/ CollectGarbage
  PROVE  RefInv'
<1>1. pc = "run" /\ GoingOn
  BY DEF MakePair, MakeBox, MakeLambda, CollectGarbage, Running, GoingOn
<1>2. /\ operandStack \in Seq(Refs) /\ immediates \in Seq(Refs)
      /\ <<>> \in Seq(Refs) /\ NullRef \in Refs /\ 0 \in Nat
  BY <1>1, AtHand DEF RefInv, TypeOK
<1>3. CASE MakePair
  <2>1. CASE Create([Idle EXCEPT !.op = "cons"])
    <3>1. PICK q : q = [Idle EXCEPT !.op = "cons"]
      OBVIOUS
    <3>2. q = [op |-> "cons", held |-> <<>>, n |-> 0, raw |-> NullRef, below |-> 0, outer |-> <<>>]
      BY <3>1 DEF Idle
    <3>3. "cons" \in Creations /\ "cons" \notin BuilderOps
      BY DEF Creations, KindOf, BuilderOps
    <3>4. Len(operandStack) >= 2
      BY <1>3 DEF MakePair
    <3>5. Ready(q) /\ Handled(q) /\ q.op = "cons"
      BY <1>1, <1>2, <3>2, <3>3, <3>4, FreshIsReady
    <3> QED
      BY <1>1, <2>1, <3>1, <3>3, <3>5, CreateRefs
  <2>2. CASE Create([Idle EXCEPT !.op = "consBuiltin",
                       !.held = <<operandStack[Len(operandStack) - 1], Top>>])
    <3>1. PICK q : q = [Idle EXCEPT !.op = "consBuiltin",
                       !.held = <<operandStack[Len(operandStack) - 1], Top>>]
      OBVIOUS
    <3>2. PICK held : held = <<operandStack[Len(operandStack) - 1], Top>>
      OBVIOUS
    <3>3. q = [op |-> "consBuiltin", held |-> held, n |-> 0, raw |-> NullRef, below |-> 0, outer |-> <<>>]
      BY <3>1, <3>2 DEF Idle
    <3>4. held \in Seq(Refs)
      <4>1. Len(operandStack) >= 2 /\ operandStack # <<>>
        BY <1>2, <1>3, ElementsOf DEF MakePair
      <4>2. Top \in Refs
        BY <1>1, <4>1, AtHand
      <4>3. operandStack[Len(operandStack) - 1] \in Refs
        BY <1>2, <4>1
      <4> QED
        BY <3>2, <4>2, <4>3
    <3>5. "consBuiltin" \in Creations /\ "consBuiltin" \notin BuilderOps
      BY DEF Creations, KindOf, BuilderOps
    <3>6. Ready(q) /\ Handled(q) /\ q.op = "consBuiltin"
      BY <1>1, <1>2, <3>3, <3>4, <3>5, FreshIsReady
    <3> QED
      BY <1>1, <2>2, <3>1, <3>5, <3>6, CreateRefs
  <2> QED
    BY <1>3, <2>1, <2>2 DEF MakePair
<1>4. CASE MakeBox
  <2>1. PICK q : q = [Idle EXCEPT !.op = "box", !.held = <<Top>>]
    OBVIOUS
  <2>2. PICK top : top = Top
    OBVIOUS
  <2>3. q = [op |-> "box", held |-> <<top>>, n |-> 0, raw |-> NullRef, below |-> 0, outer |-> <<>>]
    BY <2>1, <2>2 DEF Idle
  <2>4. operandStack # <<>> /\ Create(q)
    BY <1>4, <2>1 DEF MakeBox
  <2>5. top \in Refs
    BY <1>1, <2>2, <2>4, AtHand
  <2>6. <<top>> \in Seq(Refs)
    BY <2>5
  <2>7. "box" \in Creations /\ "box" \notin BuilderOps
    BY DEF Creations, KindOf, BuilderOps
  <2>8. Ready(q) /\ Handled(q) /\ q.op = "box"
    BY <1>1, <1>2, <2>3, <2>6, <2>7, FreshIsReady
  <2> QED
    BY <1>1, <2>4, <2>7, <2>8, CreateRefs
<1>5. CASE MakeLambda
  <2>1. CASE \E op \in {"lambda", "variadicLambda"} :
                Running(op) /\ Create([Idle EXCEPT !.op = op, !.held = <<NullRef>>])
    <3>1. PICK op \in {"lambda", "variadicLambda"} : Create([Idle EXCEPT !.op = op, !.held = <<NullRef>>])
      BY <2>1
    <3>2. PICK q : q = [Idle EXCEPT !.op = op, !.held = <<NullRef>>]
      OBVIOUS
    <3>3. q = [op |-> op, held |-> <<NullRef>>, n |-> 0, raw |-> NullRef, below |-> 0, outer |-> <<>>]
      BY <3>2 DEF Idle
    <3>4. <<NullRef>> \in Seq(Refs)
      BY <1>2
    <3>5. op \in Creations /\ op \notin BuilderOps
      BY DEF Creations, KindOf, BuilderOps
    <3>6. Ready(q) /\ Handled(q) /\ q.op = op
      BY <1>1, <1>2, <3>3, <3>4, <3>5, FreshIsReady
    <3> QED
      BY <1>1, <3>1, <3>2, <3>5, <3>6, CreateRefs
  <2>2. CASE \E i \in DOMAIN immediates :
                /\ Running("documented") /\ immediates[i] \in Strings
                /\ Create([Idle EXCEPT !.op = "documented", !.n = i])
    <3>1. PICK i \in DOMAIN immediates : Create([Idle EXCEPT !.op = "documented", !.n = i])
      BY <2>2
    <3>2. PICK q : q = [Idle EXCEPT !.op = "documented", !.n = i]
      OBVIOUS
    <3>3. q = [op |-> "documented", held |-> <<>>, n |-> i, raw |-> NullRef, below |-> 0, outer |-> <<>>]
      BY <3>2 DEF Idle
    <3>4. i \in Nat
      BY <1>2, ElementsOf
    <3>5. "documented" \in Creations /\ "documented" \notin BuilderOps
      BY DEF Creations, KindOf, BuilderOps
    <3>6. Ready(q) /\ Handled(q) /\ q.op = "documented"
      BY <1>1, <1>2, <3>3, <3>4, <3>5, FreshIsReady
    <3> QED
      BY <1>1, <3>1, <3>2, <3>5, <3>6, CreateRefs
  <2> QED
    BY <1>5, <2>1, <2>2 DEF MakeLambda
<1>6. CASE CollectGarbage
  <2>1. PICK q : q = [Idle EXCEPT !.op = "collect"]
    OBVIOUS
  <2>2. q = [op |-> "collect", held |-> <<>>, n |-> 0, raw |-> NullRef, below |-> 0, outer |-> <<>>]
    BY <2>1 DEF Idle
  <2>3. "collect" \notin BuilderOps
    BY DEF BuilderOps
  <2>4. Ready(q) /\ Handled(q) /\ q.op = "collect"
    BY <1>1, <1>2, <2>2, <2>3, FreshIsReady
  <2>5. Collect(q)
    BY <1>6, <2>1 DEF CollectGarbage
  <2> QED
    BY <1>1, <2>4, <2>5, CollectRefs
<1> QED
  BY <1>3, <1>4, <1>5, <1>6

\* What a builder makes its next pair of, or its next literal, is at hand.
Building(q) ==
  /\ q.op \in BuilderOps /\ q.op \in Creations /\ Ready(q) /\ Handled(q) /\ Create(q)
  /\ \A i \in DOMAIN q.held : Valid(q.held[i])
  /\ q.raw = native.raw /\ q.below = native.below /\ (q.op = "variadic" => Valid(q.raw))
  /\ \/ native.op = "quote" /\ q.op = "element" /\ q.held = <<>>
     \/ native.op = q.op

SomethingBuilt == \E q : Building(q)

LEMMA BuilderCreates ==
  ASSUME RefInv, Element \/ Push
  PROVE  GoingOn /\ pc = "build" /\ SomethingBuilt
<1>1. /\ pc = "build" /\ native.n > 0 /\ native.op \in {"variadic", "quote"}
      /\ GoingOn /\ TypeOK /\ Handled(native) /\ native \in Waiters
  BY DEF Element, Push, GoingOn, RefInv, NativeInv
<1>2. native.n \in Nat /\ native.raw \in Refs /\ native.below \in Nat
      /\ native.outer \in Seq(Suspensions)
  BY <1>1, WaitersHave
<1>3. /\ operandStack \in Seq(Refs) /\ immediates \in Seq(Refs) /\ NullRef \in Refs
      /\ handles = <<>> <=> Len(handles) = 0
  BY <1>1, AtHand, BuilderHandles DEF TypeOK
<1>4. PICK op, held, q :
        /\ op \in BuilderOps /\ q = Waiting(op, held) /\ Create(q)
        /\ \/ native.op = "quote" /\ op = "element" /\ held = <<>>
           \/ /\ native.op = "quote" /\ op = "quote"
              /\ \E element \in ToSet(immediates) : held = <<element, NullRef>>
           \/ /\ native.op = "variadic" /\ op = "variadic" /\ Valid(native.raw)
              /\ held = <<Top, IF Started(native) THEN handles[2].val ELSE NullRef>>
  BY DEF Element, Push, BuilderOps
<1>5. held \in Seq(Refs) /\ \A i \in DOMAIN held : Valid(held[i])
  <2>1. CASE native.op = "quote" /\ op = "element" /\ held = <<>>
    BY <2>1
  <2>2. CASE \E element \in ToSet(immediates) : held = <<element, NullRef>>
    <3>1. PICK element \in ToSet(immediates) : held = <<element, NullRef>>
      BY <2>2
    <3>2. element \in Refs /\ Valid(element) /\ Valid(NullRef)
      BY <1>1, AtHand
    <3>3. DOMAIN held = {1, 2} /\ held[1] = element /\ held[2] = NullRef
      BY <3>1
    <3> QED
      BY <1>3, <3>1, <3>2, <3>3
  <2>3. CASE /\ native.op = "variadic" /\ op = "variadic"
             /\ held = <<Top, IF Started(native) THEN handles[2].val ELSE NullRef>>
    <3>1. PICK first : first = Top
      OBVIOUS
    <3>2. PICK second : second = IF Started(native) THEN handles[2].val ELSE NullRef
      OBVIOUS
    <3>3. first \in Refs /\ Valid(first)
      <4>1. native.n <= Len(operandStack)
        BY <1>1, <2>3 DEF Handled
      <4>2. operandStack # <<>>
        BY <1>1, <1>2, <1>3, <4>1, ElementsOf
      <4> QED
        BY <1>1, <3>1, <4>2, AtHand
    <3>4. second \in Refs /\ Valid(second)
      <4>1. CASE Started(native)
        <5>1. Len(handles) = 2 /\ plist = 2
          <6>1. native.below = 1 /\ Len(handles) \in {1, 2} /\ plist = Len(handles)
            BY <1>1, <2>3 DEF Handled
          <6>2. PICK k : k = Len(handles)
            OBVIOUS
          <6>3. k > 1 /\ k \in {1, 2}
            BY <4>1, <6>1, <6>2 DEF Started
          <6> QED
            BY <6>1, <6>2, <6>3
        <5>2. 2 \in DOMAIN handles /\ plist = 2
          BY <1>1, <5>1, BuilderHandles
        <5>3. Valid(handles[2].val)
          BY <1>1, <5>2, AtHand
        <5> QED
          BY <1>1, <3>2, <4>1, <5>2, <5>3, HandleTypes
      <4>2. CASE ~Started(native)
        <5>1. Valid(NullRef)
          BY <1>1, AtHand
        <5> QED
          BY <1>3, <3>2, <4>2, <5>1
      <4> QED
        BY <4>1, <4>2
    <3>5. held = <<first, second>>
      BY <2>3, <3>1, <3>2
    <3>6. DOMAIN held = {1, 2} /\ held[1] = first /\ held[2] = second
      BY <3>5
    <3> QED
      BY <3>3, <3>4, <3>5, <3>6
  <2> QED
    BY <1>4, <2>1, <2>2, <2>3
<1>6. q = [op |-> op, held |-> held, n |-> native.n, raw |-> native.raw,
           below |-> native.below, outer |-> native.outer]
  BY <1>4 DEF Waiting
<1>7. q \in Waiters /\ q.op = op /\ q.n = native.n /\ q.held = held /\ q.raw = native.raw
      /\ q.below = native.below /\ q.outer = native.outer
  BY <1>2, <1>4, <1>5, <1>6 DEF Waiters, BuilderOps, KindOf
<1>8. op \in Creations
  BY <1>4 DEF BuilderOps, Creations, KindOf
<1>9. Ready(q)
  BY <1>1, <1>4, <1>7 DEF Ready, BuilderOps
<1>10. Handled(q)
  <2>1. CASE native.op = "quote"
    <3>1. op \in {"quote", "element"} /\ Len(handles) \in {native.below, native.below + 1}
          /\ Nested(native)
      BY <1>1, <1>4, <2>1 DEF Handled
    <3>2. Nested(q)
      BY <1>7, <3>1 DEF Nested, BelowOf
    <3> QED
      BY <1>7, <3>1, <3>2 DEF Handled, BuilderOps
  <2>2. CASE native.op = "variadic"
    <3>1. op = "variadic"
      BY <1>4, <2>2
    <3> QED
      BY <1>1, <1>7, <2>2, <3>1 DEF Handled, BuilderOps
  <2> QED
    BY <1>1, <2>1, <2>2
<1>11. Building(q)
  BY <1>4, <1>5, <1>7, <1>8, <1>9, <1>10 DEF Building
<1> QED
  BY <1>1, <1>11 DEF SomethingBuilt

\* A list builder goes on.
LEMMA BuildRefs ==
  ASSUME RefInv, HeapInv, Element \/ Push
  PROVE  RefInv'
<1>1. GoingOn /\ \E q : Building(q)
  BY BuilderCreates DEF SomethingBuilt
<1> QED
  BY <1>1, CreateRefs DEF Building

----------------------------------------------------------------------------------------
(* All steps. *)

\* The initial states satisfy the invariant.
LEMMA InitRefs == Init => RefInv
<1> SUFFICES ASSUME Init PROVE RefInv
  OBVIOUS
<1>1. /\ DOMAIN mem = {0} /\ end = Size["null"]
      /\ mem[0] = [kind |-> "null", id |-> 1, marked |-> FALSE, refs |-> <<>>, env |-> 0]
      /\ frames = [e \in Environments |-> Free]
      /\ callStack = <<TopLevel>>
      /\ immediates = <<>> /\ operandStack = <<>>
      /\ handles = <<>> /\ plist = 0 /\ charMarks = {} /\ pc = "run" /\ native = Idle
      /\ grey = <<>> /\ index = 0 /\ gone = 0 /\ breaks = <<>> /\ collapse = FALSE
      /\ frameSet = {} /\ fault = "none"
  BY DEF Init
<1>2. /\ "null" \in Kinds /\ end \in Addresses /\ 0 \in Addresses
  BY <1>1, SizeAssumption DEF Kinds, Addresses
<1>3. /\ <<>> \in Seq(Refs) /\ <<>> \in Seq([val : Refs, prev : Nat, next : Nat])
      /\ <<>> \in Seq([at : Addresses, size : Nat])
  OBVIOUS
<1>4. callStack \in Seq(Environments) /\ callStack # <<>>
  BY <1>1, SizeAssumption DEF TopLevel
<1>5. Free \in [parent : Environments \union {0}, vars : Seq(Refs)] /\ Free.vars = <<>>
  BY <1>3 DEF Free
<1>6. mem[0] \in [kind : Kinds, id : Nat, marked : BOOLEAN, refs : Seq(Refs),
                  env : Environments \union {0}]
  BY <1>1, <1>2, <1>3
<1>7. TypeOK
  <2>1. \A a \in DOMAIN mem :
          mem[a] \in [kind : Kinds, id : Nat, marked : BOOLEAN, refs : Seq(Refs),
                      env : Environments \union {0}]
    BY <1>1, <1>6
  <2>2. DOMAIN mem \subseteq Addresses
    BY <1>1, <1>2
  <2>3. frames \in [Environments -> [parent : Environments \union {0}, vars : Seq(Refs)]]
    BY <1>1, <1>5
  <2> QED
    BY <1>1, <1>2, <1>3, <1>4, <2>1, <2>2, <2>3 DEF TypeOK
<1>8. NativeInv /\ HandlesInv
  <2>1. NullRef \in Refs /\ <<>> \in Seq(Suspensions)
    BY <1>2 DEF NullRef, Refs
  <2>2. Idle \in Waiters
    BY <1>3, <2>1 DEF Idle, Waiters
  <2>3. Handled(native)
    BY <1>1 DEF Handled, BuilderOps, Idle
  <2> QED
    BY <1>1, <2>2, <2>3 DEF NativeInv, HandlesInv
<1>9. IdsInv
  <2>1. IsFiniteSet(charMarks)
    BY <1>1, FS_EmptySet
  <2> QED
    BY <1>1, <2>1 DEF IdsInv
<1>10. Variables = {}
  BY <1>1, <1>5, ToSetEmpty DEF Variables
<1>11. StackSet = {} /\ \A e \in Environments \union {0} : EnvSet(e) = {}
  BY <1>7, <1>10, RootTypes
<1>12. HandleSet = {}
  BY <1>1 DEF HandleSet
<1>13. RootSet = {NullRef}
  BY <1>1, <1>11, <1>12, ToSetEmpty DEF RootSet
<1>14. \A a \in DOMAIN mem : ChildSet(mem[a]) = {}
  BY <1>1, <1>11, ToSetEmpty DEF ChildSet
<1>15. Valid(NullRef)
  BY <1>1 DEF Valid, NullRef
<1>16. RestInv /\ Unmarked
  BY <1>1, <1>10, <1>13, <1>14, <1>15 DEF RestInv, Unmarked
<1>17. MarkInv /\ SlidingInv /\ InternalInv /\ ReachedInv
  BY <1>1 DEF MarkInv, SlidingInv, InternalInv, ReachedInv
<1> QED
  BY <1>7, <1>8, <1>9, <1>16, <1>17 DEF RefInv

\* The steps of the collector keep the invariant.
LEMMA CollectingRefs ==
  ASSUME RefInv, HeapInv, HeapInv', Collecting
  PROVE  RefInv'
<1>1. CASE MarkValue
  BY <1>1, MarkValueInv
<1>2. CASE Marked
  BY <1>2, MarkEnds
<1>3. CASE Slide
  BY <1>3, SlideRefs
<1>4. CASE Slid
  BY <1>4, SlideEnds
<1>5. CASE RemapInternal
  BY <1>5, RemapInternalInv
<1>6. CASE RemapRoots
  BY <1>6, RemapRootsInv
<1>7. CASE LoseCharacter
  <2>1. Stop("shifted")
    BY <1>7 DEF LoseCharacter
  <2> QED
    BY <2>1, StopInv
<1> QED
  BY <1>1, <1>2, <1>3, <1>4, <1>5, <1>6, <1>7 DEF Collecting

\* So do the steps of the program.
LEMMA ComputingRefs ==
  ASSUME RefInv, HeapInv, FnInv, Computing
  PROVE  RefInv'
<1>1. CASE PushConstant \/ Discard \/ Take \/ Get \/ Load \/ Collected
  BY <1>1, OperandSteps
<1>2. CASE Store \/ Rebind \/ Recur \/ EnterLet \/ Call \/ Leave
  BY <1>2, EnvironmentSteps
<1>3. CASE SetBox
  BY <1>3, SetBoxRefs
<1>4. CASE Literal \/ MakeString
  BY <1>4, LiteralRefs
<1>5. CASE MakePair \/ MakeBox \/ MakeLambda \/ CollectGarbage
  BY <1>5, MakeRefs
<1>6. CASE CreateAgain
  BY <1>6, CreateAgainRefs
<1>7. CASE VariadicCall \/ Quote
  BY <1>7, BuildersStart
<1>8. CASE Element \/ Push
  BY <1>8, BuildRefs
<1>9. CASE QuoteWithin \/ Quoted \/ FnLost
  BY <1>9, QuotedRefs
<1>10. CASE Called
  BY <1>10, CalledRefs
<1> QED
  BY <1>1, <1>2, <1>3, <1>4, <1>5, <1>6, <1>7, <1>8, <1>9, <1>10 DEF Computing

\* A call that is not at work on anything stays as it is.
LEMMA FnStays ==
  ASSUME FnInv, UNCHANGED <<mem, handles, pc, native>>
  PROVE  FnInv'
<1>1. PICK q : q = native
  OBVIOUS
<1>2. (Valid(q)' <=> Valid(q)) /\ (Valid(q.raw)' <=> Valid(q.raw)) /\ (IsChar(q.raw)' <=> IsChar(q.raw))
  BY DEF Valid, IsChar
<1> QED
  BY <1>1, <1>2 DEF FnInv

\* A new object does not get to where fn points, as fn's number is not given to it.
LEMMA ConstructFn ==
  ASSUME RefInv, HeapInv, FnInv, GoingOn, NEW q, q.op \in Creations, Ready(q), Handled(q),
         Fits(q), Construct(q),
         q.op = "variadic" => native.op = "variadic" /\ q.raw = native.raw
  PROVE  FnInv'
<1>1. CASE \E f \in {"stale", "handle"} : Stop(f)
  <2>1. UNCHANGED <<mem, handles, pc, native>>
    BY <1>1 DEF Stop, heap, roots
  <2> QED
    BY <2>1, FnStays
<1>2. CASE ~\E f \in {"stale", "handle"} : Stop(f)
  <2>1. PICK new : new = New
    OBVIOUS
  <2>2. /\ q.op = "quote" /\ ~Started(q) => ~HeadDestroyed
        /\ Grown(q, new)
        /\ Returned(q, new)
    BY <1>2, <2>1, Zenon DEF Construct, Returned, Pushed, Grown
  <2>3. /\ end \notin DOMAIN mem /\ DOMAIN mem' = DOMAIN mem \union {end}
        /\ new \in Refs /\ ~IsChar(new) /\ new.id \notin Ids
        /\ \A a \in DOMAIN mem : mem'[a].id = mem[a].id
        /\ mem'[end].id = new.id
    BY <2>1, <2>2, MemoryGrows
  <2>4. /\ q.op = "variadic" => native'.raw = q.raw /\ handles'[1].val = handles[1].val
        /\ q.op # "variadic" => native'.op # "variadic"
        /\ pc' \in {"run", "build"} /\ NativeInv'
    BY <2>2, <2>3, ReturnedRefs
  <2> SUFFICES ASSUME native'.op = "variadic" PROVE FnInv'
    BY DEF FnInv
  <2>5. /\ native.op = "variadic" /\ native'.raw = native.raw /\ handles'[1].val = handles[1].val
        /\ ~IsChar(native.raw)
    BY <2>4 DEF FnInv
  <2>6. pc' = "build"
    BY <2>4 DEF NativeInv, Idle
  <2>7. PICK r : r = native.raw
    OBVIOUS
  <2>8. r.id \in Ids
    BY <2>7, IdsHave
  <2>9. Valid(r)' => Valid(r)
    <3>1. ~IsChar(r) /\ (IsChar(r)' <=> IsChar(r))
      BY <2>5, <2>7 DEF IsChar
    <3> QED
      BY <2>3, <2>8, <3>1 DEF Valid
  <2>10. Valid(r) => handles[1].val = r
    BY <2>5, <2>7 DEF FnInv
  <2>11. native'.raw = r /\ handles'[1].val = handles[1].val /\ (~IsChar(r))'
    BY <2>5, <2>7 DEF IsChar
  <2> QED
    BY <2>6, <2>9, <2>10, <2>11 DEF FnInv
<1> QED
  BY <1>1, <1>2

\* While a call creates a pair, toCall has what fn is.
LEMMA CreateFn ==
  ASSUME RefInv, HeapInv, FnInv, GoingOn, NEW q, q.op \in Creations \union {"collect"},
         Ready(q), Handled(q), Create(q) \/ Collect(q),
         q.op = "collect" => Collect(q),
         q.op = "variadic" => native.op = "variadic" /\ q.raw = native.raw /\ Valid(q.raw)
  PROVE  FnInv'
<1>1. CASE q.op \in Creations /\ Fits(q) /\ Construct(q)
  BY <1>1, ConstructFn
<1>2. CASE Collect(q)
  <2>1. CASE HeadDestroyed
    <3>1. UNCHANGED <<mem, handles, pc, native>>
      BY <1>2, <2>1 DEF Collect, Stop, heap, roots
    <3> QED
      BY <3>1, FnStays
  <2>2. CASE ~HeadDestroyed
    <3>1. native' = q /\ pc' = "mark" /\ mem' = mem /\ handles' = handles
      BY <1>2, <2>2 DEF Collect, heap, roots
    <3> SUFFICES ASSUME q.op = "variadic" PROVE FnInv'
      BY <3>1 DEF FnInv
    <3>2. ~IsChar(q.raw) /\ handles[1].val = q.raw
      BY DEF FnInv
    <3> QED
      BY <3>1, <3>2 DEF FnInv, IsChar
  <2> QED
    BY <2>1, <2>2
<1> QED
  BY <1>1, <1>2 DEF Create

\* A creation that is for no list.
NoBuilder(q) == q.op \notin {"variadic", "quote", "element"}

\* After it nothing is built, or it waits itself.
LEMMA NoBuilderCreated ==
  ASSUME NEW q, NoBuilder(q), Create(q) \/ Collect(q)
  PROVE  native' \in {native, q, Idle}
<1>1. CASE \E f \in {"stale", "handle"} : Stop(f)
  BY <1>1 DEF Stop
<1>2. CASE Collect(q) /\ ~Stop("handle")
  BY <1>2 DEF Collect
<1>3. CASE Construct(q) /\ ~\E f \in {"stale", "handle"} : Stop(f)
  BY <1>3 DEF Construct, NoBuilder
<1> QED
  BY <1>1, <1>2, <1>3 DEF Create

\* Operations with a creation, or a collection, of their own.
LEMMA Makes ==
  ASSUME Literal \/ MakePair \/ MakeBox \/ MakeString \/ MakeLambda \/ CollectGarbage
  PROVE  \E q : NoBuilder(q) /\ (Create(q) \/ Collect(q))
<1>1. CASE Literal
  <2>1. CASE \E op \in {"int", "str"} : Create([Idle EXCEPT !.op = op])
    <3>1. PICK op \in {"int", "str"} : Create([Idle EXCEPT !.op = op])
      BY <2>1
    <3>2. NoBuilder([Idle EXCEPT !.op = op])
      BY DEF NoBuilder, Idle
    <3> QED
      BY <3>1, <3>2, Zenon
  <2>2. CASE \E str \in Strings : Create([Idle EXCEPT !.op = "symbol", !.held = <<str>>])
    <3>1. PICK str \in Strings : Create([Idle EXCEPT !.op = "symbol", !.held = <<str>>])
      BY <2>2
    <3>2. NoBuilder([Idle EXCEPT !.op = "symbol", !.held = <<str>>])
      BY DEF NoBuilder, Idle
    <3> QED
      BY <3>1, <3>2, Zenon
  <2> QED
    BY <1>1, <2>1, <2>2, Zenon DEF Literal
<1>2. CASE MakePair
  <2>1. CASE Create([Idle EXCEPT !.op = "cons"])
    <3>1. NoBuilder([Idle EXCEPT !.op = "cons"])
      BY DEF NoBuilder, Idle
    <3> QED
      BY <2>1, <3>1, Zenon
  <2>2. CASE Create([Idle EXCEPT !.op = "consBuiltin",
                       !.held = <<operandStack[Len(operandStack) - 1], Top>>])
    <3>1. NoBuilder([Idle EXCEPT !.op = "consBuiltin",
                       !.held = <<operandStack[Len(operandStack) - 1], Top>>])
      BY DEF NoBuilder, Idle
    <3> QED
      BY <2>2, <3>1, Zenon
  <2> QED
    BY <1>2, <2>1, <2>2, Zenon DEF MakePair
<1>3. CASE MakeBox \/ MakeString
  <2>1. NoBuilder([Idle EXCEPT !.op = "box", !.held = <<Top>>])
    BY DEF NoBuilder, Idle
  <2>2. NoBuilder([Idle EXCEPT !.op = "string"])
    BY DEF NoBuilder, Idle
  <2> QED
    BY <1>3, <2>1, <2>2, Zenon DEF MakeBox, MakeString
<1>4. CASE MakeLambda
  <2>1. CASE \E op \in {"lambda", "variadicLambda"} :
               Create([Idle EXCEPT !.op = op, !.held = <<NullRef>>])
    <3>1. PICK op \in {"lambda", "variadicLambda"} :
            Create([Idle EXCEPT !.op = op, !.held = <<NullRef>>])
      BY <2>1
    <3>2. NoBuilder([Idle EXCEPT !.op = op, !.held = <<NullRef>>])
      BY DEF NoBuilder, Idle
    <3> QED
      BY <3>1, <3>2, Zenon
  <2>2. CASE \E i \in DOMAIN immediates : Create([Idle EXCEPT !.op = "documented", !.n = i])
    <3>1. PICK i \in DOMAIN immediates : Create([Idle EXCEPT !.op = "documented", !.n = i])
      BY <2>2
    <3>2. NoBuilder([Idle EXCEPT !.op = "documented", !.n = i])
      BY DEF NoBuilder, Idle
    <3> QED
      BY <3>1, <3>2, Zenon
  <2> QED
    BY <1>4, <2>1, <2>2, Zenon DEF MakeLambda
<1>5. CASE CollectGarbage
  <2>1. PICK q : q.op = "collect" /\ Collect(q)
    BY <1>5 DEF CollectGarbage, Idle
  <2> QED
    BY <2>1 DEF NoBuilder
<1> QED
  BY <1>1, <1>2, <1>3, <1>4, <1>5

\* The steps of the program keep what is said of a call.
LEMMA ComputingFn ==
  ASSUME RefInv, HeapInv, FnInv, Computing
  PROVE  FnInv'
<1>1. CASE native'.op # "variadic"
  BY <1>1 DEF FnInv
<1>2. CASE VariadicCall
  <2>1. pc = "run" /\ TopIs({"vfn"})
    BY <1>2 DEF VariadicCall, Running
  <2>2. CASE HeadDestroyed
    <3>1. UNCHANGED <<mem, handles, pc, native>>
      BY <1>2, <2>2 DEF VariadicCall, Stop, heap, roots
    <3> QED
      BY <3>1, FnStays
  <2>3. CASE ~HeadDestroyed
    <3>1. PICK top : top = Top
      OBVIOUS
    <3>2. Hold(top) /\ native'.raw = top
      BY <1>2, <2>3, <3>1 DEF VariadicCall, Idle
    <3>3. top \in Refs /\ ~IsChar(top)
      BY <2>1, <3>1, TopIsAnObject
    <3>4. /\ Len(handles') = Len(handles) + 1 /\ plist' = Len(handles')
          /\ handles'[plist'].val = top
      BY <2>3, <3>2, <3>3, HoldIs DEF RefInv
    <3>5. handles = <<>> /\ Len(handles) = 0
      BY <2>1, RunHandles DEF RefInv
    <3>6. plist' = 1
      BY <3>4, <3>5
    <3> QED
      BY <3>2, <3>3, <3>4, <3>6 DEF FnInv, IsChar
  <2> QED
    BY <2>2, <2>3
<1>3. CASE Element \/ Push
  <2>1. GoingOn /\ \E q : Building(q)
    BY <1>3, BuilderCreates DEF SomethingBuilt
  <2>2. PICK q : Building(q)
    BY <2>1
  <2>3. /\ q.op \in Creations /\ Ready(q) /\ Handled(q) /\ Create(q)
        /\ q.op = "variadic" => native.op = "variadic" /\ q.raw = native.raw /\ Valid(q.raw)
    BY <2>2 DEF Building
  <2>4. q.op # "collect"
    BY <2>3 DEF Creations, KindOf
  <2> QED
    BY <2>1, <2>3, <2>4, CreateFn
<1>4. CASE CreateAgain
  <2>1. pc = "collected" /\ native.op \in Creations
    BY <1>4 DEF CreateAgain, Creations
  <2>2. GoingOn /\ Ready(native) /\ Handled(native)
    BY <2>1 DEF GoingOn, RefInv, NativeInv
  <2>3. CASE Fits(native)
    <3>1. Construct(native)
      BY <1>4, <2>3 DEF CreateAgain
    <3> QED
      BY <2>1, <2>2, <2>3, <3>1, ConstructFn
  <2>4. CASE ~Fits(native)
    <3>1. pc' = "oom" /\ mem' = mem /\ handles' = handles /\ native' = native
      BY <1>4, <2>4 DEF CreateAgain, heap, roots
    <3>2. PICK r : r = native.raw
      OBVIOUS
    <3>3. (Valid(r)' <=> Valid(r)) /\ (IsChar(r)' <=> IsChar(r))
      BY <3>1 DEF Valid, IsChar
    <3> QED
      BY <2>1, <3>1, <3>2, <3>3 DEF FnInv
  <2> QED
    BY <2>3, <2>4
<1>5. CASE FnLost \/ Quoted
  <2>1. CASE \E f \in {"stale", "dangling"} : Stop(f)
    <3>1. UNCHANGED <<mem, handles, pc, native>>
      BY <2>1 DEF Stop, heap, roots
    <3> QED
      BY <3>1, FnStays
  <2>2. CASE ~\E f \in {"stale", "dangling"} : Stop(f)
    <3>1. native' = Resumed
      BY <1>5, <2>2 DEF FnLost, Quoted
    <3>2. native'.op # "variadic"
      BY <3>1 DEF Resumed, Idle
    <3> QED
      BY <1>1, <3>2
  <2> QED
    BY <2>1, <2>2
<1>6. CASE QuoteWithin \/ Quote \/ Called \/ Collected
  <2>1. CASE QuoteWithin \/ Quote
    <3>1. native'.op # "variadic"
      BY <2>1 DEF QuoteWithin, Quote, Idle
    <3> QED
      BY <1>1, <3>1
  <2>2. CASE Called \/ Collected
    <3>1. native' = Idle
      BY <2>2 DEF Called, Collected
    <3>2. native'.op # "variadic"
      BY <3>1 DEF Idle
    <3> QED
      BY <1>1, <3>2
  <2> QED
    BY <1>1, <1>6, <2>1, <2>2
<1>7. CASE PushConstant \/ Load \/ Store \/ Rebind \/ Recur \/ Discard \/ Take \/ Get \/ SetBox
           \/ EnterLet \/ Call \/ Leave
  <2>1. CASE \E f \in {"dangling"} : Stop(f)
    <3>1. UNCHANGED <<mem, handles, pc, native>>
      BY <2>1 DEF Stop, heap, roots
    <3> QED
      BY <3>1, FnStays
  <2>2. CASE ~\E f \in {"dangling"} : Stop(f)
    <3>1. pc = "run" /\ native' = native
      BY <1>7, <2>2 DEF PushConstant, Load, Store, Rebind, Recur, Discard, Take, Get, SetBox,
         EnterLet, Call, Leave, Running, OnStack
    <3>2. native = Idle
      BY <3>1, RunHandles DEF RefInv
    <3>3. native'.op # "variadic"
      BY <3>1, <3>2 DEF Idle
    <3> QED
      BY <1>1, <3>3
  <2> QED
    BY <2>1, <2>2
<1>8. CASE Literal \/ MakePair \/ MakeBox \/ MakeString \/ MakeLambda \/ CollectGarbage
  <2>1. native.op # "variadic"
    <3>1. pc = "run"
      BY <1>8 DEF Literal, MakePair, MakeBox, MakeString, MakeLambda, CollectGarbage, Running
    <3> QED
      BY <3>1, RunHandles DEF RefInv, Idle
  <2>2. \E q : NoBuilder(q) /\ (Create(q) \/ Collect(q))
    BY <1>8, Makes
  <2>3. PICK q : NoBuilder(q) /\ (Create(q) \/ Collect(q))
    BY <2>2
  <2>4. native' \in {native, q, Idle}
    BY <2>3, NoBuilderCreated
  <2>5. native'.op # "variadic"
    BY <2>1, <2>3, <2>4 DEF NoBuilder, Idle
  <2> QED
    BY <1>1, <2>5
<1> QED
  BY <1>2, <1>3, <1>4, <1>5, <1>6, <1>7, <1>8 DEF Computing

\* The invariant of the heap, that of the references and that of calls, step by step.
CollectorInv == HeapInv /\ RefInv /\ FnInv

\* Together they are kept by every step.
LEMMA CollectorStep == CollectorInv /\ [Next]_vars => CollectorInv'
<1> SUFFICES ASSUME CollectorInv, [Next]_vars PROVE CollectorInv'
  OBVIOUS
<1>1. HeapInv /\ RefInv /\ HeapInv' /\ FnInv
  BY StepInv DEF CollectorInv
<1>2. CASE UNCHANGED vars
  <2>1. UNCHANGED <<mem, end, frames, callStack, immediates, operandStack, handles, plist,
                    charMarks, pc, native, grey, index, gone, breaks, collapse, frameSet, fault>>
    BY <1>2 DEF vars
  <2>2. fault' \in {"none", "dangling", "stale", "handle", "shifted"}
    BY <1>1, <2>1 DEF RefInv, TypeOK
  <2>3. FnInv'
    BY <1>1, <2>1, FnStays
  <2> QED
    BY <1>1, <2>1, <2>2, <2>3, NothingDone DEF CollectorInv
<1>3. CASE Collecting
  BY <1>1, <1>3, CollectingRefs, CollectingFn DEF CollectorInv
<1>4. CASE Computing
  BY <1>1, <1>4, ComputingRefs, ComputingFn DEF CollectorInv
<1> QED
  BY <1>2, <1>3, <1>4 DEF Next

\* They hold in every state of every behaviour.
LEMMA CollectorAlways == Spec => []CollectorInv
<1>1. Init => CollectorInv
  BY InitInv, InitRefs DEF CollectorInv, FnInv, Init, Idle
<1> QED
  BY <1>1, CollectorStep, PTL DEF Spec

----------------------------------------------------------------------------------------
(* The theorems. *)

\* The heap, the roots and the collector's locals keep their types, so that no
\* address leaves the heap.
\* Code: the declarations of memory.hpp, gc.cpp and environment.hpp.
THEOREM HeapIsTyped == Spec => []TypeOK
<1>1. CollectorInv => TypeOK
  BY DEF CollectorInv, RefInv
<1> QED
  BY <1>1, CollectorAlways, PTL

\* Outside of compact, and until the program stops at a fault, every reference that the
\* program can come to without a closure is to the object that it was made for: on the
\* operand stack, among the literals, in variables and in objects.  At which faults a
\* program can stop, and what it did before, FaultsAreTraced says.
\* Code: mark, compact and remapInternalPointers together.
THEOREM ReferencesAreValid == Spec => []RefsValid
<1>1. CollectorInv => RefsValid
  <2> SUFFICES ASSUME CollectorInv, AtRest PROVE RefsValid
    BY DEF RefsValid
  <2>1. TypeOK /\ RestInv
    BY DEF CollectorInv, RefInv
  <2>2. /\ \A r \in RootSet : Valid(r)
        /\ \A a \in DOMAIN mem : \A r \in ChildSet(mem[a]) : Valid(r)
    BY <2>1 DEF RestInv
  <2>3. ASSUME NEW rs \in Seq(Refs), \A r \in ToSet(rs) : Valid(r)
        PROVE  AllValid(rs)
    BY <2>3, ToSetOf DEF AllValid
  <2>4. AllValid(operandStack) /\ AllValid(immediates)
    <3>1. operandStack \in Seq(Refs) /\ immediates \in Seq(Refs)
      BY <2>1 DEF TypeOK
    <3>2. \A r \in ToSet(operandStack) \union ToSet(immediates) : Valid(r)
      BY <2>2 DEF RootSet
    <3> QED
      BY <2>3, <3>1, <3>2
  <2>5. ASSUME NEW i \in DOMAIN callStack PROVE AllValid(frames[callStack[i]].vars)
    <3>1. frames[callStack[i]].vars \in Seq(Refs)
      BY <2>1, StackTypes, FrameTypes DEF RefSeqs
    <3>2. \A r \in ToSet(frames[callStack[i]].vars) : Valid(r)
      BY <2>2 DEF RootSet, StackSet
    <3> QED
      BY <2>3, <3>1, <3>2
  <2>6. ASSUME NEW a \in DOMAIN mem
        PROVE  AllValid(mem[a].refs) /\ (mem[a].env # 0 => AllValid(frames[mem[a].env].vars))
    <3>1. mem[a].refs \in Seq(Refs) /\ mem[a].env \in Environments \union {0}
      BY <2>1, ObjectTypes DEF RefSeqs
    <3>2. AllValid(mem[a].refs)
      BY <2>2, <2>3, <3>1 DEF ChildSet
    <3>3. ASSUME mem[a].env # 0 PROVE AllValid(frames[mem[a].env].vars)
      <4>1. frames[mem[a].env].vars \in Seq(Refs)
        BY <2>1, <3>1, <3>3, FrameTypes DEF RefSeqs
      <4>2. \A r \in ToSet(frames[mem[a].env].vars) : Valid(r)
        BY <2>2, <3>3 DEF ChildSet, EnvSet
      <4> QED
        BY <2>3, <4>1, <4>2
    <3> QED
      BY <3>2, <3>3
  <2> QED
    BY <2>4, <2>5, <2>6 DEF RefsValid
<1> QED
  BY <1>1, CollectorAlways, PTL

\* The newest handle of the thread survives the collections that allocations cause, as
\* long as its destructor has not run, however many there are: so the builder of a call's
\* rest list has its list, and that of a quoted list until it has had a list for an
\* element.  The handles before the newest are lost in a collection (HandlesKeep).
\* Code: the Persistent front_ of ListBuilder; the walk from the head in mark and compact.
THEOREM FrontIsKept == Spec => []FrontKept
<1>1. CollectorInv => FrontKept
  <2> SUFFICES ASSUME CollectorInv, pc \in {"build", "collected"}, plist \in DOMAIN handles
               PROVE  Valid(handles[plist].val)
    BY DEF FrontKept
  <2>1. RefInv /\ GoingOn
    BY DEF CollectorInv, GoingOn
  <2> QED
    BY <2>1, AtHand
<1> QED
  BY <1>1, CollectorAlways, PTL

\* What a collection leaves in the heap is what the roots lead to and strings
\* of which a character was once marked, and it is unmarked.
\* Code: markValue marks nothing but what it comes to; compact keeps nothing
\* else, and unmarks it.
THEOREM GarbageIsReclaimed == Spec => []Reclaimed
<1>1. CollectorInv => Reclaimed
  <2> SUFFICES ASSUME CollectorInv, pc = "collected", NEW a \in DOMAIN mem
               PROVE  /\ ~mem[a].marked
                      /\ \/ mem[a].id \in charMarks
                         \/ \A S \in SUBSET {mem[b].id : b \in DOMAIN mem} :
                              Closed(S) => mem[a].id \in S
    BY DEF Reclaimed
  <2>1. TypeOK /\ NativeInv /\ HandlesInv /\ Unmarked /\ ReachedInv
    BY DEF CollectorInv, RefInv
  <2>2. ~mem[a].marked
    BY <2>1 DEF Unmarked
  <2>3. ~HeadDestroyed
    BY <2>1 DEF HandlesInv
  <2>5. ToSet(Roots) = RootSet
    BY <2>1, <2>3, RootsAre
  <2>6. \A b \in DOMAIN mem : ToSet(Children(mem[b])) = ChildSet(mem[b])
    BY <2>1, ChildrenAre
  <2>7. ASSUME NEW S \in SUBSET {mem[b].id : b \in DOMAIN mem}, Closed(S)
        PROVE  mem[a].id \in S \union charMarks
    <3>1. ClosedAmong(S, DOMAIN mem)
      <4>1. ObjectIds(RootSet) \subseteq S
        BY <2>5, <2>7 DEF Closed, ObjectIds
      <4>2. \A b \in DOMAIN mem : mem[b].id \in S => ObjectIds(ChildSet(mem[b])) \subseteq S
        BY <2>6, <2>7 DEF Closed, ObjectIds
      <4> QED
        BY <4>1, <4>2 DEF ClosedAmong
    <3>2. S \in SUBSET LiveIds
      BY DEF LiveIds
    <3> QED
      BY <2>1, <3>1, <3>2 DEF ReachedInv
  <2> QED
    BY <2>2, <2>7
<1> QED
  BY <1>1, CollectorAlways, PTL

----------------------------------------------------------------------------------------
(* Each step of a collection leaves less to do. *)

\* The objects that are still to be marked are so many.
LEMMA UnmarkedFinite ==
  ASSUME TypeOK
  PROVE  IsFiniteSet({a \in DOMAIN mem : ~mem[a].marked})
<1>1. 0 \in Int /\ Capacity \in Int /\ DOMAIN mem \subseteq 0..Capacity
  BY SizeAssumption DEF TypeOK, Addresses
<1>2. IsFiniteSet(0..Capacity)
  BY <1>1, FS_Interval
<1>3. {a \in DOMAIN mem : ~mem[a].marked} \subseteq 0..Capacity
  BY <1>1
<1> QED
  BY <1>2, <1>3, FS_Subset

\* The collector is at work, or has just been.
Counting == pc \in {"mark", "slide", "internal"} \/ index = 0

\* What is ahead then is a number of objects or words.
LEMMA AheadIs == CollectorInv /\ Counting => Ahead \in Nat
<1> SUFFICES ASSUME CollectorInv, Counting PROVE Ahead \in Nat
  OBVIOUS
<1>1. HeapInv /\ RefInv /\ TypeOK /\ (pc \in {"mark", "slide", "internal"} \/ index = 0)
  BY DEF CollectorInv, RefInv, Counting
<1>2. CASE pc = "mark"
  BY <1>1, <1>2, UnmarkedFinite, FS_CardinalityType DEF Ahead
<1>3. CASE pc # "mark"
  <2>1. index \in Nat /\ end \in Nat
    BY <1>1, SizeAssumption DEF TypeOK, Addresses
  <2>2. index <= end
    <3>1. CASE pc = "slide"
      BY <1>1, <3>1 DEF HeapInv, Sliding
    <3>2. CASE pc = "internal"
      <4>1. index \in DOMAIN mem \union {end} /\ DOMAIN mem \subseteq 0..end - 1
        BY <1>1, <3>2 DEF RefInv, InternalInv, HeapInv, HeapTiled
      <4> QED
        BY <2>1, <4>1
    <3> QED
      BY <1>1, <1>3, <2>1, <3>1, <3>2
  <2>3. Ahead = end - index
    BY <1>3 DEF Ahead
  <2> QED
    BY <2>1, <2>2, <2>3
<1> QED
  BY <1>2, <1>3

\* Of the next state, too.
LEMMA NextAhead == CollectorInv' /\ Counting' => (Ahead \in Nat)'
  BY AheadIs, PTL

\* A step of marking: one object less is to be marked, or one value less was come upon.
LEMMA MarkAdvances ==
  ASSUME RefInv, MarkValue
  PROVE  Phase' = Phase /\ (Ahead' < Ahead \/ (Ahead' = Ahead /\ Len(grey') < Len(grey)))
<1>1. TypeOK /\ pc = "mark" /\ pc' = "mark" /\ grey # <<>> /\ grey \in Seq(Refs)
  BY DEF RefInv, TypeOK, MarkValue
<1>2. PICK r : r = Head(grey)
  OBVIOUS
<1>3. r \in Refs /\ Valid(r)
  BY <1>2, MarkValueIs
<1>4. PICK left : left = {a \in DOMAIN mem : ~mem[a].marked}
  OBVIOUS
<1>5. IsFiniteSet(left) /\ Ahead = Cardinality(left)
  BY <1>1, <1>4, UnmarkedFinite DEF Ahead
<1>6. Phase' = Phase
  BY <1>1 DEF Phase
<1> SUFFICES Ahead' < Ahead \/ (Ahead' = Ahead /\ Len(grey') < Len(grey))
  BY <1>6
<1>7. CASE IsChar(r) \/ Visited(mem[r.at])
  <2>1. mem' = mem /\ grey' = <<>> \o Tail(grey)
    BY <1>2, <1>7 DEF MarkValue
  <2>2. PICK t : t = Tail(grey)
    OBVIOUS
  <2>3. t \in Seq(Refs) /\ Len(t) < Len(grey) /\ <<>> \o t = t
    BY <1>1, <2>2
  <2>4. Len(grey') < Len(grey)
    BY <2>1, <2>2, <2>3
  <2>5. Ahead' = Ahead
    BY <1>1, <2>1 DEF Ahead
  <2> QED
    BY <2>4, <2>5
<1>8. CASE ~IsChar(r) /\ ~Visited(mem[r.at])
  <2>1. PICK at : at = r.at
    OBVIOUS
  <2>2. mem' = [mem EXCEPT ![at].marked = TRUE]
    BY <1>2, <1>8, <2>1 DEF MarkValue
  <2>3. at \in DOMAIN mem /\ ~mem[at].marked
    BY <1>3, <1>8, <2>1 DEF Valid, Visited
  <2>4. mem[at] \in ObjectType
    BY <1>1, <2>3 DEF TypeOK, ObjectType
  <2>5. /\ DOMAIN mem' = DOMAIN mem /\ \A a \in DOMAIN mem : a # at => mem'[a] = mem[a]
        /\ mem'[at].marked
    <3>1. mem'[at] = [mem[at] EXCEPT !.marked = TRUE]
      BY <2>2, <2>3
    <3>2. [mem[at] EXCEPT !.marked = TRUE].marked
      BY <2>4 DEF ObjectType
    <3> QED
      BY <2>2, <3>1, <3>2
  <2>6. {a \in DOMAIN mem' : ~mem'[a].marked} = left \ {at} /\ at \in left
    BY <1>4, <2>3, <2>5
  <2>7. Ahead' = Cardinality(left \ {at})
    BY <1>1, <2>6 DEF Ahead
  <2>8. Cardinality(left \ {at}) = Cardinality(left) - 1 /\ Cardinality(left) \in Nat
    BY <1>5, <2>6, FS_RemoveElement, FS_CardinalityType
  <2>9. PICK n \in Nat : n = Cardinality(left)
    BY <2>8
  <2>10. Ahead = n /\ Ahead' = n - 1
    BY <1>5, <2>7, <2>8, <2>9
  <2> QED
    BY <2>10
<1> QED
  BY <1>7, <1>8

\* A step over an object, in either walk over the heap.
LEMMA WalkAdvances ==
  ASSUME HeapInv, RefInv, Slide \/ RemapInternal
  PROVE  Phase' = Phase /\ Ahead' < Ahead
<1>1. /\ pc \in {"slide", "internal"} /\ pc' = pc /\ end' = end /\ index < end
      /\ index' = index + Size[mem[index].kind]
  BY DEF Slide, RemapInternal, roots
<1>2. index \in Nat /\ end \in Nat
  BY SizeAssumption DEF RefInv, TypeOK, Addresses
<1>3. index \in DOMAIN mem
  <2>1. CASE Slide
    BY <2>1, SlideFrom
  <2>2. CASE RemapInternal
    BY <1>1, <1>2, <2>2 DEF RefInv, InternalInv, RemapInternal
  <2> QED
    BY <2>1, <2>2
<1>4. Size[mem[index].kind] \in Nat \ {0}
  BY <1>3, SizeAssumption DEF HeapInv, IsObject
<1>5. Phase' = Phase
  BY <1>1 DEF Phase
<1>6. Ahead = end - index /\ Ahead' = end' - index'
  BY <1>1 DEF Ahead
<1> QED
  BY <1>1, <1>2, <1>4, <1>5, <1>6

\* Each step of the collector.
LEMMA CollectingAdvances ==
  ASSUME CollectorInv, CollectorInv', Collecting, fault' = "none"
  PROVE  Advances
<1>1. TypeOK /\ TypeOK' /\ RefInv /\ HeapInv /\ RefInv' /\ HeapInv'
  BY DEF CollectorInv, RefInv
<1>8. MarkValue \/ Marked \/ Slide \/ Slid \/ RemapInternal \/ RemapRoots
  BY DEF Collecting, LoseCharacter, Stop
<1>2. Ahead \in Nat
  <2>1. pc \in {"mark", "slide", "internal"}
    BY <1>8 DEF MarkValue, Marked, Slide, Slid, RemapInternal, RemapRoots
  <2> QED
    BY <2>1, AheadIs DEF Counting
<1>3. Ahead' \in Nat
  <2>1. pc' \in {"mark", "slide", "internal"} \/ index' = 0
    BY <1>8 DEF MarkValue, Marked, Slide, Slid, RemapInternal, RemapRoots
  <2> QED
    BY <2>1, NextAhead DEF Counting
<1>4. CASE MarkValue
  BY <1>1, <1>2, <1>3, <1>4, MarkAdvances DEF Advances
<1>5. CASE Slide \/ RemapInternal
  BY <1>1, <1>2, <1>3, <1>5, WalkAdvances DEF Advances
<1>6. CASE Marked \/ Slid \/ RemapRoots
  <2>1. Phase' < Phase
    BY <1>6 DEF Marked, Slid, RemapRoots, Phase
  <2> QED
    BY <1>2, <1>3, <2>1 DEF Advances
<1> QED
  BY <1>4, <1>5, <1>6, <1>8

\* However large the heap and whatever cycles the boxes of a program make, a collection
\* has with each of its steps less to do, in an order in which that cannot go on for ever.
\* Code: markValue, compact and remapInternalPointers (gc.cpp).
THEOREM CollectionsAdvance == Spec => EachStepAdvances
<1>1. ASSUME CollectorInv, CollectorInv', [Next]_vars
      PROVE  [(pc \in {"mark", "slide", "internal"} /\ fault' = "none") => Advances]_vars
  <2>1. CASE UNCHANGED vars
    BY <2>1
  <2>2. CASE Collecting
    BY <1>1, <2>2, CollectingAdvances
  <2>3. CASE Computing
    <3>1. pc \in {"run", "build", "collected"}
      BY <2>3, Zenon
      DEF Computing, PushConstant, Load, Store, Rebind, Recur, Discard, Take, Get, SetBox,
          EnterLet, Call, Leave, Literal, MakePair, MakeBox, MakeString, MakeLambda,
          CreateAgain, CollectGarbage, Collected, VariadicCall, FnLost, Called, Quote,
          Element, QuoteWithin, Push, Quoted, Running
    <3> QED
      BY <3>1
  <2> QED
    BY <1>1, <2>1, <2>2, <2>3 DEF Next
<1>2. CollectorInv /\ CollectorInv' /\ [Next]_vars
        => [(pc \in {"mark", "slide", "internal"} /\ fault' = "none") => Advances]_vars
  BY <1>1
<1> QED
  BY <1>2, CollectorAlways, PTL DEF Spec, EachStepAdvances

----------------------------------------------------------------------------------------
(* The environments of programs that make their functions at the top level. *)

\* The call stack has all environments that the running one can see.
LEMMA SeenOnStack ==
  ASSUME TypeOK, StackLinked, NEW e \in Lineage(Env)
  PROVE  \E i \in DOMAIN callStack : e = callStack[i]
<1> DEFINE S == {callStack[i] : i \in DOMAIN callStack}
<1>1. /\ Len(callStack) \in Nat \ {0} /\ DOMAIN callStack = 1..Len(callStack)
      /\ S \subseteq Environments /\ Env \in S
  BY StackTypes
<1>2. ASSUME NEW d \in S PROVE frames[d].parent \in S \union {0}
  <2>1. PICK i \in DOMAIN callStack : d = callStack[i]
    OBVIOUS
  <2>2. 1..i - 1 \subseteq DOMAIN callStack
    BY <1>1
  <2> QED
    BY <2>1, <2>2 DEF StackLinked
<1>3. e \in S
  <2> HIDE DEF S
  <2> QED
    BY <1>1, <1>2 DEF Lineage
<1> QED
  BY <1>3

\* What is on the call stack is owned by it.
LEMMA StackOwned ==
  ASSUME NEW stack, NEW memory, NEW i \in DOMAIN stack, stack[i] \in Environments
  PROVE  stack[i] \in Owned(stack, memory)
<1>1. stack[i] \in Lineage(stack[i])
  BY LineageIn
<1> QED
  BY <1>1 DEF Owned

\* Steps that leave environments alone.
LEMMA StackStays ==
  ASSUME StackLinked, TypeOK, callStack' = callStack,
         \A i \in DOMAIN callStack : frames'[callStack[i]].parent = frames[callStack[i]].parent
  PROVE  StackLinked' /\ Env' = Env
  BY DEF StackLinked, Env

\* A derived environment whose parent is on the call stack.
LEMMA LinkedEnter ==
  ASSUME TypeOK, StackLinked, NEW stack,
         NEW parent \in {0} \union {callStack[j] : j \in DOMAIN callStack},
         Enter(parent, stack)
  PROVE  StackLinked'
<1>1. PICK S : S = Environments \ Owned(callStack, mem)
  OBVIOUS
<1>2. PICK new : new = Least(S)
  OBVIOUS
<1>3. new \in Environments /\ new \notin Owned(callStack, mem)
  BY <1>1, <1>2, LeastFree DEF Enter
<1>4. /\ frames' = [frames EXCEPT ![new] = [parent |-> parent, vars |-> <<>>]]
      /\ callStack' = Append(callStack, new)
  BY <1>1, <1>2 DEF Enter
<1>5. /\ Len(callStack) \in Nat \ {0} /\ DOMAIN callStack = 1..Len(callStack)
      /\ \A i \in DOMAIN callStack : callStack[i] \in Environments
  BY StackTypes
<1>6. callStack \in Seq(Environments)
  BY DEF TypeOK
<1>7. PICK n : n = Len(callStack)
  OBVIOUS
<1>8. /\ DOMAIN callStack' = 1..n + 1 /\ callStack'[n + 1] = new
      /\ \A i \in 1..n : callStack'[i] = callStack[i]
  BY <1>3, <1>4, <1>6, <1>7
<1>9. \A i \in 1..n : callStack[i] # new
  BY <1>3, <1>5, <1>7, StackOwned
<1>10. frames'[new].parent = parent
  BY <1>3, <1>4 DEF TypeOK
<1>11. \A i \in 1..n : frames'[callStack[i]] = frames[callStack[i]]
  BY <1>4, <1>5, <1>7, <1>9 DEF TypeOK
<1>12. ASSUME NEW i \in 1..n + 1
       PROVE  frames'[callStack'[i]].parent \in {0} \union {callStack'[j] : j \in 1..i - 1}
  <2>1. CASE i = n + 1
    <3>1. \A j \in DOMAIN callStack : j \in 1..i - 1 /\ callStack'[j] = callStack[j]
      BY <1>5, <1>7, <1>8, <2>1
    <3> QED
      BY <1>8, <1>10, <2>1, <3>1
  <2>2. CASE i # n + 1
    <3>1. i \in 1..n /\ i \in DOMAIN callStack
      BY <1>5, <1>7, <2>2
    <3>2. \A j \in 1..i - 1 : callStack'[j] = callStack[j]
      BY <1>5, <1>7, <1>8, <3>1
    <3>3. frames[callStack[i]].parent \in {0} \union {callStack[j] : j \in 1..i - 1}
      BY <3>1 DEF StackLinked
    <3> QED
      BY <1>8, <1>11, <3>1, <3>2, <3>3
  <2> QED
    BY <2>1, <2>2
<1>13. callStack'[1] = TopLevel
  BY <1>5, <1>7, <1>8 DEF StackLinked
<1> QED
  BY <1>8, <1>12, <1>13 DEF StackLinked

\* Leaving an environment frees none that is still on the call stack.
LEMMA LinkedLeave ==
  ASSUME TypeOK, StackLinked, Leave
  PROVE  StackLinked'
<1>1. /\ callStack' = Front(callStack) /\ Len(callStack) > 1
      /\ frames' = [e \in Environments |->
                      IF e \in Owned(callStack', mem) THEN frames[e] ELSE Free]
  BY DEF Leave
<1>2. /\ callStack \in Seq(Environments) /\ Len(callStack) \in Nat
      /\ DOMAIN callStack = 1..Len(callStack)
      /\ \A i \in DOMAIN callStack : callStack[i] \in Environments
  BY StackTypes DEF TypeOK
<1>3. PICK n : n = Len(callStack) - 1
  OBVIOUS
<1>4. n \in Nat \ {0} /\ n < Len(callStack)
  BY <1>1, <1>2, <1>3
<1>5. callStack' = SubSeq(callStack, 1, n)
  BY <1>1, <1>3 DEF Front
<1>6. /\ DOMAIN callStack' = 1..n
      /\ \A i \in 1..n : callStack'[i] = callStack[i] /\ i \in DOMAIN callStack
  BY <1>2, <1>4, <1>5
<1>7. ASSUME NEW i \in 1..n PROVE frames'[callStack[i]] = frames[callStack[i]]
  <2>1. callStack[i] \in Environments /\ callStack'[i] = callStack[i] /\ i \in DOMAIN callStack'
    BY <1>2, <1>6
  <2>2. callStack[i] \in Owned(callStack', mem)
    BY <2>1, StackOwned
  <2> QED
    BY <1>1, <2>1, <2>2
<1>8. ASSUME NEW i \in 1..n
      PROVE  frames'[callStack'[i]].parent \in {0} \union {callStack'[j] : j \in 1..i - 1}
  <2>1. \A j \in 1..i - 1 : callStack'[j] = callStack[j]
    BY <1>4, <1>6
  <2> QED
    BY <1>6, <1>7, <2>1 DEF StackLinked
<1>9. callStack'[1] = TopLevel
  BY <1>4, <1>6 DEF StackLinked
<1> QED
  BY <1>6, <1>8, <1>9 DEF StackLinked

\* A variable that such a program loads is there.
LEMMA LinkedLoad ==
  ASSUME RefInv, StackLinked, Load
  PROVE  \E e \in Lineage(Env) : \E i \in DOMAIN frames[e].vars :
           /\ e \in Environments /\ frames[e].vars \in Seq(Refs) /\ Valid(frames[e].vars[i])
           /\ OnStack(Append(operandStack, frames[e].vars[i]))
<1>1. pc = "run" /\ GoingOn /\ TypeOK
  BY DEF Load, Running, GoingOn, RefInv
<1>2. PICK e \in Lineage(Env) : \E i \in DOMAIN frames[e].vars :
        IF Valid(frames[e].vars[i])
        THEN OnStack(Append(operandStack, frames[e].vars[i]))
        ELSE Stop("dangling")
  BY DEF Load
<1>3. PICK i \in DOMAIN frames[e].vars :
        IF Valid(frames[e].vars[i])
        THEN OnStack(Append(operandStack, frames[e].vars[i]))
        ELSE Stop("dangling")
  BY <1>2
<1>4. PICK j \in DOMAIN callStack : e = callStack[j]
  BY <1>1, SeenOnStack
<1>5. /\ e \in Environments /\ frames[e].vars \in Seq(Refs)
      /\ \A r \in ToSet(frames[e].vars) : Valid(r)
  <2>1. e \in Environments
    BY <1>1, <1>4, StackTypes
  <2>2. \A r \in ToSet(frames[e].vars) : Valid(r)
    BY <1>1, <1>4, FramesStay
  <2> QED
    BY <1>1, <2>1, <2>2, FrameTypes DEF RefSeqs
<1>6. Valid(frames[e].vars[i])
  BY <1>5, ToSetOf
<1> QED
  BY <1>3, <1>5, <1>6

\* Steps after which functions have no other environments.
LEMMA LinkedStays ==
  ASSUME TypeOK, Linked, callStack' = callStack,
         \A i \in DOMAIN callStack : frames'[callStack[i]].parent = frames[callStack[i]].parent,
         \A a \in DOMAIN mem' : mem'[a].env \in {0, TopLevel},
         native'.op \in Lambdas => native.op \in Lambdas \/ Env = TopLevel
  PROVE  Linked'
<1>1. StackLinked' /\ Env' = Env
  BY StackStays DEF Linked
<1> QED
  BY <1>1 DEF Linked, MadeAtTopLevel

\* Steps that leave memory and what waits alone.
LEMMA LinkedUnchanged ==
  ASSUME TypeOK, Linked, UNCHANGED <<mem, callStack, native>>,
         \A i \in DOMAIN callStack : frames'[callStack[i]].parent = frames[callStack[i]].parent
  PROVE  Linked'
  BY LinkedStays DEF Linked, MadeAtTopLevel

\* The collector leaves environments and functions where they are.
LEMMA CollectingEnvironments ==
  ASSUME RefInv, HeapInv, Collecting
  PROVE  /\ UNCHANGED <<callStack, plist, native>>
         /\ ~LoseCharacter => fault' = fault
         /\ \A i \in DOMAIN callStack :
              frames'[callStack[i]].parent = frames[callStack[i]].parent
         /\ \A a \in DOMAIN mem' : \E b \in DOMAIN mem : mem'[a].env = mem[b].env
<1>1. UNCHANGED <<callStack, plist, native>> /\ (~LoseCharacter => fault' = fault)
  <2>1. CASE LoseCharacter
    BY <2>1 DEF LoseCharacter, Stop, roots
  <2>2. CASE ~LoseCharacter
    BY <2>2 DEF Collecting, MarkValue, Marked, Slide, Slid, RemapInternal, RemapRoots, roots
  <2> QED
    BY <2>1, <2>2
<1>2. TypeOK
  BY DEF RefInv
<1>3. \A i \in DOMAIN callStack : frames'[callStack[i]].parent = frames[callStack[i]].parent
  <2>1. CASE RemapRoots
    <3> SUFFICES ASSUME NEW i \in DOMAIN callStack
                 PROVE  frames'[callStack[i]].parent = frames[callStack[i]].parent
      OBVIOUS
    <3>1. PICK e : e = callStack[i]
      OBVIOUS
    <3>2. e \in Environments
      BY <1>2, <3>1, StackTypes
    <3>3. e \in GatheredFrames
      BY <3>1, <3>2, LineageIn DEF GatheredFrames
    <3>4. frames'[e] = [frames[e] EXCEPT !.vars = RemappedAll(@)]
      BY <2>1, <3>2, <3>3 DEF RemapRoots
    <3>5. PICK v : v = RemappedAll(frames[e].vars)
      OBVIOUS
    <3>6. frames'[e] = [frames[e] EXCEPT !.vars = v]
      BY <3>4, <3>5
    <3>7. frames[e] \in [parent : Environments \union {0}, vars : Seq(Refs)]
      BY <1>2, <3>2 DEF TypeOK
    <3>8. frames'[e].parent = frames[e].parent
      BY ONLY <3>6, <3>7
    <3> QED
      BY <3>1, <3>8
  <2>2. CASE ~RemapRoots
    <3>1. frames' = frames
      BY <2>2 DEF Collecting, MarkValue, Marked, Slide, Slid, RemapInternal, LoseCharacter,
         Stop, roots
    <3> QED
      BY <3>1
  <2> QED
    BY <2>1, <2>2
<1>4. ASSUME NEW a \in DOMAIN mem' PROVE \E b \in DOMAIN mem : mem'[a].env = mem[b].env
  <2>1. CASE MarkValue
    <3>1. PICK at : at = Head(grey).at
      OBVIOUS
    <3>2. mem' = mem \/ mem' = [mem EXCEPT ![at].marked = TRUE]
      BY <2>1, <3>1 DEF MarkValue
    <3>3. CASE mem' = mem
      BY <3>3
    <3>4. CASE mem' = [mem EXCEPT ![at].marked = TRUE]
      <4>1. a \in DOMAIN mem /\ (a # at => mem'[a] = mem[a])
        BY <3>4
      <4>2. a = at => mem'[a] = [mem[a] EXCEPT !.marked = TRUE]
        BY <3>4, <4>1
      <4>3. mem[a] \in ObjectType
        BY <1>2, <4>1 DEF TypeOK, ObjectType
      <4>4. [mem[a] EXCEPT !.marked = TRUE].env = mem[a].env
        BY <4>3 DEF ObjectType
      <4> QED
        BY <4>1, <4>2, <4>4
    <3> QED
      BY <3>2, <3>3, <3>4
  <2>2. CASE Slide
    <3>1. PICK rest : rest = [b \in DOMAIN mem \ {index} |-> mem[b]]
      OBVIOUS
    <3>2. index \in DOMAIN mem
      BY <2>2, SlideFrom
    <3>3. mem' = Put(rest, index - gone, Settled(mem[index])) \/ mem' = rest
      BY <2>2, <3>1 DEF Slide
    <3>4. mem'[a] = Settled(mem[index]) \/ (a \in DOMAIN mem /\ mem'[a] = mem[a])
      BY <3>1, <3>3 DEF Put
    <3>5. Settled(mem[index]).env = mem[index].env
      <4>1. mem[index] \in ObjectType
        BY <1>2, <3>2 DEF TypeOK, ObjectType
      <4> QED
        BY <4>1 DEF Settled, ObjectType
    <3> QED
      BY <3>2, <3>4, <3>5
  <2>3. CASE RemapInternal
    <3>1. PICK v : v = RemappedAll(mem[index].refs)
      OBVIOUS
    <3>2. mem' = [mem EXCEPT ![index].refs = v]
      BY <2>3, <3>1 DEF RemapInternal
    <3>3. a \in DOMAIN mem /\ (a # index => mem'[a] = mem[a])
      BY <3>2
    <3>4. a = index => mem'[a] = [mem[a] EXCEPT !.refs = v]
      BY <3>2, <3>3
    <3>5. mem[a] \in ObjectType
      BY <1>2, <3>3 DEF TypeOK, ObjectType
    <3>6. [mem[a] EXCEPT !.refs = v].env = mem[a].env
      BY <3>5 DEF ObjectType
    <3> QED
      BY <3>3, <3>4, <3>6
  <2>4. CASE Marked \/ Slid \/ RemapRoots \/ LoseCharacter
    <3>1. mem' = mem
      BY <2>4 DEF Marked, Slid, RemapRoots, LoseCharacter, Stop, heap
    <3> QED
      BY <3>1
  <2> QED
    BY <2>1, <2>2, <2>3, <2>4 DEF Collecting
<1> QED
  BY <1>1, <1>3, <1>4

\* A creation ends with undefined behaviour or with a new object.
MadeNew(q, new) ==
  /\ ~Stale(q) /\ Grown(q, new) /\ Returned(q, new)
  /\ UNCHANGED <<frames, callStack, fault>>

LEMMA ConstructEnds ==
  ASSUME NEW q, Construct(q)
  PROVE  \/ Stale(q) /\ Stop("stale")
         \/ q.op = "quote" /\ ~Started(q) /\ HeadDestroyed /\ Stop("handle")
         \/ MadeNew(q, New)
<1>1. CASE ~(Stale(q) /\ Stop("stale")) /\ ~(q.op = "quote" /\ ~Started(q) /\ HeadDestroyed /\ Stop("handle"))
  <2>1. PICK new : new = New
    OBVIOUS
  <2>2. /\ ~Stale(q) /\ Grown(q, new) /\ Returned(q, new)
        /\ UNCHANGED <<frames, callStack, fault>>
    BY <1>1, <2>1, Zenon DEF Construct, Returned, Pushed, Grown
  <2> QED
    BY <2>1, <2>2 DEF MadeNew
<1> QED
  BY <1>1

\* What waits when there is a new object: nothing, or the builder of a list.
LEMMA ReturnedTo ==
  ASSUME NEW q \in Waiters, NEW new, Returned(q, new)
  PROVE  \/ native' = Idle /\ plist' = plist
         \/ q.op \in {"variadic", "quote"} /\ native'.op = q.op
         \/ q.op = "element" /\ native'.op = "quote" /\ plist' = plist
<1>1. q = [op |-> q.op, held |-> q.held, n |-> q.n, raw |-> q.raw, below |-> q.below,
           outer |-> q.outer]
  BY Zenon DEF Waiters
<1>2. [q EXCEPT !.n = @ - 1, !.held = <<>>,
                !.raw = IF q.op = "variadic" THEN @ ELSE new].op = q.op
  BY <1>1
<1>3. [q EXCEPT !.op = "quote"].op = "quote"
  BY <1>1
<1> QED
  BY <1>2, <1>3 DEF Returned, Pushed

\* An object gets no environment, or that which is running.
LEMMA ConstructedEnvs ==
  ASSUME RefInv, HeapInv, GoingOn, NEW q, q.op \in Creations, Ready(q), Fits(q),
         NEW new, new = New, Grown(q, new)
  PROVE  \A a \in DOMAIN mem' :
           \/ \E b \in DOMAIN mem : mem'[a].env = mem[b].env
           \/ mem'[a].env = 0
           \/ q.op \in Lambdas /\ mem'[a].env = Env
<1>1. /\ DOMAIN mem' = DOMAIN mem \union {end} /\ mem'[end].env = ConstructedEnv(q)
      /\ \A a \in DOMAIN mem : mem'[a].env = mem[a].env
  BY MemoryGrows
<1>2. KindOf[q.op] \in {"fn", "vfn"} => q.op \in Lambdas
  BY DEF KindOf, Creations, Lambdas
<1> QED
  BY <1>1, <1>2 DEF ConstructedEnv

\* An object is created at the top level, or it is not a function.
LEMMA LinkedConstruct ==
  ASSUME RefInv, HeapInv, GoingOn, Linked, NEW q, q.op \in Creations, Ready(q), Fits(q),
         q.op \in Lambdas => Env = TopLevel, Construct(q)
  PROVE  Linked'
<1>1. TypeOK
  BY DEF RefInv
<1>2. CASE \E f : Stop(f)
  <2>1. UNCHANGED <<mem, frames, callStack, native>>
    BY <1>2 DEF Stop, heap, roots
  <2> QED
    BY <1>1, <2>1, LinkedUnchanged
<1>3. CASE MadeNew(q, New)
  <2>1. PICK new : new = New
    OBVIOUS
  <2>2. Grown(q, new) /\ Returned(q, new) /\ callStack' = callStack /\ frames' = frames
    BY <1>3, <2>1 DEF MadeNew
  <2>3. \A a \in DOMAIN mem' : mem'[a].env \in {0, TopLevel}
    BY <2>1, <2>2, ConstructedEnvs DEF Linked, MadeAtTopLevel
  <2>4. native'.op \notin Lambdas
    <3>1. native' = Idle \/ native'.op \in {"variadic", "quote"}
      BY <2>2, ReturnedTo DEF Ready
    <3> QED
      BY <3>1 DEF Idle, Lambdas
  <2> QED
    BY <1>1, <2>2, <2>3, <2>4, LinkedStays
<1> QED
  BY <1>2, <1>3, ConstructEnds

\* The call of the collector.
LEMMA LinkedCollect ==
  ASSUME RefInv, Linked, NEW q, q.op \in Lambdas => Env = TopLevel, Collect(q)
  PROVE  Linked'
<1>1. UNCHANGED <<mem, frames, callStack>> /\ (native' = native \/ native' = q)
  BY DEF Collect, Stop, heap, roots
<1>2. \A a \in DOMAIN mem' : mem'[a].env \in {0, TopLevel}
  BY <1>1 DEF Linked, MadeAtTopLevel
<1> QED
  BY <1>1, <1>2, LinkedStays DEF RefInv

\* A creation, or the collection before it.
LEMMA LinkedCreate ==
  ASSUME RefInv, HeapInv, GoingOn, Linked, NEW q, q.op \in Creations, Ready(q),
         q.op \in Lambdas => Env = TopLevel, Create(q)
  PROVE  Linked'
  BY LinkedConstruct, LinkedCollect DEF Create

\* What the program does to its operands, and to its variables.
LEMMA OperandsStay ==
  ASSUME RefInv, PushConstant \/ Discard \/ Take \/ Get \/ Load \/ Store \/ Rebind \/ Recur
  PROVE  /\ UNCHANGED <<mem, callStack, plist, native>> /\ pc = "run" /\ native = Idle
         /\ \A i \in DOMAIN callStack :
              frames'[callStack[i]].parent = frames[callStack[i]].parent
         /\ ~Load => fault' = fault
<1>1. TypeOK
  BY DEF RefInv
<1>2. pc = "run" /\ native = Idle
  <2>1. pc = "run"
    BY DEF PushConstant, Discard, Take, Get, Load, Store, Rebind, Recur, Running
  <2> QED
    BY <2>1, RunHandles DEF RefInv
<1>3. CASE PushConstant \/ Discard \/ Take \/ Get
  <2>1. \E new : OnStack(new)
    BY <1>3 DEF PushConstant, Discard, Take, Get
  <2>2. UNCHANGED <<mem, frames, callStack, plist, native, fault>>
    BY <2>1 DEF OnStack, heap
  <2> QED
    BY <1>2, <2>2
<1>4. CASE Load
  <2>1. (\E new : OnStack(new)) \/ Stop("dangling")
    BY <1>4 DEF Load
  <2>2. UNCHANGED <<mem, frames, callStack, plist, native>>
    BY <2>1 DEF OnStack, Stop, heap, roots
  <2> QED
    BY <1>2, <1>4, <2>2
<1>5. CASE Store
  <2>1. PICK env : env = Env
    OBVIOUS
  <2>2. PICK v : v = Append(frames[env].vars, Top)
    OBVIOUS
  <2>3. /\ frames' = [frames EXCEPT ![env].vars = v]
        /\ UNCHANGED <<mem, callStack, plist, native, fault>>
    BY <1>5, <2>1, <2>2 DEF Store, heap
  <2>4. \A i \in DOMAIN callStack : frames'[callStack[i]].parent = frames[callStack[i]].parent
    BY <1>1, <2>3, StackTypes DEF TypeOK
  <2> QED
    BY <1>2, <2>3, <2>4
<1>6. CASE Rebind \/ Recur
  <2>1. /\ \E e \in Environments : \E v : frames' = [frames EXCEPT ![e].vars = v]
        /\ UNCHANGED <<mem, callStack, plist, native, fault>>
    <3>1. CASE Rebind
      <4>1. PICK e \in Lineage(Env) : \E i \in DOMAIN frames[e].vars :
              frames' = [frames EXCEPT ![e].vars[i] = Top]
        BY <3>1 DEF Rebind
      <4>2. PICK i \in DOMAIN frames[e].vars : frames' = [frames EXCEPT ![e].vars[i] = Top]
        BY <4>1
      <4>3. PICK v : v = [frames[e].vars EXCEPT ![i] = Top]
        OBVIOUS
      <4>4. frames' = [frames EXCEPT ![e].vars = v]
        BY <4>2, <4>3
      <4>5. e \in Environments
        BY DEF Lineage
      <4>6. UNCHANGED <<mem, callStack, plist, native, fault>>
        BY <3>1 DEF Rebind, heap
      <4> QED
        BY <4>4, <4>5, <4>6
    <3>2. CASE Recur
      <4>1. Env \in Environments
        BY <1>1, StackTypes
      <4>2. PICK env : env = Env
        OBVIOUS
      <4>3. /\ frames' = [frames EXCEPT ![env].vars = <<>>]
            /\ UNCHANGED <<mem, callStack, plist, native, fault>>
        BY <3>2, <4>2 DEF Recur, heap
      <4> QED
        BY <4>1, <4>2, <4>3
    <3> QED
      BY <1>6, <3>1, <3>2
  <2>2. PICK e, v : e \in Environments /\ frames' = [frames EXCEPT ![e].vars = v]
    BY <2>1
  <2>3. \A i \in DOMAIN callStack : frames'[callStack[i]].parent = frames[callStack[i]].parent
    BY <1>1, <2>2, StackTypes DEF TypeOK
  <2> QED
    BY <1>2, <2>1, <2>3
<1> QED
  BY <1>3, <1>4, <1>5, <1>6

\* The environments that are entered are below those on the call stack.
LEMMA LinkedEnvironments ==
  ASSUME RefInv, Linked, EnterLet \/ Call \/ Leave
  PROVE  Linked'
<1>1. TypeOK /\ StackLinked /\ MadeAtTopLevel
  BY DEF RefInv, Linked
<1>2. pc = "run" /\ native = Idle /\ UNCHANGED <<mem, native>>
  <2>1. pc = "run" /\ UNCHANGED <<mem, native>>
    BY DEF EnterLet, Call, Leave, Running, heap
  <2> QED
    BY <2>1, RunHandles DEF RefInv
<1>3. StackLinked'
  <2>1. CASE EnterLet
    <3>1. Enter(Env, operandStack)
      BY <2>1 DEF EnterLet
    <3>2. Env \in {callStack[j] : j \in DOMAIN callStack}
      BY <1>1, StackTypes
    <3> QED
      BY <1>1, <3>1, <3>2, LinkedEnter
  <2>2. CASE Call
    <3>1. Enter(mem[Top.at].env, Without(1)) /\ TopIs({"fn"})
      BY <2>2 DEF Call
    <3>2. Top.at \in DOMAIN mem
      BY <1>2, <3>1, TopIsAnObject
    <3>3. mem[Top.at].env \in {0} \union {callStack[j] : j \in DOMAIN callStack}
      <4>1. 1 \in DOMAIN callStack /\ callStack[1] = TopLevel
        BY <1>1, StackTypes DEF StackLinked
      <4> QED
        BY <1>1, <3>2, <4>1 DEF MadeAtTopLevel
    <3> QED
      BY <1>1, <3>1, <3>3, LinkedEnter
  <2>3. CASE Leave
    BY <1>1, <2>3, LinkedLeave
  <2> QED
    BY <2>1, <2>2, <2>3
<1>4. MadeAtTopLevel' /\ native'.op \notin Lambdas
  BY <1>1, <1>2 DEF MadeAtTopLevel, Idle, Lambdas
<1> QED
  BY <1>3, <1>4 DEF Linked

\* set-box! changes a reference of an object.
LEMMA LinkedSetBox ==
  ASSUME RefInv, Linked, SetBox
  PROVE  Linked'
<1>1. PICK v : v = <<Top>>
  OBVIOUS
<1>2. PICK at : at = operandStack[Len(operandStack) - 1].at
  OBVIOUS
<1>3. mem' = [mem EXCEPT ![at].refs = v] /\ UNCHANGED <<frames, callStack, native>>
  BY <1>1, <1>2 DEF SetBox
<1>4. \A a \in DOMAIN mem' : mem'[a].env \in {0, TopLevel}
  <2> SUFFICES ASSUME NEW a \in DOMAIN mem' PROVE mem'[a].env \in {0, TopLevel}
    OBVIOUS
  <2>1. a \in DOMAIN mem /\ (a # at => mem'[a] = mem[a])
    BY <1>3
  <2>2. a = at => mem'[a] = [mem[a] EXCEPT !.refs = v]
    BY <1>3, <2>1
  <2>3. mem[a] \in ObjectType
    BY <2>1 DEF RefInv, TypeOK, ObjectType
  <2>4. [mem[a] EXCEPT !.refs = v].env = mem[a].env
    BY <2>3 DEF ObjectType
  <2> QED
    BY <2>1, <2>2, <2>4 DEF Linked, MadeAtTopLevel
<1> QED
  BY <1>3, <1>4, LinkedStays DEF RefInv

\* Lists built by C++ code are for functions of the top level, too.
LEMMA LinkedLists ==
  ASSUME RefInv, FnInv, Linked,
         VariadicCall \/ Quote \/ QuoteWithin \/ Quoted \/ Called \/ FnLost
  PROVE  Linked'
<1>1. TypeOK /\ StackLinked /\ MadeAtTopLevel
  BY DEF RefInv, Linked
<1>2. MadeAtTopLevel'
  <2>1. mem' = mem
    BY DEF VariadicCall, Quote, QuoteWithin, Quoted, Called, FnLost, Stop, heap
  <2> QED
    BY <1>1, <2>1 DEF MadeAtTopLevel
<1>3. CASE \E f : Stop(f)
  <2>1. UNCHANGED <<frames, callStack, native>>
    BY <1>3 DEF Stop, roots
  <2> QED
    BY <1>1, <1>2, <2>1, LinkedStays DEF MadeAtTopLevel
<1>4. CASE ~(\E f : Stop(f)) /\ ~Called
  <2>1. UNCHANGED <<frames, callStack>> /\ native'.op \in {"none", "variadic", "quote"}
    <3>1. CASE VariadicCall \/ Quote \/ QuoteWithin
      BY <1>4, <3>1 DEF VariadicCall, Quote, QuoteWithin, roots, Idle
    <3>2. CASE Quoted
      <4>1. UNCHANGED <<frames, callStack>> /\ native' = Resumed
        BY <1>4, <3>2 DEF Quoted
      <4> QED
        BY <4>1 DEF Resumed, Idle
    <3> QED
      BY <1>4, <3>1, <3>2 DEF FnLost
  <2>2. native'.op \notin Lambdas
    BY <2>1 DEF Lambdas
  <2> QED
    BY <1>1, <1>2, <2>1, <2>2, LinkedStays DEF MadeAtTopLevel
<1>5. CASE Called
  <2>1. pc = "build" /\ native.op = "variadic" /\ Valid(native.raw)
    BY <1>5 DEF Called
  <2>2. handles[1].val = native.raw /\ ~IsChar(native.raw)
    BY <2>1 DEF FnInv
  <2>3. PICK env, stack : /\ env = mem[native.raw.at].env /\ native' = Idle
                          /\ Enter(env, stack)
    BY <1>5, <2>2 DEF Called
  <2>4. env \in {0, TopLevel}
    BY <1>1, <2>1, <2>2, <2>3 DEF Valid, MadeAtTopLevel
  <2>5. 1 \in DOMAIN callStack /\ callStack[1] = TopLevel
    BY <1>1, StackTypes DEF StackLinked
  <2>6. env \in {0} \union {callStack[j] : j \in DOMAIN callStack}
    BY <2>4, <2>5
  <2>7. StackLinked'
    BY <1>1, <2>3, <2>6, LinkedEnter
  <2>8. native'.op \notin Lambdas
    BY <2>3 DEF Idle, Lambdas
  <2> QED
    BY <1>2, <2>7, <2>8 DEF Linked
<1> QED
  BY <1>3, <1>4, <1>5

----------------------------------------------------------------------------------------
(* What the program creates. *)

\* How many handles there are.
LEMMA HandleLength == ASSUME TypeOK PROVE Len(handles) \in Nat
<1>1. handles \in Seq([val : Refs, prev : Nat, next : Nat])
  BY DEF TypeOK
<1> QED
  BY <1>1, ElementsOf

\* What the values of a sequence are.
LEMMA ValuesAre ==
  ASSUME NEW s \in Seq(Refs)
  PROVE  /\ ValuesOf(s) \in Seq(Int) /\ Len(ValuesOf(s)) = Len(s)
         /\ \A i \in 1..Len(s) : ValuesOf(s)[i] = Value(s[i])
<1>1. Len(s) \in Nat /\ DOMAIN s = 1..Len(s) /\ \A i \in 1..Len(s) : s[i] \in Refs
  BY ElementsOf
<1>2. \A r \in Refs : Value(r) \in Int
  BY RefType DEF Value
<1>3. ValuesOf(s) \in [1..Len(s) -> Int] /\ \A i \in 1..Len(s) : ValuesOf(s)[i] = Value(s[i])
  BY <1>1, <1>2 DEF ValuesOf
<1> QED
  BY <1>1, <1>3, SequenceOf

\* Values of one more operand, of one or two operands less, of the last ones.
LEMMA ValuesOfSome ==
  ASSUME NEW s \in Seq(Refs)
  PROVE  /\ \A r \in Refs : ValuesOf(Append(s, r)) = Append(ValuesOf(s), Value(r))
         /\ \A m \in Nat \ {0}, n \in 0..Len(s) :
              ValuesOf(SubSeq(s, m, n)) = SubSeq(ValuesOf(s), m, n)
         /\ s # <<>> => Last(ValuesOf(s)) = Value(Last(s))
         /\ ToSet(ValuesOf(s)) = {Value(r) : r \in ToSet(s)}
<1>1. /\ Len(s) \in Nat /\ DOMAIN s = 1..Len(s) /\ \A i \in 1..Len(s) : s[i] \in Refs
      /\ s # <<>> => Len(s) \in 1..Len(s)
  BY ElementsOf
<1>2. PICK v : v = ValuesOf(s)
  OBVIOUS
<1>3. PICK k : k = Len(s)
  OBVIOUS
<1>4. /\ v \in Seq(Int) /\ Len(v) = k /\ k \in Nat /\ DOMAIN v = 1..k
      /\ \A i \in 1..k : v[i] = Value(s[i])
  BY <1>1, <1>2, <1>3, ValuesAre
<1>5. ASSUME NEW r \in Refs PROVE ValuesOf(Append(s, r)) = Append(v, Value(r))
  <2>1. PICK t : t = Append(s, r)
    OBVIOUS
  <2>2. t \in Seq(Refs) /\ Len(t) = k + 1 /\ t[k + 1] = r /\ \A i \in 1..k : t[i] = s[i]
    BY <1>1, <1>3, <2>1
  <2>3. PICK u : u = ValuesOf(t)
    OBVIOUS
  <2>4. u \in Seq(Int) /\ Len(u) = k + 1 /\ \A i \in 1..k + 1 : u[i] = Value(t[i])
    BY <2>2, <2>3, ValuesAre
  <2>5. PICK w : w = Append(v, Value(r))
    OBVIOUS
  <2>6. Value(r) \in Int
    BY RefType DEF Value
  <2>7. w \in Seq(Int) /\ Len(w) = k + 1 /\ w[k + 1] = Value(r) /\ \A i \in 1..k : w[i] = v[i]
    BY <1>4, <2>5, <2>6
  <2>8. \A i \in 1..k + 1 : u[i] = w[i]
    BY <1>4, <2>2, <2>4, <2>7
  <2>9. u = w
    BY <1>4, <2>4, <2>7, <2>8
  <2> QED
    BY <2>1, <2>3, <2>5, <2>9
<1>6. ASSUME NEW m \in Nat \ {0}, NEW n \in 0..Len(s)
      PROVE  ValuesOf(SubSeq(s, m, n)) = SubSeq(v, m, n)
  <2>1. n \in Int /\ n <= k /\ n <= Len(s) /\ n <= Len(v)
    BY <1>1, <1>3, <1>4
  <2>2. PICK t : t = SubSeq(s, m, n)
    OBVIOUS
  <2>3. PICK l : l = IF m <= n THEN n - m + 1 ELSE 0
    OBVIOUS
  <2>4. l \in Nat /\ \A i \in 1..l : i + m - 1 \in 1..k
    BY <1>4, <2>1, <2>3
  <2>5. t \in Seq(Refs) /\ Len(t) = l /\ \A i \in 1..l : t[i] = s[i + m - 1]
    BY <1>1, <2>1, <2>2, <2>3
  <2>6. PICK w : w = SubSeq(v, m, n)
    OBVIOUS
  <2>7. w \in Seq(Int) /\ Len(w) = l /\ \A i \in 1..l : w[i] = v[i + m - 1]
    BY <1>4, <2>1, <2>3, <2>6
  <2>8. PICK u : u = ValuesOf(t)
    OBVIOUS
  <2>9. u \in Seq(Int) /\ Len(u) = l /\ \A i \in 1..l : u[i] = Value(t[i])
    BY <2>5, <2>8, ValuesAre
  <2>10. \A i \in 1..l : u[i] = w[i]
    BY <1>4, <2>4, <2>5, <2>7, <2>9
  <2>11. u = w
    BY <2>7, <2>9, <2>10, SeqEqual
  <2> QED
    BY <2>2, <2>6, <2>8, <2>11
<1>7. ASSUME s # <<>> PROVE Last(v) = Value(Last(s))
  <2>1. k \in 1..k /\ v # <<>>
    BY <1>1, <1>3, <1>4, <1>7
  <2>2. Last(v) = v[k] /\ Last(s) = s[k]
    BY <1>3, <1>4, <1>7, <2>1, LastOf
  <2> QED
    BY <1>4, <2>1, <2>2
<1>8. ToSet(v) = {Value(r) : r \in ToSet(s)}
  BY <1>1, <1>3, <1>4 DEF ToSet
<1> QED
  BY <1>2, <1>5, <1>6, <1>7, <1>8

\* What the program creates by itself is of what it has at hand.
Creating(q) ==
  /\ q.op \in OwnCreations \cap Ops /\ Ready(q) /\ Holds(q) /\ Create(q)
  /\ ToSet(q.held) \subseteq ToSet(operandStack) \union ToSet(immediates) \union {NullRef}
  /\ q.op \in Lambdas => Env = TopLevel \/ "closures" \in Ops

SomethingCreated == \E q : Creating(q)

LEMMA FreshIsHeld ==
  ASSUME RefInv, pc = "run",
         NEW op \in OwnCreations, Running(op), NEW held \in Seq(Refs), NEW n \in Nat,
         op = "cons" => Len(operandStack) >= 2,
         op = "documented" => n \in DOMAIN immediates,
         op \in {"str", "string", "int"} => held = <<>>,
         op \in Lambdas => Env = TopLevel \/ "closures" \in Ops,
         ToSet(held) \subseteq ToSet(operandStack) \union ToSet(immediates) \union {NullRef},
         NEW q, q = [op |-> op, held |-> held, n |-> n, raw |-> NullRef, below |-> 0, outer |-> <<>>],
         Create(q), Holds(q)
  PROVE  Creating(q)
<1>1. op \in Creations \union {"collect"} /\ op \notin BuilderOps /\ op \in Ops
  BY DEF OwnCreations, Creations, Running
<1>2. Ready(q) /\ q.op = op /\ q.held = held
  BY <1>1, FreshIsReady
<1> QED
  BY <1>1, <1>2 DEF Creating

\* Literals, strings, pairs, boxes and functions.
LEMMA ProgramCreates ==
  ASSUME RefInv, Literal \/ MakePair \/ MakeBox \/ MakeString \/ MakeLambda
  PROVE  pc = "run" /\ GoingOn /\ SomethingCreated
<1>1. pc = "run" /\ GoingOn
  BY Zenon DEF Literal, MakePair, MakeBox, MakeString, MakeLambda, Running, GoingOn
<1>2. <<>> \in Seq(Refs) /\ NullRef \in Refs /\ 0 \in Nat
  BY <1>1, AtHand
<1>3. operandStack \in Seq(Refs) /\ immediates \in Seq(Refs)
  BY DEF RefInv, TypeOK
<1> DEFINE Held == ToSet(operandStack) \union ToSet(immediates) \union {NullRef}
<1> HIDE DEF Held
<1>0. ASSUME NEW r \in Held, NEW h, h = <<r>> PROVE ToSet(h) \subseteq Held
  BY <1>0 DEF ToSet
<1>4. ASSUME NEW op \in {"int", "str", "string"}, Running(op),
             NEW q, q = [Idle EXCEPT !.op = op], Create(q)
      PROVE  SomethingCreated
  <2>2. q = [op |-> op, held |-> <<>>, n |-> 0, raw |-> NullRef, below |-> 0, outer |-> <<>>]
    BY <1>4 DEF Idle
  <2>3. op \in OwnCreations /\ op # "cons" /\ op # "documented" /\ op \notin Lambdas
    BY DEF OwnCreations, KindOf, BuilderOps, Lambdas
  <2>4. Holds(q)
    BY <2>2 DEF Holds
  <2> QED
    BY <1>1, <1>2, <1>4, <2>2, <2>3, <2>4, ToSetEmpty, FreshIsHeld DEF SomethingCreated
<1>5. ASSUME NEW str \in ToSet(immediates), Running("symbol"), NEW h, h = <<str>>,
             NEW q, q = [Idle EXCEPT !.op = "symbol", !.held = h], Create(q)
      PROVE  SomethingCreated
  <2>3. q = [op |-> "symbol", held |-> h, n |-> 0, raw |-> NullRef, below |-> 0, outer |-> <<>>]
    BY <1>5 DEF Idle
  <2>4. "symbol" \in OwnCreations /\ "symbol" \notin Lambdas
    BY DEF OwnCreations, KindOf, BuilderOps, Lambdas
  <2>5. str \in Refs /\ h \in Seq(Refs) /\ ValuesOf(h) = <<Value(str)>>
    <3>1. str \in Refs
      BY <1>3, ToSetOf
    <3> QED
      BY <1>5, <3>1 DEF ValuesOf
  <2>6. Value(str) \in ToSet(ValuesOf(immediates))
    BY <1>3, ValuesOfSome
  <2>7. Holds(q)
    BY <2>3, <2>5, <2>6 DEF Holds
  <2>8. ToSet(h) \subseteq Held
    BY <1>0, <1>5 DEF Held
  <2> QED
    BY <1>1, <1>2, <1>5, <2>3, <2>4, <2>5, <2>7, <2>8, FreshIsHeld DEF SomethingCreated, Held
<1>6. CASE Literal
  <2>1. CASE \E op \in {"int", "str"} : Running(op) /\ Create([Idle EXCEPT !.op = op])
    <3>1. PICK op \in {"int", "str"} : Running(op) /\ Create([Idle EXCEPT !.op = op])
      BY <2>1
    <3>2. PICK q : q = [Idle EXCEPT !.op = op]
      OBVIOUS
    <3>3. Create(q)
      BY <3>1, <3>2
    <3> QED
      BY <1>1, <1>4, <3>1, <3>2, <3>3
  <2>2. CASE ~\E op \in {"int", "str"} : Running(op) /\ Create([Idle EXCEPT !.op = op])
    <3>1. PICK str \in Strings :
            /\ Running("symbol")
            /\ Create([Idle EXCEPT !.op = "symbol", !.held = <<str>>])
      BY <1>6, <2>2 DEF Literal
    <3>2. Strings \subseteq ToSet(immediates)
      BY DEF Strings
    <3>3. PICK h : h = <<str>>
      OBVIOUS
    <3>4. PICK q : q = [Idle EXCEPT !.op = "symbol", !.held = h]
      OBVIOUS
    <3>5. Create(q) /\ Running("symbol") /\ str \in ToSet(immediates)
      BY <3>1, <3>2, <3>3, <3>4
    <3> QED
      BY <1>1, <1>5, <3>3, <3>4, <3>5
  <2> QED
    BY <2>1, <2>2
<1>7. CASE MakePair
  <2>0. PICK n : n = Len(operandStack)
    OBVIOUS
  <2>1. n >= 2 /\ n \in Nat /\ n - 1 \in Nat \ {0} /\ n \in 0..Len(operandStack) /\ n - 1 <= n
    BY <1>3, <1>7, <2>0 DEF MakePair
  <2>2. CASE Running("cons") /\ Create([Idle EXCEPT !.op = "cons"])
    <3>1. PICK q : q = [Idle EXCEPT !.op = "cons"]
      OBVIOUS
    <3>2. q = [op |-> "cons", held |-> <<>>, n |-> 0, raw |-> NullRef, below |-> 0, outer |-> <<>>]
      BY <3>1 DEF Idle
    <3>3. "cons" \in OwnCreations /\ "cons" \notin Lambdas
      BY DEF OwnCreations, KindOf, BuilderOps, Lambdas
    <3>4. Holds(q)
      BY <3>2 DEF Holds
    <3> QED
      BY <1>1, <1>2, <2>0, <2>1, <2>2, <3>1, <3>2, <3>3, <3>4, ToSetEmpty, FreshIsHeld
      DEF SomethingCreated
  <2>3. CASE ~(Running("cons") /\ Create([Idle EXCEPT !.op = "cons"]))
    <3>1. PICK h : h = <<operandStack[n - 1], Top>>
      OBVIOUS
    <3>2. PICK q : q = [Idle EXCEPT !.op = "consBuiltin", !.held = h]
      OBVIOUS
    <3>3. Create(q) /\ Running("consBuiltin")
      BY <1>7, <2>0, <2>3, <3>1, <3>2 DEF MakePair
    <3>4. q = [op |-> "consBuiltin", held |-> h, n |-> 0, raw |-> NullRef, below |-> 0, outer |-> <<>>]
      BY <3>2 DEF Idle
    <3>5. "consBuiltin" \in OwnCreations /\ "consBuiltin" \notin Lambdas
      BY DEF OwnCreations, KindOf, BuilderOps, Lambdas
    <3>6. Top = operandStack[n] /\ n \in 1..n
      BY <1>3, <2>0, <2>1, LastOf DEF Top
    <3>7. operandStack[n - 1] \in Refs /\ operandStack[n] \in Refs
      BY <1>3, <2>0, <2>1, ElementsOf
    <3>8. h \in Seq(Refs) /\ h = SubSeq(operandStack, n - 1, n)
      <4>1. PICK u : u = SubSeq(operandStack, n - 1, n)
        OBVIOUS
      <4>2. u \in Seq(Refs) /\ Len(u) = 2 /\ u[1] = operandStack[n - 1] /\ u[2] = operandStack[n]
        BY <1>3, <2>0, <2>1, <4>1
      <4>3. h \in Seq(Refs) /\ Len(h) = 2 /\ h[1] = operandStack[n - 1] /\ h[2] = operandStack[n]
        BY <3>1, <3>6, <3>7
      <4>4. \A i \in 1..2 : h[i] = u[i]
        BY <4>2, <4>3
      <4>5. h = u
        BY <4>2, <4>3, <4>4, SeqEqual
      <4> QED
        BY <4>1, <4>3, <4>5
    <3>9. ValuesOf(h) = SubSeq(ValuesOf(operandStack), n - 1, n)
      BY <1>3, <2>1, <3>8, ValuesOfSome
    <3>10. Holds(q)
      BY <2>0, <2>1, <3>4, <3>9 DEF Holds
    <3>11. ToSet(h) \subseteq ToSet(operandStack)
      BY <1>3, <2>1, <3>8, ToSetSub
    <3> QED
      BY <1>1, <1>2, <3>3, <3>4, <3>5, <3>8, <3>10, <3>11, FreshIsHeld DEF SomethingCreated
  <2> QED
    BY <2>2, <2>3
<1>8. CASE MakeBox
  <2>1. PICK h : h = <<Top>>
    OBVIOUS
  <2>2. PICK q : q = [Idle EXCEPT !.op = "box", !.held = h]
    OBVIOUS
  <2>3. Create(q) /\ Running("box") /\ operandStack # <<>>
    BY <1>8, <2>1, <2>2 DEF MakeBox
  <2>4. q = [op |-> "box", held |-> h, n |-> 0, raw |-> NullRef, below |-> 0, outer |-> <<>>]
    BY <2>2 DEF Idle
  <2>5. "box" \in OwnCreations /\ "box" \notin Lambdas
    BY DEF OwnCreations, KindOf, BuilderOps, Lambdas
  <2>6. Top \in Refs /\ Len(operandStack) >= 1
    <3>1. Len(operandStack) \in 1..Len(operandStack) /\ Top = operandStack[Len(operandStack)]
      BY <1>3, <2>3, ElementsOf, LastOf DEF Top
    <3> QED
      BY <1>3, <3>1, ElementsOf
  <2>7. h \in Seq(Refs) /\ ValuesOf(h) = <<Value(Top)>>
    BY <2>1, <2>6 DEF ValuesOf
  <2>8. Last(ValuesOf(operandStack)) = Value(Top)
    BY <1>3, <2>3, ValuesOfSome DEF Top
  <2>9. Holds(q)
    BY <2>4, <2>6, <2>7, <2>8 DEF Holds
  <2>10. Top \in ToSet(operandStack)
    BY <1>1, <2>3, AtHand
  <2>11. ToSet(h) \subseteq Held
    BY <1>0, <2>1, <2>10 DEF Held
  <2> QED
    BY <1>1, <1>2, <2>3, <2>4, <2>5, <2>7, <2>9, <2>11, FreshIsHeld DEF SomethingCreated, Held
<1>9. CASE MakeString
  <2>1. PICK q : q = [Idle EXCEPT !.op = "string"]
    OBVIOUS
  <2>2. Create(q) /\ Running("string")
    BY <1>9, <2>1 DEF MakeString
  <2> QED
    BY <1>1, <1>4, <2>1, <2>2
<1>10. CASE MakeLambda
  <2>1. Env = TopLevel \/ "closures" \in Ops
    BY <1>10 DEF MakeLambda
  <2>2. ASSUME NEW op \in {"lambda", "variadicLambda"}, Running(op), NEW h, h = <<NullRef>>,
               NEW q, q = [Idle EXCEPT !.op = op, !.held = h], Create(q)
        PROVE  SomethingCreated
    <3>3. q = [op |-> op, held |-> h, n |-> 0, raw |-> NullRef, below |-> 0, outer |-> <<>>]
      BY <2>2 DEF Idle
    <3>4. /\ op \in OwnCreations /\ op # "cons" /\ op # "documented"
          /\ op \notin {"str", "string", "int"}
      BY DEF OwnCreations, KindOf, BuilderOps
    <3>5. h \in Seq(Refs)
      BY <1>2, <2>2
    <3>6. ToSet(h) \subseteq Held
      BY <1>0, <2>2 DEF Held
    <3>7. Holds(q)
      BY <2>2, <3>3 DEF Holds
    <3> QED
      BY <1>1, <1>2, <2>1, <2>2, <3>3, <3>4, <3>5, <3>6, <3>7, FreshIsHeld
      DEF SomethingCreated, Held
  <2>3. ASSUME NEW i \in DOMAIN immediates, Running("documented"), NEW q,
               q = [Idle EXCEPT !.op = "documented", !.n = i], Create(q)
        PROVE  SomethingCreated
    <3>1. i \in Nat
      BY <1>3, ElementsOf
    <3>3. q = [op |-> "documented", held |-> <<>>, n |-> i, raw |-> NullRef, below |-> 0, outer |-> <<>>]
      BY <2>3 DEF Idle
    <3>4. "documented" \in OwnCreations
      BY DEF OwnCreations, KindOf, BuilderOps
    <3>6. Holds(q)
      BY <3>3 DEF Holds
    <3> QED
      BY <1>1, <1>2, <2>1, <2>3, <3>1, <3>3, <3>4, <3>6, ToSetEmpty, FreshIsHeld
      DEF SomethingCreated
  <2>4. CASE \E op \in {"lambda", "variadicLambda"} :
               Running(op) /\ Create([Idle EXCEPT !.op = op, !.held = <<NullRef>>])
    <3>1. PICK op \in {"lambda", "variadicLambda"} :
            Running(op) /\ Create([Idle EXCEPT !.op = op, !.held = <<NullRef>>])
      BY <2>4
    <3>2. PICK h : h = <<NullRef>>
      OBVIOUS
    <3>3. PICK q : q = [Idle EXCEPT !.op = op, !.held = h]
      OBVIOUS
    <3>4. Create(q)
      BY <3>1, <3>2, <3>3
    <3> QED
      BY <1>1, <2>2, <3>1, <3>2, <3>3, <3>4
  <2>5. CASE \E i \in DOMAIN immediates :
               Running("documented") /\ Create([Idle EXCEPT !.op = "documented", !.n = i])
    <3>1. PICK i \in DOMAIN immediates :
            Running("documented") /\ Create([Idle EXCEPT !.op = "documented", !.n = i])
      BY <2>5
    <3>2. PICK q : q = [Idle EXCEPT !.op = "documented", !.n = i]
      OBVIOUS
    <3>3. Create(q)
      BY <3>1, <3>2
    <3> QED
      BY <1>1, <2>3, <3>1, <3>2, <3>3
  <2> QED
    BY <1>10, <2>4, <2>5 DEF MakeLambda
<1> QED
  BY <1>1, <1>6, <1>7, <1>8, <1>9, <1>10

\* Remapping changes no value of a sequence whose objects are there.
LEMMA RemappedValues ==
  ASSUME TypeOK, IdsInv, NEW s \in Seq(Refs),
         \A r \in ToSet(s) : Found(r) /\ ~Gone(r),
         ~Astray(s)
  PROVE  ValuesOf(RemappedAll(s)) = ValuesOf(s)
<1>1. \A i \in DOMAIN s : s[i] \in Refs /\ Found(s[i]) /\ ~Gone(s[i]) /\ Still(s[i])
  BY ElementsOf, ToSetOf, StillOf
<1>2. ASSUME NEW i \in DOMAIN s PROVE Value(Remapped(s[i])) = Value(s[i])
  <2>1. PICK r : r = s[i]
    OBVIOUS
  <2>2. /\ IsChar(Remapped(r)) <=> IsChar(r)
        /\ Remapped(r).id = r.id
    BY <1>1, <2>1, RemappedIs
  <2>3. Value(Remapped(r)) = Value(r)
    BY <2>2 DEF Value
  <2> QED
    BY <2>1, <2>3
<1>3. DOMAIN RemappedAll(s) = DOMAIN s /\ \A i \in DOMAIN s : RemappedAll(s)[i] = Remapped(s[i])
  BY DEF RemappedAll
<1> QED
  BY <1>2, <1>3 DEF ValuesOf

\* The collector leaves operands and literals what they are.
LEMMA CollectingKeeps ==
  ASSUME RefInv, Collecting
  PROVE  /\ ValuesOf(operandStack') = ValuesOf(operandStack)
         /\ ValuesOf(immediates') = ValuesOf(immediates)
         /\ Len(operandStack') = Len(operandStack)
<1>1. CASE RemapRoots
  <2>1. /\ operandStack' = RemappedAll(operandStack) /\ immediates' = RemappedAll(immediates)
        /\ pc = "internal"
    BY <1>1 DEF RemapRoots
  <2>2. TypeOK /\ IdsInv /\ operandStack \in Seq(Refs) /\ immediates \in Seq(Refs)
    BY DEF RefInv, TypeOK
  <2>3. \A r \in RootSet : Found(r) /\ ~Gone(r)
    BY <2>1 DEF RefInv, InternalInv
  <2>4. \A r \in ToSet(operandStack) \union ToSet(immediates) : Found(r) /\ ~Gone(r)
    BY <2>3 DEF RootSet
  <2>9. ~Astray(operandStack) /\ ~Astray(immediates)
    BY <1>1 DEF RemapRoots, RootsAstray
  <2>5. ValuesOf(RemappedAll(operandStack)) = ValuesOf(operandStack)
    BY <2>2, <2>4, <2>9, RemappedValues
  <2>6. ValuesOf(RemappedAll(immediates)) = ValuesOf(immediates)
    BY <2>2, <2>4, <2>9, RemappedValues
  <2>7. \A r \in ToSet(operandStack) : Found(r) /\ Still(r)
    BY <2>2, <2>4, <2>9, StillOf
  <2>8. Len(RemappedAll(operandStack)) = Len(operandStack)
    BY <2>2, <2>7, RemappedAllIs
  <2> QED
    BY <2>1, <2>5, <2>6, <2>8
<1>2. CASE ~RemapRoots
  <2>1. operandStack' = operandStack /\ immediates' = immediates
    BY <1>2 DEF Collecting, MarkValue, Marked, Slide, Slid, RemapInternal, LoseCharacter,
       Stop, roots
  <2> QED
    BY <2>1
<1> QED
  BY <1>1, <1>2

\* Steps that leave alone what waits and what it holds, or after which nothing does.
LEMMA HoldUnchanged ==
  ASSUME HoldInv, plist' = plist,
         \/ native' = Idle
         \/ UNCHANGED <<native, immediates, operandStack>>
  PROVE  HoldInv'
<1>1. CASE native' = Idle
  BY <1>1 DEF HoldInv, Holds, Idle
<1>2. CASE UNCHANGED <<native, immediates, operandStack>>
  BY <1>2 DEF HoldInv, Holds
<1> QED
  BY <1>1, <1>2

\* A creation, when there is room.
LEMMA HoldConstruct ==
  ASSUME HoldInv, NEW q, q.op \in OwnCreations, Ready(q), Construct(q)
  PROVE  HoldInv'
<1>1. CASE \E f : Stop(f)
  <2>1. UNCHANGED <<native, immediates, operandStack, plist>>
    BY <1>1 DEF Stop, roots
  <2> QED
    BY <2>1, HoldUnchanged
<1>2. CASE MadeNew(q, New)
  <2>1. PICK new : new = New
    OBVIOUS
  <2>2. Returned(q, new)
    BY <1>2, <2>1 DEF MadeNew
  <2>3. native' = Idle /\ plist' = plist
    BY <2>2, ReturnedTo DEF Ready, OwnCreations, BuilderOps
  <2> QED
    BY <2>3, HoldUnchanged
<1> QED
  BY <1>1, <1>2, ConstructEnds

\* The call of the collector, which then waits for it.
LEMMA HoldCollect ==
  ASSUME TypeOK, HoldInv, NEW q, q.op \in OwnCreations \union {"collect"}, Holds(q), Collect(q)
  PROVE  HoldInv' /\ native' = q
<1>1. Len(handles) \in Nat /\ plist = 0
  BY HandleLength DEF HoldInv
<1>2. ~HeadDestroyed
  BY <1>1 DEF HeadDestroyed
<1>3. native' = q /\ UNCHANGED <<immediates, operandStack, plist>>
  BY <1>2 DEF Collect, roots
<1>4. Holds(native)'
  BY <1>3 DEF Holds
<1> QED
  BY <1>3, <1>4 DEF HoldInv

\* A creation, or the collection before it.
LEMMA HoldCreate ==
  ASSUME TypeOK, HoldInv, NEW q, q.op \in OwnCreations, Ready(q), Holds(q), Create(q)
  PROVE  HoldInv'
  BY HoldConstruct, HoldCollect DEF Create

\* What a program without lists built by C++ code does not do.
LEMMA NoneBuilt ==
  ASSUME NoListsBuilt, RefInv, HoldInv
  PROVE  /\ ~VariadicCall /\ ~FnLost /\ ~Called
         /\ ~Quote /\ ~Element /\ ~QuoteWithin /\ ~Push /\ ~Quoted
<1>1. ~VariadicCall /\ ~Quote
  BY DEF VariadicCall, Quote, Running, NoListsBuilt
<1>2. pc # "build"
  BY DEF RefInv, NativeInv, HoldInv, OwnCreations, BuilderOps
<1> QED
  BY <1>1, <1>2 DEF Element, Push, QuoteWithin, Quoted, Called, FnLost

\* The call that asks for a collection.
LEMMA CollectingFor ==
  ASSUME RefInv, CollectGarbage
  PROVE  /\ pc = "run" /\ "collect" \in Ops
         /\ \E q : q = [Idle EXCEPT !.op = "collect"] /\ q.op = "collect" /\ q.held = <<>>
                   /\ Collect(q)
<1>1. PICK q : q = [Idle EXCEPT !.op = "collect"]
  OBVIOUS
<1>2. Collect(q) /\ pc = "run" /\ "collect" \in Ops
  BY <1>1 DEF CollectGarbage, Running
<1>3. q.op = "collect" /\ q.held = <<>>
  BY <1>1 DEF Idle
<1> QED
  BY <1>1, <1>2, <1>3

\* All steps of a program in which C++ code builds no lists.
LEMMA HoldStep ==
  ASSUME NoListsBuilt
  PROVE  CollectorInv /\ HoldInv /\ [Next]_vars => HoldInv'
<1> SUFFICES ASSUME CollectorInv, HoldInv, [Next]_vars PROVE HoldInv'
  OBVIOUS
<1>1. RefInv /\ HeapInv /\ TypeOK
  BY DEF CollectorInv, RefInv
<1>2. CASE UNCHANGED vars
  <2>1. UNCHANGED <<plist, native, immediates, operandStack>>
    BY <1>2 DEF vars
  <2> QED
    BY <2>1, HoldUnchanged
<1>3. CASE Collecting
  <2>1. UNCHANGED <<plist, native>>
    BY <1>1, <1>3, CollectingEnvironments
  <2>2. Holds(native)'
    BY <1>1, <1>3, <2>1, CollectingKeeps DEF HoldInv, Holds
  <2> QED
    BY <2>1, <2>2 DEF HoldInv
<1>4. CASE Computing
  <2>1. CASE PushConstant \/ Discard \/ Take \/ Get \/ Load \/ Store \/ Rebind \/ Recur
    <3>1. plist' = plist /\ native' = Idle
      BY <1>1, <2>1, OperandsStay
    <3> QED
      BY <3>1, HoldUnchanged
  <2>2. CASE EnterLet \/ Call \/ Leave \/ SetBox
    <3>1. UNCHANGED <<plist, native>> /\ pc = "run"
      BY <2>2 DEF EnterLet, Call, Leave, SetBox, Running
    <3>2. native' = Idle
      BY <1>1, <3>1, RunHandles DEF RefInv
    <3> QED
      BY <3>1, <3>2, HoldUnchanged
  <2>3. CASE Literal \/ MakePair \/ MakeBox \/ MakeString \/ MakeLambda
    <3>1. PICK q : Creating(q)
      BY <1>1, <2>3, ProgramCreates DEF SomethingCreated
    <3> QED
      BY <1>1, <3>1, HoldCreate DEF Creating
  <2>4. CASE CreateAgain
    <3>1. pc = "collected" /\ native.op \in OwnCreations /\ Ready(native)
      BY <1>1, <2>4 DEF CreateAgain, HoldInv, KindOf, RefInv, NativeInv
    <3>2. CASE Fits(native)
      BY <2>4, <3>1, <3>2, HoldConstruct DEF CreateAgain
    <3>3. CASE ~Fits(native)
      <4>1. UNCHANGED <<plist, native, immediates, operandStack>>
        BY <2>4, <3>3 DEF CreateAgain, roots
      <4> QED
        BY <4>1, HoldUnchanged
    <3> QED
      BY <3>2, <3>3
  <2>5. CASE CollectGarbage
    <3>1. PICK q : q.op = "collect" /\ q.held = <<>> /\ Collect(q)
      BY <1>1, <2>5, CollectingFor
    <3>2. Holds(q)
      BY <3>1 DEF Holds
    <3> QED
      BY <1>1, <3>1, <3>2, HoldCollect
  <2>6. CASE Collected
    <3>1. native' = Idle /\ plist' = plist
      BY <2>6 DEF Collected
    <3> QED
      BY <3>1, HoldUnchanged
  <2> QED
    BY <1>1, <1>4, <2>1, <2>2, <2>3, <2>4, <2>5, <2>6, NoneBuilt DEF Computing
<1> QED
  BY <1>2, <1>3, <1>4 DEF Next

\* All steps of a program with functions made at the top level.
LEMMA LinkedStep ==
  ASSUME "closures" \notin Ops
  PROVE  CollectorInv /\ Linked /\ [Next]_vars => Linked'
<1> SUFFICES ASSUME CollectorInv, Linked, [Next]_vars PROVE Linked'
  OBVIOUS
<1>1. RefInv /\ HeapInv /\ TypeOK
  BY DEF CollectorInv, RefInv
<1>2. CASE UNCHANGED vars
  <2>1. UNCHANGED <<mem, frames, callStack, native>>
    BY <1>2 DEF vars
  <2> QED
    BY <1>1, <2>1, LinkedUnchanged
<1>3. CASE Collecting
  <2>1. /\ UNCHANGED <<callStack, native>>
        /\ \A i \in DOMAIN callStack : frames'[callStack[i]].parent = frames[callStack[i]].parent
        /\ \A a \in DOMAIN mem' : \E b \in DOMAIN mem : mem'[a].env = mem[b].env
    BY <1>1, <1>3, CollectingEnvironments
  <2>2. \A a \in DOMAIN mem' : mem'[a].env \in {0, TopLevel}
    BY <2>1 DEF Linked, MadeAtTopLevel
  <2> QED
    BY <1>1, <2>1, <2>2, LinkedStays
<1>4. CASE Computing
  <2>1. CASE PushConstant \/ Discard \/ Take \/ Get \/ Load \/ Store \/ Rebind \/ Recur
    BY <1>1, <2>1, OperandsStay, LinkedUnchanged
  <2>2. CASE EnterLet \/ Call \/ Leave
    BY <1>1, <2>2, LinkedEnvironments
  <2>3. CASE Literal \/ MakePair \/ MakeBox \/ MakeString \/ MakeLambda
    <3>1. GoingOn /\ \E q : Creating(q)
      BY <1>1, <2>3, ProgramCreates DEF SomethingCreated
    <3>2. PICK q : Creating(q)
      BY <3>1
    <3>3. q.op \in Creations /\ Ready(q) /\ Create(q) /\ (q.op \in Lambdas => Env = TopLevel)
      BY <3>2 DEF Creating, OwnCreations, Creations
    <3> QED
      BY <1>1, <3>1, <3>3, LinkedCreate
  <2>4. CASE CreateAgain
    <3>1. /\ pc = "collected" /\ native.op \in Creations /\ Ready(native) /\ GoingOn
          /\ native.op \in Lambdas => Env = TopLevel
      BY <1>1, <2>4 DEF CreateAgain, Creations, RefInv, NativeInv, GoingOn, Linked
    <3>2. CASE Fits(native)
      BY <1>1, <2>4, <3>1, <3>2, LinkedConstruct DEF CreateAgain
    <3>3. CASE ~Fits(native)
      <4>1. UNCHANGED <<mem, frames, callStack, native>>
        BY <2>4, <3>3 DEF CreateAgain, heap, roots
      <4> QED
        BY <1>1, <4>1, LinkedUnchanged
    <3> QED
      BY <3>2, <3>3
  <2>5. CASE CollectGarbage
    <3>1. PICK q : q.op = "collect" /\ Collect(q)
      BY <1>1, <2>5, CollectingFor
    <3>2. q.op \notin Lambdas
      BY <3>1 DEF Lambdas
    <3> QED
      BY <1>1, <3>1, <3>2, LinkedCollect
  <2>6. CASE Collected
    <3>1. native' = Idle /\ UNCHANGED <<mem, frames, callStack>>
      BY <2>6 DEF Collected, heap
    <3>2. native'.op \notin Lambdas
      BY <3>1 DEF Idle, Lambdas
    <3> QED
      BY <1>1, <3>1, <3>2, LinkedStays DEF Linked, MadeAtTopLevel
  <2>7. CASE SetBox
    BY <1>1, <2>7, LinkedSetBox
  <2>8. CASE VariadicCall \/ Quote \/ QuoteWithin \/ Quoted \/ Called \/ FnLost
    BY <1>1, <2>8, LinkedLists DEF CollectorInv
  <2>9. CASE Element \/ Push
    <3>1. GoingOn /\ \E q : Building(q)
      BY <1>1, <2>9, BuilderCreates DEF SomethingBuilt
    <3>2. PICK q : Building(q)
      BY <3>1
    <3>3. q.op \in Creations /\ Ready(q) /\ Create(q) /\ q.op \notin Lambdas
      BY <3>2 DEF Building, BuilderOps, Lambdas
    <3> QED
      BY <1>1, <3>1, <3>3, LinkedCreate
  <2> QED
    BY <1>4, <2>1, <2>2, <2>3, <2>4, <2>5, <2>6, <2>7, <2>8, <2>9 DEF Computing
<1> QED
  BY <1>2, <1>3, <1>4 DEF Next

\* The initial states are of both kinds.
LEMMA FlatStart == Init => FlatInv
<1> SUFFICES ASSUME Init PROVE FlatInv
  OBVIOUS
<1>1. /\ callStack = <<TopLevel>> /\ frames = [e \in Environments |-> Free]
      /\ DOMAIN mem = {0} /\ mem[0].env = 0
      /\ native = Idle /\ plist = 0
  BY DEF Init
<1>2. DOMAIN callStack = {1} /\ callStack[1] = TopLevel /\ TopLevel \in Environments
  BY <1>1, SizeAssumption DEF TopLevel
<1>3. StackLinked
  BY <1>1, <1>2 DEF StackLinked, Free
<1>4. MadeAtTopLevel
  BY <1>1 DEF MadeAtTopLevel
<1>5. Holds(native) /\ native.op = "none"
  BY <1>1 DEF Idle, Holds
<1> QED
  BY <1>1, <1>3, <1>4, <1>5 DEF FlatInv, Linked, HoldInv, Lambdas

\* The steps of a flat program keep it one.
LEMMA FlatStep ==
  ASSUME FlatProgram
  PROVE  CollectorInv /\ FlatInv /\ [Next]_vars => FlatInv'
<1>1. "closures" \notin Ops /\ NoListsBuilt
  BY DEF FlatProgram, NoListsBuilt
<1> QED
  BY <1>1, LinkedStep, HoldStep DEF FlatInv

----------------------------------------------------------------------------------------
(* Where faults come from. *)

\* Steps without undefined behaviour, after which nothing waits but what did.
LEMMA TraceUnchanged ==
  ASSUME TraceInv, UNCHANGED <<native, plist>>, fault' = "none"
  PROVE  TraceInv'
  BY DEF TraceInv, FaultsTraced

\* Nothing waits any more.
LEMMA TraceIdle ==
  ASSUME TraceInv, native' = Idle, plist' = plist, fault' = "none"
  PROVE  TraceInv'
  BY DEF TraceInv, FaultsTraced, Idle

\* Undefined behaviour leaves all else as it was.
LEMMA TraceStop ==
  ASSUME TraceInv, NEW f, Stop(f), FaultsTraced'
  PROVE  TraceInv'
<1>1. UNCHANGED <<native, plist>>
  BY DEF Stop, roots
<1> QED
  BY <1>1 DEF TraceInv

\* What is created is of the program, and made of nothing that the program lacks.
Traced(q) ==
  /\ q.op \in Ops \union {"element"}
  /\ q.op = "element" => "quote" \in Ops
  /\ q.op \in {"lambda", "variadicLambda"} => q.held = <<NullRef>>
  /\ q.op \in {"int", "element"} => q.held = <<>>

\* A handle that is destroyed and still the head is of a list that was built.
LEMMA TraceCollect ==
  ASSUME RefInv, TraceInv, fault = "none", NEW q, Traced(q), Collect(q), pc # "collected"
  PROVE  TraceInv'
<1>1. CASE HeadDestroyed
  <2>1. Stop("handle")
    BY <1>1 DEF Collect
  <2>2. Len(handles) \in Nat
    BY HandleLength DEF RefInv
  <2>3. ~NoListsBuilt
    BY <1>1, <2>2 DEF HeadDestroyed, TraceInv
  <2>4. FaultsTraced'
    <3>1. fault' = "handle" /\ UNCHANGED <<handles, plist, pc>>
      BY <2>1 DEF Stop, roots
    <3> QED
      BY <1>1, <2>3, <3>1 DEF FaultsTraced, HeadDestroyed, NoListsBuilt
  <2> QED
    BY <2>1, <2>4, TraceStop
<1>2. CASE ~HeadDestroyed
  <2>1. native' = q /\ UNCHANGED <<plist, fault>>
    BY <1>2 DEF Collect, roots
  <2> QED
    BY <2>1 DEF TraceInv, Traced, FaultsTraced
<1> QED
  BY <1>1, <1>2

\* A new object, after which at most a list is built.
LEMMA TraceConstructed ==
  ASSUME TraceInv, fault = "none", NEW q \in Waiters, Traced(q), MadeNew(q, New)
  PROVE  TraceInv'
<1>1. PICK new : new = New
  OBVIOUS
<1>2. Returned(q, new) /\ fault' = "none"
  BY <1>1 DEF MadeNew
<1>3. CASE native' = Idle /\ plist' = plist
  BY <1>2, <1>3, TraceIdle
<1>4. CASE q.op \in {"variadic", "quote"} /\ native'.op = q.op
  BY <1>2, <1>4 DEF TraceInv, FaultsTraced, Traced, NoListsBuilt
<1>5. CASE q.op = "element" /\ native'.op = "quote" /\ plist' = plist
  BY <1>2, <1>5 DEF TraceInv, FaultsTraced, Traced, NoListsBuilt
<1> QED
  BY <1>2, <1>3, <1>4, <1>5, ReturnedTo

\* What the machine's own instructions make a pair or a function of is on the stack and
\* among the literals still when it is made.
LEMMA GivenFromPlace ==
  ASSUME RefInv, GoingOn, NEW q, Ready(q), q.op \in {"cons", "documented"}
  PROVE  \A i \in DOMAIN Given(q) : Valid(Given(q)[i])
<1>1. operandStack \in Seq(Refs) /\ immediates \in Seq(Refs)
  BY DEF RefInv, TypeOK
<1>2. \A r \in ToSet(operandStack) \union ToSet(immediates) : Valid(r)
  BY AtHand
<1>3. CASE q.op = "cons"
  <2>1. PICK m : m = Len(operandStack) - 1
    OBVIOUS
  <2>2. PICK n : n = Len(operandStack)
    OBVIOUS
  <2>3. m \in Nat \ {0} /\ n \in Int /\ n <= Len(operandStack)
    BY <1>1, <1>3, <2>1, <2>2 DEF Ready
  <2>4. Given(q) = SubSeq(operandStack, m, n)
    BY <1>3, <2>1, <2>2 DEF Given
  <2>5. Given(q) \in Seq(Refs) /\ ToSet(Given(q)) \subseteq ToSet(operandStack)
    BY <1>1, <2>3, <2>4, ToSetSub
  <2>6. \A i \in DOMAIN Given(q) : Given(q)[i] \in ToSet(Given(q))
    BY <2>5, ToSetOf
  <2> QED
    BY <1>2, <2>5, <2>6
<1>4. CASE q.op = "documented"
  <2>1. Given(q) = <<immediates[q.n]>> /\ q.n \in DOMAIN immediates
    BY <1>4 DEF Given, Ready
  <2>2. immediates[q.n] \in ToSet(immediates)
    BY <1>1, <2>1, ToSetOf
  <2>3. DOMAIN Given(q) = {1} /\ Given(q)[1] = immediates[q.n]
    BY <2>1
  <2> QED
    BY <1>2, <2>2, <2>3
<1> QED
  BY <1>3, <1>4

\* What a creation is given is there when it was begun only now, and in any case when
\* it is not a copy.
LEMMA FreshGiven ==
  ASSUME RefInv, GoingOn, NEW q, Ready(q), q.op \in Creations, Traced(q),
         \/ q.op \notin Copies
         \/ \A i \in DOMAIN q.held : Valid(q.held[i])
  PROVE  \A i \in DOMAIN Given(q) : Valid(Given(q)[i])
<1>1. CASE q.op \in {"cons", "documented"}
  BY <1>1, GivenFromPlace
<1>2. CASE q.op \notin {"cons", "documented"}
  <2>1. Given(q) = q.held
    BY <1>2 DEF Given
  <2>2. CASE q.op \in Copies
    BY <2>1, <2>2
  <2>3. CASE q.op \notin Copies
    <3>1. q.op \in {"int", "str", "string", "lambda", "variadicLambda", "element"}
      BY <1>2, <2>3 DEF Creations, KindOf, Copies
    <3>2. q.held = <<>> \/ q.held = <<NullRef>>
      BY <3>1 DEF Ready, Traced
    <3>3. Valid(NullRef)
      BY AtHand
    <3> QED
      BY <2>1, <3>2, <3>3
  <2> QED
    BY <2>2, <2>3
<1> QED
  BY <1>1, <1>2

\* A creation that is begun now: only the pointer to the back of a list may be stale.
LEMMA TraceCreate ==
  ASSUME RefInv, GoingOn, pc # "collected", TraceInv, fault = "none",
         NEW q \in Waiters, q.op \in Creations, Ready(q), Traced(q), Create(q),
         \A i \in DOMAIN q.held : Valid(q.held[i]),
         q.op = "quote" => native.op = "quote" /\ native.raw = q.raw /\ native.below = q.below
  PROVE  TraceInv'
<1>1. CASE ~Fits(q)
  BY <1>1, TraceCollect DEF Create
<1>2. CASE Fits(q)
  <2>1. Construct(q)
    BY <1>2 DEF Create
  <2>2. CASE Stale(q) /\ Stop("stale")
    <3>1. \A i \in DOMAIN Given(q) : Valid(Given(q)[i])
      BY FreshGiven
    <3>2. IsPushBack(q) /\ ~Valid(q.raw)
      BY <2>2, <3>1 DEF Stale
    <3>3. IsPushBack(native) /\ ~Valid(native.raw)
      BY <3>2 DEF IsPushBack, Started
    <3>4. fault' = "stale" /\ UNCHANGED <<mem, handles, native>>
      BY <2>2 DEF Stop, heap, roots
    <3>5. FaultsTraced'
      BY <3>3, <3>4 DEF FaultsTraced, IsPushBack, Started, Valid
    <3> QED
      BY <2>2, <3>5, TraceStop
  <2>3. CASE q.op = "quote" /\ ~Started(q) /\ HeadDestroyed /\ Stop("handle")
    <3>1. fault' = "handle" /\ UNCHANGED <<handles, plist, pc>> /\ "quote" \in Ops
      BY <2>3 DEF Stop, roots, Traced
    <3>2. FaultsTraced'
      BY <2>3, <3>1 DEF FaultsTraced, HeadDestroyed
    <3> QED
      BY <2>3, <3>2, TraceStop
  <2>4. CASE MadeNew(q, New)
    BY <2>4, TraceConstructed
  <2> QED
    BY <2>1, <2>2, <2>3, <2>4, ConstructEnds
<1> QED
  BY <1>1, <1>2

\* One that the collector has run for: copies may be stale.
LEMMA TraceAgain ==
  ASSUME RefInv, TraceInv, fault = "none", CreateAgain
  PROVE  TraceInv'
<1>1. pc = "collected" /\ native.op \in Creations /\ GoingOn
  BY DEF CreateAgain, Creations, GoingOn
<1>2. /\ native \in Waiters /\ Ready(native) /\ ~HeadDestroyed
  BY <1>1 DEF RefInv, NativeInv, HandlesInv
<1>3. Traced(native)
  BY <1>1 DEF TraceInv, Traced, Creations, KindOf
<1>4. CASE ~Fits(native)
  <2>1. UNCHANGED <<native, plist, fault>>
    BY <1>4 DEF CreateAgain, roots
  <2> QED
    BY <2>1, TraceUnchanged
<1>5. CASE Fits(native)
  <2>1. Construct(native)
    BY <1>5 DEF CreateAgain
  <2>2. CASE Stale(native) /\ Stop("stale")
    <3>1. fault' = "stale" /\ UNCHANGED <<native, pc>>
      BY <2>2 DEF Stop
    <3>2. native.op \in Copies
      <4> SUFFICES ASSUME native.op \notin Copies PROVE FALSE
        OBVIOUS
      <4>1. \A i \in DOMAIN Given(native) : Valid(Given(native)[i])
        BY <1>1, <1>2, <1>3, FreshGiven
      <4>2. ~IsPushBack(native)
        BY DEF IsPushBack, Copies
      <4> QED
        BY <2>2, <4>1, <4>2 DEF Stale
    <3>3. FaultsTraced'
      BY <1>1, <3>1, <3>2 DEF FaultsTraced
    <3> QED
      BY <2>2, <3>3, TraceStop
  <2>3. CASE MadeNew(native, New)
    BY <1>2, <1>3, <2>3, TraceConstructed
  <2> QED
    BY <1>2, <2>1, <2>2, <2>3, ConstructEnds
<1> QED
  BY <1>4, <1>5

\* A program with functions made at the top level only, or any other one.
Seen == "closures" \in Ops \/ Linked

\* A variable that is loaded is lost only where the collector does not look.
LEMMA TraceLoad ==
  ASSUME RefInv, Seen, TraceInv, fault = "none", Load
  PROVE  TraceInv'
<1>1. pc = "run" /\ GoingOn /\ AtRest /\ TypeOK
  BY DEF Load, Running, GoingOn, AtRest, RefInv
<1>2. PICK e \in Lineage(Env) : \E i \in DOMAIN frames[e].vars :
        IF Valid(frames[e].vars[i])
        THEN OnStack(Append(operandStack, frames[e].vars[i]))
        ELSE Stop("dangling")
  BY DEF Load
<1>3. PICK i \in DOMAIN frames[e].vars :
        IF Valid(frames[e].vars[i])
        THEN OnStack(Append(operandStack, frames[e].vars[i]))
        ELSE Stop("dangling")
  BY <1>2
<1>4. CASE Valid(frames[e].vars[i])
  <2>1. OnStack(Append(operandStack, frames[e].vars[i]))
    BY <1>3, <1>4
  <2>2. UNCHANGED <<native, plist, fault>>
    BY <2>1 DEF OnStack
  <2> QED
    BY <2>2, TraceUnchanged
<1>5. CASE ~Valid(frames[e].vars[i])
  <2>1. Stop("dangling")
    BY <1>3, <1>5
  <2>2. "closures" \in Ops
    <3> SUFFICES ASSUME Linked PROVE FALSE
      BY DEF Seen
    <3>1. \E new : OnStack(new)
      BY LinkedLoad DEF Linked
    <3>2. fault' = fault /\ fault' = "dangling"
      BY <2>1, <3>1 DEF OnStack, Stop
    <3> QED
      BY <3>2
  <2>3. e \in Environments
    BY DEF Lineage
  <2>4. frames[e].vars \in Seq(Refs)
    BY <1>1, <2>3, FrameTypes DEF RefSeqs
  <2>5. frames[e].vars[i] \in ToSet(frames[e].vars)
    BY <2>4, ToSetOf
  <2>6. e \notin ToSet(callStack)
    <3> SUFFICES ASSUME NEW j \in DOMAIN callStack, e = callStack[j] PROVE FALSE
      BY <1>1, StackTypes DEF ToSet
    <3>1. \A r \in ToSet(frames[e].vars) : Valid(r)
      BY <1>1, FramesStay
    <3> QED
      BY <1>5, <2>5, <3>1
  <2>7. \A a \in DOMAIN mem : mem[a].env # e
    <3> SUFFICES ASSUME NEW a \in DOMAIN mem, mem[a].env = e PROVE FALSE
      OBVIOUS
    <3>1. e # 0
      BY <2>3, SizeAssumption
    <3>2. frames[e].vars[i] \in ChildSet(mem[a])
      BY <2>5, <3>1 DEF ChildSet, EnvSet
    <3> QED
      BY <1>1, <1>5, <3>2 DEF RefInv, RestInv
  <2>8. e \in OutOfSight
    BY <1>5, <2>6, <2>7 DEF OutOfSight, AllValid
  <2>9. fault' = "dangling" /\ UNCHANGED <<mem, frames, callStack>>
    BY <2>1 DEF Stop, heap, roots
  <2>10. OutOfSight' = OutOfSight
    BY <2>9 DEF OutOfSight, Lineage, Env, AllValid, Valid
  <2>11. FaultsTraced'
    BY <2>2, <2>8, <2>9, <2>10 DEF FaultsTraced
  <2> QED
    BY <2>1, <2>11, TraceStop
<1> QED
  BY <1>4, <1>5

\* A quoted list is done: it is lost only when the head is destroyed.  Or a call finds
\* its function lost.
LEMMA TraceBuilt ==
  ASSUME RefInv, TraceInv, fault = "none", Quoted \/ QuoteWithin \/ Called \/ FnLost
  PROVE  TraceInv'
<1>1. pc = "build" /\ GoingOn /\ TypeOK /\ HandlesInv
  BY DEF Quoted, QuoteWithin, Called, FnLost, GoingOn, RefInv
<1>2. CASE Called
  BY <1>2, TraceIdle DEF Called
<1>3. CASE FnLost
  <2>1. Stop("stale") /\ native.op = "variadic" /\ ~Valid(native.raw)
    BY <1>3 DEF FnLost
  <2>2. fault' = "stale" /\ UNCHANGED <<mem, pc, native>>
    BY <2>1 DEF Stop, heap
  <2>3. FaultsTraced'
    BY <1>1, <2>1, <2>2 DEF FaultsTraced, Valid
  <2> QED
    BY <2>1, <2>3, TraceStop
<1>4. CASE QuoteWithin
  <2>1. native.op = "quote" /\ native'.op = "quote" /\ UNCHANGED <<plist, fault>>
    BY <1>4 DEF QuoteWithin, Idle, roots
  <2> QED
    BY <2>1 DEF TraceInv, FaultsTraced
<1>5. CASE Quoted /\ Stop("dangling")
  <2>1. native.op = "quote" /\ native.n = 0
    BY <1>5 DEF Quoted
  <2>2. PICK list : list = IF Started(native) THEN Last(handles).val ELSE NullRef
    OBVIOUS
  <2>3. fault' = "dangling" /\ UNCHANGED <<handles, plist, native>>
    BY <1>5 DEF Stop, roots
  <2>4. ~Valid(list)
    BY <1>1, <1>5, <2>2, <2>3 DEF Quoted
  <2>5. HeadDestroyed
    <3> SUFFICES ASSUME ~HeadDestroyed PROVE FALSE
      OBVIOUS
    <3>1. Started(native) /\ list = Last(handles).val
      <4>1. Valid(NullRef)
        BY <1>1, AtHand
      <4> QED
        BY <2>2, <2>4, <4>1
    <3>2. /\ Len(handles) \in Nat /\ native.below \in Nat /\ Len(handles) > native.below
          /\ DOMAIN handles = 1..Len(handles)
          /\ handles # <<>> => Last(handles) = handles[Len(handles)]
          /\ handles = <<>> => Len(handles) = 0
      <4>1. handles \in Seq(HandleType)
        BY <1>1 DEF TypeOK, HandleType
      <4>2. native \in Waiters
        BY DEF RefInv, NativeInv
      <4> QED
        BY <3>1, <4>1, <4>2, LastOf, ElementsOf, WaitersHave DEF Started
    <3>3. PICK k : k = Len(handles)
      OBVIOUS
    <3>4. k \in Nat /\ k > 0
      BY <3>2, <3>3
    <3>5. handles # <<>> /\ k \in DOMAIN handles
      BY <3>2, <3>3, <3>4
    <3>6. plist \in Nat /\ plist >= k /\ ~(plist > k)
      BY <1>1, <3>3, <3>5 DEF HandlesInv, HeadDestroyed, TypeOK
    <3>7. plist = k
      BY <3>4, <3>6
    <3> QED
      BY <1>1, <2>4, <3>1, <3>2, <3>3, <3>5, <3>7, AtHand
  <2>6. FaultsTraced'
    BY <2>1, <2>3, <2>5 DEF FaultsTraced, HeadDestroyed
  <2> QED
    BY <1>5, <2>6, TraceStop
<1>6. CASE Quoted /\ ~Stop("dangling")
  <2>1. native.op = "quote" /\ native' = Resumed /\ UNCHANGED <<plist, fault>>
    BY <1>6 DEF Quoted
  <2>2. native'.op \in {"none", "quote"}
    BY <2>1 DEF Resumed, Idle
  <2> QED
    BY <2>1, <2>2 DEF TraceInv, FaultsTraced
<1> QED
  BY <1>2, <1>3, <1>4, <1>5, <1>6

\* A character that a compaction would move lies above the heap, and something has gone.
LEMMA AstrayIs ==
  ASSUME TypeOK, NEW rs \in Seq(Refs), Astray(rs)
  PROVE  "get" \in Ops /\ Above \in Storage /\ breaks # <<>>
<1>1. PICK i \in DOMAIN rs : IsChar(rs[i]) /\ Shift(breaks, rs[i].at) # 0
  BY DEF Astray
<1>2. PICK at : at = rs[i].at
  OBVIOUS
<1>3. at \in Int /\ at \in Storage /\ "get" \in Ops
  BY <1>1, <1>2, ElementsOf, RefType
<1>4. /\ breaks \in Breaks
      /\ \A k \in 1..Len(breaks) : breaks[k].at \in Addresses
  <2>1. breaks \in Breaks
    BY DEF TypeOK, Breaks
  <2>2. DOMAIN breaks = 1..Len(breaks) /\ \A k \in 1..Len(breaks) : breaks[k] \in [at : Addresses, size : Nat]
    BY <2>1, ElementsOf DEF Breaks
  <2> QED
    BY <2>1, <2>2
<1>5. \E k \in 1..Len(breaks) : breaks[k].at < at
  BY <1>1, <1>2, <1>3, <1>4, ShiftNone
<1>6. PICK k \in 1..Len(breaks) : breaks[k].at < at
  BY <1>5
<1>7. breaks # <<>>
  <2> SUFFICES ASSUME breaks = <<>> PROVE FALSE
    OBVIOUS
  <2>1. 1..Len(breaks) = {}
    OBVIOUS
  <2> QED
    BY <2>1
<1>8. at # Below
  BY <1>4, <1>6 DEF Addresses, Below
<1> QED
  BY <1>3, <1>7, <1>8, SizeAssumption

\* Compact loses no character but by moving a reference to it.
LEMMA TraceCharacter ==
  ASSUME RefInv, HeapInv, TraceInv, LoseCharacter
  PROVE  TraceInv'
<1>1. TypeOK /\ HandlesInv /\ pc = "internal" /\ Stop("shifted") /\ ~HeadDestroyed
  BY DEF RefInv, HandlesInv, LoseCharacter
<1>2. \E rs \in Seq(Refs) : Astray(rs)
  <2>1. CASE index < end
    <3>1. index \in DOMAIN mem
      BY <1>1, <2>1, SizeAssumption DEF RefInv, InternalInv, TypeOK, Addresses
    <3>2. mem[index].refs \in Seq(Refs) /\ Astray(mem[index].refs)
      BY <1>1, <2>1, <3>1, ObjectTypes DEF LoseCharacter, RefSeqs
    <3> QED
      BY <3>2
  <2>2. CASE ~(index < end)
    <3>1. RootsAstray
      BY <2>2 DEF LoseCharacter
    <3>2. CASE \E e \in GatheredFrames : Astray(frames[e].vars)
      <4>1. PICK e \in GatheredFrames : Astray(frames[e].vars)
        BY <3>2
      <4>2. e \in Environments
        BY <1>1, <4>1 DEF GatheredFrames, Lineage, TypeOK
      <4> QED
        BY <1>1, <4>1, <4>2, FrameTypes DEF RefSeqs
    <3>3. CASE Astray(immediates) \/ Astray(operandStack)
      BY <1>1, <3>3 DEF TypeOK
    <3>4. CASE Astray([i \in DOMAIN Along[plist] |-> handles[Along[plist][i]].val])
      BY <1>1, <3>4, HandleRoots
    <3> QED
      BY <3>1, <3>2, <3>3, <3>4 DEF RootsAstray
  <2> QED
    BY <2>1, <2>2
<1>3. "get" \in Ops /\ Above \in Storage /\ breaks # <<>>
  BY <1>1, <1>2, AstrayIs
<1>4. fault' = "shifted" /\ UNCHANGED <<pc, breaks>>
  BY <1>1 DEF Stop, locals
<1>5. FaultsTraced'
  BY <1>1, <1>3, <1>4 DEF FaultsTraced
<1> QED
  BY <1>1, <1>5, TraceStop

\* C++ code begins to build a list.
LEMMA TraceLists ==
  ASSUME RefInv, TraceInv, fault = "none", VariadicCall \/ Quote
  PROVE  TraceInv'
<1>1. CASE VariadicCall /\ HeadDestroyed
  <2>1. /\ Stop("handle") /\ "variadic" \in Ops /\ pc = "run"
    BY <1>1 DEF VariadicCall, Running
  <2>2. fault' = "handle" /\ UNCHANGED <<handles, plist, pc>>
    BY <2>1 DEF Stop, roots
  <2>3. FaultsTraced'
    BY <1>1, <2>1, <2>2 DEF FaultsTraced, HeadDestroyed
  <2> QED
    BY <2>1, <2>3, TraceStop
<1>2. CASE VariadicCall /\ ~HeadDestroyed
  <2>1. native'.op = "variadic" /\ "variadic" \in Ops /\ fault' = "none"
    BY <1>2 DEF VariadicCall, Running, Idle
  <2> QED
    BY <2>1 DEF TraceInv, FaultsTraced, NoListsBuilt
<1>3. CASE Quote
  <2>1. native'.op = "quote" /\ "quote" \in Ops /\ fault' = "none" /\ plist' = plist
    BY <1>3 DEF Quote, Running, Idle, roots
  <2> QED
    BY <2>1 DEF TraceInv, FaultsTraced, NoListsBuilt
<1> QED
  BY <1>1, <1>2, <1>3

\* All steps, of any program.
LEMMA TraceStep ==
  CollectorInv /\ Seen /\ TraceInv /\ [Next]_vars => TraceInv'
<1> SUFFICES ASSUME CollectorInv, Seen, TraceInv, [Next]_vars PROVE TraceInv'
  OBVIOUS
<1>1. RefInv /\ HeapInv /\ TypeOK
  BY DEF CollectorInv, RefInv
<1>2. CASE UNCHANGED vars
  <2>1. UNCHANGED <<mem, frames, callStack, handles, plist, pc, native, fault>>
    BY <1>2 DEF vars
  <2>2. FaultsTraced'
    <3>1. UNCHANGED breaks
      BY <1>2 DEF vars
    <3>2. OutOfSight' = OutOfSight
      BY <2>1 DEF OutOfSight, Lineage, Env, AllValid, Valid
    <3> QED
      BY <2>1, <3>1, <3>2 DEF TraceInv, FaultsTraced, Valid, IsPushBack, Started, HeadDestroyed
  <2> QED
    BY <2>1, <2>2 DEF TraceInv
<1>3. CASE Collecting /\ fault = "none" /\ ~LoseCharacter
  BY <1>1, <1>3, CollectingEnvironments, TraceUnchanged
<1>5. CASE LoseCharacter
  BY <1>1, <1>5, TraceCharacter
<1>4. CASE Computing /\ fault = "none"
  <2>1. CASE PushConstant \/ Discard \/ Take \/ Get \/ Store \/ Rebind \/ Recur
    <3>1. UNCHANGED <<native, plist, fault>>
      BY <2>1 DEF PushConstant, Discard, Take, Get, Store, Rebind, Recur, OnStack
    <3> QED
      BY <1>4, <3>1, TraceUnchanged
  <2>2. CASE EnterLet \/ Call \/ Leave \/ SetBox
    <3>1. UNCHANGED <<native, plist, fault>>
      BY <2>2 DEF EnterLet, Call, Leave, SetBox
    <3> QED
      BY <1>4, <3>1, TraceUnchanged
  <2>3. CASE Literal \/ MakePair \/ MakeBox \/ MakeString \/ MakeLambda
    <3>1. pc = "run" /\ GoingOn /\ \E q : Creating(q)
      BY <1>1, <2>3, ProgramCreates DEF SomethingCreated
    <3>2. PICK q : Creating(q)
      BY <3>1
    <3>3. /\ q.op \in OwnCreations \cap Ops /\ Ready(q) /\ Holds(q) /\ Create(q)
          /\ ToSet(q.held) \subseteq ToSet(operandStack) \union ToSet(immediates) \union {NullRef}
      BY <3>2 DEF Creating
    <3>4. q \in Waiters /\ q.op \in Creations /\ q.op \notin BuilderOps /\ q.held \in Seq(Refs)
      BY <3>3, WaitersHave DEF Ready, OwnCreations, Creations
    <3>5. \A i \in DOMAIN q.held : Valid(q.held[i])
      BY <3>1, <3>3, <3>4, <1>1, AtHand, ToSetOf
    <3>6. Traced(q)
      BY <3>3, <3>4 DEF Traced, Holds, BuilderOps
    <3> QED
      BY <1>1, <1>4, <3>1, <3>3, <3>4, <3>5, <3>6, TraceCreate DEF BuilderOps
  <2>4. CASE CreateAgain
    BY <1>1, <1>4, <2>4, TraceAgain
  <2>5. CASE CollectGarbage
    <3>1. /\ pc = "run" /\ "collect" \in Ops
          /\ \E q : q.op = "collect" /\ Collect(q)
      BY <1>1, <2>5, CollectingFor
    <3>2. PICK q : q.op = "collect" /\ Collect(q)
      BY <3>1
    <3>3. Traced(q)
      BY <3>1, <3>2 DEF Traced
    <3> QED
      BY <1>1, <1>4, <3>1, <3>2, <3>3, TraceCollect
  <2>6. CASE Collected
    <3>1. native' = Idle /\ UNCHANGED <<plist, fault>>
      BY <2>6 DEF Collected
    <3> QED
      BY <1>4, <3>1, TraceIdle
  <2>7. CASE Load
    BY <1>1, <1>4, <2>7, TraceLoad
  <2>8. CASE VariadicCall \/ Quote
    BY <1>1, <1>4, <2>8, TraceLists
  <2>9. CASE Quoted \/ QuoteWithin \/ Called \/ FnLost
    BY <1>1, <1>4, <2>9, TraceBuilt
  <2>10. CASE Element \/ Push
    <3>1. GoingOn /\ pc = "build" /\ \E q : Building(q)
      BY <1>1, <2>10, BuilderCreates DEF SomethingBuilt
    <3>2. PICK q : Building(q)
      BY <3>1
    <3>3. /\ q.op \in BuilderOps /\ q.op \in Creations /\ Ready(q) /\ Create(q)
          /\ \A i \in DOMAIN q.held : Valid(q.held[i])
          /\ q.raw = native.raw /\ q.below = native.below
          /\ \/ native.op = "quote" /\ q.op = "element" /\ q.held = <<>>
             \/ native.op = q.op
      BY <3>2 DEF Building
    <3>4. native.op \in {"variadic", "quote"} /\ native.op \in Ops
      BY <1>1, <3>1 DEF RefInv, NativeInv, TraceInv
    <3>5. Traced(q)
      BY <3>3, <3>4 DEF Traced
    <3> QED
      BY <1>1, <1>4, <3>1, <3>3, <3>4, <3>5, TraceCreate DEF Ready
  <2> QED
    BY <1>4, <2>1, <2>2, <2>3, <2>4, <2>5, <2>6, <2>7, <2>8, <2>9, <2>10 DEF Computing
<1> QED
  BY <1>2, <1>3, <1>4, <1>5 DEF Next

\* Whichever program it is.
LEMMA SeenStep == CollectorInv /\ Seen /\ [Next]_vars => Seen'
<1>1. CASE "closures" \in Ops
  BY <1>1 DEF Seen
<1>2. CASE "closures" \notin Ops
  BY <1>2, LinkedStep DEF Seen
<1> QED
  BY <1>1, <1>2

\* The invariant that leads back from faults, in all states.
LEMMA TraceAlways == Spec => []TraceInv
<1>1. Init => Seen /\ TraceInv
  <2> SUFFICES ASSUME Init PROVE Seen /\ TraceInv
    OBVIOUS
  <2>1. native = Idle /\ plist = 0 /\ fault = "none"
    BY DEF Init
  <2>2. TraceInv
    BY <2>1 DEF TraceInv, FaultsTraced, Idle
  <2> QED
    BY <2>2, FlatStart DEF Seen, FlatInv
<1> QED
  BY <1>1, CollectorAlways, SeenStep, TraceStep, PTL DEF Spec

\* Any program of the model's operations, with any heap: it stops at no other fault, and
\* in no other state, than those that FaultsTraced names, pointers that C++ code keeps and
\* characters above the heap included.  So the collector takes all that the program can
\* see for roots but the variables above those of a function and all handles but the
\* newest, and the machine's own instructions never use a reference from before a
\* collection.
\* Code: mark, remapInternalPointers and compact (gc.cpp), PersistentBase,
\* LazyListBuilder, the loop of Call (vm.cpp).
THEOREM FaultsAreTraced == Spec => []FaultsTraced
<1>1. TraceInv => FaultsTraced
  BY DEF TraceInv
<1> QED
  BY <1>1, TraceAlways, PTL

\* A plain program makes its functions at the top level, no C++ code has references of its
\* own while it creates something, and its characters, if it reads any, lie below the heap;
\* it may define, set and clear variables as it likes.  It never comes upon a reference that
\* the collector has lost, with any heap and any number of environments.
\* Code: mark (gc.cpp), which takes all environments of the call stack as roots; the
\* instructions of vm.cpp, which leave their operands on the stack until they have made
\* their result.
THEOREM PlainProgramsAreUnfaulted ==
  ASSUME PlainProgram
  PROVE  Spec => []Unfaulted
<1>1. CollectorInv /\ TraceInv => Unfaulted
  <2> SUFFICES ASSUME CollectorInv, TraceInv PROVE Unfaulted
    OBVIOUS
  <2>1. fault \in {"none", "dangling", "stale", "handle", "shifted"}
    BY DEF CollectorInv, RefInv, TypeOK
  <2>2. FaultsTraced /\ native.op \in Ops \union {"none", "element"}
    BY DEF TraceInv
  <2>3. /\ Ops \cap {"closures", "variadic", "quote"} = {}
        /\ Ops \cap {"consBuiltin", "box", "symbol"} = {}
        /\ "get" \in Ops => Above \notin Storage
    <3>1. Above \notin {Below}
      BY SizeAssumption DEF Above, Below
    <3> QED
      BY <3>1 DEF PlainProgram, FlatProgram
  <2>4. native.op \notin Copies
    BY <2>2, <2>3 DEF Copies
  <2>5. fault # "dangling"
    BY <2>2, <2>3, <2>4 DEF FaultsTraced, Copies
  <2>6. fault # "stale"
    BY <2>2, <2>4 DEF FaultsTraced, IsPushBack, Copies
  <2>7. fault # "handle"
    BY <2>2, <2>3 DEF FaultsTraced
  <2>8. fault # "shifted"
    BY <2>2, <2>3 DEF FaultsTraced
  <2> QED
    BY <2>1, <2>5, <2>6, <2>7, <2>8 DEF Unfaulted
<1> QED
  BY <1>1, CollectorAlways, TraceAlways, PTL
========================================================================================
